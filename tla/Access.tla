-------------------------------- MODULE Access --------------------------------
(* Who may do what: the permissions of the roles, what every route of the API    *)
(* asks for, the guards a request passes one after another, and the rows the     *)
(* workspace's database client lets its handler reach. Changes of role are       *)
(* Membership's; here they come from outside, between any two steps.             *)
EXTENDS Naturals, FiniteSets, TLC

CONSTANTS
  Requests,       \* requests the API serves at the same time
  Users,
  Spaces,      \* workspaces
  Rows,        \* ids of tenant-owned rows
  Asked,       \* the routes that are called
  Given,       \* the roles that are given
  NoRole,      \* no ACTIVE workspace_members row
  NoSpace

VARIABLES
  signedIn,     \* whether the user's session is live
  member,      \* the user's role in the workspace
  stored,      \* the row: its workspace_id; (history) the workspace of its last writer, and the
               \* one that writer's update named in its data
  request      \* what each request is doing; (history) the roles its caller held meanwhile

accessVars == <<signedIn, member, stored, request>>

-----------------------------------------------------------------------------
(* Roles and routes.                                                           *)

ReaderRights == {"workspace:read", "vehicle:read", "service:read", "ownership:read", "document:read"}
EditorRights == ReaderRights \cup
  {"vehicle:create", "vehicle:update", "service:write", "odometer:write", "ownership:write",
   "fuel:write", "expense:read", "expense:write", "document:write", "reminder:manage",
   "report:read", "export:create"}
AdminRights == EditorRights \cup
  {"workspace:update", "member:invite", "member:update_role", "member:remove",
   "vehicle:delete", "document:delete"}
Permissions == AdminRights \cup {"workspace:delete", "workspace:billing"}

Matrix ==
  [OWNER |-> Permissions, ADMIN |-> AdminRights, EDITOR |-> EditorRights,
   DRIVER |-> ReaderRights \cup {"odometer:write", "fuel:write"},
   VIEWER |-> ReaderRights \cup {"expense:read", "report:read"}]
WorkspaceRoles == DOMAIN Matrix

ASSUME AccessConstants == NoRole \notin WorkspaceRoles

\* A route that declares no permission asks only for membership.
Allowed(matrix, role, needs) == role \in DOMAIN matrix /\ (needs = "none" \/ needs \in matrix[role])

Reads(needs, names) == [n \in names |-> [needs |-> needs, writes |-> FALSE]]
Writes(needs, names) == [n \in names |-> [needs |-> needs, writes |-> TRUE]]
\* Groups of routes as one table; no route is in two of them.
Table(groups) ==
  [n \in UNION {DOMAIN g : g \in groups} |-> (CHOOSE g \in groups : n \in DOMAIN g)[n]]

WorkspaceRoutes == Reads("workspace:read", {"workspace.get", "workspace.dashboard"})
MemberRoutes ==
  Table({Reads("workspace:read", {"members.list"}), Reads("member:invite", {"invitations.list"}),
    Writes("member:update_role", {"members.updateRole"}), Writes("member:remove", {"members.remove"}),
    Writes("workspace:read", {"members.leave"}), Writes("workspace:update", {"members.transfer"}),
    Writes("member:invite", {"invitations.create", "invitations.revoke"})})
VehicleRoutes ==
  Table({Reads("vehicle:read", {"vehicles.list", "vehicles.deleted", "vehicles.get", "vehicles.timeline",
                                "vehicles.odometer", "vehicles.current"}),
    Writes("vehicle:create", {"vehicles.create"}), Writes("odometer:write", {"vehicles.addOdometer"}),
    Writes("vehicle:update", {"vehicles.status"}),
    Writes("vehicle:delete", {"vehicles.remove", "vehicles.restore"})})
ServiceRoutes ==
  Table({Reads("service:read", {"services.categories", "services.list", "services.get",
                                "services.ofVehicle", "services.costs"}),
    Writes("service:write", {"services.create", "services.update", "services.remove"})})
MaintenanceRoutes ==
  Table({Reads("vehicle:read", {"maintenance.due", "maintenance.list", "maintenance.completions"}),
    Writes("reminder:manage", {"maintenance.create", "maintenance.template", "maintenance.update",
                               "maintenance.remove", "maintenance.complete"})})
ReminderRoutes ==
  Table({Reads("vehicle:read", {"reminders.list", "reminders.summary"}),
    Writes("reminder:manage", {"reminders.snooze", "reminders.dismiss", "reminders.complete"})})
OwnershipRoutes ==
  Table({Reads("ownership:read", {"inspections.list", "inspections.get", "insurance.list", "tax.list"}),
    Writes("ownership:write",
      {"inspections.create", "inspections.update", "inspections.remove", "advisories.update",
       "insurance.create", "insurance.update", "insurance.remove",
       "tax.create", "tax.update", "tax.remove"})})
WarrantyRoutes ==
  Table({Reads("ownership:read", {"warranties.list", "warranties.get", "warranties.ofVehicle"}),
    Writes("ownership:write", {"warranties.create", "warranties.update", "warranties.remove"})})
TyreRoutes ==
  Table({Reads("ownership:read", {"tyres.list", "tyres.get", "tyres.ofVehicle"}),
    Writes("ownership:write", {"tyres.create", "tyres.update", "tyres.fit", "tyres.takeOff",
                               "tyres.tread", "tyres.remove"})})
FuelRoutes ==
  Table({Reads("vehicle:read", {"fuel.list", "fuel.economy", "fuel.trend"}),
    Writes("fuel:write", {"fuel.create", "fuel.update", "fuel.remove"})})
ExpenseRoutes ==
  Table({Reads("expense:read", {"expenses.categories", "expenses.list", "expenses.summary"}),
    Writes("expense:write", {"expenses.create", "expenses.update", "expenses.remove"})})
DocumentRoutes ==
  Table({Reads("document:read", {"documents.list", "documents.download"}),
    Writes("document:write", {"documents.start", "documents.finalise", "documents.update"}),
    Writes("document:delete", {"documents.remove"})})
ReportRoutes == Reads("report:read", {"reports.costs", "reports.fleet"})
\* Asking for the download of an expired export marks it EXPIRED.
ExportRoutes ==
  Table({Reads("report:read", {"exports.list", "exports.get"}), Writes("report:read", {"exports.download"}),
    Writes("export:create", {"exports.create"})})
PreferenceRoutes == Table({Reads("none", {"preferences.get"}), Writes("none", {"preferences.set"})})

Routes ==
  Table({WorkspaceRoutes, MemberRoutes, VehicleRoutes, ServiceRoutes, MaintenanceRoutes,
    ReminderRoutes, OwnershipRoutes, WarrantyRoutes, TyreRoutes, FuelRoutes, ExpenseRoutes,
    DocumentRoutes, ReportRoutes, ExportRoutes, PreferenceRoutes})

-----------------------------------------------------------------------------
(* The staff realm's own roles and routes.                                     *)

WatcherRights == {"admin:metrics:read", "admin:support_access:read", "admin:queues:read",
                  "admin:email:read", "admin:audit:read"}
StaffPermissions ==
  WatcherRights \cup {"admin:queues:manage", "admin:email:manage", "admin:users:read",
    "admin:users:suspend", "admin:workspaces:read", "admin:billing:read", "admin:billing:manage",
    "admin:flags:read", "admin:flags:manage", "admin:admins:manage",
    "admin:support_access:request", "admin:support_access:revoke"}
StaffMatrix ==
  [SUPER_ADMIN |-> StaffPermissions,
   OPERATIONS |-> WatcherRights \cup {"admin:queues:manage", "admin:email:manage", "admin:flags:read"},
   SUPPORT |-> (WatcherRights \ {"admin:queues:read"}) \cup
     {"admin:users:read", "admin:users:suspend", "admin:workspaces:read", "admin:support_access:request"},
   BILLING |-> {"admin:metrics:read", "admin:users:read", "admin:workspaces:read",
                "admin:billing:read", "admin:billing:manage"},
   READ_ONLY |-> WatcherRights]

ConsoleRoutes ==
  Table({Reads("admin:email:read", {"emails", "emails.stats", "suppressions"}),
    Writes("admin:email:manage", {"suppressions.release"}), Reads("admin:queues:read", {"queues"}),
    Reads("admin:metrics:read", {"metrics"}), Reads("admin:audit:read", {"audit"})})
SupportRoutes ==
  Table({Writes("admin:support_access:request", {"grants.request"}),
    Reads("admin:support_access:read", {"grants.list"}),
    Writes("admin:support_access:read", {"grants.revoke"}),
    Reads("admin:workspaces:read", {"customer.summary", "customer.vehicles", "customer.documents"})})
StaffRoutes == Table({ConsoleRoutes, SupportRoutes})

StaffMay(role, n) == Allowed(StaffMatrix, role, StaffRoutes[n].needs)

\* revoke: giving one's own grant back needs no more than seeing the register.
MayRevoke(role, own) ==
  /\ StaffMay(role, "grants.revoke")
  /\ own \/ Allowed(StaffMatrix, role, "admin:support_access:revoke")

-----------------------------------------------------------------------------
(* One request: the session's guard, the workspace's guard, the handler.        *)

NoRequest == [pc |-> "idle", by |-> NoRole, space |-> NoSpace, route |-> "none", held |-> {}]
NoRow == [home |-> NoSpace, by |-> NoSpace, sent |-> NoSpace]

AccessInit ==
  /\ signedIn = [u \in Users |-> TRUE]
  /\ member \in [Users -> [Spaces -> Given \cup {NoRole}]]
  /\ stored = [x \in Rows |-> NoRow]
  /\ request = [c \in Requests |-> NoRequest]

SetRequest(c, r) == request' = [request EXCEPT ![c] = r]
Answered(c) == SetRequest(c, NoRequest)
Moves(c, pc) == SetRequest(c, [request[c] EXCEPT !.pc = pc])

Send(c, u, w, n) ==
  /\ request[c].pc = "idle"
  /\ SetRequest(c, [pc |-> "session", by |-> u, space |-> w, route |-> n, held |-> {member[u][w]}])
  /\ UNCHANGED <<signedIn, member, stored>>

PassSession(c) ==
  /\ request[c].pc = "session"
  /\ IF signedIn[request[c].by] THEN Moves(c, "member") ELSE Answered(c)
  /\ UNCHANGED <<signedIn, member, stored>>

\* The role and its permission are read here, once, for the whole request.
PassWorkspace(c) ==
  LET q == request[c] IN
  /\ q.pc = "member"
  /\ IF Allowed(Matrix, member[q.by][q.space], Routes[q.route].needs) THEN Moves(c, "run") ELSE Answered(c)
  /\ UNCHANGED <<signedIn, member, stored>>

\* forWorkspace: a filter is narrowed to the workspace and a unique key is completed
\* with it, whatever workspace the caller names in it. A new row is given it. What an
\* update sets is passed on as it is: data that names a workspace sends the row there.
Widened(w, named, wanted) == {x \in wanted : stored[x].home = named}
Narrowed(w, named, wanted) == {x \in wanted : stored[x].home = named /\ stored[x].home = w}
Completed(w, named, wanted) == {x \in wanted : stored[x].home = w}
HomedAsNamed(w, named) == named
Homed(w, named) == w
Updated(home, data) == IF data = NoSpace THEN home ELSE data

Stores(xs, w, data) ==
  stored' = [x \in Rows |-> IF x \in xs THEN [home |-> Updated(stored[x].home, data), by |-> w, sent |-> data]
                            ELSE stored[x]]

ReadRows(c) ==
  /\ request[c].pc = "run" /\ ~Routes[request[c].route].writes
  /\ Answered(c)
  /\ UNCHANGED <<signedIn, member, stored>>

\* data = NoSpace for data that names no workspace, as every handler's does today.
WriteMany(c, named, wanted, data) ==
  /\ request[c].pc = "run" /\ Routes[request[c].route].writes
  /\ Stores(Narrowed(request[c].space, named, wanted), request[c].space, data)
  /\ Answered(c)
  /\ UNCHANGED <<signedIn, member>>

WriteOne(c, named, x, data) ==
  /\ request[c].pc = "run" /\ Routes[request[c].route].writes
  /\ Stores(Completed(request[c].space, named, {x}), request[c].space, data)
  /\ Answered(c)
  /\ UNCHANGED <<signedIn, member>>

CreateRow(c, named, x) ==
  /\ request[c].pc = "run" /\ Routes[request[c].route].writes /\ stored[x] = NoRow
  /\ stored' = [stored EXCEPT ![x] =
       [home |-> Homed(request[c].space, named), by |-> request[c].space, sent |-> NoSpace]]
  /\ Answered(c)
  /\ UNCHANGED <<signedIn, member>>

-----------------------------------------------------------------------------
(* Meanwhile: a sign-out, and what other members do to this one.               *)

SessionEnds(u) ==
  /\ signedIn[u] /\ signedIn' = [signedIn EXCEPT ![u] = FALSE]
  /\ UNCHANGED <<member, stored, request>>

SignsBack(u) ==
  /\ ~signedIn[u] /\ signedIn' = [signedIn EXCEPT ![u] = TRUE]
  /\ UNCHANGED <<member, stored, request>>

RoleChanges(u, w, role) ==
  /\ member[u][w] # role
  /\ member' = [member EXCEPT ![u][w] = role]
  /\ request' = [c \in Requests |-> IF request[c].by = u /\ request[c].space = w
                              THEN [request[c] EXCEPT !.held = @ \cup {role}] ELSE request[c]]
  /\ UNCHANGED <<signedIn, stored>>

AccessNext ==
  \/ \E c \in Requests :
       \/ PassSession(c) \/ PassWorkspace(c) \/ ReadRows(c)
       \/ \E u \in Users, w \in Spaces, n \in Asked : Send(c, u, w, n)
       \/ \E named \in Spaces :
            \/ \E x \in Rows : CreateRow(c, named, x)
            \/ \E data \in Spaces \cup {NoSpace} :
                 \/ \E wanted \in SUBSET Rows : WriteMany(c, named, wanted, data)
                 \/ \E x \in Rows : WriteOne(c, named, x, data)
  \/ \E u \in Users :
       \/ SessionEnds(u) \/ SignsBack(u)
       \/ \E w \in Spaces, role \in Given \cup {NoRole} : RoleChanges(u, w, role)

AccessSpec == AccessInit /\ [][AccessNext]_accessVars

-----------------------------------------------------------------------------
(* Properties.                                                                 *)

\* What the interface tells people of the roles (ROLE_DESCRIPTIONS), as the writes
\* each may make: a viewer only reads, a driver logs mileage and fuel, an editor
\* adds and edits. Everyone may leave, and set their own notifications.
AllWrites == {n \in DOMAIN Routes : Routes[n].writes}
Own == {"members.leave", "preferences.set", "exports.download"}
Promised(role) ==
  CASE role = "VIEWER" -> Own
    [] role = "DRIVER" -> Own \cup {"vehicles.addOdometer"} \cup (AllWrites \cap DOMAIN FuelRoutes)
    [] role = "EDITOR" ->
         AllWrites \ ({n \in DOMAIN MemberRoutes : n # "members.leave"} \cup
                      {"vehicles.remove", "vehicles.restore", "documents.remove"})
    [] OTHER -> AllWrites

\* No route grants a role more than the interface says of it; among the staff,
\* READ_ONLY changes nothing but its own grant, only a SUPER_ADMIN takes another's
\* grant away, and no route is left without a permission.
RolesKeepTheirWord ==
  /\ \A role \in WorkspaceRoles, n \in AllWrites :
       Allowed(Matrix, role, Routes[n].needs) => n \in Promised(role)
  /\ \A n \in DOMAIN StaffRoutes : StaffRoutes[n].needs \in StaffPermissions
  /\ \A n \in DOMAIN StaffRoutes : StaffRoutes[n].writes /\ StaffMay("READ_ONLY", n) => n = "grants.revoke"
  /\ \A role \in DOMAIN StaffMatrix : MayRevoke(role, FALSE) => role = "SUPER_ADMIN"

\* A handler that writes runs for a caller who, at some moment since the request
\* was sent, held a role that is told it may: a request sent after a removal or a
\* demotion changes nothing, one that had passed the guard may still finish.
HandlersRunAllowed ==
  \A c \in Requests : request[c].pc = "run" /\ request[c].route \in AllWrites =>
    \E role \in request[c].held \ {NoRole} : request[c].route \in Promised(role)

\* Whatever workspace a request names in its filter, its key or its data: it changes
\* no row that is another workspace's than the one in its path, what it creates is of
\* its path's workspace, and a row leaves its workspace only when an update of that
\* workspace's own says so in its data.
RowsStayHome ==
  [][\A x \in Rows : stored'[x] # stored[x] =>
       /\ stored[x] # NoRow => stored[x].home = stored'[x].by
       /\ stored'[x].home = Updated(stored'[x].by, stored'[x].sent)]_accessVars

\* SECURITY.md:51 says more, that the workspace is injected into every `data`. For an
\* update's data the code does not keep it.
HomesNeverChange ==
  [][\A x \in Rows : stored[x] # NoRow => stored'[x].home = stored[x].home]_accessVars

\* Nobody makes a write that no role of theirs was told of, and no workspace's request
\* makes one to another's row (WorkspaceGuard, forWorkspace).
AccessSafe == [](RolesKeepTheirWord /\ HandlersRunAllowed) /\ RowsStayHome
=============================================================================
