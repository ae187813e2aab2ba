-------------------------------- MODULE MCDesk --------------------------------
(* Eight parts of the API that share no state, checked in one run: the initial    *)
(* states choose the part, and only that part moves.                             *)
EXTENDS Documents, Tyres, Registry, AuthSessions, StaffAccess, Histories, Dashboard

CONSTANTS r1, r2, o1, x1, x2, n1, n2, n3, w1, w2

VARIABLE part

MCRequests == {r1, r2}
MCRows == {x1, x2}
MCNumbered == {n1, n2, n3}
MCOne == {o1}
MCSpaces == {w1, w2}
\* One route that everybody may read, and one write per set of roles that may make it.
MCAsked == {"vehicles.list", "fuel.create", "services.update", "members.leave"}
\* An answer of each kind: of the shell, polled, of a vehicle's header, of several of its
\* tabs, of a dialog, of a page that its savers refresh and of one that they do not.
MCWatched == {"session", "exports", "vehicle", "maintenance", "service", "reminders", "members", "expenses-list"}
MCSymmetry == Permutations(MCRequests) \cup Permutations(MCRows)

deskVars == <<part, docVars, tyreVars, registryVars, authVars, staffVars, historyVars, accessVars, dashboardVars>>

DeskInit ==
  /\ part \in {"documents", "tyres", "vehicles", "accounts", "staff", "past", "access", "screens"}
  /\ DocInit /\ TyreInit /\ RegistryInit /\ AuthInit /\ StaffInit /\ HistoryInit
  /\ AccessInit /\ DashboardInit
  /\ part # "screens" => watched = "session"
  /\ part # "access" => \A u \in Users, w \in Spaces : member[u][w] = NoRole

DeskNext ==
  /\ UNCHANGED part
  /\ \/ part = "documents" /\ DocNext /\ UNCHANGED <<tyreVars, registryVars, authVars, staffVars, historyVars, accessVars, dashboardVars>>
     \/ part = "tyres" /\ TyreNext /\ UNCHANGED <<docVars, registryVars, authVars, staffVars, historyVars, accessVars, dashboardVars>>
     \/ part = "vehicles" /\ RegistryNext /\ UNCHANGED <<docVars, tyreVars, authVars, staffVars, historyVars, accessVars, dashboardVars>>
     \/ part = "accounts" /\ AuthNext /\ UNCHANGED <<docVars, tyreVars, registryVars, staffVars, historyVars, accessVars, dashboardVars>>
     \/ part = "staff" /\ StaffNext /\ UNCHANGED <<docVars, tyreVars, registryVars, authVars, historyVars, accessVars, dashboardVars>>
     \/ part = "past" /\ HistoryNext /\ UNCHANGED <<docVars, tyreVars, registryVars, authVars, staffVars, accessVars, dashboardVars>>
     \/ part = "access" /\ AccessNext /\ UNCHANGED <<docVars, tyreVars, registryVars, authVars, staffVars, historyVars, dashboardVars>>
     \/ part = "screens" /\ DashboardNext /\ UNCHANGED <<docVars, tyreVars, registryVars, authVars, staffVars, historyVars, accessVars>>

\* The accounts of both realms, the customers' and the staff's.
RealmsSafe == AccountsSafe /\ StaffSafe

\* One car's records stay one car's: one set of tyres on it at a time, one car to a plate.
VehicleFilesSafe == CarWearsOneSet /\ PlatesSafe

DeskSpec == DeskInit /\ [][DeskNext]_deskVars
=============================================================================
