------------------------------- MODULE Registry -------------------------------
(* The vehicles of a workspace and their registration plates: created, hidden,   *)
(* brought back and moved through their lifecycle, each request checking the     *)
(* plate or the row before the statement that writes it.                         *)
EXTENDS Naturals

CONSTANTS
  Vehicles,    \* vehicles rows that may ever exist
  Plates,
  Clerks,      \* requests the API serves at the same time about vehicles
  NoPlate

ASSUME RegistryConstants == NoPlate \notin Plates

VARIABLES
  vehicle,   \* the row: plate, status, deletedAt
  errand,    \* what each request is doing
  surprised  \* history: the index refused a request that nothing had overtaken

registryVars == <<vehicle, errand, surprised>>

LifeStatuses == {"ACTIVE", "INACTIVE"}    \* INACTIVE: sold, scrapped or archived
NoVehicle == [plate |-> NoPlate, status |-> "NONE", hidden |-> FALSE]
NewVehicle(plate) == [plate |-> plate, status |-> "ACTIVE", hidden |-> FALSE]
NoErrand == [pc |-> "rest", plate |-> NoPlate, id |-> NoPlate, to |-> "NONE", late |-> FALSE]

RegistryInit ==
  /\ vehicle = [v \in Vehicles |-> NoVehicle]
  /\ errand = [c \in Clerks |-> NoErrand]
  /\ surprised = FALSE

Exists(v) == vehicle[v].status # "NONE"
Shown(v) == Exists(v) /\ ~vehicle[v].hidden
Holders(plate) == {v \in Vehicles : Shown(v) /\ plate # NoPlate /\ vehicle[v].plate = plate}
SetErrand(c, e) == errand' = [errand EXCEPT ![c] = e]
EndErrand(c) == SetErrand(c, NoErrand)
Start(c, pc, v, plate, to) ==
  errand[c].pc = "rest" /\ SetErrand(c, [NoErrand EXCEPT !.pc = pc, !.plate = plate, !.id = v, !.to = to])

\* The partial unique index: live vehicles only, and only those with a plate.
NoIndex(v, row) == TRUE
IndexAllows(v, row) == row.hidden \/ Holders(row.plate) \ {v} = {}

Overtaken(c) == [d \in Clerks |-> IF d = c THEN NoErrand ELSE [errand[d] EXCEPT !.late = @ \/ errand[d].pc # "rest"]]

Save(c, v, row) ==
  \/ /\ IndexAllows(v, row)
     /\ vehicle' = [vehicle EXCEPT ![v] = row]
     /\ errand' = Overtaken(c)
     /\ UNCHANGED surprised
  \/ /\ ~IndexAllows(v, row)
     /\ surprised' = (surprised \/ ~errand[c].late)
     /\ EndErrand(c)
     /\ UNCHANGED vehicle

-----------------------------------------------------------------------------
RequestCreate(c, plate) ==
  /\ Holders(plate) = {}
  /\ Start(c, "create", NoPlate, plate, "NONE")
  /\ UNCHANGED <<vehicle, surprised>>

CreateVehicle(c, v) ==
  /\ errand[c].pc = "create" /\ ~Exists(v)
  /\ Save(c, v, NewVehicle(errand[c].plate))

RequestDelete(c, v) ==
  /\ Shown(v)
  /\ Start(c, "delete", v, NoPlate, "NONE")
  /\ UNCHANGED <<vehicle, surprised>>

DeleteVehicle(c) ==
  /\ errand[c].pc = "delete"
  /\ Save(c, errand[c].id, [vehicle[errand[c].id] EXCEPT !.hidden = TRUE])

RequestRestore(c, v) ==
  /\ Exists(v) /\ vehicle[v].hidden
  /\ Start(c, "clash", v, vehicle[v].plate, "NONE")
  /\ UNCHANGED <<vehicle, surprised>>

ClashUnchecked(c) == FALSE
Clash(c) == Holders(errand[c].plate) \ {errand[c].id} # {}

CheckClash(c) ==
  /\ errand[c].pc = "clash"
  /\ IF Clash(c) THEN EndErrand(c) ELSE SetErrand(c, [errand[c] EXCEPT !.pc = "restore", !.late = FALSE])
  /\ UNCHANGED <<vehicle, surprised>>

RestoreVehicle(c) ==
  /\ errand[c].pc = "restore"
  /\ Save(c, errand[c].id, [vehicle[errand[c].id] EXCEPT !.hidden = FALSE])

\* A vehicle hidden in between still changes its status, by its id.
RequestStatus(c, v, to) ==
  /\ Shown(v) /\ vehicle[v].status # to
  /\ Start(c, "status", v, NoPlate, to)
  /\ UNCHANGED <<vehicle, surprised>>

ChangeStatus(c) ==
  /\ errand[c].pc = "status"
  /\ Save(c, errand[c].id, [vehicle[errand[c].id] EXCEPT !.status = errand[c].to])

RegistryNext == \E c \in Clerks :
  \/ \E plate \in Plates \cup {NoPlate} : RequestCreate(c, plate)
  \/ \E v \in Vehicles : CreateVehicle(c, v) \/ RequestDelete(c, v) \/ RequestRestore(c, v)
                         \/ \E to \in LifeStatuses : RequestStatus(c, v, to)
  \/ DeleteVehicle(c) \/ CheckClash(c) \/ RestoreVehicle(c) \/ ChangeStatus(c)

RegistrySpec == RegistryInit /\ [][RegistryNext]_registryVars

-----------------------------------------------------------------------------
(* Properties.                                                                 *)

\* Whatever overlaps, one live vehicle at most holds a plate: the checks of create
\* and restore are made before the write, and only the partial index backs them.
OneVehiclePerPlate == \A plate \in Plates : \A v, w \in Holders(plate) : v = w

\* A request that the index refuses (a 500) was overtaken between its check and
\* its write. Alone, create and restore always answer first, also when the plate
\* of a hidden vehicle was given to another one meanwhile (restore's comment).
NeverSurprised == ~surprised

\* The plates are safe: the index keeps them unique, and the checks answer before it.
PlatesSafe == OneVehiclePerPlate /\ NeverSurprised
=============================================================================
