--------------------------- MODULE VehicleLedger ---------------------------
(* One vehicle's paperwork: its append-only mileage history and the cached      *)
(* current reading, the service and fuel records, the expense ledger they are   *)
(* mirrored into, and one maintenance rule that matching services advance,       *)
(* created and deleted once at most. *)
(* Requests interleave statement by statement, as the database commits them.    *)
EXTENDS Integers

CONSTANTS
  Requests,        \* requests the API serves at the same time
  Records,         \* identities of service records, fills and manual expenses
  Readings,        \* the readings users enter: [day, value, unit]
  Amounts,         \* totals of a record, all different from None
  Factor,          \* metres in one of each unit
  VehicleUnit,     \* the vehicle's own distance unit
  MaxRequests,     \* bound on the requests ever served
  Today,
  Intervals,       \* the intervals users give a rule: [days, distance, unit]
  Faults,          \* what may go wrong: "crash" of the API, "ledger" write refused
  None

Units == {"MILES", "KILOMETERS"}
Maybe(S) == S \cup {None}

ASSUME LedgerConstants ==
  /\ Readings \subseteq [day : Nat, value : Nat, unit : Units]
  /\ Factor \in [Units -> Nat \ {0}] /\ VehicleUnit \in Units
  /\ MaxRequests \in Nat /\ Today \in Nat
  /\ Intervals \subseteq [days : Maybe(Nat), distance : Maybe(Nat), unit : Maybe(Units)]
  /\ None \notin Records \cup Amounts \cup Nat \cup Units /\ Faults \subseteq {"crash", "ledger"}

VARIABLES
  entries,    \* odometer_entries: a reading, and whether it corrects the last one
  cached,     \* vehicles.current_odometer, with its unit and date
  source,     \* service_records, fuel_entries, insurance_policies and road_tax_records
  ledger,     \* expenses: manual ones, and the mirrors of source records
  rule,       \* the maintenance rule: its intervals, its anchor and the stored due point
  req,        \* what each request is doing
  served,     \* requests begun so far
  cacheLags,  \* history: the cache's last writer had not seen every entry
  astray,     \* history: records whose last mirror write was lost or out of date
  ruleLags    \* history: the last store of the due point was lost or out of date

vars == <<entries, cached, source, ledger, rule, req, served, cacheLags, astray, ruleLags>>
books == <<source, ledger, astray>>
history == <<entries, cached, cacheLags>>
upkeep == <<rule, ruleLags>>
calls == <<req, served>>

Distance == [value : Nat, unit : Units]
Metres(d) == d.value * Factor[d.unit]
DistanceOf(r) == [value |-> r.value, unit |-> r.unit]

\* The readings an ORDER BY recorded_on DESC, value DESC may return first.
Newest(es) ==
  {r \in {e.reading : e \in es} : \A f \in es :
     f.reading.day < r.day \/ (f.reading.day = r.day /\ f.reading.value <= r.value)}

\* A POLICY is an insurance policy or a road tax record: the same handlers twice.
Kinds == {"SERVICE", "FUEL", "POLICY"}
NoSource == [kind |-> "NONE", live |-> FALSE, amount |-> None]
Row(kind, amount) == [kind |-> kind, live |-> TRUE, amount |-> amount]
NoExpense == [from |-> "NONE", live |-> FALSE, amount |-> None]
Withdrawn(x) == [x EXCEPT !.live = FALSE]

NoDue == [on |-> None, at |-> None]
NoRule == [exists |-> FALSE, gone |-> FALSE, active |-> FALSE, on |-> None, odo |-> None,
           days |-> None, distance |-> None, unit |-> None, due |-> NoDue]

\* What a rule's due point is computed from: its anchor and its intervals.
Basis(u) == [on |-> u.on, odo |-> u.odo, days |-> u.days, distance |-> u.distance, unit |-> u.unit]

\* The next due point. A dimension without an anchor or an interval has none; an
\* interval without a unit of its own is read in unit u.
DueOf(b, u) ==
  LET unit == IF b.unit = None THEN u ELSE b.unit
  IN  [on |-> IF b.on = None \/ b.days = None THEN None ELSE b.on + b.days,
       at |-> IF b.odo = None \/ b.distance = None THEN None
              ELSE Metres(b.odo) + b.distance * Factor[unit]]

\* The anchor after a completion: an odometer not given keeps the one it was.
Completed(a, c) == [on |-> c.on, odo |-> IF c.odo = None THEN a.odo ELSE c.odo]

Idle == [pc |-> "idle", op |-> "NONE", key |-> None, reading |-> None, metered |-> FALSE,
         fix |-> FALSE, matches |-> FALSE, amount |-> None, seen |-> {}, pick |-> None,
         copy |-> NoSource, basis |-> Basis(NoRule), unit |-> None, left |-> 0]

Init ==
  /\ entries = {} /\ cached = None /\ cacheLags = FALSE
  /\ source = [k \in Records |-> NoSource]
  /\ ledger = [k \in Records |-> NoExpense]
  /\ astray = {}
  /\ rule = NoRule /\ ruleLags = FALSE
  /\ req = [q \in Requests |-> Idle] /\ served = 0

Go(q, r) == req' = [req EXCEPT ![q] = r] /\ UNCHANGED served
At(q, pc) == req[q].pc = pc
Step(q, pc) == Go(q, [req[q] EXCEPT !.pc = pc])
End(q) == Go(q, Idle)
Begin(q, pc, r) ==
  /\ At(q, "idle") /\ served < MaxRequests /\ served' = served + 1
  /\ req' = [req EXCEPT ![q] = [r EXCEPT !.pc = pc]]

Unused(k) == source[k] = NoSource /\ ledger[k] = NoExpense /\ \A q \in Requests : req[q].key # k

-----------------------------------------------------------------------------
(* Mileage, services and fills: one transaction that adds the rows and then    *)
(* refreshes the cached reading from what it can see.                          *)

NotBelow(r) == Newest(entries) = {} \/ \E latest \in Newest(entries) : Metres(r) >= Metres(latest)

AddOdometerEntry(q, r, fix) ==
  /\ r.day <= Today
  /\ fix \/ NotBelow(r)
  /\ Begin(q, "insert", [Idle EXCEPT !.op = "READING", !.reading = r, !.metered = TRUE,
                        !.fix = fix])
  /\ UNCHANGED <<history, books, upkeep>>

CreateService(q, k, r, metered, matches, amount) ==
  /\ Unused(k) /\ r.day <= Today
  /\ Begin(q, "insert", [Idle EXCEPT !.op = "SERVICE", !.key = k, !.reading = r,
                        !.metered = metered, !.matches = matches, !.amount = amount])
  /\ UNCHANGED <<history, books, upkeep>>

\* A fill is checked neither against the newest reading nor against today.
CreateFuel(q, k, r, amount) ==
  /\ Unused(k)
  /\ Begin(q, "insert", [Idle EXCEPT !.op = "FUEL", !.key = k, !.reading = r,
                        !.metered = TRUE, !.amount = amount])
  /\ UNCHANGED <<history, books, upkeep>>

Entry(q) == [reading |-> req[q].reading, fix |-> req[q].fix]
Written(q) == IF req[q].metered THEN {Entry(q)} ELSE {}

Recorded(q) == entries \cup Written(q)

\* The transaction sees what is committed, and its own row.
RefreshedOwn(q) == {req[q].reading}
Refreshed(q) == Newest(Recorded(q))

Insert(q) ==
  /\ At(q, "insert")
  /\ \E n \in IF req[q].metered THEN Refreshed(q) ELSE {None} :
       Go(q, [req[q] EXCEPT !.pc = "commit", !.seen = entries, !.pick = n])
  /\ UNCHANGED <<history, books, upkeep>>

NextAfterCommit(op) == CASE op = "SERVICE" -> "match" [] op = "FUEL" -> "project" [] OTHER -> "idle"

Commit(q) ==
  /\ At(q, "commit")
  /\ entries' = Recorded(q)
  /\ IF req[q].metered
     THEN cached' = req[q].pick /\ cacheLags' = (req[q].seen # entries)
     ELSE UNCHANGED <<cached, cacheLags>>
  /\ IF req[q].op = "READING" THEN UNCHANGED source
     ELSE source' = [source EXCEPT ![req[q].key] = Row(req[q].op, req[q].amount)]
  /\ IF req[q].op = "READING" THEN End(q)
     ELSE Go(q, [req[q] EXCEPT !.pc = NextAfterCommit(req[q].op), !.seen = {}, !.pick = None,
                                !.amount = None])
  /\ UNCHANGED <<ledger, astray, upkeep>>

-----------------------------------------------------------------------------
(* Corrections and removals of a record touch its row and its mirror only.     *)

Update(q, k, amount) ==
  /\ source[k].live
  /\ Begin(q, "write", [Idle EXCEPT !.op = "UPDATE", !.key = k, !.amount = amount])
  /\ UNCHANGED <<history, books, upkeep>>

\* The row is written by its id, removed in between or not. A service or a fill is
\* read again to be mirrored; a policy is mirrored as the request wrote it.
Mirroring(r, kind) == IF kind = "POLICY"
                      THEN [r EXCEPT !.pc = "mirror", !.copy = Row(kind, r.amount)]
                      ELSE [r EXCEPT !.pc = "project"]

Write(q) ==
  /\ At(q, "write")
  /\ LET k == req[q].key IN
       /\ source' = [source EXCEPT ![k] = [@ EXCEPT !.amount = req[q].amount]]
       /\ Go(q, Mirroring(req[q], source[k].kind))
  /\ UNCHANGED <<ledger, astray, history, upkeep>>

CreatePolicy(q, k, amount) ==
  /\ Unused(k)
  /\ source' = [source EXCEPT ![k] = Row("POLICY", amount)]
  /\ Begin(q, "mirror", [Idle EXCEPT !.op = "POLICY", !.key = k, !.copy = Row("POLICY", amount)])
  /\ UNCHANGED <<ledger, astray, history, upkeep>>

\* Of two removals at once the second one changes nothing more.
Remove(q, k) ==
  /\ source[k].live
  /\ source' = [source EXCEPT ![k] = [@ EXCEPT !.live = FALSE]]
  /\ Begin(q, "retract", [Idle EXCEPT !.op = "REMOVE", !.key = k])
  /\ UNCHANGED <<ledger, astray, history, upkeep>>

-----------------------------------------------------------------------------
(* The maintenance rule.                                                       *)

\* A request that has used its reading and what it read of the rule.
Used(r) == [r EXCEPT !.reading = None, !.metered = FALSE, !.matches = FALSE,
                     !.basis = Basis(NoRule), !.unit = None]

\* Which rules a new service satisfies. With none, the rules are recomputed only.
Match(q) ==
  /\ At(q, "match")
  /\ IF req[q].matches /\ rule.exists /\ rule.active
     THEN Go(q, [req[q] EXCEPT !.pc = "advance", !.basis = Basis(rule), !.left = 2])
     ELSE Go(q, [Used(req[q]) EXCEPT !.pc = "due", !.left = 1])
  /\ UNCHANGED <<history, books, upkeep>>

CompleteRule(q, r, metered) ==
  /\ rule.exists
  /\ Begin(q, "advance", [Idle EXCEPT !.op = "COMPLETE", !.reading = r,
                        !.metered = metered, !.basis = Basis(rule), !.left = 1])
  /\ UNCHANGED <<history, books, upkeep>>

Recomputed(q) ==
  IF req[q].left > 1 THEN Go(q, [Used(req[q]) EXCEPT !.pc = "present"])
  ELSE IF req[q].op = "SERVICE" THEN Go(q, [Used(req[q]) EXCEPT !.pc = "project", !.left = 0])
  ELSE End(q)

\* What a completion records. Its odometer is labelled with the vehicle's unit.
Completion(q) == [on  |-> req[q].reading.day,
                  odo |-> IF req[q].metered
                          THEN [value |-> req[q].reading.value, unit |-> VehicleUnit]
                          ELSE None]

\* What the user wrote down. Only a service says in which unit.
Entered(q) ==
  IF ~req[q].metered THEN None
  ELSE IF req[q].op = "SERVICE" THEN DistanceOf(req[q].reading) ELSE Completion(q).odo

AfterAdvanceEnds(q) == Recomputed(q)
AfterAdvance(q) == Go(q, [Used(req[q]) EXCEPT !.pc = "due"])

\* The completion is appended, to be listed only; the rule is anchored on it.
Advance(q) ==
  /\ At(q, "advance") /\ rule.exists
  /\ LET next == Completed(req[q].basis, Completion(q))
     IN  rule' = [rule EXCEPT !.on = next.on, !.odo = next.odo]
  /\ AfterAdvance(q)
  /\ UNCHANGED <<ruleLags, history, books>>

\* The last completion a new rule may be given; its odometer is in the vehicle's unit.
GivenDays == Maybe({r.day : r \in Readings})
GivenOdos == Maybe({[value |-> r.value, unit |-> VehicleUnit] : r \in Readings})

CreateRule(q, i, on, odo) ==
  /\ ~rule.exists /\ ~rule.gone
  /\ rule' = [NoRule EXCEPT !.exists = TRUE, !.active = TRUE, !.on = on, !.odo = odo,
                            !.days = i.days, !.distance = i.distance, !.unit = i.unit]
  /\ ruleLags' = FALSE
  /\ Begin(q, "due", [Idle EXCEPT !.op = "RULE", !.left = 1])
  /\ UNCHANGED <<history, books>>

\* An edit changes the intervals and whether services complete the rule. The unit of
\* the distance is the one the rule was created with, or none.
Edited(u, i, active) == [u EXCEPT !.days = i.days, !.distance = i.distance, !.active = active]

UpdateRule(q, i, active) ==
  /\ rule.exists
  /\ rule' = Edited(rule, i, active)
  /\ Begin(q, "due", [Idle EXCEPT !.op = "RULE", !.left = 1])
  /\ UNCHANGED <<ruleLags, history, books>>

RemoveRule ==
  /\ rule.exists
  /\ rule' = [NoRule EXCEPT !.gone = TRUE] /\ ruleLags' = FALSE
  /\ UNCHANGED <<calls, history, books>>

\* The unit an unlabelled distance is read in: the newest reading's, else the anchor's.
ReadIn ==
  IF entries # {} THEN {n.unit : n \in Newest(entries)}
  ELSE IF rule.odo # None THEN {rule.odo.unit} ELSE {"MILES"}

\* Whether a completion that a service made is still under way, its answer included.
Completing(q) == req[q].left > 1

DueRead(q) ==
  /\ At(q, "due") /\ (rule.exists \/ ~Completing(q))
  /\ IF rule.exists
     THEN \E u \in ReadIn : Go(q, [req[q] EXCEPT !.pc = "store", !.basis = Basis(rule), !.unit = u])
     ELSE Recomputed(q)
  /\ UNCHANGED <<history, books, upkeep>>

DueStore(q) ==
  /\ At(q, "store") /\ rule.exists
  /\ rule' = [rule EXCEPT !.due = DueOf(req[q].basis, req[q].unit)]
  /\ ruleLags' = (req[q].basis # Basis(rule))
  /\ Recomputed(q)
  /\ UNCHANGED <<history, books>>

\* A completion answers with the rule as it is now; all rules are recomputed next.
Present(q) ==
  /\ At(q, "present") /\ rule.exists
  /\ Go(q, [req[q] EXCEPT !.pc = "due", !.left = @ - 1])
  /\ UNCHANGED <<history, books, upkeep>>

-----------------------------------------------------------------------------
(* The mirror of a record in the expense ledger, outside every transaction.    *)

Project(q) ==
  /\ At(q, "project")
  /\ Go(q, [req[q] EXCEPT !.pc = "mirror", !.copy = source[req[q].key]])
  /\ UNCHANGED <<history, books, upkeep>>

MirroredOnce(src, old) ==
  IF src.live /\ src.amount # None
  THEN [from |-> src.kind, live |-> old.from = "NONE" \/ old.live, amount |-> src.amount]
  ELSE Withdrawn(old)
Mirrored(src, old) ==
  IF src.live /\ src.amount # None
  THEN [from |-> src.kind, live |-> TRUE, amount |-> src.amount]
  ELSE Withdrawn(old)

Mirror(q) ==
  /\ At(q, "mirror")
  /\ LET k == req[q].key IN
       /\ ledger' = [ledger EXCEPT ![k] = Mirrored(req[q].copy, @)]
       /\ astray' = IF req[q].copy = source[k] THEN astray \ {k} ELSE astray \cup {k}
  /\ End(q)
  /\ UNCHANGED <<source, history, upkeep>>

Retract(q) ==
  /\ At(q, "retract")
  /\ ledger' = [ledger EXCEPT ![req[q].key] = Withdrawn(@)]
  /\ astray' = astray \ {req[q].key}
  /\ End(q)
  /\ UNCHANGED <<source, history, upkeep>>

\* The ledger refuses the write: it is logged, and the request succeeds.
MirrorFails(q) ==
  /\ "ledger" \in Faults /\ (At(q, "mirror") \/ At(q, "retract"))
  /\ astray' = astray \cup {req[q].key}
  /\ End(q)
  /\ UNCHANGED <<source, ledger, history, upkeep>>

AddExpense(k, amount) ==
  /\ Unused(k)
  /\ ledger' = [ledger EXCEPT ![k] = [from |-> "MANUAL", live |-> TRUE, amount |-> amount]]
  /\ UNCHANGED <<source, astray, calls, history, upkeep>>

\* A mirror is read-only to users.
Editable(k) == ledger[k].live /\ ledger[k].from = "MANUAL"

EditExpense(k, amount) ==
  /\ Editable(k)
  /\ ledger' = [ledger EXCEPT ![k] = [@ EXCEPT !.amount = amount]]
  /\ UNCHANGED <<source, astray, calls, history, upkeep>>

RemoveExpense(k) ==
  /\ Editable(k)
  /\ ledger' = [ledger EXCEPT ![k] = Withdrawn(@)]
  /\ UNCHANGED <<source, astray, calls, history, upkeep>>

-----------------------------------------------------------------------------
(* A request that dies leaves what it had committed, and nobody resumes it.    *)

Abandon(q) ==
  /\ End(q)
  /\ astray' = IF req[q].key # None /\ req[q].pc \notin {"insert", "commit", "write"}
               THEN astray \cup {req[q].key} ELSE astray
  /\ ruleLags' = (ruleLags \/ At(q, "due") \/ At(q, "store"))
  /\ UNCHANGED <<source, ledger, rule, history>>

Crash(q) == "crash" \in Faults /\ ~At(q, "idle") /\ Abandon(q)

\* The rule was deleted after the request read it: the update throws, and so does the
\* answer of a completion, which leaves a service without the mirror of its cost.
RuleGone(q) ==
  /\ ~rule.exists
  /\ At(q, "advance") \/ At(q, "store") \/ At(q, "present") \/ (At(q, "due") /\ Completing(q))
  /\ Abandon(q)

Next ==
  \/ \E q \in Requests :
       \/ \E r \in Readings, yes \in BOOLEAN : AddOdometerEntry(q, r, yes) \/ CompleteRule(q, r, yes)
       \/ \E k \in Records, r \in Readings, a \in Amounts \cup {None} :
            CreateFuel(q, k, r, a) \/ \E x, y \in BOOLEAN : CreateService(q, k, r, x, y, a)
       \/ \E k \in Records : Remove(q, k) \/ \E a \in Amounts \cup {None} :
                                                   Update(q, k, a) \/ CreatePolicy(q, k, a)
       \/ \E i \in Intervals : \/ \E on \in GivenDays, odo \in GivenOdos : CreateRule(q, i, on, odo)
                               \/ \E active \in BOOLEAN : UpdateRule(q, i, active)
       \/ Insert(q) \/ Commit(q) \/ Write(q) \/ Match(q) \/ Advance(q) \/ DueRead(q)
       \/ DueStore(q) \/ Present(q) \/ Project(q) \/ Mirror(q) \/ Retract(q) \/ MirrorFails(q)
       \/ Crash(q) \/ RuleGone(q)
  \/ RemoveRule
  \/ \E k \in Records : RemoveExpense(k) \/ \E a \in Amounts : AddExpense(k, a) \/ EditExpense(k, a)

Spec == Init /\ [][Next]_vars

-----------------------------------------------------------------------------
(* Properties.                                                                 *)

TypeOK ==
  /\ \A e \in entries : e.reading \in Readings /\ e.fix \in BOOLEAN
  /\ cached \in Maybe(Readings)
  /\ source \in [Records -> [kind : Kinds \cup {"NONE"}, live : BOOLEAN, amount : Maybe(Amounts)]]
  /\ ledger \in [Records -> [from : Kinds \cup {"NONE", "MANUAL"}, live : BOOLEAN,
                            amount : Maybe(Amounts)]]
  /\ astray \subseteq Records
  /\ rule.on \in Maybe(Nat) /\ rule.odo \in Maybe(Distance) /\ rule.unit \in Maybe(Units)

\* The cached reading is the newest entry of the history whenever its last
\* writer had seen every entry: addOdometerEntry, service and fuel creation all
\* refresh it from the history, never from the reading they add, so a backdated
\* one cannot displace a newer one and the next write heals a race.
CacheIsNewest == ~cacheLags /\ entries # {} => cached \in Newest(entries)

Settled(k) == \A q \in Requests : req[q].key # k
Agrees(k) == IF source[k].live /\ source[k].amount # None
             THEN ledger[k] = [from |-> source[k].kind, live |-> TRUE, amount |-> source[k].amount]
             ELSE ~ledger[k].live

\* Once the requests about a record are over, the ledger holds its cost exactly
\* once if the record lives and has one, and not at all otherwise; unless the
\* last write of the mirror failed, died or came from an older copy of the record
\* (projectService, projectFuel, projectInsurance, project, retract).
MirrorAgrees == \A k \in Records :
                  source[k].kind # "NONE" /\ Settled(k) /\ k \notin astray => Agrees(k)

\* The stored due point is that of the rule's own anchor and intervals when no
\* recomputation is under way, whatever completions, edits and services overlapped,
\* unless one of them stored what it had read before another changed either
\* (recomputeAndPersist). A distance without a unit is read in some unit.
Recomputing == \E q \in Requests : req[q].pc \in {"due", "store"}
DueFollowsRule == rule.exists /\ ~Recomputing /\ ~ruleLags
                    => \E u \in Units : rule.due = DueOf(Basis(rule), u)

\* What users are told about the history, and the code does not keep.

\* units.ts: a reading is never rewritten into another unit.
CompletionKeepsUnit ==
  [][\A q \in Requests : At(q, "advance") /\ req'[q].pc = "due" /\ req[q].metered
       => rule'.odo = Entered(q)]_vars

\* DECISIONS.md D-076: a fill participates in the regression check, so the newest
\* reading never goes down but by a flagged correction.
NeverDrops ==
  [][\A e \in entries' \ entries : e.fix \/ Newest(entries) = {} \/
       \E latest \in Newest(entries) : Metres(e.reading) >= Metres(latest)]_vars
=============================================================================
