# AutoServices: the verification project

AutoServices keeps the service history of a household's or a fleet's vehicles: a
NestJS API over PostgreSQL (`apps/api`), a BullMQ worker over Redis (`apps/worker`),
shared packages (`packages/*`) and three React front ends. This directory holds TLA+
models of the parts of it that are hard to test, TLC configurations that check them
on small instances, and TLAPS proofs of what matters most for every instance.

Read in this order: *Inventory* (what the system is and what can go wrong),
*Modules* (what is modelled and how it corresponds to the code), *Runs*, *Proofs*,
*What the code does not keep* (disagreements with its documentation), *Not modelled*,
*Plan*.

## Inventory

Nearly every hard behaviour of this system has one cause. A request handler is a
sequence of SQL statements; a few of them are grouped in a transaction, most are not,
and PostgreSQL runs at READ COMMITTED. Between any two statements another request,
another replica, a worker or a webhook may act. Rows are typically read, judged, and
then written *by id* with no condition that the judgement still holds. The second cause
is that one fact is read in many places: a dozen queries filter hidden vehicles, four
screens judge one certificate, three reports add up one expense table, forty cached
answers in the browser depend on forty kinds of save.

| Component | State | Operations | Talks to | Hard because | Correct when | Module |
|---|---|---|---|---|---|---|
| **Membership** (`modules/workspaces/members`, `invitations`) | `WorkspaceMember` rows with a role; the pointer `Workspace.ownerUserId`; invitations | update role, remove, leave, transfer ownership, invite, revoke, accept | workspace guard, e-mail queue | the guard's and the handler's reads are stale when the write happens | never two owners; the pointer agrees with the rows; a token admits once; a user has one row | `Membership` |
| **E-mail** (`queue.service`, worker `handlers.ts`, `packages/email`, `email-log`, `webhooks`) | BullMQ jobs, `email_messages`, the Redis reservation, `email_delivery_events`, `email_suppressions` | enqueue, send with retries, provider events, suppress and release | every component that notifies; the provider | jobs are run at least once; the provider's answer may be lost; events are repeated and reordered | at most one send per message; the log tells the truth; no message is lost | `EmailPipeline` |
| **Reminders** (`modules/reminders`) | `reminders`, `notification_deliveries`, notifications | hourly scan and dispatch, snooze, dismiss, complete | six sources that read the other components' records; e-mail | scans overlap and die half-way; a scan works on candidates it read earlier | one live reminder per item; told once per window and channel; nothing overdue is passed over | `ReminderScan` |
| **Mileage, services, fills, rules and the expense ledger** (`vehicles`, `services`, `fuel`, `maintenance`, `expenses`) | odometer entries (append-only) and the cached reading; services; fills; rules with a stored due point; one mirror expense per source record | enter a reading; create, update and remove a record; complete a rule by hand or by a service; project and retract | each other, reminders | three writers of one cache; checks outside the transaction; steps after the commit that may fail | the cache is the newest entry; the due point follows the anchor and the intervals; a live source has one mirror | `VehicleLedger` |
| **Vehicle registry** (`vehicles`) | vehicles with a plate, a status, `deletedAt` | create, hide, restore, change status | reminders | the plate is checked before the write | one live vehicle per plate, and the check answers before the index | `Registry` |
| **Exports** (`exports`, worker `export.handler`) | `export_jobs`, files | request, build, download, expire | queue, object storage | count-then-create; row and job are created separately; the file is stored before its key | a READY row has its file and keeps it; every export ends | `ExportJobs` |
| **Documents** (`documents`, `packages/storage`) | `documents`, objects | open upload, finalise, download, remove | object storage | finalisation is long and races removal and the upload itself, and the upload's link outlives it | nothing unchecked or removed is offered; verdicts stand | `Documents` |
| **Tyres** (`tyres`) | sets and their fitted periods | add, fit, take off, delete | reminders | the fitted set is read before the transaction | a car wears one set | `Tyres`, `Upkeep` |
| **Sign-in** (`auth`, guards) | users, sessions, single-use tokens, counters | register, verify, reset, sign in/out | e-mail | a slow hash between the read and the write; tokens checked before the transaction that spends them | a reset ends the sessions of the old password; the last token only; a lock holds | `AuthSessions` |
| **Staff sign-in and support access** (`admin-auth`, `support-access`) | the administrator's counter and lock, staff sessions, grants | sign in, request, revoke, gate, read | staff console | find-then-create; two reads under one grant | no failure and no read goes uncounted; grants do not stack | `StaffAccess` |
| **Permissions** (`packages/permissions`, `workspace.guard`, `workspace-client`) | the matrices, the permission of each route, the member's role, rows with a `workspace_id` | guards, then queries through a client that adds the workspace | everything | the role is read once and may change before the handler writes | no role does more than it is told; no request changes another workspace's row, and a row moves only by its own workspace's word | `Access` |
| **Owned papers** (`ownership`, `warranties`) | inspections, policies, tax records | file, amend, remove | reminders, dashboard, fleet report | several papers of one kind, and four readers that pick one of them | the screens agree about what has lapsed | `Obligations`, `Upkeep` |
| **Engines** (`maintenance.engine`, `warranty.engine`, `tyre.engine`, `fuel.engine`, `fuel.trend`) | none | pure functions | called by the above | two clocks, two units, rounding, gaps in the data | limits are seen; nothing improves by itself; fuel is counted once | `Upkeep`, `FuelFigures` |
| **Reports** (`reports`, `expenses.summary`, dashboard) | none | the cost and the fleet report, the month to date, lists and exports | called by pages | the same rows summed by queries with filters of their own | every figure is the same everywhere | `CostFigures` |
| **History** (`timeline`, `services`, dashboard activity, export data) | none | six readers of four tables | called by pages | rows are moved and removed, vehicles hidden | nothing is lost, told twice or out of order | `Histories` |
| **Dashboard** (`apps/dashboard`, `packages/api-client`) | the query cache | pages, dialogs, saves, invalidations | every route | each save must name each cached answer it changes; fetches overlap saves | a save that was confirmed is seen; nothing is offered that the server refuses | `Dashboard` |

The list of components with their files, and what of each is left out, is in
`PROJECT.json`, and under `hazards` what is hard to test, each at its line. A hazard
without a property says why.

Interactions that the models keep: an accepted renewal, a sale or a completion changes
what a running scan believes (`ReminderScan`); a scan hands its e-mail to the queue,
whose failure releases the scan's reservation (`ReminderScan.Enqueue`, `Release`), and
whose success starts a life in `EmailPipeline`; a webhook writes the log and the
suppression list that the worker reads (`EmailPipeline`); a service writes the mileage
history, then advances the rules, then mirrors its cost, each in a step of its own
(`VehicleLedger`); a request is admitted under a role that `Membership` may change
before its handler writes (`Access`); what a page offers is compared with what the
routes ask for (`Dashboard` extends `Access`).

## Modules

| Module | Role |
|---|---|
| `Ownership` | abstract specification: one holder, who hands the workspace over or loses it |
| `Membership`, `MCMembership`, `MembershipProofs` | the membership and invitation services, a statement at a time; instances; proofs |
| `EmailPipeline`, `MCEmail`, `EmailProofs` | queue, worker, log, reservation, provider, webhook |
| `ReminderScan`, `MCReminders` | scans, dispatch, users, renewals and rule completions |
| `VehicleLedger`, `MCLedger`, `LedgerProofs` | mileage history, services, fills, policies, one rule, the expense ledger |
| `ExportJobs`, `MCExports` | exports over API, queue, worker slots and object storage |
| `BackgroundProofs` | the proofs about the two above that run in the background: `ReminderScan` and `ExportJobs` |
| `Documents`, `Tyres`, `Registry`, `AuthSessions`, `StaffAccess`, `Histories`, `Access`, `Dashboard` | one component each |
| `MCDesk` | the eight above in one run |
| `RecordProofs` | the proofs about documents, tyres, vehicles and the past |
| `AccountProofs` | the proofs about sign-in, staff, permissions and the dashboard |
| `Upkeep`, `Obligations`, `FuelFigures`, `CostFigures` | the calculations, over state that users, days and mileage change |
| `Sums` | the fold the calculations share |
| `MCFigures` | the four above in one run |
| `FigureProofs`, `ReportProofs` | the proofs about `Upkeep` and `Obligations`; about `CostFigures` and `FuelFigures` |

In each module one statement of the code that reads or writes shared state is one
action; statements inside one `$transaction` are one action when the transaction's
locks or indexes make the others see it so. A definition that stands directly before
another one and differs from it in one guard, one term or one filter (`NeverDone` before
`AlreadyDone`, `RevokeNothing` before `RevokeAll`) is a plausible bug of it: it is not
part of the specification, and each property is known to be violated by one of them.

A *history* variable records what the code does not store, so that a property can name
the one race that breaks it: `cacheLags`, `crossed`, `reissued`, `stacked` and their like
become true only when a request writes over what another one wrote after it read. The
property says that nothing *else* breaks the promise: no failure, no order of complete
requests, no crash.

### Membership

One workspace. `role` and `user` are the `WorkspaceMember` rows (a deleted row's id is
never used again), `ownerUserId` the denormalised pointer, `inv` the invitations,
`req` the requests in progress with what each remembers: the caller's role as
`WorkspaceGuard` read it, and the id it will write. `admitted` is a history variable.

| Action | Code |
|---|---|
| `StartOnMember`, `StartLeave`, `StartInvite`, `StartRevoke` | the guard's read of the caller's row and the route's permission |
| `ReadTarget`, `UpdateRole`, `DeleteRow`, `LeaveRead` | the handlers' read, the checks on it, the write by id |
| `TransferOwnership` | the transaction: `updateMany` demotes (count must be 1), `update` promotes, the pointer moves |
| `InviteCheck`, `InviteSupersede`, `InviteCreate` | three statements, not a transaction |
| `StartAccept`, `AcceptLookup`, `AcceptAlreadyMember`, `Accept` | token read, membership read, then the transaction with its unique index and conditional burn |
| `Expire`, `Abandon` | seven days; a process that dies or a statement that fails |

The transfer is one action because its first statement locks the OWNER row: a second
transfer waits, re-evaluates `role = 'OWNER'` after the commit, finds nothing and
aborts. `ownerBar` (the holder of the OWNER row, or nobody) maps the state to
`Ownership`, and `ImplementsOwnership` says every step is a handover by the holder, a
loss, or invisible.

Left out: names and tokens as text, the e-mail of an invitation (`EmailPipeline`), the
rate limits on invitations, audit rows.

### EmailPipeline

Messages are idempotency keys; a key has one BullMQ job (its id is made from the key),
one log row and one reservation. `job`, `holder`, `tries`, `stalls` are the queue;
`msg` and `providerId` the log; `reserved` the Redis `SET NX` keys; `accepted` what the
provider took. `worker[w].pc` walks through `handleSendEmail`: `Record` →
`CheckSuppression` → `AdvanceRead`/`AdvanceWrite` (the rank comparison is a read and a
write) → `Reserve` → `ProviderAccepts` / `ProviderRefuses` → `SaveProviderId` or
`Release` → `Finish`. `hook` does the same for a webhook call. `Faults` says what may
go wrong: `crash`, `stall` (a lock expires under a living worker), `ambiguous` (the
provider took the message, the call failed), `outage` (the reservation's TTL passes),
`db`, `apicrash`.

One address: suppression is per address, so two addresses never interact. Left out: the
MANUAL suppression reason (no code sets it), template rendering, signature checks.

### ReminderScan

One due item of one vehicle, over days. `Kind = "RECORD"` is an inspection, insurance
or road tax: a renewal is a *new* record (`CreateRecord`), whose reminders are separate,
and a later statement cancels the old ones (`SupersedeReminders`); its expiry can also be
edited in place (`AmendRecord`: same item, same reminder, same keys, a new due day).
`Kind = "RULE"` is a maintenance rule: it keeps its id, `CompleteRule` and `EditRule` move
its due day, and the source reads `listed`, the status stored the last time somebody
computed it (`Recompute`). `row` are the reminders, `ledger` the unique keys of
`notification_deliveries`, `told` what was delivered and about which due day, `twice` a
history of repetitions, `lost` the keys whose scan died between reserving and notifying,
`moved` the items whose due day was changed under their own id.

A scan is `Start` (the sources' read), `FindLive`, `Update` or `Create` (the partial
unique index makes the second insert fail), `MarkDue`, then for each member
`ReserveInApp`, `Notify`, `WantsEmail`, `ReserveEmail`, `Enqueue` or `Release`, and
`Close`. `Window` and `Key` are `reminder.policy.ts`. Users snooze and resolve by id,
sell and reactivate the vehicle, and change their preference at any point.

Abstractions. The statuses DISMISSED, COMPLETED and CANCELLED are one (`CLOSED`). A
failed statement ends the whole scan, as an uncaught exception in the code does; other
items of the workspace are then scanned by the next hour's run, which is another scan
here. `CompleteRule` is one action although the recomputation follows the transaction.
One renewal is in progress at a time, and a behaviour has one edit of a due day, before
any other move of it. Edits are of the item in force. `Window` is
`evaluateDateWindow`. `decideWindow` prefers a distance window where one is open, and gives
an item its source calls overdue, with no window open, a key with today's date; both are left
out. The scan treats every window as one opaque key, so that they would add keys and no
order of steps, and what a distance says is in `Upkeep`, as is what the warranty, tyre and
stale-mileage sources emit.

### VehicleLedger

One vehicle. `entries` are `odometer_entries`, `cached` the reading stored on the vehicle;
`source` the services, fills, policies and tax records; `ledger` the expenses, mirrors and
manual ones; `rule` one maintenance rule with its anchor (`on`, `odo`), its two intervals
(`days`, `distance` with its `unit`, either may be missing) and its stored due point; `req`
what each request is doing.

| Action | Code |
|---|---|
| `AddOdometerEntry`, `CreateService`, `CreateFuel` | what a request reads and checks before its transaction (the newest reading, the regression rule of `addOdometerEntry`) |
| `Insert`, `Commit` | the transaction: the record and its entry, then the cached reading, refreshed from what this transaction can see; `Commit` is where others see it |
| `CreatePolicy`, `Update`, `Write`, `Remove` | the records' other writes |
| `Match`, `Advance`, `CompleteRule`, `DueRead`, `DueStore` | `completeMatchingRules`, `complete`, `recomputeAndPersist`: the anchor is written, then the rule is read again, then the due point is stored (`DueOf` of the basis that was read); `Present` is the answer's read, which fails if the rule is gone |
| `CreateRule`, `UpdateRule`, `RemoveRule` | the rule's own routes: an edit changes the intervals and the pause, not the unit, and recomputes |
| `Project`, `Mirror`, `Retract`, `MirrorFails` | `expense-projection.service`: the source is read, the mirror is written in a later statement, and a failure is logged and swallowed |
| `AddExpense`, `EditExpense`, `RemoveExpense` | manual expenses |
| `Crash`, `RuleGone` | the process dies between two statements; a rule is deleted under a running request, whose remaining rules and projection are then not done |

### ExportJobs

`export` is the row, `queued` BullMQ's view of its job (which slot holds the lock and how
often it stalled), `stored` the objects, `build` what each worker slot is doing.
`CountPending`, `InsertExport` and `EnqueueExport` are the three statements of `create`;
`TakeJob`, `ReadExport`, `RunExport`, `BuildFile`, `PutFile`, `MarkReady`, `MarkFailed` and
`Report` are `handleBuildExport`, each a statement; `WorkerDies` leaves a slot's job
`Orphaned` until `RecoverStalled` hands it out again or gives it up. After `LockExpires`
the slot goes on beside the one its job is handed to: `Holds` is false for it, and its
writes still happen.

### Documents, Tyres, Registry, AuthSessions, StaffAccess

Each has the rows as functions of their ids and one record per request with what it read.

- `Documents`: `OpenSession`, the client's `PutBytes` and `LinkExpires`, `finalise` as
  `Finalise`, `CheckHead`, `CheckMagic`, `CheckSum` and then `Publish` or `Quarantine`, and
  `RemoveRead`, `RemoveDocument`. Bytes are compared with the declaration by three bits
  (size, type, checksum). The presigned link signs no checksum and no status revokes it, so
  until it expires every put may bring other bytes; as the checks do, the model trusts the
  store with neither size nor type. `rewritten` are the
  documents this was done to after a finalisation had found the object: each of its checks
  reads the object anew and nothing reads it after the verdict.
- `Tyres`: `Fit`, `FindReplaced` and `FitSet` are `fit` (the set, the open period, the
  transaction); `TakeOff`/`TakenOff`, `DeleteSet`/`SetDeleted`, `EditSet`, `AddSet`.
- `Registry`: `RequestCreate`/`CreateVehicle`, `RequestRestore`/`CheckClash`/
  `RestoreVehicle`, `RequestDelete`/`DeleteVehicle`, `RequestStatus`/`ChangeStatus`; the
  partial unique index is `IndexAllows`. Sold, scrapped and archived are one status.
- `AuthSessions`: one address. `Register`/`CreateAccount`, `AskToken`/`SeeOutstanding`/
  `IssueToken`, `UseToken`/`Verify`/`ResetPassword`, `Login`/`FailedAttempt`/
  `ClearAttempts`/`CreateSession`, the two clocks `TokenExpires` and `LockExpires`. A
  password is the number of times it was set; a session remembers which one was proved.
- `StaffAccess`: `SignIn`, `CountFailure`, `Lock`, `OpenStaffSession`, `ClearFailures`;
  `RequestGrant`/`CreateGrant`, `RevokeOrExpire`, and the gate as `PassGate`, `CountUse`,
  `ReadRecords`.

### Access

The two matrices and the permission of every route are data, transcribed from
`packages/permissions` and from the controllers' decorators. A request is `Send`,
`PassSession`, `PassWorkspace` and then one of `ReadRows`, `WriteMany`, `WriteOne`,
`CreateRow`, with `RoleChanges`, `SessionEnds` and `SignsBack` at any moment between. The
scoped client is `Narrowed` (a filter is intersected with the workspace), `Completed` (a
unique key gets the workspace), `Homed` (new data get the workspace, whatever they say) and
`Updated` (the data of an update are passed on, so a workspace named in them becomes the
row's). Handlers name a workspace nowhere in an update's data today; the model lets them.
`stored` remembers of a row who wrote it last and what that update named, so that
`RowsStayHome` can say of each step that the row was the writer's own, that a new row is its
creator's, and that a row leaves its workspace only because its own workspace's update said so.

### Histories

`rows` are services, readings, inspections and fills in the order they were written, each
with its day and whether it is live. A reading knows the service that recorded it. The
readers (`Timeline`, `ServiceList`, `InspectionList`, `FuelList`, `RecentActivity`,
`ServiceExport`, `FuelExport`, `OdometerExport`, `VehicleExport`, `HistoryDocument`) are
operators; the actions move, remove and hide what they read.

### Dashboard

The first half is data: what each query's route reads, what each write changes
(`Effects`), and for every page, panel and dialog what it fetches while it is shown
(`Shows`), what it fetches when it is opened (`Opens`), which routes it can post to and
which keys it then invalidates (`Saves`), and to which roles (`Gated`). A definition
stands for one React component and is named after it; its lines are the component's, with
the markup abstracted. The second half is the life of one cached answer (`watched`) as the
query library treats it: asked, answered, arrived, aged after `staleTime`, dropped after
`gcTime`, failed, polled; and of its reader, who navigates, opens dialogs, saves, switches
workspace and reloads. `SaveSucceeds` applies the invalidations of the component whose
save it was; `Invalidated` has a fetch under way replaced unless it is the first.

Abstractions. The answers do not depend on each other, so one is followed per behaviour.
An answer is described by whether it has the reader's last save. There is one vehicle,
one reader who may see everything (who sees what is checked as data, for every role), one
save at a time, no workspace switch during a save, and other people's changes are not
followed: nobody is told of those. Screens that neither show the watched answer nor offer
a save that matters to it are represented by one of them (`Visited`).

### Upkeep, Obligations, FuelFigures, CostFigures

The pure engines are operators; the state they are evaluated in is reached by the
operations that change it, so that a property over all reachable states is a property over
histories: days pass, the car is driven, readings are corrected, rules completed, papers
filed, amended and removed, vehicles hidden, fills logged late and corrected.

- `Upkeep`: `maintenance.engine` (`EvaluateRule`, `Worst`, `DaysLeft`, `DistanceLeft`,
  `Confidence`), `warranty.engine` (`CoverState`) with its source's notion of news
  (`WarrantyIsNews`), `tyre.engine` (`DistanceOnSet`, `TreadStates`) with its source
  (`TyreAlerts`), and the stale-mileage source (`AsksForReading`). Distances are whole
  metres inside and rounded to whole units at the edge, as in `units.ts`.
- `Obligations`: `Scan` for the three expiry sources, `ExpiryStatus` for the record's own
  line, `OnCard` for the row the page's card shows (the newest by its start, then by entry),
  `Attention` for the dashboard, `ComplianceOf` for the fleet table with its own lead time.
  Papers have a start and an expiry, and both can be amended.
- `FuelFigures`: `Intervals` and `Average` (full tank to full tank), `Direction` (the trend).
- `CostFigures`: `CostReport`, `FleetReport`, `ExpenseSummary`, `ThisMonth`, `ExpenseList`,
  `ExportedExpenses` over one expense table and one odometer history.

## Runs

| Run | Instance | Asks |
|---|---|---|
| `membership_safe` | 3 users, 3 rows, 2 invitations, 2 requests, symmetry | ownership, pointer, tokens, rows; refinement of `Ownership` |
| `email_send` | 1 message, 2 workers, 1 webhook call, all six faults, 3 attempts, 1 stall, 2 refusals | at most one send, one sender, SENT is true but for named interruptions, every job ends |
| `email_quiet` | 2 messages (one critical), 1 worker, 1 webhook call, no faults | replays do nothing, nothing is lost |
| `reminder_safe` | RULE, 1 member, 2 overlapping scans, 2 rows, all acts (an edit and a completion of the rule among them), crash and failed enqueue | told once, one live reminder |
| `reminder_live` | RECORD, 2 members, 1 scan at a time, 3 days, 1 renewal, 1 edited expiry, failed enqueue | SENT covers everybody, each due day is told, overdue is told |
| `ledger_safe` | 2 requests at a time, 3 in all, 1 record, 1 rule with two pairs of intervals (kilometres, or days only), readings of two days in both units, 2 amounts, crashes, refused mirrors | the cached reading, the mirror and the due point |
| `export_ends` | 2 exports, 2 requests, 2 slots, 1 pending allowed, 1 stall, 1 death or expired lock, failing builds | a READY export has its file and keeps it; every export ends |
| `desk_safe` | 2 requests in each of five components, 1 caller of 2 workspaces, 3 rows of history over 2 vehicles, 8 watched answers | the eight components of `MCDesk` |
| `figures_safe` | see below | the calculations |
| `owner_lost`, `attention`, `hidden_records` | the same instances (`Histories` by itself in the last) | three sentences of the documentation, refuted |

Every passing run is exhaustive. The larger ones have 1.3 million distinct states
(`ledger_safe`), 1.2 million (`desk_safe`), 950,000 (`reminder_safe`), 425,000
(`reminder_live`), 220,000 (`figures_safe`) and 162,000 (`email_send`).

**Two sums.** `MCDesk` and `MCFigures` each put several components that share no state into
one run: the initial states choose the part, only that part moves, and the others stay at
their initial values. Nothing is lost, because no action of one reads a variable of another,
and each invariant is checked in every state of the part it is about. The parts of `MCDesk`
are documents, tyres, vehicles, accounts, staff, past, access and screens; those of
`MCFigures` are rule, cover, tyres, tread, papers, fuel, trend and costs. `RealmsSafe` is
the conjunction of what holds of the customers' accounts and of the staff's,
`VehicleFilesSafe` that of tyres and plates, `ScreensAreHonest` that of what pages show
after a save and of what they offer to whom.

**Why the bounds are enough.** Every race in this code is between two actors and a third
party that changes what they read; two requests (scans, workers) with an atomic environment
between any two statements give every such order. Three membership rows allow a transfer,
the write it overtakes, and a member who leaves and returns under a new row. The membership
run's assignable role is ADMIN, the only assignable one with rights over members; the others
differ only in having none. Three attempts with two refusals and one stall reach every
combination of retry reason (throw, lock loss) that the handler distinguishes. In the
reminder runs the day on which an item becomes overdue, one day before and one after are all
the windows there are for one lead time; `MaxRows = 3` in `reminder_live` is more rows than
two items and a recreation need, so `Create` is never blocked by the bound. In
`reminder_live` an edit moves the due day to the next one, whose windows have the keys of
the first; one edit is enough for them to be spent already. In `ledger_safe` two requests overlap while a
third comes after, which is what a healed cache needs; one record passes through creation,
update, removal and completion of the rule; the readings are of two days and two units and
convert to comparable but unequal distances (a mile is 8 units of distance and a kilometre
5, so the rounding of a conversion shows). In `export_ends` the second slot is the one to
which a job is handed while the first, whose lock expired, goes on. One loss is as many as
BullMQ forgives (`maxStalledCount` is 1): a job lost twice is given up. In `desk_safe` the
caller of `access` asks for one route of each kind (read by all; written by a driver; by an
editor; by everybody) and is given the three roles that differ on them; the matrices
themselves are checked for every role and every route. `screens` watches one answer of each
kind: of the shell, polled, of a vehicle's header, of several tabs, of a dialog, of a page
whose savers refresh it and of one whose do not. (With all 37 queries watched the same
properties hold; that instance takes longer and adds no kind.) In `figures_safe` thresholds
and intervals of one to three days or units, five days and two changes of the tyre set put
every comparison of the engines on both its sides and on its boundary; two papers over two
vehicles, each started on one of two days, ended before, within or after the horizon or
without an expiry, allow the renewal, the back-dated one, the amended older paper and the
removed one (the theorem is of any number of papers); four fills are two intervals with a
partial fill in one of them; months are five with windows of two, so that one month falls
out of both. The proofs remove the bounds for the safety properties they cover.

**Symmetry** is used only in runs without liveness, over identities that the
specification never names (in `desk_safe` the requests of a component, and its rows).
`CHECK_DEADLOCK FALSE` is in every configuration: a workspace nobody uses, a queue without jobs and a calendar at its last day may stop.

**Fairness.** `EmailPipeline.FairSpec`: BullMQ hands out waiting jobs and detects lost locks
of abandoned jobs, a handler that runs goes on, a webhook call goes on. Nothing obliges a
producer, the provider, an operator or a fault; that `ProviderRefuses` is bounded by
`MaxRefusals` is what `NothingIsLost` assumes. `ReminderScan.FairSpec`: the hourly scheduler
starts a scan whenever none runs (`main.ts`, `upsertJobScheduler`), a scan that runs goes
on, a renewal's second statement follows, days pass. In `reminder_live` there is no crash:
after a crash between a reservation and its delivery the reservation stays and no later scan
delivers it; D-040 releases it after a failed enqueue only. `ExportJobs.ExportFairness`: a
request that inserted its row goes on to enqueue it, a slot that runs a job goes on, a free
slot takes a waiting job, the queue looks for stalled jobs; nothing obliges a build to fail
or a worker to die, and in `export_ends` the queue refuses no job and no job is lost twice,
because an export whose job was refused stays PENDING for ever and one whose worker died
twice stays RUNNING. Only weak fairness is used.

## Proofs

Every safety invariant and every action property that a passing run checks is a theorem
of its component's specification, for any sets of users, rows, requests, workers, keys,
scans, jobs, cars and papers, and any bounds. The theorems rest on the named assumptions of
the modules (`ConstantsOK`, `PipelineConstants`, `ScanConstants`, `LedgerConstants`,
`ExportConstants`, `AuthConstants`, `AccessConstants`, `DashboardConstants`,
`UpkeepConstants`, `ObligationConstants`, `CostConstants`, `FuelConstants` and their like),
which give the sets their types: null values lie outside the sets they stand beside, bounds
are natural numbers, conversion factors are positive. TLC evaluates each of them in the runs
of its module. Two theorems about screens have a hypothesis more, which is named below.

`MCDesk` and `MCFigures` are sums of parts, so a theorem about a part is stated of the
part's own specification (`DocSpec`, `UpkeepSpec`); where a property joins two parts
(`RealmsSafe`, `VehicleFilesSafe`) it is proved of `DeskSpec`, each step of which is a step of
one part or leaves it alone.

**`MembershipProofs`** (`TypeCorrect`, `OwnerIsUnique`, `PointerIsRight`,
`TokenIsSingleUse`, `MemberOnce`, `Refinement`). That there is at most one OWNER row
needs the pointer: a transfer demotes the OWNER rows of the *caller*, so the proof
must know that any OWNER row is the caller's, which follows from one row per user and
the agreement of pointer and rows. `TokenAdmitsOnce` needs that an invitation which
created a row is accepted, and that a request about to write was for an invitation.
The refinement then follows action by action: only `TransferOwnership`, `UpdateRole`
and `DeleteRow` can change `ownerBar`.

**`EmailProofs`** (`PipelineTypeCorrect`, `OneSenderAtATime`, `SentAtMostOnce`,
`EverySendIsGranted`, `ReplaysChangeNothing`, `SentRowsAreTrue`). The invariant relates a
reservation to its unique owner: while a worker is between `Reserve` and `Release` or
`SaveProviderId` its key is reserved and no other worker is there (`Exclusive`); and a key
that was accepted stays reserved unless it is doubted, by a wrong answer or an expired
reservation. `FirstOnly` says that the call which stored an event is the only one that acts
on it, so a replay has nothing left to do. `SentRowsAreTrue` holds under every fault: a
handler holds the job it works on unless its message is `interrupted` (`Held`), so that a
key taken by another attempt was sent (`Truth`); the two interruptions are a sender that
died before the provider's answer and a worker that runs on beside its replacement, and
without them the sentence is false (see below).

**`BackgroundProofs`**, scans (`TypeCorrect`, `OneLive`, `ToldAtMostOnce`,
`SentIsForEveryone`, `DueDaysAreTold`). `WellFormed` is the type invariant with what each
scan must know at its program counter. `OnceInv` says that a scan which inserted a key holds
it alone until it spends or releases it, so a delivered key is never undelivered or inserted
again. `CoverInv` says that the members a scan has passed have a reserved in-app key for its
row; that makes `Close` sound. `DayInv` adds which due day was said of which row. It holds of
records and rules, for any number of overlapping scans and with crashes: what it excepts it
excepts by name, the items whose due day moved under their own id (`moved`), the keys whose
scan died holding them (`lost`), and a notification another scan is about to make.

**`BackgroundProofs`**, exports (`ReadyIsStored`, `ReadyLasts`). The first needs only that
a slot about to mark its row has put the key it will write (`FileIsPut`), and holds for any
number of slots at one job. The second rests on the queue: a job no slot outlived its lock
on is held by the one slot at work on it (`HeldAlone`), which needs that a job enters the
queue once, from one request, after its row (`QueuedOnce`); then what the slot read stays
true and its row is not READY until it writes so itself (`NotYetReady`).

**`LedgerProofs`** (`LedgerTypeCorrect`, `CachedReadingIsNewest`, `DuePointFollows`,
`LedgerMirrorsRecords`). `CallOK` is what a request knows at each statement, above all that
the reading it is about to cache is the newest of those it saw and its own. A commit that
saw every entry leaves the cache at the newest; one that did not sets `cacheLags`. The due
point follows because a request that stores it computes it from the anchor and the intervals
it has just read, or another one wrote either in between (`ruleLags`). `Books` accounts for
each record whose mirror is missing or stale by the request that will still write it, or by
`astray`.

**`RecordProofs`** (`OfferedWasChecked`, `DecisionsStand`, `VehicleFilesStaySafe`,
`PastStaysTold`). What a finalisation has found out about an object stays true until it
writes, and what was published stays as it was found, unless the link brought other bytes
meanwhile (`rewritten`); so overlapping finalisations come to one verdict. Of tyres:
two open periods exist only after two requests crossed (`OneOpen`). Of plates: a request
that nothing overtook still sees what it checked (`ErrandOK`), so the index answers only to
those that were overtaken. Of the past: a reading names a service of its own car that was
written before it (`Written`), so that each visit and each reading has one line; the newest
of a list are counted by their ranks.

**`AccountProofs`** (`AccountsStaySafe`, `LocksHold`, `AccessStaysSafe`, `SavesAreSeen`,
`ScreensStayHonest`). A live session was opened with the password of today or late; what an
issue of tokens did not see marks its kind; a lock comes with a full count of failures, in a
row read earlier too (`LockIsEarned`), and so no sign-in that read it can lift it. Of staff:
the requests that passed a grant's gate and have not read yet, and the reads so far, are no
more than the counted uses (`UsesCover`, by the cardinality of a set of requests). Of
members: the role a request was let in with is among those its caller had while it ran
(`LetIn`), and a write reaches a row only through a filter or a key its workspace was put
into. Of the dashboard: an answer that is owed to a reader and not on its way is neither on
the page nor fresh (`Paid`), whether or not another save has begun, which needs that the
header of a page is on all of its tabs. The two theorems about screens assume `ListIsExact`
and `AffordancesSafe`, equations between the tables of pages, routes, roles and saves: these
have no parameters at all, so TLC's evaluation of them in `desk_safe` is complete.

**`FigureProofs`** (`LimitsStayTold`, `NothingImproves`, `ScreensStayTrue`). Rounding into a
unit keeps the sign of what is left and loses less than a unit (`SignKept`), which is why a
passed limit is reported on whichever clock. `NothingImproves` needs that a set has one open
period and that an open period has no reading of its end (`UpkeepInv`); then every term of a
sum over periods grows with the odometer. `ScreensStayTrue` needs that finitely many papers
are filed (`PaperInv`), so that one of a kind lasts longest (`LongestLinesAgree`); that the
card agrees where newer papers end later is `PagesAgree`.

**`ReportProofs`** (`ReportsStayInAgreement`, `FuelStaysCountedOnce`,
`VerdictStaysWithTheFuel`). A table adds up to its total because its rows partition the
expenses (`SumByParts`). Fuel: the windows between full fills lie behind each other and
cover what lies between the first and the last, so their distances telescope (`StepsAddUp`)
and their fills are disjoint (`WindowsCover`). The verdict compares two fractions by their
cross products, and a sum of months compares as its terms do (`SumBelow`).

*Sums.* The calculations fold over histories, and an induction over data cannot be done with
the library's theorems here: they take an operator as a parameter. `SmallestSet` goes another
way. The natural numbers are well-founded (`LeastNumber`), so a family of finite sets that is
not empty has a smallest member; a statement about sums over finite sets that were false
somewhere would be false of a smallest set, from which an element can be removed. What a sum
does with one element more is one unfolding of `SumOf`. All the lemmas on sums (splitting,
comparison, renaming, parts) are proved so. For the same reason the modules that are proved
about write tables as `Table({...})` and totals as `SumOf`, where they could use `@@` and
`MapThenSumSet`.

Checked by TLC only: what must eventually happen (`JobSettles`, `NothingIsLost`,
`OverdueIsTold`, `EveryExportEnds`), which is beyond this prover, and the equations between
constant tables that two theorems assume.

## What the code does not keep

Three are runs whose counterexample shows the steps.

- *A workspace has exactly one OWNER* (`ARCHITECTURE.md:250`): `owner_lost`. A role
  change, a removal or a departure judged before a transfer is applied to the new
  owner's row. There are never two owners.
- *The dashboard and the reminders agree* (`workspaces.service.ts:149-153`): `attention`.
  The dashboard cuts its rows at the 90-day horizon *before* it takes the latest per
  vehicle (line 130), so a certificate that was renewed for longer is still overdue there.
- *A hidden vehicle is hidden from every reader* (`DECISIONS.md` D-082): `hidden_records`.
  Its services stay in the list (`services.service.ts:101`), its services, fills and
  readings in the exports (`export.handler.ts:250, 275, 299`), all of it in the recent
  activity (`workspaces.service.ts:213-227`), its inspections in their list.

Stated in a module, violated by the code, and without a run of their own:

| Definition | What the code does instead |
|---|---|
| `Membership!OneLiveInvitation` (`invitations.service.ts:56`) | two invitations to one address that both supersede before either creates leave two live tokens |
| `EmailPipeline!CrashesAreSafe` (`EMAILS.md:181`) | a worker that dies after the reservation and before the provider call leaves a message that is marked and never sent |
| `EmailPipeline!StatusNeverRegresses` (`EMAILS.md:195`) | the rank is compared with a status read earlier |
| `EmailPipeline!FailedIsTrue` (`EMAILS.md:204`) | a failed attempt outranks the successful retry (`handlers.ts:128`) |
| `ReminderScan!EachWindowFires` (`reminder.policy.ts:4-6`) | an expiry edited in place and a completed or edited rule keep the reminder and its spent windows; a scan that dies between reserving and notifying spends one |
| `ReminderScan!OverdueIsTold` for rules (`DATABASE.md:277-278`) | nothing recomputes a stored status as days pass |
| `Documents!OfferedIsDeclared` (`documents.service.ts:110-115`) | bytes put through the link after the checks are offered unchecked |
| `Access!HomesNeverChange` (`SECURITY.md:51`, "every `data`") | an update's data are passed on as they are (`tenant-client.ts:79-107`) |
| `Obligations!CardAgrees` (`OwnershipPanel.tsx:33-35, 109-112`) | the card shows the newest record; one that ends sooner, or has no expiry, hides the one in force |
| `Obligations!FleetTellsAsEarly` (`fleet.engine.ts:40-43`) | the table says due soon 30 days ahead and the reminders 90 |
| `VehicleLedger!NeverDrops` (D-076) | a fill is inserted with no regression check |
| `VehicleLedger!CompletionKeepsUnit` | a completion by service is labelled with the vehicle's unit (`maintenance.service.ts:258`) |
| `ExportJobs!OneFile` (`export.handler.ts:149`) | a repeated run draws a new key and orphans the first file |
| `Tyres!OneFitted` (D-108) | two fits that read the same open period leave two |
| `Upkeep!OldWarrantyIsHistory` (`warranty.source.ts:77-84`) | a warranty that ended by date long ago is news again when the mileage passes its limit |
| `Upkeep!StoredSetsDoNotWear` (`tyre.engine.ts:81-82`) | a closed period without a final reading is measured to the car's present one (line 113) |

Named by a history variable or an exact list in a property that holds:

- Two writers of the mileage history can leave the older reading cached until the next
  write (`cacheLags`); a projection that ran after the retraction, or failed, leaves the
  ledger wrong (`astray`); a recomputation can store what it read before a completion or
  before an edit of the intervals (`ruleLags`), and a completion without a reading that races
  one with it loses the anchor.
- A sign-in that had checked the old password stores its session after a reset (`late`);
  two requests for a token leave two (`reissued`); concurrent failed sign-ins of a customer
  count once (`auth.service.ts:381-390`), and one of them may lift a lock.
- Other bytes put through a link that still works (`rewritten`), an attempt at an e-mail that
  died or was overtaken (`interrupted`), a due day moved under its item's own id and a
  notification its scan died before making (`moved`, `lost`), as in the table above.
- Two requests for support access leave two grants of one scope (`stacked`).
- `Dashboard!Ungated`: nine buttons are shown to roles the server refuses.
  `AskedIsAllowed`: a driver's expenses tab asks for what the server refuses.
- `Dashboard!LeftStale`: the saves that leave an answer on the page as it was. A mileage
  entry leaves the due distances, the warranties and the tyre figures beside it;
  a service removed from the workspace's list refreshes no vehicle page; no save refreshes
  the cost reports. `ComesLate`: a first load, or the fetch of a page just left, that was
  answered before a save and arrives after it passes for fresh.

Seen while reading or in the models:

- E-mail: a wrong answer of the provider leads to a second send (`EMAILS.md:157` promises
  the contrary; `AtMostOneSend` excludes doubted keys for this reason); a webhook call that
  dies after storing the event and before suppressing loses the suppression
  (`EMAILS.md:241-243`).
- Reminders: a scan marks DUE over a snooze made since (comment at
  `reminders.service.ts:144`); a scan that read its candidates before a sale or a renewal
  recreates the reminder it cancelled (D-083); `summary()` counts snoozed past-due
  reminders as overdue and `list()` does not; the IN_APP preference is stored and never
  read; a stale-mileage prompt has the same window key every day. A key reserved by a scan that
  died is never delivered; the comment at `reminders.service.ts:305-307` accepts that.
- Mileage and rules: a new odometer entry recomputes no rule (`DATABASE.md:277`); `newest`
  compares raw values and ignores the unit; a rule created by time and given a distance
  later has no unit and is read in that of the latest reading; `applyTemplate` twice at
  once duplicates the rules (`maintenance.service.ts:415-448`); a rule deleted during a
  service's creation fails the request after the commit; updating a removed policy brings
  its expense back.
- Vehicles: `VehicleSummary.maintenanceStatus` and `inspectionStatus` are always `UNKNOWN`.
- Tyres and warranties: `fit` writes the new set's reading under the replaced period's
  unit; a worn set fitted again without a measurement raises no reminder though its page
  says ILLEGAL; the source ignores the stale flag; `treadStatus`'s comparator is not an
  order on ties; the warranty source's due odometer is the current one.
- Reports: the fleet report reads removed papers (`reports.service.ts:162-173`) where
  `fleet.engine.ts:40-43` says the two never disagree, and reads six queries without a
  transaction; the trend's windows are measured months, not consecutive ones; the fuel
  engine sorts by raw numbers.
- Documents and exports: finalisation adds nothing to `storage_used_bytes`; the queue's
  default job options are never applied, so an export gets one attempt; an export whose job
  was refused stays PENDING, and one whose job was given up after a second death RUNNING,
  and both count against the workspace's limit. A slot that outlived its lock may mark an
  export RUNNING or FAILED after the other one marked it READY (`outlived`).
- Staff: failures of the support-access audit are swallowed; `revoke` sees 200 grants.

## Not modelled

- *Notification inbox*: reading, marking and counting touch one row of one user.
- *Rate limiting*: one counter per window in Redis, failing open by decision; no modelled
  component depends on its answer.
- *Staff console, marketing site, widgets*: the console posts to the routes `Access` and
  `StaffAccess` have; the rest is layout and text. Of the dashboard the signed-out pages
  and components that fetch and save nothing (tables, cards, charts, icons) are left out;
  so are the refetch after a failed download, and the wording and fields of forms.
- *Layout of exports and mails, validation schemas, logging, configuration, deployment and
  seed scripts*: no state shared between actors, or none a property could be about.
- *Schedules, start-up and shut-down of the worker*: the jobs they start are modelled.
- *Inside the modelled components*: advisories of an inspection, re-enrolment of an
  administrator, projected due dates from an average mileage, the 100-event and 200-row
  cuts, purchase and sale events of a timeline, distance windows of a reminder and the
  daily window of an item its source calls overdue.
- Cryptography, PostgreSQL, Redis, BullMQ, the query library, the e-mail provider and the
  object store are external: the models have what the code relies on.

## Plan

The components of the inventory are modelled and checked, and their safety and action
properties are proved. What remains, in this order:

1. Refinements in the manner of `Ownership`: a reservation as a lock with at most one grant
   for `EmailPipeline`, a register of verdicts for `Documents` (up to `rewritten`). Their
   steps follow from the invariants above.
2. `VehicleLedger`: that a cache which lags is healed by the next complete write, as an
   action property with `LedgerInv`.
3. The four liveness properties have invariants at their centre (a job that is not queued
   has somebody who will act); those can be proved although the properties cannot.
