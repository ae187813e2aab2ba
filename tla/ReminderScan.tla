---------------------------- MODULE ReminderScan ----------------------------
(* The reminder engine for one due item of one vehicle: overlapping scans,     *)
(* each a statement at a time, the delivery ledger they reserve in, and what   *)
(* users and the vehicle's owner do between their statements. The item is a    *)
(* RECORD (inspection, insurance, road tax), which a renewal replaces by a new *)
(* record with an id of its own, or a maintenance RULE, which keeps its id and *)
(* whose status the source reads as it was last computed. The due day of       *)
(* either can also be edited in place.                                         *)
EXTENDS Naturals

CONSTANTS
  Kind,         \* of the item: "RECORD" or "RULE"
  Scans,        \* scan calls the API serves at the same time
  Users,        \* active members of the workspace
  MaxRows,      \* bound on the reminder rows
  MaxItem,      \* bound on the renewals of a record
  FirstDue,     \* the day the item is due
  Interval,     \* days from a renewal to the next due day
  MaxDay,       \* bound on the days that pass
  AmendedDays,  \* bound on the days an edit moves the due day to
  LeadDays,     \* the reminder's lead times
  Horizon,      \* days ahead a record is reported, or a rule's status is due soon
  WeekDays,     \* length of the week in which an overdue item nags once
  Acts,         \* what users may do: see AllActs
  Faults,       \* what may go wrong: "crash" of the API, "queue" unavailable
  MaxFailures,  \* bound on failed enqueues
  NoUser

AllActs == {"snooze", "resolve", "sell", "renew", "recompute", "prefer", "amend"}

ASSUME ScanConstants ==
  /\ Kind \in {"RECORD", "RULE"} /\ MaxItem \in Nat
  /\ Users # {} /\ NoUser \notin Users /\ MaxRows \in Nat \ {0} /\ FirstDue \in Nat /\ Interval \in Nat
  /\ MaxDay \in Nat /\ AmendedDays \subseteq Nat /\ LeadDays \subseteq Nat \ {0} /\ Horizon \in Nat
  /\ WeekDays \in Nat \ {0} /\ Acts \subseteq AllActs
  /\ Faults \subseteq {"crash", "queue"} /\ MaxFailures \in Nat

VARIABLES
  day,          \* today
  due,          \* the item's due day
  item,         \* its id
  listed,       \* a rule's stored status: due soon, due or overdue
  renewing,     \* a renewal is recorded, the reminders of the old record still stand
  active,       \* the vehicle's status is ACTIVE
  row,          \* reminders: the item, status and end of snooze
  ledger,       \* notification_deliveries: the reserved keys
  told,         \* what was delivered: a key, and the due day it was about
  twice,        \* history: keys delivered more than once
  lost,         \* history: keys whose scan died between reserving and notifying
  wants,        \* notification_preferences: the members who want e-mail
  moved,        \* history: items whose due day was changed under their own id
  failures,     \* failed enqueues so far
  scan          \* what each scan call is doing

world == <<day, due, item, listed, renewing, active, wants, moved>>
vars  == <<world, row, ledger, told, twice, lost, failures, scan>>

Rows == 1..MaxRows
Live == {"SCHEDULED", "DUE", "SENT", "SNOOZED"}
\* DISMISSED, COMPLETED and CANCELLED: no code of the engine tells them apart.
Statuses == Live \cup {"CLOSED"}
Row(i, st, until) == [item |-> i, status |-> st, until |-> until]
RowType == [item : 0..MaxItem, status : Statuses \cup {"NONE"}, until : Nat]
Channels == {"IN_APP", "EMAIL"}

LiveRows(i) == {r \in Rows : row[r].item = i /\ row[r].status \in Live}

\* The delivery keys. Neither the due day nor the year is part of one.
Windows == {"due", "overdue"} \X Nat
NoWindow == <<"none", 0>>
Keys == [row : Rows, user : Users, channel : Channels, window : Windows]
Key(r, u, c, w) == [row |-> r, user |-> u, channel |-> c, window |-> w]

\* The most urgent window that is open on a day.
Window(dueOn, today) ==
  CASE dueOn < today -> <<"overdue", today \div WeekDays>>
    [] dueOn = today -> <<"due", 0>>
    [] OTHER -> LET Reached(l) == dueOn <= today + l
                    first == {l \in LeadDays : Reached(l) /\ \A m \in LeadDays :
                                                              Reached(m) => l <= m}
                IN  IF first = {} THEN NoWindow
                                  ELSE <<"due", CHOOSE l \in first : TRUE>>

Idle == [pc |-> "idle", day |-> 0, item |-> 0, due |-> 0, window |-> NoWindow, row |-> 0,
         todo |-> {}, user |-> NoUser]

ScanStates ==
  [pc : {"idle", "find", "upsert", "markdue", "inapp", "notify", "prefer", "email",
         "enqueue", "release", "close"},
   day : 0..MaxDay, item : 0..MaxItem, due : Nat, window : Windows \cup {NoWindow},
   row : Rows \cup {0}, todo : SUBSET Users, user : Users \cup {NoUser}]

TypeOK ==
  /\ day \in 0..MaxDay /\ due \in Nat /\ item \in 0..MaxItem
  /\ listed \in BOOLEAN /\ renewing \in BOOLEAN /\ active \in BOOLEAN
  /\ row \in [Rows -> RowType]
  /\ ledger \subseteq Keys /\ told \subseteq Keys \X Nat /\ twice \subseteq Keys
  /\ moved \subseteq 0..MaxItem /\ lost \subseteq Keys
  /\ wants \subseteq Users /\ failures \in 0..MaxFailures
  /\ scan \in [Scans -> ScanStates]

\* The engine's status of a rule whose due day is d.
DueSoon(d) == d <= day + Horizon

Init ==
  /\ day = 0 /\ due = FirstDue /\ item = 0 /\ renewing = FALSE /\ active = TRUE
  /\ listed = DueSoon(FirstDue)
  /\ row = [r \in Rows |-> Row(0, "NONE", 0)]
  /\ ledger = {} /\ told = {} /\ twice = {} /\ moved = {} /\ lost = {}
  /\ wants \in SUBSET Users /\ failures = 0
  /\ scan = [s \in Scans |-> Idle]

----------------------------------------------------------------------------
(* One scan call.                                                             *)

Go(s, q) == scan' = [scan EXCEPT ![s] = q]
GoTo(s, pc) == Go(s, [scan[s] EXCEPT !.pc = pc])
Leave(s) == Go(s, Idle)

\* The sources report items of active vehicles: a record by its date, only the
\* latest one; a rule by the status that was stored for it.
Emitted == active /\ IF Kind = "RULE" THEN listed ELSE due <= day + Horizon

Start(s) ==
  /\ scan[s].pc = "idle" /\ Emitted
  /\ Go(s, [Idle EXCEPT !.pc = "find", !.day = day, !.item = item, !.due = due,
                        !.window = Window(due, day)])
  /\ UNCHANGED <<world, row, ledger, told, twice, lost, failures>>

FindLive(s) ==
  /\ scan[s].pc = "find"
  /\ \/ /\ LiveRows(scan[s].item) = {}
        /\ Go(s, [scan[s] EXCEPT !.pc = "upsert", !.row = 0])
     \/ \E r \in LiveRows(scan[s].item) : Go(s, [scan[s] EXCEPT !.pc = "upsert", !.row = r])
  /\ UNCHANGED <<world, row, ledger, told, twice, lost, failures>>

\* Mutant: goes on to notify outside the windows.
JudgeNoWindow(s, r, st) ==
  IF st.status = "SNOOZED" /\ st.until > scan[s].day
    THEN Leave(s)
    ELSE Go(s, [scan[s] EXCEPT
                  !.row = r, !.todo = Users,
                  !.pc = IF st.status \in {"SCHEDULED", "SNOOZED"} THEN "markdue"
                                                                   ELSE "inapp"])

\* A snoozed reminder waits; outside the windows there is nothing to say.
Judge(s, r, st) ==
  IF \/ st.status = "SNOOZED" /\ st.until > scan[s].day
     \/ scan[s].window = NoWindow
    THEN Leave(s)
    ELSE Go(s, [scan[s] EXCEPT
                  !.row = r, !.todo = Users,
                  !.pc = IF st.status \in {"SCHEDULED", "SNOOZED"} THEN "markdue"
                                                                   ELSE "inapp"])

\* The row found is updated by its id, whatever became of it since.
Update(s) ==
  /\ scan[s].pc = "upsert" /\ scan[s].row # 0
  /\ Judge(s, scan[s].row, row[scan[s].row])
  /\ UNCHANGED <<world, row, ledger, told, twice, lost, failures>>

Unused == {r \in Rows : row[r].status = "NONE"}
Fresh == CHOOSE r \in Unused : TRUE
Scheduled(s) == Row(scan[s].item, "SCHEDULED", 0)

\* Mutant: without the partial unique index on live reminders.
CreateUnindexed(s) ==
  /\ scan[s].pc = "upsert" /\ scan[s].row = 0
  /\ Unused # {}
  /\ row' = [row EXCEPT ![Fresh] = Scheduled(s)]
  /\ Judge(s, Fresh, Scheduled(s))
  /\ UNCHANGED <<world, ledger, told, twice, lost, failures>>

\* Another scan's row makes the insert fail, and the whole scan with it.
Create(s) ==
  /\ scan[s].pc = "upsert" /\ scan[s].row = 0
  /\ IF LiveRows(scan[s].item) # {}
       THEN Leave(s) /\ UNCHANGED row
       ELSE /\ Unused # {}
            /\ row' = [row EXCEPT ![Fresh] = Scheduled(s)]
            /\ Judge(s, Fresh, Scheduled(s))
  /\ UNCHANGED <<world, ledger, told, twice, lost, failures>>

\* By id again: only a second live row can stop it.
MarkDue(s) ==
  LET r == scan[s].row IN
  /\ scan[s].pc = "markdue"
  /\ IF LiveRows(row[r].item) \subseteq {r}
       THEN row' = [row EXCEPT ![r] = Row(row[r].item, "DUE", 0)] /\ GoTo(s, "inapp")
       ELSE Leave(s) /\ UNCHANGED row
  /\ UNCHANGED <<world, ledger, told, twice, lost, failures>>

KeyOf(s, channel) ==
  Key(scan[s].row, scan[s].user, channel, scan[s].window)

Delivered == {t[1] : t \in told}

Deliver(s, k) ==
  /\ told' = told \cup {<<k, scan[s].due>>}
  /\ twice' = IF k \in Delivered THEN twice \cup {k} ELSE twice

\* Mutant: looks the key up, but does not care who inserted it.
ReserveInAppUnchecked(s) ==
  /\ scan[s].pc = "inapp"
  /\ \E u \in scan[s].todo :
       LET k == Key(scan[s].row, u, "IN_APP", scan[s].window) IN
       /\ ledger' = ledger \cup {k}
       /\ Go(s, [scan[s] EXCEPT !.user = u, !.todo = @ \ {u}, !.pc = "notify"])
  /\ UNCHANGED <<world, row, told, twice, lost, failures>>

\* The next member: reserve the in-app key, or skip to the e-mail.
ReserveInApp(s) ==
  /\ scan[s].pc = "inapp"
  /\ \E u \in scan[s].todo :
       LET k == Key(scan[s].row, u, "IN_APP", scan[s].window) IN
       /\ ledger' = ledger \cup {k}
       /\ Go(s, [scan[s] EXCEPT !.user = u, !.todo = @ \ {u},
                                !.pc = IF k \in ledger THEN "prefer" ELSE "notify"])
  /\ UNCHANGED <<world, row, told, twice, lost, failures>>

Notify(s) ==
  /\ scan[s].pc = "notify"
  /\ Deliver(s, KeyOf(s, "IN_APP")) /\ GoTo(s, "prefer")
  /\ UNCHANGED <<world, row, ledger, lost, failures>>

NextUser(s) == GoTo(s, IF scan[s].todo = {} THEN "close" ELSE "inapp")

\* Mutant: a member who wants no e-mail ends the loop.
WantsEmailReturns(s) ==
  /\ scan[s].pc = "prefer"
  /\ IF scan[s].user \in wants THEN GoTo(s, "email") ELSE GoTo(s, "close")
  /\ UNCHANGED <<world, row, ledger, told, twice, lost, failures>>

WantsEmail(s) ==
  /\ scan[s].pc = "prefer"
  /\ IF scan[s].user \in wants THEN GoTo(s, "email") ELSE NextUser(s)
  /\ UNCHANGED <<world, row, ledger, told, twice, lost, failures>>

ReserveEmail(s) ==
  LET k == KeyOf(s, "EMAIL") IN
  /\ scan[s].pc = "email"
  /\ ledger' = ledger \cup {k}
  /\ IF k \in ledger THEN NextUser(s) ELSE GoTo(s, "enqueue")
  /\ UNCHANGED <<world, row, told, twice, lost, failures>>

\* sendEmail does not throw: it answers whether the job was queued.
Enqueue(s) ==
  /\ scan[s].pc = "enqueue"
  /\ \/ Deliver(s, KeyOf(s, "EMAIL")) /\ NextUser(s) /\ UNCHANGED failures
     \/ /\ "queue" \in Faults /\ failures < MaxFailures
        /\ failures' = failures + 1 /\ GoTo(s, "release") /\ UNCHANGED <<told, twice>>
  /\ UNCHANGED <<world, row, ledger, lost>>

\* Mutant: the failed enqueue keeps its reservation.
ReleaseNothing(s) ==
  /\ scan[s].pc = "release"
  /\ NextUser(s)
  /\ UNCHANGED <<world, row, ledger, told, twice, lost, failures>>

Release(s) ==
  /\ scan[s].pc = "release"
  /\ ledger' = ledger \ {KeyOf(s, "EMAIL")} /\ NextUser(s)
  /\ UNCHANGED <<world, row, told, twice, lost, failures>>

Close(s) ==
  /\ scan[s].pc = "close"
  /\ row' = [row EXCEPT ![scan[s].row].status = IF @ = "DUE" THEN "SENT" ELSE @]
  /\ Leave(s)
  /\ UNCHANGED <<world, ledger, told, twice, lost, failures>>

Crash(s) ==
  /\ "crash" \in Faults /\ scan[s].pc # "idle"
  /\ Leave(s)
  /\ lost' = IF scan[s].pc = "notify" THEN lost \cup {KeyOf(s, "IN_APP")} ELSE lost
  /\ UNCHANGED <<world, row, ledger, told, twice, failures>>

----------------------------------------------------------------------------
(* Users, the vehicle's owner and the calendar.                               *)

SetRow(r, st, until) ==
  /\ row[r].status # "NONE" /\ row' = [row EXCEPT ![r] = Row(row[r].item, st, until)]
  /\ UNCHANGED <<world, ledger, told, twice, lost, failures, scan>>

\* Any reminder can be snoozed until any date, a finished one too; the index holds.
Snooze(r) ==
  /\ "snooze" \in Acts /\ LiveRows(row[r].item) \subseteq {r}
  /\ \E until \in day..(MaxDay + 1) : SetRow(r, "SNOOZED", until)

\* dismiss and complete.
Resolve(r) == "resolve" \in Acts /\ SetRow(r, "CLOSED", 0)

\* The reminders with every live one in a set of items closed.
Cancelled(items) ==
  [r \in Rows |-> IF row[r].item \in items /\ row[r].status \in Live
                    THEN Row(row[r].item, "CLOSED", 0) ELSE row[r]]

\* Leaving ACTIVE cancels the live reminders in the same transaction.
ChangeStatus ==
  /\ "sell" \in Acts /\ active' = ~active
  /\ row' = IF active THEN Cancelled(0..MaxItem) ELSE row
  /\ UNCHANGED <<day, due, item, listed, renewing, wants, moved, ledger, told, twice, lost, failures, scan>>

\* The item keeps its id, its reminder and its spent windows.
MoveDue(d) == due' = d /\ moved' = moved \cup {item}

\* A completed rule falls due again and has its status stored; its reminder is
\* left alone.
CompleteRule ==
  /\ "renew" \in Acts /\ Kind = "RULE" /\ due < day + Interval
  /\ MoveDue(day + Interval) /\ listed' = DueSoon(due')
  /\ UNCHANGED <<day, item, renewing, active, wants, row, ledger, told, twice, lost, failures, scan>>

\* The bound on edits: one, and none after a due day was moved.
Amendable(d) == "amend" \in Acts /\ moved = {} /\ d # due

\* An edit of the expiry date of the latest record; no reminder is touched.
AmendRecord(d) ==
  /\ Kind = "RECORD" /\ Amendable(d) /\ MoveDue(d)
  /\ UNCHANGED <<day, item, listed, renewing, active, wants, row, ledger, told, twice, lost, failures, scan>>

\* An edit of a rule's intervals, and the recomputation it ends in.
EditRule(d) ==
  /\ Kind = "RULE" /\ Amendable(d) /\ MoveDue(d)
  /\ listed' = DueSoon(d)
  /\ UNCHANGED <<day, item, renewing, active, wants, row, ledger, told, twice, lost, failures, scan>>

\* An edit that leaves the due day, or a service of the vehicle, stores the status
\* again. Nothing else does: neither a new odometer reading nor the passing of the days.
Recompute ==
  /\ "recompute" \in Acts /\ Kind = "RULE"
  /\ listed' = DueSoon(due)
  /\ UNCHANGED <<day, due, item, renewing, active, wants, moved, row, ledger, told, twice, lost, failures, scan>>

\* Mutant: a renewal edits the record it renews.
CreateRecordInPlace ==
  /\ "renew" \in Acts /\ Kind = "RECORD" /\ ~renewing
  /\ item < MaxItem /\ due < day + Interval
  /\ due' = day + Interval /\ renewing' = TRUE
  /\ UNCHANGED <<day, item, listed, active, wants, moved, row, ledger, told, twice, lost, failures, scan>>

\* A new record takes over from the old one ...
CreateRecord ==
  /\ "renew" \in Acts /\ Kind = "RECORD" /\ ~renewing
  /\ item < MaxItem /\ due < day + Interval
  /\ item' = item + 1 /\ due' = day + Interval /\ renewing' = TRUE
  /\ UNCHANGED <<day, listed, active, wants, moved, row, ledger, told, twice, lost, failures, scan>>

\* ... and then cancels the reminders of the others.
SupersedeReminders ==
  /\ renewing /\ renewing' = FALSE
  /\ row' = Cancelled((0..MaxItem) \ {item})
  /\ UNCHANGED <<day, due, item, listed, active, wants, moved, ledger, told, twice, lost, failures, scan>>

SetPreference(u) ==
  /\ "prefer" \in Acts
  /\ wants' = IF u \in wants THEN wants \ {u} ELSE wants \cup {u}
  /\ UNCHANGED <<day, due, item, listed, renewing, active, moved, row, ledger, told, twice, lost, failures, scan>>

NextDay ==
  /\ day < MaxDay /\ day' = day + 1
  /\ UNCHANGED <<due, item, listed, renewing, active, wants, moved, row, ledger, told, twice, lost, failures, scan>>

----------------------------------------------------------------------------
ScanStep(s) ==
  \/ FindLive(s) \/ Update(s) \/ Create(s) \/ MarkDue(s) \/ ReserveInApp(s) \/ Notify(s)
  \/ WantsEmail(s) \/ ReserveEmail(s) \/ Enqueue(s) \/ Release(s) \/ Close(s)

Next ==
  \/ \E s \in Scans : Start(s) \/ ScanStep(s) \/ Crash(s)
  \/ \E r \in Rows : Snooze(r) \/ Resolve(r)
  \/ \E u \in Users : SetPreference(u)
  \/ \E d \in AmendedDays : AmendRecord(d) \/ EditRule(d)
  \/ ChangeStatus \/ CompleteRule \/ Recompute \/ CreateRecord \/ SupersedeReminders \/ NextDay

Spec == Init /\ [][Next]_vars

\* The scheduler starts a scan every hour, a request that runs goes on, and days pass.
Fairness ==
  /\ \A s \in Scans : WF_vars(Start(s)) /\ WF_vars(ScanStep(s))
  /\ WF_vars(SupersedeReminders) /\ WF_vars(NextDay)

FairSpec == Spec /\ Fairness

----------------------------------------------------------------------------
\* No member is told the same thing twice over one channel, however many scans
\* overlap, are retried, fail to enqueue or die.
NotifiedOnce == twice = {}

\* At most one live reminder per item, although scans create, users snooze
\* finished reminders and stale scans bring dismissed ones back.
OneLiveReminder == \A i \in 0..MaxItem : \A r, q \in LiveRows(i) : r = q

\* A reminder marked SENT has a reserved in-app notification for every member.
SentCoversEveryone ==
  \A r \in Rows, u \in Users :
    row[r].status = "SENT" => \E k \in ledger : k.row = r /\ k.user = u /\ k.channel = "IN_APP"

\* An item that goes overdue is announced to every member in the app, and by
\* e-mail unless the member opts out, although scans overlap and enqueues fail,
\* if it is not renewed before. It holds of records; of rules it is what DATABASE.md
\* promises with a nightly sweep that stores their status.
OverdueIsTold ==
  \A u \in Users, c \in Channels :
    due < day ~>
      (\/ due >= day
       \/ c = "EMAIL" /\ u \notin wants
       \/ \E k \in Delivered : /\ k.user = u /\ k.channel = c
                               /\ k.window[1] = "overdue" /\ row[k.row].item = item)

InAppKey(s, u) == Key(scan[s].row, u, "IN_APP", scan[s].window)
Underway(k) == \E s \in Scans : scan[s].pc = "notify" /\ KeyOf(s, "IN_APP") = k

\* A scan that has dealt with every member leaves each of them told, in the window
\* it found, of the due day it found, although scans overlap, die and fail to
\* enqueue, and users snooze, dismiss, sell and renew: a renewal gets windows of
\* its own. Excepted are an item whose due day was moved under its own id (the
\* expiry edited in place, a rule completed or edited: what is spent stays spent),
\* and a notification whose scan is about to make it, or died before it did.
EachDueDayIsTold ==
  \A s \in Scans, u \in Users :
    scan[s].pc = "close" /\ scan[s].item \notin moved =>
      \/ <<InAppKey(s, u), scan[s].due>> \in told
      \/ InAppKey(s, u) \in lost
      \/ Underway(InAppKey(s, u))

\* What the module comment of reminder.policy.ts (lines 4-6) says of every window,
\* without those exceptions. The code does not keep it.
EachWindowFires ==
  \A s \in Scans, u \in Users :
    scan[s].pc = "close" => \/ <<InAppKey(s, u), scan[s].due>> \in told
                            \/ Underway(InAppKey(s, u))
==============================================================================
