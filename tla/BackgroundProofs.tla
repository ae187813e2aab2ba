--------------------------- MODULE BackgroundProofs ---------------------------
(* What runs in the background. Any number of overlapping reminder scans,        *)
(* members, rows and days: nobody is told the same thing twice, an item has one  *)
(* live reminder, and SENT covers everyone. Any number of exports, requests,     *)
(* slots, stalls and losses: an export offered for download has its file, and    *)
(* keeps it until it expires.                                                   *)
EXTENDS ReminderScan, ExportJobs, TLAPS

Judged == {"markdue", "inapp", "notify", "prefer", "email", "enqueue", "release", "close"}
WithUser == {"notify", "prefer", "email", "enqueue", "release"}

\* A scan that has judged its reminder knows the row and the window, and one
\* that is dealing with a member knows the member.
ScanOK(q) == /\ q.pc \in Judged => q.row \in Rows /\ q.window \in Windows
             /\ q.pc \in WithUser => q.user \in Users

WellFormed == TypeOK /\ \A s \in Scans : ScanOK(scan[s])

LEMMA WindowType ==
  ASSUME NEW d \in Nat, NEW t \in Nat
  PROVE  Window(d, t) \in Windows \cup {NoWindow}
<1>1. t \div WeekDays \in Nat
  BY ScanConstants
<1> DEFINE first == {l \in LeadDays : d <= t + l /\ \A m \in LeadDays : d <= t + m => l <= m}
<1>2. first # {} => (CHOOSE l \in first : TRUE) \in Nat
  BY ScanConstants
<1> QED BY <1>1, <1>2 DEF Window, Windows

\* A scan's step to another point of its program.
LEMMA GoToOK ==
  ASSUME WellFormed, NEW s \in Scans,
         NEW pc \in {"prefer", "email", "enqueue", "release", "close", "inapp", "notify"},
         scan[s].pc \in Judged, pc \in WithUser => scan[s].user \in Users, GoTo(s, pc)
  PROVE  /\ scan' \in [Scans -> ScanStates]
         /\ \A t \in Scans : ScanOK(scan'[t])
<1> DEFINE q == [scan[s] EXCEPT !.pc = pc]
<1>1. scan[s] \in ScanStates
  BY DEF WellFormed, TypeOK
<1>2. /\ q \in ScanStates /\ q.pc = pc
      /\ q.row = scan[s].row /\ q.window = scan[s].window /\ q.user = scan[s].user
  BY <1>1 DEF ScanStates
<1>3. ScanOK(q)
  BY <1>2 DEF WellFormed, ScanOK, Judged, WithUser
<1>4. scan' = [scan EXCEPT ![s] = q]
  BY DEF GoTo, Go
<1> HIDE DEF q
<1> QED BY <1>2, <1>3, <1>4 DEF WellFormed, TypeOK

LEMMA IdleOK == Idle \in ScanStates /\ ScanOK(Idle)
BY ScanConstants DEF Idle, ScanStates, ScanOK, Judged, WithUser

LEMMA GoOK ==
  ASSUME WellFormed, NEW s \in Scans, NEW q \in ScanStates, ScanOK(q), Go(s, q)
  PROVE  /\ scan' \in [Scans -> ScanStates]
         /\ \A t \in Scans : ScanOK(scan'[t])
BY DEF WellFormed, TypeOK, Go

LEMMA NextUserOK ==
  ASSUME WellFormed, NEW s \in Scans, scan[s].pc \in Judged, NextUser(s)
  PROVE  /\ scan' \in [Scans -> ScanStates]
         /\ \A t \in Scans : ScanOK(scan'[t])
BY GoToOK DEF NextUser, WithUser

LEMMA JudgeOK ==
  ASSUME WellFormed, NEW s \in Scans, NEW r \in Rows, NEW st, Judge(s, r, st)
  PROVE  /\ scan' \in [Scans -> ScanStates]
         /\ \A t \in Scans : ScanOK(scan'[t])
<1>1. scan[s] \in ScanStates
  BY DEF WellFormed, TypeOK
<1>2. CASE Leave(s)
  BY <1>2, IdleOK, GoOK DEF Leave
<1>3. ASSUME scan[s].window # NoWindow, NEW pc \in {"markdue", "inapp"},
             Go(s, [scan[s] EXCEPT !.row = r, !.todo = Users, !.pc = pc])
      PROVE  /\ scan' \in [Scans -> ScanStates]
             /\ \A t \in Scans : ScanOK(scan'[t])
  <2> DEFINE q == [scan[s] EXCEPT !.row = r, !.todo = Users, !.pc = pc]
  <2>1. q \in ScanStates /\ q.pc = pc /\ q.row = r /\ q.window \in Windows
    BY <1>1, <1>3 DEF ScanStates
  <2>2. ScanOK(q)
    BY <2>1 DEF ScanOK, WithUser
  <2> QED BY <1>3, <2>1, <2>2, GoOK
<1> QED BY <1>2, <1>3 DEF Judge

LEMMA KeyOfType ==
  ASSUME WellFormed, NEW s \in Scans, scan[s].pc \in WithUser, NEW c \in Channels
  PROVE  KeyOf(s, c) \in Keys
BY DEF WellFormed, ScanOK, WithUser, Judged, KeyOf, Key, Keys

LEMMA DeliverType ==
  ASSUME WellFormed, NEW s \in Scans, NEW k \in Keys, Deliver(s, k)
  PROVE  told' \subseteq Keys \X Nat /\ twice' \subseteq Keys
<1>1. scan[s].due \in Nat
  BY DEF WellFormed, TypeOK, ScanStates
<1> QED BY <1>1 DEF WellFormed, TypeOK, Deliver

LEMMA InitWellFormed == Init => WellFormed
<1> SUFFICES ASSUME Init PROVE WellFormed
  OBVIOUS
<1>1. Row(0, "NONE", 0) \in RowType
  BY ScanConstants DEF Row, RowType
<1>2. row \in [Rows -> RowType]
  BY <1>1 DEF Init
<1>3. listed \in BOOLEAN
  <2>1. listed = (FirstDue <= day + Horizon)
    BY DEF Init, DueSoon
  <2> QED BY <2>1
<1>4. /\ day \in 0..MaxDay /\ due \in Nat /\ item \in 0..MaxItem
      /\ renewing \in BOOLEAN /\ active \in BOOLEAN
  <2>1. day = 0 /\ due = FirstDue /\ item = 0 /\ renewing = FALSE /\ active = TRUE
    BY DEF Init
  <2>2. MaxDay \in Nat /\ MaxItem \in Nat /\ FirstDue \in Nat
    BY ScanConstants
  <2>3. 0 \in 0..MaxDay /\ 0 \in 0..MaxItem
    BY <2>2
  <2> QED BY <2>1, <2>2, <2>3
<1>5. /\ ledger \subseteq Keys /\ told \subseteq Keys \X Nat /\ twice \subseteq Keys
      /\ wants \subseteq Users /\ failures \in 0..MaxFailures
      /\ moved \subseteq 0..MaxItem /\ lost \subseteq Keys
  BY ScanConstants DEF Init
<1>6. scan \in [Scans -> ScanStates] /\ \A s \in Scans : ScanOK(scan[s])
  BY IdleOK DEF Init
<1> QED BY <1>2, <1>3, <1>4, <1>5, <1>6 DEF WellFormed, TypeOK

LEMMA RowOK ==
  ASSUME NEW i \in 0..MaxItem, NEW st \in Statuses \cup {"NONE"}, NEW until \in Nat
  PROVE  /\ Row(i, st, until) \in RowType /\ Row(i, st, until).item = i
         /\ Row(i, st, until).status = st
BY DEF Row, RowType

LEMMA CancelledOK ==
  ASSUME WellFormed, NEW items
  PROVE  /\ Cancelled(items) \in [Rows -> RowType]
         /\ \A r \in Rows : /\ Cancelled(items)[r].item = row[r].item
                            /\ \/ Cancelled(items)[r] = row[r]
                               \/ Cancelled(items)[r].status = "CLOSED"
<1>1. \A r \in Rows : row[r] \in RowType /\ row[r].item \in 0..MaxItem
  BY DEF WellFormed, TypeOK, RowType
<1>2. \A r \in Rows : /\ Row(row[r].item, "CLOSED", 0) \in RowType
                      /\ Row(row[r].item, "CLOSED", 0).item = row[r].item
                      /\ Row(row[r].item, "CLOSED", 0).status = "CLOSED"
  BY <1>1, RowOK DEF Statuses
<1> QED BY <1>1, <1>2 DEF Cancelled

LEMMA ScanStepWellFormed ==
  ASSUME WellFormed, NEW s \in Scans, Start(s) \/ ScanStep(s) \/ Crash(s)
  PROVE  WellFormed'
<1> USE DEF world
<1>1. scan[s] \in ScanStates /\ ScanOK(scan[s])
  BY DEF WellFormed, TypeOK
<1>2. CASE Start(s)
  <2> DEFINE q == [Idle EXCEPT !.pc = "find", !.day = day, !.item = item, !.due = due,
                               !.window = Window(due, day)]
  <2>1. Window(due, day) \in Windows \cup {NoWindow}
    BY WindowType, ScanConstants DEF WellFormed, TypeOK
  <2>2. q \in ScanStates /\ ScanOK(q)
    BY <2>1, IdleOK DEF ScanStates, ScanOK, Judged, WithUser, WellFormed, TypeOK, Idle
  <2>3. Go(s, q)
    BY <1>2 DEF Start
  <2> QED BY <1>2, <2>2, <2>3, GoOK DEF Start, WellFormed, TypeOK
<1>3. CASE FindLive(s)
  <2>1. ASSUME NEW r \in Rows \cup {0}, Go(s, [scan[s] EXCEPT !.pc = "upsert", !.row = r])
        PROVE  /\ scan' \in [Scans -> ScanStates]
               /\ \A t \in Scans : ScanOK(scan'[t])
    <3> DEFINE q == [scan[s] EXCEPT !.pc = "upsert", !.row = r]
    <3>1. q \in ScanStates /\ ScanOK(q)
      BY <1>1 DEF ScanStates, ScanOK, Judged, WithUser
    <3> QED BY <2>1, <3>1, GoOK
  <2>2. \A i : LiveRows(i) \subseteq Rows
    BY DEF LiveRows
  <2> QED BY <1>3, <2>1, <2>2 DEF FindLive, WellFormed, TypeOK
<1>4. CASE Update(s)
  <2>1. scan[s].row \in Rows
    BY <1>1, <1>4 DEF Update, ScanStates
  <2> QED BY <1>4, <2>1, JudgeOK DEF Update, WellFormed, TypeOK
<1>5. CASE Create(s)
  <2>1. CASE LiveRows(scan[s].item) # {}
    BY <1>5, <2>1, IdleOK, GoOK DEF Create, Leave, WellFormed, TypeOK
  <2>2. CASE LiveRows(scan[s].item) = {}
    <3>1. Fresh \in Rows
      BY <1>5, <2>2 DEF Create, Fresh, Unused
    <3>2. Scheduled(s) \in RowType
      BY <1>1, RowOK DEF Scheduled, ScanStates, Statuses, Live
    <3>3. row' = [row EXCEPT ![Fresh] = Scheduled(s)] /\ Judge(s, Fresh, Scheduled(s))
      BY <1>5, <2>2 DEF Create
    <3>4. row' \in [Rows -> RowType]
      BY <3>1, <3>2, <3>3 DEF WellFormed, TypeOK
    <3>5. scan' \in [Scans -> ScanStates] /\ \A t \in Scans : ScanOK(scan'[t])
      BY <3>1, <3>3, JudgeOK
    <3> QED BY <1>5, <3>4, <3>5 DEF Create, WellFormed, TypeOK
  <2> QED BY <2>1, <2>2
<1>6. CASE MarkDue(s)
  <2>1. row' \in [Rows -> RowType]
    <3>1. scan[s].row \in Rows
      BY <1>1, <1>6 DEF MarkDue, ScanOK, Judged
    <3>2. Row(row[scan[s].row].item, "DUE", 0) \in RowType
      BY <3>1, RowOK DEF WellFormed, TypeOK, RowType, Statuses, Live
    <3> QED BY <1>6, <3>2 DEF MarkDue, WellFormed, TypeOK
  <2>2. scan' \in [Scans -> ScanStates] /\ \A t \in Scans : ScanOK(scan'[t])
    BY <1>6, GoToOK, IdleOK, GoOK DEF MarkDue, Leave, Judged, WithUser
  <2> QED BY <1>6, <2>1, <2>2 DEF MarkDue, WellFormed, TypeOK
<1>7. CASE ReserveInApp(s)
  <2>1. PICK u \in scan[s].todo :
           LET k == Key(scan[s].row, u, "IN_APP", scan[s].window) IN
           /\ ledger' = ledger \cup {k}
           /\ Go(s, [scan[s] EXCEPT !.user = u, !.todo = @ \ {u},
                                    !.pc = IF k \in ledger THEN "prefer" ELSE "notify"])
    BY <1>7 DEF ReserveInApp
  <2>2. u \in Users /\ scan[s].row \in Rows /\ scan[s].window \in Windows
    BY <1>1, <1>7 DEF ReserveInApp, ScanStates, ScanOK, Judged
  <2>3. ledger' \subseteq Keys
    BY <2>1, <2>2 DEF Key, Keys, Channels, WellFormed, TypeOK
  <2>4. ASSUME NEW pc \in {"prefer", "notify"}
        PROVE  LET q == [scan[s] EXCEPT !.user = u, !.todo = @ \ {u}, !.pc = pc]
               IN  q \in ScanStates /\ ScanOK(q)
    BY <1>1, <2>2 DEF ScanStates, ScanOK, Judged, WithUser
  <2>5. scan' \in [Scans -> ScanStates] /\ \A t \in Scans : ScanOK(scan'[t])
    BY <2>1, <2>4, GoOK
  <2> QED BY <1>7, <2>3, <2>5 DEF ReserveInApp, WellFormed, TypeOK
<1>8. CASE Notify(s)
  <2>1. told' \subseteq Keys \X Nat /\ twice' \subseteq Keys
    BY <1>8, KeyOfType, DeliverType DEF Notify, WithUser, Channels
  <2>2. scan' \in [Scans -> ScanStates] /\ \A t \in Scans : ScanOK(scan'[t])
    BY <1>1, <1>8, GoToOK DEF Notify, Judged, WithUser, ScanOK
  <2> QED BY <1>8, <2>1, <2>2 DEF Notify, WellFormed, TypeOK
<1>9. CASE WantsEmail(s)
  <2>1. scan' \in [Scans -> ScanStates] /\ \A t \in Scans : ScanOK(scan'[t])
    BY <1>1, <1>9, GoToOK, NextUserOK DEF WantsEmail, Judged, WithUser, ScanOK
  <2> QED BY <1>9, <2>1 DEF WantsEmail, WellFormed, TypeOK
<1>10. CASE ReserveEmail(s)
  <2>1. KeyOf(s, "EMAIL") \in Keys
    BY <1>10, KeyOfType DEF ReserveEmail, WithUser, Channels
  <2>2. scan' \in [Scans -> ScanStates] /\ \A t \in Scans : ScanOK(scan'[t])
    BY <1>1, <1>10, GoToOK, NextUserOK DEF ReserveEmail, Judged, WithUser, ScanOK
  <2> QED BY <1>10, <2>1, <2>2 DEF ReserveEmail, WellFormed, TypeOK
<1>11. CASE Enqueue(s)
  <2>1. told' \subseteq Keys \X Nat /\ twice' \subseteq Keys
    BY <1>11, KeyOfType, DeliverType DEF Enqueue, WithUser, Channels, WellFormed, TypeOK
  <2>2. scan' \in [Scans -> ScanStates] /\ \A t \in Scans : ScanOK(scan'[t])
    BY <1>1, <1>11, GoToOK, NextUserOK DEF Enqueue, Judged, WithUser, ScanOK
  <2>3. failures' \in 0..MaxFailures
    BY <1>11, ScanConstants DEF Enqueue, WellFormed, TypeOK
  <2> QED BY <1>11, <2>1, <2>2, <2>3 DEF Enqueue, WellFormed, TypeOK
<1>12. CASE Release(s)
  <2>1. scan' \in [Scans -> ScanStates] /\ \A t \in Scans : ScanOK(scan'[t])
    BY <1>12, NextUserOK DEF Release, Judged
  <2> QED BY <1>12, <2>1 DEF Release, WellFormed, TypeOK
<1>13. CASE Close(s) \/ Crash(s)
  <2>1. scan' \in [Scans -> ScanStates] /\ \A t \in Scans : ScanOK(scan'[t])
    BY <1>13, IdleOK, GoOK DEF Close, Crash, Leave
  <2>2. row' \in [Rows -> RowType]
    <3>1. CASE Crash(s)
      BY <3>1 DEF Crash, WellFormed, TypeOK
    <3>2. CASE Close(s)
      <4>1. scan[s].row \in Rows
        BY <1>1, <3>2 DEF Close, ScanOK, Judged
      <4>2. row[scan[s].row] \in RowType
        BY <4>1 DEF WellFormed, TypeOK
      <4> QED BY <3>2, <4>1, <4>2 DEF Close, RowType, Statuses, Live, WellFormed, TypeOK
    <3> QED BY <1>13, <3>1, <3>2
  <2>3. lost' \subseteq Keys
    BY <1>13, KeyOfType DEF Close, Crash, WithUser, Channels, WellFormed, TypeOK
  <2> QED BY <1>13, <2>1, <2>2, <2>3 DEF Close, Crash, WellFormed, TypeOK
<1> QED BY <1>2, <1>3, <1>4, <1>5, <1>6, <1>7, <1>8, <1>9, <1>10, <1>11, <1>12, <1>13
        DEF ScanStep

LEMMA WorldStepWellFormed ==
  ASSUME WellFormed,
         \/ \E r \in Rows : Snooze(r) \/ Resolve(r)
         \/ \E u \in Users : SetPreference(u)
         \/ \E d \in AmendedDays : AmendRecord(d) \/ EditRule(d)
         \/ ChangeStatus \/ CompleteRule \/ Recompute \/ CreateRecord
         \/ SupersedeReminders \/ NextDay \/ UNCHANGED vars
  PROVE  WellFormed'
<1>1. CASE \E r \in Rows : Snooze(r) \/ Resolve(r)
  <2>1. PICK r \in Rows, st \in Statuses, until \in Nat : SetRow(r, st, until)
    BY <1>1, ScanConstants DEF Snooze, Resolve, Statuses, Live, WellFormed, TypeOK
  <2>2. Row(row[r].item, st, until) \in RowType
    BY RowOK DEF WellFormed, TypeOK, RowType
  <2> QED BY <2>1, <2>2 DEF SetRow, world, WellFormed, TypeOK
<1>2. CASE \E u \in Users : SetPreference(u)
  BY <1>2 DEF SetPreference, WellFormed, TypeOK
<1>3. CASE ChangeStatus
  BY <1>3, CancelledOK DEF ChangeStatus, WellFormed, TypeOK
<1>4. CASE CompleteRule \/ Recompute \/ NextDay
  <2>1. \A d : DueSoon(d) \in BOOLEAN
    BY DEF DueSoon
  <2>2. due' \in Nat
    BY <1>4, ScanConstants DEF CompleteRule, MoveDue, Recompute, NextDay, WellFormed, TypeOK
  <2>3. day' \in 0..MaxDay
    BY <1>4, ScanConstants DEF CompleteRule, Recompute, NextDay, WellFormed, TypeOK
  <2>4. listed' \in BOOLEAN
    BY <1>4, <2>1 DEF CompleteRule, Recompute, NextDay, WellFormed, TypeOK
  <2>5. moved' \subseteq 0..MaxItem
    BY <1>4 DEF CompleteRule, MoveDue, Recompute, NextDay, WellFormed, TypeOK
  <2> QED BY <1>4, <2>2, <2>3, <2>4, <2>5
          DEF CompleteRule, Recompute, NextDay, WellFormed, TypeOK
<1>5. CASE CreateRecord
  BY <1>5, ScanConstants DEF CreateRecord, WellFormed, TypeOK
<1>6. CASE SupersedeReminders
  BY <1>6, CancelledOK DEF SupersedeReminders, WellFormed, TypeOK
<1>7. CASE UNCHANGED vars
  BY <1>7 DEF vars, world, WellFormed, TypeOK
<1>8. CASE \E d \in AmendedDays : AmendRecord(d) \/ EditRule(d)
  <2>1. PICK d \in AmendedDays : AmendRecord(d) \/ EditRule(d)
    BY <1>8
  <2>2. due' \in Nat /\ moved' \subseteq 0..MaxItem
    BY <2>1, ScanConstants DEF AmendRecord, EditRule, MoveDue, WellFormed, TypeOK
  <2>3. DueSoon(d) \in BOOLEAN
    BY DEF DueSoon
  <2>4. listed' \in BOOLEAN
    BY <2>1, <2>3 DEF AmendRecord, EditRule, WellFormed, TypeOK
  <2> QED BY <2>1, <2>2, <2>4 DEF AmendRecord, EditRule, WellFormed, TypeOK
<1> QED BY <1>1, <1>2, <1>3, <1>4, <1>5, <1>6, <1>7, <1>8

\* Every variable keeps its type and every scan knows what its step needs, for
\* any number of scans, members, rows and days.
THEOREM TypeCorrect == Spec => []TypeOK
<1>1. WellFormed /\ [Next]_vars => WellFormed'
  BY ScanStepWellFormed, WorldStepWellFormed DEF Next
<1>2. WellFormed => TypeOK
  BY DEF WellFormed
<1> QED BY <1>1, <1>2, InitWellFormed, PTL DEF Spec

----------------------------------------------------------------------------
(* One live reminder: what the partial unique index makes of every writer.     *)

LEMMA OneLiveStep ==
  ASSUME WellFormed, OneLiveReminder, [Next]_vars
  PROVE  OneLiveReminder'
<1> USE DEF OneLiveReminder, LiveRows
<1>1. CASE UNCHANGED row
  BY <1>1
<1>2. row \in [Rows -> RowType] /\ \A r \in Rows : row[r].item \in 0..MaxItem
  BY DEF WellFormed, TypeOK, RowType
\* A write that makes no row live and moves none to another item.
<1>3. ASSUME \A r \in Rows : /\ row'[r].item = row[r].item
                             /\ row'[r].status \in Live => row[r].status \in Live
      PROVE  OneLiveReminder'
  BY <1>3
\* A write to one row that finds no other live one of the item.
<1>4. ASSUME NEW r \in Rows, NEW st, row' = [row EXCEPT ![r] = st],
             LiveRows(st.item) \subseteq {r}
      PROVE  OneLiveReminder'
  BY <1>2, <1>4
<1>5. ASSUME NEW r \in Rows, NEW st \in Statuses, NEW until \in Nat,
             row' = [row EXCEPT ![r] = Row(row[r].item, st, until)],
             st \in Live => LiveRows(row[r].item) \subseteq {r}
      PROVE  OneLiveReminder'
  <2>1. /\ Row(row[r].item, st, until).item = row[r].item
        /\ Row(row[r].item, st, until).status = st
    BY <1>2, RowOK
  <2> QED BY <1>2, <1>3, <1>4, <1>5, <2>1
<1>6. ASSUME NEW s \in Scans, Create(s) PROVE OneLiveReminder'
  <2>1. CASE LiveRows(scan[s].item) = {} /\ Unused # {}
    <3>1. Fresh \in Rows
      BY <2>1 DEF Fresh, Unused
    <3>2. Scheduled(s).item = scan[s].item
      BY DEF Scheduled, Row
    <3> QED BY <1>4, <1>6, <2>1, <3>1, <3>2 DEF Create
  <2> QED BY <1>1, <1>6, <2>1 DEF Create
<1>7. ASSUME NEW s \in Scans, MarkDue(s) PROVE OneLiveReminder'
  <2>1. scan[s].row \in Rows
    BY <1>7 DEF MarkDue, WellFormed, ScanOK, Judged
  <2>2. "DUE" \in Statuses
    BY DEF Statuses, Live
  <2> QED BY <1>1, <1>5, <1>7, <2>1, <2>2 DEF MarkDue
<1>8. ASSUME NEW s \in Scans, Close(s) PROVE OneLiveReminder'
  <2>1. scan[s].row \in Rows
    BY <1>8 DEF Close, WellFormed, ScanOK, Judged
  <2>2. \A r \in Rows : /\ row'[r].item = row[r].item
                        /\ row'[r].status \in Live => row[r].status \in Live
    BY <1>2, <1>8, <2>1 DEF Close, Live, RowType
  <2> QED BY <1>3, <2>2
<1>9. ASSUME NEW r \in Rows, Snooze(r) \/ Resolve(r) PROVE OneLiveReminder'
  BY <1>5, <1>9, ScanConstants DEF Snooze, Resolve, SetRow, Statuses, Live, WellFormed, TypeOK
<1>10. CASE ChangeStatus \/ SupersedeReminders
  BY <1>1, <1>3, <1>10, CancelledOK DEF ChangeStatus, SupersedeReminders, Live
<1>11. ASSUME NEW s \in Scans, Start(s) \/ ScanStep(s) \/ Crash(s) PROVE OneLiveReminder'
  BY <1>1, <1>6, <1>7, <1>8, <1>11
     DEF Start, ScanStep, Crash, FindLive, Update, ReserveInApp, Notify, WantsEmail,
         ReserveEmail, Enqueue, Release
<1> QED BY <1>1, <1>9, <1>10, <1>11
        DEF Next, SetPreference, CompleteRule, AmendRecord, EditRule, Recompute, CreateRecord,
            NextDay, vars

\* Scans that race to create, users who snooze a finished reminder and scans
\* that bring a dismissed one back never leave an item with two live reminders.
THEOREM OneLive == Spec => []OneLiveReminder
<1>1. Init => OneLiveReminder
  BY DEF Init, OneLiveReminder, LiveRows, Live, Row
<1>2. WellFormed /\ [Next]_vars => WellFormed'
  BY ScanStepWellFormed, WorldStepWellFormed DEF Next
<1>3. WellFormed /\ OneLiveReminder /\ [Next]_vars => OneLiveReminder'
  BY OneLiveStep
<1> QED BY <1>1, <1>2, <1>3, InitWellFormed, PTL DEF Spec
----------------------------------------------------------------------------
(* Told at most once: who inserted a key holds it, alone, until it is spent.    *)

Holding == {"notify", "enqueue", "release"}
HeldKey(q) == Key(q.row, q.user, IF q.pc = "notify" THEN "IN_APP" ELSE "EMAIL", q.window)

OnceInv ==
  /\ twice = {}
  /\ Delivered \subseteq ledger
  /\ \A s \in Scans : scan[s].pc \in Holding => HeldKey(scan[s]) \in ledger \ Delivered
  /\ \A s, t \in Scans : s # t /\ scan[s].pc \in Holding /\ scan[t].pc \in Holding
                           => HeldKey(scan[s]) # HeldKey(scan[t])

\* A step of one scan after which it holds no key.
LEMMA LetGo ==
  ASSUME WellFormed, OnceInv, NEW s \in Scans, NEW q, q.pc \notin Holding, Go(s, q),
         UNCHANGED <<ledger, told, twice>>
  PROVE  OnceInv'
BY DEF WellFormed, TypeOK, OnceInv, Go, Delivered

\* A step of one scan that moves it within its program.
LEMMA MoveTo ==
  ASSUME WellFormed, NEW s \in Scans, NEW pc, GoTo(s, pc)
  PROVE  /\ scan' = [scan EXCEPT ![s] = scan'[s]]
         /\ scan'[s].pc = pc
         /\ scan'[s].row = scan[s].row /\ scan'[s].user = scan[s].user
         /\ scan'[s].window = scan[s].window /\ scan'[s].todo = scan[s].todo
<1>1. scan[s] \in ScanStates
  BY DEF WellFormed, TypeOK
<1> DEFINE q == [scan[s] EXCEPT !.pc = pc]
<1>2. /\ q.pc = pc /\ q.row = scan[s].row /\ q.user = scan[s].user
      /\ q.window = scan[s].window /\ q.todo = scan[s].todo
  BY <1>1 DEF ScanStates
<1>3. scan' = [scan EXCEPT ![s] = q]
  BY DEF GoTo, Go
<1> HIDE DEF q
<1> QED BY <1>2, <1>3 DEF WellFormed, TypeOK

LEMMA MoveToNext ==
  ASSUME WellFormed, NEW s \in Scans, NextUser(s)
  PROVE  /\ scan' = [scan EXCEPT ![s] = scan'[s]]
         /\ scan'[s].pc \in {"inapp", "close"}
         /\ scan'[s].pc = "close" => scan[s].todo = {}
         /\ scan'[s].row = scan[s].row /\ scan'[s].todo = scan[s].todo
BY MoveTo DEF NextUser

\* A step that inserts the key a scan then holds, and finds it was not there.
LEMMA TakeKey ==
  ASSUME WellFormed, OnceInv, NEW s \in Scans, NEW q, NEW k, q.pc \in Holding,
         HeldKey(q) = k, k \notin ledger, Go(s, q), ledger' = ledger \cup {k},
         UNCHANGED <<told, twice>>
  PROVE  OnceInv'
<1> USE DEF OnceInv
<1>1. Delivered' = Delivered
  BY DEF Delivered
<1>2. scan'[s] = q /\ \A t \in Scans \ {s} : scan'[t] = scan[t]
  BY DEF Go, WellFormed, TypeOK
<1>3. \A t \in Scans \ {s} : scan[t].pc \in Holding => HeldKey(scan[t]) \in ledger
  OBVIOUS
<1> QED BY <1>1, <1>2, <1>3

\* A step that finds the key there and goes on without it.
LEMMA SkipKey ==
  ASSUME WellFormed, OnceInv, NEW s \in Scans, NEW q, NEW k, q.pc \notin Holding,
         k \in ledger, Go(s, q), ledger' = ledger \cup {k}, UNCHANGED <<told, twice>>
  PROVE  OnceInv'
BY LetGo

LEMMA DeliverAdds ==
  ASSUME NEW s \in Scans, NEW k, Deliver(s, k)
  PROVE  Delivered' = Delivered \cup {k}
<1> DEFINE t == <<k, scan[s].due>>
<1>1. told' = told \cup {t} /\ t[1] = k
  BY DEF Deliver
<1> HIDE DEF t
<1> QED BY <1>1 DEF Delivered

\* The delivery of the key a scan holds.
LEMMA SpendKey ==
  ASSUME WellFormed, OnceInv, NEW s \in Scans, scan[s].pc \in Holding,
         Deliver(s, HeldKey(scan[s])), scan' = [scan EXCEPT ![s] = scan'[s]],
         scan'[s].pc \notin Holding, UNCHANGED ledger
  PROVE  OnceInv'
<1> DEFINE k == HeldKey(scan[s])
<1>1. k \in ledger \ Delivered
  BY DEF OnceInv
<1>2. Delivered' = Delivered \cup {k}
  BY Deliver(s, k), DeliverAdds
<1>3. twice' = {}
  BY <1>1 DEF Deliver, OnceInv
<1>4. \A t \in Scans \ {s} : scan'[t] = scan[t]
  BY DEF WellFormed, TypeOK
<1>5. \A t \in Scans \ {s} : scan[t].pc \in Holding => HeldKey(scan[t]) # k
  BY DEF OnceInv
<1> HIDE DEF k
<1>6. Delivered' \subseteq ledger'
  BY <1>1, <1>2 DEF OnceInv
<1>7. \A t \in Scans : scan'[t].pc \in Holding => t # s /\ scan'[t] = scan[t]
  BY <1>4
<1> QED BY <1>2, <1>3, <1>5, <1>6, <1>7 DEF OnceInv

LEMMA OnceScanStep ==
  ASSUME WellFormed, OnceInv, NEW s \in Scans, Start(s) \/ ScanStep(s) \/ Crash(s)
  PROVE  OnceInv'
<1>1. scan[s] \in ScanStates
  BY DEF WellFormed, TypeOK
<1>2. ASSUME Leave(s), UNCHANGED <<ledger, told, twice>> PROVE OnceInv'
  BY <1>2, LetGo DEF Leave, Idle, Holding
<1>3. CASE Start(s)
  BY <1>3, LetGo DEF Start, Idle, Holding
<1>4. CASE FindLive(s)
  <2>1. ASSUME NEW r, Go(s, [scan[s] EXCEPT !.pc = "upsert", !.row = r])
        PROVE  OnceInv'
    <3>1. [scan[s] EXCEPT !.pc = "upsert", !.row = r].pc = "upsert"
      BY <1>1 DEF ScanStates
    <3> QED BY <1>4, <2>1, <3>1, LetGo DEF FindLive, Holding
  <2> QED BY <1>4, <2>1 DEF FindLive
<1>5. ASSUME NEW r, NEW st, Judge(s, r, st), UNCHANGED <<ledger, told, twice>>
      PROVE  OnceInv'
  <2>1. \A pc : [scan[s] EXCEPT !.row = r, !.todo = Users, !.pc = pc].pc = pc
    BY <1>1 DEF ScanStates
  <2> QED BY <1>2, <1>5, <2>1, LetGo DEF Judge, Holding
<1>6. CASE Update(s) \/ Create(s)
  BY <1>2, <1>5, <1>6 DEF Update, Create
<1>7. CASE MarkDue(s)
  BY <1>1, <1>2, <1>7, LetGo DEF MarkDue, GoTo, ScanStates, Holding
<1>8. CASE ReserveInApp(s)
  <2>1. PICK u \in scan[s].todo :
           LET k == Key(scan[s].row, u, "IN_APP", scan[s].window) IN
           /\ ledger' = ledger \cup {k}
           /\ Go(s, [scan[s] EXCEPT !.user = u, !.todo = @ \ {u},
                                    !.pc = IF k \in ledger THEN "prefer" ELSE "notify"])
    BY <1>8 DEF ReserveInApp
  <2> DEFINE k == Key(scan[s].row, u, "IN_APP", scan[s].window)
             pc == IF k \in ledger THEN "prefer" ELSE "notify"
             q == [scan[s] EXCEPT !.user = u, !.todo = @ \ {u}, !.pc = pc]
  <2>2. q.pc = pc /\ q.row = scan[s].row /\ q.user = u /\ q.window = scan[s].window
    BY <1>1 DEF ScanStates
  <2>3. Go(s, q) /\ ledger' = ledger \cup {k} /\ UNCHANGED <<told, twice>>
    BY <1>8, <2>1 DEF ReserveInApp
  <2>4. pc = "notify" => HeldKey(q) = k
    BY <2>2 DEF HeldKey
  <2> HIDE DEF q, k
  <2>5. CASE k \in ledger
    BY <2>2, <2>3, <2>5, SkipKey DEF Holding
  <2>6. CASE k \notin ledger
    BY <2>2, <2>3, <2>4, <2>6, TakeKey DEF Holding
  <2> QED BY <2>5, <2>6
<1>9. CASE Notify(s)
  <2>1. KeyOf(s, "IN_APP") = HeldKey(scan[s])
    BY <1>9 DEF Notify, KeyOf, HeldKey
  <2> QED BY <1>9, <2>1, MoveTo, SpendKey DEF Notify, Holding
<1>10. CASE WantsEmail(s)
  BY <1>1, <1>10, LetGo DEF WantsEmail, NextUser, GoTo, ScanStates, Holding
<1>11. CASE ReserveEmail(s)
  <2> DEFINE k == KeyOf(s, "EMAIL")
             q(pc) == [scan[s] EXCEPT !.pc = pc]
  <2>1. \A pc : q(pc).pc = pc /\ q(pc).row = scan[s].row /\ q(pc).user = scan[s].user
                /\ q(pc).window = scan[s].window
    BY <1>1 DEF ScanStates
  <2>2. HeldKey(q("enqueue")) = k
    BY <2>1 DEF HeldKey, KeyOf
  <2>3. ledger' = ledger \cup {k} /\ UNCHANGED <<told, twice>>
    BY <1>11 DEF ReserveEmail
  <2>4. CASE k \in ledger
    <3>1. Go(s, q("close")) \/ Go(s, q("inapp"))
      BY <1>11, <2>4 DEF ReserveEmail, NextUser, GoTo
    <3> HIDE DEF k, q
    <3> QED BY <2>1, <2>3, <2>4, <3>1, SkipKey DEF Holding
  <2>5. CASE k \notin ledger
    <3>1. Go(s, q("enqueue"))
      BY <1>11, <2>5 DEF ReserveEmail, GoTo
    <3> HIDE DEF k, q
    <3> QED BY <2>1, <2>2, <2>3, <2>5, <3>1, TakeKey DEF Holding
  <2> QED BY <2>4, <2>5
<1>12. CASE Enqueue(s)
  <2>1. KeyOf(s, "EMAIL") = HeldKey(scan[s]) /\ scan[s].pc = "enqueue"
    BY <1>12 DEF Enqueue, KeyOf, HeldKey
  <2>2. CASE Deliver(s, KeyOf(s, "EMAIL")) /\ NextUser(s)
    BY <1>12, <2>1, <2>2, MoveToNext, SpendKey DEF Enqueue, Holding
  <2>3. CASE GoTo(s, "release") /\ UNCHANGED <<told, twice>>
    <3>1. HeldKey(scan'[s]) = HeldKey(scan[s]) /\ scan' = [scan EXCEPT ![s] = scan'[s]]
      BY <2>1, <2>3, MoveTo DEF HeldKey
    <3>2. Delivered' = Delivered /\ ledger' = ledger /\ twice' = twice
      BY <1>12, <2>3 DEF Enqueue, Delivered
    <3>3. \A t \in Scans : scan'[t].pc \in Holding =>
             scan[t].pc \in Holding /\ HeldKey(scan'[t]) = HeldKey(scan[t])
      BY <2>1, <3>1 DEF Holding, WellFormed, TypeOK
    <3> QED BY <3>2, <3>3 DEF OnceInv
  <2> QED BY <1>12, <2>2, <2>3 DEF Enqueue
<1>13. CASE Release(s)
  <2> DEFINE k == HeldKey(scan[s])
  <2>1. KeyOf(s, "EMAIL") = k /\ scan[s].pc \in Holding
    BY <1>13 DEF Release, KeyOf, HeldKey, Holding
  <2>2. scan' = [scan EXCEPT ![s] = scan'[s]] /\ scan'[s].pc \notin Holding
    BY <1>13, MoveToNext DEF Release, Holding
  <2>3. Delivered' = Delivered /\ twice' = twice /\ ledger' = ledger \ {k}
    BY <1>13, <2>1 DEF Release, Delivered
  <2>4. k \notin Delivered /\ \A t \in Scans \ {s} : scan[t].pc \in Holding =>
                                                       HeldKey(scan[t]) # k
    BY <2>1 DEF OnceInv
  <2>5. \A t \in Scans : scan'[t].pc \in Holding => t # s /\ scan'[t] = scan[t]
    BY <2>2 DEF WellFormed, TypeOK
  <2> HIDE DEF k
  <2> QED BY <2>3, <2>4, <2>5 DEF OnceInv
<1>14. CASE Close(s) \/ Crash(s)
  BY <1>2, <1>14 DEF Close, Crash
<1> QED BY <1>3, <1>4, <1>6, <1>7, <1>8, <1>9, <1>10, <1>11, <1>12, <1>13, <1>14
        DEF ScanStep

\* However many scans overlap, fail to enqueue or die, no member is told the
\* same thing twice over one channel.
THEOREM ToldAtMostOnce == Spec => []NotifiedOnce
<1>1. Init => OnceInv
  BY DEF Init, OnceInv, Delivered, Idle, Holding
<1>2. WellFormed /\ [Next]_vars => WellFormed'
  BY ScanStepWellFormed, WorldStepWellFormed DEF Next
<1>3. WellFormed /\ OnceInv /\ [Next]_vars => OnceInv'
  <2> SUFFICES ASSUME WellFormed, OnceInv, [Next]_vars PROVE OnceInv'
    OBVIOUS
  <2>1. CASE UNCHANGED <<ledger, told, twice, scan>>
    BY <2>1 DEF OnceInv, Delivered
  <2>2. ASSUME NEW s \in Scans, Start(s) \/ ScanStep(s) \/ Crash(s) PROVE OnceInv'
    BY <2>2, OnceScanStep
  <2> QED BY <2>1, <2>2 DEF Next, Snooze, Resolve, SetRow, SetPreference, ChangeStatus,
                            CompleteRule, AmendRecord, EditRule, Recompute, CreateRecord,
                            SupersedeReminders, NextDay, vars
<1>4. OnceInv => NotifiedOnce
  BY DEF OnceInv, NotifiedOnce
<1> QED BY <1>1, <1>2, <1>3, <1>4, InitWellFormed, PTL DEF Spec

----------------------------------------------------------------------------
(* SENT: the loop over the members ends only when each has an in-app key.      *)

HasInApp(r, u) == \E k \in ledger : k.row = r /\ k.user = u /\ k.channel = "IN_APP"

\* A member the loop has taken from its list has a key.
CoverInv ==
  /\ SentCoversEveryone
  /\ \A s \in Scans :
       /\ scan[s].pc \in Judged =>
            \A u \in Users \ scan[s].todo : HasInApp(scan[s].row, u)
       /\ scan[s].pc = "close" => scan[s].todo = {}

\* In-app keys are never taken back.
LEMMA KeysStay ==
  ASSUME WellFormed,
         \/ ledger \subseteq ledger'
         \/ \E s \in Scans : ledger' = ledger \ {KeyOf(s, "EMAIL")}
  PROVE  \A r, u : HasInApp(r, u) => HasInApp(r, u)'
<1>1. \A s \in Scans : KeyOf(s, "EMAIL").channel = "EMAIL"
  BY DEF KeyOf, Key
<1>2. \A k \in ledger : k.channel = "IN_APP" => k \in ledger'
  BY <1>1
<1> QED BY <1>2 DEF HasInApp

\* A scan that leaves, or goes on without touching its list or its row.
LEMMA CoverGo ==
  ASSUME WellFormed, CoverInv, NEW s \in Scans, scan' = [scan EXCEPT ![s] = scan'[s]],
         \A r, u : HasInApp(r, u) => HasInApp(r, u)',
         \A r \in Rows : row'[r].status = "SENT" =>
            row[r].status = "SENT" \/ \A u \in Users : HasInApp(r, u),
         \/ scan'[s].pc \notin Judged
         \/ /\ scan'[s].row = scan[s].row /\ scan'[s].todo = scan[s].todo
            /\ scan[s].pc \in Judged
            /\ scan'[s].pc = "close" => scan'[s].todo = {}
         \/ scan'[s].todo = Users /\ scan'[s].pc # "close"
         \/ \E u \in Users : /\ scan'[s].row = scan[s].row /\ scan[s].pc \in Judged
                             /\ scan'[s].todo = scan[s].todo \ {u}
                             /\ HasInApp(scan[s].row, u)' /\ scan'[s].pc # "close"
  PROVE  CoverInv'
<1>1. \A r \in Rows, u \in Users : row[r].status = "SENT" => HasInApp(r, u)
  BY DEF CoverInv, SentCoversEveryone, HasInApp
<1>2. \A r \in Rows, u \in Users : row'[r].status = "SENT" => HasInApp(r, u)'
  BY <1>1
<1>3. SentCoversEveryone'
  BY <1>2 DEF SentCoversEveryone, HasInApp
<1>4. \A t \in Scans \ {s} : scan'[t] = scan[t]
  BY DEF WellFormed, TypeOK
<1>5. ASSUME NEW t \in Scans \ {s}
      PROVE  /\ scan'[t].pc \in Judged =>
                  \A u \in Users \ scan'[t].todo : HasInApp(scan[t].row, u)'
             /\ scan'[t].pc = "close" => scan'[t].todo = {}
  BY <1>4 DEF CoverInv
<1>6. scan'[s].pc \in Judged =>
        \A u \in Users \ scan'[s].todo : HasInApp(scan[s].row, u)'
  BY DEF CoverInv
<1>7. scan'[s].pc = "close" => scan'[s].todo = {}
  BY DEF CoverInv, Judged
<1> QED BY <1>3, <1>5, <1>6, <1>7 DEF CoverInv

\* The scan goes on in its loop, with the member it has or the next.
LEMMA CoverMove ==
  ASSUME WellFormed, CoverInv, NEW s \in Scans, scan[s].pc \in Judged,
         \/ \E pc \in {"inapp", "prefer", "email", "enqueue", "release"} : GoTo(s, pc)
         \/ NextUser(s),
         \A r, u : HasInApp(r, u) => HasInApp(r, u)',
         \A r \in Rows : row'[r].status = "SENT" => row[r].status = "SENT"
  PROVE  CoverInv'
<1>1. /\ scan' = [scan EXCEPT ![s] = scan'[s]]
      /\ scan'[s].row = scan[s].row /\ scan'[s].todo = scan[s].todo
      /\ scan'[s].pc = "close" => scan'[s].todo = {}
  BY MoveTo, MoveToNext
<1> QED BY <1>1, CoverGo

LEMMA CoverScanStep ==
  ASSUME WellFormed, CoverInv, NEW s \in Scans, Start(s) \/ ScanStep(s) \/ Crash(s)
  PROVE  CoverInv'
<1>1. scan[s] \in ScanStates
  BY DEF WellFormed, TypeOK
<1>2. ASSUME NEW q, Go(s, q)
      PROVE  scan' = [scan EXCEPT ![s] = scan'[s]] /\ scan'[s] = q
  BY <1>2 DEF Go, WellFormed, TypeOK
<1>3. ASSUME Leave(s), UNCHANGED ledger,
             \A r \in Rows : row'[r].status = "SENT" =>
               row[r].status = "SENT" \/ \A u \in Users : HasInApp(r, u)
      PROVE  CoverInv'
  <2>1. scan' = [scan EXCEPT ![s] = scan'[s]] /\ scan'[s].pc \notin Judged
    BY <1>2, <1>3 DEF Leave, Idle, Judged
  <2>2. \A r, u : HasInApp(r, u) => HasInApp(r, u)'
    BY <1>3, KeysStay
  <2> QED BY <1>3, <2>1, <2>2, CoverGo
<1>4. CASE Start(s)
  <2> DEFINE q == [Idle EXCEPT !.pc = "find", !.day = day, !.item = item, !.due = due,
                               !.window = Window(due, day)]
  <2>1. Go(s, q) /\ q.pc \notin Judged /\ ledger' = ledger /\ row' = row
    BY <1>4 DEF Start, Idle, Judged
  <2>2. \A r, u : HasInApp(r, u) => HasInApp(r, u)'
    BY <2>1, KeysStay
  <2> HIDE DEF q
  <2> QED BY <1>2, <2>1, <2>2, CoverGo
<1>5. CASE FindLive(s)
  <2>1. ASSUME NEW r, Go(s, [scan[s] EXCEPT !.pc = "upsert", !.row = r])
        PROVE  CoverInv'
    <3>1. [scan[s] EXCEPT !.pc = "upsert", !.row = r].pc = "upsert"
      BY <1>1 DEF ScanStates
    <3> QED BY <1>2, <1>5, <2>1, <3>1, KeysStay, CoverGo DEF FindLive, Judged
  <2> QED BY <1>5, <2>1 DEF FindLive
<1>6. ASSUME NEW r, NEW st, Judge(s, r, st), UNCHANGED ledger,
             \A n \in Rows : row'[n].status = "SENT" => row[n].status = "SENT"
      PROVE  CoverInv'
  <2>1. CASE Leave(s)
    BY <1>3, <1>6, <2>1
  <2>2. ASSUME NEW pc \in {"markdue", "inapp"},
               Go(s, [scan[s] EXCEPT !.row = r, !.todo = Users, !.pc = pc])
        PROVE  CoverInv'
    <3>1. /\ [scan[s] EXCEPT !.row = r, !.todo = Users, !.pc = pc].todo = Users
          /\ [scan[s] EXCEPT !.row = r, !.todo = Users, !.pc = pc].pc = pc
      BY <1>1 DEF ScanStates
    <3> QED BY <1>2, <1>6, <2>2, <3>1, KeysStay, CoverGo
  <2> QED BY <1>6, <2>1, <2>2 DEF Judge
<1>7. CASE Update(s)
  BY <1>6, <1>7 DEF Update
<1>8. CASE Create(s)
  <2>1. CASE LiveRows(scan[s].item) # {}
    BY <1>3, <1>8, <2>1 DEF Create
  <2>2. CASE LiveRows(scan[s].item) = {}
    <3>1. row' = [row EXCEPT ![Fresh] = Scheduled(s)] /\ Judge(s, Fresh, Scheduled(s))
      BY <1>8, <2>2 DEF Create
    <3>2. \A n \in Rows : row'[n].status = "SENT" => row[n].status = "SENT"
      BY <3>1 DEF Scheduled, Row, WellFormed, TypeOK
    <3> QED BY <1>6, <1>8, <3>1, <3>2 DEF Create
  <2> QED BY <2>1, <2>2
<1>9. CASE MarkDue(s)
  <2>1. CASE Leave(s) /\ UNCHANGED row
    BY <1>3, <1>9, <2>1 DEF MarkDue
  <2>2. CASE GoTo(s, "inapp") /\ row' = [row EXCEPT ![scan[s].row] =
                                           Row(row[scan[s].row].item, "DUE", 0)]
    <3>1. \A n \in Rows : row'[n].status = "SENT" => row[n].status = "SENT"
      BY <2>2 DEF Row, WellFormed, TypeOK
    <3> QED BY <1>9, <2>2, <3>1, KeysStay, CoverMove DEF MarkDue, Judged
  <2> QED BY <1>9, <2>1, <2>2 DEF MarkDue
<1>10. CASE ReserveInApp(s)
  <2>1. PICK u \in scan[s].todo :
           LET k == Key(scan[s].row, u, "IN_APP", scan[s].window) IN
           /\ ledger' = ledger \cup {k}
           /\ Go(s, [scan[s] EXCEPT !.user = u, !.todo = @ \ {u},
                                    !.pc = IF k \in ledger THEN "prefer" ELSE "notify"])
    BY <1>10 DEF ReserveInApp
  <2>2. u \in Users
    BY <1>1 DEF ScanStates
  <2>3. ASSUME NEW pc \in {"prefer", "notify"}
        PROVE  LET q == [scan[s] EXCEPT !.user = u, !.todo = @ \ {u}, !.pc = pc]
               IN  q.pc = pc /\ q.row = scan[s].row /\ q.todo = scan[s].todo \ {u}
    BY <1>1 DEF ScanStates
  <2>4. /\ scan' = [scan EXCEPT ![s] = scan'[s]] /\ scan'[s].pc \in {"prefer", "notify"}
        /\ scan'[s].row = scan[s].row /\ scan'[s].todo = scan[s].todo \ {u}
    BY <1>2, <2>1, <2>3
  <2>5. Key(scan[s].row, u, "IN_APP", scan[s].window) \in ledger'
    BY <2>1
  <2>6. HasInApp(scan[s].row, u)'
    BY <2>4, <2>5 DEF HasInApp, Key
  <2>7. \A r, v : HasInApp(r, v) => HasInApp(r, v)'
    BY <2>1, KeysStay
  <2> QED BY <1>10, <2>2, <2>4, <2>6, <2>7, CoverGo DEF ReserveInApp, Judged
<1>11. CASE Notify(s) \/ WantsEmail(s) \/ Enqueue(s)
  BY <1>11, KeysStay, CoverMove DEF Notify, WantsEmail, Enqueue, Judged
<1>12. CASE ReserveEmail(s)
  BY <1>12, KeysStay, CoverMove DEF ReserveEmail, Judged
<1>13. CASE Release(s)
  BY <1>13, KeysStay, CoverMove DEF Release, Judged
<1>14. CASE Close(s)
  <2>1. \A u \in Users : HasInApp(scan[s].row, u)
    BY <1>14 DEF Close, CoverInv, Judged
  <2>2. \A r \in Rows : row'[r].status = "SENT" => row[r].status = "SENT" \/ r = scan[s].row
    BY <1>14 DEF Close, WellFormed, TypeOK
  <2> QED BY <1>3, <1>14, <2>1, <2>2 DEF Close
<1>15. CASE Crash(s)
  BY <1>3, <1>15 DEF Crash
<1> QED BY <1>4, <1>5, <1>7, <1>8, <1>9, <1>10, <1>11, <1>12, <1>13, <1>14, <1>15
        DEF ScanStep

LEMMA CoverStep ==
  ASSUME WellFormed, CoverInv, [Next]_vars
  PROVE  CoverInv'
<1>1. ASSUME UNCHANGED <<ledger, scan>>,
             \A r \in Rows : row'[r].status = "SENT" => row[r].status = "SENT"
      PROVE  CoverInv'
  BY <1>1 DEF CoverInv, SentCoversEveryone, HasInApp
<1>2. ASSUME NEW s \in Scans, Start(s) \/ ScanStep(s) \/ Crash(s) PROVE CoverInv'
  BY <1>2, CoverScanStep
<1>3. ASSUME NEW r \in Rows, Snooze(r) \/ Resolve(r) PROVE CoverInv'
  <2>1. PICK st \in {"SNOOZED", "CLOSED"}, until \in Nat : SetRow(r, st, until)
    BY <1>3 DEF Snooze, Resolve, WellFormed, TypeOK
  <2>2. \A n \in Rows : row'[n].status = "SENT" => row[n].status = "SENT"
    BY <2>1 DEF SetRow, Row, WellFormed, TypeOK
  <2> QED BY <1>1, <2>1, <2>2 DEF SetRow
<1>4. CASE ChangeStatus \/ SupersedeReminders
  <2>1. \A r \in Rows : row'[r].status = "SENT" => row[r].status = "SENT"
    BY <1>4, CancelledOK DEF ChangeStatus, SupersedeReminders
  <2> QED BY <1>1, <1>4, <2>1 DEF ChangeStatus, SupersedeReminders
<1>5. CASE \/ \E u \in Users : SetPreference(u)
           \/ \E d \in AmendedDays : AmendRecord(d) \/ EditRule(d)
           \/ CompleteRule \/ Recompute \/ CreateRecord \/ NextDay \/ UNCHANGED vars
  BY <1>1, <1>5 DEF SetPreference, CompleteRule, AmendRecord, EditRule, Recompute,
                    CreateRecord, NextDay, vars
<1> QED BY <1>2, <1>3, <1>4, <1>5 DEF Next

\* A reminder is marked SENT only when each member has an in-app notification
\* reserved, in whatever order scans, failures and users interleave.
THEOREM SentIsForEveryone == Spec => []SentCoversEveryone
<1>1. Init => CoverInv
  BY DEF Init, CoverInv, SentCoversEveryone, Idle, Judged, Row
<1>2. WellFormed /\ [Next]_vars => WellFormed'
  BY ScanStepWellFormed, WorldStepWellFormed DEF Next
<1>3. WellFormed /\ CoverInv /\ [Next]_vars => CoverInv'
  BY CoverStep
<1>4. CoverInv => SentCoversEveryone
  BY DEF CoverInv
<1> QED BY <1>1, <1>2, <1>3, <1>4, InitWellFormed, PTL DEF Spec

-----------------------------------------------------------------------------
(* Each due day: a member whose in-app key is reserved is told, is about to be  *)
(* told or lost the message to a crash; and what was said of a reminder names   *)
(* the one due day its item ever had, unless the item's due day was moved.      *)

Known(r, i) == row[r].status # "NONE" /\ row[r].item = i
KnownNext(r, i) == row'[r].status # "NONE" /\ row'[r].item = i
\* No row loses its item, and none is of an item to come.
RowsKeep ==
  \A r \in Rows : /\ row'[r].item <= item
                  /\ row[r].status # "NONE" => KnownNext(r, row[r].item)
Accounted(k) == k \in Delivered \/ k \in lost \/ Underway(k)

\* Rows and scans are of items there are. All scans of an item whose due day was
\* never moved know the same one, and those of the present item know today's.
ItemsKnown ==
  /\ \A r \in Rows : row[r].item <= item
  /\ \A s \in Scans : scan[s].item <= item
  /\ \A s \in Scans : scan[s].pc # "idle" /\ scan[s].item \notin moved =>
       /\ scan[s].item = item => scan[s].due = due
       /\ \A o \in Scans : scan[o].pc # "idle" /\ scan[o].item = scan[s].item
                             => scan[o].due = scan[s].due

\* The row a scan works on exists and is its item's.
RowKnown == \A s \in Scans : scan[s].row # 0 => Known(scan[s].row, scan[s].item)

\* What was said of an item's row names the day that the item, or a scan of it, has.
RightDay ==
  \A t \in told :
    /\ row[t[1].row].status # "NONE"
    /\ row[t[1].row].item \notin moved =>
         /\ row[t[1].row].item = item => t[2] = due
         /\ \A s \in Scans : scan[s].pc # "idle" /\ row[t[1].row].item = scan[s].item
                               => t[2] = scan[s].due

Reserved == \A k \in ledger : k.channel = "IN_APP" => Accounted(k)

\* A member the loop has taken from its list has a key in the window of the scan.
Handled ==
  \A s \in Scans : scan[s].pc \in Judged =>
    \A u \in Users \ scan[s].todo : InAppKey(s, u) \in ledger

DayInv == ItemsKnown /\ RowKnown /\ RightDay /\ Reserved /\ Handled

\* What a step of one scan does beside moving it: it keeps rows their item, tells
\* only of its own row and day, keeps in-app keys and accounts for the one it held.
ScanMoves(s) ==
  /\ scan' = [scan EXCEPT ![s] = scan'[s]]
  /\ UNCHANGED <<item, due, moved>>
  /\ RowsKeep
  /\ told \subseteq told' /\ lost \subseteq lost'
  /\ \A t \in told' \ told : /\ scan[s].pc # "idle" /\ t[2] = scan[s].due
                             /\ t[1].row = scan[s].row /\ scan[s].row \in Rows
  /\ \A k \in ledger : k.channel = "IN_APP" => k \in ledger'
  /\ \A k \in ledger' : k.channel = "IN_APP" => k \in ledger \/ Underway(k)'
  /\ scan[s].pc = "notify" => KeyOf(s, "IN_APP") \in Delivered' \cup lost'

\* Where it may move it.
Lands(s) ==
  \/ scan'[s] = Idle
  \/ /\ scan'[s].pc # "idle"
     /\ scan'[s].row # 0 => KnownNext(scan'[s].row, scan'[s].item)
     /\ \/ scan'[s].item = item /\ scan'[s].due = due
        \/ /\ scan'[s].item = scan[s].item /\ scan'[s].due = scan[s].due
           /\ scan[s].pc # "idle"
     /\ scan'[s].pc \in Judged =>
          \A u \in Users \ scan'[s].todo : InAppKey(s, u)' \in ledger'

LEMMA DayMoves ==
  ASSUME WellFormed, DayInv, NEW s \in Scans, ScanMoves(s), Lands(s)
  PROVE  DayInv'
<1>1. /\ \A o \in Scans \ {s} : scan'[o] = scan[o]
      /\ UNCHANGED <<item, due, moved>>
  BY DEF ScanMoves, WellFormed, TypeOK
<1>2. Idle.pc = "idle" /\ Idle.item = 0 /\ Idle.row = 0 /\ item \in Nat /\ 0 <= item
  BY ScanConstants DEF Idle, WellFormed, TypeOK
<1>3. \A o \in Scans : scan[o].row \in Rows \cup {0} /\ scan[o].item \in Nat
  BY ScanConstants DEF WellFormed, TypeOK, ScanStates
<1>4. \A r \in Rows : row[r].status # "NONE" => KnownNext(r, row[r].item)
  BY DEF ScanMoves, RowsKeep
<1>5. ItemsKnown'
  <2>1. \A r \in Rows : row'[r].item <= item'
    BY <1>1 DEF ScanMoves, RowsKeep
  <2>2. \A o \in Scans : scan'[o].item <= item'
    BY <1>1, <1>2 DEF DayInv, ItemsKnown, Lands
  <2>3. ASSUME NEW o \in Scans, scan'[o].pc # "idle", scan'[o].item \notin moved,
               scan'[o].item = item
        PROVE  scan'[o].due = due
    BY <1>1, <1>2, <2>3 DEF DayInv, ItemsKnown, Lands
  <2>4. ASSUME NEW o \in Scans, NEW p \in Scans, scan'[o].pc # "idle", scan'[p].pc # "idle",
               scan'[o].item \notin moved, scan'[p].item = scan'[o].item
        PROVE  scan'[p].due = scan'[o].due
    <3>1. CASE scan'[o].item = item
      BY <2>3, <2>4, <3>1
    <3>2. CASE scan'[o].item # item
      BY <1>1, <1>2, <2>4, <3>2 DEF DayInv, ItemsKnown, Lands
    <3> QED BY <3>1, <3>2
  <2> QED BY <1>1, <2>1, <2>2, <2>3, <2>4 DEF ItemsKnown
<1>6. RowKnown'
  <2>1. ASSUME NEW o \in Scans \ {s}, scan[o].row # 0 PROVE KnownNext(scan[o].row, scan[o].item)
    BY <1>3, <1>4, <2>1 DEF DayInv, RowKnown, Known, KnownNext
  <2>2. scan'[s].row # 0 => KnownNext(scan'[s].row, scan'[s].item)
    BY <1>2 DEF Lands
  <2> QED BY <1>1, <2>1, <2>2 DEF RowKnown, Known, KnownNext
<1>7. RightDay'
  <2>1. ASSUME NEW t \in told'
        PROVE  t[1].row \in Rows /\ row[t[1].row].status # "NONE"
    <3>1. CASE t \in told
      BY <3>1 DEF WellFormed, TypeOK, Keys, DayInv, RightDay
    <3>2. CASE t \notin told
      <4>1. t[1].row = scan[s].row /\ scan[s].row \in Rows /\ scan[s].row # 0
        BY <3>2 DEF ScanMoves, Rows
      <4> QED BY <4>1 DEF DayInv, RowKnown, Known, KnownNext
    <3> QED BY <3>1, <3>2
  <2>2. ASSUME NEW t \in told', row[t[1].row].item \notin moved
        PROVE  /\ row[t[1].row].item = item => t[2] = due
               /\ \A o \in Scans : scan'[o].pc # "idle" /\ row[t[1].row].item = scan'[o].item
                                     => t[2] = scan'[o].due
    <3> DEFINE i == row[t[1].row].item
    <3>1. /\ i = item => t[2] = due
          /\ \A o \in Scans : scan[o].pc # "idle" /\ i = scan[o].item => t[2] = scan[o].due
      <4>1. CASE t \in told
        BY <2>2, <4>1 DEF DayInv, RightDay
      <4>2. CASE t \notin told
        <5>1. /\ t[1].row = scan[s].row /\ scan[s].row # 0 /\ scan[s].pc # "idle"
              /\ t[2] = scan[s].due
          BY <4>2 DEF ScanMoves, Rows
        <5>2. i = scan[s].item
          BY <5>1 DEF DayInv, RowKnown, Known, KnownNext
        <5> QED BY <2>2, <5>1, <5>2 DEF DayInv, ItemsKnown
      <4> QED BY <4>1, <4>2
    <3> HIDE DEF i
    <3> QED BY <1>1, <1>2, <3>1 DEF Lands, i
  <2>3. \A t \in told' : row'[t[1].row].status # "NONE" /\ row'[t[1].row].item = row[t[1].row].item
    BY <1>4, <2>1 DEF Known, KnownNext
  <2> QED BY <1>1, <2>2, <2>3 DEF RightDay
<1>8. \A k : Accounted(k) => Accounted(k)'
  <2>1. Delivered \subseteq Delivered' /\ lost \subseteq lost'
    BY DEF ScanMoves, Delivered
  <2>2. ASSUME NEW k, NEW o \in Scans, scan[o].pc = "notify", KeyOf(o, "IN_APP") = k
        PROVE  Accounted(k)'
    <3>1. CASE o = s
      BY <2>2, <3>1 DEF ScanMoves, Accounted
    <3>2. CASE o # s
      BY <1>1, <2>2, <3>2 DEF Accounted, Underway, KeyOf
    <3> QED BY <3>1, <3>2
  <2> QED BY <2>1, <2>2 DEF Accounted, Underway
<1>9. Reserved'
  <2>1. ASSUME NEW k \in ledger', k.channel = "IN_APP" PROVE Accounted(k)'
    <3>1. k \in ledger \/ Underway(k)'
      BY <2>1 DEF ScanMoves
    <3>2. CASE k \in ledger
      BY <1>8, <2>1, <3>2 DEF DayInv, Reserved
    <3> QED BY <3>1, <3>2 DEF Accounted
  <2> QED BY <2>1 DEF Reserved
<1>10. Handled'
  <2>1. \A o \in Scans, u \in Users : InAppKey(o, u).channel = "IN_APP"
    BY DEF InAppKey, Key
  <2>2. ASSUME NEW o \in Scans \ {s}, scan'[o].pc \in Judged, NEW u \in Users \ scan'[o].todo
        PROVE  InAppKey(o, u)' \in ledger'
    <3>1. InAppKey(o, u) \in ledger
      BY <1>1, <2>2 DEF DayInv, Handled
    <3>2. InAppKey(o, u)' = InAppKey(o, u)
      BY <1>1 DEF InAppKey
    <3> QED BY <2>1, <3>1, <3>2 DEF ScanMoves
  <2>3. scan'[s].pc \in Judged => \A u \in Users \ scan'[s].todo : InAppKey(s, u)' \in ledger'
    BY <1>2 DEF Lands, Judged
  <2> QED BY <2>2, <2>3 DEF Handled
<1> QED BY <1>5, <1>6, <1>7, <1>9, <1>10 DEF DayInv

\* A step of a scan that leaves notifications and in-app keys alone.
LEMMA DayQuiet ==
  ASSUME WellFormed, DayInv, NEW s \in Scans, scan' = [scan EXCEPT ![s] = scan'[s]],
         UNCHANGED <<item, due, moved, told, lost>>, scan[s].pc # "notify",
         \/ UNCHANGED ledger \/ ledger' = ledger \cup {KeyOf(s, "EMAIL")}
         \/ ledger' = ledger \ {KeyOf(s, "EMAIL")},
         RowsKeep,
         Lands(s)
  PROVE  DayInv'
<1>1. KeyOf(s, "EMAIL").channel = "EMAIL"
  BY DEF KeyOf, Key
<1>2. ScanMoves(s)
  BY <1>1 DEF ScanMoves
<1> QED BY <1>2, DayMoves

\* A move within the loop keeps what a scan is of.
LEMMA LoopLands ==
  ASSUME WellFormed, DayInv, NEW s \in Scans, scan[s].pc \in Judged,
         \/ \E pc \in {"inapp", "prefer", "email", "enqueue", "release"} : GoTo(s, pc)
         \/ NextUser(s),
         RowsKeep,
         \A k \in ledger : k.channel = "IN_APP" => k \in ledger'
  PROVE  scan' = [scan EXCEPT ![s] = scan'[s]] /\ Lands(s)
<1>1. PICK pc \in {"inapp", "prefer", "email", "enqueue", "release", "close"} : GoTo(s, pc)
  BY DEF NextUser
<1> DEFINE q == [scan[s] EXCEPT !.pc = pc]
<1>2. /\ q.pc = pc /\ q.row = scan[s].row /\ q.todo = scan[s].todo
      /\ q.item = scan[s].item /\ q.due = scan[s].due /\ q.window = scan[s].window
  BY DEF WellFormed, TypeOK, ScanStates
<1>3. scan'[s] = q /\ scan' = [scan EXCEPT ![s] = q]
  BY <1>1 DEF GoTo, Go, WellFormed, TypeOK
<1> HIDE DEF q
<1>4. scan[s].pc # "idle" /\ q.pc # "idle" /\ scan[s].row \in Rows /\ scan[s].row # 0
  BY <1>1, <1>2 DEF Judged, WellFormed, ScanOK, Rows
<1>5. KnownNext(scan[s].row, scan[s].item)
  BY <1>4 DEF DayInv, RowKnown, Known, RowsKeep, KnownNext
<1>6. ASSUME NEW u \in Users \ scan[s].todo PROVE InAppKey(s, u)' \in ledger'
  <2>1. InAppKey(s, u) \in ledger /\ InAppKey(s, u).channel = "IN_APP"
    BY DEF DayInv, Handled, InAppKey, Key
  <2>2. InAppKey(s, u)' = InAppKey(s, u)
    BY <1>2, <1>3 DEF InAppKey
  <2> QED BY <2>1, <2>2
<1>7. Lands(s)
  BY <1>2, <1>3, <1>4, <1>5, <1>6 DEF Lands, Known, KnownNext
<1> QED BY <1>3, <1>7

LEMMA DayScanStep ==
  ASSUME WellFormed, DayInv, NEW s \in Scans, Start(s) \/ ScanStep(s) \/ Crash(s)
  PROVE  DayInv'
<1> USE DEF world
<1>1. scan[s] \in ScanStates /\ ScanOK(scan[s])
  BY DEF WellFormed, TypeOK
<1>2. ASSUME NEW q, Go(s, q)
      PROVE  scan' = [scan EXCEPT ![s] = scan'[s]] /\ scan'[s] = q
  BY <1>2 DEF Go, WellFormed, TypeOK
<1>3. /\ \A r \in Rows : row[r].item <= item
      /\ scan[s].row # 0 => Known(scan[s].row, scan[s].item)
  BY DEF DayInv, ItemsKnown, RowKnown
<1>4. UNCHANGED row => RowsKeep
  BY <1>3 DEF RowsKeep, KnownNext
<1>5. CASE Start(s)
  <2> DEFINE q == [Idle EXCEPT !.pc = "find", !.day = day, !.item = item, !.due = due,
                               !.window = Window(due, day)]
  <2>1. /\ q.pc = "find" /\ q.item = item /\ q.due = due /\ q.row = 0
        /\ Go(s, q) /\ "find" \notin Judged
    BY <1>5 DEF Start, Idle, Judged
  <2> HIDE DEF q
  <2>2. Lands(s)
    BY <1>2, <2>1 DEF Lands
  <2> QED BY <1>2, <1>4, <1>5, <2>1, <2>2, DayQuiet DEF Start
<1>6. CASE FindLive(s)
  <2>1. ASSUME NEW r, Go(s, [scan[s] EXCEPT !.pc = "upsert", !.row = r]),
               r # 0 => r \in LiveRows(scan[s].item)
        PROVE  DayInv'
    <3> DEFINE q == [scan[s] EXCEPT !.pc = "upsert", !.row = r]
    <3>1. /\ q.pc = "upsert" /\ q.row = r /\ q.item = scan[s].item /\ q.due = scan[s].due
          /\ "upsert" \notin Judged
      BY <1>1 DEF ScanStates, Judged
    <3>2. r # 0 => KnownNext(r, scan[s].item)
      BY <1>6, <2>1 DEF FindLive, LiveRows, Live, Known, KnownNext
    <3>3. scan'[s] = q /\ scan' = [scan EXCEPT ![s] = scan'[s]]
      BY <1>2, <2>1
    <3> HIDE DEF q
    <3>4. Lands(s)
      BY <1>6, <3>1, <3>2, <3>3 DEF FindLive, Lands, Known, KnownNext
    <3> QED BY <1>4, <1>6, <3>3, <3>4, DayQuiet DEF FindLive
  <2> QED BY <1>6, <2>1 DEF FindLive
\* A judged row is new to the loop, or left.
<1>7. ASSUME NEW r \in Rows, NEW st, Judge(s, r, st), scan[s].pc = "upsert",
             KnownNext(r, scan[s].item),
             UNCHANGED <<item, due, moved, told, lost, ledger>>,
             RowsKeep
      PROVE  DayInv'
  <2>1. CASE Leave(s)
    BY <1>2, <1>7, <2>1, DayQuiet DEF Leave, Lands
  <2>2. ASSUME NEW pc \in {"markdue", "inapp"},
               Go(s, [scan[s] EXCEPT !.row = r, !.todo = Users, !.pc = pc])
        PROVE  DayInv'
    <3> DEFINE q == [scan[s] EXCEPT !.row = r, !.todo = Users, !.pc = pc]
    <3>1. /\ q.pc = pc /\ q.row = r /\ q.todo = Users
          /\ q.item = scan[s].item /\ q.due = scan[s].due
      BY <1>1 DEF ScanStates
    <3>2. scan'[s] = q /\ scan' = [scan EXCEPT ![s] = scan'[s]]
      BY <1>2, <2>2
    <3> HIDE DEF q
    <3>3. Lands(s)
      BY <1>7, <2>2, <3>1, <3>2 DEF Lands, Known, KnownNext
    <3> QED BY <1>7, <3>2, <3>3, DayQuiet
  <2> QED BY <1>7, <2>1, <2>2 DEF Judge
<1>8. CASE Update(s)
  <2>1. scan[s].row \in Rows /\ KnownNext(scan[s].row, scan[s].item)
    BY <1>1, <1>3, <1>8 DEF Update, ScanStates, Known, KnownNext
  <2> QED BY <1>4, <1>7, <1>8, <2>1 DEF Update
<1>9. CASE Create(s)
  <2>1. CASE LiveRows(scan[s].item) # {}
    BY <1>2, <1>4, <1>9, <2>1, DayQuiet DEF Create, Leave, Lands
  <2>2. CASE LiveRows(scan[s].item) = {}
    <3>1. Fresh \in Rows /\ row[Fresh].status = "NONE"
      BY <1>9, <2>2 DEF Create, Fresh, Unused
    <3>2. /\ Scheduled(s).item = scan[s].item /\ Scheduled(s).status # "NONE"
          /\ scan[s].item <= item
      BY DEF Scheduled, Row, DayInv, ItemsKnown
    <3>3. row' = [row EXCEPT ![Fresh] = Scheduled(s)] /\ Judge(s, Fresh, Scheduled(s))
      BY <1>9, <2>2 DEF Create
    <3>4. row'[Fresh] = Scheduled(s) /\ \A n \in Rows \ {Fresh} : row'[n] = row[n]
      BY <3>1, <3>3 DEF WellFormed, TypeOK
    <3>5. RowsKeep
      BY <1>3, <3>1, <3>2, <3>4 DEF RowsKeep, KnownNext
    <3>6. row'[Fresh].status # "NONE" /\ row'[Fresh].item = scan[s].item
      BY <3>2, <3>4
    <3> QED BY <1>7, <1>9, <3>1, <3>3, <3>5, <3>6 DEF Create, KnownNext
  <2> QED BY <2>1, <2>2
<1>10. CASE MarkDue(s)
  <2>1. scan[s].row \in Rows
    BY <1>1, <1>10 DEF MarkDue, ScanOK, Judged
  <2>2. CASE Leave(s) /\ UNCHANGED row
    BY <1>2, <1>4, <1>10, <2>2, DayQuiet DEF MarkDue, Leave, Lands
  <2>3. CASE GoTo(s, "inapp") /\ row' = [row EXCEPT ![scan[s].row] =
                                           Row(row[scan[s].row].item, "DUE", 0)]
    <3>1. RowsKeep
      BY <1>3, <2>1, <2>3 DEF RowsKeep, KnownNext, Row, WellFormed, TypeOK
    <3>2. scan' = [scan EXCEPT ![s] = scan'[s]] /\ Lands(s)
      BY <1>10, <2>3, <3>1, LoopLands DEF MarkDue, Judged
    <3> QED BY <1>10, <3>1, <3>2, DayQuiet DEF MarkDue
  <2> QED BY <1>10, <2>2, <2>3 DEF MarkDue
<1>11. CASE WantsEmail(s) \/ ReserveEmail(s) \/ Release(s)
  <2>1. KeyOf(s, "EMAIL").channel = "EMAIL"
    BY DEF KeyOf, Key
  <2>2. \A k \in ledger : k.channel = "IN_APP" => k \in ledger'
    BY <1>11, <2>1 DEF WantsEmail, ReserveEmail, Release
  <2>3. RowsKeep
    BY <1>4, <1>11 DEF WantsEmail, ReserveEmail, Release
  <2>4. scan' = [scan EXCEPT ![s] = scan'[s]] /\ Lands(s)
    BY <1>11, <2>2, <2>3, LoopLands DEF WantsEmail, ReserveEmail, Release, Judged
  <2> QED BY <1>11, <2>3, <2>4, DayQuiet DEF WantsEmail, ReserveEmail, Release
<1>12. CASE Close(s)
  <2>1. scan[s].row \in Rows
    BY <1>1, <1>12 DEF Close, ScanOK, Judged
  <2>2. RowsKeep
    BY <1>3, <1>12, <2>1 DEF Close, RowsKeep, KnownNext, WellFormed, TypeOK, RowType
  <2> QED BY <1>2, <1>12, <2>2, DayQuiet DEF Close, Leave, Lands
<1>13. CASE Enqueue(s)
  <2>1. scan[s].row \in Rows /\ scan[s].pc # "idle" /\ scan[s].pc # "notify"
    BY <1>1, <1>13 DEF Enqueue, ScanOK, Judged
  <2>2. RowsKeep
    BY <1>4, <1>13 DEF Enqueue
  <2>3. CASE Deliver(s, KeyOf(s, "EMAIL")) /\ NextUser(s)
    <3> DEFINE t == <<KeyOf(s, "EMAIL"), scan[s].due>>
    <3>1. t[1].row = scan[s].row /\ t[2] = scan[s].due
      BY DEF KeyOf, Key
    <3>2. told' = told \cup {t}
      BY <2>3 DEF Deliver
    <3> HIDE DEF t
    <3>3. scan' = [scan EXCEPT ![s] = scan'[s]] /\ Lands(s)
      BY <1>13, <2>2, <2>3, LoopLands DEF Enqueue, Judged
    <3>4. ScanMoves(s)
      BY <1>13, <2>1, <2>2, <3>1, <3>2, <3>3 DEF Enqueue, ScanMoves
    <3> QED BY <3>3, <3>4, DayMoves
  <2>4. CASE GoTo(s, "release") /\ UNCHANGED <<told, twice>>
    <3>1. scan' = [scan EXCEPT ![s] = scan'[s]] /\ Lands(s)
      BY <1>13, <2>2, <2>4, LoopLands DEF Enqueue, Judged
    <3> QED BY <1>13, <2>1, <2>2, <2>4, <3>1, DayQuiet DEF Enqueue
  <2> QED BY <1>13, <2>3, <2>4 DEF Enqueue
<1>14. CASE Notify(s)
  <2> DEFINE k == KeyOf(s, "IN_APP")
             t == <<k, scan[s].due>>
  <2>1. /\ t[1] = k /\ t[1].row = scan[s].row /\ t[2] = scan[s].due
        /\ scan[s].row \in Rows /\ scan[s].pc # "idle"
    BY <1>1, <1>14 DEF Notify, KeyOf, Key, ScanOK, Judged
  <2>2. told' = told \cup {t}
    BY <1>14 DEF Notify, Deliver
  <2>3. RowsKeep
    BY <1>4, <1>14 DEF Notify
  <2>4. scan' = [scan EXCEPT ![s] = scan'[s]] /\ Lands(s)
    BY <1>14, <2>3, LoopLands DEF Notify, Judged
  <2> HIDE DEF t
  <2>5. k \in Delivered'
    BY <2>1, <2>2 DEF Delivered
  <2> HIDE DEF k
  <2>6. ScanMoves(s)
    BY <1>14, <2>1, <2>2, <2>3, <2>4, <2>5 DEF Notify, ScanMoves, k
  <2> QED BY <2>4, <2>6, DayMoves
<1>15. CASE ReserveInApp(s)
  <2>1. PICK u \in scan[s].todo :
           LET k == Key(scan[s].row, u, "IN_APP", scan[s].window) IN
           /\ ledger' = ledger \cup {k}
           /\ Go(s, [scan[s] EXCEPT !.user = u, !.todo = @ \ {u},
                                    !.pc = IF k \in ledger THEN "prefer" ELSE "notify"])
    BY <1>15 DEF ReserveInApp
  <2>2. PICK k : k = InAppKey(s, u)
    OBVIOUS
  <2> DEFINE pc == IF k \in ledger THEN "prefer" ELSE "notify"
             q == [scan[s] EXCEPT !.user = u, !.todo = @ \ {u}, !.pc = pc]
  <2>3. /\ q.pc = pc /\ q.row = scan[s].row /\ q.user = u /\ q.window = scan[s].window
        /\ q.todo = scan[s].todo \ {u} /\ q.item = scan[s].item /\ q.due = scan[s].due
    BY <1>1 DEF ScanStates
  <2>4. /\ scan'[s] = q /\ scan' = [scan EXCEPT ![s] = scan'[s]]
        /\ ledger' = ledger \cup {k}
    BY <1>2, <2>1, <2>2 DEF InAppKey
  <2>5. scan[s].pc = "inapp" /\ UNCHANGED <<item, due, moved, row, told, lost>> /\ RowsKeep
    BY <1>4, <1>15 DEF ReserveInApp
  <2>6. pc \in {"prefer", "notify"} /\ (pc = "prefer" => k \in ledger)
    OBVIOUS
  <2> HIDE DEF q, pc
  <2>7. \A n \in Users : InAppKey(s, n)' = InAppKey(s, n)
    BY <2>3, <2>4 DEF InAppKey
  <2>8. pc = "notify" => KeyOf(s, "IN_APP")' = k
    BY <2>2, <2>3, <2>4 DEF KeyOf, InAppKey
  <2>9. \A n \in Users \ q.todo : InAppKey(s, n)' \in ledger'
    BY <2>2, <2>3, <2>4, <2>5, <2>7 DEF DayInv, Handled, Judged
  <2>10. scan[s].row # 0 => KnownNext(scan[s].row, scan[s].item)
    BY <1>3, <2>5 DEF Known, KnownNext
  <2>11. Lands(s)
    BY <2>3, <2>4, <2>5, <2>6, <2>9, <2>10 DEF Lands
  <2>12. ScanMoves(s)
    BY <2>3, <2>4, <2>5, <2>6, <2>8 DEF ScanMoves, Underway
  <2> QED BY <2>11, <2>12, DayMoves
<1>16. CASE Crash(s)
  <2>1. Lands(s) /\ scan' = [scan EXCEPT ![s] = scan'[s]]
    BY <1>2, <1>16 DEF Crash, Leave, Lands
  <2>2. RowsKeep
    BY <1>4, <1>16 DEF Crash
  <2>3. ScanMoves(s)
    BY <1>16, <2>1, <2>2 DEF Crash, ScanMoves
  <2> QED BY <2>1, <2>3, DayMoves
<1> QED BY <1>5, <1>6, <1>8, <1>9, <1>10, <1>11, <1>12, <1>13, <1>14, <1>15, <1>16
        DEF ScanStep

LEMMA DayWorldStep ==
  ASSUME WellFormed, DayInv,
         \/ \E r \in Rows : Snooze(r) \/ Resolve(r)
         \/ \E u \in Users : SetPreference(u)
         \/ \E d \in AmendedDays : AmendRecord(d) \/ EditRule(d)
         \/ ChangeStatus \/ CompleteRule \/ Recompute \/ CreateRecord
         \/ SupersedeReminders \/ NextDay \/ UNCHANGED vars
  PROVE  DayInv'
<1>1. \A t \in told : t[1].row \in Rows
  BY DEF WellFormed, TypeOK, Keys
<1>2. \A s \in Scans : scan[s].row \in Rows \cup {0}
  BY DEF WellFormed, TypeOK, ScanStates
<1>3. UNCHANGED <<ledger, told, lost, scan>> => (Reserved /\ Handled)'
  BY DEF DayInv, Reserved, Handled, Accounted, Delivered, Underway, InAppKey, KeyOf
\* Rows may be written; a due day may move if it is noted.
<1>4. ASSUME UNCHANGED <<item, ledger, told, lost, scan>>, moved \subseteq moved',
             due' = due \/ item \in moved', RowsKeep
      PROVE  DayInv'
  <2>1. ItemsKnown'
    BY <1>4 DEF DayInv, ItemsKnown, RowsKeep
  <2>2. RowKnown'
    BY <1>2, <1>4 DEF DayInv, RowKnown, Known, KnownNext, RowsKeep
  <2>3. RightDay'
    BY <1>1, <1>4 DEF DayInv, RightDay, KnownNext, RowsKeep
  <2> QED BY <1>3, <1>4, <2>1, <2>2, <2>3 DEF DayInv
<1>5. UNCHANGED row => RowsKeep
  BY DEF DayInv, ItemsKnown, RowsKeep, KnownNext
<1>6. CASE \E r \in Rows : Snooze(r) \/ Resolve(r)
  <2>1. PICK r \in Rows, st \in {"SNOOZED", "CLOSED"}, until \in Nat : SetRow(r, st, until)
    BY <1>6, ScanConstants DEF Snooze, Resolve, WellFormed, TypeOK
  <2>2. RowsKeep
    BY <2>1 DEF SetRow, Row, WellFormed, TypeOK, DayInv, ItemsKnown, RowsKeep, KnownNext
  <2> QED BY <1>4, <2>1, <2>2 DEF SetRow, world
<1>7. CASE ChangeStatus \/ SupersedeReminders
  <2>1. RowsKeep
    BY <1>7, CancelledOK
       DEF ChangeStatus, SupersedeReminders, DayInv, ItemsKnown, RowsKeep, KnownNext
  <2> QED BY <1>4, <1>7, <2>1 DEF ChangeStatus, SupersedeReminders
\* A renewal is a new item: no row, no scan and no notification is of it yet.
<1>8. CASE CreateRecord
  <2>1. item' = item + 1 /\ item \in Nat /\ UNCHANGED <<moved, row, ledger, told, lost, scan>>
    BY <1>8, ScanConstants DEF CreateRecord, WellFormed, TypeOK
  <2>2. /\ \A r \in Rows : row[r].item \in Nat /\ row[r].item <= item
        /\ \A s \in Scans : scan[s].item \in Nat /\ scan[s].item <= item
    BY ScanConstants DEF WellFormed, TypeOK, RowType, ScanStates, DayInv, ItemsKnown
  <2>3. /\ \A r \in Rows : row[r].item <= item' /\ row[r].item # item'
        /\ \A s \in Scans : scan[s].item <= item' /\ scan[s].item # item'
    BY <2>1, <2>2
  <2>4. ItemsKnown' /\ RowKnown'
    BY <2>1, <2>3 DEF DayInv, ItemsKnown, RowKnown, Known
  <2>5. RightDay'
    BY <1>1, <2>1, <2>3 DEF DayInv, RightDay
  <2> QED BY <1>3, <2>1, <2>4, <2>5 DEF DayInv
<1>9. CASE \/ CompleteRule
           \/ \E d \in AmendedDays : AmendRecord(d) \/ EditRule(d)
  BY <1>4, <1>5, <1>9 DEF CompleteRule, AmendRecord, EditRule, MoveDue
<1>10. CASE \/ \E u \in Users : SetPreference(u)
            \/ Recompute \/ NextDay \/ UNCHANGED vars
  BY <1>4, <1>5, <1>10 DEF SetPreference, Recompute, NextDay, vars, world
<1> QED BY <1>6, <1>7, <1>8, <1>9, <1>10

\* However many scans overlap, die or fail to enqueue, of records and of rules, and
\* whatever users snooze, dismiss, renew, sell or edit meanwhile: a scan that has
\* dealt with every member leaves each of them told of the due day it found, in the
\* window it found, unless that day was moved under its item's own id or a scan
\* stopped between the reservation and the notification.
THEOREM DueDaysAreTold == Spec => []EachDueDayIsTold
<1>1. Init => DayInv
  BY ScanConstants
     DEF Init, DayInv, ItemsKnown, RowKnown, RightDay, Reserved, Handled, Idle, Judged, Row
<1>2. WellFormed /\ [Next]_vars => WellFormed'
  BY ScanStepWellFormed, WorldStepWellFormed DEF Next
<1>3. WellFormed /\ DayInv /\ [Next]_vars => DayInv'
  BY DayScanStep, DayWorldStep DEF Next
<1>4. Init => CoverInv
  BY DEF Init, CoverInv, SentCoversEveryone, Idle, Judged, Row
<1>5. WellFormed /\ CoverInv /\ [Next]_vars => CoverInv'
  BY CoverStep
<1>6. WellFormed /\ CoverInv /\ DayInv => EachDueDayIsTold
  <2> SUFFICES ASSUME WellFormed, CoverInv, DayInv, NEW s \in Scans, NEW u \in Users,
                      scan[s].pc = "close", scan[s].item \notin moved
               PROVE  \/ <<InAppKey(s, u), scan[s].due>> \in told
                      \/ InAppKey(s, u) \in lost
                      \/ Underway(InAppKey(s, u))
    BY DEF EachDueDayIsTold
  <2>1. u \in Users \ scan[s].todo
    BY DEF CoverInv
  <2>2. PICK k : k = InAppKey(s, u)
    OBVIOUS
  <2>3. Accounted(k)
    BY <2>1, <2>2 DEF DayInv, Handled, Reserved, Judged, InAppKey, Key
  <2>4. ASSUME k \in Delivered PROVE <<k, scan[s].due>> \in told
    <3>1. PICK t \in told : t[1] = k
      BY <2>4 DEF Delivered
    <3>2. t = <<t[1], t[2]>>
      BY DEF WellFormed, TypeOK
    <3>3. t[1].row = scan[s].row /\ scan[s].row # 0
      BY <2>2, <3>1 DEF InAppKey, Key, WellFormed, ScanOK, Judged, Rows
    <3>4. row[t[1].row].item = scan[s].item
      BY <3>3 DEF DayInv, RowKnown, Known
    <3>5. t[2] = scan[s].due
      BY <3>4 DEF DayInv, RightDay
    <3> QED BY <3>1, <3>2, <3>5
  <2> QED BY <2>2, <2>3, <2>4 DEF Accounted
<1> QED BY <1>1, <1>2, <1>3, <1>4, <1>5, <1>6, InitWellFormed, PTL DEF Spec

----------------------------------------------------------------------------
(* Exports. The row, the queued job and the build that has it, each well formed,  *)
(* and a row that is READY names an object that was put.                         *)

FileKeys == (Jobs \X Nat) \cup {NoKey}
ExportRows == [status : ExportStatuses, key : FileKeys]
QueuedJobs == [state : {"none", "waiting", "active", "over"}, slot : Slots \cup {NoJob}, runs : Nat]
Places == {"free", "read", "run", "build", "put", "ready", "fail", "over"}
Builds == [pc : Places, job : Jobs \cup {NoJob}, row : ExportRows, key : FileKeys, run : Nat]
Requests == [pc : {"rest", "insert", "enqueue"}, job : Jobs \cup {NoJob}]

ExportTypes ==
  /\ export \in [Jobs -> ExportRows] /\ queued \in [Jobs -> QueuedJobs] /\ build \in [Slots -> Builds]
  /\ asking \in [Creators -> Requests]
  /\ \A w \in Slots : build[w].pc # "free" => build[w].job \in Jobs
  /\ \A c \in Creators : asking[c].pc = "enqueue" => asking[c].job \in Jobs

\* What a slot about to mark its row has put in storage.
FileIsPut == \A w \in Slots : build[w].pc = "ready" => build[w].key \in stored

FileInv == ExportTypes /\ ReadyHasFile /\ FileIsPut

-----------------------------------------------------------------------------
(* Types.                                                                      *)

LEMMA Records ==
  /\ NoExport \in ExportRows /\ NotQueued \in QueuedJobs /\ FreeSlot \in Builds /\ Resting \in Requests
  /\ FreeSlot.pc = "free" /\ Resting.pc = "rest"
BY DEF NoExport, ExportRows, FileKeys, NotQueued, QueuedJobs, FreeSlot, Builds, Places, Resting, Requests, NoKey, ExportStatuses

\* A slot that is given a well-typed record with a job.
LEMMA SlotTypes ==
  ASSUME ExportTypes, NEW w \in Slots, NEW b \in Builds, b.pc # "free" => b.job \in Jobs, SetSlot(w, b)
  PROVE  /\ build' \in [Slots -> Builds]
         /\ \A v \in Slots : build'[v].pc # "free" => build'[v].job \in Jobs
         /\ build'[w] = b /\ \A v \in Slots \ {w} : build'[v] = build[v]
BY DEF ExportTypes, SetSlot

LEMMA MoveTypes ==
  ASSUME ExportTypes, NEW w \in Slots, NEW pc \in Places, build[w].pc # "free", SlotTo(w, pc)
  PROVE  /\ build' \in [Slots -> Builds]
         /\ \A v \in Slots : build'[v].pc # "free" => build'[v].job \in Jobs
         /\ build'[w].pc = pc /\ build'[w].job = build[w].job /\ build'[w].key = build[w].key
         /\ build'[w].run = build[w].run
         /\ \A v \in Slots \ {w} : build'[v] = build[v]
<1> DEFINE b == [build[w] EXCEPT !.pc = pc]
<1>1. /\ b \in Builds /\ b.pc = pc /\ b.job = build[w].job /\ b.key = build[w].key /\ b.run = build[w].run
      /\ build[w].job \in Jobs
  BY DEF ExportTypes, Builds
<1>2. SetSlot(w, b)
  BY DEF SlotTo
<1> HIDE DEF b
<1> QED BY <1>1, <1>2, SlotTypes

LEMMA RowTypes ==
  ASSUME ExportTypes, NEW j \in Jobs, NEW status \in ExportStatuses, NEW key \in FileKeys, SetExport(j, status, key)
  PROVE  /\ export' \in [Jobs -> ExportRows]
         /\ export'[j].status = status /\ export'[j].key = key
         /\ \A i \in Jobs \ {j} : export'[i] = export[i]
BY DEF ExportTypes, SetExport, ExportRows

LEMMA AskingTypes ==
  ASSUME ExportTypes, NEW c \in Creators, NEW a \in Requests, a.pc = "enqueue" => a.job \in Jobs, SetAsking(c, a)
  PROVE  /\ asking' \in [Creators -> Requests]
         /\ \A d \in Creators : asking'[d].pc = "enqueue" => asking'[d].job \in Jobs
         /\ asking'[c] = a /\ \A d \in Creators \ {c} : asking'[d] = asking[d]
BY DEF ExportTypes, SetAsking

\* A slot that lets go of its job: the queue notes it if the lock is still its own.
LEMMA FinishTypes ==
  ASSUME ExportTypes, NEW w \in Slots, build[w].pc # "free", FinishJob(w)
  PROVE  /\ build' \in [Slots -> Builds] /\ queued' \in [Jobs -> QueuedJobs]
         /\ \A v \in Slots : build'[v].pc # "free" => build'[v].job \in Jobs
         /\ build'[w] = FreeSlot /\ \A v \in Slots \ {w} : build'[v] = build[v]
         /\ \A j \in Jobs : queued'[j] # queued[j] => j = build[w].job /\ Holds(w, j) /\ queued'[j].state = "over"
<1> DEFINE j == build[w].job
           q == [queued[j] EXCEPT !.state = "over", !.slot = NoJob]
<1>1. j \in Jobs
  BY DEF ExportTypes
<1>2. q \in QueuedJobs /\ q.state = "over"
  BY <1>1 DEF ExportTypes, QueuedJobs
<1>3. queued' = IF Holds(w, j) THEN [queued EXCEPT ![j] = q] ELSE queued
  BY DEF FinishJob, ReleaseJob
<1>4. FreeSlot \in Builds /\ FreeSlot.pc = "free" /\ SetSlot(w, FreeSlot)
  BY Records DEF FinishJob
<1>5. queued \in [Jobs -> QueuedJobs]
  BY DEF ExportTypes
<1>6. /\ queued' \in [Jobs -> QueuedJobs]
      /\ \A i \in Jobs : queued'[i] # queued[i] => i = j /\ Holds(w, i) /\ queued'[i].state = "over"
  <2> HIDE DEF q, j
  <2> QED BY <1>1, <1>2, <1>3, <1>5
<1> QED BY <1>4, <1>6, SlotTypes

-----------------------------------------------------------------------------
(* The file of a READY row.                                                    *)

LEMMA FileInit == ExportInit => FileInv
BY Records, NoExport \in ExportRows DEF ExportInit, FileInv, ExportTypes, ReadyHasFile, FileIsPut, NoExport, FreeSlot, Resting

\* The requests and the queue leave the rows that are READY and the slots alone.
LEMMA ApiKeepsFiles ==
  ASSUME FileInv, NEW c \in Creators, CountPending(c) \/ EnqueueExport(c) \/ \E j \in Jobs : InsertExport(c, j)
  PROVE  FileInv'
<1> USE DEF FileInv
<1>1. CASE CountPending(c)
  <2> DEFINE a == [pc |-> "insert", job |-> NoJob]
  <2>1. a \in Requests /\ a.pc = "insert" /\ SetAsking(c, a)
    BY <1>1 DEF CountPending, Requests
  <2> HIDE DEF a
  <2>2. /\ asking' \in [Creators -> Requests]
        /\ \A d \in Creators : asking'[d].pc = "enqueue" => asking'[d].job \in Jobs
    BY <2>1, AskingTypes
  <2> QED BY <1>1, <2>2 DEF CountPending, ExportTypes, ReadyHasFile, FileIsPut
<1>2. CASE EnqueueExport(c)
  <2>1. /\ asking' \in [Creators -> Requests]
        /\ \A d \in Creators : asking'[d].pc = "enqueue" => asking'[d].job \in Jobs
    BY <1>2, Records, AskingTypes DEF EnqueueExport
  <2>2. queued' \in [Jobs -> QueuedJobs]
    <3>1. [NotQueued EXCEPT !.state = "waiting"] \in QueuedJobs /\ asking[c].job \in Jobs
      BY <1>2 DEF EnqueueExport, ExportTypes, NotQueued, QueuedJobs
    <3> QED BY <1>2, <3>1 DEF EnqueueExport, ExportTypes
  <2> QED BY <1>2, <2>1, <2>2 DEF EnqueueExport, ExportTypes, ReadyHasFile, FileIsPut
<1>3. ASSUME NEW j \in Jobs, InsertExport(c, j)
      PROVE  FileInv'
  <2> DEFINE a == [pc |-> "enqueue", job |-> j]
             r == [NoExport EXCEPT !.status = "PENDING"]
  <2>1. a \in Requests /\ a.job = j /\ SetAsking(c, a)
    BY <1>3 DEF InsertExport, Requests
  <2>2. r \in ExportRows /\ r.status = "PENDING" /\ export' = [export EXCEPT ![j] = r]
    BY <1>3 DEF InsertExport, NoExport, ExportRows, FileKeys, ExportStatuses
  <2> HIDE DEF a, r
  <2>3. /\ asking' \in [Creators -> Requests]
        /\ \A d \in Creators : asking'[d].pc = "enqueue" => asking'[d].job \in Jobs
    BY <2>1, AskingTypes
  <2>4. export' \in [Jobs -> ExportRows] /\ \A i \in Jobs : export'[i].status = "READY" => export'[i] = export[i]
    BY <2>2 DEF ExportTypes
  <2> QED BY <1>3, <2>3, <2>4 DEF InsertExport, ExportTypes, ReadyHasFile, FileIsPut
<1> QED BY <1>1, <1>2, <1>3

\* The record the queue makes of a job whose lock expired.
LEMMA StalledTypes ==
  ASSUME NEW q \in QueuedJobs
  PROVE  Stalled(q) \in QueuedJobs /\ Stalled(q).state \in {"waiting", "over"}
<1> DEFINE state == IF q.runs <= MaxStalls THEN "waiting" ELSE "over"
<1>1. state \in {"waiting", "over"}
  OBVIOUS
<1>2. Stalled(q) = [q EXCEPT !.state = state, !.slot = NoJob]
  BY DEF Stalled
<1> HIDE DEF state
<1> QED BY <1>1, <1>2 DEF QueuedJobs

LEMMA QueueKeepsFiles ==
  ASSUME FileInv, NEW j \in Jobs, ExpireExport(j) \/ RecoverStalled(j)
  PROVE  FileInv'
<1> USE DEF FileInv
<1>1. CASE ExpireExport(j)
  <2> DEFINE r == [export[j] EXCEPT !.status = "EXPIRED"]
  <2>1. r \in ExportRows /\ r.status = "EXPIRED" /\ export' = [export EXCEPT ![j] = r]
    BY <1>1 DEF ExpireExport, ExportTypes, ExportRows, ExportStatuses
  <2> HIDE DEF r
  <2>2. export' \in [Jobs -> ExportRows] /\ \A i \in Jobs : export'[i].status = "READY" => export'[i] = export[i]
    BY <2>1 DEF ExportTypes
  <2> QED BY <1>1, <2>2 DEF ExpireExport, ExportTypes, ReadyHasFile, FileIsPut
<1>2. CASE RecoverStalled(j)
  <2>1. queued' \in [Jobs -> QueuedJobs]
    BY <1>2, StalledTypes DEF RecoverStalled, ExportTypes
  <2> QED BY <1>2, <2>1 DEF RecoverStalled, ExportTypes, ReadyHasFile, FileIsPut, mishaps
<1> QED BY <1>1, <1>2

LEMMA SlotsKeepFiles ==
  ASSUME FileInv, NEW w \in Slots, (\E j \in Jobs : TakeJob(w, j)) \/ WorkerDies(w) \/ LockExpires(w)
  PROVE  FileInv'
<1> USE DEF FileInv
<1>1. ASSUME NEW j \in Jobs, TakeJob(w, j)
      PROVE  FileInv'
  <2> DEFINE b == [FreeSlot EXCEPT !.pc = "read", !.job = j, !.run = queued[j].runs + 1]
             q == [state |-> "active", slot |-> w, runs |-> queued[j].runs + 1]
  <2>0. queued[j].runs \in Nat
    BY DEF ExportTypes, QueuedJobs
  <2>1. b \in Builds /\ b.pc = "read" /\ b.job = j
    <3>1. FreeSlot \in Builds /\ queued[j].runs + 1 \in Nat /\ "read" \in Places
      BY <2>0, Records DEF Places
    <3> QED BY <3>1 DEF Builds
  <2>2. q \in QueuedJobs
    BY <2>0 DEF QueuedJobs
  <2>3. SetSlot(w, b) /\ queued' = [queued EXCEPT ![j] = q]
    BY <1>1 DEF TakeJob
  <2> HIDE DEF b, q
  <2>4. /\ build' \in [Slots -> Builds] /\ \A v \in Slots : build'[v].pc # "free" => build'[v].job \in Jobs
        /\ build'[w] = b /\ \A v \in Slots \ {w} : build'[v] = build[v]
    BY <2>1, <2>3, SlotTypes
  <2>5. queued' \in [Jobs -> QueuedJobs]
    BY <2>2, <2>3 DEF ExportTypes
  <2> QED BY <1>1, <2>1, <2>4, <2>5 DEF TakeJob, ExportTypes, ReadyHasFile, FileIsPut
<1>2. CASE WorkerDies(w)
  <2>1. /\ build' \in [Slots -> Builds] /\ \A v \in Slots : build'[v].pc # "free" => build'[v].job \in Jobs
        /\ build'[w] = FreeSlot /\ \A v \in Slots \ {w} : build'[v] = build[v]
    BY <1>2, Records, SlotTypes DEF WorkerDies
  <2> QED BY <1>2, <2>1, Records DEF WorkerDies, ExportTypes, ReadyHasFile, FileIsPut
<1>3. CASE LockExpires(w)
  <2>1. queued' \in [Jobs -> QueuedJobs]
    <3>1. build[w].job \in Jobs
      BY <1>3 DEF LockExpires, SlotLost, ExportTypes
    <3> QED BY <1>3, <3>1, StalledTypes DEF LockExpires, ExportTypes
  <2> QED BY <1>3, <2>1 DEF LockExpires, ExportTypes, ReadyHasFile, FileIsPut
<1> QED BY <1>1, <1>2, <1>3

LEMMA WorkKeepsFiles ==
  ASSUME FileInv, NEW w \in Slots, WorkStep(w) \/ BuildThrows(w)
  PROVE  FileInv'
<1> USE DEF FileInv
<1>1. CASE ReadExport(w)
  <2>1. CASE FinishJob(w)
    <3>1. /\ build' \in [Slots -> Builds] /\ queued' \in [Jobs -> QueuedJobs]
          /\ \A v \in Slots : build'[v].pc # "free" => build'[v].job \in Jobs
          /\ build'[w] = FreeSlot /\ \A v \in Slots \ {w} : build'[v] = build[v]
      BY <1>1, <2>1, FinishTypes DEF ReadExport
    <3> QED BY <1>1, <3>1, Records DEF ReadExport, ExportTypes, ReadyHasFile, FileIsPut
  <2>2. CASE SetSlot(w, [build[w] EXCEPT !.pc = "run", !.row = export[build[w].job]]) /\ UNCHANGED queued
    <3> DEFINE b == [build[w] EXCEPT !.pc = "run", !.row = export[build[w].job]]
    <3>1. b \in Builds /\ b.pc = "run" /\ b.job \in Jobs /\ SetSlot(w, b)
      BY <1>1, <2>2 DEF ReadExport, ExportTypes, Builds, Places
    <3> HIDE DEF b
    <3>2. /\ build' \in [Slots -> Builds] /\ \A v \in Slots : build'[v].pc # "free" => build'[v].job \in Jobs
          /\ build'[w] = b /\ \A v \in Slots \ {w} : build'[v] = build[v]
      BY <3>1, SlotTypes
    <3> QED BY <1>1, <2>2, <3>1, <3>2 DEF ReadExport, ExportTypes, ReadyHasFile, FileIsPut
  <2> QED BY <1>1, <2>1, <2>2 DEF ReadExport
<1>2. CASE RunExport(w) \/ MarkFailed(w)
  <2>1. PICK status \in {"RUNNING", "FAILED"}, pc \in {"build", "over"} :
          SetExport(build[w].job, status, export[build[w].job].key) /\ SlotTo(w, pc)
    BY <1>2 DEF RunExport, MarkFailed
  <2>2. build[w].pc # "free" /\ build[w].job \in Jobs /\ export[build[w].job].key \in FileKeys
    BY <1>2 DEF RunExport, MarkFailed, ExportTypes, ExportRows
  <2>3. pc \in Places /\ status \in ExportStatuses
    BY DEF Places, ExportStatuses
  <2>4. /\ build' \in [Slots -> Builds] /\ \A v \in Slots : build'[v].pc # "free" => build'[v].job \in Jobs
        /\ build'[w].pc = pc /\ \A v \in Slots \ {w} : build'[v] = build[v]
    BY <2>1, <2>2, <2>3, MoveTypes
  <2>5. /\ export' \in [Jobs -> ExportRows] /\ export'[build[w].job].status = status
        /\ \A i \in Jobs \ {build[w].job} : export'[i] = export[i]
    BY <2>1, <2>2, <2>3, RowTypes
  <2>6. UNCHANGED <<queued, stored, asking>>
    BY <1>2 DEF RunExport, MarkFailed
  <2> QED BY <2>4, <2>5, <2>6 DEF ExportTypes, ReadyHasFile, FileIsPut
<1>3. CASE BuildFile(w)
  <2> DEFINE b == [build[w] EXCEPT !.pc = "put", !.key = KeyFor(w)]
  <2>1. KeyFor(w) \in FileKeys
    BY <1>3 DEF BuildFile, KeyFor, ExportTypes, Builds, ExportRows, FileKeys
  <2>2. b \in Builds /\ b.pc = "put" /\ b.job \in Jobs /\ SetSlot(w, b)
    BY <1>3, <2>1 DEF BuildFile, ExportTypes, Builds, Places
  <2> HIDE DEF b
  <2>3. /\ build' \in [Slots -> Builds] /\ \A v \in Slots : build'[v].pc # "free" => build'[v].job \in Jobs
        /\ build'[w] = b /\ \A v \in Slots \ {w} : build'[v] = build[v]
    BY <2>2, SlotTypes
  <2> QED BY <1>3, <2>2, <2>3 DEF BuildFile, ExportTypes, ReadyHasFile, FileIsPut
<1>4. CASE PutFile(w)
  <2>1. build[w].pc # "free" /\ "ready" \in Places
    BY <1>4 DEF PutFile, Places
  <2>2. /\ build' \in [Slots -> Builds] /\ \A v \in Slots : build'[v].pc # "free" => build'[v].job \in Jobs
        /\ build'[w].key = build[w].key /\ \A v \in Slots \ {w} : build'[v] = build[v]
    BY <1>4, <2>1, MoveTypes DEF PutFile
  <2> QED BY <1>4, <2>2 DEF PutFile, PutObject, ExportTypes, ReadyHasFile, FileIsPut
<1>5. CASE MarkReady(w)
  <2>1. build[w].pc # "free" /\ "over" \in Places /\ "READY" \in ExportStatuses
    BY <1>5 DEF MarkReady, Places, ExportStatuses
  <2>2. build[w].job \in Jobs /\ build[w].key \in FileKeys /\ build[w].key \in stored
    BY <1>5 DEF MarkReady, ExportTypes, Builds, FileIsPut
  <2>3. /\ build' \in [Slots -> Builds] /\ \A v \in Slots : build'[v].pc # "free" => build'[v].job \in Jobs
        /\ build'[w].pc = "over" /\ \A v \in Slots \ {w} : build'[v] = build[v]
    BY <1>5, <2>1, MoveTypes DEF MarkReady
  <2>4. /\ export' \in [Jobs -> ExportRows] /\ export'[build[w].job].key = build[w].key
        /\ \A i \in Jobs \ {build[w].job} : export'[i] = export[i]
    BY <1>5, <2>1, <2>2, RowTypes DEF MarkReady
  <2> QED BY <1>5, <2>2, <2>3, <2>4 DEF MarkReady, ExportTypes, ReadyHasFile, FileIsPut
<1>6. CASE Report(w)
  <2>1. /\ build' \in [Slots -> Builds] /\ queued' \in [Jobs -> QueuedJobs]
        /\ \A v \in Slots : build'[v].pc # "free" => build'[v].job \in Jobs
        /\ build'[w] = FreeSlot /\ \A v \in Slots \ {w} : build'[v] = build[v]
    BY <1>6, FinishTypes DEF Report
  <2> QED BY <1>6, <2>1, Records DEF Report, ExportTypes, ReadyHasFile, FileIsPut
<1>7. CASE BuildThrows(w)
  <2>1. build[w].pc # "free" /\ "fail" \in Places
    BY <1>7 DEF BuildThrows, Places
  <2>2. /\ build' \in [Slots -> Builds] /\ \A v \in Slots : build'[v].pc # "free" => build'[v].job \in Jobs
        /\ build'[w].pc = "fail" /\ \A v \in Slots \ {w} : build'[v] = build[v]
    BY <1>7, <2>1, MoveTypes DEF BuildThrows
  <2> QED BY <1>7, <2>2 DEF BuildThrows, ExportTypes, ReadyHasFile, FileIsPut
<1> QED BY <1>1, <1>2, <1>3, <1>4, <1>5, <1>6, <1>7 DEF WorkStep

LEMMA FileStep == FileInv /\ [ExportNext]_exportVars => FileInv'
<1> SUFFICES ASSUME FileInv, [ExportNext]_exportVars
             PROVE  FileInv'
  OBVIOUS
<1>1. CASE UNCHANGED exportVars
  BY <1>1 DEF exportVars, FileInv, ExportTypes, ReadyHasFile, FileIsPut
<1>2. ASSUME NEW c \in Creators, CountPending(c) \/ EnqueueExport(c) \/ \E j \in Jobs : InsertExport(c, j)
      PROVE  FileInv'
  BY <1>2, ApiKeepsFiles
<1>3. ASSUME NEW j \in Jobs, ExpireExport(j) \/ RecoverStalled(j)
      PROVE  FileInv'
  BY <1>3, QueueKeepsFiles
<1>4. ASSUME NEW w \in Slots, (\E j \in Jobs : TakeJob(w, j)) \/ WorkerDies(w) \/ LockExpires(w)
      PROVE  FileInv'
  BY <1>4, SlotsKeepFiles
<1>5. ASSUME NEW w \in Slots, WorkStep(w) \/ BuildThrows(w)
      PROVE  FileInv'
  BY <1>5, WorkKeepsFiles
<1> QED BY <1>1, <1>2, <1>3, <1>4, <1>5 DEF ExportNext

\* Whatever dies, stalls, throws or is handed out again, and with any number of
\* slots at one job: an export that is READY has the object its key names, because
\* the object is put before the row is marked and nothing removes it.
THEOREM ReadyIsStored == ExportSpec => []ReadyHasFile
<1>1. FileInv => ReadyHasFile
  BY DEF FileInv
<1> QED BY <1>1, FileInit, FileStep, PTL DEF ExportSpec

-----------------------------------------------------------------------------
(* READY is kept. A job no slot outlived its lock on is held by the one slot at *)
(* work on it, and is handed out only once its request has put it in the queue. *)

HeldAlone ==
  \A w \in Slots : build[w].pc # "free" /\ build[w].job \notin outlived =>
                     queued[build[w].job].state = "active" /\ Holds(w, build[w].job)

Writing == {"run", "build", "put", "ready", "fail"}

NotYetReady ==
  \A w \in Slots : build[w].pc \in Writing /\ build[w].job \notin outlived =>
                     export[build[w].job].status # "READY"

QueuedOnce ==
  /\ \A w \in Slots : build[w].pc # "free" => queued[build[w].job].state # "none"
  /\ \A j \in Jobs : export[j].status = "NONE" => queued[j].state = "none"
  /\ \A c \in Creators : asking[c].pc = "enqueue" =>
       queued[asking[c].job].state = "none" /\ export[asking[c].job].status # "NONE"
  /\ \A c, d \in Creators : asking[c].pc = "enqueue" /\ asking[d].pc = "enqueue" /\ c # d =>
       asking[c].job # asking[d].job

KeptInv == FileInv /\ HeldAlone /\ NotYetReady /\ QueuedOnce

LEMMA KeptInit == ExportInit => KeptInv
<1>1. ExportInit => FileInv
  BY FileInit
<1>2. ExportInit => HeldAlone /\ NotYetReady
  BY Records DEF ExportInit, HeldAlone, NotYetReady, Writing
<1>3. ExportInit => QueuedOnce
  BY Records DEF ExportInit, QueuedOnce, NotQueued
<1> QED BY <1>1, <1>2, <1>3 DEF KeptInv

LEMMA ApiKeepsReady ==
  ASSUME KeptInv, NEW c \in Creators, CountPending(c) \/ EnqueueExport(c) \/ \E j \in Jobs : InsertExport(c, j)
  PROVE  HeldAlone' /\ NotYetReady' /\ QueuedOnce'
<1> USE DEF KeptInv, FileInv
<1>1. CASE CountPending(c)
  <2> DEFINE a == [pc |-> "insert", job |-> NoJob]
  <2>1. a \in Requests /\ a.pc = "insert" /\ SetAsking(c, a)
    BY <1>1 DEF CountPending, Requests
  <2> HIDE DEF a
  <2>2. asking'[c] = a /\ \A d \in Creators \ {c} : asking'[d] = asking[d]
    BY <2>1, AskingTypes
  <2> QED BY <1>1, <2>1, <2>2 DEF CountPending, mishaps, HeldAlone, Holds, NotYetReady, QueuedOnce
<1>2. CASE EnqueueExport(c)
  <2> DEFINE q == [NotQueued EXCEPT !.state = "waiting"]
  <2>1. asking'[c] = Resting /\ \A d \in Creators \ {c} : asking'[d] = asking[d]
    BY <1>2, Records, AskingTypes DEF EnqueueExport
  <2>2. q.state = "waiting" /\ asking[c].job \in Jobs /\ asking[c].pc = "enqueue"
    BY <1>2 DEF EnqueueExport, NotQueued, ExportTypes
  <2>3. queued' = [queued EXCEPT ![asking[c].job] = q] \/ queued' = queued
    BY <1>2 DEF EnqueueExport
  <2>4. UNCHANGED <<export, build, outlived>>
    BY <1>2 DEF EnqueueExport, mishaps
  <2> HIDE DEF q
  <2>5. HeldAlone' /\ NotYetReady'
    BY <2>2, <2>3, <2>4 DEF HeldAlone, Holds, NotYetReady, QueuedOnce, ExportTypes
  <2>6. QueuedOnce'
    BY <2>1, <2>2, <2>3, <2>4, Records DEF QueuedOnce, ExportTypes
  <2> QED BY <2>5, <2>6
<1>3. ASSUME NEW j \in Jobs, InsertExport(c, j)
      PROVE  HeldAlone' /\ NotYetReady' /\ QueuedOnce'
  <2> DEFINE a == [pc |-> "enqueue", job |-> j]
             r == [NoExport EXCEPT !.status = "PENDING"]
  <2>1. a \in Requests /\ a.job = j /\ a.pc = "enqueue" /\ SetAsking(c, a)
    BY <1>3 DEF InsertExport, Requests
  <2>2. r.status = "PENDING" /\ export' = [export EXCEPT ![j] = r] /\ export[j].status = "NONE"
    BY <1>3 DEF InsertExport, NoExport
  <2> HIDE DEF a, r
  <2>3. asking'[c] = a /\ \A d \in Creators \ {c} : asking'[d] = asking[d]
    BY <2>1, AskingTypes
  <2>4. UNCHANGED <<queued, build, outlived>>
    BY <1>3 DEF InsertExport, mishaps
  <2>5. HeldAlone' /\ NotYetReady'
    BY <2>2, <2>4 DEF HeldAlone, Holds, NotYetReady, ExportTypes
  <2>6. QueuedOnce'
    BY <2>1, <2>2, <2>3, <2>4 DEF QueuedOnce, ExportTypes
  <2> QED BY <2>5, <2>6
<1> QED BY <1>1, <1>2, <1>3

LEMMA QueueKeepsReady ==
  ASSUME KeptInv, NEW j \in Jobs, ExpireExport(j) \/ RecoverStalled(j)
  PROVE  HeldAlone' /\ NotYetReady' /\ QueuedOnce'
<1> USE DEF KeptInv, FileInv
<1>1. CASE ExpireExport(j)
  <2> DEFINE r == [export[j] EXCEPT !.status = "EXPIRED"]
  <2>1. r.status = "EXPIRED" /\ export' = [export EXCEPT ![j] = r] /\ export[j].status = "READY"
    BY <1>1 DEF ExpireExport, ExportTypes, ExportRows
  <2> HIDE DEF r
  <2> QED BY <1>1, <2>1 DEF ExpireExport, mishaps, ExportTypes, HeldAlone, Holds, NotYetReady, QueuedOnce
<1>2. CASE RecoverStalled(j)
  <2>1. queued[j].state = "active" /\ (\A w \in Slots : ~Holds(w, j)) /\ UNCHANGED <<export, build, asking, outlived>>
    BY <1>2 DEF RecoverStalled, Orphaned, mishaps
  <2>2. /\ queued'[j].state \in {"waiting", "over"} /\ \A i \in Jobs \ {j} : queued'[i] = queued[i]
    BY <1>2, StalledTypes DEF RecoverStalled, ExportTypes
  <2>3. HeldAlone' /\ NotYetReady'
    BY <2>1, <2>2 DEF HeldAlone, Holds, NotYetReady, ExportTypes
  <2>4. QueuedOnce'
    BY <2>1, <2>2 DEF QueuedOnce, ExportTypes
  <2> QED BY <2>3, <2>4
<1> QED BY <1>1, <1>2

LEMMA SlotsKeepReady ==
  ASSUME KeptInv, NEW w \in Slots, (\E j \in Jobs : TakeJob(w, j)) \/ WorkerDies(w) \/ LockExpires(w)
  PROVE  HeldAlone' /\ NotYetReady' /\ QueuedOnce'
<1> USE DEF KeptInv, FileInv
<1>1. ASSUME NEW j \in Jobs, TakeJob(w, j)
      PROVE  HeldAlone' /\ NotYetReady' /\ QueuedOnce'
  <2> DEFINE b == [FreeSlot EXCEPT !.pc = "read", !.job = j, !.run = queued[j].runs + 1]
             q == [state |-> "active", slot |-> w, runs |-> queued[j].runs + 1]
  <2>1. queued[j].runs + 1 \in Nat /\ FreeSlot \in Builds /\ "read" \in Places
    BY Records DEF ExportTypes, QueuedJobs, Places
  <2>2. b \in Builds /\ b.pc = "read" /\ b.job = j /\ b.run = queued[j].runs + 1
    BY <2>1 DEF Builds
  <2>3. q.state = "active" /\ q.slot = w /\ q.runs = queued[j].runs + 1
    OBVIOUS
  <2>4. SetSlot(w, b) /\ queued' = [queued EXCEPT ![j] = q]
    BY <1>1 DEF TakeJob
  <2>5. queued[j].state = "waiting" /\ UNCHANGED <<export, asking, outlived>>
    BY <1>1 DEF TakeJob, mishaps
  <2> HIDE DEF b, q
  <2>6. build'[w] = b /\ \A v \in Slots \ {w} : build'[v] = build[v]
    BY <2>2, <2>4, SlotTypes
  <2>7. HeldAlone' /\ NotYetReady'
    BY <2>2, <2>3, <2>4, <2>5, <2>6 DEF HeldAlone, Holds, NotYetReady, Writing, ExportTypes
  <2>8. QueuedOnce'
    BY <2>2, <2>3, <2>4, <2>5, <2>6 DEF QueuedOnce, ExportTypes
  <2> QED BY <2>7, <2>8
<1>2. CASE WorkerDies(w)
  <2>1. build'[w] = FreeSlot /\ \A v \in Slots \ {w} : build'[v] = build[v]
    BY <1>2, Records, SlotTypes DEF WorkerDies
  <2> QED BY <1>2, <2>1, Records DEF WorkerDies, HeldAlone, Holds, NotYetReady, Writing, QueuedOnce
<1>3. CASE LockExpires(w)
  <2> DEFINE j == build[w].job
  <2>1. j \in Jobs /\ queued[j].state = "active" /\ queued' = [queued EXCEPT ![j] = Stalled(@)]
    BY <1>3 DEF LockExpires, SlotLost, ExportTypes
  <2>2. outlived' = outlived \cup {j} /\ UNCHANGED <<export, build, asking>>
    BY <1>3 DEF LockExpires
  <2> HIDE DEF j
  <2>3. queued'[j].state \in {"waiting", "over"} /\ \A i \in Jobs \ {j} : queued'[i] = queued[i]
    BY <2>1, StalledTypes DEF ExportTypes
  <2>4. HeldAlone' /\ NotYetReady'
    BY <2>2, <2>3 DEF HeldAlone, Holds, NotYetReady, ExportTypes
  <2>5. QueuedOnce'
    BY <2>1, <2>2, <2>3 DEF QueuedOnce, ExportTypes
  <2> QED BY <2>4, <2>5
<1> QED BY <1>1, <1>2, <1>3

\* A slot lets go of its job: those at work beside it hold other jobs.
LEMMA FinishKeepsReady ==
  ASSUME KeptInv, NEW w \in Slots, build[w].pc # "free", FinishJob(w), UNCHANGED <<export, asking, outlived>>
  PROVE  HeldAlone' /\ NotYetReady' /\ QueuedOnce'
<1> USE DEF KeptInv, FileInv
<1>1. /\ build'[w] = FreeSlot /\ \A v \in Slots \ {w} : build'[v] = build[v]
      /\ \A j \in Jobs : queued'[j] # queued[j] => j = build[w].job /\ Holds(w, j) /\ queued'[j].state = "over"
  BY FinishTypes
<1>2. HeldAlone' /\ NotYetReady'
  BY <1>1, Records DEF HeldAlone, Holds, NotYetReady, Writing, ExportTypes
<1>3. \A j \in Jobs : queued[j].state = "none" => queued'[j].state = "none"
  BY <1>1 DEF QueuedOnce
<1>4. \A v \in Slots : build'[v].pc # "free" => queued'[build'[v].job].state # "none"
  BY <1>1, Records DEF QueuedOnce, ExportTypes
<1>5. QueuedOnce'
  BY <1>3, <1>4 DEF QueuedOnce, ExportTypes
<1> QED BY <1>2, <1>5

\* A slot goes on with its job: the other slots stay, and so does every row but its own.
GoesOn(w) ==
  /\ build[w].pc # "free" /\ UNCHANGED <<queued, asking, outlived>>
  /\ build'[w].job = build[w].job /\ build'[w].run = build[w].run
  /\ \A v \in Slots \ {w} : build'[v] = build[v]
  /\ \A j \in Jobs : j # build[w].job => export'[j] = export[j]
  /\ export'[build[w].job].status = export[build[w].job].status
     \/ export'[build[w].job].status \in {"RUNNING", "FAILED", "READY"}
  /\ build'[w].pc \in Writing /\ build[w].job \notin outlived => export'[build[w].job].status # "READY"

LEMMA GoOnKeepsReady ==
  ASSUME KeptInv, NEW w \in Slots, GoesOn(w)
  PROVE  HeldAlone' /\ NotYetReady' /\ QueuedOnce'
<1> USE DEF KeptInv, FileInv, GoesOn
<1>1. HeldAlone'
  BY DEF HeldAlone, Holds
<1>2. NotYetReady'
  <2> SUFFICES ASSUME NEW v \in Slots, (build[v].pc)' \in Writing, (build[v].job)' \notin outlived
               PROVE  export'[(build[v].job)'].status # "READY"
    BY DEF NotYetReady
  <2>1. CASE v = w
    BY <2>1
  <2>2. CASE v # w
    <3>1. build'[v] = build[v] /\ build[v].job \in Jobs /\ build[v].pc # "free"
      BY <2>2 DEF Writing, ExportTypes
    <3>2. build[v].job # build[w].job
      BY <2>2, <3>1 DEF HeldAlone, Holds
    <3>3. export'[build[v].job] = export[build[v].job]
      BY <3>1, <3>2
    <3> QED BY <3>1, <3>3 DEF NotYetReady
  <2> QED BY <2>1, <2>2
<1>3. QueuedOnce'
  <2>1. \A j \in Jobs : export'[j].status = "NONE" => export[j].status = "NONE"
    OBVIOUS
  <2>2. \A j \in Jobs : export[j].status # "NONE" => export'[j].status # "NONE"
    OBVIOUS
  <2> QED BY <2>1, <2>2 DEF QueuedOnce, ExportTypes
<1> QED BY <1>1, <1>2, <1>3

LEMMA WorkKeepsReady ==
  ASSUME KeptInv, NEW w \in Slots, WorkStep(w) \/ BuildThrows(w)
  PROVE  HeldAlone' /\ NotYetReady' /\ QueuedOnce'
<1> USE DEF KeptInv, FileInv
<1>1. CASE ReadExport(w)
  <2>1. CASE FinishJob(w)
    BY <1>1, <2>1, FinishKeepsReady DEF ReadExport, mishaps
  <2>2. CASE /\ ~AlreadyDone(export[build[w].job].status) /\ UNCHANGED queued
             /\ SetSlot(w, [build[w] EXCEPT !.pc = "run", !.row = export[build[w].job]])
    <3> DEFINE b == [build[w] EXCEPT !.pc = "run", !.row = export[build[w].job]]
    <3>1. /\ b \in Builds /\ b.job = build[w].job /\ b.run = build[w].run /\ b.job \in Jobs
          /\ SetSlot(w, b)
      BY <1>1, <2>2 DEF ReadExport, ExportTypes, Builds, Places
    <3> HIDE DEF b
    <3>2. build'[w] = b /\ \A v \in Slots \ {w} : build'[v] = build[v]
      BY <3>1, SlotTypes
    <3>3. UNCHANGED <<export, queued, asking, outlived>> /\ build[w].pc = "read"
      BY <1>1, <2>2 DEF ReadExport, mishaps
    <3>4. export[build[w].job].status # "READY"
      BY <2>2 DEF AlreadyDone
    <3>9. GoesOn(w)
      BY <3>1, <3>2, <3>3, <3>4 DEF GoesOn
    <3> QED BY <3>9, GoOnKeepsReady
  <2> QED BY <1>1, <2>1, <2>2 DEF ReadExport
<1>2. CASE RunExport(w) \/ MarkFailed(w)
  <2>1. PICK status \in {"RUNNING", "FAILED"}, pc \in {"build", "over"} :
          SetExport(build[w].job, status, export[build[w].job].key) /\ SlotTo(w, pc)
    BY <1>2 DEF RunExport, MarkFailed
  <2>2. build[w].pc # "free" /\ build[w].job \in Jobs /\ export[build[w].job].key \in FileKeys
    BY <1>2 DEF RunExport, MarkFailed, ExportTypes, ExportRows
  <2>3. pc \in Places /\ status \in ExportStatuses
    BY DEF Places, ExportStatuses
  <2>4. /\ build'[w].job = build[w].job /\ build'[w].run = build[w].run
        /\ \A v \in Slots \ {w} : build'[v] = build[v]
    BY <2>1, <2>2, <2>3, MoveTypes
  <2>5. /\ export'[build[w].job].status = status /\ \A i \in Jobs \ {build[w].job} : export'[i] = export[i]
    BY <2>1, <2>2, <2>3, RowTypes
  <2>6. UNCHANGED <<queued, asking, outlived>>
    BY <1>2 DEF RunExport, MarkFailed, mishaps
  <2>9. GoesOn(w)
    BY <2>2, <2>4, <2>5, <2>6 DEF GoesOn
  <2> QED BY <2>9, GoOnKeepsReady
<1>3. CASE BuildFile(w)
  <2> DEFINE b == [build[w] EXCEPT !.pc = "put", !.key = KeyFor(w)]
  <2>1. KeyFor(w) \in FileKeys
    BY <1>3 DEF BuildFile, KeyFor, ExportTypes, Builds, ExportRows, FileKeys
  <2>2. b \in Builds /\ b.job = build[w].job /\ b.run = build[w].run /\ b.job \in Jobs /\ SetSlot(w, b)
    BY <1>3, <2>1 DEF BuildFile, ExportTypes, Builds, Places
  <2> HIDE DEF b
  <2>3. build'[w] = b /\ \A v \in Slots \ {w} : build'[v] = build[v]
    BY <2>2, SlotTypes
  <2>4. UNCHANGED <<export, queued, asking, outlived>> /\ build[w].pc \in Writing /\ build[w].pc # "free"
    BY <1>3 DEF BuildFile, Writing, mishaps
  <2>5. build[w].job \notin outlived => export[build[w].job].status # "READY"
    BY <2>4 DEF NotYetReady
  <2>9. GoesOn(w)
    BY <2>2, <2>3, <2>4, <2>5 DEF GoesOn
  <2> QED BY <2>9, GoOnKeepsReady
<1>4. CASE PutFile(w) \/ BuildThrows(w)
  <2>1. PICK pc \in {"ready", "fail"} : SlotTo(w, pc)
    BY <1>4 DEF PutFile, BuildThrows
  <2>2. UNCHANGED <<export, queued, asking, outlived>> /\ build[w].pc \in Writing /\ build[w].pc # "free" /\ pc \in Places
    BY <1>4 DEF PutFile, BuildThrows, Writing, Places, mishaps
  <2>3. /\ build'[w].job = build[w].job /\ build'[w].run = build[w].run
        /\ \A v \in Slots \ {w} : build'[v] = build[v]
    BY <2>1, <2>2, MoveTypes
  <2>4. build[w].job \notin outlived => export[build[w].job].status # "READY"
    BY <2>2 DEF NotYetReady
  <2>9. GoesOn(w)
    BY <2>2, <2>3, <2>4 DEF GoesOn
  <2> QED BY <2>9, GoOnKeepsReady
<1>5. CASE MarkReady(w)
  <2>1. build[w].pc = "ready" /\ "over" \in Places /\ "READY" \in ExportStatuses /\ "over" \notin Writing
    BY <1>5 DEF MarkReady, Places, ExportStatuses, Writing
  <2>2. build[w].job \in Jobs /\ build[w].key \in FileKeys
    BY <2>1 DEF ExportTypes, Builds
  <2>3. /\ build'[w].pc = "over" /\ build'[w].job = build[w].job /\ build'[w].run = build[w].run
        /\ \A v \in Slots \ {w} : build'[v] = build[v]
    BY <1>5, <2>1, MoveTypes DEF MarkReady
  <2>4. /\ export'[build[w].job].status = "READY" /\ \A i \in Jobs \ {build[w].job} : export'[i] = export[i]
    BY <1>5, <2>1, <2>2, RowTypes DEF MarkReady
  <2>5. UNCHANGED <<queued, asking, outlived>>
    BY <1>5 DEF MarkReady, mishaps
  <2>9. GoesOn(w)
    BY <2>1, <2>2, <2>3, <2>4, <2>5 DEF GoesOn
  <2> QED BY <2>9, GoOnKeepsReady
<1>6. CASE Report(w)
  BY <1>6, FinishKeepsReady DEF Report, mishaps
<1> QED BY <1>1, <1>2, <1>3, <1>4, <1>5, <1>6 DEF WorkStep

LEMMA KeptStep == KeptInv /\ [ExportNext]_exportVars => KeptInv'
<1> SUFFICES ASSUME KeptInv, [ExportNext]_exportVars
             PROVE  KeptInv'
  OBVIOUS
<1>1. FileInv'
  BY FileStep DEF KeptInv
<1>2. CASE UNCHANGED exportVars
  BY <1>1, <1>2 DEF exportVars, KeptInv, HeldAlone, Holds, NotYetReady, QueuedOnce
<1>3. ASSUME NEW c \in Creators, CountPending(c) \/ EnqueueExport(c) \/ \E j \in Jobs : InsertExport(c, j)
      PROVE  KeptInv'
  BY <1>1, <1>3, ApiKeepsReady DEF KeptInv
<1>4. ASSUME NEW j \in Jobs, ExpireExport(j) \/ RecoverStalled(j)
      PROVE  KeptInv'
  BY <1>1, <1>4, QueueKeepsReady DEF KeptInv
<1>5. ASSUME NEW w \in Slots, (\E j \in Jobs : TakeJob(w, j)) \/ WorkerDies(w) \/ LockExpires(w)
      PROVE  KeptInv'
  BY <1>1, <1>5, SlotsKeepReady DEF KeptInv
<1>6. ASSUME NEW w \in Slots, WorkStep(w) \/ BuildThrows(w)
      PROVE  KeptInv'
  BY <1>1, <1>6, WorkKeepsReady DEF KeptInv
<1> QED BY <1>2, <1>3, <1>4, <1>5, <1>6 DEF ExportNext

ReadyStays == \A j \in Jobs \ outlived : export[j].status = "READY" => export'[j].status \in {"READY", "EXPIRED"}

\* The five statements that write a row.
LEMMA WritersKeepReady ==
  ASSUME KeptInv, NEW w \in Slots, WorkStep(w)
  PROVE  ReadyStays
<1> USE DEF KeptInv, FileInv
<1>1. CASE RunExport(w) \/ MarkFailed(w)
  <2>1. PICK status \in {"RUNNING", "FAILED"} : SetExport(build[w].job, status, export[build[w].job].key)
    BY <1>1 DEF RunExport, MarkFailed
  <2>2. build[w].pc \in Writing /\ build[w].job \in Jobs /\ export[build[w].job].key \in FileKeys
    BY <1>1 DEF RunExport, MarkFailed, Writing, ExportTypes, ExportRows
  <2>3. \A i \in Jobs \ {build[w].job} : export'[i] = export[i]
    BY <2>1, <2>2, RowTypes DEF ExportStatuses
  <2> QED BY <2>2, <2>3 DEF NotYetReady, ReadyStays
<1>2. CASE MarkReady(w)
  <2>1. build[w].job \in Jobs /\ build[w].key \in FileKeys /\ "READY" \in ExportStatuses
    BY <1>2 DEF MarkReady, ExportTypes, Builds, ExportStatuses
  <2>2. export'[build[w].job].status = "READY" /\ \A i \in Jobs \ {build[w].job} : export'[i] = export[i]
    BY <1>2, <2>1, RowTypes DEF MarkReady
  <2> QED BY <2>2 DEF ReadyStays
<1>3. CASE ReadExport(w) \/ BuildFile(w) \/ PutFile(w) \/ Report(w)
  BY <1>3 DEF ReadExport, BuildFile, PutFile, Report, ReadyStays
<1> QED BY <1>1, <1>2, <1>3 DEF WorkStep

LEMMA OthersKeepReady ==
  ASSUME KeptInv, ExportNext, ~\E w \in Slots : WorkStep(w)
  PROVE  ReadyStays
<1> USE DEF KeptInv, FileInv
<1>1. ASSUME NEW c \in Creators, CountPending(c) \/ EnqueueExport(c)
      PROVE  ReadyStays
  BY <1>1 DEF CountPending, EnqueueExport, ReadyStays
<1>2. ASSUME NEW c \in Creators, NEW j \in Jobs, InsertExport(c, j)
      PROVE  ReadyStays
  <2>1. export[j].status # "READY" /\ \A i \in Jobs \ {j} : export'[i] = export[i]
    BY <1>2 DEF InsertExport, NoExport, ExportTypes
  <2> QED BY <2>1 DEF ReadyStays
<1>3. ASSUME NEW j \in Jobs, ExpireExport(j)
      PROVE  ReadyStays
  <2>1. export'[j].status = "EXPIRED" /\ \A i \in Jobs \ {j} : export'[i] = export[i]
    BY <1>3 DEF ExpireExport, ExportTypes, ExportRows
  <2> QED BY <2>1 DEF ReadyStays
<1>4. ASSUME NEW j \in Jobs, RecoverStalled(j) \/ \E w \in Slots : TakeJob(w, j)
      PROVE  ReadyStays
  BY <1>4 DEF RecoverStalled, TakeJob, ReadyStays
<1>5. ASSUME NEW w \in Slots, BuildThrows(w) \/ WorkerDies(w) \/ LockExpires(w)
      PROVE  ReadyStays
  BY <1>5 DEF BuildThrows, WorkerDies, LockExpires, ReadyStays
<1> QED BY <1>1, <1>2, <1>3, <1>4, <1>5 DEF ExportNext

\* However often a job is handed out, whichever workers die and whatever throws:
\* no step takes a READY export back, unless its slot outlived its lock. The skip
\* of handleBuildExport is enough for one slot at a time, and the queue's lock
\* gives one slot at a time.
THEOREM ReadyLasts == ExportSpec => ReadyIsKept
<1>1. KeptInv /\ [ExportNext]_exportVars => [ReadyStays]_exportVars
  BY WritersKeepReady, OthersKeepReady
<1>2. ExportSpec => [][ReadyStays]_exportVars
  BY <1>1, KeptInit, KeptStep, PTL DEF ExportSpec
<1> QED BY <1>2 DEF ReadyIsKept, ReadyStays
=============================================================================
