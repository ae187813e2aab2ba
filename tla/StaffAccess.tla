----------------------------- MODULE StaffAccess ------------------------------
(* Staff: one administrator's sign-in with its lockout, and the time-boxed       *)
(* grants under which they may read one workspace's records.                     *)
EXTENDS Naturals, FiniteSets

CONSTANTS
  Desks,       \* requests the admin API serves at the same time
  Grants,      \* support_access_grants rows that may ever exist
  MaxMisses,   \* MAX_FAILED_ATTEMPTS of administrators
  MaxReads,    \* bound on the reads of customer records
  NoGrant

ASSUME StaffConstants == MaxMisses \in Nat \ {0} /\ MaxReads \in Nat /\ NoGrant \notin Grants

VARIABLES
  admin,     \* admin_users: enrolled, failedAttempts, lockedUntil in the future
  staff,     \* whether an admin_sessions row is live
  grant,     \* the row: scope, live (neither revoked nor expired), useCount
  desk,      \* what each request is doing, with the grant it found
  misses,    \* history: failed sign-ins since the last success or lock
  reads,     \* history: reads of customer records made under each grant
  stacked    \* history: two requests created their grants without seeing the other's

staffVars == <<admin, staff, grant, desk, misses, reads, stacked>>
custody == <<grant, reads, stacked>>

Scopes == {"VEHICLE_CONTENT", "DOCUMENTS", "FULL"}
NoGrantRow == [scope |-> "NONE", live |-> FALSE, uses |-> 0]
NewGrant(scope) == [scope |-> scope, live |-> TRUE, uses |-> 0]
AtRest == [pc |-> "rest", scope |-> "NONE", found |-> NoGrant, uses |-> 0, seen |-> {}]

StaffInit ==
  /\ admin = [active |-> FALSE, fails |-> 0, locked |-> FALSE]
  /\ staff = FALSE
  /\ grant = [g \in Grants |-> NoGrantRow]
  /\ desk = [d \in Desks |-> AtRest]
  /\ misses = 0
  /\ reads = [g \in Grants |-> 0]
  /\ stacked = FALSE

SetDesk(d, r) == desk' = [desk EXCEPT ![d] = r]
Leaves(d) == SetDesk(d, AtRest)

-----------------------------------------------------------------------------
(* login: password and code together; a failure is counted, then may lock.     *)

SignIn(d, right) ==
  /\ desk[d].pc = "rest" /\ ~admin.locked
  /\ SetDesk(d, [AtRest EXCEPT !.pc = IF right THEN "open" ELSE "count", !.uses = admin.fails])
  /\ UNCHANGED <<admin, staff, misses, custody>>

\* Counts at and past the limit are alike: the bound of this counter.
UpToLimit(n) == IF n > MaxMisses THEN MaxMisses ELSE n

OneMoreThanRead(d) == desk[d].uses + 1
OneMore(d) == admin.fails + 1

CountFailure(d) ==
  /\ desk[d].pc = "count"
  /\ admin' = [admin EXCEPT !.fails = UpToLimit(OneMore(d))]
  /\ misses' = UpToLimit(misses + 1)
  /\ IF OneMore(d) >= MaxMisses THEN SetDesk(d, [AtRest EXCEPT !.pc = "lock"]) ELSE Leaves(d)
  /\ UNCHANGED <<staff, custody>>

Lock(d) ==
  /\ desk[d].pc = "lock"
  /\ admin' = [admin EXCEPT !.locked = TRUE, !.fails = 0]
  /\ misses' = 0
  /\ Leaves(d)
  /\ UNCHANGED <<staff, custody>>

\* The session first, then the counters, and the enrolment a first sign-in completes.
OpenStaffSession(d) ==
  /\ desk[d].pc = "open"
  /\ staff' = TRUE
  /\ SetDesk(d, [AtRest EXCEPT !.pc = "clear"])
  /\ UNCHANGED <<admin, misses, custody>>

ClearFailures(d) ==
  /\ desk[d].pc = "clear"
  /\ admin' = [active |-> TRUE, fails |-> 0, locked |-> FALSE]
  /\ misses' = 0
  /\ Leaves(d)
  /\ UNCHANGED <<staff, custody>>

SignOut == staff /\ staff' = FALSE /\ UNCHANGED <<admin, desk, misses, custody>>

LockoutEnds ==
  /\ admin.locked /\ admin' = [admin EXCEPT !.locked = FALSE]
  /\ UNCHANGED <<staff, desk, misses, custody>>

-----------------------------------------------------------------------------
(* Grants: requested, used and revoked by signed-in staff.                     *)

SignedIn(d) == desk[d].pc = "rest" /\ staff /\ admin.active

OnlyFullCovers(scope, g) == grant[g].live /\ grant[g].scope = "FULL"
Covers(scope, g) == grant[g].live /\ (grant[g].scope = scope \/ grant[g].scope = "FULL")
Covering(scope) == {g \in Grants : Covers(scope, g)}
LiveGrants == {g \in Grants : grant[g].live}

\* A live grant that covers the scope is handed back instead of a new one.
RequestGrant(d, scope) ==
  /\ SignedIn(d) /\ Covering(scope) = {}
  /\ SetDesk(d, [AtRest EXCEPT !.pc = "grant", !.scope = scope, !.seen = LiveGrants])
  /\ UNCHANGED <<admin, staff, misses, grant, reads, stacked>>

CreateGrant(d, g) ==
  /\ desk[d].pc = "grant" /\ grant[g] = NoGrantRow
  /\ grant' = [grant EXCEPT ![g] = NewGrant(desk[d].scope)]
  /\ stacked' = (stacked \/ ~(Covering(desk[d].scope) \subseteq desk[d].seen))
  /\ Leaves(d)
  /\ UNCHANGED <<admin, staff, misses, reads>>

RevokeOrExpire(g) ==
  /\ grant[g].live
  /\ grant' = [grant EXCEPT ![g] = [@ EXCEPT !.live = FALSE]]
  /\ UNCHANGED <<admin, staff, misses, desk, reads, stacked>>

\* assertAccess: the gate, its count, and only then the read.
PassGate(d, scope) ==
  /\ SignedIn(d)
  /\ \E g \in Covering(scope) :
       /\ grant[g].uses < MaxReads
       /\ SetDesk(d, [AtRest EXCEPT !.pc = "use", !.found = g, !.uses = grant[g].uses])
  /\ UNCHANGED <<admin, staff, misses, grant, reads, stacked>>

CountedFromRead(d) == desk[d].uses + 1
Counted(d) == grant[desk[d].found].uses + 1

CountUse(d) ==
  /\ desk[d].pc = "use"
  /\ grant' = [grant EXCEPT ![desk[d].found] = [@ EXCEPT !.uses = Counted(d)]]
  /\ SetDesk(d, [AtRest EXCEPT !.pc = "read", !.found = desk[d].found])
  /\ UNCHANGED <<admin, staff, misses, reads, stacked>>

ReadRecords(d) ==
  /\ desk[d].pc = "read"
  /\ reads' = [reads EXCEPT ![desk[d].found] = @ + 1]
  /\ Leaves(d)
  /\ UNCHANGED <<admin, staff, misses, grant, stacked>>

StaffNext ==
  \/ \E d \in Desks :
       \/ CountFailure(d) \/ Lock(d) \/ OpenStaffSession(d) \/ ClearFailures(d) \/ CountUse(d)
       \/ ReadRecords(d)
       \/ \E right \in BOOLEAN : SignIn(d, right)
       \/ \E scope \in Scopes : RequestGrant(d, scope)
       \/ \E scope \in Scopes \ {"FULL"} : PassGate(d, scope)    \* vehicles, documents
       \/ \E g \in Grants : CreateGrant(d, g)
  \/ \E g \in Grants : RevokeOrExpire(g)
  \/ SignOut \/ LockoutEnds

StaffSpec == StaffInit /\ [][StaffNext]_staffVars

-----------------------------------------------------------------------------
(* Properties.                                                                 *)

\* Concurrent failures are not lost: after the limit of them with no success in
\* between the account is locked or being locked (recordFailure increments in the
\* database, unlike recordFailedAttempt of the customers' sign-in).
FailuresAreNotLost == misses >= MaxMisses => \E d \in Desks : desk[d].pc = "lock"

\* Every read of a customer's records shows in the grant's use count, also when
\* two of them pass the gate at once.
EveryReadIsCounted == \A g \in Grants : reads[g] <= grant[g].uses

\* "How long has this person had access?" has one answer: no two live grants of
\* one scope, unless two requests were created without seeing each other.
GrantsDoNotStack ==
  ~stacked => \A g, h \in LiveGrants : grant[g].scope = grant[h].scope => g = h

\* What staff did is accounted for: every failure, every read, every standing grant.
StaffSafe == FailuresAreNotLost /\ EveryReadIsCounted /\ GrantsDoNotStack
=============================================================================
