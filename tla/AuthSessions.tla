----------------------------- MODULE AuthSessions -----------------------------
(* One e-mail address: its account, its single-use tokens and its sessions.      *)
(* Sign-up, sign-in, verification and password reset each decide on a row they   *)
(* read earlier, and overlap.                                                    *)
EXTENDS Naturals, FiniteSets

CONSTANTS
  Callers,       \* requests the API serves at the same time
  Tokens,        \* token rows that may ever exist
  Tickets,       \* session rows that may ever exist
  MaxFails,      \* MAX_FAILED_ATTEMPTS
  MaxPasswords,  \* bound on the passwords ever set
  NoToken

ASSUME AuthConstants == MaxFails \in Nat \ {0} /\ MaxPasswords \in Nat /\ NoToken \notin Tokens

VARIABLES
  account,    \* the users row: password (0: no account), verified, failed attempts, locked
  token,      \* e-mail verification and password reset tokens
  session,    \* sessions: the password the caller had proved, and whether it was old by then
  caller,     \* what each request is doing, with the row it read
  reissued    \* history: kinds of token of which two were issued at once

authVars == <<account, token, session, caller, reissued>>

NoAccount == [password |-> 0, verified |-> FALSE, fails |-> 0, locked |-> FALSE]
BlankToken == [kind |-> "NONE", spent |-> FALSE]
BlankSession == [state |-> "NONE", proved |-> 0, late |-> FALSE]
Quiet == [pc |-> "rest", row |-> NoAccount, kind |-> "NONE", token |-> NoToken, seen |-> {}]

AuthInit ==
  /\ account = NoAccount
  /\ token = [t \in Tokens |-> BlankToken]
  /\ session = [s \in Tickets |-> BlankSession]
  /\ caller = [c \in Callers |-> Quiet]
  /\ reissued = {}

Calls(c, pc, k) == caller' = [caller EXCEPT ![c] = [k EXCEPT !.pc = pc]]
SignsIn(c) == Calls(c, "session", [Quiet EXCEPT !.row.password = caller[c].row.password])
Ends(c) == caller' = [caller EXCEPT ![c] = Quiet]
Enters(c, pc, k) == caller[c].pc = "rest" /\ Calls(c, pc, k)

Known == account.password # 0
Unspent(kind) == {t \in Tokens : token[t].kind = kind /\ ~token[t].spent}
Spent(ts) == [t \in Tokens |-> IF t \in ts THEN [token[t] EXCEPT !.spent = TRUE] ELSE token[t]]

-----------------------------------------------------------------------------
(* register: the account, its first verification token and its first session.  *)

Register(c) ==
  /\ ~Known /\ Enters(c, "create", [Quiet EXCEPT !.kind = "VERIFY"])
  /\ UNCHANGED <<account, token, session, reissued>>

\* The address is unique: the second of two registrations fails.
CreateAccount(c) ==
  /\ caller[c].pc = "create"
  /\ IF Known THEN Ends(c) /\ UNCHANGED account
     ELSE /\ account' = [NoAccount EXCEPT !.password = 1]
          /\ Calls(c, "issue", [caller[c] EXCEPT !.row.password = 1])
  /\ UNCHANGED <<token, session, reissued>>

\* A resent verification or a reset request: the account as it is now.
AskToken(c, kind) ==
  /\ Known /\ (kind = "VERIFY" => ~account.verified)
  /\ Enters(c, "issue", [Quiet EXCEPT !.kind = kind])
  /\ UNCHANGED <<account, token, session, reissued>>

\* The transaction spends the tokens it can see, then adds its own.
SeeOutstanding(c) ==
  /\ caller[c].pc = "issue"
  /\ Calls(c, "add", [caller[c] EXCEPT !.seen = Unspent(caller[c].kind)])
  /\ UNCHANGED <<account, token, session, reissued>>

OutstandingKept(c) == {}
Outstanding(c) == caller[c].seen

\* Whoever registered is signed in; the others are told to read their mail.
IssueToken(c, t) ==
  /\ caller[c].pc = "add" /\ token[t] = BlankToken
  /\ LET kind == caller[c].kind
     IN  /\ token' = [Spent(Outstanding(c)) EXCEPT ![t] = [kind |-> kind, spent |-> FALSE]]
         /\ reissued' = IF Unspent(kind) \subseteq caller[c].seen THEN reissued
                        ELSE reissued \cup {kind}
  /\ IF caller[c].row = NoAccount THEN Ends(c) ELSE SignsIn(c)
  /\ UNCHANGED <<account, session>>

-----------------------------------------------------------------------------
(* verifyEmail and resetPassword: the token is read, then spent.               *)

UseToken(c, t) ==
  /\ t \in Unspent("VERIFY") \cup Unspent("RESET")
  /\ Enters(c, IF token[t].kind = "VERIFY" THEN "verify" ELSE "reset", [Quiet EXCEPT !.token = t])
  /\ UNCHANGED <<account, token, session, reissued>>

Verify(c) ==
  /\ caller[c].pc = "verify"
  /\ token' = Spent({caller[c].token})
  /\ account' = [account EXCEPT !.verified = TRUE]
  /\ Ends(c)
  /\ UNCHANGED <<session, reissued>>

Revoked(S) == [s \in Tickets |-> IF s \in S THEN [session[s] EXCEPT !.state = "REVOKED"] ELSE session[s]]
RevokeNothing(c) == session
RevokeAll(c) == Revoked({s \in Tickets : session[s].state = "LIVE"})

ResetPassword(c) ==
  /\ caller[c].pc = "reset" /\ account.password < MaxPasswords
  /\ token' = Spent({caller[c].token} \cup Unspent("RESET"))
  /\ account' = [account EXCEPT !.password = @ + 1, !.fails = 0, !.locked = FALSE]
  /\ session' = RevokeAll(c)
  /\ Ends(c)
  /\ UNCHANGED reissued

TokenExpires(t) ==
  /\ t \in Unspent("VERIFY") \cup Unspent("RESET")
  /\ token' = Spent({t})
  /\ UNCHANGED <<account, session, caller, reissued>>

-----------------------------------------------------------------------------
(* login: the row is read, the password compared with it, and the row written. *)

LockUnread(row) == FALSE
LockedOut(row) == row.locked

Login(c, right) ==
  /\ Known
  /\ right => ~LockedOut(account)
  /\ Enters(c, IF right THEN "clear" ELSE "fail", [Quiet EXCEPT !.row = account])
  /\ UNCHANGED <<account, token, session, reissued>>

\* Counts at and past the limit are alike: the bound of this counter.
Capped(n) == IF n > MaxFails THEN MaxFails ELSE n

\* recordFailedAttempt: one more than the count that was read.
FailedAttempt(c) ==
  /\ caller[c].pc = "fail"
  /\ LET next == caller[c].row.fails + 1
     IN  account' = [account EXCEPT !.fails = Capped(next), !.locked = next >= MaxFails]
  /\ Ends(c)
  /\ UNCHANGED <<token, session, reissued>>

ClearAttempts(c) ==
  /\ caller[c].pc = "clear"
  /\ account' = [account EXCEPT !.fails = 0, !.locked = FALSE]
  /\ SignsIn(c)
  /\ UNCHANGED <<token, session, reissued>>

NewSession(proved) == [state |-> "LIVE", proved |-> proved, late |-> proved # account.password]

CreateSession(c, s) ==
  /\ caller[c].pc = "session" /\ session[s] = BlankSession
  /\ session' = [session EXCEPT ![s] = NewSession(caller[c].row.password)]
  /\ Ends(c)
  /\ UNCHANGED <<account, token, reissued>>

\* A sign-out, or thirty days.
EndSession(s) ==
  /\ session[s].state = "LIVE"
  /\ session' = Revoked({s})
  /\ UNCHANGED <<account, token, caller, reissued>>

LockExpires ==
  /\ account.locked
  /\ account' = [account EXCEPT !.locked = FALSE]
  /\ UNCHANGED <<token, session, caller, reissued>>

AuthNext ==
  \/ \E c \in Callers :
       \/ Register(c) \/ CreateAccount(c) \/ SeeOutstanding(c) \/ Verify(c) \/ ResetPassword(c)
       \/ FailedAttempt(c) \/ ClearAttempts(c)
       \/ \E kind \in {"VERIFY", "RESET"} : AskToken(c, kind)
       \/ \E t \in Tokens : IssueToken(c, t) \/ UseToken(c, t)
       \/ \E right \in BOOLEAN : Login(c, right)
       \/ \E s \in Tickets : CreateSession(c, s)
  \/ \E t \in Tokens : TokenExpires(t)
  \/ \E s \in Tickets : EndSession(s)
  \/ LockExpires

AuthSpec == AuthInit /\ [][AuthNext]_authVars

-----------------------------------------------------------------------------
(* Properties.                                                                 *)

\* After a reset nobody is signed in with the old password: a live session was
\* opened with the password of today, or by a request that had proved the old one
\* before the reset and stored its session after it (SECURITY.md 4).
SessionsAreCurrent ==
  \A s \in Tickets : session[s].state = "LIVE" => session[s].proved = account.password \/ session[s].late

\* A lock is lifted by its timer, by a reset, or by a request that read the
\* account before the lock was on; never by a sign-in that saw it, right or wrong.
LockHolds ==
  [][account.locked /\ ~account'.locked =>
       \/ UNCHANGED caller
       \/ \E c \in Callers : /\ caller'[c] # caller[c]
                             /\ caller[c].pc = "reset" \/ ~caller[c].row.locked]_authVars

\* Of each kind one token at most can be used, however often mails are asked for
\* again, unless two requests issued theirs without seeing the other's.
LatestTokenOnly ==
  \A kind \in {"VERIFY", "RESET"} \ reissued : Cardinality(Unspent(kind)) <= 1

\* What a mail and a session still open after a reset or a second request: only the last.
AccountsSafe == SessionsAreCurrent /\ LatestTokenOnly
=============================================================================
