---------------------------- MODULE AccountProofs ---------------------------
(* Any number of requests, tokens, sessions and grants: sessions and tokens of  *)
(* an account, the lock of its sign-in, what staff do to customers' records, what *)
(* a member's requests may do, and what a page shows after a save.               *)
EXTENDS MCDesk, TLAPS, FiniteSetTheorems

(* Accounts. Everything that lives before the account exists is blank, a live    *)
(* session was opened with the password of today or late, and what an issue did   *)
(* not see marks its kind.                                                       *)

UserRows == [password : Nat, verified : BOOLEAN, fails : Nat, locked : BOOLEAN]
Kinds == {"VERIFY", "RESET"}
TokenRows == [kind : Kinds \cup {"NONE"}, spent : BOOLEAN]
SessionRows == [state : {"NONE", "LIVE", "REVOKED"}, proved : Nat, late : BOOLEAN]
CallerSteps == {"rest", "create", "issue", "add", "verify", "reset", "clear", "fail", "session"}
CallerRows == [pc : CallerSteps, row : UserRows, kind : Kinds \cup {"NONE"},
               token : Tokens \cup {NoToken}, seen : SUBSET Tokens]

\* A lock comes with a full count of failures, also in a row read earlier.
LockIsEarned(row) == row.locked => row.fails >= MaxFails

AuthTypes ==
  /\ account \in UserRows /\ token \in [Tokens -> TokenRows]
  /\ session \in [Tickets -> SessionRows] /\ caller \in [Callers -> CallerRows]
  /\ LockIsEarned(account)
  /\ \A c \in Callers : /\ LockIsEarned(caller[c].row)
                        /\ caller[c].pc = "clear" => ~caller[c].row.locked

NothingBefore ==
  account.password = 0 => /\ account = NoAccount
                          /\ \A c \in Callers : caller[c].pc \in {"rest", "create"}
                          /\ \A s \in Tickets : session[s].state = "NONE"
                          /\ \A t \in Tokens : token[t].kind = "NONE"

OneToken == \A kind \in Kinds \ reissued : \A s, t \in Unspent(kind) : s = t

AuthInv == AuthTypes /\ NothingBefore /\ SessionsAreCurrent /\ OneToken

LEMMA Blanks ==
  /\ NoAccount \in UserRows /\ NoAccount.password = 0 /\ ~NoAccount.locked
  /\ BlankToken \in TokenRows /\ BlankToken.kind = "NONE"
  /\ BlankSession \in SessionRows /\ BlankSession.state = "NONE"
  /\ Quiet \in CallerRows /\ Quiet.pc = "rest" /\ Quiet.row = NoAccount
  /\ Quiet.seen = {} /\ Quiet.kind = "NONE" /\ Quiet.token = NoToken
BY DEF NoAccount, UserRows, BlankToken, TokenRows, BlankSession, SessionRows, Quiet, CallerRows, CallerSteps

LEMMA AuthInitial == AuthInit => AuthInv
<1> SUFFICES ASSUME AuthInit PROVE AuthInv
  OBVIOUS
<1>1. AuthTypes /\ NothingBefore
  BY Blanks DEF AuthInit, AuthTypes, NothingBefore, LockIsEarned
<1>2. SessionsAreCurrent /\ OneToken
  BY Blanks DEF AuthInit, SessionsAreCurrent, OneToken, Unspent, Kinds
<1> QED BY <1>1, <1>2 DEF AuthInv

\* A request that starts, goes on or ends, and what its record then is.
RequestOK(k) == /\ k \in CallerRows /\ LockIsEarned(k.row)
                /\ k.pc = "clear" => ~k.row.locked
                /\ k.pc \notin {"rest", "create"} => account'.password # 0

LEMMA CallerMoves ==
  ASSUME AuthInv, NEW c \in Callers, NEW k, RequestOK(k), caller' = [caller EXCEPT ![c] = k],
         account' \in UserRows, LockIsEarned(account)', account.password # 0 => account'.password # 0
  PROVE  /\ caller' \in [Callers -> CallerRows]
         /\ \A d \in Callers : /\ LockIsEarned(caller'[d].row)
                               /\ caller'[d].pc = "clear" => ~caller'[d].row.locked
         /\ account'.password = 0 => \A d \in Callers : caller'[d].pc \in {"rest", "create"}
<1>1. \A d \in Callers : caller'[d] = IF d = c THEN k ELSE caller[d]
  BY DEF AuthInv, AuthTypes
<1>2. caller' \in [Callers -> CallerRows]
  BY DEF AuthInv, AuthTypes, RequestOK
<1> QED BY <1>1, <1>2 DEF AuthInv, AuthTypes, NothingBefore, RequestOK

LEMMA MovedRequest ==
  ASSUME NEW k \in CallerRows, NEW pc \in CallerSteps
  PROVE  LET q == [k EXCEPT !.pc = pc]
         IN  /\ q \in CallerRows /\ q.pc = pc /\ q.row = k.row /\ q.kind = k.kind
             /\ q.token = k.token /\ q.seen = k.seen
BY DEF CallerRows

\* Tokens: only an issue makes one usable.
LEMMA SpentFacts ==
  ASSUME AuthInv, NEW ts
  PROVE  /\ Spent(ts) \in [Tokens -> TokenRows]
         /\ \A t \in Tokens : /\ Spent(ts)[t].kind = token[t].kind
                              /\ t \in ts => Spent(ts)[t].spent
                              /\ t \notin ts => Spent(ts)[t] = token[t]
                              /\ token[t].spent => Spent(ts)[t].spent
<1>1. ASSUME NEW t \in Tokens
      PROVE  LET r == [token[t] EXCEPT !.spent = TRUE]
             IN  r \in TokenRows /\ r.kind = token[t].kind /\ r.spent /\ token[t] \in TokenRows
  BY DEF AuthInv, AuthTypes, TokenRows
<1> QED BY <1>1 DEF Spent

LEMMA SpendingIsSafe ==
  ASSUME AuthInv, NEW ts, token' = Spent(ts), reissued' = reissued
  PROVE  OneToken' /\ token' \in [Tokens -> TokenRows] /\ \A t \in Tokens : token'[t].kind = token[t].kind
<1>1. \A kind : Unspent(kind)' \subseteq Unspent(kind)
  BY SpentFacts DEF Unspent
<1> QED BY <1>1, SpentFacts DEF AuthInv, OneToken

LEMMA RevokedFacts ==
  ASSUME AuthInv, NEW S
  PROVE  /\ Revoked(S) \in [Tickets -> SessionRows]
         /\ \A s \in Tickets : /\ s \in S => Revoked(S)[s].state = "REVOKED"
                               /\ s \notin S => Revoked(S)[s] = session[s]
<1>1. ASSUME NEW s \in Tickets
      PROVE  LET r == [session[s] EXCEPT !.state = "REVOKED"]
             IN  r \in SessionRows /\ r.state = "REVOKED" /\ session[s] \in SessionRows
  BY DEF AuthInv, AuthTypes, SessionRows
<1> QED BY <1>1 DEF Revoked

\* The parts of the invariant that a step of one request has to show.
LEMMA AuthParts ==
  ASSUME AuthInv, NEW c \in Callers, NEW k, RequestOK(k), caller' = [caller EXCEPT ![c] = k],
         account' \in UserRows, LockIsEarned(account)', account.password # 0 => account'.password # 0,
         account'.password = 0 => account' = account,
         token' \in [Tokens -> TokenRows], OneToken',
         account'.password = 0 => \A t \in Tokens : token'[t].kind = token[t].kind,
         session' \in [Tickets -> SessionRows], SessionsAreCurrent',
         account'.password = 0 => session' = session
  PROVE  AuthInv'
<1>1. /\ caller' \in [Callers -> CallerRows]
      /\ \A d \in Callers : /\ LockIsEarned(caller'[d].row)
                            /\ caller'[d].pc = "clear" => ~caller'[d].row.locked
      /\ account'.password = 0 => \A d \in Callers : caller'[d].pc \in {"rest", "create"}
  BY CallerMoves
<1>2. AuthTypes'
  BY <1>1 DEF AuthTypes, LockIsEarned
<1>3. account'.password = 0 => account.password = 0
  OBVIOUS
<1>4. NothingBefore'
  BY <1>1, <1>3 DEF NothingBefore, AuthInv
<1> QED BY <1>2, <1>4 DEF AuthInv

LEMMA OnlyCaller ==
  ASSUME AuthInv, NEW c \in Callers, NEW k, caller' = [caller EXCEPT ![c] = k],
         UNCHANGED <<account, token, session, reissued>>, RequestOK(k)
  PROVE  AuthInv'
<1>1. account \in UserRows /\ LockIsEarned(account) /\ token \in [Tokens -> TokenRows]
      /\ session \in [Tickets -> SessionRows] /\ OneToken /\ SessionsAreCurrent
  BY DEF AuthInv, AuthTypes
<1>2. OneToken' /\ SessionsAreCurrent'
  BY <1>1 DEF OneToken, Unspent, SessionsAreCurrent
<1> QED BY <1>1, <1>2, AuthParts DEF LockIsEarned

\* Of the account, everything but the password may change while sessions stay.
LEMMA SessionsStay ==
  ASSUME AuthInv, session' = session, account'.password = account.password
  PROVE  SessionsAreCurrent' /\ session' \in [Tickets -> SessionRows]
BY DEF AuthInv, AuthTypes, SessionsAreCurrent

LEMMA TokensStay ==
  ASSUME AuthInv, token' = token, reissued' = reissued
  PROVE  OneToken' /\ token' \in [Tokens -> TokenRows]
BY DEF AuthInv, AuthTypes, OneToken, Unspent

LEMMA QuietIsOK == RequestOK(Quiet)
BY Blanks DEF RequestOK, LockIsEarned

\* A signed-in caller's record keeps of the account only the password it proved.
LEMMA SigningIn ==
  ASSUME AuthInv, NEW c \in Callers, account'.password # 0, SignsIn(c)
  PROVE  \E k : RequestOK(k) /\ caller' = [caller EXCEPT ![c] = k] /\ k.pc = "session"
<1> DEFINE r == [Quiet.row EXCEPT !.password = caller[c].row.password]
           p == [Quiet EXCEPT !.row = r]
           q == [p EXCEPT !.pc = "session"]
<1>1. caller[c].row.password \in Nat
  BY DEF AuthInv, AuthTypes, CallerRows, UserRows
<1>2. r \in UserRows /\ ~r.locked
  BY <1>1, Blanks DEF UserRows
<1>3. Quiet \in CallerRows
  BY Blanks
<1>4. [Quiet EXCEPT !.row.password = caller[c].row.password] = p
  OBVIOUS
<1> HIDE DEF r
<1>5. p \in CallerRows /\ p.row = r
  BY <1>2, <1>3 DEF CallerRows
<1>6. caller' = [caller EXCEPT ![c] = q]
  BY <1>4 DEF SignsIn, Calls
<1> HIDE DEF p
<1>7. q \in CallerRows /\ q.row = r /\ q.pc = "session"
  BY <1>5 DEF CallerRows, CallerSteps
<1> HIDE DEF q
<1>8. RequestOK(q)
  BY <1>2, <1>7 DEF RequestOK, LockIsEarned
<1> QED BY <1>6, <1>7, <1>8

\* Fields of the account that a step writes without touching the password.
LEMMA AccountWrites ==
  ASSUME AuthInv
  PROVE  /\ [account EXCEPT !.verified = TRUE] \in UserRows
         /\ [account EXCEPT !.verified = TRUE].password = account.password
         /\ LockIsEarned([account EXCEPT !.verified = TRUE])
         /\ [account EXCEPT !.fails = 0, !.locked = FALSE] \in UserRows
         /\ [account EXCEPT !.fails = 0, !.locked = FALSE].password = account.password
         /\ LockIsEarned([account EXCEPT !.fails = 0, !.locked = FALSE])
         /\ [account EXCEPT !.locked = FALSE] \in UserRows
         /\ [account EXCEPT !.locked = FALSE].password = account.password
         /\ LockIsEarned([account EXCEPT !.locked = FALSE])
<1>1. account \in UserRows /\ LockIsEarned(account)
  BY DEF AuthInv, AuthTypes
<1> QED BY <1>1 DEF UserRows, LockIsEarned

\* A count that was one short of the limit, or more, locks: and no other does.
LEMMA FailureCounts ==
  ASSUME AuthInv, NEW c \in Callers
  PROVE  LET next == caller[c].row.fails + 1
             a == [account EXCEPT !.fails = Capped(next), !.locked = next >= MaxFails]
         IN  /\ a \in UserRows /\ a.password = account.password /\ LockIsEarned(a)
             /\ caller[c].row.locked => a.locked
<1> DEFINE next == caller[c].row.fails + 1
           a == [account EXCEPT !.fails = Capped(next), !.locked = next >= MaxFails]
<1>1. account \in UserRows /\ caller[c].row \in UserRows /\ LockIsEarned(caller[c].row)
  BY DEF AuthInv, AuthTypes, CallerRows
<1>2. next \in Nat /\ (caller[c].row.locked => next >= MaxFails)
  BY <1>1, AuthConstants DEF UserRows, LockIsEarned
<1> HIDE DEF next
<1>3. Capped(next) \in Nat /\ (next >= MaxFails => Capped(next) >= MaxFails) /\ (next >= MaxFails) \in BOOLEAN
  BY <1>2, AuthConstants DEF Capped
<1>4. /\ a \in UserRows /\ a.password = account.password /\ a.fails = Capped(next)
      /\ a.locked <=> next >= MaxFails
  BY <1>1, <1>3 DEF UserRows
<1>5. LockIsEarned(a) /\ (caller[c].row.locked => a.locked)
  BY <1>2, <1>3, <1>4 DEF LockIsEarned
<1> HIDE DEF a
<1>6. /\ a \in UserRows /\ a.password = account.password /\ LockIsEarned(a)
      /\ caller[c].row.locked => a.locked
  BY <1>4, <1>5
<1> QED BY <1>6 DEF a, next

LEMMA CallersRequests ==
  ASSUME AuthInv, NEW c \in Callers
  PROVE  /\ caller[c] \in CallerRows /\ LockIsEarned(caller[c].row)
         /\ account.password = 0 => caller[c].pc \in {"rest", "create"}
         /\ account \in UserRows /\ LockIsEarned(account)
BY DEF AuthInv, AuthTypes, NothingBefore

LEMMA EntersMoves ==
  ASSUME AuthInv, NEW c \in Callers, NEW pc \in CallerSteps, NEW k \in CallerRows, LockIsEarned(k.row),
         pc = "clear" => ~k.row.locked, pc \notin {"rest", "create"} => account.password # 0,
         Calls(c, pc, k), UNCHANGED <<account, token, session, reissued>>
  PROVE  AuthInv'
<1> DEFINE q == [k EXCEPT !.pc = pc]
<1>1. q \in CallerRows /\ q.pc = pc /\ q.row = k.row /\ caller' = [caller EXCEPT ![c] = q]
  BY MovedRequest DEF Calls
<1> HIDE DEF q
<1>2. RequestOK(q)
  BY <1>1 DEF RequestOK
<1> QED BY <1>1, <1>2, OnlyCaller

LEMMA AuthStep == AuthInv /\ [AuthNext]_authVars => AuthInv'
<1> SUFFICES ASSUME AuthInv, [AuthNext]_authVars PROVE AuthInv'
  OBVIOUS
<1>1. CASE UNCHANGED authVars
  BY <1>1 DEF authVars, AuthInv, AuthTypes, NothingBefore, SessionsAreCurrent, OneToken, Unspent, LockIsEarned
<1>2. ASSUME NEW c \in Callers, Register(c) PROVE AuthInv'
  <2> DEFINE k == [Quiet EXCEPT !.kind = "VERIFY"]
  <2>1. k \in CallerRows /\ k.row = NoAccount /\ Calls(c, "create", k)
    BY <1>2, Blanks DEF CallerRows, Kinds, Register, Enters
  <2> HIDE DEF k
  <2> QED BY <1>2, <2>1, Blanks, EntersMoves DEF CallerSteps, LockIsEarned, Register
<1>3. ASSUME NEW c \in Callers, CreateAccount(c) PROVE AuthInv'
  <2>1. CASE Known
    BY <1>3, <2>1, QuietIsOK, OnlyCaller DEF CreateAccount, Ends
  <2>2. CASE ~Known
    <3> DEFINE a == [NoAccount EXCEPT !.password = 1]
               r == [caller[c].row EXCEPT !.password = 1]
               p == [caller[c] EXCEPT !.row = r]
               q == [p EXCEPT !.pc = "issue"]
    <3>1. caller[c] \in CallerRows /\ LockIsEarned(caller[c].row)
      BY CallersRequests
    <3>2. r \in UserRows /\ LockIsEarned(r)
      BY <3>1 DEF CallerRows, UserRows, LockIsEarned
    <3>3. a \in UserRows /\ a.password # 0 /\ ~a.locked
      BY Blanks DEF UserRows
    <3>4. account' = a /\ caller' = [caller EXCEPT ![c] = q] /\ UNCHANGED <<token, session, reissued>>
      BY <1>3, <2>2 DEF CreateAccount, Calls
    <3> HIDE DEF a, r
    <3>5. p \in CallerRows /\ p.row = r
      BY <3>1, <3>2 DEF CallerRows
    <3> HIDE DEF p
    <3>6. q \in CallerRows /\ q.row = r /\ q.pc = "issue"
      BY <3>5 DEF CallerRows, CallerSteps
    <3> HIDE DEF q
    <3>7. RequestOK(q)
      BY <3>2, <3>3, <3>4, <3>6 DEF RequestOK
    <3>8. SessionsAreCurrent' /\ session' \in [Tickets -> SessionRows]
      BY <2>2, <3>4 DEF SessionsAreCurrent, AuthInv, AuthTypes, NothingBefore, Known
    <3> QED BY <3>3, <3>4, <3>7, <3>8, TokensStay, AuthParts DEF LockIsEarned
  <2> QED BY <2>1, <2>2
<1>4. ASSUME NEW c \in Callers, NEW kind \in Kinds, AskToken(c, kind) PROVE AuthInv'
  <2> DEFINE k == [Quiet EXCEPT !.kind = kind]
  <2>1. k \in CallerRows /\ k.row = NoAccount /\ Calls(c, "issue", k)
    BY <1>4, Blanks DEF CallerRows, AskToken, Enters
  <2> HIDE DEF k
  <2> QED BY <1>4, <2>1, Blanks, EntersMoves DEF CallerSteps, LockIsEarned, AskToken, Known
<1>5. ASSUME NEW c \in Callers, SeeOutstanding(c) PROVE AuthInv'
  <2> DEFINE k == [caller[c] EXCEPT !.seen = Unspent(caller[c].kind)]
  <2>1. caller[c] \in CallerRows /\ LockIsEarned(caller[c].row) /\ account.password # 0
    BY <1>5, CallersRequests DEF SeeOutstanding
  <2>2. Unspent(caller[c].kind) \in SUBSET Tokens
    BY DEF Unspent
  <2>3. k \in CallerRows /\ k.row = caller[c].row /\ Calls(c, "add", k)
    BY <1>5, <2>1, <2>2 DEF CallerRows, SeeOutstanding
  <2> HIDE DEF k
  <2> QED BY <1>5, <2>1, <2>3, EntersMoves DEF CallerSteps, SeeOutstanding
<1>6. ASSUME NEW c \in Callers, NEW t \in Tokens, IssueToken(c, t) PROVE AuthInv'
  <2>1. PICK kind : kind = caller[c].kind
    OBVIOUS
  <2>2. PICK ts : ts = caller[c].seen
    OBVIOUS
  <2>3. /\ token[t] = BlankToken /\ token' = [Spent(ts) EXCEPT ![t] = [kind |-> kind, spent |-> FALSE]]
        /\ reissued' = IF Unspent(kind) \subseteq ts THEN reissued ELSE reissued \cup {kind}
        /\ UNCHANGED <<account, session>>
    BY <1>6, <2>1, <2>2 DEF IssueToken, Outstanding
  <2>4. /\ caller[c] \in CallerRows /\ account.password # 0 /\ account \in UserRows /\ LockIsEarned(account)
    BY <1>6, CallersRequests DEF IssueToken
  <2>5. [kind |-> kind, spent |-> FALSE] \in TokenRows
    BY <2>1, <2>4 DEF CallerRows, TokenRows
  <2>6. /\ token' \in [Tokens -> TokenRows] /\ token'[t].kind = kind
        /\ \A s \in Tokens \ {t} : token'[s] = Spent(ts)[s]
    BY <2>3, <2>5, SpentFacts
  <2>7. OneToken'
    <3> SUFFICES ASSUME NEW other \in Kinds, other \notin reissued',
                        NEW s \in Unspent(other)', NEW x \in Unspent(other)'
                 PROVE  s = x
      BY DEF OneToken
    <3>1. other \notin reissued
      BY <2>3
    <3>2. \A y \in Tokens \ {t} : y \in Unspent(other)' => y \in Unspent(other) /\ y \notin ts
      BY <2>6, SpentFacts DEF Unspent
    <3>3. s \in Tokens /\ x \in Tokens
      BY DEF Unspent
    <3>4. CASE other = kind
      <4>1. Unspent(other) \subseteq ts
        BY <2>3, <3>4
      <4> QED BY <3>2, <3>3, <4>1
    <3>5. CASE other # kind
      <4>1. t \notin Unspent(other)'
        BY <2>6, <3>5 DEF Unspent
      <4> QED BY <3>1, <3>2, <3>3, <4>1 DEF AuthInv, OneToken
    <3> QED BY <3>4, <3>5
  <2>8. SessionsAreCurrent' /\ session' \in [Tickets -> SessionRows]
    BY <2>3, SessionsStay
  <2>9. PICK k : RequestOK(k) /\ caller' = [caller EXCEPT ![c] = k]
    BY <1>6, <2>3, <2>4, QuietIsOK, SigningIn DEF IssueToken, Ends
  <2> QED BY <2>3, <2>4, <2>6, <2>7, <2>8, <2>9, AuthParts DEF LockIsEarned
<1>7. ASSUME NEW c \in Callers, NEW t \in Tokens, UseToken(c, t) PROVE AuthInv'
  <2> DEFINE k == [Quiet EXCEPT !.token = t]
  <2>1. PICK pc \in {"verify", "reset"} : Calls(c, pc, k)
    BY <1>7 DEF UseToken, Enters
  <2>2. k \in CallerRows /\ k.row = NoAccount
    BY Blanks DEF CallerRows
  <2> HIDE DEF k
  <2>3. account.password # 0
    BY <1>7 DEF UseToken, Unspent, AuthInv, NothingBefore
  <2> QED BY <1>7, <2>1, <2>2, <2>3, Blanks, EntersMoves DEF CallerSteps, LockIsEarned, UseToken
<1>8. ASSUME NEW c \in Callers, Verify(c) PROVE AuthInv'
  <2>1. /\ account' \in UserRows /\ account'.password = account.password /\ LockIsEarned(account)'
        /\ account.password # 0
    BY <1>8, AccountWrites, CallersRequests DEF Verify, LockIsEarned
  <2>2. OneToken' /\ token' \in [Tokens -> TokenRows]
    BY <1>8, SpendingIsSafe DEF Verify
  <2>3. SessionsAreCurrent' /\ session' \in [Tickets -> SessionRows]
    BY <1>8, <2>1, SessionsStay DEF Verify
  <2> QED BY <1>8, <2>1, <2>2, <2>3, QuietIsOK, AuthParts DEF Verify, Ends
<1>9. ASSUME NEW c \in Callers, ResetPassword(c) PROVE AuthInv'
  <2> DEFINE p == account.password + 1
             a == [account EXCEPT !.password = p, !.fails = 0, !.locked = FALSE]
  <2>1. account' = a
    BY <1>9 DEF ResetPassword
  <2>2. a \in UserRows /\ a.password # 0 /\ ~a.locked
    <3>1. account \in UserRows
      BY DEF AuthInv, AuthTypes
    <3>2. p \in Nat /\ p # 0
      BY <3>1 DEF UserRows
    <3> HIDE DEF p
    <3> QED BY <3>1, <3>2 DEF UserRows
  <2> HIDE DEF a
  <2>3. OneToken' /\ token' \in [Tokens -> TokenRows]
    BY <1>9, SpendingIsSafe DEF ResetPassword
  <2>4. SessionsAreCurrent' /\ session' \in [Tickets -> SessionRows]
    BY <1>9, RevokedFacts DEF ResetPassword, RevokeAll, SessionsAreCurrent
  <2> QED BY <1>9, <2>1, <2>2, <2>3, <2>4, QuietIsOK, AuthParts DEF ResetPassword, Ends, LockIsEarned
<1>10. ASSUME NEW t \in Tokens, TokenExpires(t) PROVE AuthInv'
  <2>1. /\ OneToken' /\ token' \in [Tokens -> TokenRows] /\ \A s \in Tokens : token'[s].kind = token[s].kind
    BY <1>10, SpendingIsSafe DEF TokenExpires
  <2> QED BY <1>10, <2>1 DEF TokenExpires, AuthInv, AuthTypes, NothingBefore, SessionsAreCurrent, LockIsEarned
<1>11. ASSUME NEW c \in Callers, NEW right \in BOOLEAN, Login(c, right) PROVE AuthInv'
  <2> DEFINE k == [Quiet EXCEPT !.row = account]
  <2>1. PICK pc \in {"clear", "fail"} : Calls(c, pc, k) /\ (pc = "clear" => ~account.locked)
    BY <1>11 DEF Login, Enters, LockedOut
  <2>2. account \in UserRows /\ LockIsEarned(account) /\ account.password # 0
    BY <1>11, CallersRequests DEF Login, Known
  <2>3. k \in CallerRows /\ k.row = account
    BY <2>2, Blanks DEF CallerRows
  <2> HIDE DEF k
  <2> QED BY <1>11, <2>1, <2>2, <2>3, EntersMoves DEF CallerSteps, Login
<1>12. ASSUME NEW c \in Callers, FailedAttempt(c) PROVE AuthInv'
  <2>1. /\ account' \in UserRows /\ account'.password = account.password /\ LockIsEarned(account)'
        /\ account.password # 0
    BY <1>12, FailureCounts, CallersRequests DEF FailedAttempt, LockIsEarned
  <2>2. /\ SessionsAreCurrent' /\ session' \in [Tickets -> SessionRows]
        /\ OneToken' /\ token' \in [Tokens -> TokenRows]
    BY <1>12, <2>1, SessionsStay, TokensStay DEF FailedAttempt
  <2> QED BY <1>12, <2>1, <2>2, QuietIsOK, AuthParts DEF FailedAttempt, Ends
<1>13. ASSUME NEW c \in Callers, ClearAttempts(c) PROVE AuthInv'
  <2>1. /\ account' \in UserRows /\ account'.password = account.password /\ LockIsEarned(account)'
        /\ account.password # 0
    BY <1>13, AccountWrites, CallersRequests DEF ClearAttempts, LockIsEarned
  <2>2. /\ SessionsAreCurrent' /\ session' \in [Tickets -> SessionRows]
        /\ OneToken' /\ token' \in [Tokens -> TokenRows]
    BY <1>13, <2>1, SessionsStay, TokensStay DEF ClearAttempts
  <2>3. PICK k : RequestOK(k) /\ caller' = [caller EXCEPT ![c] = k]
    BY <1>13, <2>1, SigningIn DEF ClearAttempts
  <2> QED BY <2>1, <2>2, <2>3, AuthParts
<1>14. ASSUME NEW c \in Callers, NEW s \in Tickets, CreateSession(c, s) PROVE AuthInv'
  <2>1. PICK new : new = NewSession(caller[c].row.password)
    OBVIOUS
  <2>2. caller[c].row.password \in Nat /\ account.password # 0 /\ account \in UserRows /\ LockIsEarned(account)
    BY <1>14, CallersRequests DEF CreateSession, CallerRows, UserRows
  <2>3. new \in SessionRows /\ (new.proved = account.password \/ new.late)
    BY <2>1, <2>2 DEF NewSession, SessionRows
  <2>4. session' = [session EXCEPT ![s] = new] /\ UNCHANGED <<account, token, reissued>>
    BY <1>14, <2>1 DEF CreateSession
  <2>5. SessionsAreCurrent' /\ session' \in [Tickets -> SessionRows]
    BY <2>3, <2>4 DEF AuthInv, AuthTypes, SessionsAreCurrent
  <2> QED BY <1>14, <2>2, <2>4, <2>5, QuietIsOK, TokensStay, AuthParts DEF CreateSession, Ends, LockIsEarned
<1>15. ASSUME NEW s \in Tickets, EndSession(s) PROVE AuthInv'
  <2>1. /\ session' \in [Tickets -> SessionRows]
        /\ \A x \in Tickets : session'[x].state = "LIVE" => session'[x] = session[x]
    BY <1>15, RevokedFacts DEF EndSession
  <2>2. account.password # 0
    BY <1>15 DEF EndSession, AuthInv, NothingBefore
  <2>3. UNCHANGED <<account, token, caller, reissued>>
    BY <1>15 DEF EndSession
  <2>4. AuthTypes'
    BY <2>1, <2>3 DEF AuthInv, AuthTypes, LockIsEarned
  <2>5. NothingBefore' /\ SessionsAreCurrent'
    BY <2>1, <2>2, <2>3 DEF AuthInv, NothingBefore, SessionsAreCurrent
  <2>6. OneToken'
    BY <2>3, TokensStay
  <2> QED BY <2>4, <2>5, <2>6 DEF AuthInv
<1>16. CASE LockExpires
  <2>1. account' \in UserRows /\ account'.password = account.password /\ LockIsEarned(account)'
    BY <1>16, AccountWrites DEF LockExpires, LockIsEarned
  <2>2. account.password # 0
    BY <1>16, Blanks DEF LockExpires, AuthInv, NothingBefore
  <2> QED BY <1>16, <2>1, <2>2 DEF LockExpires, AuthInv, AuthTypes, NothingBefore, SessionsAreCurrent,
        LockIsEarned, OneToken, Unspent
<1> QED BY <1>1, <1>2, <1>3, <1>4, <1>5, <1>6, <1>7, <1>8, <1>9, <1>10, <1>11, <1>12, <1>13, <1>14, <1>15,
       <1>16 DEF AuthNext, Kinds

LEMMA AuthAlways == AuthSpec => []AuthInv
BY AuthInitial, AuthStep, PTL DEF AuthSpec

\* After a reset nobody stays signed in with the old password, except through a
\* request that had proved it before and stored its session after; and of each
\* kind one token at most can be used, unless two were issued without either
\* request seeing the other's.
LEMMA CustomersStaySafe == AuthSpec => []AccountsSafe
<1>1. ASSUME AuthInv, NEW kind \in Kinds \ reissued
      PROVE  Cardinality(Unspent(kind)) <= 1
  <2>1. Unspent(kind) = {} \/ \E t : Unspent(kind) = {t}
    <3>1. \A s, t \in Unspent(kind) : s = t
      BY <1>1 DEF AuthInv, OneToken
    <3> QED BY <3>1
  <2>2. CASE Unspent(kind) = {}
    <3>1. Cardinality({}) = 0
      BY FS_EmptySet
    <3> QED BY <2>2, <3>1
  <2>3. CASE \E t : Unspent(kind) = {t}
    <3>1. PICK t : Unspent(kind) = {t}
      BY <2>3
    <3>2. Cardinality({t}) = 1
      BY FS_Singleton
    <3> QED BY <3>1, <3>2
  <2> QED BY <2>1, <2>2, <2>3
<1>2. AuthInv => AccountsSafe
  BY <1>1 DEF AuthInv, AccountsSafe, LatestTokenOnly, Kinds
<1> QED BY <1>2, AuthAlways, PTL

\* No sign-in that read the lock ends it, neither a right one nor a wrong one
\* that writes the count it read: only the timer, a reset, or a request that read
\* the account before the lock was on.
THEOREM LocksHold == AuthSpec => LockHolds
<1> DEFINE Lifted == account.locked /\ ~account'.locked =>
             \/ UNCHANGED caller
             \/ \E c \in Callers : /\ caller'[c] # caller[c]
                                   /\ caller[c].pc = "reset" \/ ~caller[c].row.locked
<1>1. AuthInv /\ [AuthNext]_authVars => Lifted
  <2> SUFFICES ASSUME AuthInv, [AuthNext]_authVars, account.locked, ~account'.locked
               PROVE  \/ UNCHANGED caller
                      \/ \E c \in Callers : /\ caller'[c] # caller[c]
                                            /\ caller[c].pc = "reset" \/ ~caller[c].row.locked
    OBVIOUS
  <2>1. ASSUME NEW c \in Callers, CreateAccount(c) PROVE FALSE
    <3>1. account = NoAccount \/ account' = account
      BY <2>1 DEF CreateAccount, Known, AuthInv, NothingBefore
    <3> QED BY <3>1, Blanks
  <2>2. ASSUME NEW c \in Callers, ResetPassword(c)
        PROVE  caller'[c] # caller[c] /\ caller[c].pc = "reset"
    BY <2>2, Blanks DEF ResetPassword, Ends, AuthInv, AuthTypes
  <2>3. ASSUME NEW c \in Callers, ClearAttempts(c)
        PROVE  caller'[c] # caller[c] /\ ~caller[c].row.locked
    <3>1. account.password # 0
      BY <2>3, CallersRequests DEF ClearAttempts
    <3>2. account'.password # 0
      BY <2>3, <3>1, AccountWrites DEF ClearAttempts
    <3>3. PICK k : caller' = [caller EXCEPT ![c] = k] /\ k.pc = "session"
      BY <2>3, <3>2, SigningIn DEF ClearAttempts
    <3> QED BY <2>3, <3>3 DEF ClearAttempts, AuthInv, AuthTypes
  <2>4. ASSUME NEW c \in Callers, FailedAttempt(c)
        PROVE  caller'[c] # caller[c] /\ ~caller[c].row.locked
    BY <2>4, FailureCounts, Blanks DEF FailedAttempt, Ends, AuthInv, AuthTypes
  <2>5. ASSUME NEW c \in Callers, Verify(c) PROVE FALSE
    <3>1. account \in UserRows
      BY DEF AuthInv, AuthTypes
    <3> QED BY <2>5, <3>1 DEF Verify, UserRows
  <2>6. ASSUME NEW c \in Callers, \/ Register(c) \/ SeeOutstanding(c)
                                  \/ \E kind \in Kinds : AskToken(c, kind)
                                  \/ \E t \in Tokens : IssueToken(c, t) \/ UseToken(c, t)
                                  \/ \E right \in BOOLEAN : Login(c, right)
                                  \/ \E s \in Tickets : CreateSession(c, s)
        PROVE  FALSE
    BY <2>6 DEF Register, SeeOutstanding, AskToken, IssueToken, UseToken, Login, CreateSession
  <2>7. ASSUME NEW t \in Tokens, TokenExpires(t) PROVE FALSE
    BY <2>7 DEF TokenExpires
  <2>8. ASSUME NEW s \in Tickets, EndSession(s) PROVE FALSE
    BY <2>8 DEF EndSession
  <2>9. LockExpires \/ UNCHANGED authVars => UNCHANGED caller
    BY DEF LockExpires, authVars
  <2> QED BY <2>1, <2>2, <2>3, <2>4, <2>5, <2>6, <2>7, <2>8, <2>9 DEF AuthNext, Kinds
<1>2. AuthInv /\ [AuthNext]_authVars
        => [account.locked /\ ~account'.locked =>
              \/ UNCHANGED caller
              \/ \E c \in Callers : /\ caller'[c] # caller[c]
                                    /\ caller[c].pc = "reset" \/ ~caller[c].row.locked]_authVars
  BY <1>1
<1> QED BY <1>2, AuthAlways, PTL DEF AuthSpec, LockHolds

----------------------------------------------------------------------------
(* Staff. The database's own count is never behind the failures that happened;   *)
(* a gate counts before its read; a live grant that was seen does not cover what *)
(* is being asked for.                                                            *)

GrantRows == [scope : Scopes \cup {"NONE"}, live : BOOLEAN, uses : Nat]
DeskSteps == {"rest", "open", "clear", "count", "lock", "grant", "use", "read"}
DeskRows == [pc : DeskSteps, scope : Scopes \cup {"NONE"}, found : Grants \cup {NoGrant}, uses : Nat,
             seen : SUBSET Grants]

StaffTypes ==
  /\ admin \in [active : BOOLEAN, fails : 0..MaxMisses, locked : BOOLEAN]
  /\ grant \in [Grants -> GrantRows] /\ desk \in [Desks -> DeskRows]
  /\ misses \in 0..MaxMisses /\ reads \in [Grants -> Nat] /\ stacked \in BOOLEAN
  /\ \A d \in Desks : desk[d].pc \in {"use", "read"} => desk[d].found \in Grants
  /\ \A g \in Grants : grant[g].live => grant[g].scope \in Scopes

\* Nobody's failure is overwritten by a count that was read earlier.
MissesCount == /\ misses <= admin.fails
               /\ admin.fails >= MaxMisses => \E d \in Desks : desk[d].pc = "lock"

\* The requests that passed a grant's gate and have not read yet.
Reading(g) == {d \in Desks : desk[d].pc = "read" /\ desk[d].found = g}
UsesCover == \A g \in Grants : /\ IsFiniteSet(Reading(g))
                               /\ reads[g] + Cardinality(Reading(g)) <= grant[g].uses

\* What was seen of the grants before one is created goes on not covering it.
SeenCannotServe(d) == desk[d].pc = "grant" =>
  /\ desk[d].scope \in Scopes
  /\ \A g \in desk[d].seen : grant[g].scope \notin {"NONE", "FULL", desk[d].scope}

StaffInv == /\ StaffTypes /\ MissesCount /\ UsesCover
            /\ \A d \in Desks : SeenCannotServe(d)
            /\ GrantsDoNotStack

LEMMA StaffBlanks ==
  /\ AtRest \in DeskRows /\ AtRest.pc = "rest" /\ AtRest.found = NoGrant
  /\ NoGrantRow \in GrantRows /\ ~NoGrantRow.live /\ NoGrantRow.uses = 0 /\ NoGrantRow.scope = "NONE"
BY DEF AtRest, DeskRows, DeskSteps, NoGrantRow, GrantRows

LEMMA StaffInitial == StaffInit => StaffInv
<1> SUFFICES ASSUME StaffInit PROVE StaffInv
  OBVIOUS
<1>1. StaffTypes
  <2>1. 0 \in 0..MaxMisses
    BY StaffConstants
  <2>2. admin \in [active : BOOLEAN, fails : 0..MaxMisses, locked : BOOLEAN] /\ misses \in 0..MaxMisses
    BY <2>1 DEF StaffInit
  <2>3. grant \in [Grants -> GrantRows] /\ reads \in [Grants -> Nat] /\ stacked \in BOOLEAN
    BY StaffBlanks DEF StaffInit
  <2>4. desk \in [Desks -> DeskRows]
    BY StaffBlanks DEF StaffInit
  <2> QED BY <2>2, <2>3, <2>4, StaffBlanks DEF StaffInit, StaffTypes
<1>2. MissesCount
  BY StaffConstants DEF StaffInit, MissesCount
<1>3. UsesCover
  <2>1. ASSUME NEW g \in Grants PROVE Reading(g) = {} /\ reads[g] = 0 /\ grant[g].uses = 0
    BY StaffBlanks DEF StaffInit, Reading
  <2>2. IsFiniteSet({}) /\ Cardinality({}) = 0
    BY FS_EmptySet
  <2> QED BY <2>1, <2>2 DEF UsesCover
<1>4. (\A d \in Desks : SeenCannotServe(d)) /\ GrantsDoNotStack
  BY StaffBlanks DEF StaffInit, SeenCannotServe, GrantsDoNotStack, LiveGrants
<1> QED BY <1>1, <1>2, <1>3, <1>4 DEF StaffInv

\* A desk that moves without reading, and the others as they were.
DeskMoves(d, k) == /\ desk' = [desk EXCEPT ![d] = k] /\ k \in DeskRows
                   /\ k.pc \in {"use", "read"} => k.found \in Grants

LEMMA DesksTyped ==
  ASSUME StaffInv, NEW d \in Desks, NEW k, DeskMoves(d, k)
  PROVE  /\ desk' \in [Desks -> DeskRows] /\ desk'[d] = k
         /\ \A e \in Desks \ {d} : desk'[e] = desk[e]
         /\ \A e \in Desks : desk'[e].pc \in {"use", "read"} => desk'[e].found \in Grants
BY DEF StaffInv, StaffTypes, DeskMoves

LEMMA ReadersStay ==
  ASSUME StaffInv, NEW d \in Desks, NEW k, DeskMoves(d, k), desk[d].pc # "read", k.pc # "read",
         UNCHANGED reads, \A g \in Grants : grant'[g].uses = grant[g].uses
  PROVE  UsesCover'
<1>1. ASSUME NEW g \in Grants PROVE Reading(g)' = Reading(g)
  BY DesksTyped DEF Reading
<1> QED BY <1>1 DEF StaffInv, UsesCover

\* Steps of the sign-in: nothing of the grants moves.
LEMMA SignInSteps ==
  ASSUME StaffInv, NEW d \in Desks, NEW k, DeskMoves(d, k), UNCHANGED <<grant, reads, stacked>>,
         desk[d].pc # "read", k.pc \notin {"read", "grant"},
         admin' \in [active : BOOLEAN, fails : 0..MaxMisses, locked : BOOLEAN], misses' \in 0..MaxMisses,
         MissesCount'
  PROVE  StaffInv'
<1>1. StaffTypes'
  BY DesksTyped DEF StaffInv, StaffTypes
<1>2. UsesCover'
  BY ReadersStay
<1>3. (\A e \in Desks : SeenCannotServe(e))'
  BY DesksTyped DEF StaffInv, SeenCannotServe
<1>4. GrantsDoNotStack'
  BY DEF StaffInv, GrantsDoNotStack, LiveGrants
<1> QED BY <1>1, <1>2, <1>3, <1>4 DEF StaffInv

LEMMA CountsTyped ==
  ASSUME StaffInv
  PROVE  /\ admin.fails \in 0..MaxMisses /\ misses \in 0..MaxMisses /\ MaxMisses \in Nat \ {0}
         /\ UpToLimit(admin.fails + 1) \in 0..MaxMisses /\ UpToLimit(misses + 1) \in 0..MaxMisses
         /\ misses <= admin.fails => UpToLimit(misses + 1) <= UpToLimit(admin.fails + 1)
         /\ UpToLimit(admin.fails + 1) >= MaxMisses => admin.fails + 1 >= MaxMisses
<1>1. admin.fails \in 0..MaxMisses /\ misses \in 0..MaxMisses /\ MaxMisses \in Nat \ {0}
  BY StaffConstants DEF StaffInv, StaffTypes
<1> QED BY <1>1 DEF UpToLimit

LEMMA StaffStep == StaffInv /\ [StaffNext]_staffVars => StaffInv'
<1> SUFFICES ASSUME StaffInv, [StaffNext]_staffVars PROVE StaffInv'
  OBVIOUS
<1> DEFINE Admins == [active : BOOLEAN, fails : 0..MaxMisses, locked : BOOLEAN]
<1>0. StaffTypes /\ MissesCount /\ admin \in Admins /\ \A d \in Desks : desk[d] \in DeskRows
  BY DEF StaffInv, StaffTypes
<1>1. CASE UNCHANGED staffVars
  BY <1>1 DEF staffVars, custody, StaffInv, StaffTypes, MissesCount, UsesCover, Reading, SeenCannotServe,
     GrantsDoNotStack, LiveGrants
\* The sign-in.
<1>2. ASSUME NEW d \in Desks, NEW k, DeskMoves(d, k), desk[d].pc \notin {"read", "lock"},
             k.pc \notin {"read", "grant"}, UNCHANGED <<admin, misses, custody>>
      PROVE  StaffInv'
  <2>1. MissesCount'
    BY <1>0, <1>2, DesksTyped DEF MissesCount
  <2> QED BY <1>0, <1>2, <2>1, SignInSteps DEF StaffTypes, custody
<1>3. ASSUME NEW d \in Desks, NEW right \in BOOLEAN, SignIn(d, right) PROVE StaffInv'
  <2>1. PICK pc \in {"open", "count"} : SetDesk(d, [AtRest EXCEPT !.pc = pc, !.uses = admin.fails])
    BY <1>3 DEF SignIn
  <2>2. admin.fails \in Nat
    BY CountsTyped
  <2> DEFINE k == [AtRest EXCEPT !.pc = pc, !.uses = admin.fails]
  <2>3. k \in DeskRows /\ k.pc = pc
    BY <2>2, StaffBlanks DEF DeskRows, DeskSteps
  <2>4. desk' = [desk EXCEPT ![d] = k]
    BY <2>1 DEF SetDesk
  <2> HIDE DEF k
  <2>5. DeskMoves(d, k)
    BY <2>3, <2>4 DEF DeskMoves
  <2> QED BY <1>2, <1>3, <2>3, <2>5 DEF SignIn
<1>4. ASSUME NEW d \in Desks, CountFailure(d) PROVE StaffInv'
  <2>1. PICK pc \in {"lock", "rest"} :
          /\ DeskMoves(d, [AtRest EXCEPT !.pc = pc])
          /\ admin.fails + 1 >= MaxMisses => pc = "lock"
    <3>1. CASE SetDesk(d, [AtRest EXCEPT !.pc = "lock"])
      BY <3>1, StaffBlanks DEF SetDesk, DeskMoves, DeskRows, DeskSteps
    <3>2. CASE Leaves(d) /\ ~(admin.fails + 1 >= MaxMisses)
      <4>1. [AtRest EXCEPT !.pc = "rest"] = AtRest
        BY StaffBlanks DEF DeskRows
      <4> QED BY <3>2, <4>1, StaffBlanks DEF Leaves, SetDesk, DeskMoves
    <3> QED BY <1>4, <3>1, <3>2 DEF CountFailure, OneMore
  <2> DEFINE k == [AtRest EXCEPT !.pc = pc]
  <2>2. k.pc = pc
    BY StaffBlanks DEF DeskRows, DeskSteps
  <2> HIDE DEF k
  <2>3. /\ admin' = [admin EXCEPT !.fails = UpToLimit(admin.fails + 1)] /\ misses' = UpToLimit(misses + 1)
        /\ desk[d].pc = "count" /\ UNCHANGED custody
    BY <1>4 DEF CountFailure, OneMore
  <2>4. admin' \in Admins /\ admin'.fails = UpToLimit(admin.fails + 1) /\ misses' \in 0..MaxMisses
    BY <1>0, <2>3, CountsTyped
  <2>5. desk'[d] = k
    BY <2>1, DesksTyped DEF k
  <2>6. misses' <= admin'.fails
    BY <1>0, <2>3, <2>4, CountsTyped DEF MissesCount
  <2>7. admin'.fails >= MaxMisses => desk'[d].pc = "lock"
    BY <2>1, <2>2, <2>4, <2>5, CountsTyped
  <2>8. MissesCount'
    BY <2>6, <2>7 DEF MissesCount
  <2>9. UNCHANGED <<grant, reads, stacked>>
    BY <2>3 DEF custody
  <2>10. DeskMoves(d, k)
    BY <2>1 DEF k
  <2> QED BY <2>2, <2>3, <2>4, <2>8, <2>9, <2>10, SignInSteps
<1>5. ASSUME NEW d \in Desks, Lock(d) \/ ClearFailures(d) PROVE StaffInv'
  <2>1. admin' \in Admins /\ admin'.fails = 0 /\ misses' = 0
    <3>1. 0 \in 0..MaxMisses
      BY StaffConstants
    <3>2. CASE Lock(d)
      BY <1>0, <3>1, <3>2 DEF Lock
    <3>3. CASE ClearFailures(d)
      BY <3>1, <3>3 DEF ClearFailures
    <3> QED BY <1>5, <3>2, <3>3
  <2>2. MissesCount' /\ misses' \in 0..MaxMisses
    BY <2>1, StaffConstants DEF MissesCount
  <2>3. DeskMoves(d, AtRest) /\ UNCHANGED <<grant, reads, stacked>> /\ desk[d].pc \in {"lock", "clear"}
    BY <1>5, StaffBlanks DEF Lock, ClearFailures, Leaves, SetDesk, DeskMoves, custody
  <2> QED BY <2>1, <2>2, <2>3, StaffBlanks, SignInSteps
<1>6. ASSUME NEW d \in Desks, OpenStaffSession(d) PROVE StaffInv'
  <2>1. DeskMoves(d, [AtRest EXCEPT !.pc = "clear"]) /\ [AtRest EXCEPT !.pc = "clear"].pc = "clear"
    BY <1>6, StaffBlanks DEF OpenStaffSession, SetDesk, DeskMoves, DeskRows, DeskSteps
  <2> QED BY <1>2, <1>6, <2>1 DEF OpenStaffSession
<1>7. ASSUME UNCHANGED <<desk, misses, custody>>, admin' \in Admins, admin'.fails = admin.fails
      PROVE  StaffInv'
  BY <1>7 DEF custody, StaffInv, StaffTypes, MissesCount, UsesCover, Reading, SeenCannotServe,
     GrantsDoNotStack, LiveGrants
<1>8. CASE SignOut \/ LockoutEnds
  BY <1>0, <1>7, <1>8 DEF SignOut, LockoutEnds
\* The grants.
<1>9. ASSUME NEW d \in Desks, NEW scope \in Scopes, RequestGrant(d, scope) PROVE StaffInv'
  <2> DEFINE k == [AtRest EXCEPT !.pc = "grant", !.scope = scope, !.seen = LiveGrants]
  <2>1. LiveGrants \in SUBSET Grants
    BY DEF LiveGrants
  <2>2. k \in DeskRows /\ k.pc = "grant" /\ k.scope = scope /\ k.seen = LiveGrants
    BY <2>1, StaffBlanks DEF DeskRows, DeskSteps
  <2>3. desk' = [desk EXCEPT ![d] = k] /\ UNCHANGED <<admin, misses, grant, reads, stacked>> /\ desk[d].pc = "rest"
    BY <1>9 DEF RequestGrant, SetDesk, SignedIn
  <2> HIDE DEF k
  <2>4. DeskMoves(d, k)
    BY <2>2, <2>3 DEF DeskMoves
  <2>5. \A g \in LiveGrants : grant[g].scope \notin {"NONE", "FULL", scope}
    BY <1>0, <1>9 DEF RequestGrant, Covering, Covers, LiveGrants, StaffTypes, Scopes
  <2>6. (\A e \in Desks : SeenCannotServe(e))'
    BY <2>2, <2>3, <2>4, <2>5, DesksTyped DEF StaffInv, SeenCannotServe
  <2>7. UsesCover'
    BY <2>2, <2>3, <2>4, ReadersStay
  <2>8. StaffTypes' /\ MissesCount'
    BY <1>0, <2>3, <2>4, DesksTyped DEF StaffTypes, MissesCount
  <2>9. GrantsDoNotStack'
    BY <2>3 DEF StaffInv, GrantsDoNotStack, LiveGrants
  <2> QED BY <2>6, <2>7, <2>8, <2>9 DEF StaffInv
<1>10. ASSUME NEW d \in Desks, NEW g \in Grants, CreateGrant(d, g) PROVE StaffInv'
  <2>1. PICK scope : scope = desk[d].scope
    OBVIOUS
  <2>2. /\ desk[d].pc = "grant" /\ scope \in Scopes /\ grant[g] = NoGrantRow
        /\ \A h \in desk[d].seen : grant[h].scope \notin {"NONE", "FULL", scope}
    BY <1>10, <2>1 DEF CreateGrant, StaffInv, SeenCannotServe
  <2>3. NewGrant(scope) \in GrantRows /\ NewGrant(scope).scope = scope /\ NewGrant(scope).uses = 0
    BY <2>2 DEF NewGrant, GrantRows
  <2>4. /\ grant' = [grant EXCEPT ![g] = NewGrant(scope)] /\ UNCHANGED <<admin, misses, reads>>
        /\ DeskMoves(d, AtRest) /\ stacked' = (stacked \/ ~(Covering(scope) \subseteq desk[d].seen))
    BY <1>10, <2>1, StaffBlanks DEF CreateGrant, Leaves, SetDesk, DeskMoves
  <2>5. /\ grant' \in [Grants -> GrantRows] /\ grant'[g] = NewGrant(scope)
        /\ \A h \in Grants \ {g} : grant'[h] = grant[h]
    BY <1>0, <2>3, <2>4 DEF StaffTypes
  <2>6. \A h \in Grants : grant'[h].uses = grant[h].uses
    BY <2>2, <2>3, <2>5, StaffBlanks
  <2>7. UsesCover'
    BY <2>2, <2>4, <2>6, StaffBlanks, ReadersStay
  <2>8. StaffTypes'
    BY <1>0, <2>2, <2>3, <2>4, <2>5, DesksTyped DEF StaffTypes
  <2>9. MissesCount'
    BY <1>0, <2>2, <2>4, DesksTyped DEF MissesCount
  <2>10. ASSUME NEW e \in Desks PROVE SeenCannotServe(e)'
    <3>1. CASE e = d
      BY <2>4, <3>1, StaffBlanks, DesksTyped DEF SeenCannotServe
    <3>2. CASE e # d
      <4>1. desk'[e] = desk[e] /\ SeenCannotServe(e) /\ desk[e].seen \subseteq Grants
        BY <1>0, <2>4, <3>2, DesksTyped DEF StaffInv, DeskRows
      <4>2. desk[e].pc = "grant" => g \notin desk[e].seen
        BY <2>2, <4>1, StaffBlanks DEF SeenCannotServe
      <4> QED BY <2>5, <4>1, <4>2 DEF SeenCannotServe
    <3> QED BY <3>1, <3>2
  <2>11. GrantsDoNotStack'
    <3> SUFFICES ASSUME ~stacked', NEW x \in LiveGrants', NEW y \in LiveGrants', grant'[x].scope = grant'[y].scope
                 PROVE  x = y
      BY DEF GrantsDoNotStack
    <3>1. Covering(scope) \subseteq desk[d].seen
      BY <2>4
    <3>2. ~stacked
      BY <2>4
    <3>3. \A h \in LiveGrants : grant[h].scope # scope
      BY <2>2, <3>1 DEF Covering, Covers, LiveGrants
    <3>4. x \in Grants /\ y \in Grants
      BY DEF LiveGrants
    <3>5. \A h \in Grants \ {g} : h \in LiveGrants' => h \in LiveGrants
      BY <2>5 DEF LiveGrants
    <3> QED BY <2>3, <2>5, <3>2, <3>3, <3>4, <3>5 DEF StaffInv, GrantsDoNotStack
  <2> QED BY <2>7, <2>8, <2>9, <2>10, <2>11 DEF StaffInv
<1>11. ASSUME NEW g \in Grants, RevokeOrExpire(g) PROVE StaffInv'
  <2> DEFINE r == [grant[g] EXCEPT !.live = FALSE]
  <2>1. grant[g] \in GrantRows
    BY <1>0 DEF StaffTypes
  <2>2. r \in GrantRows /\ r.scope = grant[g].scope /\ r.uses = grant[g].uses /\ ~r.live
    BY <2>1 DEF GrantRows
  <2>3. grant' = [grant EXCEPT ![g] = r] /\ UNCHANGED <<admin, misses, desk, reads, stacked>>
    BY <1>11 DEF RevokeOrExpire
  <2> HIDE DEF r
  <2>4. /\ grant' \in [Grants -> GrantRows]
        /\ \A h \in Grants : /\ grant'[h].scope = grant[h].scope /\ grant'[h].uses = grant[h].uses
                             /\ grant'[h].live => grant[h].live
    BY <1>0, <2>2, <2>3 DEF StaffTypes
  <2>5. StaffTypes' /\ MissesCount'
    BY <1>0, <2>3, <2>4 DEF StaffTypes, MissesCount
  <2>6. UsesCover'
    BY <2>3, <2>4 DEF StaffInv, UsesCover, Reading
  <2>7. \A d \in Desks : desk[d].seen \subseteq Grants
    BY <1>0 DEF DeskRows
  <2>8. (\A d \in Desks : SeenCannotServe(d))'
    BY <2>3, <2>4, <2>7 DEF StaffInv, SeenCannotServe
  <2>9. GrantsDoNotStack'
    BY <2>3, <2>4 DEF StaffInv, GrantsDoNotStack, LiveGrants
  <2> QED BY <2>5, <2>6, <2>8, <2>9 DEF StaffInv
<1>12. ASSUME NEW d \in Desks, NEW scope \in Scopes, PassGate(d, scope) PROVE StaffInv'
  <2>1. PICK g \in Grants : SetDesk(d, [AtRest EXCEPT !.pc = "use", !.found = g, !.uses = grant[g].uses])
    BY <1>12 DEF PassGate, Covering
  <2> DEFINE k == [AtRest EXCEPT !.pc = "use", !.found = g, !.uses = grant[g].uses]
  <2>2. grant[g].uses \in Nat
    BY <1>0 DEF StaffTypes, GrantRows
  <2>3. k \in DeskRows /\ k.pc = "use" /\ k.found = g
    BY <2>2, StaffBlanks DEF DeskRows, DeskSteps
  <2>4. desk' = [desk EXCEPT ![d] = k] /\ UNCHANGED <<admin, misses, custody>> /\ desk[d].pc = "rest"
    BY <1>12, <2>1 DEF PassGate, SetDesk, SignedIn, custody
  <2> HIDE DEF k
  <2>5. DeskMoves(d, k)
    BY <2>3, <2>4 DEF DeskMoves
  <2> QED BY <1>2, <2>3, <2>4, <2>5
\* A use is counted before its read, and the count is taken in the database.
<1>13. ASSUME NEW d \in Desks, CountUse(d) PROVE StaffInv'
  <2>1. PICK g \in Grants : g = desk[d].found
    BY <1>0, <1>13 DEF CountUse, StaffTypes
  <2> DEFINE k == [AtRest EXCEPT !.pc = "read", !.found = g]
             n == grant[g].uses + 1
             r == [grant[g] EXCEPT !.uses = n]
  <2>2. k \in DeskRows /\ k.pc = "read" /\ k.found = g
    BY StaffBlanks DEF DeskRows, DeskSteps
  <2>3. grant[g] \in GrantRows
    BY <1>0 DEF StaffTypes
  <2>4. n \in Nat
    BY <2>3 DEF GrantRows
  <2>5. /\ desk[d].pc = "use" /\ desk' = [desk EXCEPT ![d] = k] /\ grant' = [grant EXCEPT ![g] = r]
        /\ UNCHANGED <<admin, misses, reads, stacked>>
    BY <1>13, <2>1 DEF CountUse, SetDesk, Counted
  <2> HIDE DEF k
  <2>6. r \in GrantRows /\ r.scope = grant[g].scope /\ r.live = grant[g].live /\ r.uses = grant[g].uses + 1
    <3> HIDE DEF n
    <3>1. r \in GrantRows /\ r.scope = grant[g].scope /\ r.live = grant[g].live /\ r.uses = n
      BY <2>3, <2>4 DEF GrantRows
    <3> QED BY <3>1 DEF n
  <2> HIDE DEF r
  <2>7. DeskMoves(d, k)
    BY <2>2, <2>5 DEF DeskMoves
  <2>8. /\ grant' \in [Grants -> GrantRows] /\ grant'[g].uses = grant[g].uses + 1
        /\ \A h \in Grants \ {g} : grant'[h] = grant[h]
        /\ \A h \in Grants : grant'[h].scope = grant[h].scope /\ grant'[h].live = grant[h].live
    BY <1>0, <2>5, <2>6 DEF StaffTypes
  <2>9. StaffTypes' /\ MissesCount'
    BY <1>0, <2>5, <2>7, <2>8, DesksTyped DEF StaffTypes, MissesCount
  <2>10. ASSUME NEW h \in Grants
         PROVE  IsFiniteSet(Reading(h)') /\ reads'[h] + Cardinality(Reading(h)') <= grant'[h].uses
    <3>1. IsFiniteSet(Reading(h)) /\ reads[h] + Cardinality(Reading(h)) <= grant[h].uses
      BY DEF StaffInv, UsesCover
    <3>2. CASE h # g
      <4>1. Reading(h)' = Reading(h)
        BY <2>2, <2>5, <2>7, <3>2, DesksTyped DEF Reading
      <4> QED BY <2>5, <2>8, <3>1, <3>2, <4>1
    <3>3. CASE h = g
      <4>1. Reading(h)' = Reading(h) \cup {d} /\ d \notin Reading(h)
        BY <2>2, <2>5, <2>7, <3>3, DesksTyped DEF Reading
      <4>2. /\ IsFiniteSet(Reading(h) \cup {d})
            /\ Cardinality(Reading(h) \cup {d}) = Cardinality(Reading(h)) + 1
        BY <3>1, <4>1, FS_AddElement
      <4>3. Cardinality(Reading(h)) \in Nat /\ reads[h] \in Nat /\ grant[h].uses \in Nat
        BY <1>0, <3>1, FS_CardinalityType DEF StaffTypes, GrantRows
      <4>4. reads'[h] = reads[h] /\ grant'[h].uses = grant[h].uses + 1
        BY <2>5, <2>8, <3>3
      <4> QED BY <3>1, <4>1, <4>2, <4>3, <4>4
    <3> QED BY <3>2, <3>3
  <2>11. \A e \in Desks : desk[e].seen \subseteq Grants
    BY <1>0 DEF DeskRows
  <2>12. (\A e \in Desks : SeenCannotServe(e))'
    BY <2>2, <2>7, <2>8, <2>11, DesksTyped DEF StaffInv, SeenCannotServe
  <2>13. GrantsDoNotStack'
    BY <2>5, <2>8 DEF StaffInv, GrantsDoNotStack, LiveGrants
  <2>14. UsesCover'
    BY <2>10 DEF UsesCover
  <2> QED BY <2>9, <2>12, <2>13, <2>14 DEF StaffInv
<1>14. ASSUME NEW d \in Desks, ReadRecords(d) PROVE StaffInv'
  <2>1. PICK g \in Grants : g = desk[d].found
    BY <1>0, <1>14 DEF ReadRecords, StaffTypes
  <2>2. /\ desk[d].pc = "read" /\ DeskMoves(d, AtRest) /\ reads' = [reads EXCEPT ![g] = reads[g] + 1]
        /\ UNCHANGED <<admin, misses, grant, stacked>>
    BY <1>14, <2>1, StaffBlanks DEF ReadRecords, Leaves, SetDesk, DeskMoves
  <2>3. reads[g] \in Nat /\ reads \in [Grants -> Nat]
    BY <1>0 DEF StaffTypes
  <2>4. reads' \in [Grants -> Nat] /\ reads'[g] = reads[g] + 1 /\ \A h \in Grants \ {g} : reads'[h] = reads[h]
    BY <2>2, <2>3
  <2>5. StaffTypes' /\ MissesCount'
    BY <1>0, <2>2, <2>4, DesksTyped DEF StaffTypes, MissesCount
  <2>6. ASSUME NEW h \in Grants
        PROVE  IsFiniteSet(Reading(h)') /\ reads'[h] + Cardinality(Reading(h)') <= grant'[h].uses
    <3>1. IsFiniteSet(Reading(h)) /\ reads[h] + Cardinality(Reading(h)) <= grant[h].uses
      BY DEF StaffInv, UsesCover
    <3>2. CASE h # g
      <4>1. Reading(h)' = Reading(h)
        BY <2>1, <2>2, <3>2, StaffBlanks, DesksTyped DEF Reading
      <4> QED BY <2>2, <2>4, <3>1, <3>2, <4>1
    <3>3. CASE h = g
      <4>1. Reading(h)' = Reading(h) \ {d} /\ d \in Reading(h)
        BY <2>1, <2>2, <3>3, StaffBlanks, DesksTyped DEF Reading
      <4>2. IsFiniteSet(Reading(h) \ {d}) /\ Cardinality(Reading(h) \ {d}) = Cardinality(Reading(h)) - 1
        BY <3>1, <4>1, FS_RemoveElement
      <4>3. Cardinality(Reading(h)) \in Nat /\ reads[h] \in Nat /\ grant[h].uses \in Nat
        BY <1>0, <3>1, FS_CardinalityType DEF StaffTypes, GrantRows
      <4> QED BY <2>2, <2>4, <3>1, <3>3, <4>1, <4>2, <4>3
    <3> QED BY <3>2, <3>3
  <2>7. (\A e \in Desks : SeenCannotServe(e))'
    BY <2>2, StaffBlanks, DesksTyped DEF StaffInv, SeenCannotServe
  <2>8. GrantsDoNotStack'
    BY <2>2 DEF StaffInv, GrantsDoNotStack, LiveGrants
  <2>9. UsesCover'
    BY <2>6 DEF UsesCover
  <2> QED BY <2>5, <2>7, <2>8, <2>9 DEF StaffInv
<1> HIDE DEF Admins
<1> QED BY <1>1, <1>3, <1>4, <1>5, <1>6, <1>8, <1>9, <1>10, <1>11, <1>12, <1>13, <1>14 DEF StaffNext

\* Whatever the staff's requests overlap with: no failed sign-in is lost to the
\* lockout, every read of a customer's records is counted in its grant before it
\* happens, and two live grants of one scope need two requests that did not see
\* each other's.
LEMMA StaffAccountable == StaffSpec => []StaffSafe
<1>1. ASSUME StaffInv PROVE FailuresAreNotLost
  <2>1. misses <= admin.fails /\ admin.fails \in Nat /\ misses \in Nat /\ MaxMisses \in Nat
    BY <1>1, CountsTyped DEF StaffInv, MissesCount
  <2>2. misses >= MaxMisses => admin.fails >= MaxMisses
    BY <2>1
  <2> QED BY <1>1, <2>2 DEF StaffInv, MissesCount, FailuresAreNotLost
<1>2. ASSUME StaffInv PROVE EveryReadIsCounted
  <2> SUFFICES ASSUME NEW g \in Grants PROVE reads[g] <= grant[g].uses
    BY DEF EveryReadIsCounted
  <2>1. IsFiniteSet(Reading(g)) /\ reads[g] + Cardinality(Reading(g)) <= grant[g].uses
    BY <1>2 DEF StaffInv, UsesCover
  <2>2. Cardinality(Reading(g)) \in Nat /\ reads[g] \in Nat /\ grant[g].uses \in Nat
    BY <1>2, <2>1, FS_CardinalityType DEF StaffInv, StaffTypes, GrantRows
  <2> QED BY <2>1, <2>2
<1>3. StaffInv => StaffSafe
  BY <1>1, <1>2 DEF StaffInv, StaffSafe
<1> QED BY <1>3, StaffInitial, StaffStep, PTL DEF StaffSpec

(* Requests. The table of routes holds the promises made of the roles group by    *)
(* group, so it holds them joined; the role a request was let in with is among     *)
(* those its caller held meanwhile.                                              *)

\* The writes that only those may make who may manage members or remove for good.
Managed == {"members.updateRole", "members.remove", "members.transfer", "members.list",
            "invitations.list", "invitations.create", "invitations.revoke",
            "vehicles.remove", "vehicles.restore", "documents.remove"}
ViewerRights == ReaderRights \cup {"expense:read", "report:read", "none"}

\* What a write must be, given the permission that it asks for.
Fair(n, needs) ==
  /\ needs \in ViewerRights => n \in Own
  /\ needs = "odometer:write" => n = "vehicles.addOdometer"
  /\ needs = "fuel:write" => n \in {"fuel.create", "fuel.update", "fuel.remove"}
  /\ needs \in EditorRights \cup {"none"} => n \notin Managed
FairTable(f) == \A n \in DOMAIN f : f[n].writes => Fair(n, f[n].needs)

LEMMA TableFacts ==
  ASSUME NEW groups
  PROVE  /\ DOMAIN Table(groups) = UNION {DOMAIN g : g \in groups}
         /\ \A n \in DOMAIN Table(groups) : \E g \in groups : n \in DOMAIN g /\ Table(groups)[n] = g[n]
BY DEF Table

LEMMA FairTogether ==
  ASSUME NEW groups, \A g \in groups : FairTable(g)
  PROVE  FairTable(Table(groups))
BY TableFacts DEF FairTable

LEMMA GroupFacts ==
  ASSUME NEW needs, NEW names
  PROVE  /\ FairTable(Reads(needs, names))
         /\ (\A n \in names : Fair(n, needs)) => FairTable(Writes(needs, names))
         /\ DOMAIN Reads(needs, names) = names /\ DOMAIN Writes(needs, names) = names
BY DEF FairTable, Reads, Writes

LEMMA FuelNames == {"fuel.create", "fuel.update", "fuel.remove"} \subseteq DOMAIN FuelRoutes
<1> DEFINE fills == Writes("fuel:write", {"fuel.create", "fuel.update", "fuel.remove"})
           others == Reads("vehicle:read", {"fuel.list", "fuel.economy", "fuel.trend"})
<1>1. DOMAIN fills = {"fuel.create", "fuel.update", "fuel.remove"}
  BY GroupFacts
<1>2. FuelRoutes = Table({others, fills})
  BY DEF FuelRoutes
<1> HIDE DEF fills, others
<1>3. DOMAIN fills \subseteq UNION {DOMAIN g : g \in {others, fills}}
  OBVIOUS
<1> QED BY <1>1, <1>2, <1>3, TableFacts

LEMMA MemberNames == DOMAIN MemberRoutes \ {"members.leave"} \subseteq Managed
<1> SUFFICES ASSUME NEW n \in DOMAIN MemberRoutes PROVE n = "members.leave" \/ n \in Managed
  OBVIOUS
<1>1. /\ DOMAIN Reads("workspace:read", {"members.list"}) = {"members.list"}
      /\ DOMAIN Reads("member:invite", {"invitations.list"}) = {"invitations.list"}
      /\ DOMAIN Writes("member:update_role", {"members.updateRole"}) = {"members.updateRole"}
      /\ DOMAIN Writes("member:remove", {"members.remove"}) = {"members.remove"}
      /\ DOMAIN Writes("workspace:read", {"members.leave"}) = {"members.leave"}
      /\ DOMAIN Writes("workspace:update", {"members.transfer"}) = {"members.transfer"}
      /\ DOMAIN Writes("member:invite", {"invitations.create", "invitations.revoke"}) =
           {"invitations.create", "invitations.revoke"}
  BY GroupFacts
<1> QED BY <1>1, TableFacts DEF MemberRoutes, Managed

LEMMA MembersFair == FairTable(MemberRoutes)
<1>1. /\ FairTable(Writes("member:update_role", {"members.updateRole"}))
      /\ FairTable(Writes("member:remove", {"members.remove"}))
      /\ FairTable(Writes("workspace:update", {"members.transfer"}))
      /\ FairTable(Writes("member:invite", {"invitations.create", "invitations.revoke"}))
      /\ FairTable(Writes("workspace:read", {"members.leave"}))
  BY GroupFacts DEF Fair, ViewerRights, ReaderRights, EditorRights, Own, Managed
<1> QED BY <1>1, FairTogether, GroupFacts DEF MemberRoutes

LEMMA RoutesFair == FairTable(Routes)
<1> USE DEF Fair, ViewerRights, ReaderRights, EditorRights, Own, Managed
<1>1. FairTable(WorkspaceRoutes) /\ FairTable(ReportRoutes)
  BY GroupFacts DEF WorkspaceRoutes, ReportRoutes
<1>2. FairTable(VehicleRoutes)
  <2>1. /\ FairTable(Writes("vehicle:create", {"vehicles.create"}))
        /\ FairTable(Writes("odometer:write", {"vehicles.addOdometer"}))
        /\ FairTable(Writes("vehicle:update", {"vehicles.status"}))
        /\ FairTable(Writes("vehicle:delete", {"vehicles.remove", "vehicles.restore"}))
    BY GroupFacts
  <2> HIDE DEF Fair
  <2> QED BY <2>1, FairTogether, GroupFacts DEF VehicleRoutes
<1>3. FairTable(ServiceRoutes) /\ FairTable(MaintenanceRoutes)
  <2>1. /\ FairTable(Writes("service:write", {"services.create", "services.update", "services.remove"}))
        /\ FairTable(Writes("reminder:manage", {"maintenance.create", "maintenance.template",
                       "maintenance.update", "maintenance.remove", "maintenance.complete"}))
    BY GroupFacts
  <2> HIDE DEF Fair
  <2>2. FairTable(ServiceRoutes)
    BY <2>1, FairTogether, GroupFacts DEF ServiceRoutes
  <2>3. FairTable(MaintenanceRoutes)
    BY <2>1, FairTogether, GroupFacts DEF MaintenanceRoutes
  <2> QED BY <2>2, <2>3
<1>4. FairTable(ReminderRoutes) /\ FairTable(FuelRoutes)
  <2>1. /\ FairTable(Writes("reminder:manage", {"reminders.snooze", "reminders.dismiss", "reminders.complete"}))
        /\ FairTable(Writes("fuel:write", {"fuel.create", "fuel.update", "fuel.remove"}))
    BY GroupFacts
  <2> HIDE DEF Fair
  <2>2. FairTable(ReminderRoutes)
    BY <2>1, FairTogether, GroupFacts DEF ReminderRoutes
  <2>3. FairTable(FuelRoutes)
    BY <2>1, FairTogether, GroupFacts DEF FuelRoutes
  <2> QED BY <2>2, <2>3
<1>5. FairTable(OwnershipRoutes)
  <2>1. FairTable(Writes("ownership:write",
          {"inspections.create", "inspections.update", "inspections.remove", "advisories.update",
           "insurance.create", "insurance.update", "insurance.remove",
           "tax.create", "tax.update", "tax.remove"}))
    BY GroupFacts
  <2> HIDE DEF Fair
  <2> QED BY <2>1, FairTogether, GroupFacts DEF OwnershipRoutes
<1>6. FairTable(WarrantyRoutes) /\ FairTable(TyreRoutes)
  <2>1. /\ FairTable(Writes("ownership:write", {"warranties.create", "warranties.update", "warranties.remove"}))
        /\ FairTable(Writes("ownership:write", {"tyres.create", "tyres.update", "tyres.fit", "tyres.takeOff",
                                               "tyres.tread", "tyres.remove"}))
    BY GroupFacts
  <2> HIDE DEF Fair
  <2>2. FairTable(WarrantyRoutes)
    BY <2>1, FairTogether, GroupFacts DEF WarrantyRoutes
  <2>3. FairTable(TyreRoutes)
    BY <2>1, FairTogether, GroupFacts DEF TyreRoutes
  <2> QED BY <2>2, <2>3
<1>7. FairTable(ExpenseRoutes) /\ FairTable(DocumentRoutes)
  <2>1. /\ FairTable(Writes("expense:write", {"expenses.create", "expenses.update", "expenses.remove"}))
        /\ FairTable(Writes("document:write", {"documents.start", "documents.finalise", "documents.update"}))
        /\ FairTable(Writes("document:delete", {"documents.remove"}))
    BY GroupFacts
  <2> HIDE DEF Fair
  <2>2. FairTable(ExpenseRoutes)
    BY <2>1, FairTogether, GroupFacts DEF ExpenseRoutes
  <2>3. FairTable(DocumentRoutes)
    BY <2>1, FairTogether, GroupFacts DEF DocumentRoutes
  <2> QED BY <2>2, <2>3
<1>8. FairTable(ExportRoutes) /\ FairTable(PreferenceRoutes)
  <2>1. /\ FairTable(Writes("report:read", {"exports.download"}))
        /\ FairTable(Writes("export:create", {"exports.create"}))
        /\ FairTable(Writes("none", {"preferences.set"}))
    BY GroupFacts
  <2> HIDE DEF Fair
  <2>2. FairTable(ExportRoutes)
    BY <2>1, FairTogether, GroupFacts DEF ExportRoutes
  <2>3. FairTable(PreferenceRoutes)
    BY <2>1, FairTogether, GroupFacts DEF PreferenceRoutes
  <2> QED BY <2>2, <2>3
<1> HIDE DEF Fair
<1> QED BY <1>1, <1>2, <1>3, <1>4, <1>5, <1>6, <1>7, <1>8, MembersFair, FairTogether DEF Routes

\* The staff's: a write that the rights of READ_ONLY are enough for gives back a grant.
Guarded(f) == \A n \in DOMAIN f :
  /\ f[n].needs \in StaffPermissions
  /\ f[n].writes /\ f[n].needs \in WatcherRights => n = "grants.revoke"

LEMMA StaffRoutesGuarded == Guarded(StaffRoutes)
<1>1. ASSUME NEW groups, \A g \in groups : Guarded(g) PROVE Guarded(Table(groups))
  BY <1>1, TableFacts DEF Guarded
<1>2. ASSUME NEW needs \in StaffPermissions, NEW names
      PROVE  /\ Guarded(Reads(needs, names))
             /\ needs \notin WatcherRights \/ names = {"grants.revoke"} => Guarded(Writes(needs, names))
  BY DEF Guarded, Reads, Writes
<1>3. /\ Guarded(Writes("admin:email:manage", {"suppressions.release"}))
      /\ Guarded(Writes("admin:support_access:request", {"grants.request"}))
      /\ Guarded(Writes("admin:support_access:read", {"grants.revoke"}))
  BY <1>2 DEF StaffPermissions, WatcherRights
<1>4. /\ Guarded(Reads("admin:email:read", {"emails", "emails.stats", "suppressions"}))
      /\ Guarded(Reads("admin:queues:read", {"queues"})) /\ Guarded(Reads("admin:metrics:read", {"metrics"}))
      /\ Guarded(Reads("admin:audit:read", {"audit"})) /\ Guarded(Reads("admin:support_access:read", {"grants.list"}))
      /\ Guarded(Reads("admin:workspaces:read", {"customer.summary", "customer.vehicles", "customer.documents"}))
  BY <1>2 DEF StaffPermissions, WatcherRights
<1>5. Guarded(ConsoleRoutes)
  BY <1>1, <1>3, <1>4 DEF ConsoleRoutes
<1>6. Guarded(SupportRoutes)
  BY <1>1, <1>3, <1>4 DEF SupportRoutes
<1> QED BY <1>1, <1>5, <1>6 DEF StaffRoutes

\* What the permissions of a role let it write, the interface says of that role.
LEMMA WordIsKept == RolesKeepTheirWord
<1>1. ASSUME NEW role \in WorkspaceRoles, NEW n \in AllWrites, Allowed(Matrix, role, Routes[n].needs)
      PROVE  n \in Promised(role)
  <2> DEFINE needs == Routes[n].needs
  <2>1. Fair(n, needs) /\ (needs = "none" \/ needs \in Matrix[role])
    BY <1>1, RoutesFair DEF FairTable, AllWrites, Allowed
  <2>2. role \in {"OWNER", "ADMIN", "EDITOR", "DRIVER", "VIEWER"}
    BY DEF WorkspaceRoles, Matrix
  <2> HIDE DEF needs
  <2>3. CASE role = "VIEWER"
    <3>1. needs \in ViewerRights
      BY <2>1, <2>3 DEF Matrix, ViewerRights
    <3> QED BY <2>1, <2>3, <3>1 DEF Fair, Promised
  <2>4. CASE role = "DRIVER"
    <3>1. needs \in ViewerRights \cup {"odometer:write", "fuel:write"}
      BY <2>1, <2>4 DEF Matrix, ViewerRights
    <3> QED BY <2>1, <2>4, <3>1, FuelNames DEF Fair, Promised
  <2>5. CASE role = "EDITOR"
    <3>1. needs \in EditorRights \cup {"none"}
      BY <2>1, <2>5 DEF Matrix
    <3>2. n \notin Managed
      BY <2>1, <3>1 DEF Fair
    <3>3. n \notin {m \in DOMAIN MemberRoutes : m # "members.leave"} \cup
                     {"vehicles.remove", "vehicles.restore", "documents.remove"}
      BY <3>2, MemberNames DEF Managed
    <3> QED BY <2>5, <3>3 DEF Promised
  <2>6. CASE role \in {"OWNER", "ADMIN"}
    BY <2>6 DEF Promised
  <2> QED BY <2>2, <2>3, <2>4, <2>5, <2>6
<1>2. ASSUME NEW n \in DOMAIN StaffRoutes
      PROVE  /\ StaffRoutes[n].needs \in StaffPermissions
             /\ StaffRoutes[n].writes /\ StaffMay("READ_ONLY", n) => n = "grants.revoke"
  <2>1. StaffRoutes[n].needs # "none"
    BY StaffRoutesGuarded DEF Guarded, StaffPermissions, WatcherRights
  <2>2. StaffMatrix["READ_ONLY"] = WatcherRights
    BY DEF StaffMatrix
  <2> QED BY <2>1, <2>2, StaffRoutesGuarded DEF Guarded, StaffMay, Allowed
<1>3. ASSUME NEW role \in DOMAIN StaffMatrix, MayRevoke(role, FALSE) PROVE role = "SUPER_ADMIN"
  <2>1. "admin:support_access:revoke" \in StaffMatrix[role]
    BY <1>3 DEF MayRevoke, Allowed
  <2>2. role \in {"SUPER_ADMIN", "OPERATIONS", "SUPPORT", "BILLING", "READ_ONLY"}
    BY DEF StaffMatrix
  <2> QED BY <2>1, <2>2 DEF StaffMatrix, WatcherRights
<1> QED BY <1>1, <1>2, <1>3 DEF RolesKeepTheirWord

RequestRows == [pc : {"idle", "session", "member", "run"}, by : Users \cup {NoRole},
                space : Spaces \cup {NoSpace}, route : Asked \cup {"none"}, held : SUBSET (Given \cup {NoRole})]

StoredRows == [home : Spaces \cup {NoSpace}, by : Spaces \cup {NoSpace}, sent : Spaces \cup {NoSpace}]

AccessTypes ==
  /\ member \in [Users -> [Spaces -> Given \cup {NoRole}]]
  /\ request \in [Requests -> RequestRows]
  /\ stored \in [Rows -> StoredRows]

\* What the caller's role is now is among the roles held; what let the request in, too.
LetIn(k) ==
  /\ k.pc # "idle" => k.by \in Users /\ k.space \in Spaces /\ member[k.by][k.space] \in k.held
  /\ k.pc = "run" => \E role \in k.held : Allowed(Matrix, role, Routes[k.route].needs)

AccessInv == AccessTypes /\ \A c \in Requests : LetIn(request[c])

LEMMA AccessBlanks ==
  /\ NoRequest \in RequestRows /\ NoRequest.pc = "idle"
  /\ NoRow \in StoredRows
BY DEF NoRequest, RequestRows, NoRow, StoredRows

LEMMA AccessInitial == AccessInit => AccessInv
BY AccessBlanks DEF AccessInit, AccessInv, AccessTypes, LetIn, RowsStayHome

\* Setting one request to a record that is as it must be leaves all of them so.
LEMMA OneRequest ==
  ASSUME AccessInv, NEW c \in Requests, NEW k \in RequestRows, SetRequest(c, k), UNCHANGED member, LetIn(k)
  PROVE  request' \in [Requests -> RequestRows] /\ \A d \in Requests : LetIn(request[d])'
BY DEF AccessInv, AccessTypes, SetRequest, LetIn

LEMMA RequestAnswered ==
  ASSUME AccessInv, NEW c \in Requests, Answered(c), UNCHANGED member
  PROVE  request' \in [Requests -> RequestRows] /\ \A d \in Requests : LetIn(request[d])'
<1>1. LetIn(NoRequest)
  BY AccessBlanks DEF LetIn
<1> QED BY <1>1, OneRequest, AccessBlanks DEF Answered

LEMMA RequestMoves ==
  ASSUME AccessInv, NEW c \in Requests, NEW pc \in {"member", "run"}, request[c].pc # "idle",
         Moves(c, pc), UNCHANGED member,
         pc = "run" => \E role \in request[c].held : Allowed(Matrix, role, Routes[request[c].route].needs)
  PROVE  request' \in [Requests -> RequestRows] /\ \A d \in Requests : LetIn(request[d])'
<1> DEFINE q == request[c]
           k == [q EXCEPT !.pc = pc]
<1>1. q \in RequestRows /\ LetIn(q)
  BY DEF AccessInv, AccessTypes
<1>2. /\ k \in RequestRows /\ k.pc = pc /\ k.by = q.by /\ k.space = q.space
      /\ k.route = q.route /\ k.held = q.held
  BY <1>1 DEF RequestRows
<1>3. SetRequest(c, k)
  BY DEF Moves
<1> HIDE DEF k
<1>4. LetIn(k)
  BY <1>1, <1>2 DEF LetIn
<1> QED BY <1>2, <1>3, <1>4, OneRequest

\* What RowsStayHome says of a step and a row.
KeptHome(x) ==
  stored'[x] # stored[x] =>
    /\ stored[x] # NoRow => stored[x].home = stored'[x].by
    /\ stored'[x].home = Updated(stored'[x].by, stored'[x].sent)

LEMMA RowsWritten ==
  ASSUME AccessInv, NEW w \in Spaces, NEW xs, \A x \in xs : x \in Rows /\ stored[x].home = w,
         NEW data \in Spaces \cup {NoSpace}, Stores(xs, w, data)
  PROVE  /\ stored' \in [Rows -> StoredRows]
         /\ \A x \in Rows : KeptHome(x)
<1> SUFFICES ASSUME NEW x \in Rows PROVE stored'[x] \in StoredRows /\ KeptHome(x)
  BY DEF Stores
<1>1. stored[x] \in StoredRows
  BY DEF AccessInv, AccessTypes
<1>2. CASE x \notin xs
  BY <1>1, <1>2 DEF Stores, KeptHome
<1>3. CASE x \in xs
  <2>1. stored'[x] = [home |-> Updated(stored[x].home, data), by |-> w, sent |-> data] /\ stored[x].home = w
    BY <1>3 DEF Stores
  <2> QED BY <1>1, <2>1 DEF StoredRows, Updated, KeptHome
<1> QED BY <1>2, <1>3

LEMMA AccessStep ==
  AccessInv /\ [AccessNext]_accessVars => AccessInv' /\ \A x \in Rows : KeptHome(x)
<1> SUFFICES ASSUME AccessInv, [AccessNext]_accessVars PROVE AccessInv' /\ \A x \in Rows : KeptHome(x)
  OBVIOUS
<1> DEFINE Goal == AccessInv' /\ \A x \in Rows : KeptHome(x)
           Rest == UNCHANGED <<member, stored>>
           Requested == request' \in [Requests -> RequestRows] /\ \A d \in Requests : LetIn(request[d])'
<1>1. ASSUME Requested, Rest PROVE Goal
  BY <1>1 DEF AccessInv, AccessTypes, KeptHome
<1>2. ASSUME NEW c \in Requests, PassSession(c) PROVE Goal
  <2>1. CASE signedIn[request[c].by]
    BY <1>1, <1>2, <2>1, RequestMoves DEF PassSession
  <2>2. CASE ~signedIn[request[c].by]
    BY <1>1, <1>2, <2>2, RequestAnswered DEF PassSession
  <2> QED BY <2>1, <2>2
<1>3. ASSUME NEW c \in Requests, PassWorkspace(c) PROVE Goal
  <2> DEFINE q == request[c]
             may == Allowed(Matrix, member[q.by][q.space], Routes[q.route].needs)
  <2>1. q.pc = "member" /\ member[q.by][q.space] \in q.held
    BY <1>3 DEF PassWorkspace, AccessInv, LetIn
  <2>2. CASE may
    BY <1>1, <1>3, <2>1, <2>2, RequestMoves DEF PassWorkspace
  <2>3. CASE ~may
    BY <1>1, <1>3, <2>3, RequestAnswered DEF PassWorkspace
  <2> QED BY <2>2, <2>3
<1>4. ASSUME NEW c \in Requests, ReadRows(c) PROVE Goal
  BY <1>1, <1>4, RequestAnswered DEF ReadRows
<1>5. ASSUME NEW c \in Requests, NEW u \in Users, NEW w \in Spaces, NEW n \in Asked, Send(c, u, w, n) PROVE Goal
  <2> DEFINE k == [pc |-> "session", by |-> u, space |-> w, route |-> n, held |-> {member[u][w]}]
  <2>1. k \in RequestRows /\ LetIn(k)
    BY DEF AccessInv, AccessTypes, RequestRows, LetIn
  <2>2. SetRequest(c, k)
    BY <1>5 DEF Send
  <2> HIDE DEF k
  <2> QED BY <1>1, <1>5, <2>1, <2>2, OneRequest DEF Send
<1>6. ASSUME NEW c \in Requests, request[c].pc = "run", Answered(c), UNCHANGED member,
             NEW xs, \A x \in xs : x \in Rows /\ stored[x].home = request[c].space,
             NEW data \in Spaces \cup {NoSpace}, Stores(xs, request[c].space, data)
      PROVE  Goal
  <2>1. request[c].space \in Spaces
    BY <1>6 DEF AccessInv, LetIn
  <2>2. Requested
    BY <1>6, RequestAnswered
  <2>3. stored' \in [Rows -> StoredRows] /\ \A x \in Rows : KeptHome(x)
    BY <1>6, <2>1, RowsWritten
  <2> QED BY <1>6, <2>2, <2>3 DEF AccessInv, AccessTypes
<1>7. ASSUME NEW c \in Requests, NEW named \in Spaces, NEW wanted \in SUBSET Rows,
             NEW data \in Spaces \cup {NoSpace}, WriteMany(c, named, wanted, data)
      PROVE  Goal
  BY <1>6, <1>7 DEF WriteMany, Narrowed
<1>8. ASSUME NEW c \in Requests, NEW named \in Spaces, NEW x \in Rows,
             NEW data \in Spaces \cup {NoSpace}, WriteOne(c, named, x, data)
      PROVE  Goal
  BY <1>6, <1>8 DEF WriteOne, Completed
<1>9. ASSUME NEW c \in Requests, NEW named \in Spaces, NEW x \in Rows, CreateRow(c, named, x) PROVE Goal
  <2>1. request[c].space \in Spaces
    BY <1>9 DEF AccessInv, LetIn, CreateRow
  <2>2. Requested
    BY <1>9, RequestAnswered DEF CreateRow
  <2> DEFINE r == [home |-> request[c].space, by |-> request[c].space, sent |-> NoSpace]
  <2>3. /\ r \in StoredRows /\ r.home = Updated(r.by, r.sent)
        /\ stored[x] = NoRow /\ stored' = [stored EXCEPT ![x] = r]
    BY <1>9, <2>1 DEF CreateRow, Homed, StoredRows, Updated
  <2> HIDE DEF r
  <2>4. stored' \in [Rows -> StoredRows] /\ \A y \in Rows : KeptHome(y)
    BY <2>3 DEF AccessInv, AccessTypes, KeptHome
  <2> QED BY <1>9, <2>2, <2>4 DEF AccessInv, AccessTypes, CreateRow
<1>10. ASSUME NEW u \in Users, SessionEnds(u) \/ SignsBack(u) PROVE Goal
  BY <1>10 DEF SessionEnds, SignsBack, AccessInv, AccessTypes, KeptHome, LetIn
<1>11. ASSUME NEW u \in Users, NEW w \in Spaces, NEW role \in Given \cup {NoRole}, RoleChanges(u, w, role) PROVE Goal
  <2>1. member' \in [Users -> [Spaces -> Given \cup {NoRole}]]
    BY <1>11 DEF RoleChanges, AccessInv, AccessTypes
  <2>2. ASSUME NEW c \in Requests PROVE request'[c] \in RequestRows /\ LetIn(request[c])'
    <3> DEFINE q == request[c]
               k == [q EXCEPT !.held = q.held \cup {role}]
    <3>1. q \in RequestRows /\ LetIn(q)
      BY DEF AccessInv, AccessTypes
    <3>2. /\ k \in RequestRows /\ k.held = q.held \cup {role} /\ k.pc = q.pc /\ k.by = q.by
          /\ k.space = q.space /\ k.route = q.route
      BY <3>1 DEF RequestRows
    <3>3. request'[c] = IF q.by = u /\ q.space = w THEN k ELSE q
      BY <1>11 DEF RoleChanges
    <3> HIDE DEF k
    <3>4. CASE q.by = u /\ q.space = w
      <4>1. request'[c] = k
        BY <3>3, <3>4
      <4>2. k.pc # "idle" => member'[k.by][k.space] \in k.held
        BY <1>11, <3>1, <3>2, <3>4 DEF RoleChanges, AccessInv, AccessTypes
      <4> QED BY <3>1, <3>2, <4>1, <4>2 DEF LetIn
    <3>5. CASE ~(q.by = u /\ q.space = w)
      <4>1. request'[c] = q
        BY <3>3, <3>5
      <4>2. q.pc # "idle" => member'[q.by][q.space] = member[q.by][q.space]
        BY <1>11, <3>1, <3>5 DEF RoleChanges, AccessInv, AccessTypes, LetIn
      <4> QED BY <3>1, <4>1, <4>2 DEF LetIn
    <3> QED BY <3>4, <3>5
  <2>3. request' \in [Requests -> RequestRows]
    BY <1>11, <2>2 DEF RoleChanges
  <2> QED BY <1>11, <2>1, <2>2, <2>3 DEF RoleChanges, AccessInv, AccessTypes, KeptHome
<1>12. ASSUME UNCHANGED accessVars PROVE Goal
  BY <1>12 DEF accessVars, AccessInv, AccessTypes, KeptHome, LetIn
<1> HIDE DEF Goal, Rest, Requested
<1>13. CASE \E c \in Requests :
         \/ PassSession(c) \/ PassWorkspace(c) \/ ReadRows(c)
         \/ \E u \in Users, w \in Spaces, n \in Asked : Send(c, u, w, n)
         \/ \E named \in Spaces :
              \/ \E x \in Rows : CreateRow(c, named, x)
              \/ \E data \in Spaces \cup {NoSpace} :
                   \/ \E wanted \in SUBSET Rows : WriteMany(c, named, wanted, data)
                   \/ \E x \in Rows : WriteOne(c, named, x, data)
  BY <1>2, <1>3, <1>4, <1>5, <1>7, <1>8, <1>9, <1>13 DEF Goal
<1>14. CASE \E u \in Users :
         \/ SessionEnds(u) \/ SignsBack(u)
         \/ \E w \in Spaces, role \in Given \cup {NoRole} : RoleChanges(u, w, role)
  BY <1>10, <1>11, <1>14 DEF Goal
<1> QED BY <1>12, <1>13, <1>14 DEF AccessNext, Goal

\* Whatever roles and sessions become between the guards and the handler: a write runs
\* only for someone who held, meanwhile, a role that is told it may, no role may write
\* more than it is told of, no row changes for another workspace's request, and none
\* goes to another workspace unless its own workspace's update named that.
THEOREM AccessStaysSafe == AccessSpec => AccessSafe
<1>1. ASSUME AccessInv PROVE HandlersRunAllowed
  <2> SUFFICES ASSUME NEW c \in Requests, request[c].pc = "run", request[c].route \in AllWrites
               PROVE  \E role \in request[c].held \ {NoRole} : request[c].route \in Promised(role)
    BY DEF HandlersRunAllowed
  <2>1. PICK role \in request[c].held : Allowed(Matrix, role, Routes[request[c].route].needs)
    BY <1>1 DEF AccessInv, LetIn
  <2>2. role \in WorkspaceRoles /\ role # NoRole
    BY <2>1, AccessConstants DEF Allowed, WorkspaceRoles
  <2> QED BY <2>1, <2>2, WordIsKept DEF RolesKeepTheirWord
<1>2. AccessInv => RolesKeepTheirWord /\ HandlersRunAllowed
  BY <1>1, WordIsKept
<1>3. AccessInv /\ [AccessNext]_accessVars =>
        [\A x \in Rows : stored'[x] # stored[x] =>
           /\ stored[x] # NoRow => stored[x].home = stored'[x].by
           /\ stored'[x].home = Updated(stored'[x].by, stored'[x].sent)]_accessVars
  BY AccessStep DEF KeptHome
<1>4. AccessInv /\ [AccessNext]_accessVars => AccessInv'
  BY AccessStep
<1> QED BY <1>2, <1>3, <1>4, AccessInitial, PTL DEF AccessSpec, AccessSafe, RowsStayHome

-----------------------------------------------------------------------------
(* The desk runs its parts together: for each of them that is a run of its own in *)
(* which it may stand still, and what is proved of a part holds of the sum.       *)

LEMMA DeskMovesRealms == DeskSpec => StaffSpec /\ AuthSpec
<1>1. DeskInit => StaffInit /\ AuthInit
  BY DEF DeskInit
<1>2. [DeskNext]_deskVars => [StaffNext]_staffVars
  BY DEF DeskNext, deskVars
<1>3. [DeskNext]_deskVars => [AuthNext]_authVars
  BY DEF DeskNext, deskVars
<1> QED BY <1>1, <1>2, <1>3, PTL DEF DeskSpec, StaffSpec, AuthSpec

\* Of customers: no session of an old password outlives a reset and no token is usable
\* beside a newer one, but for those that were raced. Of the staff: every failed sign-in
\* and every read of a customer's records is counted, and grants do not stack.
THEOREM AccountsStaySafe == DeskSpec => []RealmsSafe
<1>1. RealmsSafe <=> AccountsSafe /\ StaffSafe
  BY DEF RealmsSafe
<1> QED BY <1>1, DeskMovesRealms, CustomersStaySafe, StaffAccountable, PTL

-----------------------------------------------------------------------------
(* Screens: what is owed to a reader who was told of a save.                     *)

(* What is around every page, and around every tab of a vehicle's page.          *)

LEMMA HoldsAll ==
  ASSUME NEW items, NEW i \in items, NEW f \in Parts
  PROVE  i[f] \subseteq All(items)[f]
BY DEF All

LEMMA HomeIsThere == Home \in DOMAIN Screens /\ Elsewhere \in DOMAIN Screens
<1> DEFINE Overview == [p \in {Home} |-> OverviewPage]
<1>1. \A groups : Overview \in groups => Home \in DOMAIN Table(groups)
  BY DEF Table
<1>2. Home \in DOMAIN Pages
  BY <1>1 DEF Pages
<1> QED BY <1>2 DEF Screens

LEMMA ShellIsAround ==
  ASSUME NEW s \in DOMAIN Screens, NEW f \in Parts
  PROVE  AppShell[f] \subseteq Screens[s][f]
<1>1. PICK items : Screens[s] = All(items) /\ AppShell \in items
  BY DEF Screens
<1> QED BY <1>1, HoldsAll

LEMMA HeaderIsAround ==
  ASSUME NEW t \in DOMAIN VehicleTabs, NEW f \in Parts
  PROVE  t \in DOMAIN Screens /\ VehicleDetailPage[f] \subseteq Screens[t][f]
<1>1. PICK items : Screens[t] = All(items) /\ VehicleDetailPage \in items
  BY DEF Screens
<1> QED BY <1>1, HoldsAll DEF Screens

LEMMA ShownAround ==
  /\ \A s \in DOMAIN Screens : /\ Names(AppShell["shows"]) \subseteq ShownOn[s]
                               /\ Names(AppShell["opens"]) \subseteq OpenedOn[s]
  /\ \A t \in DOMAIN VehicleTabs : AroundTabs \subseteq ShownOn[t]
<1>1. "shows" \in Parts /\ "opens" \in Parts
  BY DEF Parts
<1>2. ASSUME NEW S, NEW T, S \subseteq T PROVE Names(S) \subseteq Names(T)
  BY <1>2 DEF Names
<1>3. ASSUME NEW s \in DOMAIN Screens
      PROVE  /\ Names(AppShell["shows"]) \subseteq ShownOn[s]
             /\ Names(AppShell["opens"]) \subseteq OpenedOn[s]
  <2>1. AppShell["shows"] \subseteq Screens[s]["shows"] /\ AppShell["opens"] \subseteq Screens[s]["opens"]
    BY <1>1, ShellIsAround
  <2>2. ShownOn[s] = Names(Screens[s]["shows"]) /\ OpenedOn[s] = Names(Screens[s]["opens"])
    BY DEF ShownOn, OpenedOn
  <2> QED BY <1>2, <2>1, <2>2
<1>4. ASSUME NEW t \in DOMAIN VehicleTabs PROVE AroundTabs \subseteq ShownOn[t]
  <2>1. t \in DOMAIN Screens
    BY HeaderIsAround DEF Parts
  <2>2. VehicleDetailPage["shows"] \subseteq Screens[t]["shows"]
    BY <1>1, HeaderIsAround
  <2>3. ShownOn[t] = Names(Screens[t]["shows"])
    BY <2>1 DEF ShownOn
  <2>4. Names(VehicleDetailPage["shows"]) \subseteq ShownOn[t]
    BY <1>2, <2>2, <2>3
  <2> QED BY <1>3, <2>1, <2>4 DEF AroundTabs
<1> QED BY <1>3, <1>4

-----------------------------------------------------------------------------
(* A reader to whom something is owed has no answer without it on its way, and   *)
(* none on the page, or passing for fresh, that nobody fetches again; whether or  *)
(* not another save has begun.                                                   *)

ScreenTypes ==
  /\ screen \in DOMAIN Screens /\ opened \in BOOLEAN /\ owed \in BOOLEAN
  /\ entry \in [holds : {"none", "current", "outdated"}, fresh : BOOLEAN, failed : BOOLEAN]
  /\ flight \in {"none", "asked", "current", "outdated"}
  /\ saving = NoSave \/ saving.save \in OfferedSaves
  /\ saving \in [save : OfferedSaves \cup {NoSave.save}, made : BOOLEAN]

Paid ==
  owed =>
    /\ flight # "outdated"
    /\ entry.holds = "outdated" /\ flight = "none" /\ ~entry.failed => ~Mounted /\ ~entry.fresh

ScreenInv == ScreenTypes /\ Paid

\* What a save changes and the list does not name, whoever offers the save has fetched again.
LEMMA OthersAreFetched ==
  ASSUME ListIsExact, NEW m \in OfferedSaves, ~m.reloads, NEW q \in DOMAIN Views,
         Affects(m.route, q), <<m.route, q>> \notin LeftStale
  PROVE  q \in m.refreshes
BY DEF ListIsExact

LEMMA ScreensInitial == DashboardInit => ScreenInv
<1> SUFFICES ASSUME DashboardInit PROVE ScreenInv
  OBVIOUS
<1>1. Paid
  BY DEF DashboardInit, Paid
<1>2. saving = NoSave /\ saving \in [save : OfferedSaves \cup {NoSave.save}, made : BOOLEAN]
  BY DEF DashboardInit, NoSave
<1>3. /\ screen \in DOMAIN Screens /\ opened \in BOOLEAN /\ owed \in BOOLEAN
      /\ entry \in [holds : {"none", "current", "outdated"}, fresh : BOOLEAN, failed : BOOLEAN]
      /\ flight \in {"none", "asked", "current", "outdated"}
  BY HomeIsThere DEF DashboardInit, NoEntry
<1> QED BY <1>1, <1>2, <1>3 DEF ScreenInv, ScreenTypes

LEMMA ScreenTypesStep ==
  ASSUME ScreenTypes, [DashboardNext]_dashboardVars
  PROVE  ScreenTypes'
<1> USE DEF ScreenTypes, Asks
<1>1. CASE Answer
  BY <1>1 DEF Answer
<1>2. CASE Arrive
  BY <1>2 DEF Arrive
<1>3. CASE FetchFails
  BY <1>3 DEF FetchFails
<1>4. CASE Ages
  BY <1>4 DEF Ages
<1>5. CASE Dropped
  BY <1>5 DEF Dropped, NoEntry
<1>6. CASE Poll
  BY <1>6 DEF Poll
<1>7. CASE Retry
  BY <1>7 DEF Retry
<1>8. CASE OpenDialog
  BY <1>8 DEF OpenDialog, ComesUp
<1>9. CASE CloseDialog
  BY <1>9 DEF CloseDialog
<1>10. CASE SetWorkspace
  BY <1>10, HomeIsThere DEF SetWorkspace
<1>11. CASE Reload
  BY <1>11 DEF Reload, NoEntry, NoSave
<1>12. ASSUME NEW s, Navigate(s) PROVE ScreenTypes'
  BY <1>12 DEF Navigate, ComesUp
<1>13. ASSUME NEW m \in SavedOn[screen], StartSave(m) PROVE ScreenTypes'
  <2>1. m \in OfferedSaves
    BY DEF OfferedSaves
  <2> QED BY <1>13, <2>1 DEF StartSave
<1>14. CASE CommitSave
  BY <1>14 DEF CommitSave
<1>15. CASE SaveFails
  BY <1>15 DEF SaveFails, NoSave
<1>16. CASE SaveSucceeds
  BY <1>16 DEF SaveSucceeds, Invalidated, NoSave
<1>17. CASE UNCHANGED dashboardVars
  BY <1>17 DEF dashboardVars
<1> QED
  BY <1>1, <1>2, <1>3, <1>4, <1>5, <1>6, <1>7, <1>8, <1>9, <1>10, <1>11, <1>12, <1>13, <1>14, <1>15,
     <1>16, <1>17 DEF DashboardNext

\* Where a reader goes, what is stale is fetched, unless it was on the page all along.
LEMMA GoingPays ==
  ASSUME ScreenInv, NEW s, Navigate(s)
  PROVE  Paid'
<1>1. /\ s \in DOMAIN Screens /\ screen' = s
      /\ opened' = (opened /\ watched \in Names(AppShell["opens"]))
      /\ UNCHANGED <<watched, entry, owed>>
      /\ flight' = flight \/ ComesUp
  BY DEF Navigate
<1>2. flight' = flight \/ (flight = "none" /\ flight' = "asked")
  BY <1>1 DEF ComesUp
<1> SUFFICES ASSUME owed PROVE /\ flight' # "outdated"
                               /\ entry.holds = "outdated" /\ flight' = "none" /\ ~entry.failed
                                  => ~Mounted' /\ ~entry.fresh
  BY <1>1 DEF Paid
<1>3. flight' # "outdated"
  BY <1>2 DEF ScreenInv, Paid
<1>4. ASSUME entry.holds = "outdated", flight' = "none", ~entry.failed
      PROVE  ~Mounted' /\ ~entry.fresh
  <2>1. flight = "none"
    BY <1>2, <1>4
  <2>2. ~Mounted /\ ~entry.fresh
    BY <1>4, <2>1 DEF ScreenInv, Paid
  <2>3. Stale
    BY <2>2 DEF Stale
  <2>4. watched \notin Names(AppShell["shows"]) /\ ~opened'
    BY <1>1, <2>2, ShownAround DEF Mounted, ScreenInv, ScreenTypes
  <2>5. screen \in DOMAIN VehicleTabs => watched \notin AroundTabs
    BY <2>2, ShownAround DEF Mounted
  <2>6. watched \in ShownOn[s] => ComesUp
    BY <2>4, <2>5 DEF Navigate
  <2>7. watched \notin ShownOn[s]
    BY <1>4, <2>1, <2>3, <2>6 DEF ComesUp
  <2> QED BY <1>1, <2>2, <2>4, <2>7 DEF Mounted
<1> QED BY <1>3, <1>4

\* A save that succeeds has fetched again what the reader is then owed.
LEMMA SavingPays ==
  ASSUME ListIsExact, ScreenInv, watched \in DOMAIN Views, SaveSucceeds
  PROVE  Paid'
<1> DEFINE m == saving.save
<1>1. m \in OfferedSaves /\ ~m.reloads
  BY DEF SaveSucceeds, ScreenInv, ScreenTypes, NoSave
<1>2. UNCHANGED <<watched, screen, opened>> /\ Mounted' = Mounted
  BY DEF SaveSucceeds, Mounted
<1> SUFFICES ASSUME owed' PROVE /\ flight' # "outdated"
                                /\ entry'.holds = "outdated" /\ flight' = "none" /\ ~entry'.failed
                                   => ~Mounted' /\ ~entry'.fresh
  BY DEF Paid
<1>3. CASE Affects(m.route, watched)
  <2>1. ~ComesLate /\ watched \in m.refreshes
    BY <1>1, <1>3, OthersAreFetched DEF SaveSucceeds
  <2>2. /\ entry' = [entry EXCEPT !.fresh = FALSE]
        /\ IF Mounted /\ ~(entry.holds = "none" /\ flight # "none") THEN Asks ELSE UNCHANGED flight
    BY <2>1 DEF SaveSucceeds, Invalidated
  <2> QED BY <1>2, <2>1, <2>2 DEF ComesLate, Asks, ScreenInv, ScreenTypes
<1>4. CASE ~Affects(m.route, watched)
  <2>1. owed
    BY <1>4 DEF SaveSucceeds
  <2>2. \/ UNCHANGED <<entry, flight>>
        \/ /\ entry' = [entry EXCEPT !.fresh = FALSE]
           /\ IF Mounted /\ ~(entry.holds = "none" /\ flight # "none") THEN Asks ELSE UNCHANGED flight
    BY DEF SaveSucceeds, Invalidated
  <2> QED BY <1>2, <2>1, <2>2 DEF Asks, ScreenInv, ScreenTypes, Paid
<1> QED BY <1>3, <1>4

LEMMA PaidStep ==
  ASSUME ListIsExact, ScreenInv, watched \in DOMAIN Views, [DashboardNext]_dashboardVars
  PROVE  Paid'
<1> USE DEF ScreenInv, ScreenTypes, Paid, Asks, Mounted
<1>1. CASE Answer
  BY <1>1 DEF Answer
<1>2. CASE Arrive
  BY <1>2 DEF Arrive
<1>3. CASE FetchFails
  BY <1>3 DEF FetchFails
<1>4. CASE Ages
  BY <1>4 DEF Ages
<1>5. CASE Dropped
  BY <1>5 DEF Dropped, NoEntry
<1>6. CASE Poll
  BY <1>6 DEF Poll
<1>7. CASE Retry
  BY <1>7 DEF Retry
<1>8. CASE OpenDialog
  BY <1>8 DEF OpenDialog, ComesUp, Stale
<1>9. CASE CloseDialog
  BY <1>9 DEF CloseDialog
<1>10. CASE SetWorkspace
  BY <1>10 DEF SetWorkspace
<1>11. CASE Reload
  BY <1>11 DEF Reload, NoEntry
<1>12. ASSUME NEW s, Navigate(s) PROVE Paid'
  BY <1>12, GoingPays
<1>13. ASSUME NEW m \in SavedOn[screen], StartSave(m) PROVE Paid'
  BY <1>13 DEF StartSave
<1>14. CASE CommitSave
  BY <1>14 DEF CommitSave
<1>15. CASE SaveFails
  BY <1>15 DEF SaveFails
<1>16. CASE SaveSucceeds
  BY <1>16, SavingPays
<1>17. CASE UNCHANGED dashboardVars
  BY <1>17 DEF dashboardVars
<1> QED
  BY <1>1, <1>2, <1>3, <1>4, <1>5, <1>6, <1>7, <1>8, <1>9, <1>10, <1>11, <1>12, <1>13, <1>14, <1>15,
     <1>16, <1>17 DEF DashboardNext

\* The followed answer is one of those the server has.
LEMMA WatchedIsServed == DashboardSpec => [](watched \in DOMAIN Views)
<1>1. DashboardInit => watched \in DOMAIN Views
  BY DashboardConstants DEF DashboardInit
<1>2. watched \in DOMAIN Views /\ [DashboardNext]_dashboardVars => (watched \in DOMAIN Views)'
  <2> SUFFICES ASSUME [DashboardNext]_dashboardVars PROVE watched' = watched
    OBVIOUS
  <2> QED
    BY DEF DashboardNext, dashboardVars, Answer, Arrive, FetchFails, Ages, Dropped, Poll, Retry,
           OpenDialog, CloseDialog, SetWorkspace, Reload, Navigate, StartSave, CommitSave, SaveFails,
           SaveSucceeds
<1> QED BY <1>1, <1>2, PTL DEF DashboardSpec

\* What a page shows is what there is: for every query of the dashboard, wherever its
\* reader goes, whatever is saved, fails, arrives late or ages. Which saves leave which
\* answers stale is a table without parameters, and TLC evaluates that it is exact.
THEOREM SavesAreSeen == ASSUME ListIsExact PROVE DashboardSpec => []SaveIsSeen
<1>1. ScreenInv /\ watched \in DOMAIN Views /\ [DashboardNext]_dashboardVars => ScreenInv'
  BY ScreenTypesStep, PaidStep DEF ScreenInv
<1>2. ScreenInv => SaveIsSeen
  BY DEF ScreenInv, Paid, SaveIsSeen
<1> QED BY <1>1, <1>2, ScreensInitial, WatchedIsServed, PTL DEF DashboardSpec

\* With the tables of pages, routes and roles, which have no parameters either.
THEOREM ScreensStayHonest == ASSUME AffordancesSafe PROVE DashboardSpec => []ScreensAreHonest
<1>1. ListIsExact
  BY DEF AffordancesSafe
<1>2. SaveIsSeen => ScreensAreHonest
  BY DEF ScreensAreHonest
<1> QED BY <1>1, <1>2, SavesAreSeen, PTL
==============================================================================
