-------------------------- MODULE MembershipProofs --------------------------
(* For any number of users, rows, invitations and concurrent requests: types,  *)
(* at most one owner, agreement of the owner pointer, one row per user, a      *)
(* token admits once, and the refinement of Ownership.                         *)
EXTENDS Membership, TLAPS, FiniteSetTheorems

(* What a request may remember. A row that exists belongs to somebody; an      *)
(* invitation that a request names has been issued and keeps its role.         *)
RowsOwned == \A m \in MemberIds : Exists(m) => user[m] \in Users

InvitesOK == \A i \in InviteIds :
               /\ Issued(i) => inv[i].role \in Assignable
               /\ ~Issued(i) => admitted[i] = {}
               /\ admitted[i] # {} => inv[i].accepted

RequestOK(q) ==
  /\ q.op \in {"updateRole", "remove", "transfer"} => q.member \in MemberIds
  /\ q.op = "leave" /\ q.pc = "write" => q.member \in MemberIds
  /\ q.op \in {"updateRole", "invite", "accept"} => q.newRole \in Assignable
  /\ q.op = "invite" => q.email \in Users
  /\ q.op = "accept" => q.actor \in Users
  /\ q.op \in {"accept", "revoke"} => q.invite \in InviteIds /\ Issued(q.invite)
  /\ q.pc \in {"live", "burn"} => q.op = "accept"
  /\ q.pc \in {"supersede", "create"} => q.op = "invite"

RequestsOK == \A s \in Slots : RequestOK(req[s])

TypeInv == TypeOK /\ RowsOwned /\ InvitesOK /\ RequestsOK

----------------------------------------------------------------------------
\* An idle slot remembers nothing, so it constrains nothing.
LEMMA IdleOK == Idle \in Requests /\ RequestOK(Idle)
BY DEF Idle, Requests, RequestOK, Ops

\* A slot that becomes a well-formed request leaves all requests well-formed.
LEMMA SetRequest ==
  ASSUME req \in [Slots -> Requests], RequestsOK, UNCHANGED inv,
         NEW s \in Slots, NEW q \in Requests, RequestOK(q),
         req' = [req EXCEPT ![s] = q]
  PROVE  req' \in [Slots -> Requests] /\ RequestsOK'
BY DEF RequestsOK, RequestOK, Issued

(* An invitation only ever gains marks: address, role and acceptance stay.     *)
Keeps(r, q) == /\ q \in Invitations /\ q.email = r.email /\ q.role = r.role
               /\ r.accepted => q.accepted

LEMMA MarkKeeps ==
  ASSUME NEW r \in Invitations
  PROVE  /\ Keeps(r, r)
         /\ Keeps(r, [r EXCEPT !.revoked = TRUE])
         /\ Keeps(r, [r EXCEPT !.accepted = TRUE])
         /\ Keeps(r, [r EXCEPT !.expired = TRUE])
<1>1. Keeps(r, r)
  BY DEF Keeps
<1>2. Keeps(r, [r EXCEPT !.revoked = TRUE])
  <2>1. r.accepted => [r EXCEPT !.revoked = TRUE].accepted
    BY DEF Invitations
  <2> QED BY <2>1 DEF Keeps, Invitations
<1>3. Keeps(r, [r EXCEPT !.accepted = TRUE])
  <2>1. r.accepted => [r EXCEPT !.accepted = TRUE].accepted
    BY DEF Invitations
  <2> QED BY <2>1 DEF Keeps, Invitations
<1>4. Keeps(r, [r EXCEPT !.expired = TRUE])
  <2>1. r.accepted => [r EXCEPT !.expired = TRUE].accepted
    BY DEF Invitations
  <2> QED BY <2>1 DEF Keeps, Invitations
<1> QED BY <1>1, <1>2, <1>3, <1>4

\* Marks on invitations disturb neither the invitations nor the requests.
LEMMA KeepsOK ==
  ASSUME TypeInv, \A i \in InviteIds : Keeps(inv[i], inv'[i]),
         inv' = [i \in InviteIds |-> inv'[i]]
  PROVE  /\ inv' \in [InviteIds -> Invitations]
         /\ \A i \in InviteIds : Issued(i) <=> Issued(i)'
BY DEF TypeInv, TypeOK, Keeps, Issued

LEMMA InitType == Init => TypeInv
<1> USE ConstantsOK DEF TypeInv
<1> SUFFICES ASSUME Init PROVE TypeInv
  OBVIOUS
<1>1. TypeOK
  BY IdleOK DEF Init, TypeOK, Roles, NotIssued, Invitations
<1>2. RowsOwned
  BY DEF Init, RowsOwned, Exists, Roles, AllAssignable
<1>3. InvitesOK
  BY DEF Init, InvitesOK, Issued, NotIssued
<1>4. RequestsOK
  BY IdleOK DEF Init, RequestsOK
<1> QED BY <1>1, <1>2, <1>3, <1>4

\* Steps that only move a request along.
LEMMA QuietType ==
  ASSUME TypeInv, UNCHANGED <<role, user, ownerUserId, inv, admitted>>,
         NEW s \in Slots, NEW q \in Requests, RequestOK(q),
         req' = [req EXCEPT ![s] = q]
  PROVE  TypeInv'
<1>1. req' \in [Slots -> Requests] /\ RequestsOK'
  BY SetRequest DEF TypeInv, TypeOK
<1> QED BY <1>1 DEF TypeInv, TypeOK, RowsOwned, Exists, InvitesOK, Issued

\* Ending a request, with or without an effect on the rest of the state.
LEMMA FinishOK ==
  ASSUME req \in [Slots -> Requests], RequestsOK, NEW s \in Slots, Finish(s),
         \A i \in InviteIds : Issued(i) => Issued(i)'
  PROVE  req' \in [Slots -> Requests] /\ RequestsOK'
BY IdleOK DEF RequestsOK, RequestOK, Finish, Idle

LEMMA FinishQuiet ==
  ASSUME TypeInv, UNCHANGED <<role, user, ownerUserId, inv, admitted>>,
         NEW s \in Slots, Finish(s)
  PROVE  TypeInv'
BY IdleOK, QuietType DEF Finish

\* Going on to another statement of the same request.
LEMMA ProceedQuiet ==
  ASSUME TypeInv, UNCHANGED <<role, user, ownerUserId, inv, admitted>>,
         NEW s \in Slots, NEW pc \in {"write", "supersede", "burn"}, Proceed(s, pc),
         pc = "write" => req[s].op # "leave",
         pc = "supersede" => req[s].op = "invite",
         pc = "burn" => req[s].op = "accept"
  PROVE  TypeInv'
<1> DEFINE q == [req[s] EXCEPT !.pc = pc]
<1>1. req[s] \in Requests /\ RequestOK(req[s])
  BY DEF TypeInv, TypeOK, RequestsOK
<1>2. q \in Requests
  BY <1>1 DEF Requests
<1>3. RequestOK(q)
  BY <1>1 DEF RequestOK, Requests
<1>4. req' = [req EXCEPT ![s] = q]
  BY DEF Proceed
<1> QED BY <1>2, <1>3, <1>4, QuietType

LEMMA StepType == TypeInv /\ [Next]_vars => TypeInv'
<1> USE ConstantsOK
<1> SUFFICES ASSUME TypeInv, [Next]_vars PROVE TypeInv'
  OBVIOUS
<1>1. ASSUME NEW s \in Slots, StartOnMember(s) PROVE TypeInv'
  <2>1. PICK op \in {"updateRole", "remove", "transfer"}, me, m \in MemberIds,
             r \in Assignable :
          /\ Exists(me)
          /\ req' = [req EXCEPT ![s] = [Idle EXCEPT
                 !.op = op, !.pc = "guarded", !.actor = user[me],
                 !.actorRole = role[me], !.member = m,
                 !.newRole = IF op = "updateRole" THEN r ELSE "NONE"]]
    BY <1>1 DEF StartOnMember, Guard
  <2> DEFINE q == [Idle EXCEPT
                 !.op = op, !.pc = "guarded", !.actor = user[me],
                 !.actorRole = role[me], !.member = m,
                 !.newRole = IF op = "updateRole" THEN r ELSE "NONE"]
  <2>2. q \in Requests /\ RequestOK(q)
    BY <2>1 DEF Idle, Requests, RequestOK, Ops, TypeInv, TypeOK, Exists
  <2> QED BY <1>1, <2>1, <2>2, QuietType DEF StartOnMember
<1>2. ASSUME NEW s \in Slots, ReadTarget(s) PROVE TypeInv'
  BY <1>2, FinishQuiet, ProceedQuiet DEF ReadTarget
<1>3. ASSUME NEW s \in Slots, UpdateRole(s) PROVE TypeInv'
  <2>1. RequestOK(req[s]) /\ req[s] \in Requests
    BY DEF TypeInv, RequestsOK, TypeOK
  <2>2. req' \in [Slots -> Requests] /\ RequestsOK'
    BY <1>3, FinishOK DEF UpdateRole, TypeInv, TypeOK, Issued
  <2>3. role' \in [MemberIds -> Roles \cup {"FRESH", "DELETED"}] /\ RowsOwned'
    BY <1>3, <2>1 DEF UpdateRole, TypeInv, TypeOK, RowsOwned, Exists, RequestOK, Roles
  <2> QED BY <1>3, <2>2, <2>3 DEF UpdateRole, TypeInv, TypeOK, InvitesOK, Issued
<1>4. ASSUME NEW s \in Slots, DeleteRow(s) PROVE TypeInv'
  <2>2. req' \in [Slots -> Requests] /\ RequestsOK'
    BY <1>4, FinishOK DEF DeleteRow, TypeInv, TypeOK, Issued
  <2>3. role' \in [MemberIds -> Roles \cup {"FRESH", "DELETED"}] /\ RowsOwned'
    BY <1>4 DEF DeleteRow, TypeInv, TypeOK, RowsOwned, Exists, Roles, AllAssignable
  <2> QED BY <1>4, <2>2, <2>3 DEF DeleteRow, TypeInv, TypeOK, InvitesOK, Issued
<1>5. ASSUME NEW s \in Slots, StartLeave(s) PROVE TypeInv'
  <2>1. PICK m \in MemberIds : /\ Exists(m)
          /\ req' = [req EXCEPT ![s] = [Idle EXCEPT !.op = "leave",
                       !.pc = "guarded", !.actor = user[m]]]
    BY <1>5 DEF StartLeave, Guard
  <2> DEFINE q == [Idle EXCEPT !.op = "leave", !.pc = "guarded", !.actor = user[m]]
  <2>2. q \in Requests /\ RequestOK(q)
    BY <2>1 DEF Idle, Requests, RequestOK, Ops, TypeInv, TypeOK
  <2> QED BY <1>5, <2>1, <2>2, QuietType DEF StartLeave
<1>6. ASSUME NEW s \in Slots, LeaveRead(s) PROVE TypeInv'
  <2>1. CASE Finish(s)
    BY <1>6, <2>1, FinishQuiet DEF LeaveRead
  <2>2. CASE ~Finish(s)
    <3>1. PICK m \in MemberIds :
            req' = [req EXCEPT ![s] = [req[s] EXCEPT !.member = m, !.pc = "write"]]
      BY <1>6, <2>2 DEF LeaveRead, RowsOf, TypeInv, TypeOK
    <3> DEFINE q == [req[s] EXCEPT !.member = m, !.pc = "write"]
    <3>2. q \in Requests /\ RequestOK(q)
      <4>1. req[s] \in Requests /\ RequestOK(req[s]) /\ req[s].op = "leave"
        BY <1>6 DEF TypeInv, TypeOK, RequestsOK, LeaveRead
      <4> QED BY <4>1 DEF Requests, RequestOK
    <3> QED BY <1>6, <3>1, <3>2, QuietType DEF LeaveRead
  <2> QED BY <2>1, <2>2
<1>7. ASSUME NEW s \in Slots, TransferOwnership(s) PROVE TypeInv'
  <2>1. req' \in [Slots -> Requests] /\ RequestsOK'
    BY <1>7, FinishOK DEF TransferOwnership, TypeInv, TypeOK, Issued
  <2>2. /\ role' \in [MemberIds -> Roles \cup {"FRESH", "DELETED"}]
        /\ RowsOwned' /\ ownerUserId' \in Users
    <3>1. CASE UNCHANGED <<role, ownerUserId>>
      BY <1>7, <3>1 DEF TransferOwnership, TypeInv, TypeOK, RowsOwned, Exists
    <3>2. CASE ~UNCHANGED <<role, ownerUserId>>
      <4>1. /\ Exists(req[s].member) /\ ownerUserId' = user[req[s].member]
            /\ Promote(req[s].member, OwnerRowsOf(req[s].actor))
            /\ req[s].member \in MemberIds /\ user' = user
        BY <1>7, <3>2 DEF TransferOwnership, TypeInv, RequestsOK, RequestOK
      <4>2. "OWNER" \in Roles
        BY DEF Roles
      <4>3. \A k \in OwnerRowsOf(req[s].actor) : Exists(k)
        BY DEF OwnerRowsOf, RowsOf
      <4>4. role' \in [MemberIds -> Roles \cup {"FRESH", "DELETED"}]
        BY <4>1 DEF Promote, TypeInv, TypeOK, Roles, AllAssignable
      <4>5. \A k \in MemberIds : Exists(k)' => Exists(k)
        BY <4>1, <4>3 DEF Promote, Exists
      <4> QED BY <4>1, <4>4, <4>5 DEF TypeInv, RowsOwned
    <3> QED BY <3>1, <3>2
  <2> QED BY <1>7, <2>1, <2>2 DEF TransferOwnership, TypeInv, TypeOK, InvitesOK, Issued
<1>8. ASSUME NEW s \in Slots, StartInvite(s) PROVE TypeInv'
  <2>1. PICK e \in Users, r \in Assignable :
          req' = [req EXCEPT ![s] = [Idle EXCEPT !.op = "invite",
                    !.pc = "guarded", !.email = e, !.newRole = r]]
    BY <1>8 DEF StartInvite
  <2> DEFINE q == [Idle EXCEPT !.op = "invite", !.pc = "guarded",
                               !.email = e, !.newRole = r]
  <2>2. q \in Requests /\ RequestOK(q)
    BY DEF Idle, Requests, RequestOK, Ops
  <2> QED BY <1>8, <2>1, <2>2, QuietType DEF StartInvite
<1>9. ASSUME NEW s \in Slots, InviteCheck(s) PROVE TypeInv'
  BY <1>9, FinishQuiet, ProceedQuiet DEF InviteCheck
<1>10. ASSUME NEW s \in Slots, InviteSupersede(s) PROVE TypeInv'
  <2>1. /\ \A i \in InviteIds : Keeps(inv[i], inv'[i])
        /\ inv' = [i \in InviteIds |-> inv'[i]]
    <3>1. \A i \in InviteIds : inv'[i] \in {inv[i], [inv[i] EXCEPT !.revoked = TRUE]}
      BY <1>10 DEF InviteSupersede
    <3>2. \A i \in InviteIds : inv[i] \in Invitations
      BY DEF TypeInv, TypeOK
    <3>3. inv' = [i \in InviteIds |-> inv'[i]]
      BY <1>10 DEF InviteSupersede
    <3> QED BY <3>1, <3>2, <3>3, MarkKeeps
  <2>2. /\ inv' \in [InviteIds -> Invitations]
        /\ \A i \in InviteIds : Issued(i) <=> Issued(i)'
    BY <2>1, KeepsOK
  <2>3. InvitesOK'
    BY <1>10, <2>1, <2>2 DEF InviteSupersede, TypeInv, InvitesOK, Keeps
  <2> DEFINE q == [req[s] EXCEPT !.pc = "create"]
  <2>4. req[s] \in Requests /\ RequestOK(req[s]) /\ req[s].op = "invite"
    BY <1>10 DEF TypeInv, TypeOK, RequestsOK, RequestOK, InviteSupersede
  <2>5. q \in Requests /\ q.op = "invite" /\ q.email \in Users
          /\ q.newRole \in Assignable /\ q.pc = "create"
    BY <2>4 DEF Requests, RequestOK
  <2>6. req' = [req EXCEPT ![s] = q]
    BY <1>10 DEF InviteSupersede, Proceed
  <2>7. req' \in [Slots -> Requests]
    BY <2>5, <2>6 DEF TypeInv, TypeOK
  <2>8. RequestsOK'
    BY <2>2, <2>5, <2>6 DEF TypeInv, TypeOK, RequestsOK, RequestOK
  <2> QED BY <1>10, <2>2, <2>3, <2>7, <2>8
          DEF InviteSupersede, TypeInv, TypeOK, RowsOwned, Exists
<1>11. ASSUME NEW s \in Slots, InviteCreate(s) PROVE TypeInv'
  <2>1. PICK i \in InviteIds :
          /\ ~Issued(i)
          /\ inv' = [inv EXCEPT ![i] = [NotIssued EXCEPT
                       !.email = req[s].email, !.role = req[s].newRole]]
    BY <1>11 DEF InviteCreate
  <2>2. /\ req[s] \in Requests /\ req[s].email \in Users
        /\ req[s].newRole \in Assignable
    BY <1>11 DEF TypeInv, TypeOK, RequestsOK, RequestOK, InviteCreate
  <2>3. inv' \in [InviteIds -> Invitations] /\ InvitesOK'
    BY <1>11, <2>1, <2>2 DEF TypeInv, TypeOK, Invitations, NotIssued, InvitesOK,
                             Issued, InviteCreate
  <2>4. \A j \in InviteIds : Issued(j) => Issued(j)'
    BY <2>1, <2>2 DEF Issued, TypeInv, TypeOK
  <2>5. req' \in [Slots -> Requests] /\ RequestsOK'
    BY <1>11, <2>4, FinishOK DEF InviteCreate, TypeInv, TypeOK
  <2> QED BY <1>11, <2>3, <2>5 DEF InviteCreate, TypeInv, TypeOK, RowsOwned, Exists
<1>12. ASSUME NEW s \in Slots, StartRevoke(s) PROVE TypeInv'
  <2>1. PICK i \in InviteIds :
          /\ Issued(i)
          /\ req' = [req EXCEPT ![s] = [Idle EXCEPT !.op = "revoke",
                       !.pc = "guarded", !.invite = i]]
    BY <1>12 DEF StartRevoke
  <2> DEFINE q == [Idle EXCEPT !.op = "revoke", !.pc = "guarded", !.invite = i]
  <2>2. q \in Requests /\ RequestOK(q)
    BY <2>1 DEF Idle, Requests, RequestOK, Ops
  <2> QED BY <1>12, <2>1, <2>2, QuietType DEF StartRevoke
<1>13. ASSUME NEW s \in Slots, RevokeRead(s) PROVE TypeInv'
  BY <1>13, FinishQuiet, ProceedQuiet DEF RevokeRead
<1>14. ASSUME NEW s \in Slots, Revoke(s) \/ AcceptAlreadyMember(s) PROVE TypeInv'
  <2>1. req[s].invite \in InviteIds
    BY <1>14 DEF Revoke, AcceptAlreadyMember, TypeInv, RequestsOK, RequestOK
  <2>2. /\ \A i \in InviteIds : Keeps(inv[i], inv'[i])
        /\ inv' = [i \in InviteIds |-> inv'[i]]
    <3>1. \A i \in InviteIds : inv'[i] \in {inv[i], [inv[i] EXCEPT !.revoked = TRUE],
                                            [inv[i] EXCEPT !.accepted = TRUE]}
      BY <1>14, <2>1 DEF Revoke, AcceptAlreadyMember, TypeInv, TypeOK
    <3>2. \A i \in InviteIds : inv[i] \in Invitations
      BY DEF TypeInv, TypeOK
    <3>3. inv' = [i \in InviteIds |-> inv'[i]]
      BY <1>14 DEF Revoke, AcceptAlreadyMember, TypeInv, TypeOK
    <3> QED BY <3>1, <3>2, <3>3, MarkKeeps
  <2>3. /\ inv' \in [InviteIds -> Invitations]
        /\ \A i \in InviteIds : Issued(i) <=> Issued(i)'
    BY <2>2, KeepsOK
  <2>4. InvitesOK'
    BY <1>14, <2>2, <2>3 DEF Revoke, AcceptAlreadyMember, TypeInv, InvitesOK, Keeps
  <2>5. req' \in [Slots -> Requests] /\ RequestsOK'
    BY <1>14, <2>3, FinishOK DEF Revoke, AcceptAlreadyMember, TypeInv, TypeOK
  <2> QED BY <1>14, <2>3, <2>4, <2>5
          DEF Revoke, AcceptAlreadyMember, TypeInv, TypeOK, RowsOwned, Exists
<1>15. ASSUME NEW s \in Slots, StartAccept(s) PROVE TypeInv'
  <2>1. PICK i \in InviteIds :
          /\ Issued(i)
          /\ req' = [req EXCEPT ![s] = [Idle EXCEPT
                    !.op = "accept", !.pc = "live", !.actor = inv[i].email,
                    !.newRole = inv[i].role, !.invite = i]]
    BY <1>15 DEF StartAccept, IsLive, Pending
  <2> DEFINE q == [Idle EXCEPT
                    !.op = "accept", !.pc = "live", !.actor = inv[i].email,
                    !.newRole = inv[i].role, !.invite = i]
  <2>2. /\ inv[i].email \in Users /\ inv[i].role \in Assignable
    BY <2>1 DEF TypeInv, TypeOK, InvitesOK, Issued, Invitations
  <2>3. q \in Requests /\ RequestOK(q)
    BY <2>1, <2>2 DEF Idle, Requests, RequestOK, Ops
  <2> QED BY <1>15, <2>1, <2>3, QuietType DEF StartAccept
<1>16. ASSUME NEW s \in Slots, AcceptLookup(s) PROVE TypeInv'
  <2>1. req[s].op = "accept"
    BY <1>16 DEF AcceptLookup, TypeInv, RequestsOK, RequestOK
  <2> QED BY <1>16, <2>1, ProceedQuiet DEF AcceptLookup
<1>17. ASSUME NEW s \in Slots, Accept(s) PROVE TypeInv'
  <2>1. /\ req[s].invite \in InviteIds /\ Issued(req[s].invite)
        /\ req[s].actor \in Users /\ req[s].newRole \in Assignable
    BY <1>17 DEF Accept, TypeInv, RequestsOK, RequestOK
  <2>2. CASE Admit(s)
    <3>1. PICK m \in MemberIds :
            /\ role' = [role EXCEPT ![m] = req[s].newRole]
            /\ user' = [user EXCEPT ![m] = req[s].actor]
            /\ inv' = [inv EXCEPT ![req[s].invite].accepted = TRUE]
            /\ admitted' = [admitted EXCEPT ![req[s].invite] = @ \cup {m}]
      BY <2>2 DEF Admit
    <3>2. /\ inv' \in [InviteIds -> Invitations]
          /\ \A i \in InviteIds : Issued(i) <=> Issued(i)'
          /\ \A i \in InviteIds : Keeps(inv[i], inv'[i])
      <4>1. \A i \in InviteIds : inv'[i] \in {inv[i], [inv[i] EXCEPT !.accepted = TRUE]}
        BY <2>1, <3>1 DEF TypeInv, TypeOK
      <4>2. \A i \in InviteIds : inv[i] \in Invitations
        BY DEF TypeInv, TypeOK
      <4>3. inv' = [i \in InviteIds |-> inv'[i]]
        BY <3>1 DEF TypeInv, TypeOK
      <4>4. \A i \in InviteIds : Keeps(inv[i], inv'[i])
        BY <4>1, <4>2, MarkKeeps
      <4> QED BY <4>3, <4>4, KeepsOK
    <3>3. req' \in [Slots -> Requests] /\ RequestsOK'
      BY <1>17, <3>2, FinishOK DEF Accept, TypeInv, TypeOK
    <3>4. /\ role' \in [MemberIds -> Roles \cup {"FRESH", "DELETED"}]
          /\ user' \in [MemberIds -> Users \cup {NoUser}] /\ RowsOwned'
          /\ admitted' \in [InviteIds -> SUBSET MemberIds]
      BY <2>1, <3>1 DEF TypeInv, TypeOK, RowsOwned, Exists, Roles
    <3>5. InvitesOK'
      <4>1. inv'[req[s].invite].accepted
        BY <2>1, <3>1 DEF TypeInv, TypeOK, Invitations
      <4>2. \A i \in InviteIds : i # req[s].invite => admitted'[i] = admitted[i]
        BY <3>1 DEF TypeInv, TypeOK
      <4> QED BY <2>1, <3>2, <4>1, <4>2 DEF TypeInv, InvitesOK, Keeps
    <3> QED BY <1>17, <3>2, <3>3, <3>4, <3>5 DEF Accept, TypeInv, TypeOK
  <2>3. CASE UNCHANGED <<role, user, inv, admitted>>
    BY <1>17, <2>3, FinishQuiet DEF Accept
  <2> QED BY <1>17, <2>2, <2>3 DEF Accept
<1>18. ASSUME NEW s \in Slots, Abandon(s) PROVE TypeInv'
  BY <1>18, FinishQuiet DEF Abandon
<1>19. ASSUME NEW i \in InviteIds, Expire(i) PROVE TypeInv'
  <2>1. /\ \A j \in InviteIds : Keeps(inv[j], inv'[j])
        /\ inv' = [j \in InviteIds |-> inv'[j]]
    <3>1. \A j \in InviteIds : inv'[j] \in {inv[j], [inv[j] EXCEPT !.expired = TRUE]}
      BY <1>19 DEF Expire, TypeInv, TypeOK
    <3>2. \A j \in InviteIds : inv[j] \in Invitations
      BY DEF TypeInv, TypeOK
    <3>3. inv' = [j \in InviteIds |-> inv'[j]]
      BY <1>19 DEF Expire, TypeInv, TypeOK
    <3> QED BY <3>1, <3>2, <3>3, MarkKeeps
  <2>2. /\ inv' \in [InviteIds -> Invitations]
        /\ \A j \in InviteIds : Issued(j) <=> Issued(j)'
    BY <2>1, KeepsOK
  <2>3. InvitesOK'
    BY <1>19, <2>1, <2>2 DEF Expire, TypeInv, InvitesOK, Keeps
  <2>4. RequestsOK'
    BY <1>19, <2>2 DEF Expire, TypeInv, RequestsOK, RequestOK
  <2> QED BY <1>19, <2>2, <2>3, <2>4 DEF Expire, TypeInv, TypeOK, RowsOwned, Exists
<1>20. CASE UNCHANGED vars
  BY <1>20 DEF vars, TypeInv, TypeOK, RowsOwned, Exists, InvitesOK, Issued,
               RequestsOK, RequestOK
<1> QED
  BY <1>1, <1>2, <1>3, <1>4, <1>5, <1>6, <1>7, <1>8, <1>9, <1>10, <1>11, <1>12,
     <1>13, <1>14, <1>15, <1>16, <1>17, <1>18, <1>19, <1>20 DEF Next

\* The type invariant of Membership holds of every workspace.
THEOREM TypeCorrect == Spec => []TypeOK
<1>1. Init => TypeInv
  BY InitType
<1>2. TypeInv /\ [Next]_vars => TypeInv'
  BY StepType
<1>3. TypeInv => TypeOK
  BY DEF TypeInv
<1> QED BY <1>1, <1>2, <1>3, PTL DEF Spec

----------------------------------------------------------------------------
(* Ownership. Only four actions write a role, and three of them cannot write   *)
(* OWNER: the roles they write are assignable ones.                            *)

Quiet == UNCHANGED <<role, user, ownerUserId>>

LEMMA RoleWriters ==
  ASSUME [Next]_vars
  PROVE  \/ Quiet /\ UNCHANGED admitted
         \/ \E s \in Slots : \/ UpdateRole(s) \/ DeleteRow(s) \/ Accept(s)
                             \/ TransferOwnership(s) /\ UNCHANGED admitted
<1>1. ASSUME NEW s \in Slots, StartOnMember(s) \/ ReadTarget(s)
      PROVE  Quiet /\ UNCHANGED admitted
  BY <1>1 DEF StartOnMember, ReadTarget, Quiet
<1>2. ASSUME NEW s \in Slots, StartLeave(s) \/ LeaveRead(s)
      PROVE  Quiet /\ UNCHANGED admitted
  BY <1>2 DEF StartLeave, LeaveRead, Quiet
<1>3. ASSUME NEW s \in Slots, \/ StartInvite(s) \/ InviteCheck(s)
                              \/ InviteSupersede(s) \/ InviteCreate(s)
      PROVE  Quiet /\ UNCHANGED admitted
  BY <1>3 DEF StartInvite, InviteCheck, InviteSupersede, InviteCreate, Quiet
<1>4. ASSUME NEW s \in Slots, StartRevoke(s) \/ RevokeRead(s) \/ Revoke(s)
      PROVE  Quiet /\ UNCHANGED admitted
  BY <1>4 DEF StartRevoke, RevokeRead, Revoke, Quiet
<1>5. ASSUME NEW s \in Slots, \/ StartAccept(s) \/ AcceptLookup(s)
                              \/ AcceptAlreadyMember(s) \/ Abandon(s)
      PROVE  Quiet /\ UNCHANGED admitted
  BY <1>5 DEF StartAccept, AcceptLookup, AcceptAlreadyMember, Abandon, Quiet
<1>6. CASE (\E i \in InviteIds : Expire(i)) \/ UNCHANGED vars
  BY <1>6 DEF Expire, vars, Quiet
<1>7. ASSUME NEW s \in Slots, TransferOwnership(s) PROVE UNCHANGED admitted
  BY <1>7 DEF TransferOwnership
<1> QED BY <1>1, <1>2, <1>3, <1>4, <1>5, <1>6, <1>7 DEF Next

\* What a role change, a removal or an admission does to the OWNER rows: they
\* stay, or disappear, with their users and the pointer left alone.
LEMMA NoNewOwner ==
  ASSUME TypeInv, NEW s \in Slots, UpdateRole(s) \/ DeleteRow(s) \/ Accept(s)
  PROVE  /\ OwnerRows' \subseteq OwnerRows
         /\ \A m \in OwnerRows' : user'[m] = user[m]
         /\ ownerUserId' = ownerUserId
<1> USE ConstantsOK DEF AllAssignable
<1>1. CASE UpdateRole(s)
  <2>1. req[s].newRole \in Assignable
    BY <1>1 DEF UpdateRole, TypeInv, RequestsOK, RequestOK
  <2> QED BY <1>1, <2>1 DEF UpdateRole, OwnerRows, TypeInv, TypeOK
<1>2. CASE DeleteRow(s)
  BY <1>2 DEF DeleteRow, OwnerRows, TypeInv, TypeOK
<1>3. CASE Accept(s)
  <2>1. req[s].newRole \in Assignable
    BY <1>3 DEF Accept, TypeInv, RequestsOK, RequestOK
  <2>2. CASE Admit(s)
    <3>1. PICK m \in MemberIds : /\ role[m] = "FRESH"
                                 /\ role' = [role EXCEPT ![m] = req[s].newRole]
                                 /\ user' = [user EXCEPT ![m] = req[s].actor]
      BY <2>2 DEF Admit
    <3>2. m \notin OwnerRows'
      BY <2>1, <3>1 DEF OwnerRows, TypeInv, TypeOK
    <3>3. \A k \in MemberIds \ {m} : role'[k] = role[k] /\ user'[k] = user[k]
      BY <3>1 DEF TypeInv, TypeOK
    <3> QED BY <1>3, <3>2, <3>3 DEF Accept, OwnerRows
  <2>3. CASE UNCHANGED <<role, user>>
    BY <1>3, <2>3 DEF Accept, OwnerRows
  <2> QED BY <1>3, <2>2, <2>3 DEF Accept
<1> QED BY <1>1, <1>2, <1>3

\* What a transfer does: nothing, or the one OWNER row gives way to another.
LEMMA TransferMoves ==
  ASSUME TypeInv, AtMostOneOwner, NEW s \in Slots, TransferOwnership(s)
  PROVE  \/ Quiet
         \/ \E m \in MemberIds : /\ OwnerRows # {}
                                 /\ OwnerRows' = {m}
                                 /\ user[m] \in Users
                                 /\ user' = user
                                 /\ ownerUserId' = user[m]
<1> DEFINE demoted == OwnerRowsOf(req[s].actor)
           m == req[s].member
<1>1. CASE Cardinality(demoted) = 1 /\ Exists(m)
  <2>1. demoted # {}
    BY <1>1, FS_EmptySet
  <2>2. demoted \subseteq OwnerRows /\ m \in MemberIds /\ user[m] \in Users
    BY <1>1 DEF OwnerRowsOf, RowsOf, OwnerRows, TransferOwnership, TypeInv,
                RequestsOK, RequestOK, RowsOwned
  <2>3. OwnerRows = demoted
    BY <2>1, <2>2 DEF AtMostOneOwner
  <2>4. Promote(m, demoted) /\ ownerUserId' = user[m] /\ user' = user
    BY <1>1 DEF TransferOwnership
  <2>5. OwnerRows' = {m}
    BY <2>2, <2>3, <2>4 DEF Promote, OwnerRows
  <2> QED BY <2>1, <2>2, <2>3, <2>4, <2>5
<1>2. CASE ~(Cardinality(demoted) = 1 /\ Exists(m))
  BY <1>2 DEF TransferOwnership, Quiet
<1> QED BY <1>1, <1>2

OwnerInv == AtMostOneOwner /\ PointerAgrees

LEMMA OwnerInit == Init => OwnerInv
BY ConstantsOK DEF Init, OwnerInv, AtMostOneOwner, PointerAgrees, OwnerRows

LEMMA OwnerStep ==
  ASSUME TypeInv, OwnerInv, [Next]_vars
  PROVE  OwnerInv'
<1>1. CASE Quiet
  BY <1>1 DEF Quiet, OwnerInv, AtMostOneOwner, PointerAgrees, OwnerRows
<1>2. ASSUME NEW s \in Slots, UpdateRole(s) \/ DeleteRow(s) \/ Accept(s)
      PROVE  OwnerInv'
  BY <1>2, NoNewOwner DEF OwnerInv, AtMostOneOwner, PointerAgrees
<1>3. ASSUME NEW s \in Slots, TransferOwnership(s), ~Quiet PROVE OwnerInv'
  BY <1>3, TransferMoves DEF OwnerInv, AtMostOneOwner, PointerAgrees
<1> QED BY <1>1, <1>2, <1>3, RoleWriters

\* However many requests act on what they read before a transfer, there are
\* never two owners: the database's unique index is never the thing that stops
\* a second one.
THEOREM OwnerIsUnique == Spec => []AtMostOneOwner
<1>1. Init => TypeInv /\ OwnerInv
  BY InitType, OwnerInit
<1>2. TypeInv /\ OwnerInv /\ [Next]_vars => (TypeInv /\ OwnerInv)'
  BY StepType, OwnerStep
<1>3. OwnerInv => AtMostOneOwner
  BY DEF OwnerInv
<1> QED BY <1>1, <1>2, <1>3, PTL DEF Spec

\* The denormalised owner pointer never disagrees with an OWNER row.
THEOREM PointerIsRight == Spec => []PointerAgrees
<1>1. Init => TypeInv /\ OwnerInv
  BY InitType, OwnerInit
<1>2. TypeInv /\ OwnerInv /\ [Next]_vars => (TypeInv /\ OwnerInv)'
  BY StepType, OwnerStep
<1>3. OwnerInv => PointerAgrees
  BY DEF OwnerInv
<1> QED BY <1>1, <1>2, <1>3, PTL DEF Spec

----------------------------------------------------------------------------
(* The refinement. With at most one OWNER row, ownerBar is its user.           *)

LEMMA OwnerBarIs ==
  ASSUME AtMostOneOwner, NEW m \in OwnerRows
  PROVE  ownerBar = user[m]
BY DEF ownerBar, OwnerRows, AtMostOneOwner

LEMMA OwnerBarNobody == ASSUME OwnerRows = {} PROVE ownerBar = NoUser
BY DEF ownerBar

LEMMA RefineInit == Init => Abstract!Init
<1> SUFFICES ASSUME Init PROVE ownerBar \in Users
  BY DEF Abstract!Init
<1>1. CreatorRow \in OwnerRows /\ AtMostOneOwner /\ user[CreatorRow] = Creator
  BY OwnerInit, ConstantsOK DEF Init, OwnerRows, OwnerInv
<1> QED BY <1>1, OwnerBarIs, ConstantsOK

LEMMA RefineStep ==
  ASSUME TypeInv, OwnerInv, [Next]_vars
  PROVE  Abstract!Next \/ ownerBar' = ownerBar
<1> USE DEF Abstract!Next, Abstract!HandOver, Abstract!Lose
<1>1. AtMostOneOwner /\ AtMostOneOwner'
  BY OwnerStep DEF OwnerInv
<1>2. \A m \in OwnerRows : user[m] \in Users /\ ownerBar = user[m]
  BY <1>1, OwnerBarIs DEF TypeInv, RowsOwned, OwnerRows, Exists, Roles
<1>3. \A m \in OwnerRows' : ownerBar' = user'[m]
  BY <1>1 DEF ownerBar, OwnerRows, AtMostOneOwner
<1>4. OwnerRows' = {} => ownerBar' = NoUser
  BY DEF ownerBar
<1>5. CASE Quiet
  BY <1>5 DEF Quiet, ownerBar, OwnerRows
<1>6. ASSUME NEW s \in Slots, UpdateRole(s) \/ DeleteRow(s) \/ Accept(s)
      PROVE  Abstract!Next \/ ownerBar' = ownerBar
  <2>1. /\ OwnerRows' \subseteq OwnerRows
        /\ \A m \in OwnerRows' : user'[m] = user[m]
    BY <1>6, NoNewOwner
  <2>2. CASE OwnerRows' # {}
    BY <2>1, <2>2, <1>2, <1>3
  <2>3. CASE OwnerRows' = {} /\ OwnerRows # {}
    BY <2>3, <1>2, <1>4
  <2>4. CASE OwnerRows' = {} /\ OwnerRows = {}
    BY <2>4, <1>4, OwnerBarNobody
  <2> QED BY <2>2, <2>3, <2>4
<1>7. ASSUME NEW s \in Slots, TransferOwnership(s), ~Quiet
      PROVE  Abstract!Next \/ ownerBar' = ownerBar
  <2>1. PICK m \in MemberIds : /\ OwnerRows # {} /\ OwnerRows' = {m}
                               /\ user[m] \in Users /\ user' = user
    BY <1>7, <1>1, TransferMoves
  <2>2. ownerBar' = user[m] /\ ownerBar \in Users
    BY <2>1, <1>2, <1>3
  <2> QED BY <2>1, <2>2
<1> QED BY <1>5, <1>6, <1>7, RoleWriters

\* Membership, with all its stale writes, implements Ownership: the right to
\* own moves only by its holder's handover, and once lost it never reappears.
THEOREM Refinement == Spec => ImplementsOwnership
<1>1. Init => TypeInv /\ OwnerInv
  BY InitType, OwnerInit
<1>2. TypeInv /\ OwnerInv /\ [Next]_vars => (TypeInv /\ OwnerInv)'
  BY StepType, OwnerStep
<1>3. TypeInv /\ OwnerInv /\ [Next]_vars => [Abstract!Next]_ownerBar
  BY RefineStep
<1>4. Init => Abstract!Init
  BY RefineInit
<1> QED BY <1>1, <1>2, <1>3, <1>4, PTL DEF Spec, ImplementsOwnership, Abstract!Spec

----------------------------------------------------------------------------
(* Admissions. Only Accept creates a row, for a user who has none, and on a    *)
(* token that has not been burned, which it burns in the same step.            *)

AdmissionInv == OneRowPerUser /\ TokenAdmitsOnce

LEMMA AdmissionInit == Init => AdmissionInv
BY ConstantsOK DEF Init, AdmissionInv, OneRowPerUser, TokenAdmitsOnce, Exists,
                   Roles, AllAssignable

\* Every other action creates no row and admits nobody.
LEMMA NoNewRow ==
  ASSUME TypeInv, [Next]_vars
  PROVE  \/ /\ \A m \in MemberIds : Exists(m)' => Exists(m)
            /\ UNCHANGED <<user, admitted>>
         \/ \E s \in Slots : Accept(s) /\ Admit(s)
<1> USE ConstantsOK
<1>1. CASE UNCHANGED <<role, user, admitted>>
  BY <1>1 DEF Exists
<1>2. ASSUME NEW s \in Slots, UpdateRole(s) \/ DeleteRow(s)
      PROVE  /\ \A m \in MemberIds : Exists(m)' => Exists(m)
             /\ UNCHANGED <<user, admitted>>
  BY <1>2 DEF UpdateRole, DeleteRow, TypeInv, TypeOK, Exists, Roles, AllAssignable
<1>3. ASSUME NEW s \in Slots, TransferOwnership(s), UNCHANGED admitted
      PROVE  /\ \A m \in MemberIds : Exists(m)' => Exists(m)
             /\ UNCHANGED <<user, admitted>>
  <2>1. \A k \in OwnerRowsOf(req[s].actor) : Exists(k)
    BY DEF OwnerRowsOf, RowsOf
  <2> QED BY <1>3, <2>1 DEF TransferOwnership, Promote, Exists
<1>4. ASSUME NEW s \in Slots, Accept(s), ~Admit(s)
      PROVE  UNCHANGED <<role, user, admitted>>
  BY <1>4 DEF Accept
<1> QED BY <1>1, <1>2, <1>3, <1>4, RoleWriters DEF Quiet

LEMMA AdmissionStep ==
  ASSUME TypeInv, AdmissionInv, [Next]_vars
  PROVE  AdmissionInv'
<1>1. CASE /\ \A m \in MemberIds : Exists(m)' => Exists(m)
           /\ UNCHANGED <<user, admitted>>
  BY <1>1 DEF AdmissionInv, OneRowPerUser, TokenAdmitsOnce
<1>2. ASSUME NEW s \in Slots, Accept(s), Admit(s), admitted' # admitted
      PROVE  AdmissionInv'
  <2>1. PICK m \in MemberIds :
          /\ role[m] = "FRESH"
          /\ role' = [role EXCEPT ![m] = req[s].newRole]
          /\ user' = [user EXCEPT ![m] = req[s].actor]
          /\ admitted' = [admitted EXCEPT ![req[s].invite] = @ \cup {m}]
    BY <1>2 DEF Admit
  <2>2. /\ RowsOf(req[s].actor) = {} /\ ~inv[req[s].invite].accepted
        /\ req[s].invite \in InviteIds
    BY <1>2 DEF Accept, TypeInv, RequestsOK, RequestOK
  <2>3. OneRowPerUser'
    <3>1. \A k \in MemberIds \ {m} : /\ Exists(k)' <=> Exists(k)
                                     /\ user'[k] = user[k]
      BY <2>1 DEF Exists, TypeInv, TypeOK
    <3>2. user'[m] = req[s].actor
      BY <2>1 DEF TypeInv, TypeOK
    <3>3. \A k \in MemberIds : Exists(k) => user[k] # req[s].actor
      BY <2>2 DEF RowsOf
    <3> QED BY <3>1, <3>2, <3>3 DEF AdmissionInv, OneRowPerUser
  <2>4. TokenAdmitsOnce'
    <3>1. admitted[req[s].invite] = {}
      BY <2>2 DEF TypeInv, InvitesOK
    <3>2. admitted'[req[s].invite] = {m}
      BY <2>1, <2>2, <3>1 DEF TypeInv, TypeOK
    <3>3. \A i \in InviteIds \ {req[s].invite} : admitted'[i] = admitted[i]
      BY <2>1 DEF TypeInv, TypeOK
    <3> QED BY <3>2, <3>3 DEF AdmissionInv, TokenAdmitsOnce
  <2> QED BY <2>3, <2>4 DEF AdmissionInv
<1>3. ASSUME NEW s \in Slots, Accept(s), Admit(s), admitted' = admitted
      PROVE  FALSE
  <2>1. /\ ~inv[req[s].invite].accepted /\ req[s].invite \in InviteIds
    <3>1. PICK m \in MemberIds : /\ role[m] = "FRESH"
                                 /\ role' = [role EXCEPT ![m] = req[s].newRole]
      BY <1>3 DEF Admit
    <3>2. req[s].newRole \in Assignable /\ req[s].invite \in InviteIds
      BY <1>3 DEF Accept, TypeInv, RequestsOK, RequestOK
    <3>3. role' # role
      BY <3>1, <3>2, ConstantsOK DEF TypeInv, TypeOK, AllAssignable
    <3> QED BY <1>3, <3>2, <3>3 DEF Accept
  <2>2. \E m \in MemberIds : m \in admitted'[req[s].invite]
    <3>1. PICK m \in MemberIds :
            admitted' = [admitted EXCEPT ![req[s].invite] = @ \cup {m}]
      BY <1>3 DEF Admit
    <3>2. req[s].invite \in DOMAIN admitted
      BY <2>1 DEF TypeInv, TypeOK
    <3>3. m \in admitted'[req[s].invite]
      BY <3>1, <3>2
    <3> QED BY <3>3
  <2> QED BY <1>3, <2>1, <2>2 DEF TypeInv, InvitesOK
<1> QED BY <1>1, <1>2, <1>3, NoNewRow

\* A token creates at most one membership row, ever.
THEOREM TokenIsSingleUse == Spec => []TokenAdmitsOnce
<1>1. Init => TypeInv /\ AdmissionInv
  BY InitType, AdmissionInit
<1>2. TypeInv /\ AdmissionInv /\ [Next]_vars => (TypeInv /\ AdmissionInv)'
  BY StepType, AdmissionStep
<1>3. AdmissionInv => TokenAdmitsOnce
  BY DEF AdmissionInv
<1> QED BY <1>1, <1>2, <1>3, PTL DEF Spec

\* Nobody is a member twice.
THEOREM MemberOnce == Spec => []OneRowPerUser
<1>1. Init => TypeInv /\ AdmissionInv
  BY InitType, AdmissionInit
<1>2. TypeInv /\ AdmissionInv /\ [Next]_vars => (TypeInv /\ AdmissionInv)'
  BY StepType, AdmissionStep
<1>3. AdmissionInv => OneRowPerUser
  BY DEF AdmissionInv
<1> QED BY <1>1, <1>2, <1>3, PTL DEF Spec
========================================
