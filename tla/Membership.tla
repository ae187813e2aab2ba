----------------------------- MODULE Membership -----------------------------
(* One workspace: its membership rows, the invitations into it, and the HTTP   *)
(* requests that read and write them. A request is not a transaction: the      *)
(* guard reads the caller's role, the handler reads its target, and a later    *)
(* statement writes by id, with other requests in between. The ownership       *)
(* transfer and the acceptance of an invitation end in a real transaction.     *)
EXTENDS FiniteSets, Naturals

CONSTANTS
  Users,        \* accounts, each with one email address
  MemberIds,    \* ids of membership rows; a deleted id is never used again
  InviteIds,    \* ids of invitations, each with a token of its own
  Slots,        \* requests the API serves at the same time
  Assignable,   \* the roles an invitation or an update may name
  Creator,      \* the user who registered and owns the new workspace
  CreatorRow,   \* that user's membership row
  NoUser, NoMember, NoInvite

AllAssignable == {"ADMIN", "EDITOR", "DRIVER", "VIEWER"}

ASSUME ConstantsOK ==
  /\ Creator \in Users /\ NoUser \notin Users
  /\ CreatorRow \in MemberIds /\ NoMember \notin MemberIds
  /\ NoInvite \notin InviteIds
  /\ Assignable \subseteq AllAssignable

VARIABLES
  role,         \* role of each membership row, or "FRESH" / "DELETED"
  user,         \* the account each row belongs to, NoUser while FRESH
  ownerUserId,  \* the denormalised pointer on the workspace row
  inv,          \* the invitations
  req,          \* what each request has done and remembers
  admitted      \* history: the rows each invitation has created

vars == <<role, user, ownerUserId, inv, req, admitted>>

Roles == {"OWNER"} \cup AllAssignable
ManagerRoles == {"OWNER", "ADMIN"}

Invitations == [email : Users \cup {NoUser},
                role : Assignable \cup {"NONE"},
                accepted : BOOLEAN, revoked : BOOLEAN, expired : BOOLEAN]

NotIssued == [email |-> NoUser, role |-> "NONE",
              accepted |-> FALSE, revoked |-> FALSE, expired |-> FALSE]

Ops == {"updateRole", "remove", "leave", "transfer", "invite", "revoke", "accept"}

Requests == [op : Ops \cup {"none"},
             pc : {"idle", "guarded", "supersede", "create", "live", "burn", "write"},
             actor : Users \cup {NoUser},      \* the signed-in caller
             actorRole : Roles \cup {"NONE"},  \* the role the guard read
             member : MemberIds \cup {NoMember},
             email : Users \cup {NoUser},
             newRole : Assignable \cup {"NONE"},
             invite : InviteIds \cup {NoInvite}]

Idle == [op |-> "none", pc |-> "idle", actor |-> NoUser, actorRole |-> "NONE",
         member |-> NoMember, email |-> NoUser, newRole |-> "NONE",
         invite |-> NoInvite]

TypeOK ==
  /\ role \in [MemberIds -> Roles \cup {"FRESH", "DELETED"}]
  /\ user \in [MemberIds -> Users \cup {NoUser}]
  /\ ownerUserId \in Users
  /\ inv \in [InviteIds -> Invitations]
  /\ req \in [Slots -> Requests]
  /\ admitted \in [InviteIds -> SUBSET MemberIds]

\* Mutant: registration leaves the owner pointer empty.
InitWithoutCreator ==
  /\ role = [m \in MemberIds |-> IF m = CreatorRow THEN "OWNER" ELSE "FRESH"]
  /\ user = [m \in MemberIds |-> IF m = CreatorRow THEN Creator ELSE NoUser]
  /\ ownerUserId = NoUser
  /\ inv = [i \in InviteIds |-> NotIssued]
  /\ req = [s \in Slots |-> Idle]
  /\ admitted = [i \in InviteIds |-> {}]

Init ==
  /\ role = [m \in MemberIds |-> IF m = CreatorRow THEN "OWNER" ELSE "FRESH"]
  /\ user = [m \in MemberIds |-> IF m = CreatorRow THEN Creator ELSE NoUser]
  /\ ownerUserId = Creator
  /\ inv = [i \in InviteIds |-> NotIssued]
  /\ req = [s \in Slots |-> Idle]
  /\ admitted = [i \in InviteIds |-> {}]

----------------------------------------------------------------------------
(* Reads the requests share.                                                  *)

Exists(m) == role[m] \in Roles
RowsOf(u) == {m \in MemberIds : Exists(m) /\ user[m] = u}
Issued(i) == inv[i].email # NoUser
Pending(i) == Issued(i) /\ ~inv[i].accepted /\ ~inv[i].revoked
IsLive(i) == Pending(i) /\ ~inv[i].expired

\* The member rows of the permission matrix. Every role may read the workspace,
\* which is all that leaving it asks for; an OWNER row as target needs an OWNER.
Can(r, op) == op = "leave" \/ r \in ManagerRoles
CanOn(r, op, targetRole) ==
  Can(r, op) /\ (targetRole = "OWNER" => r = "OWNER")

\* WorkspaceGuard: the caller's own row, read once, before the handler runs.
Guard(s, op, m) ==
  /\ req[s].pc = "idle"
  /\ Exists(m)
  /\ Can(role[m], op)

Finish(s) == req' = [req EXCEPT ![s] = Idle]
Proceed(s, pc) == req' = [req EXCEPT ![s].pc = pc]

----------------------------------------------------------------------------
(* Role changes and removals: guard, read the target, write by id.            *)

StartOnMember(s) ==
  \E op \in {"updateRole", "remove", "transfer"}, me, m \in MemberIds,
     r \in Assignable :
    /\ Guard(s, op, me)
    /\ Exists(m)
    /\ req' = [req EXCEPT ![s] = [Idle EXCEPT
                 !.op = op, !.pc = "guarded", !.actor = user[me],
                 !.actorRole = role[me], !.member = m,
                 !.newRole = IF op = "updateRole" THEN r ELSE "NONE"]]
    /\ UNCHANGED <<role, user, ownerUserId, inv, admitted>>

\* What each handler requires of the target row as it is at this moment.
MayTouch(q) ==
  LET m == q.member IN
  CASE q.op = "updateRole" -> /\ CanOn(q.actorRole, q.op, role[m])
                              /\ role[m] # "OWNER"
                              /\ user[m] # q.actor
    [] q.op = "remove"     -> /\ CanOn(q.actorRole, q.op, role[m])
                              /\ role[m] # "OWNER"
    [] q.op = "transfer"   -> /\ q.actorRole = "OWNER"
                              /\ user[m] # q.actor

ReadTarget(s) ==
  /\ req[s].pc = "guarded"
  /\ req[s].op \in {"updateRole", "remove", "transfer"}
  /\ IF Exists(req[s].member) /\ MayTouch(req[s]) THEN Proceed(s, "write")
                                                  ELSE Finish(s)
  /\ UNCHANGED <<role, user, ownerUserId, inv, admitted>>

\* The UPDATE names the row by id and nothing else; a row that has gone is an
\* error and changes nothing.
UpdateRole(s) ==
  /\ req[s].pc = "write" /\ req[s].op = "updateRole"
  /\ role' = IF Exists(req[s].member)
               THEN [role EXCEPT ![req[s].member] = req[s].newRole]
               ELSE role
  /\ Finish(s)
  /\ UNCHANGED <<user, ownerUserId, inv, admitted>>

DeleteRow(s) ==
  /\ req[s].pc = "write" /\ req[s].op \in {"remove", "leave"}
  /\ role' = IF Exists(req[s].member)
               THEN [role EXCEPT ![req[s].member] = "DELETED"]
               ELSE role
  /\ Finish(s)
  /\ UNCHANGED <<user, ownerUserId, inv, admitted>>

StartLeave(s) ==
  /\ \E m \in MemberIds :
       /\ Guard(s, "leave", m)
       /\ req' = [req EXCEPT ![s] = [Idle EXCEPT !.op = "leave",
                    !.pc = "guarded", !.actor = user[m]]]
  /\ UNCHANGED <<role, user, ownerUserId, inv, admitted>>

\* The handler looks the caller's row up again; it may be another row by now.
LeaveRead(s) ==
  /\ req[s].pc = "guarded" /\ req[s].op = "leave"
  /\ LET mine == {m \in RowsOf(req[s].actor) : role[m] # "OWNER"} IN
       IF mine = {} THEN Finish(s)
       ELSE \E m \in mine : req' = [req EXCEPT ![s].member = m, ![s].pc = "write"]
  /\ UNCHANGED <<role, user, ownerUserId, inv, admitted>>

----------------------------------------------------------------------------
(* The ownership transfer: one transaction, the demotion first. The demotion  *)
(* takes the lock on the OWNER row, so of two transfers the second finds that *)
(* the row is no longer an OWNER row and aborts.                              *)

OwnerRowsOf(u) == {m \in RowsOf(u) : role[m] = "OWNER"}

\* What the transaction writes to the membership table.
Promote(m, demoted) ==
  role' = [k \in MemberIds |-> IF k = m THEN "OWNER"
                               ELSE IF k \in demoted THEN "ADMIN" ELSE role[k]]

\* Mutant: the new owner is promoted and the old one stays.
TransferWithoutDemotion(s) ==
  /\ req[s].pc = "write" /\ req[s].op = "transfer"
  /\ IF OwnerRowsOf(req[s].actor) # {} /\ Exists(req[s].member)
       THEN Promote(req[s].member, {}) /\ ownerUserId' = user[req[s].member]
       ELSE UNCHANGED <<role, ownerUserId>>
  /\ Finish(s)
  /\ UNCHANGED <<user, inv, admitted>>

\* Mutant: the number of demoted rows is not looked at.
TransferUnchecked(s) ==
  /\ req[s].pc = "write" /\ req[s].op = "transfer"
  /\ IF Exists(req[s].member)
       THEN /\ Promote(req[s].member, OwnerRowsOf(req[s].actor))
            /\ ownerUserId' = user[req[s].member]
       ELSE UNCHANGED <<role, ownerUserId>>
  /\ Finish(s)
  /\ UNCHANGED <<user, inv, admitted>>

\* Mutant: the pointer on the workspace row stays behind.
TransferForgetsPointer(s) ==
  /\ req[s].pc = "write" /\ req[s].op = "transfer"
  /\ IF OwnerRowsOf(req[s].actor) # {} /\ Exists(req[s].member)
       THEN Promote(req[s].member, OwnerRowsOf(req[s].actor))
       ELSE UNCHANGED role
  /\ Finish(s)
  /\ UNCHANGED <<user, ownerUserId, inv, admitted>>

TransferOwnership(s) ==
  /\ req[s].pc = "write" /\ req[s].op = "transfer"
  /\ LET demoted == OwnerRowsOf(req[s].actor)
         m == req[s].member IN
       IF Cardinality(demoted) = 1 /\ Exists(m)
         THEN Promote(m, demoted) /\ ownerUserId' = user[m]
         ELSE UNCHANGED <<role, ownerUserId>>
  /\ Finish(s)
  /\ UNCHANGED <<user, inv, admitted>>

----------------------------------------------------------------------------
(* Invitations.                                                               *)

StartInvite(s) ==
  /\ \E me \in MemberIds, e \in Users, r \in Assignable :
       /\ Guard(s, "invite", me)
       /\ req' = [req EXCEPT ![s] = [Idle EXCEPT
                    !.op = "invite", !.pc = "guarded", !.email = e, !.newRole = r]]
  /\ UNCHANGED <<role, user, ownerUserId, inv, admitted>>

InviteCheck(s) ==
  /\ req[s].pc = "guarded" /\ req[s].op = "invite"
  /\ IF RowsOf(req[s].email) = {} THEN Proceed(s, "supersede") ELSE Finish(s)
  /\ UNCHANGED <<role, user, ownerUserId, inv, admitted>>

InviteSupersede(s) ==
  /\ req[s].pc = "supersede"
  /\ inv' = [i \in InviteIds |->
               IF Pending(i) /\ inv[i].email = req[s].email
                 THEN [inv[i] EXCEPT !.revoked = TRUE] ELSE inv[i]]
  /\ Proceed(s, "create")
  /\ UNCHANGED <<role, user, ownerUserId, admitted>>

InviteCreate(s) ==
  /\ req[s].pc = "create"
  /\ \E i \in InviteIds :
       /\ ~Issued(i)
       /\ inv' = [inv EXCEPT ![i] = [NotIssued EXCEPT
                    !.email = req[s].email, !.role = req[s].newRole]]
  /\ Finish(s)
  /\ UNCHANGED <<role, user, ownerUserId, admitted>>

StartRevoke(s) ==
  /\ \E me \in MemberIds, i \in InviteIds :
       /\ Guard(s, "revoke", me)
       /\ Issued(i)
       /\ req' = [req EXCEPT ![s] = [Idle EXCEPT
                    !.op = "revoke", !.pc = "guarded", !.invite = i]]
  /\ UNCHANGED <<role, user, ownerUserId, inv, admitted>>

RevokeRead(s) ==
  /\ req[s].pc = "guarded" /\ req[s].op = "revoke"
  /\ IF inv[req[s].invite].accepted THEN Finish(s) ELSE Proceed(s, "write")
  /\ UNCHANGED <<role, user, ownerUserId, inv, admitted>>

Revoke(s) ==
  /\ req[s].pc = "write" /\ req[s].op = "revoke"
  /\ inv' = [inv EXCEPT ![req[s].invite].revoked = TRUE]
  /\ Finish(s)
  /\ UNCHANGED <<role, user, ownerUserId, admitted>>

\* The token is read, its liveness and its address are checked, once.
StartAccept(s) ==
  /\ req[s].pc = "idle"
  /\ \E i \in InviteIds :
       /\ IsLive(i)
       /\ req' = [req EXCEPT ![s] = [Idle EXCEPT
                    !.op = "accept", !.pc = "live", !.actor = inv[i].email,
                    !.newRole = inv[i].role, !.invite = i]]
  /\ UNCHANGED <<role, user, ownerUserId, inv, admitted>>

AcceptLookup(s) ==
  /\ req[s].pc = "live"
  /\ Proceed(s, IF RowsOf(req[s].actor) = {} THEN "write" ELSE "burn")
  /\ UNCHANGED <<role, user, ownerUserId, inv, admitted>>

AcceptAlreadyMember(s) ==
  /\ req[s].pc = "burn"
  /\ inv' = [inv EXCEPT ![req[s].invite].accepted = TRUE]
  /\ Finish(s)
  /\ UNCHANGED <<role, user, ownerUserId, admitted>>

\* The transaction's effect when it commits: a new row, and the token burned.
Admit(s) ==
  \E m \in MemberIds :
    /\ role[m] = "FRESH"
    /\ role' = [role EXCEPT ![m] = req[s].newRole]
    /\ user' = [user EXCEPT ![m] = req[s].actor]
    /\ inv' = [inv EXCEPT ![req[s].invite].accepted = TRUE]
    /\ admitted' = [admitted EXCEPT ![req[s].invite] = @ \cup {m}]

\* Mutant: the token is burned without asking whether it was burned before.
AcceptBurnsBlindly(s) ==
  /\ req[s].pc = "write" /\ req[s].op = "accept"
  /\ IF RowsOf(req[s].actor) = {} THEN Admit(s)
                                  ELSE UNCHANGED <<role, user, inv, admitted>>
  /\ Finish(s)
  /\ UNCHANGED ownerUserId

\* Mutant: no unique index on (workspace, user).
AcceptWithoutIndex(s) ==
  /\ req[s].pc = "write" /\ req[s].op = "accept"
  /\ IF ~inv[req[s].invite].accepted THEN Admit(s)
                                     ELSE UNCHANGED <<role, user, inv, admitted>>
  /\ Finish(s)
  /\ UNCHANGED ownerUserId

\* One transaction: a new row, which the index on (workspace, user) refuses when
\* there is one already, and the token burned only if nobody burned it first.
\* Either refusal rolls both back.
Accept(s) ==
  /\ req[s].pc = "write" /\ req[s].op = "accept"
  /\ IF RowsOf(req[s].actor) = {} /\ ~inv[req[s].invite].accepted
       THEN Admit(s) ELSE UNCHANGED <<role, user, inv, admitted>>
  /\ Finish(s)
  /\ UNCHANGED ownerUserId

\* Seven days pass.
Expire(i) ==
  /\ Pending(i) /\ ~inv[i].expired
  /\ inv' = [inv EXCEPT ![i].expired = TRUE]
  /\ UNCHANGED <<role, user, ownerUserId, req, admitted>>

\* The API process dies, or the statement fails, between two statements.
Abandon(s) ==
  /\ req[s].pc # "idle"
  /\ Finish(s)
  /\ UNCHANGED <<role, user, ownerUserId, inv, admitted>>

----------------------------------------------------------------------------
Next ==
  \/ \E s \in Slots :
       \/ StartOnMember(s) \/ ReadTarget(s) \/ UpdateRole(s) \/ DeleteRow(s)
       \/ StartLeave(s) \/ LeaveRead(s) \/ TransferOwnership(s)
       \/ StartInvite(s) \/ InviteCheck(s) \/ InviteSupersede(s) \/ InviteCreate(s)
       \/ StartRevoke(s) \/ RevokeRead(s) \/ Revoke(s)
       \/ StartAccept(s) \/ AcceptLookup(s) \/ AcceptAlreadyMember(s) \/ Accept(s)
       \/ Abandon(s)
  \/ \E i \in InviteIds : Expire(i)

Spec == Init /\ [][Next]_vars

----------------------------------------------------------------------------
OwnerRows == {m \in MemberIds : role[m] = "OWNER"}

\* Nobody's request, however stale what it read, produces a second OWNER row:
\* the demotion inside the transfer's transaction is enough, and the partial
\* unique index workspace_single_owner never has to refuse a write.
AtMostOneOwner == \A m, n \in OwnerRows : m = n

\* The pointer on the workspace row and the membership table agree about who the
\* owner is as long as there is one, although a transfer moves both and a role
\* change or a removal writes only one of them.
PointerAgrees == \A m \in OwnerRows : user[m] = ownerUserId

\* A token lets in one person once, also when two acceptances race and the
\* person leaves between them.
TokenAdmitsOnce == \A i \in InviteIds : \A m, n \in admitted[i] : m = n

\* A user never has two rows in the workspace, although two acceptances of two
\* tokens both look for a row before either writes one.
OneRowPerUser == \A m, n \in MemberIds :
                   Exists(m) /\ Exists(n) /\ user[m] = user[n] => m = n

\* The abstract view of this state: the holder of the OWNER row.
ownerBar == IF OwnerRows = {} THEN NoUser
            ELSE user[CHOOSE m \in MemberIds : role[m] = "OWNER"]

Abstract == INSTANCE Ownership WITH owner <- ownerBar

\* Every step keeps the workspace's promise about ownership: the right moves
\* only by a handover from its holder, or is lost for good.
ImplementsOwnership == Abstract!Spec

----------------------------------------------------------------------------
(* What the documentation and the comments say, which the code does not keep. *)

\* ARCHITECTURE.md: exactly one OWNER per workspace at all times.
ExactlyOneOwner == Cardinality(OwnerRows) = 1

\* invitations.service.ts: a resend does not leave two live tokens for the same
\* address.
OneLiveInvitation ==
  \A i, j \in InviteIds : IsLive(i) /\ IsLive(j) /\ inv[i].email = inv[j].email
                            => i = j
==============================================================================
