---------------------------- MODULE MCMembership ----------------------------
(* Three accounts, two requests at a time, two invitations: enough for a       *)
(* transfer to overtake any other request, for two acceptances to race, and    *)
(* for a member to leave and come back by another invitation.                  *)
EXTENDS Membership, TLC

CONSTANTS u1, u2, u3, m1, m2, m3, i1, i2, s1, s2

MCUsers == {u1, u2, u3}
MCMemberIds == {m1, m2, m3}
MCInviteIds == {i1, i2}
MCSlots == {s1, s2}
\* EDITOR and DRIVER have the same (no) rights over members as VIEWER.
MCAssignable == {"ADMIN", "VIEWER"}
\* The only assignable role with rights over members.
MCAdmin == {"ADMIN"}

Symm == Permutations({u2, u3}) \cup Permutations({m2, m3})
          \cup Permutations(MCInviteIds) \cup Permutations(MCSlots)
====================
