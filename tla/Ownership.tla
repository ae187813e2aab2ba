------------------------------ MODULE Ownership ------------------------------
(* What a workspace promises about the right to own it, with rows, requests    *)
(* and invitations left out. One user holds the right or nobody does. It can   *)
(* be handed over by its holder and it can be lost; it is never held twice,    *)
(* never taken without a handover, and once lost it never comes back, because  *)
(* the only operation that creates an OWNER row first demotes one.             *)
CONSTANTS Users,    \* everybody who can ever be a member of the workspace
          NoUser    \* stands for "nobody"

VARIABLE owner

TypeOK == owner \in Users \cup {NoUser}

Init == owner \in Users

HandOver == /\ owner \in Users
            /\ \E u \in Users \ {owner} : owner' = u

Lose == /\ owner \in Users
        /\ owner' = NoUser

Next == HandOver \/ Lose

Spec == Init /\ [][Next]_owner
==============================================================================
