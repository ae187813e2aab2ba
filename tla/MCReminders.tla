---------------------------- MODULE MCReminders -----------------------------
(* Two overlapping scans, two members, a few days around one due day.          *)
EXTENDS ReminderScan, TLC

CONSTANTS u1, u2, s1, s2

MCUsers == {u1, u2}
MCOneUser == {u1}
MCScans == {s1, s2}
MCOneScan == {s1}
MCLeads == {1}
MCTwo == {2}
MCOne == {1}
MCNone == {}
MCRenew == {"renew", "recompute"}
MCRenewAmend == {"renew", "amend"}
MCRows == AllActs
MCCrash == {"crash"}
MCFaults == {"crash", "queue"}
MCQueue == {"queue"}

Symm == Permutations(MCUsers) \cup Permutations(MCScans)
=============================================================================
