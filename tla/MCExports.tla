------------------------------- MODULE MCExports ------------------------------
(* Small instances of the export jobs.                                           *)
EXTENDS ExportJobs

CONSTANTS j1, j2, c1, c2, w1, w2

MCJobs == {j1, j2}
MCOneJob == {j1}
MCCreators == {c1, c2}
MCSlots == {w1, w2}
MCBuildFaults == {"build", "dies", "stalls"}
=============================================================================
