------------------------------ MODULE MCLedger ------------------------------
(* A miles vehicle, two requests, and readings that can arrive out of order,    *)
(* go down, or come in kilometres. A mile is 8 units of distance, a km 5.      *)
EXTENDS VehicleLedger, TLC

CONSTANTS q1, q2, k1, k2

Read(d, v, u) == [day |-> d, value |-> v, unit |-> u]
MCRequests == {q1, q2}
MCOneRequest == {q1}
MCRecords == {k1}
MCTwoRecords == {k1, k2}
MCReadings == {Read(1, 3, "MILES"), Read(2, 4, "KILOMETERS")}
MCDrop == {Read(1, 3, "MILES"), Read(2, 2, "MILES")}
MCAmounts == {7}
MCTwoAmounts == {7, 9}
MCIntervals == {[days |-> 3, distance |-> 2, unit |-> "KILOMETERS"], [days |-> 4, distance |-> None, unit |-> None]}
MCFactor == [u \in Units |-> IF u = "MILES" THEN 8 ELSE 5]
MCFaults == {"crash", "ledger"}
MCNone == {}

Symm == Permutations(MCRequests) \cup Permutations(MCTwoRecords)
=============================================================================
