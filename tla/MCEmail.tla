------------------------------ MODULE MCEmail -------------------------------
(* Two messages to one address, one of them critical, two job slots.           *)
EXTENDS EmailPipeline

CONSTANTS k1, k2, w1, w2, h1, h2

MCKeys == {k1, k2}
MCOneKey == {k1}
MCCritical == {k1}
MCWorkers == {w1, w2}
MCOneWorker == {w1}
MCOneHook == {h1}
MCNone == {}
MCBounces == {"DELIVERED", "BOUNCED", "COMPLAINED"}
MCAllFaults == AllFaults
MCSoft == {"SOFT_BOUNCED", "OPENED"}
MCCrash == {"crash"}

==============================================================================
