----------------------------- MODULE ExportJobs -----------------------------
(* A workspace's exports: the API counts, inserts and enqueues; worker slots    *)
(* build the file, put it in object storage and mark the row. The queue hands   *)
(* a job to one slot, and once more when that slot loses its lock.              *)
EXTENDS Naturals, FiniteSets

CONSTANTS
  Jobs,          \* export_jobs rows that may ever exist
  Creators,      \* requests for an export the API serves at the same time
  Slots,         \* jobs the workers run at the same time
  MaxPending,    \* MAX_PENDING_PER_WORKSPACE
  MaxStalls,     \* times the queue hands a stalled job out again
  MaxLosses,     \* bound on the deaths of workers and the locks that expire under one
  ExportFaults,  \* "build" fails, the "queue" refuses a job, a worker "dies" or "stalls"
  NoJob

ASSUME ExportConstants ==
  /\ NoJob \notin Jobs /\ MaxPending \in Nat \ {0} /\ MaxStalls \in Nat /\ MaxLosses \in Nat
  /\ ExportFaults \subseteq {"build", "queue", "dies", "stalls"}

VARIABLES
  export,    \* the row: its status and the key of its file
  queued,    \* the queue's view of the job: which slot holds its lock, how often it stalled
  stored,    \* objects in storage: a key is drawn per attempt
  build,     \* what each slot is doing
  asking,    \* what each request is doing
  losses,    \* workers that died and locks that expired so far
  outlived   \* history: jobs whose slot went on after its lock had expired

exportVars == <<export, queued, stored, build, asking, losses, outlived>>
mishaps == <<losses, outlived>>

ExportStatuses == {"NONE", "PENDING", "RUNNING", "READY", "FAILED", "EXPIRED"}
NoKey == <<NoJob, 0>>
NoExport == [status |-> "NONE", key |-> NoKey]
NotQueued == [state |-> "none", slot |-> NoJob, runs |-> 0]
FreeSlot == [pc |-> "free", job |-> NoJob, row |-> NoExport, key |-> NoKey, run |-> 0]
Resting == [pc |-> "rest", job |-> NoJob]

ExportInit ==
  /\ export = [j \in Jobs |-> NoExport]
  /\ queued = [j \in Jobs |-> NotQueued]
  /\ stored = {}
  /\ build = [w \in Slots |-> FreeSlot]
  /\ asking = [c \in Creators |-> Resting]
  /\ losses = 0 /\ outlived = {}

-----------------------------------------------------------------------------
(* The API.                                                                    *)

PendingExports == {j \in Jobs : export[j].status \in {"PENDING", "RUNNING"}}
SetAsking(c, a) == asking' = [asking EXCEPT ![c] = a]

UnderCap == Cardinality(PendingExports) < MaxPending

CountPending(c) ==
  /\ asking[c].pc = "rest" /\ UnderCap
  /\ SetAsking(c, [pc |-> "insert", job |-> NoJob])
  /\ UNCHANGED <<export, queued, stored, build, mishaps>>

InsertExport(c, j) ==
  /\ asking[c].pc = "insert" /\ export[j] = NoExport
  /\ export' = [export EXCEPT ![j] = [NoExport EXCEPT !.status = "PENDING"]]
  /\ SetAsking(c, [pc |-> "enqueue", job |-> j])
  /\ UNCHANGED <<queued, stored, build, mishaps>>

\* A queue that is down is logged, and the request still succeeds.
EnqueueExport(c) ==
  /\ asking[c].pc = "enqueue"
  /\ \/ queued' = [queued EXCEPT ![asking[c].job] = [NotQueued EXCEPT !.state = "waiting"]]
     \/ "queue" \in ExportFaults /\ UNCHANGED queued
  /\ SetAsking(c, Resting)
  /\ UNCHANGED <<export, stored, build, mishaps>>

\* A download asked for after expiresAt marks the row; a link changes nothing.
ExpireExport(j) ==
  /\ export[j].status = "READY" /\ export[j].key # NoKey
  /\ export' = [export EXCEPT ![j] = [@ EXCEPT !.status = "EXPIRED"]]
  /\ UNCHANGED <<queued, stored, build, asking, mishaps>>

-----------------------------------------------------------------------------
(* The worker: one statement of handleBuildExport at a time.                   *)

SetSlot(w, b) == build' = [build EXCEPT ![w] = b]
SlotTo(w, pc) == SetSlot(w, [build[w] EXCEPT !.pc = pc])
SetExport(j, status, key) == export' = [export EXCEPT ![j] = [status |-> status, key |-> key]]

TakeJob(w, j) ==
  /\ build[w].pc = "free" /\ queued[j].state = "waiting"
  /\ queued' = [queued EXCEPT ![j] = [state |-> "active", slot |-> w, runs |-> @.runs + 1]]
  /\ SetSlot(w, [FreeSlot EXCEPT !.pc = "read", !.job = j, !.run = queued[j].runs + 1])
  /\ UNCHANGED <<export, stored, asking, mishaps>>

Holds(w, j) == build[w].job = j /\ queued[j].slot = w /\ queued[j].runs = build[w].run

\* A slot that lost its lock cannot complete the job any more.
ReleaseJob(w) ==
  LET j == build[w].job IN
  queued' = IF Holds(w, j) THEN [queued EXCEPT ![j] = [@ EXCEPT !.state = "over", !.slot = NoJob]]
                           ELSE queued

FinishJob(w) == ReleaseJob(w) /\ SetSlot(w, FreeSlot)

NeverDone(status) == FALSE
AlreadyDoneOrRunning(status) == status \in {"READY", "EXPIRED", "RUNNING"}
AlreadyDone(status) == status \in {"READY", "EXPIRED"}

ReadExport(w) ==
  /\ build[w].pc = "read"
  /\ LET row == export[build[w].job] IN
       IF AlreadyDone(row.status)
       THEN FinishJob(w)
       ELSE SetSlot(w, [build[w] EXCEPT !.pc = "run", !.row = row]) /\ UNCHANGED queued
  /\ UNCHANGED <<export, stored, asking, mishaps>>

RunExport(w) ==
  /\ build[w].pc = "run"
  /\ SetExport(build[w].job, "RUNNING", export[build[w].job].key)
  /\ SlotTo(w, "build")
  /\ UNCHANGED <<queued, stored, asking, mishaps>>

\* The row's key if it had one when it was read, a new one otherwise.
KeyFor(w) == IF build[w].row.key # NoKey THEN build[w].row.key
                                         ELSE <<build[w].job, build[w].run>>

BuildFile(w) ==
  /\ build[w].pc = "build"
  /\ SetSlot(w, [build[w] EXCEPT !.pc = "put", !.key = KeyFor(w)])
  /\ UNCHANGED <<export, queued, stored, asking, mishaps>>

PutNothing(w) == UNCHANGED stored
PutObject(w) == stored' = stored \cup {build[w].key}

PutFile(w) ==
  /\ build[w].pc = "put"
  /\ PutObject(w)
  /\ SlotTo(w, "ready")
  /\ UNCHANGED <<export, queued, asking, mishaps>>

MarkReady(w) ==
  /\ build[w].pc = "ready"
  /\ SetExport(build[w].job, "READY", build[w].key)
  /\ SlotTo(w, "over")
  /\ UNCHANGED <<queued, stored, asking, mishaps>>

\* Collecting, storing or marking throws.
BuildThrows(w) ==
  /\ "build" \in ExportFaults /\ build[w].pc \in {"build", "put", "ready"}
  /\ SlotTo(w, "fail")
  /\ UNCHANGED <<export, queued, stored, asking, mishaps>>

\* The error is rethrown; the job has no second attempt.
MarkFailed(w) ==
  /\ build[w].pc = "fail"
  /\ SetExport(build[w].job, "FAILED", export[build[w].job].key)
  /\ SlotTo(w, "over")
  /\ UNCHANGED <<queued, stored, asking, mishaps>>

\* The handler has returned or thrown; the queue is told.
Report(w) ==
  /\ build[w].pc = "over"
  /\ FinishJob(w)
  /\ UNCHANGED <<export, stored, asking, mishaps>>

-----------------------------------------------------------------------------
(* Workers that die, and workers that outlive their lock and go on.            *)

SlotLost(w) == build[w].pc # "free" /\ losses < MaxLosses /\ losses' = losses + 1

WorkerDies(w) ==
  /\ "dies" \in ExportFaults /\ SlotLost(w)
  /\ SetSlot(w, FreeSlot)
  /\ UNCHANGED <<export, queued, stored, asking, outlived>>

\* The queue finds the lock of a job expired: it waits again, or is failed for good.
Stalled(q) == [q EXCEPT !.state = IF q.runs <= MaxStalls THEN "waiting" ELSE "over", !.slot = NoJob]

Orphaned(j) == queued[j].state = "active" /\ \A w \in Slots : ~Holds(w, j)

RecoverStalled(j) ==
  /\ Orphaned(j)
  /\ queued' = [queued EXCEPT ![j] = Stalled(@)]
  /\ UNCHANGED <<export, stored, build, asking, mishaps>>

\* A worker too busy to renew its lock: its slot goes on beside the next one.
LockExpires(w) ==
  /\ "stalls" \in ExportFaults /\ SlotLost(w)
  /\ LET j == build[w].job IN
       /\ Holds(w, j) /\ queued[j].state = "active"
       /\ queued' = [queued EXCEPT ![j] = Stalled(@)]
       /\ outlived' = outlived \cup {j}
  /\ UNCHANGED <<export, stored, build, asking>>

WorkStep(w) == ReadExport(w) \/ RunExport(w) \/ BuildFile(w) \/ PutFile(w) \/ MarkReady(w) \/ MarkFailed(w)
               \/ Report(w)

ExportNext ==
  \/ \E c \in Creators : CountPending(c) \/ EnqueueExport(c) \/ \E j \in Jobs : InsertExport(c, j)
  \/ \E j \in Jobs : ExpireExport(j) \/ RecoverStalled(j) \/ \E w \in Slots : TakeJob(w, j)
  \/ \E w \in Slots : WorkStep(w) \/ BuildThrows(w) \/ WorkerDies(w) \/ LockExpires(w)

\* A running request and a running job go on; a free slot takes waiting jobs; the
\* queue looks for stalled ones periodically.
ExportFairness ==
  /\ \A c \in Creators : WF_exportVars(EnqueueExport(c))
  /\ \A w \in Slots : WF_exportVars(WorkStep(w)) /\ WF_exportVars(\E j \in Jobs : TakeJob(w, j))
  /\ \A j \in Jobs : WF_exportVars(RecoverStalled(j))

ExportSpec == ExportInit /\ [][ExportNext]_exportVars /\ ExportFairness

-----------------------------------------------------------------------------
(* Properties.                                                                 *)

\* The row and the object are written by two systems: whatever dies in between
\* and however often the job is handed out, an export offered for download has
\* its file in storage (put before the READY update, handleBuildExport).
ReadyHasFile == \A j \in Jobs : export[j].status = "READY" => export[j].key \in stored

\* An export that was ready stays so until it expires: a job delivered again
\* after its file was made must not rebuild or fail it (the READY/EXPIRED skip),
\* unless two slots were at it at once: the writes do not look at the status.
ReadyIsKept ==
  [][\A j \in Jobs \ outlived : export[j].status = "READY" =>
       export'[j].status \in {"READY", "EXPIRED"}]_exportVars

\* An export whose job was queued is not left in preparation for ever, whatever
\* fails or dies on the way: it counts against the workspace's limit until then.
EveryExportEnds ==
  \A j \in Jobs : (export[j].status \in {"PENDING", "RUNNING"})
                   ~> (export[j].status \in {"READY", "FAILED", "EXPIRED"})

\* What a comment promises and the code does not keep (export.handler.ts:149):
\* a repeated run overwrites the file of the first one rather than orphaning it.
OneFile == \A x, y \in stored : x[1] = y[1] => x = y
=============================================================================
