--------------------------- MODULE EmailPipeline ----------------------------
(* An e-mail from the queue to the delivery report: BullMQ jobs, the worker's  *)
(* send-email handler, the e-mail log, the Redis reservation, the provider,    *)
(* the provider's webhook and the suppression list. Every statement of the     *)
(* handler and of the webhook is a step of its own; several workers and        *)
(* several webhook calls run at once. All keys go to one address.              *)
EXTENDS Naturals, FiniteSets

CONSTANTS
  Keys,          \* idempotency keys: one message, one job, one log row each
  Workers,       \* job slots, over all replicas
  Hooks,         \* webhook calls the API serves at the same time
  Critical,      \* the keys whose category a user cannot unsubscribe from
  EventTypes,    \* the provider events to consider
  Faults,        \* what may go wrong: see AllFaults
  MaxAttempts,   \* attempts of a job
  MaxStalls,     \* times BullMQ puts a stalled job back before giving it up
  MaxRefusals,   \* attempts of one job that the provider may refuse
  NoWorker, NoKey, NoEvent

AllFaults == {"crash",      \* a worker dies between two statements
              "stall",      \* a job's lock expires while its worker still runs
              "ambiguous",  \* the provider accepts, the call reports an error
              "outage",     \* a day passes, and with it a reservation's TTL
              "db",         \* the update after the provider call fails
              "apicrash"}   \* the API dies inside a webhook call

AllEventTypes == {"SENT", "DELAYED", "DELIVERED", "BOUNCED", "SOFT_BOUNCED",
                  "COMPLAINED", "FAILED", "OPENED"}

ASSUME PipelineConstants ==
  /\ Critical \subseteq Keys /\ NoKey \notin Keys /\ NoWorker \notin Workers
  /\ Faults \subseteq AllFaults /\ EventTypes \subseteq AllEventTypes
  /\ MaxAttempts \in Nat \ {0} /\ MaxStalls \in Nat /\ MaxRefusals \in Nat

VARIABLES
  job, holder, tries, stalls,   \* BullMQ: state, lock, attempts and stalls
  msg, providerId,              \* email_messages: status, provider message id
  reserved,                     \* Redis: the idempotency keys that are taken
  accepted,                     \* the provider: times it took the message
  doubted,                      \* history: keys with a wrong answer or a lost reservation
  interrupted,                  \* history: keys whose lock was lost, or whose sender died
  worker,                       \* what each handler is doing
  suppressed,                   \* email_suppressions: reason, or "no"
  hook, seen,                   \* webhook calls; email_delivery_events
  caused                        \* history: events that suppressed the address

queueVars == <<job, holder, tries, stalls>>
logVars   == <<msg, providerId>>
outside   == <<accepted, doubted, interrupted>>
hookVars  == <<suppressed, hook, seen, caused>>
vars == <<queueVars, logVars, reserved, outside, worker, hookVars>>

Rank == [ABSENT |-> 0, QUEUED |-> 0, SENDING |-> 1, SENT |-> 2, DELAYED |-> 3,
         DELIVERED |-> 4, BOUNCED |-> 5, COMPLAINED |-> 6, FAILED |-> 7,
         SUPPRESSED |-> 8]
Statuses == DOMAIN Rank \ {"ABSENT"}

\* Opened and clicked are recorded without moving the status.
StatusOf(type) == IF type = "SOFT_BOUNCED" THEN "BOUNCED" ELSE type
MovesStatus(type) == type # "OPENED"
\* Only a permanent bounce or a complaint suppresses.
SuppressesAs == [BOUNCED |-> "HARD_BOUNCE", COMPLAINED |-> "COMPLAINT"]

Events == [key : Keys, nth : 1..(MaxAttempts + MaxStalls), type : EventTypes]

isTerminalSuccess(s) == s \in {"SENT", "DELIVERED", "SUPPRESSED"}
suppressionBlocks(reason, k) ==
  reason = "HARD_BOUNCE" \/ (reason = "COMPLAINT" /\ k \notin Critical)

Handlers ==
  [pc : {"idle", "record", "check", "advance", "write", "reserve", "send",
         "accepted", "release", "finish"},
   key : Keys \cup {NoKey},
   next : Statuses,                              \* the status being applied
   after : {"none", "reserve", "done", "retry"}, \* where to go on after that
   nth : Nat]                                    \* which send was accepted

Idle == [pc |-> "idle", key |-> NoKey, next |-> "QUEUED", after |-> "none", nth |-> 0]
HookIdle == [pc |-> "idle", event |-> NoEvent]

TypeOK ==
  /\ job \in [Keys -> {"none", "waiting", "active", "done", "failed"}]
  /\ holder \in [Keys -> Workers \cup {NoWorker}]
  /\ tries \in [Keys -> 0..MaxAttempts] /\ stalls \in [Keys -> 0..MaxStalls]
  /\ msg \in [Keys -> DOMAIN Rank] /\ providerId \in [Keys -> Nat]
  /\ reserved \subseteq Keys /\ doubted \subseteq Keys /\ interrupted \subseteq Keys
  /\ accepted \in [Keys -> Nat]
  /\ worker \in [Workers -> Handlers]
  /\ suppressed \in {"no", "HARD_BOUNCE", "COMPLAINT"}
  /\ hook \in [Hooks -> [pc : {"idle", "append", "advance", "write", "suppress"},
                         event : Events \cup {NoEvent}]]
  /\ seen \subseteq Events /\ caused \subseteq Events

Init ==
  /\ job = [k \in Keys |-> "none"] /\ holder = [k \in Keys |-> NoWorker]
  /\ tries = [k \in Keys |-> 0] /\ stalls = [k \in Keys |-> 0]
  /\ msg = [k \in Keys |-> "ABSENT"] /\ providerId = [k \in Keys |-> 0]
  /\ reserved = {} /\ doubted = {} /\ interrupted = {} /\ accepted = [k \in Keys |-> 0]
  /\ worker = [w \in Workers |-> Idle]
  /\ suppressed = "no" /\ hook = [h \in Hooks |-> HookIdle]
  /\ seen = {} /\ caused = {}

----------------------------------------------------------------------------
(* The queue.                                                                 *)

\* sendEmail: the job id is made from the key, so BullMQ absorbs a second add.
Enqueue(k) ==
  /\ job[k] = "none"
  /\ job' = [job EXCEPT ![k] = "waiting"]
  /\ UNCHANGED <<holder, tries, stalls, logVars, reserved, outside, worker, hookVars>>

Take(w, k) ==
  /\ worker[w].pc = "idle" /\ job[k] = "waiting"
  /\ job' = [job EXCEPT ![k] = "active"]
  /\ holder' = [holder EXCEPT ![k] = w]
  /\ worker' = [worker EXCEPT ![w] = [Idle EXCEPT !.pc = "record", !.key = k]]
  /\ UNCHANGED <<tries, stalls, logVars, reserved, outside, hookVars>>

\* Mutant: one attempt too many.
FinishOneMore(w) ==
  LET k == worker[w].key IN
  /\ worker[w].pc = "finish"
  /\ worker' = [worker EXCEPT ![w] = Idle]
  /\ IF holder[k] # w THEN UNCHANGED <<job, holder, tries>>
     ELSE /\ holder' = [holder EXCEPT ![k] = NoWorker]
          /\ IF worker[w].after = "retry"
               THEN /\ tries' = [tries EXCEPT ![k] = @ + 1]
                    /\ job' = [job EXCEPT ![k] =
                         IF tries[k] < MaxAttempts THEN "waiting" ELSE "failed"]
               ELSE job' = [job EXCEPT ![k] = "done"] /\ UNCHANGED tries
  /\ UNCHANGED <<stalls, logVars, reserved, outside, hookVars>>

\* The handler returned or threw. Only the holder of the job's lock moves the job.
Finish(w) ==
  LET k == worker[w].key IN
  /\ worker[w].pc = "finish"
  /\ worker' = [worker EXCEPT ![w] = Idle]
  /\ IF holder[k] # w THEN UNCHANGED <<job, holder, tries>>
     ELSE /\ holder' = [holder EXCEPT ![k] = NoWorker]
          /\ IF worker[w].after = "retry"
               THEN /\ tries' = [tries EXCEPT ![k] = @ + 1]
                    /\ job' = [job EXCEPT ![k] =
                         IF tries[k] + 1 < MaxAttempts THEN "waiting" ELSE "failed"]
               ELSE job' = [job EXCEPT ![k] = "done"] /\ UNCHANGED tries
  /\ UNCHANGED <<stalls, logVars, reserved, outside, hookVars>>

Abandoned(k) == holder[k] = NoWorker \/ worker[holder[k]].key # k

\* The lock ran out: its worker is dead, or merely too slow to renew it.
Requeue(k) ==
  /\ job[k] = "active"
  /\ Abandoned(k) \/ "stall" \in Faults
  /\ holder' = [holder EXCEPT ![k] = NoWorker]
  /\ IF stalls[k] < MaxStalls
       THEN /\ stalls' = [stalls EXCEPT ![k] = @ + 1]
            /\ job' = [job EXCEPT ![k] = "waiting"]
       ELSE job' = [job EXCEPT ![k] = "failed"] /\ UNCHANGED stalls
  /\ interrupted' = IF Abandoned(k) THEN interrupted ELSE interrupted \cup {k}
  /\ UNCHANGED <<tries, logVars, reserved, accepted, doubted, worker, hookVars>>

\* A sender that dies before the provider's answer leaves its reservation behind.
Crash(w) ==
  /\ "crash" \in Faults /\ worker[w].pc # "idle"
  /\ worker' = [worker EXCEPT ![w] = Idle]
  /\ interrupted' = IF worker[w].pc \in {"send", "release"}
                    THEN interrupted \cup {worker[w].key} ELSE interrupted
  /\ UNCHANGED <<queueVars, logVars, reserved, accepted, doubted, hookVars>>

----------------------------------------------------------------------------
(* handleSendEmail.                                                           *)

Goto(w, pc) == worker' = [worker EXCEPT ![w].pc = pc]

\* Apply a status by rank (a read and then a write), and go on to `after`.
Advance(w, status, after) ==
  worker' = [worker EXCEPT ![w] = [@ EXCEPT !.pc = "advance", !.next = status,
                                            !.after = after]]

\* Insert the log row, or read the status of the one that is there.
Record(w) ==
  LET k == worker[w].key IN
  /\ worker[w].pc = "record"
  /\ msg' = [msg EXCEPT ![k] = IF @ = "ABSENT" THEN "QUEUED" ELSE @]
  /\ IF isTerminalSuccess(msg[k])
       THEN worker' = [worker EXCEPT ![w] = [@ EXCEPT !.pc = "finish", !.after = "done"]]
       ELSE Goto(w, "check")
  /\ UNCHANGED <<queueVars, providerId, reserved, outside, hookVars>>

CheckSuppression(w) ==
  /\ worker[w].pc = "check"
  /\ IF suppressionBlocks(suppressed, worker[w].key)
       THEN Advance(w, "SUPPRESSED", "done")
       ELSE Advance(w, "SENDING", "reserve")
  /\ UNCHANGED <<queueVars, logVars, reserved, outside, hookVars>>

Continue(w) == Goto(w, IF worker[w].after = "reserve" THEN "reserve" ELSE "finish")

AdvanceRead(w) ==
  /\ worker[w].pc = "advance"
  /\ IF Rank[worker[w].next] > Rank[msg[worker[w].key]] THEN Goto(w, "write")
                                                        ELSE Continue(w)
  /\ UNCHANGED <<queueVars, logVars, reserved, outside, hookVars>>

AdvanceWrite(w) ==
  /\ worker[w].pc = "write"
  /\ msg' = [msg EXCEPT ![worker[w].key] = worker[w].next]
  /\ Continue(w)
  /\ UNCHANGED <<queueVars, providerId, reserved, outside, hookVars>>

\* Mutant: the answer of SET NX is not looked at.
ReserveUnchecked(w) ==
  /\ worker[w].pc = "reserve"
  /\ reserved' = reserved \cup {worker[w].key} /\ Goto(w, "send")
  /\ UNCHANGED <<queueVars, logVars, outside, hookVars>>

\* Mutant: wait for the holder of the key instead of skipping.
ReserveWaits(w) ==
  /\ worker[w].pc = "reserve" /\ worker[w].key \notin reserved
  /\ reserved' = reserved \cup {worker[w].key} /\ Goto(w, "send")
  /\ UNCHANGED <<queueVars, logVars, outside, hookVars>>

\* SET NX. A key somebody holds means "already sent".
Reserve(w) ==
  LET k == worker[w].key IN
  /\ worker[w].pc = "reserve"
  /\ IF k \in reserved THEN Advance(w, "SENT", "done") /\ UNCHANGED reserved
                       ELSE reserved' = reserved \cup {k} /\ Goto(w, "send")
  /\ UNCHANGED <<queueVars, logVars, outside, hookVars>>

\* Mutant: the transport repeats the call itself when it saw no answer.
ProviderAcceptsRepeated(w) ==
  LET k == worker[w].key IN
  /\ worker[w].pc = "send"
  /\ accepted' = [accepted EXCEPT ![k] = @ + 1]
  /\ \/ /\ worker' = [worker EXCEPT ![w] = [@ EXCEPT !.pc = "accepted",
                                                      !.nth = accepted[k] + 1]]
        /\ UNCHANGED doubted
     \/ /\ "ambiguous" \in Faults /\ accepted[k] < MaxAttempts + MaxStalls
        /\ Goto(w, "send") /\ doubted' = doubted \cup {k}
  /\ UNCHANGED <<queueVars, logVars, reserved, interrupted, hookVars>>

ProviderAccepts(w) ==
  LET k == worker[w].key IN
  /\ worker[w].pc = "send"
  /\ accepted' = [accepted EXCEPT ![k] = @ + 1]
  /\ \/ /\ worker' = [worker EXCEPT ![w] = [@ EXCEPT !.pc = "accepted",
                                                      !.nth = accepted[k] + 1]]
        /\ UNCHANGED doubted
     \/ /\ "ambiguous" \in Faults /\ Goto(w, "release")
        /\ doubted' = doubted \cup {k}
  /\ UNCHANGED <<queueVars, logVars, reserved, interrupted, hookVars>>

ProviderRefuses(w) ==
  /\ worker[w].pc = "send" /\ tries[worker[w].key] < MaxRefusals
  /\ Goto(w, "release")
  /\ UNCHANGED <<queueVars, logVars, reserved, outside, hookVars>>

\* Mutant: the failed send keeps its reservation.
ReleaseForgotten(w) ==
  /\ worker[w].pc = "release"
  /\ Advance(w, "FAILED", "retry")
  /\ UNCHANGED <<queueVars, logVars, reserved, outside, hookVars>>

Release(w) ==
  /\ worker[w].pc = "release"
  /\ reserved' = reserved \ {worker[w].key}
  /\ Advance(w, "FAILED", "retry")
  /\ UNCHANGED <<queueVars, logVars, outside, hookVars>>

\* markSent writes the provider's id first, then advances to SENT. An error in
\* it is caught like a failed send, but the reservation stays.
SaveProviderId(w) ==
  /\ worker[w].pc = "accepted"
  /\ \/ /\ providerId' = [providerId EXCEPT ![worker[w].key] = worker[w].nth]
        /\ Advance(w, "SENT", "done")
     \/ /\ "db" \in Faults
        /\ Advance(w, "FAILED", "retry") /\ UNCHANGED providerId
  /\ UNCHANGED <<queueVars, msg, reserved, outside, hookVars>>

ReservationExpires(k) ==
  /\ "outage" \in Faults /\ k \in reserved
  /\ \A w \in Workers : worker[w].key # k
  /\ reserved' = reserved \ {k} /\ doubted' = doubted \cup {k}
  /\ UNCHANGED <<queueVars, logVars, accepted, interrupted, worker, hookVars>>

----------------------------------------------------------------------------
(* The provider's webhook. An event of a send whose id no row carries is        *)
(* answered 200 and forgotten.                                                  *)

HookGoto(h, pc) == hook' = [hook EXCEPT ![h].pc = pc]
HookDone(h) == hook' = [hook EXCEPT ![h] = HookIdle]

HookStart(h) ==
  /\ hook[h].pc = "idle"
  /\ \E e \in Events :
       /\ e.nth <= accepted[e.key] /\ providerId[e.key] = e.nth
       /\ hook' = [hook EXCEPT ![h] = [pc |-> "append", event |-> e]]
  /\ UNCHANGED <<queueVars, logVars, reserved, outside, worker, suppressed, seen, caused>>

AfterStatus(h) ==
  IF hook[h].event.type \in DOMAIN SuppressesAs THEN HookGoto(h, "suppress")
                                                ELSE HookDone(h)

\* Mutant: the event id is not unique.
AppendAlways(h) ==
  LET e == hook[h].event IN
  /\ hook[h].pc = "append"
  /\ seen' = seen \cup {e}
  /\ IF ~MovesStatus(e.type) THEN HookDone(h) ELSE HookGoto(h, "advance")
  /\ UNCHANGED <<queueVars, logVars, reserved, outside, worker, suppressed, caused>>

\* The unique provider event id: a replay ends here.
AppendEvent(h) ==
  LET e == hook[h].event IN
  /\ hook[h].pc = "append"
  /\ seen' = seen \cup {e}
  /\ IF e \in seen \/ ~MovesStatus(e.type) THEN HookDone(h) ELSE HookGoto(h, "advance")
  /\ UNCHANGED <<queueVars, logVars, reserved, outside, worker, suppressed, caused>>

HookRead(h) ==
  LET e == hook[h].event IN
  /\ hook[h].pc = "advance"
  /\ IF Rank[StatusOf(e.type)] > Rank[msg[e.key]] THEN HookGoto(h, "write")
                                                  ELSE AfterStatus(h)
  /\ UNCHANGED <<queueVars, logVars, reserved, outside, worker, suppressed, seen, caused>>

HookWrite(h) ==
  LET e == hook[h].event IN
  /\ hook[h].pc = "write"
  /\ msg' = [msg EXCEPT ![e.key] = StatusOf(e.type)]
  /\ AfterStatus(h)
  /\ UNCHANGED <<queueVars, providerId, reserved, outside, worker, suppressed, seen, caused>>

HookSuppress(h) ==
  LET e == hook[h].event IN
  /\ hook[h].pc = "suppress"
  /\ suppressed' = SuppressesAs[e.type]
  /\ caused' = caused \cup {e}
  /\ HookDone(h)
  /\ UNCHANGED <<queueVars, logVars, reserved, outside, worker, seen>>

HookCrash(h) ==
  /\ "apicrash" \in Faults /\ hook[h].pc # "idle"
  /\ HookDone(h)
  /\ UNCHANGED <<queueVars, logVars, reserved, outside, worker, suppressed, seen, caused>>

\* An operator lifts the suppression.
ReleaseSuppression ==
  /\ suppressed # "no"
  /\ suppressed' = "no"
  /\ UNCHANGED <<queueVars, logVars, reserved, outside, worker, hook, seen, caused>>

----------------------------------------------------------------------------
WorkerStep(w) ==
  \/ Record(w) \/ CheckSuppression(w) \/ AdvanceRead(w) \/ AdvanceWrite(w)
  \/ Reserve(w) \/ ProviderAccepts(w) \/ ProviderRefuses(w) \/ Release(w)
  \/ SaveProviderId(w) \/ Finish(w)

HookStep(h) ==
  AppendEvent(h) \/ HookRead(h) \/ HookWrite(h) \/ HookSuppress(h)

Next ==
  \/ \E k \in Keys : \/ Enqueue(k) \/ Requeue(k) \/ ReservationExpires(k)
                     \/ \E w \in Workers : Take(w, k)
  \/ \E w \in Workers : WorkerStep(w) \/ Crash(w)
  \/ \E h \in Hooks : HookStart(h) \/ HookStep(h) \/ HookCrash(h)
  \/ ReleaseSuppression

Spec == Init /\ [][Next]_vars

\* BullMQ hands out waiting jobs and notices lost locks, a handler that runs goes
\* on, and so does a webhook call. Nothing obliges the provider, an operator, a
\* producer or a fault.
Fairness ==
  /\ \A k \in Keys : WF_vars(Requeue(k) /\ Abandoned(k)) /\ WF_vars(\E w \in Workers : Take(w, k))
  /\ \A w \in Workers : WF_vars(WorkerStep(w))
  /\ \A h \in Hooks : WF_vars(HookStep(h))

FairSpec == Spec /\ Fairness

----------------------------------------------------------------------------
\* The provider takes each message at most once, whatever crashes, stalls,
\* retries and duplicate executions of the job happen around the call, as long
\* as its answers for this message are true and the reservation has not expired.
AtMostOneSend == \A k \in Keys \ doubted : accepted[k] <= 1

\* Two executions of one job never call the provider at the same time, even
\* when a worker that lost its lock runs on next to its replacement.
SingleSender ==
  \A v, w \in Workers :
    worker[v].pc = "send" /\ worker[w].pc = "send" /\ worker[v].key = worker[w].key
      => v = w

\* Under every fault at once the provider sees at most one call per execution
\* the queue has granted: a mail is never repeated within an attempt.
SendsAreGranted == \A k \in Keys : accepted[k] <= 1 + tries[k] + stalls[k]

\* A row that says the message went out tells the truth: a crash or a retry at any
\* other statement, refused calls, wrong answers, failed updates and expired
\* reservations never make an attempt take a reservation for a sent message. The
\* two that do are named: a sender that died before the provider's answer, and a
\* worker that runs on beside its replacement.
WentOut == {"SENT", "DELAYED", "DELIVERED"}
SentIsTrue == \A k \in Keys \ interrupted : msg[k] \in WentOut => accepted[k] > 0

\* A replayed event never suppresses a second time, so it cannot undo an
\* operator's release.
ReplayIsNoop == \A h \in Hooks : hook[h].pc = "suppress" => hook[h].event \notin caused

\* Every job comes to an end, although workers crash and locks expire.
JobSettles == \A k \in Keys : job[k] = "waiting" ~> job[k] \in {"done", "failed"}

\* While refusals stay below the number of attempts, every message is either
\* taken by the provider or withheld for a suppressed address.
NothingIsLost ==
  \A k \in Keys : job[k] = "waiting" ~> (accepted[k] > 0 \/ msg[k] = "SUPPRESSED")

----------------------------------------------------------------------------
(* What the documentation says, which the code does not keep.                 *)

\* EMAILS.md: the status machine is monotonic and never regresses.
StatusNeverRegresses == [][\A k \in Keys : Rank[msg'[k]] >= Rank[msg[k]]]_vars

\* EMAILS.md: the whole pipeline is safe under worker crashes mid-send.
CrashesAreSafe == \A k \in Keys : msg[k] \in WentOut => accepted[k] > 0

\* EMAILS.md: FAILED is terminal and means that the provider rejected it.
FailedIsTrue ==
  \A k \in Keys : msg[k] = "FAILED" /\ job[k] = "done" => accepted[k] = 0
==============================================================================
