----------------------------- MODULE EmailProofs ----------------------------
(* Any number of workers, webhook calls, messages, attempts and stalls: no two *)
(* executions call the provider at once, and, unless the provider's answer can *)
(* be wrong or a reservation can expire, no message is sent twice.             *)
EXTENDS EmailPipeline, TLAPS, FiniteSetTheorems

\* The workers between a successful SET NX and the provider's definite answer.
Sending(w) == worker[w].pc \in {"send", "release"}

WorkersOK ==
  /\ worker \in [Workers -> Handlers] /\ accepted \in [Keys -> Nat]
  /\ \A w \in Workers : worker[w].pc # "idle" => worker[w].key \in Keys

\* A sender holds its key's reservation, and is the only one to do so.
Exclusive ==
  /\ \A w \in Workers : Sending(w) => worker[w].key \in reserved
  /\ \A v, w \in Workers : Sending(v) /\ Sending(w) /\ worker[v].key = worker[w].key
                             => v = w

SendInv == WorkersOK /\ Exclusive

\* What the steps of a worker other than Reserve, ProviderAccepts,
\* ProviderRefuses and Release do, as far as sending is concerned.
Elsewhere == /\ UNCHANGED <<reserved, accepted, doubted>>
             /\ worker' \in [Workers -> Handlers]
             /\ \A w \in Workers : /\ worker'[w].pc # "idle" => worker'[w].key \in Keys
                                   /\ worker'[w].pc \in {"send", "release"} =>
                                        worker'[w] = worker[w]

LEMMA ElsewhereOK == SendInv /\ Elsewhere => SendInv'
BY DEF SendInv, WorkersOK, Exclusive, Sending, Elsewhere

LEMMA StatusFacts == {"QUEUED", "SENDING", "SENT", "FAILED", "SUPPRESSED"} \subseteq Statuses
BY DEF Statuses, Rank

\* A handler that goes on to anything but a send is elsewhere.
LEMMA SetHandler ==
  ASSUME SendInv, UNCHANGED <<reserved, accepted, doubted>>, NEW w \in Workers,
         NEW q \in Handlers, q.pc \notin {"send", "release"},
         q.pc # "idle" => q.key \in Keys, worker' = [worker EXCEPT ![w] = q]
  PROVE  Elsewhere
BY DEF SendInv, WorkersOK, Elsewhere

LEMMA GoElsewhere ==
  ASSUME SendInv, UNCHANGED <<reserved, accepted, doubted>>, NEW w \in Workers,
         worker[w].pc # "idle",
         \/ \E pc \in {"check", "write", "reserve", "finish"} : Goto(w, pc)
         \/ \E st \in {"SENDING", "SENT", "FAILED", "SUPPRESSED"},
               after \in {"reserve", "done", "retry"} : Advance(w, st, after)
         \/ worker' = [worker EXCEPT ![w] = [@ EXCEPT !.pc = "finish", !.after = "done"]]
         \/ Continue(w)
         \/ worker' = [worker EXCEPT ![w] = Idle]
  PROVE  Elsewhere
<1>1. worker[w] \in Handlers /\ worker[w].key \in Keys
  BY DEF SendInv, WorkersOK
<1>2. ASSUME NEW pc \in {"check", "write", "reserve", "finish"}, Goto(w, pc) PROVE Elsewhere
  <2> DEFINE q == [worker[w] EXCEPT !.pc = pc]
  <2>1. q \in Handlers /\ q.pc = pc /\ q.key \in Keys
    BY <1>1 DEF Handlers
  <2> QED BY <1>2, <2>1, SetHandler DEF Goto
<1>3. ASSUME NEW st \in {"SENDING", "SENT", "FAILED", "SUPPRESSED"},
             NEW after \in {"reserve", "done", "retry"}, Advance(w, st, after)
      PROVE  Elsewhere
  <2> DEFINE q == [worker[w] EXCEPT !.pc = "advance", !.next = st, !.after = after]
  <2>1. q \in Handlers /\ q.pc = "advance" /\ q.key \in Keys
    BY <1>1, StatusFacts DEF Handlers
  <2> QED BY <1>3, <2>1, SetHandler DEF Advance
<1>4. ASSUME worker' = [worker EXCEPT ![w] = [@ EXCEPT !.pc = "finish", !.after = "done"]]
      PROVE  Elsewhere
  <2> DEFINE q == [worker[w] EXCEPT !.pc = "finish", !.after = "done"]
  <2>1. q \in Handlers /\ q.pc = "finish" /\ q.key \in Keys
    BY <1>1 DEF Handlers
  <2> QED BY <1>4, <2>1, SetHandler
<1>5. ASSUME worker' = [worker EXCEPT ![w] = Idle] PROVE Elsewhere
  BY <1>5, SetHandler, StatusFacts DEF Idle, Handlers
<1> QED BY <1>2, <1>3, <1>4, <1>5 DEF Continue

LEMMA StepsElsewhere ==
  ASSUME SendInv, [Next]_vars
  PROVE  \/ Elsewhere
         \/ \E w \in Workers : \/ Reserve(w) \/ ProviderAccepts(w)
                               \/ ProviderRefuses(w) \/ Release(w)
         \/ \E k \in Keys : ReservationExpires(k)
<1>1. ASSUME NEW w \in Workers, NEW k \in Keys, Take(w, k) PROVE Elsewhere
  <2> DEFINE q == [Idle EXCEPT !.pc = "record", !.key = k]
  <2>1. q \in Handlers /\ q.pc = "record" /\ q.key \in Keys
    BY StatusFacts DEF Idle, Handlers
  <2> QED BY <1>1, <2>1, SetHandler DEF Take, outside
<1>2. ASSUME NEW w \in Workers, Record(w) PROVE Elsewhere
  BY <1>2, GoElsewhere DEF Record, outside
<1>3. ASSUME NEW w \in Workers, CheckSuppression(w) PROVE Elsewhere
  BY <1>3, GoElsewhere DEF CheckSuppression, outside
<1>4. ASSUME NEW w \in Workers, AdvanceRead(w) PROVE Elsewhere
  BY <1>4, GoElsewhere DEF AdvanceRead, outside
<1>5. ASSUME NEW w \in Workers, AdvanceWrite(w) PROVE Elsewhere
  BY <1>5, GoElsewhere DEF AdvanceWrite, outside
<1>6. ASSUME NEW w \in Workers, SaveProviderId(w) PROVE Elsewhere
  BY <1>6, GoElsewhere DEF SaveProviderId, outside
<1>7. ASSUME NEW w \in Workers, Finish(w) PROVE Elsewhere
  BY <1>7, GoElsewhere DEF Finish, outside
<1>8. ASSUME NEW w \in Workers, Crash(w) PROVE Elsewhere
  BY <1>8, GoElsewhere DEF Crash, outside
<1> USE DEF SendInv, WorkersOK, Elsewhere, outside
<1>9. ASSUME NEW k \in Keys, Enqueue(k) \/ Requeue(k) PROVE Elsewhere
  BY <1>9 DEF Enqueue, Requeue
<1>10. ASSUME NEW h \in Hooks, HookStart(h) \/ HookStep(h) \/ HookCrash(h) PROVE Elsewhere
  BY <1>10 DEF HookStart, HookStep, HookCrash, AppendEvent, HookRead, HookWrite, HookSuppress
<1>11. CASE ReleaseSuppression
  BY <1>11 DEF ReleaseSuppression
<1>12. CASE UNCHANGED vars
  BY <1>12 DEF vars
<1> QED
  BY <1>1, <1>2, <1>3, <1>4, <1>5, <1>6, <1>7, <1>8, <1>9, <1>10, <1>11, <1>12
     DEF Next, WorkerStep

LEMMA SendInit == Init => SendInv
BY StatusFacts DEF Init, SendInv, WorkersOK, Exclusive, Sending, Idle, Handlers

\* The four steps around the provider call, on one handler and its key.
LEMMA SendingSteps ==
  ASSUME SendInv, NEW w \in Workers,
         Reserve(w) \/ ProviderAccepts(w) \/ ProviderRefuses(w) \/ Release(w)
  PROVE  /\ worker[w].key \in Keys
         /\ worker' \in [Workers -> Handlers]
         /\ \A v \in Workers \ {w} : worker'[v] = worker[v]
         /\ worker'[w].key = worker[w].key
         /\ worker'[w].pc \in {"advance", "send", "accepted", "release"}
<1>1. worker[w] \in Handlers /\ worker[w].key \in Keys
  BY DEF SendInv, WorkersOK, Reserve, ProviderAccepts, ProviderRefuses, Release
<1>2. ASSUME NEW pc \in {"send", "release"}
      PROVE  LET q == [worker[w] EXCEPT !.pc = pc]
             IN  q \in Handlers /\ q.key = worker[w].key /\ q.pc = pc
  BY <1>1 DEF Handlers
<1>3. ASSUME NEW st \in {"SENT", "FAILED"}, NEW after \in {"done", "retry"}
      PROVE  LET q == [worker[w] EXCEPT !.pc = "advance", !.next = st, !.after = after]
             IN  q \in Handlers /\ q.key = worker[w].key /\ q.pc = "advance"
  BY <1>1, StatusFacts DEF Handlers
<1>4. ASSUME NEW n \in Nat
      PROVE  LET q == [worker[w] EXCEPT !.pc = "accepted", !.nth = n]
             IN  q \in Handlers /\ q.key = worker[w].key /\ q.pc = "accepted"
  BY <1>1 DEF Handlers
<1>5. accepted[worker[w].key] + 1 \in Nat
  BY <1>1 DEF SendInv, WorkersOK
<1>6. \E q \in Handlers : /\ worker' = [worker EXCEPT ![w] = q]
                          /\ q.key = worker[w].key
                          /\ q.pc \in {"advance", "send", "accepted", "release"}
  <2>1. CASE Reserve(w)
    BY <1>2, <1>3, <2>1 DEF Reserve, Goto, Advance
  <2>2. CASE ProviderAccepts(w)
    BY <1>2, <1>4, <1>5, <2>2 DEF ProviderAccepts, Goto
  <2>3. CASE ProviderRefuses(w)
    BY <1>2, <2>3 DEF ProviderRefuses, Goto
  <2>4. CASE Release(w)
    BY <1>3, <2>4 DEF Release, Advance
  <2> QED BY <2>1, <2>2, <2>3, <2>4
<1> QED BY <1>1, <1>6 DEF SendInv, WorkersOK

LEMMA SendStep == SendInv /\ [Next]_vars => SendInv'
<1> SUFFICES ASSUME SendInv, [Next]_vars PROVE SendInv'
  OBVIOUS
<1>1. CASE Elsewhere
  BY <1>1, ElsewhereOK
<1>2. ASSUME NEW w \in Workers,
             Reserve(w) \/ ProviderAccepts(w) \/ ProviderRefuses(w) \/ Release(w)
      PROVE  SendInv'
  <2>1. WorkersOK'
    <3>1. accepted \in [Keys -> Nat] /\ worker[w].key \in Keys
      BY <1>2, SendingSteps DEF SendInv, WorkersOK
    <3>2. \/ accepted' = accepted
          \/ accepted' = [accepted EXCEPT ![worker[w].key] = @ + 1]
      BY <1>2 DEF Reserve, ProviderAccepts, ProviderRefuses, Release, outside
    <3>3. accepted' \in [Keys -> Nat]
      BY <3>1, <3>2
    <3> QED BY <1>2, <3>3, SendingSteps DEF SendInv, WorkersOK
  <2>2. CASE Reserve(w) /\ worker[w].key \notin reserved
    BY <1>2, <2>1, <2>2, SendingSteps DEF SendInv, Exclusive, Sending, Reserve
  <2>3. CASE Reserve(w) /\ worker[w].key \in reserved
    <3>1. worker'[w].pc = "advance"
      BY <2>3 DEF Reserve, Advance, SendInv, WorkersOK, Handlers
    <3> QED BY <1>2, <2>1, <2>3, <3>1, SendingSteps DEF SendInv, Exclusive, Sending, Reserve
  <2>4. CASE ProviderAccepts(w) \/ ProviderRefuses(w)
    <3>1. Sending(w) /\ reserved' = reserved
      BY <2>4 DEF ProviderAccepts, ProviderRefuses, Sending
    <3> QED BY <1>2, <2>1, <3>1, SendingSteps DEF SendInv, Exclusive, Sending
  <2>5. CASE Release(w)
    <3>1. /\ Sending(w) /\ reserved' = reserved \ {worker[w].key}
          /\ worker'[w].pc = "advance"
      BY <2>5 DEF Release, Sending, Advance, SendInv, WorkersOK, Handlers
    <3> QED BY <1>2, <2>1, <3>1, SendingSteps DEF SendInv, Exclusive, Sending
  <2> QED BY <1>2, <2>2, <2>3, <2>4, <2>5
<1>3. ASSUME NEW k \in Keys, ReservationExpires(k) PROVE SendInv'
  BY <1>3 DEF ReservationExpires, SendInv, WorkersOK, Exclusive, Sending
<1> QED BY <1>1, <1>2, <1>3, StepsElsewhere

\* Under every fault the model knows, and for any number of workers, the
\* provider is never called twice at once for one message.
THEOREM OneSenderAtATime == Spec => []SingleSender
<1>1. SendInv => SingleSender
  BY DEF SendInv, Exclusive, Sending, SingleSender
<1> QED BY <1>1, SendInit, SendStep, PTL DEF Spec

----------------------------------------------------------------------------
(* At most one send. A message that went out keeps its reservation, and while   *)
(* somebody is sending it, it has not gone out.                                 *)

Once == \A k \in Keys \ doubted :
          /\ accepted[k] <= 1
          /\ accepted[k] > 0 => k \in reserved
          /\ \A w \in Workers : Sending(w) /\ worker[w].key = k => accepted[k] = 0

LEMMA OnceInit == Init => Once
BY DEF Init, Once, Sending, Idle

LEMMA OnceStep ==
  ASSUME SendInv, Once, [Next]_vars
  PROVE  Once'
<1>1. CASE Elsewhere
  BY <1>1 DEF Elsewhere, Once, Sending
<1>2. ASSUME NEW w \in Workers, ProviderAccepts(w) PROVE Once'
  <2> DEFINE k == worker[w].key
  <2>1. /\ k \in Keys /\ k \in reserved /\ reserved' = reserved
        /\ k \notin doubted => accepted[k] = 0
    BY <1>2, SendingSteps DEF ProviderAccepts, Sending, SendInv, Exclusive, Once
  <2>2. \A n \in Keys : accepted'[n] = IF n = k THEN accepted[k] + 1 ELSE accepted[n]
    BY <1>2, <2>1 DEF ProviderAccepts, SendInv, WorkersOK
  <2>3. \/ worker'[w].pc = "accepted" /\ doubted' = doubted
        \/ doubted' = doubted \cup {k}
    BY <1>2 DEF ProviderAccepts, SendInv, WorkersOK, Handlers
  <2>4. \A v \in Workers \ {w} : ~(Sending(v) /\ worker[v].key = k)
    BY <1>2 DEF SendInv, Exclusive, ProviderAccepts, Sending
  <2> HIDE DEF k
  <2>5. \A v \in Workers \ {w} : worker'[v] = worker[v]
    BY <1>2, SendingSteps
  <2>6. worker'[w].key = k
    BY <1>2, SendingSteps DEF k
  <2>7. ASSUME NEW n \in Keys \ doubted', n # k
        PROVE  /\ accepted'[n] <= 1 /\ (accepted'[n] > 0 => n \in reserved')
               /\ \A v \in Workers : Sending(v)' /\ worker'[v].key = n => accepted'[n] = 0
    BY <2>1, <2>2, <2>3, <2>5, <2>6, <2>7 DEF Once, Sending
  <2>8. ASSUME k \notin doubted'
        PROVE  /\ accepted'[k] <= 1 /\ (accepted'[k] > 0 => k \in reserved')
               /\ \A v \in Workers : Sending(v)' /\ worker'[v].key = k => accepted'[k] = 0
    <3>1. worker'[w].pc = "accepted" /\ accepted'[k] = 1
      BY <2>1, <2>2, <2>3, <2>8
    <3> QED BY <2>1, <2>4, <2>5, <3>1 DEF Sending
  <2> QED BY <2>7, <2>8 DEF Once
<1>3. ASSUME NEW w \in Workers, Reserve(w) PROVE Once'
  <2>1. CASE worker[w].key \notin reserved
    <3>1. worker[w].key \notin doubted => accepted[worker[w].key] = 0
      BY <1>3, <2>1, SendingSteps DEF Once, SendInv, WorkersOK
    <3> QED BY <1>3, <2>1, <3>1, SendingSteps DEF Once, Sending, Reserve, outside
  <2>2. CASE worker[w].key \in reserved
    <3>1. worker'[w].pc = "advance"
      BY <1>3, <2>2 DEF Reserve, Advance, SendInv, WorkersOK, Handlers
    <3> QED BY <1>3, <2>2, <3>1, SendingSteps DEF Once, Sending, Reserve, outside
  <2> QED BY <2>1, <2>2
<1>4. ASSUME NEW w \in Workers, ProviderRefuses(w) \/ Release(w) PROVE Once'
  <2>1. /\ Sending(w) /\ UNCHANGED <<accepted, doubted>>
        /\ reserved \ {worker[w].key} \subseteq reserved'
    BY <1>4 DEF ProviderRefuses, Release, Sending, outside
  <2> QED BY <1>4, <2>1, SendingSteps DEF Once, Sending
<1>5. ASSUME NEW k \in Keys, ReservationExpires(k) PROVE Once'
  BY <1>5 DEF ReservationExpires, Once, Sending
<1> QED BY <1>1, <1>2, <1>3, <1>4, <1>5, StepsElsewhere

\* Crashes, stalled locks, failed updates and refusals at any point, with any
\* number of concurrent executions: the provider takes each message at most
\* once, unless it gave a wrong answer for it or its reservation expired.
THEOREM SentAtMostOnce == Spec => []AtMostOneSend
<1>1. Init => SendInv /\ Once
  BY SendInit, OnceInit
<1>2. SendInv /\ Once /\ [Next]_vars => (SendInv /\ Once)'
  BY SendStep, OnceStep
<1>3. Once => AtMostOneSend
  BY DEF Once, AtMostOneSend
<1> QED BY <1>1, <1>2, <1>3, PTL DEF Spec

----------------------------------------------------------------------------
(* Types. A job with a holder is active, an active job has attempts left, and a *)
(* webhook call that moves or suppresses has an event that does.                *)

QueueOK ==
  /\ job \in [Keys -> {"none", "waiting", "active", "done", "failed"}]
  /\ holder \in [Keys -> Workers \cup {NoWorker}]
  /\ tries \in [Keys -> 0..MaxAttempts] /\ stalls \in [Keys -> 0..MaxStalls]
  /\ \A k \in Keys : /\ holder[k] # NoWorker => job[k] = "active"
                     /\ job[k] \in {"none", "waiting", "active"} => tries[k] < MaxAttempts

RowsOK == msg \in [Keys -> DOMAIN Rank] /\ providerId \in [Keys -> Nat]
KeysOK == reserved \subseteq Keys /\ doubted \subseteq Keys /\ interrupted \subseteq Keys

Calls == [pc : {"idle", "append", "advance", "write", "suppress"}, event : Events \cup {NoEvent}]
HooksOK ==
  /\ hook \in [Hooks -> Calls] /\ seen \subseteq Events /\ caused \subseteq Events
  /\ suppressed \in {"no", "HARD_BOUNCE", "COMPLAINT"}
  /\ \A h \in Hooks : /\ hook[h].pc # "idle" => hook[h].event \in Events
                      /\ hook[h].pc \in {"advance", "write"} => MovesStatus(hook[h].event.type)
                      /\ hook[h].pc = "suppress" => hook[h].event.type \in {"BOUNCED", "COMPLAINED"}

PipelineInv == SendInv /\ QueueOK /\ RowsOK /\ KeysOK /\ HooksOK

LEMMA RankFacts ==
  /\ DOMAIN Rank = {"ABSENT", "QUEUED", "SENDING", "SENT", "DELAYED", "DELIVERED", "BOUNCED",
                    "COMPLAINED", "FAILED", "SUPPRESSED"}
  /\ DOMAIN SuppressesAs = {"BOUNCED", "COMPLAINED"}
  /\ \A type \in {"BOUNCED", "COMPLAINED"} : SuppressesAs[type] \in {"HARD_BOUNCE", "COMPLAINT"}
BY DEF Rank, SuppressesAs

LEMMA PipelineInit == Init => PipelineInv
<1> SUFFICES ASSUME Init PROVE PipelineInv
  OBVIOUS
<1>1. QueueOK
  BY PipelineConstants DEF Init, QueueOK
<1>2. RowsOK /\ KeysOK
  BY RankFacts DEF Init, RowsOK, KeysOK
<1>3. HooksOK
  BY DEF Init, HooksOK, HookIdle, Calls
<1> QED BY <1>1, <1>2, <1>3, SendInit DEF PipelineInv

\* Only four kinds of step touch the queue.
LEMMA QueueWriters ==
  ASSUME [Next]_vars
  PROVE  \/ UNCHANGED queueVars
         \/ \E k \in Keys : Enqueue(k) \/ Requeue(k) \/ \E w \in Workers : Take(w, k)
         \/ \E w \in Workers : Finish(w)
<1>1. ASSUME NEW w \in Workers, WorkerStep(w) \/ Crash(w), ~Finish(w)
      PROVE  UNCHANGED queueVars
  BY <1>1 DEF WorkerStep, Crash, Record, CheckSuppression, AdvanceRead, AdvanceWrite, Reserve,
     ProviderAccepts, ProviderRefuses, Release, SaveProviderId
<1>2. ASSUME NEW h \in Hooks, HookStart(h) \/ HookStep(h) \/ HookCrash(h)
      PROVE  UNCHANGED queueVars
  BY <1>2 DEF HookStart, HookStep, HookCrash, AppendEvent, HookRead, HookWrite, HookSuppress
<1>3. ReleaseSuppression \/ UNCHANGED vars \/ (\E k \in Keys : ReservationExpires(k)) => UNCHANGED queueVars
  BY DEF ReleaseSuppression, vars, ReservationExpires
<1> QED BY <1>1, <1>2, <1>3 DEF Next

LEMMA QueueStep ==
  ASSUME PipelineInv, [Next]_vars
  PROVE  QueueOK'
<1>1. CASE UNCHANGED queueVars
  BY <1>1 DEF queueVars, QueueOK, PipelineInv
<1>2. ASSUME NEW k \in Keys, Enqueue(k) PROVE QueueOK'
  BY <1>2 DEF Enqueue, QueueOK, PipelineInv
<1>3. ASSUME NEW k \in Keys, NEW w \in Workers, Take(w, k) PROVE QueueOK'
  BY <1>3 DEF Take, QueueOK, PipelineInv
<1>4. ASSUME NEW k \in Keys, Requeue(k) PROVE QueueOK'
  <2>1. stalls[k] \in Nat /\ MaxStalls \in Nat
    BY PipelineConstants DEF PipelineInv, QueueOK
  <2>2. stalls[k] < MaxStalls => stalls[k] + 1 \in 0..MaxStalls
    BY <2>1
  <2> QED BY <1>4, <2>2 DEF Requeue, QueueOK, PipelineInv
<1>5. ASSUME NEW w \in Workers, Finish(w) PROVE QueueOK'
  <2> DEFINE k == worker[w].key
  <2>1. k \in Keys
    BY <1>5 DEF Finish, PipelineInv, SendInv, WorkersOK
  <2>2. CASE holder[k] # w
    BY <1>5, <2>2 DEF Finish, PipelineInv, QueueOK
  <2>3. CASE holder[k] = w
    <3>1. job[k] = "active" /\ tries[k] < MaxAttempts /\ tries[k] \in Nat /\ MaxAttempts \in Nat
      BY <2>1, <2>3, PipelineConstants DEF PipelineInv, QueueOK
    <3>2. tries[k] + 1 \in 0..MaxAttempts
      BY <3>1
    <3>3. CASE worker[w].after = "retry"
      <4>1. /\ holder' = [holder EXCEPT ![k] = NoWorker] /\ tries' = [tries EXCEPT ![k] = tries[k] + 1]
            /\ job' = [job EXCEPT ![k] = IF tries[k] + 1 < MaxAttempts THEN "waiting" ELSE "failed"]
            /\ stalls' = stalls
        BY <1>5, <2>3, <3>3 DEF Finish
      <4> HIDE DEF k
      <4> QED BY <2>1, <3>1, <3>2, <4>1 DEF PipelineInv, QueueOK
    <3>4. CASE worker[w].after # "retry"
      BY <1>5, <2>1, <2>3, <3>4 DEF Finish, PipelineInv, QueueOK
    <3> QED BY <3>3, <3>4
  <2> QED BY <2>2, <2>3
<1> QED BY <1>1, <1>2, <1>3, <1>4, <1>5, QueueWriters

\* A webhook call that goes on, and one that ends.
LEMMA HookMoves ==
  ASSUME PipelineInv, NEW h \in Hooks, NEW pc \in {"advance", "write", "suppress"}, hook[h].pc # "idle",
         HookGoto(h, pc)
  PROVE  /\ hook' \in [Hooks -> Calls] /\ hook'[h].pc = pc /\ hook'[h].event = hook[h].event
         /\ \A g \in Hooks \ {h} : hook'[g] = hook[g]
<1> DEFINE c == [hook[h] EXCEPT !.pc = pc]
<1>1. hook[h] \in Calls /\ hook \in [Hooks -> Calls]
  BY DEF PipelineInv, HooksOK
<1>2. c \in Calls /\ c.pc = pc /\ c.event = hook[h].event
  BY <1>1 DEF Calls
<1>3. hook' = [hook EXCEPT ![h] = c]
  BY DEF HookGoto
<1> HIDE DEF c
<1> QED BY <1>1, <1>2, <1>3

LEMMA HookEnds ==
  ASSUME PipelineInv, NEW h \in Hooks, HookDone(h)
  PROVE  /\ hook' \in [Hooks -> Calls] /\ hook'[h].pc = "idle"
         /\ \A g \in Hooks \ {h} : hook'[g] = hook[g]
<1>1. HookIdle \in Calls /\ HookIdle.pc = "idle"
  BY DEF HookIdle, Calls
<1> QED BY <1>1 DEF HookDone, PipelineInv, HooksOK

\* What is left of a call after its status was applied or was too low.
LEMMA HookGoesOn ==
  ASSUME PipelineInv, NEW h \in Hooks, hook[h].pc \in {"advance", "write"}, AfterStatus(h)
  PROVE  /\ hook' \in [Hooks -> Calls] /\ \A g \in Hooks \ {h} : hook'[g] = hook[g]
         /\ \/ hook'[h].pc = "idle"
            \/ /\ hook'[h].pc = "suppress" /\ hook'[h].event = hook[h].event
               /\ hook[h].event.type \in {"BOUNCED", "COMPLAINED"}
BY RankFacts, HookMoves, HookEnds DEF AfterStatus

\* Only webhook calls and an operator touch the suppression list and the events.
LEMMA HookWriters ==
  ASSUME [Next]_vars
  PROVE  UNCHANGED hookVars \/ ReleaseSuppression \/ \E h \in Hooks : HookStart(h) \/ HookStep(h) \/ HookCrash(h)
<1>1. ASSUME NEW w \in Workers, WorkerStep(w) \/ Crash(w)
      PROVE  UNCHANGED hookVars
  BY <1>1 DEF WorkerStep, Crash, Record, CheckSuppression, AdvanceRead, AdvanceWrite, Reserve,
     ProviderAccepts, ProviderRefuses, Release, SaveProviderId, Finish
<1>2. ASSUME NEW k \in Keys, Enqueue(k) \/ Requeue(k) \/ ReservationExpires(k) \/ \E w \in Workers : Take(w, k)
      PROVE  UNCHANGED hookVars
  BY <1>2 DEF Enqueue, Requeue, ReservationExpires, Take
<1>3. UNCHANGED vars => UNCHANGED hookVars
  BY DEF vars
<1> QED BY <1>1, <1>2, <1>3 DEF Next

LEMMA HooksStep ==
  ASSUME PipelineInv, [Next]_vars
  PROVE  HooksOK'
<1> USE DEF PipelineInv, HooksOK
<1>1. CASE UNCHANGED hookVars
  BY <1>1 DEF hookVars
<1>2. CASE ReleaseSuppression
  BY <1>2 DEF ReleaseSuppression
<1>3. ASSUME NEW h \in Hooks, HookStart(h) PROVE HooksOK'
  <2>1. PICK e \in Events : hook' = [hook EXCEPT ![h] = [pc |-> "append", event |-> e]]
    BY <1>3 DEF HookStart
  <2>2. [pc |-> "append", event |-> e] \in Calls
    BY DEF Calls
  <2> QED BY <1>3, <2>1, <2>2 DEF HookStart
<1>4. ASSUME NEW h \in Hooks, AppendEvent(h) PROVE HooksOK'
  <2>1. hook[h].pc = "append" /\ hook[h].event \in Events
    BY <1>4 DEF AppendEvent
  <2>2. HookDone(h) \/ (MovesStatus(hook[h].event.type) /\ HookGoto(h, "advance"))
    BY <1>4 DEF AppendEvent
  <2>3. /\ hook' \in [Hooks -> Calls] /\ \A g \in Hooks \ {h} : hook'[g] = hook[g]
        /\ \/ hook'[h].pc = "idle"
           \/ hook'[h].pc = "advance" /\ hook'[h].event = hook[h].event /\ MovesStatus(hook[h].event.type)
    BY <2>1, <2>2, HookMoves, HookEnds
  <2> QED BY <1>4, <2>1, <2>3 DEF AppendEvent
<1>5. ASSUME NEW h \in Hooks, HookRead(h) PROVE HooksOK'
  <2>1. hook[h].pc = "advance" /\ (HookGoto(h, "write") \/ AfterStatus(h))
    BY <1>5 DEF HookRead
  <2>2. /\ hook' \in [Hooks -> Calls] /\ \A g \in Hooks \ {h} : hook'[g] = hook[g]
        /\ \/ hook'[h].pc = "idle"
           \/ hook'[h].pc = "write" /\ hook'[h].event = hook[h].event
           \/ /\ hook'[h].pc = "suppress" /\ hook'[h].event = hook[h].event
              /\ hook[h].event.type \in {"BOUNCED", "COMPLAINED"}
    BY <2>1, HookMoves, HookGoesOn
  <2> QED BY <1>5, <2>1, <2>2 DEF HookRead
<1>6. ASSUME NEW h \in Hooks, HookWrite(h) PROVE HooksOK'
  <2>1. hook[h].pc = "write" /\ AfterStatus(h)
    BY <1>6 DEF HookWrite
  <2> QED BY <1>6, <2>1, HookGoesOn DEF HookWrite
<1>7. ASSUME NEW h \in Hooks, HookSuppress(h) PROVE HooksOK'
  <2>1. hook[h].pc = "suppress" /\ HookDone(h)
    BY <1>7 DEF HookSuppress
  <2>2. suppressed' \in {"HARD_BOUNCE", "COMPLAINT"} /\ caused' \subseteq Events
    BY <1>7, <2>1, RankFacts DEF HookSuppress
  <2> QED BY <1>7, <2>1, <2>2, HookEnds DEF HookSuppress
<1>8. ASSUME NEW h \in Hooks, HookCrash(h) PROVE HooksOK'
  BY <1>8, HookEnds DEF HookCrash
<1> QED BY <1>1, <1>2, <1>3, <1>4, <1>5, <1>6, <1>7, <1>8, HookWriters DEF HookStep

LEMMA RowsStep ==
  ASSUME PipelineInv, [Next]_vars
  PROVE  RowsOK'
<1> USE DEF PipelineInv, RowsOK
<1>1. UNCHANGED logVars => RowsOK'
  BY DEF logVars
<1>2. ASSUME NEW w \in Workers, Record(w) \/ AdvanceWrite(w) PROVE RowsOK'
  <2>1. worker[w] \in Handlers
    BY DEF SendInv, WorkersOK
  <2>2. worker[w].next \in DOMAIN Rank /\ "QUEUED" \in DOMAIN Rank
    BY <2>1, RankFacts DEF Handlers, Statuses
  <2> QED BY <1>2, <2>2 DEF Record, AdvanceWrite
<1>3. ASSUME NEW w \in Workers, SaveProviderId(w) PROVE RowsOK'
  <2>1. worker[w].nth \in Nat
    BY DEF SendInv, WorkersOK, Handlers
  <2> QED BY <1>3, <2>1 DEF SaveProviderId
<1>4. ASSUME NEW h \in Hooks, HookWrite(h) PROVE RowsOK'
  <2>1. hook[h].event \in Events /\ MovesStatus(hook[h].event.type)
    BY <1>4 DEF HookWrite, HooksOK
  <2>2. StatusOf(hook[h].event.type) \in DOMAIN Rank
    BY <2>1, RankFacts, PipelineConstants DEF Events, AllEventTypes, MovesStatus, StatusOf
  <2> QED BY <1>4, <2>2 DEF HookWrite
<1>5. ASSUME NEW w \in Workers, WorkerStep(w) \/ Crash(w), ~Record(w), ~AdvanceWrite(w), ~SaveProviderId(w)
      PROVE  UNCHANGED logVars
  BY <1>5 DEF WorkerStep, Crash, CheckSuppression, AdvanceRead, Reserve, ProviderAccepts, ProviderRefuses,
     Release, Finish
<1>6. ASSUME NEW h \in Hooks, HookStart(h) \/ HookStep(h) \/ HookCrash(h), ~HookWrite(h)
      PROVE  UNCHANGED logVars
  BY <1>6 DEF HookStart, HookStep, HookCrash, AppendEvent, HookRead, HookSuppress
<1>7. ASSUME NEW k \in Keys, Enqueue(k) \/ Requeue(k) \/ ReservationExpires(k) \/ \E w \in Workers : Take(w, k)
      PROVE  UNCHANGED logVars
  BY <1>7 DEF Enqueue, Requeue, ReservationExpires, Take
<1>8. ReleaseSuppression \/ UNCHANGED vars => UNCHANGED logVars
  BY DEF ReleaseSuppression, vars
<1> QED BY <1>1, <1>2, <1>3, <1>4, <1>5, <1>6, <1>7, <1>8 DEF Next

\* A key that was interrupted stays so.
LEMMA InterruptedGrows ==
  ASSUME PipelineInv, [Next]_vars
  PROVE  interrupted \subseteq interrupted' /\ interrupted' \subseteq interrupted \cup Keys
<1> DEFINE Goal == interrupted \subseteq interrupted' /\ interrupted' \subseteq interrupted \cup Keys
<1>1. ASSUME NEW w \in Workers, WorkerStep(w) \/ \E k \in Keys : Take(w, k)
      PROVE  Goal
  BY <1>1 DEF WorkerStep, Take, Record, CheckSuppression, AdvanceRead, AdvanceWrite, Reserve,
     ProviderAccepts, ProviderRefuses, Release, SaveProviderId, Finish, outside
<1>2. ASSUME NEW w \in Workers, Crash(w)
      PROVE  Goal
  <2>1. worker[w].key \in Keys
    BY <1>2 DEF Crash, PipelineInv, SendInv, WorkersOK
  <2> QED BY <1>2, <2>1 DEF Crash
<1>3. ASSUME NEW k \in Keys, Enqueue(k) \/ Requeue(k) \/ ReservationExpires(k)
      PROVE  Goal
  BY <1>3 DEF Enqueue, Requeue, ReservationExpires, outside
<1>4. ASSUME NEW h \in Hooks, HookStart(h) \/ HookStep(h) \/ HookCrash(h)
      PROVE  Goal
  BY <1>4 DEF HookStart, HookStep, HookCrash, AppendEvent, HookRead, HookWrite, HookSuppress, outside
<1>5. ReleaseSuppression \/ UNCHANGED vars => Goal
  BY DEF ReleaseSuppression, vars, outside
<1> QED BY <1>1, <1>2, <1>3, <1>4, <1>5 DEF Next

LEMMA KeysStep ==
  ASSUME PipelineInv, [Next]_vars
  PROVE  KeysOK'
<1> USE DEF PipelineInv, KeysOK
<1>0. interrupted' \subseteq Keys
  BY InterruptedGrows
<1>1. CASE Elsewhere
  BY <1>0, <1>1 DEF Elsewhere
<1>2. ASSUME NEW w \in Workers, Reserve(w) \/ ProviderAccepts(w) \/ ProviderRefuses(w) \/ Release(w)
      PROVE  KeysOK'
  <2>1. worker[w].key \in Keys
    BY <1>2, SendingSteps
  <2> QED BY <1>0, <1>2, <2>1 DEF Reserve, ProviderAccepts, ProviderRefuses, Release, outside
<1>3. ASSUME NEW k \in Keys, ReservationExpires(k) PROVE KeysOK'
  BY <1>0, <1>3 DEF ReservationExpires
<1> QED BY <1>1, <1>2, <1>3, StepsElsewhere

LEMMA PipelineStep == PipelineInv /\ [Next]_vars => PipelineInv'
BY SendStep, QueueStep, RowsStep, KeysStep, HooksStep DEF PipelineInv

LEMMA PipelineAlways == Spec => []PipelineInv
BY PipelineInit, PipelineStep, PTL DEF Spec

\* Jobs, rows, reservations, handlers and webhook calls hold what they may hold,
\* and no job is tried or put back more often than BullMQ allows.
THEOREM PipelineTypeCorrect == Spec => []TypeOK
<1>1. PipelineInv => TypeOK
  BY DEF PipelineInv, SendInv, WorkersOK, QueueOK, RowsOK, KeysOK, HooksOK, Calls, TypeOK
<1> QED BY <1>1, PipelineAlways, PTL

----------------------------------------------------------------------------
(* Replays. The call that stored an event is the only one that may act on it.   *)

Acting(h) == hook[h].pc \in {"advance", "write", "suppress"}
FirstOnly ==
  /\ caused \subseteq seen
  /\ \A h \in Hooks : Acting(h) => hook[h].event \in seen /\ hook[h].event \notin caused
  /\ \A g, h \in Hooks : Acting(g) /\ Acting(h) /\ hook[g].event = hook[h].event => g = h

\* A call that goes on with its event, or ends, and stores and suppresses nothing.
LEMMA StillFirst ==
  ASSUME FirstOnly, NEW h \in Hooks, Acting(h), UNCHANGED <<seen, caused>>,
         \A g \in Hooks \ {h} : hook'[g] = hook[g], Acting(h)' => hook'[h].event = hook[h].event
  PROVE  FirstOnly'
BY DEF FirstOnly, Acting

LEMMA FirstStep ==
  ASSUME PipelineInv, FirstOnly, [Next]_vars
  PROVE  FirstOnly'
<1> USE DEF FirstOnly, Acting
<1>1. CASE UNCHANGED hookVars
  BY <1>1 DEF hookVars
<1>2. CASE ReleaseSuppression
  BY <1>2 DEF ReleaseSuppression
<1>3. ASSUME NEW h \in Hooks, HookStart(h) PROVE FirstOnly'
  <2>1. PICK e \in Events : hook' = [hook EXCEPT ![h] = [pc |-> "append", event |-> e]]
    BY <1>3 DEF HookStart
  <2> QED BY <1>3, <2>1 DEF HookStart, PipelineInv, HooksOK
<1>4. ASSUME NEW h \in Hooks, AppendEvent(h) PROVE FirstOnly'
  <2>1. hook[h].pc = "append" /\ seen' = seen \cup {hook[h].event} /\ caused' = caused
    BY <1>4 DEF AppendEvent
  <2>2. HookDone(h) \/ (hook[h].event \notin seen /\ HookGoto(h, "advance"))
    BY <1>4 DEF AppendEvent
  <2>3. CASE HookDone(h)
    BY <2>1, <2>3, HookEnds
  <2>4. CASE hook[h].event \notin seen /\ HookGoto(h, "advance")
    <3>1. /\ hook'[h].event = hook[h].event /\ \A g \in Hooks \ {h} : hook'[g] = hook[g]
      BY <2>1, <2>4, HookMoves
    <3>2. \A g \in Hooks \ {h} : Acting(g) => hook[g].event # hook[h].event
      BY <2>4
    <3> QED BY <2>1, <2>4, <3>1, <3>2
  <2> QED BY <2>2, <2>3, <2>4
<1> USE DEF PipelineInv, HooksOK
<1>5. ASSUME NEW h \in Hooks, HookRead(h) PROVE FirstOnly'
  <2>1. hook[h].pc = "advance" /\ (HookGoto(h, "write") \/ AfterStatus(h)) /\ UNCHANGED <<seen, caused>>
    BY <1>5 DEF HookRead
  <2>2. /\ \A g \in Hooks \ {h} : hook'[g] = hook[g]
        /\ Acting(h)' => hook'[h].event = hook[h].event
    BY <2>1, HookMoves, HookGoesOn
  <2> QED BY <2>1, <2>2, StillFirst
<1>6. ASSUME NEW h \in Hooks, HookWrite(h) PROVE FirstOnly'
  <2>1. hook[h].pc = "write" /\ AfterStatus(h) /\ UNCHANGED <<seen, caused>>
    BY <1>6 DEF HookWrite
  <2>2. /\ \A g \in Hooks \ {h} : hook'[g] = hook[g]
        /\ Acting(h)' => hook'[h].event = hook[h].event
    BY <2>1, HookGoesOn
  <2> QED BY <2>1, <2>2, StillFirst
<1>7. ASSUME NEW h \in Hooks, HookSuppress(h) PROVE FirstOnly'
  <2>1. hook[h].pc = "suppress" /\ HookDone(h) /\ caused' = caused \cup {hook[h].event} /\ seen' = seen
    BY <1>7 DEF HookSuppress
  <2>2. hook'[h].pc = "idle" /\ \A g \in Hooks \ {h} : hook'[g] = hook[g]
    BY <2>1, HookEnds
  <2> QED BY <2>1, <2>2
<1>8. ASSUME NEW h \in Hooks, HookCrash(h) PROVE FirstOnly'
  <2>1. hook'[h].pc = "idle" /\ \A g \in Hooks \ {h} : hook'[g] = hook[g]
    BY <1>8, HookEnds DEF HookCrash
  <2> QED BY <1>8, <2>1 DEF HookCrash
<1> QED BY <1>1, <1>2, <1>3, <1>4, <1>5, <1>6, <1>7, <1>8, HookWriters DEF HookStep

\* However many webhook calls carry the same event, at once or after one another,
\* and wherever the API dies, the address is suppressed once for it: a replay does
\* not undo what an operator released.
THEOREM ReplaysChangeNothing == Spec => []ReplayIsNoop
<1>1. Init => FirstOnly
  BY DEF Init, FirstOnly, Acting, HookIdle
<1>2. FirstOnly => ReplayIsNoop
  BY DEF FirstOnly, Acting, ReplayIsNoop
<1>3. PipelineInv /\ FirstOnly /\ [Next]_vars => FirstOnly'
  BY FirstStep
<1> QED BY <1>1, <1>2, <1>3, PipelineAlways, PTL DEF Spec

----------------------------------------------------------------------------
(* How a handler goes on.                                                       *)

LEMMA GotoFacts ==
  ASSUME SendInv, NEW w \in Workers, NEW pc, Goto(w, pc)
  PROVE  /\ worker'[w].pc = pc /\ worker'[w].key = worker[w].key /\ worker'[w].next = worker[w].next
         /\ worker'[w].after = worker[w].after /\ worker'[w].nth = worker[w].nth
         /\ \A v \in Workers \ {w} : worker'[v] = worker[v]
BY DEF Goto, SendInv, WorkersOK, Handlers

LEMMA AdvanceFacts ==
  ASSUME SendInv, NEW w \in Workers, NEW status, NEW after, Advance(w, status, after)
  PROVE  /\ worker'[w].pc = "advance" /\ worker'[w].key = worker[w].key /\ worker'[w].next = status
         /\ worker'[w].after = after
         /\ \A v \in Workers \ {w} : worker'[v] = worker[v]
BY DEF Advance, SendInv, WorkersOK, Handlers

----------------------------------------------------------------------------
(* Sends are granted. Each execution that may still call the provider, and each *)
(* one the queue will still start, is one the attempts and the stalls counted.  *)

MayCall(w) == \/ worker[w].pc \in {"record", "check", "reserve", "send"}
              \/ worker[w].pc \in {"advance", "write"} /\ worker[w].after = "reserve"
Callers(k) == {w \in Workers : worker[w].key = k /\ MayCall(w)}
Start(k) == IF job[k] \in {"none", "waiting"} THEN 1 ELSE 0
Granted == \A k \in Keys :
  /\ IsFiniteSet(Callers(k))
  /\ accepted[k] + Cardinality(Callers(k)) + Start(k) <= 1 + tries[k] + stalls[k]

NoMoreCallers == \A v \in Workers : MayCall(v)' => MayCall(v) /\ worker'[v].key = worker[v].key

LEMMA CallersFall ==
  ASSUME SendInv, [Next]_vars, ~\E w \in Workers, k \in Keys : Take(w, k)
  PROVE  NoMoreCallers
<1> USE DEF MayCall
<1> DEFINE Goal == NoMoreCallers
<1>1. UNCHANGED worker => Goal
  BY DEF NoMoreCallers
<1>2. ASSUME NEW w \in Workers, Record(w) PROVE Goal
  <2>1. CASE Goto(w, "check")
    BY <1>2, <2>1, GotoFacts DEF Record, NoMoreCallers
  <2>2. CASE worker' = [worker EXCEPT ![w] = [@ EXCEPT !.pc = "finish", !.after = "done"]]
    BY <2>2 DEF SendInv, WorkersOK, Handlers, NoMoreCallers
  <2> QED BY <1>2, <2>1, <2>2 DEF Record
<1>3. ASSUME NEW w \in Workers, CheckSuppression(w) PROVE Goal
  <2>1. worker[w].pc = "check" /\ (Advance(w, "SUPPRESSED", "done") \/ Advance(w, "SENDING", "reserve"))
    BY <1>3 DEF CheckSuppression
  <2> QED BY <2>1, AdvanceFacts DEF NoMoreCallers
<1>4. ASSUME NEW w \in Workers, AdvanceRead(w) \/ AdvanceWrite(w) PROVE Goal
  <2>1. worker[w].pc \in {"advance", "write"}
    BY <1>4 DEF AdvanceRead, AdvanceWrite
  <2>2. Goto(w, "write") \/ Goto(w, IF worker[w].after = "reserve" THEN "reserve" ELSE "finish")
    BY <1>4 DEF AdvanceRead, AdvanceWrite, Continue
  <2>3. CASE Goto(w, "write")
    BY <2>1, <2>3, GotoFacts DEF NoMoreCallers
  <2>4. CASE Goto(w, IF worker[w].after = "reserve" THEN "reserve" ELSE "finish")
    BY <2>1, <2>4, GotoFacts DEF NoMoreCallers
  <2> QED BY <2>2, <2>3, <2>4
<1>5. ASSUME NEW w \in Workers, Reserve(w) PROVE Goal
  <2>1. worker[w].pc = "reserve" /\ (Advance(w, "SENT", "done") \/ Goto(w, "send"))
    BY <1>5 DEF Reserve
  <2> QED BY <2>1, AdvanceFacts, GotoFacts DEF NoMoreCallers
<1>6. ASSUME NEW w \in Workers, ProviderAccepts(w) \/ ProviderRefuses(w) PROVE Goal
  <2>1. CASE Goto(w, "release")
    BY <2>1, GotoFacts DEF NoMoreCallers
  <2>2. CASE worker' = [worker EXCEPT ![w] = [@ EXCEPT !.pc = "accepted", !.nth = accepted[worker[w].key] + 1]]
    BY <2>2 DEF SendInv, WorkersOK, Handlers, NoMoreCallers
  <2> QED BY <1>6, <2>1, <2>2 DEF ProviderAccepts, ProviderRefuses
<1>7. ASSUME NEW w \in Workers, Release(w) \/ SaveProviderId(w) PROVE Goal
  <2>1. Advance(w, "SENT", "done") \/ Advance(w, "FAILED", "retry")
    BY <1>7 DEF Release, SaveProviderId
  <2> QED BY <2>1, AdvanceFacts DEF NoMoreCallers
<1>8. ASSUME NEW w \in Workers, Finish(w) \/ Crash(w) PROVE Goal
  BY <1>8 DEF Finish, Crash, Idle, SendInv, WorkersOK, NoMoreCallers
<1>9. ASSUME NEW k \in Keys, Enqueue(k) \/ Requeue(k) \/ ReservationExpires(k) PROVE UNCHANGED worker
  BY <1>9 DEF Enqueue, Requeue, ReservationExpires
<1>10. ASSUME NEW h \in Hooks, HookStart(h) \/ HookStep(h) \/ HookCrash(h) PROVE UNCHANGED worker
  BY <1>10 DEF HookStart, HookStep, HookCrash, AppendEvent, HookRead, HookWrite, HookSuppress
<1>11. ReleaseSuppression \/ UNCHANGED vars => UNCHANGED worker
  BY DEF ReleaseSuppression, vars
<1> QED BY <1>1, <1>2, <1>3, <1>4, <1>5, <1>6, <1>7, <1>8, <1>9, <1>10, <1>11 DEF Next, WorkerStep

\* A job that is put back pays for it with an attempt or a stall.
LEMMA StartsArePaid ==
  ASSUME PipelineInv, [Next]_vars, ~\E w \in Workers, k \in Keys : Take(w, k), NEW n \in Keys
  PROVE  /\ tries[n] \in Nat /\ stalls[n] \in Nat /\ tries'[n] \in Nat /\ stalls'[n] \in Nat
         /\ Start(n) \in 0..1 /\ Start(n)' \in 0..1
         /\ tries[n] + stalls[n] + Start(n)' <= tries'[n] + stalls'[n] + Start(n)
<1>1. QueueOK /\ QueueOK'
  BY QueueStep DEF PipelineInv
<1>2. /\ tries[n] \in Nat /\ stalls[n] \in Nat /\ tries'[n] \in Nat /\ stalls'[n] \in Nat
      /\ Start(n) \in 0..1 /\ Start(n)' \in 0..1
  BY <1>1, PipelineConstants DEF QueueOK, Start
<1>3. CASE UNCHANGED queueVars
  BY <1>2, <1>3 DEF queueVars, Start
<1>4. ASSUME NEW k \in Keys, Enqueue(k)
      PROVE  tries[n] + stalls[n] + Start(n)' <= tries'[n] + stalls'[n] + Start(n)
  <2>1. tries' = tries /\ stalls' = stalls /\ Start(n)' = Start(n)
    BY <1>1, <1>4 DEF Enqueue, QueueOK, Start
  <2> QED BY <1>2, <2>1
<1>5. ASSUME NEW k \in Keys, Requeue(k)
      PROVE  tries[n] + stalls[n] + Start(n)' <= tries'[n] + stalls'[n] + Start(n)
  <2>1. /\ tries' = tries /\ job[k] = "active"
        /\ \/ stalls' = [stalls EXCEPT ![k] = stalls[k] + 1] /\ job' = [job EXCEPT ![k] = "waiting"]
           \/ stalls' = stalls /\ job' = [job EXCEPT ![k] = "failed"]
    BY <1>5 DEF Requeue
  <2>2. CASE n # k
    <3>1. stalls'[n] = stalls[n] /\ Start(n)' = Start(n)
      BY <1>1, <2>1, <2>2 DEF QueueOK, Start
    <3> QED BY <1>2, <2>1, <3>1
  <2>3. CASE n = k
    <3>1. Start(n) = 0 /\ ((stalls'[n] = stalls[n] + 1) \/ (stalls'[n] = stalls[n] /\ Start(n)' = 0))
      BY <1>1, <2>1, <2>3 DEF QueueOK, Start
    <3> QED BY <1>2, <2>1, <3>1
  <2> QED BY <2>2, <2>3
<1>6. ASSUME NEW w \in Workers, Finish(w)
      PROVE  tries[n] + stalls[n] + Start(n)' <= tries'[n] + stalls'[n] + Start(n)
  <2>1. PICK k : k = worker[w].key
    OBVIOUS
  <2>2. k \in Keys /\ stalls' = stalls
    BY <1>6, <2>1 DEF Finish, PipelineInv, SendInv, WorkersOK
  <2>3. \/ job' = job /\ tries' = tries
        \/ job[k] = "active" /\ tries' = [tries EXCEPT ![k] = tries[k] + 1] /\ \E s : job' = [job EXCEPT ![k] = s]
        \/ job[k] = "active" /\ tries' = tries /\ job' = [job EXCEPT ![k] = "done"]
    <3>1. holder[k] = w => job[k] = "active"
      BY <1>1, <2>2, PipelineConstants DEF QueueOK
    <3> QED BY <1>6, <2>1, <3>1 DEF Finish
  <2>4. CASE n # k
    <3>1. tries'[n] = tries[n] /\ Start(n)' = Start(n)
      BY <1>1, <2>3, <2>4 DEF QueueOK, Start
    <3> QED BY <1>2, <2>2, <3>1
  <2>5. CASE n = k
    <3>1. \/ tries'[n] = tries[n] /\ Start(n)' = Start(n)
          \/ tries'[n] = tries[n] + 1 /\ Start(n) = 0
          \/ tries'[n] = tries[n] /\ Start(n)' = 0
      BY <1>1, <2>2, <2>3, <2>5 DEF QueueOK, Start
    <3> QED BY <1>2, <2>2, <3>1
  <2> QED BY <2>4, <2>5
<1> QED BY <1>2, <1>3, <1>4, <1>5, <1>6, QueueWriters

LEMMA CallersTyped ==
  ASSUME PipelineInv, Granted, NEW n \in Keys
  PROVE  IsFiniteSet(Callers(n)) /\ Cardinality(Callers(n)) \in Nat /\ accepted[n] \in Nat
BY FS_CardinalityType DEF Granted, PipelineInv, SendInv, WorkersOK

LEMMA GrantedStep ==
  ASSUME PipelineInv, Granted, [Next]_vars
  PROVE  Granted'
<1>1. ASSUME NEW w \in Workers, NEW k \in Keys, Take(w, k)
      PROVE  Granted'
  <2>1. /\ worker' = [worker EXCEPT ![w] = [Idle EXCEPT !.pc = "record", !.key = k]] /\ worker[w].pc = "idle"
        /\ job[k] = "waiting" /\ job' = [job EXCEPT ![k] = "active"]
        /\ UNCHANGED <<tries, stalls, accepted>>
    BY <1>1 DEF Take, outside
  <2>2. MayCall(w)' /\ worker'[w].key = k /\ ~MayCall(w) /\ \A v \in Workers \ {w} : worker'[v] = worker[v]
    BY <2>1 DEF MayCall, Idle, PipelineInv, SendInv, WorkersOK
  <2>3. ASSUME NEW n \in Keys
        PROVE  /\ IsFiniteSet(Callers(n)')
               /\ accepted'[n] + Cardinality(Callers(n)') + Start(n)' <= 1 + tries'[n] + stalls'[n]
    <3>1. IsFiniteSet(Callers(n)) /\ Cardinality(Callers(n)) \in Nat /\ accepted[n] \in Nat
      BY CallersTyped
    <3>2. tries[n] \in Nat /\ stalls[n] \in Nat /\ Start(n) \in 0..1 /\ Start(n)' \in 0..1
      BY PipelineConstants DEF PipelineInv, QueueOK, Start
    <3>3. accepted[n] + Cardinality(Callers(n)) + Start(n) <= 1 + tries[n] + stalls[n]
      BY DEF Granted
    <3>4. CASE n = k
      <4>1. Callers(n)' = Callers(n) \cup {w} /\ w \notin Callers(n)
        BY <2>2, <3>4 DEF Callers, MayCall
      <4>2. IsFiniteSet(Callers(n)') /\ Cardinality(Callers(n)') = Cardinality(Callers(n)) + 1
        BY <3>1, <4>1, FS_AddElement
      <4>3. Start(n) = 1 /\ Start(n)' = 0
        BY <2>1, <3>4 DEF Start, PipelineInv, QueueOK
      <4> QED BY <2>1, <3>1, <3>2, <3>3, <4>2, <4>3
    <3>5. CASE n # k
      <4>1. Callers(n)' = Callers(n)
        BY <2>2, <3>5 DEF Callers, MayCall
      <4>2. Start(n)' = Start(n)
        BY <2>1, <3>5 DEF Start, PipelineInv, QueueOK
      <4> QED BY <2>1, <3>1, <3>3, <4>1, <4>2
    <3> QED BY <3>4, <3>5
  <2> QED BY <2>3 DEF Granted
<1>2. CASE ~\E w \in Workers, k \in Keys : Take(w, k)
  <2>1. NoMoreCallers
    BY <1>2, CallersFall DEF PipelineInv
  <2>2. ASSUME NEW n \in Keys
        PROVE  /\ IsFiniteSet(Callers(n)')
               /\ accepted'[n] + Cardinality(Callers(n)') + Start(n)' <= 1 + tries'[n] + stalls'[n]
    <3>1. IsFiniteSet(Callers(n)) /\ Cardinality(Callers(n)) \in Nat /\ accepted[n] \in Nat
      BY CallersTyped
    <3>2. accepted[n] + Cardinality(Callers(n)) + Start(n) <= 1 + tries[n] + stalls[n]
      BY DEF Granted
    <3>3. /\ tries[n] \in Nat /\ stalls[n] \in Nat /\ tries'[n] \in Nat /\ stalls'[n] \in Nat
          /\ Start(n) \in 0..1 /\ Start(n)' \in 0..1
          /\ tries[n] + stalls[n] + Start(n)' <= tries'[n] + stalls'[n] + Start(n)
      BY <1>2, StartsArePaid
    <3>4. Callers(n)' \subseteq Callers(n)
      BY <2>1 DEF NoMoreCallers, Callers
    <3>5. IsFiniteSet(Callers(n)') /\ Cardinality(Callers(n)') <= Cardinality(Callers(n))
          /\ Cardinality(Callers(n)') \in Nat
      BY <3>1, <3>4, FS_Subset, FS_CardinalityType
    <3>6. CASE accepted'[n] = accepted[n]
      BY <3>1, <3>2, <3>3, <3>5, <3>6
    <3>7. CASE accepted'[n] # accepted[n]
      <4>1. PICK w \in Workers : ProviderAccepts(w)
        BY <3>7, StepsElsewhere DEF PipelineInv, Elsewhere, Reserve, ProviderRefuses, Release, ReservationExpires, outside
      <4>2. worker[w].key = n /\ accepted'[n] = accepted[n] + 1
        BY <3>1, <3>7, <4>1 DEF ProviderAccepts, PipelineInv, SendInv, WorkersOK
      <4>3. w \in Callers(n)
        BY <4>1, <4>2 DEF ProviderAccepts, Callers, MayCall
      <4>4. worker'[w].pc \in {"accepted", "release"}
        BY <4>1, GotoFacts DEF ProviderAccepts, PipelineInv, SendInv, WorkersOK, Handlers
      <4>5. Callers(n)' \subseteq Callers(n) \ {w}
        BY <3>4, <4>4 DEF Callers, MayCall
      <4>6. IsFiniteSet(Callers(n) \ {w}) /\ Cardinality(Callers(n) \ {w}) = Cardinality(Callers(n)) - 1
        BY <3>1, <4>3, FS_RemoveElement
      <4>7. Cardinality(Callers(n)') <= Cardinality(Callers(n)) - 1
        BY <4>5, <4>6, FS_Subset
      <4> QED BY <3>1, <3>2, <3>3, <3>5, <4>2, <4>7
    <3> QED BY <3>6, <3>7
  <2> QED BY <2>2 DEF Granted
<1> QED BY <1>1, <1>2

\* Whatever crashes, stalls, wrong answers and lost reservations meet one message: the
\* provider is called at most once for each execution the queue granted, the first,
\* one per attempt, one per stall.
THEOREM EverySendIsGranted == Spec => []SendsAreGranted
<1>1. ASSUME Init PROVE Granted
  <2>1. \A k \in Keys : Callers(k) = {}
    BY <1>1 DEF Init, Callers, MayCall, Idle
  <2>2. IsFiniteSet({}) /\ Cardinality({}) = 0
    BY FS_EmptySet
  <2> QED BY <1>1, <2>1, <2>2 DEF Init, Granted, Start
<1>2. PipelineInv /\ Granted /\ [Next]_vars => Granted'
  BY GrantedStep
<1>3. ASSUME PipelineInv, Granted, NEW k \in Keys
      PROVE  accepted[k] <= 1 + tries[k] + stalls[k]
  <2>1. Cardinality(Callers(k)) \in Nat /\ accepted[k] \in Nat
    BY <1>3, CallersTyped
  <2>2. Start(k) \in 0..1 /\ tries[k] \in Nat /\ stalls[k] \in Nat
    BY <1>3, PipelineConstants DEF PipelineInv, QueueOK, Start
  <2> QED BY <1>3, <2>1, <2>2 DEF Granted
<1>4. PipelineInv /\ Granted => SendsAreGranted
  BY <1>3 DEF SendsAreGranted
<1> QED BY <1>1, <1>2, <1>4, PipelineAlways, PTL DEF Spec

----------------------------------------------------------------------------
(* A row that says SENT is true. Until a key is interrupted, the handler of its job  *)
(* is the one that holds it, so a key that is taken was sent, or is being sent, by   *)
(* nobody else.                                                                     *)

Held ==
  \A w \in Workers :
    /\ worker[w].pc # "idle" /\ worker[w].key \notin interrupted => holder[worker[w].key] = w
    /\ worker[w].pc = "idle" => worker[w].key = NoKey

SameKeys == \A v \in Workers : /\ worker'[v].key = worker[v].key
                               /\ worker'[v].pc = "idle" <=> worker[v].pc = "idle"

LEMMA HandlersKeepKeys ==
  ASSUME SendInv, NEW w \in Workers, WorkerStep(w), ~Finish(w)
  PROVE  SameKeys
<1>1. ASSUME NEW pc, Goto(w, pc), pc # "idle", worker[w].pc # "idle" PROVE SameKeys
  BY <1>1, GotoFacts DEF SameKeys
<1>2. ASSUME NEW status, NEW after, Advance(w, status, after), worker[w].pc # "idle" PROVE SameKeys
  BY <1>2, AdvanceFacts DEF SameKeys
<1>3. CASE Record(w)
  <2>1. CASE Goto(w, "check")
    BY <1>1, <1>3, <2>1 DEF Record
  <2>2. CASE worker' = [worker EXCEPT ![w] = [@ EXCEPT !.pc = "finish", !.after = "done"]]
    BY <1>3, <2>2 DEF Record, SendInv, WorkersOK, Handlers, SameKeys
  <2> QED BY <1>3, <2>1, <2>2 DEF Record
<1>4. CASE CheckSuppression(w)
  BY <1>2, <1>4 DEF CheckSuppression
<1>5. CASE AdvanceRead(w) \/ AdvanceWrite(w)
  BY <1>1, <1>5 DEF AdvanceRead, AdvanceWrite, Continue
<1>6. CASE Reserve(w)
  BY <1>1, <1>2, <1>6 DEF Reserve
<1>7. CASE ProviderAccepts(w)
  <2>1. CASE Goto(w, "release")
    BY <1>1, <1>7, <2>1 DEF ProviderAccepts
  <2>2. CASE worker' = [worker EXCEPT ![w] = [@ EXCEPT !.pc = "accepted", !.nth = accepted[worker[w].key] + 1]]
    BY <1>7, <2>2 DEF ProviderAccepts, SendInv, WorkersOK, Handlers, SameKeys
  <2> QED BY <1>7, <2>1, <2>2 DEF ProviderAccepts
<1>8. CASE ProviderRefuses(w)
  BY <1>1, <1>8 DEF ProviderRefuses
<1>9. CASE Release(w) \/ SaveProviderId(w)
  BY <1>2, <1>9 DEF Release, SaveProviderId
<1> QED BY <1>3, <1>4, <1>5, <1>6, <1>7, <1>8, <1>9 DEF WorkerStep

LEMMA HeldStep ==
  ASSUME PipelineInv, Held, [Next]_vars
  PROVE  Held'
<1> USE DEF Held
<1>0. interrupted \subseteq interrupted'
  BY InterruptedGrows
<1>1. ASSUME SameKeys, UNCHANGED holder PROVE Held'
  BY <1>0, <1>1 DEF SameKeys
<1>2. UNCHANGED worker => SameKeys
  BY DEF SameKeys
<1>3. ASSUME NEW w \in Workers, WorkerStep(w), ~Finish(w) PROVE Held'
  <2>1. UNCHANGED holder
    BY <1>3 DEF WorkerStep, Record, CheckSuppression, AdvanceRead, AdvanceWrite, Reserve,
       ProviderAccepts, ProviderRefuses, Release, SaveProviderId, queueVars
  <2> QED BY <1>1, <1>3, <2>1, HandlersKeepKeys DEF PipelineInv
<1>4. ASSUME NEW w \in Workers, Finish(w) PROVE Held'
  <2>1. PICK k : k = worker[w].key
    OBVIOUS
  <2>2. k \in Keys /\ worker' = [worker EXCEPT ![w] = Idle]
    BY <1>4, <2>1 DEF Finish, PipelineInv, SendInv, WorkersOK
  <2>3. holder' = holder \/ (holder[k] = w /\ holder' = [holder EXCEPT ![k] = NoWorker])
    BY <1>4, <2>1 DEF Finish
  <2>4. \A n \in Keys : holder'[n] = holder[n] \/ holder[n] = w
    BY <2>2, <2>3 DEF PipelineInv, QueueOK
  <2>5. worker'[w].pc = "idle" /\ worker'[w].key = NoKey /\ \A v \in Workers \ {w} : worker'[v] = worker[v]
    BY <2>2 DEF Idle, PipelineInv, SendInv, WorkersOK
  <2>6. \A v \in Workers : worker[v].pc # "idle" => worker[v].key \in Keys
    BY DEF PipelineInv, SendInv, WorkersOK
  <2> QED BY <1>0, <2>4, <2>5, <2>6
<1>5. ASSUME NEW w \in Workers, NEW k \in Keys, Take(w, k) PROVE Held'
  <2>1. /\ worker' = [worker EXCEPT ![w] = [Idle EXCEPT !.pc = "record", !.key = k]]
        /\ job[k] = "waiting" /\ holder' = [holder EXCEPT ![k] = w]
    BY <1>5 DEF Take
  <2>2. /\ worker'[w].pc = "record" /\ worker'[w].key = k /\ \A v \in Workers \ {w} : worker'[v] = worker[v]
        /\ holder'[k] = w /\ \A n \in Keys \ {k} : holder'[n] = holder[n]
    BY <2>1 DEF Idle, PipelineInv, SendInv, WorkersOK, QueueOK
  <2>3. holder[k] = NoWorker /\ NoWorker \notin Workers
    BY <2>1, PipelineConstants DEF PipelineInv, QueueOK
  <2>4. \A v \in Workers : worker[v].pc # "idle" => worker[v].key \in Keys
    BY DEF PipelineInv, SendInv, WorkersOK
  <2> QED BY <1>0, <2>2, <2>3, <2>4
<1>6. ASSUME NEW k \in Keys, Enqueue(k) PROVE Held'
  BY <1>1, <1>2, <1>6 DEF Enqueue
<1>7. ASSUME NEW k \in Keys, Requeue(k) PROVE Held'
  <2>1. /\ worker' = worker /\ holder' = [holder EXCEPT ![k] = NoWorker]
        /\ interrupted' = IF Abandoned(k) THEN interrupted ELSE interrupted \cup {k}
    BY <1>7 DEF Requeue
  <2>2. ASSUME NEW v \in Workers, worker[v].pc # "idle", worker[v].key = k, k \notin interrupted
        PROVE  k \in interrupted'
    <3>1. holder[k] = v /\ v # NoWorker
      BY <2>2, PipelineConstants
    <3>2. ~Abandoned(k)
      BY <2>2, <3>1 DEF Abandoned
    <3> QED BY <2>1, <3>2
  <2>3. \A v \in Workers : worker[v].pc # "idle" => worker[v].key \in Keys
    BY DEF PipelineInv, SendInv, WorkersOK
  <2>4. \A n \in Keys \ {k} : holder'[n] = holder[n]
    BY <2>1 DEF PipelineInv, QueueOK
  <2> QED BY <1>0, <2>1, <2>2, <2>3, <2>4
<1>8. ASSUME NEW w \in Workers, Crash(w) PROVE Held'
  <2>1. worker' = [worker EXCEPT ![w] = Idle] /\ holder' = holder
    BY <1>8 DEF Crash, queueVars
  <2>2. worker'[w].pc = "idle" /\ worker'[w].key = NoKey /\ \A v \in Workers \ {w} : worker'[v] = worker[v]
    BY <2>1 DEF Idle, PipelineInv, SendInv, WorkersOK
  <2> QED BY <1>0, <2>1, <2>2
<1>9. ASSUME NEW k \in Keys, ReservationExpires(k) PROVE UNCHANGED <<queueVars, worker>>
  BY <1>9 DEF ReservationExpires
<1>10. ASSUME NEW h \in Hooks, HookStart(h) \/ HookStep(h) \/ HookCrash(h) PROVE UNCHANGED <<queueVars, worker>>
  BY <1>10 DEF HookStart, HookStep, HookCrash, AppendEvent, HookRead, HookWrite, HookSuppress
<1>11. ReleaseSuppression \/ UNCHANGED vars => UNCHANGED <<queueVars, worker>>
  BY DEF ReleaseSuppression, vars
<1> HIDE DEF Held
<1>12. UNCHANGED <<queueVars, worker>> => Held'
  BY <1>1, <1>2 DEF queueVars
<1> QED BY <1>3, <1>4, <1>5, <1>6, <1>7, <1>8, <1>9, <1>10, <1>11, <1>12 DEF Next

\* Whoever is about to say that a message went out knows that it did.
Sent(k) == accepted[k] > 0
WorkersTell == \A w \in Workers :
  /\ worker[w].pc \in {"advance", "write"} /\ worker[w].next \in WentOut /\ worker[w].key \notin interrupted
       => Sent(worker[w].key)
  /\ worker[w].pc = "accepted" => Sent(worker[w].key)
TakenIsSent == \A k \in reserved \ interrupted : Sent(k) \/ \E w \in Workers : worker[w].key = k /\ Sending(w)
HooksTell == \A h \in Hooks : hook[h].pc # "idle" => Sent(hook[h].event.key)
Truth == WorkersTell /\ TakenIsSent /\ HooksTell /\ SentIsTrue

LEMMA SentStays ==
  ASSUME PipelineInv, [Next]_vars, NEW k \in Keys, Sent(k)
  PROVE  Sent(k)'
<1>1. accepted[k] \in Nat /\ accepted \in [Keys -> Nat]
  BY DEF PipelineInv, SendInv, WorkersOK
<1>2. CASE accepted' = accepted
  BY <1>2 DEF Sent
<1>3. ASSUME NEW w \in Workers, ProviderAccepts(w) PROVE Sent(k)'
  BY <1>1, <1>3 DEF ProviderAccepts, Sent
<1>4. (\E w \in Workers : Reserve(w) \/ ProviderRefuses(w) \/ Release(w)) \/ (\E n \in Keys : ReservationExpires(n))
        => accepted' = accepted
  BY DEF Reserve, ProviderRefuses, Release, ReservationExpires, outside
<1> QED BY <1>2, <1>3, <1>4, StepsElsewhere DEF PipelineInv, Elsewhere

\* What one handler's step must show for itself; the others are as they were.
Tells(w) == /\ worker'[w].pc \in {"advance", "write"} /\ worker'[w].next \in WentOut /\ worker'[w].key \notin interrupted'
                 => accepted'[worker'[w].key] > 0
            /\ worker'[w].pc = "accepted" => accepted'[worker'[w].key] > 0
Others(w) == \A v \in Workers \ {w} : worker'[v] = worker[v]

LEMMA OneTells ==
  ASSUME PipelineInv, WorkersTell, [Next]_vars, NEW w \in Workers, Others(w), Tells(w)
  PROVE  WorkersTell'
<1>1. ASSUME NEW v \in Workers, v # w
      PROVE  Tells(v)
  <2>1. worker'[v] = worker[v] /\ (worker[v].pc # "idle" => worker[v].key \in Keys)
    BY <1>1 DEF Others, PipelineInv, SendInv, WorkersOK
  <2>2. (\A k \in Keys : accepted[k] > 0 => accepted'[k] > 0) /\ interrupted \subseteq interrupted'
    BY SentStays, InterruptedGrows DEF Sent
  <2> QED BY <2>1, <2>2 DEF WorkersTell, Sent, Tells
<1> QED BY <1>1 DEF WorkersTell, Tells, Sent

LEMMA WorkersTellStep ==
  ASSUME PipelineInv, Held, Truth, [Next]_vars
  PROVE  WorkersTell'
<1>0. WorkersTell /\ SendInv
  BY DEF Truth, PipelineInv
<1>1. ASSUME UNCHANGED worker PROVE WorkersTell'
  <2>1. ASSUME NEW v \in Workers PROVE Tells(v)
    <3>1. worker[v].pc # "idle" => worker[v].key \in Keys
      BY <1>0 DEF SendInv, WorkersOK
    <3>2. (\A k \in Keys : accepted[k] > 0 => accepted'[k] > 0) /\ interrupted \subseteq interrupted'
      BY SentStays, InterruptedGrows DEF Sent
    <3> QED BY <1>0, <1>1, <3>1, <3>2 DEF WorkersTell, Sent, Tells
  <2> QED BY <2>1 DEF WorkersTell, Tells, Sent
<1>2. ASSUME NEW w \in Workers, NEW pc \in {"check", "reserve", "send", "release", "finish"}, Goto(w, pc)
      PROVE  WorkersTell'
  <2>1. Others(w) /\ Tells(w)
    BY <1>0, <1>2, GotoFacts DEF Others, Tells
  <2> QED BY <1>0, <2>1, OneTells
<1>3. ASSUME NEW w \in Workers, NEW status, NEW after, Advance(w, status, after),
             status \in WentOut /\ worker[w].key \notin interrupted => worker[w].key \in Keys /\ Sent(worker[w].key)
      PROVE  WorkersTell'
  <2>1. Others(w) /\ Tells(w)
    <3>1. (\A k \in Keys : accepted[k] > 0 => accepted'[k] > 0) /\ interrupted \subseteq interrupted'
      BY SentStays, InterruptedGrows DEF Sent
    <3> QED BY <1>0, <1>3, <3>1, AdvanceFacts DEF Others, Tells, Sent
  <2> QED BY <1>0, <2>1, OneTells
<1>4. ASSUME NEW w \in Workers, Record(w) PROVE WorkersTell'
  <2>1. CASE Goto(w, "check")
    BY <1>2, <2>1
  <2>2. CASE worker' = [worker EXCEPT ![w] = [@ EXCEPT !.pc = "finish", !.after = "done"]]
    <3>1. Others(w) /\ Tells(w)
      BY <1>0, <2>2 DEF SendInv, WorkersOK, Handlers, Others, Tells
    <3> QED BY <1>0, <3>1, OneTells
  <2> QED BY <1>4, <2>1, <2>2 DEF Record
<1>5. ASSUME NEW w \in Workers, CheckSuppression(w) PROVE WorkersTell'
  BY <1>3, <1>5 DEF CheckSuppression, WentOut
<1>6. ASSUME NEW w \in Workers, AdvanceRead(w) \/ AdvanceWrite(w) PROVE WorkersTell'
  <2>1. CASE Goto(w, "write") /\ worker[w].pc = "advance"
    <3>1. worker[w].key \in Keys /\ (worker[w].next \in WentOut /\ worker[w].key \notin interrupted => accepted[worker[w].key] > 0)
      BY <1>0, <2>1 DEF WorkersTell, Sent, SendInv, WorkersOK
    <3>2. (\A k \in Keys : accepted[k] > 0 => accepted'[k] > 0) /\ interrupted \subseteq interrupted'
      BY SentStays, InterruptedGrows DEF Sent
    <3>3. Others(w) /\ Tells(w)
      BY <1>0, <2>1, <3>1, <3>2, GotoFacts DEF Others, Tells
    <3> QED BY <1>0, <3>3, OneTells
  <2>2. CASE Continue(w)
    BY <1>2, <2>2 DEF Continue
  <2> QED BY <1>6, <2>1, <2>2 DEF AdvanceRead, AdvanceWrite
<1>7. ASSUME NEW w \in Workers, Reserve(w) PROVE WorkersTell'
  <2>1. PICK k : k = worker[w].key
    OBVIOUS
  <2>2. k \in Keys /\ worker[w].pc = "reserve"
    BY <1>0, <1>7, <2>1 DEF Reserve, SendInv, WorkersOK
  <2>3. \A v \in Workers : Sending(v) /\ worker[v].key = k /\ k \notin interrupted => v = w
    BY <2>1, <2>2 DEF Held, Sending
  <2>4. k \in reserved \ interrupted => Sent(k)
    BY <2>2, <2>3 DEF Truth, TakenIsSent, Sending
  <2> QED BY <1>2, <1>3, <1>7, <2>1, <2>2, <2>4 DEF Reserve
<1>8. ASSUME NEW w \in Workers, ProviderAccepts(w) PROVE WorkersTell'
  <2>1. CASE Goto(w, "release")
    BY <1>2, <2>1
  <2>2. CASE worker' = [worker EXCEPT ![w] = [@ EXCEPT !.pc = "accepted", !.nth = accepted[worker[w].key] + 1]]
    <3>1. PICK k : k = worker[w].key
      OBVIOUS
    <3>2. worker'[w].pc = "accepted" /\ worker'[w].key = k /\ Others(w)
      BY <1>0, <2>2, <3>1 DEF SendInv, WorkersOK, Handlers, Others
    <3>3. accepted'[k] > 0
      BY <1>0, <1>8, <3>1 DEF ProviderAccepts, SendInv, WorkersOK
    <3>4. Tells(w)
      BY <3>2, <3>3 DEF Tells
    <3> QED BY <1>0, <3>2, <3>4, OneTells
  <2> QED BY <1>8, <2>1, <2>2 DEF ProviderAccepts
<1>9. ASSUME NEW w \in Workers, ProviderRefuses(w) PROVE WorkersTell'
  BY <1>2, <1>9 DEF ProviderRefuses
<1>10. ASSUME NEW w \in Workers, Release(w) PROVE WorkersTell'
  BY <1>3, <1>10 DEF Release, WentOut
<1>11. ASSUME NEW w \in Workers, SaveProviderId(w) PROVE WorkersTell'
  <2>1. worker[w].key \in Keys /\ Sent(worker[w].key)
    BY <1>0, <1>11 DEF SaveProviderId, WorkersTell, SendInv, WorkersOK
  <2> QED BY <1>3, <1>11, <2>1 DEF SaveProviderId
<1>12. ASSUME NEW w \in Workers, NEW q, worker' = [worker EXCEPT ![w] = q], q.pc \in {"idle", "record"}
       PROVE  WorkersTell'
  <2>1. Others(w) /\ Tells(w)
    BY <1>0, <1>12 DEF SendInv, WorkersOK, Others, Tells
  <2> QED BY <1>0, <2>1, OneTells
<1>13. ASSUME NEW w \in Workers, Finish(w) \/ Crash(w) PROVE WorkersTell'
  BY <1>12, <1>13 DEF Finish, Crash, Idle
<1>14. ASSUME NEW w \in Workers, NEW k \in Keys, Take(w, k) PROVE WorkersTell'
  BY <1>12, <1>14 DEF Take, Idle
<1>15. ASSUME NEW k \in Keys, Enqueue(k) \/ Requeue(k) \/ ReservationExpires(k) PROVE UNCHANGED worker
  BY <1>15 DEF Enqueue, Requeue, ReservationExpires
<1>16. ASSUME NEW h \in Hooks, HookStart(h) \/ HookStep(h) \/ HookCrash(h) PROVE UNCHANGED worker
  BY <1>16 DEF HookStart, HookStep, HookCrash, AppendEvent, HookRead, HookWrite, HookSuppress
<1>17. ReleaseSuppression \/ UNCHANGED vars => UNCHANGED worker
  BY DEF ReleaseSuppression, vars
<1> QED BY <1>1, <1>4, <1>5, <1>6, <1>7, <1>8, <1>9, <1>10, <1>11, <1>13, <1>14, <1>15, <1>16, <1>17 DEF Next, WorkerStep

\* A worker in the middle of a send stays there, unless the provider answers, the
\* reservation is released, or it dies.
LEMMA SendersStay ==
  ASSUME PipelineInv, [Next]_vars,
         ~ \E w \in Workers : ProviderAccepts(w) \/ ProviderRefuses(w) \/ Release(w)
  PROVE  \A v \in Workers : Sending(v) => worker'[v] = worker[v] \/ worker[v].key \in interrupted'
<1> DEFINE Stay == \A v \in Workers : Sending(v) => worker'[v] = worker[v] \/ worker[v].key \in interrupted'
<1>1. UNCHANGED worker => Stay
  OBVIOUS
<1>2. ASSUME NEW w \in Workers, NEW q, worker' = [worker EXCEPT ![w] = q], ~Sending(w)
      PROVE  Stay
  BY <1>2 DEF PipelineInv, SendInv, WorkersOK
<1>3. ASSUME NEW w \in Workers, WorkerStep(w) PROVE Stay
  <2>1. ~Sending(w)
    BY <1>3 DEF WorkerStep, Record, CheckSuppression, AdvanceRead, AdvanceWrite, Reserve, SaveProviderId,
       Finish, Sending
  <2>2. \E q : worker' = [worker EXCEPT ![w] = q]
    BY <1>3 DEF WorkerStep, Record, CheckSuppression, AdvanceRead, AdvanceWrite, Reserve, SaveProviderId,
       Finish, Goto, Advance, Continue
  <2> QED BY <1>2, <2>1, <2>2
<1>4. ASSUME NEW w \in Workers, Crash(w) PROVE Stay
  <2>1. worker' = [worker EXCEPT ![w] = Idle] /\ (Sending(w) => worker[w].key \in interrupted')
    BY <1>4 DEF Crash, Sending
  <2> QED BY <2>1 DEF PipelineInv, SendInv, WorkersOK
<1>5. ASSUME NEW w \in Workers, NEW k \in Keys, Take(w, k) PROVE Stay
  <2>1. ~Sending(w) /\ \E q : worker' = [worker EXCEPT ![w] = q]
    BY <1>5 DEF Take, Sending
  <2> QED BY <1>2, <2>1
<1>6. ASSUME NEW k \in Keys, Enqueue(k) \/ Requeue(k) \/ ReservationExpires(k) PROVE UNCHANGED worker
  BY <1>6 DEF Enqueue, Requeue, ReservationExpires
<1>7. ASSUME NEW h \in Hooks, HookStart(h) \/ HookStep(h) \/ HookCrash(h) PROVE UNCHANGED worker
  BY <1>7 DEF HookStart, HookStep, HookCrash, AppendEvent, HookRead, HookWrite, HookSuppress
<1>8. ReleaseSuppression \/ UNCHANGED vars => UNCHANGED worker
  BY DEF ReleaseSuppression, vars
<1> HIDE DEF Stay
<1>9. Stay
  BY <1>1, <1>3, <1>4, <1>5, <1>6, <1>7, <1>8 DEF Next
<1> QED BY <1>9 DEF Stay

LEMMA TakenStep ==
  ASSUME PipelineInv, Held, Truth, [Next]_vars
  PROVE  TakenIsSent'
<1>0. TakenIsSent /\ SendInv /\ KeysOK
  BY DEF Truth, PipelineInv
<1>1. (\A k \in Keys : accepted[k] > 0 => accepted'[k] > 0) /\ interrupted \subseteq interrupted'
  BY SentStays, InterruptedGrows DEF Sent
<1>2. ASSUME reserved' \subseteq reserved,
             \A v \in Workers : Sending(v) => worker'[v] = worker[v] \/ worker[v].key \in interrupted'
      PROVE  TakenIsSent'
  BY <1>0, <1>1, <1>2 DEF TakenIsSent, Sent, Sending, KeysOK
<1>3. ASSUME NEW w \in Workers, ProviderAccepts(w) \/ ProviderRefuses(w) \/ Release(w), NEW k \in reserved,
             NEW v \in Workers, v # w, worker[v].key = k, Sending(v)
      PROVE  worker'[v].key = k /\ Sending(v)'
  BY <1>0, <1>3, SendingSteps DEF Sending
<1>4. ASSUME NEW w \in Workers, ProviderAccepts(w) PROVE TakenIsSent'
  <2>1. accepted'[worker[w].key] > 0 /\ worker[w].key \in Keys /\ reserved' = reserved
    BY <1>0, <1>4 DEF ProviderAccepts, SendInv, WorkersOK
  <2> QED BY <1>0, <1>1, <1>3, <1>4, <2>1 DEF TakenIsSent, Sent, KeysOK
<1>5. ASSUME NEW w \in Workers, ProviderRefuses(w) PROVE TakenIsSent'
  <2>1. worker'[w].key = worker[w].key /\ Sending(w)' /\ reserved' = reserved
    BY <1>0, <1>5, GotoFacts DEF ProviderRefuses, Sending
  <2> QED BY <1>0, <1>1, <1>3, <1>5, <2>1 DEF TakenIsSent, Sent, KeysOK
<1>6. ASSUME NEW w \in Workers, Release(w) PROVE TakenIsSent'
  <2>1. reserved' = reserved \ {worker[w].key}
    BY <1>6 DEF Release
  <2> QED BY <1>0, <1>1, <1>3, <1>6, <2>1 DEF TakenIsSent, Sent, KeysOK
<1>7. ASSUME ~ \E w \in Workers : ProviderAccepts(w) \/ ProviderRefuses(w) \/ Release(w)
      PROVE  \A v \in Workers : Sending(v) => worker'[v] = worker[v] \/ worker[v].key \in interrupted'
  BY <1>7, SendersStay
<1>8. CASE \E w \in Workers : Reserve(w) /\ worker[w].key \notin reserved
  <2>1. PICK w \in Workers : Reserve(w) /\ worker[w].key \notin reserved
    BY <1>8
  <2>2. reserved' = reserved \cup {worker[w].key} /\ Goto(w, "send")
    BY <2>1 DEF Reserve
  <2>3. worker'[w].key = worker[w].key /\ Sending(w)' /\ \A v \in Workers \ {w} : worker'[v] = worker[v]
    BY <1>0, <2>1, <2>2, GotoFacts DEF Reserve, Sending
  <2>4. ~Sending(w)
    BY <2>1 DEF Reserve, Sending
  <2> QED BY <1>0, <1>1, <2>2, <2>3, <2>4 DEF TakenIsSent, Sent, Sending, KeysOK
<1>9. CASE ~ \E w \in Workers : \/ Reserve(w) /\ worker[w].key \notin reserved
                                \/ ProviderAccepts(w) \/ ProviderRefuses(w) \/ Release(w)
  <2>1. CASE Elsewhere
    BY <1>2, <1>7, <1>9, <2>1 DEF Elsewhere
  <2>2. ASSUME NEW w \in Workers, Reserve(w) PROVE TakenIsSent'
    <3>1. reserved' = reserved
      BY <1>9, <2>2 DEF Reserve
    <3> QED BY <1>2, <1>7, <1>9, <3>1
  <2>3. ASSUME NEW k \in Keys, ReservationExpires(k) PROVE TakenIsSent'
    BY <1>2, <1>7, <1>9, <2>3 DEF ReservationExpires
  <2> QED BY <1>0, <1>9, <2>1, <2>2, <2>3, StepsElsewhere
<1> QED BY <1>4, <1>5, <1>6, <1>8, <1>9

LEMMA HooksTellStep ==
  ASSUME PipelineInv, Truth, [Next]_vars
  PROVE  HooksTell'
<1>0. HooksTell /\ HooksOK
  BY DEF Truth, PipelineInv
<1>1. \A k \in Keys : accepted[k] > 0 => accepted'[k] > 0
  BY SentStays DEF Sent
<1>2. \A h \in Hooks : hook[h].pc # "idle" => hook[h].event.key \in Keys /\ accepted'[hook[h].event.key] > 0
  BY <1>0, <1>1 DEF HooksTell, HooksOK, Sent, Events
<1>3. UNCHANGED hook => HooksTell'
  BY <1>2 DEF HooksTell, Sent
<1>4. ASSUME NEW h \in Hooks, hook[h].pc # "idle", \A g \in Hooks \ {h} : hook'[g] = hook[g],
             hook'[h].pc # "idle" => hook'[h].event = hook[h].event
      PROVE  HooksTell'
  BY <1>2, <1>4 DEF HooksTell, Sent
<1>5. ASSUME NEW h \in Hooks, HookStart(h) PROVE HooksTell'
  <2>1. PICK e \in Events : /\ e.nth <= accepted[e.key] /\ accepted' = accepted
                            /\ hook' = [hook EXCEPT ![h] = [pc |-> "append", event |-> e]]
    BY <1>5 DEF HookStart, outside
  <2>2. e.nth \in Nat /\ e.nth >= 1 /\ e.key \in Keys /\ accepted[e.key] \in Nat
    BY PipelineConstants DEF Events, PipelineInv, SendInv, WorkersOK
  <2>3. accepted'[e.key] > 0
    BY <2>1, <2>2
  <2>4. hook'[h].event = e /\ \A g \in Hooks \ {h} : hook'[g] = hook[g]
    BY <1>0, <2>1 DEF HooksOK
  <2> QED BY <1>2, <2>3, <2>4 DEF HooksTell, Sent
<1>6. ASSUME NEW h \in Hooks, HookStep(h) \/ HookCrash(h) PROVE HooksTell'
  <2>1. /\ hook[h].pc # "idle"
        /\ \/ HookDone(h) \/ HookGoto(h, "advance") \/ HookGoto(h, "write")
           \/ hook[h].pc \in {"advance", "write"} /\ AfterStatus(h)
    BY <1>6 DEF HookStep, HookCrash, AppendEvent, HookRead, HookWrite, HookSuppress
  <2> QED BY <1>4, <2>1, HookMoves, HookEnds, HookGoesOn
<1>7. ReleaseSuppression \/ UNCHANGED hookVars => UNCHANGED hook
  BY DEF ReleaseSuppression, hookVars
<1> QED BY <1>3, <1>5, <1>6, <1>7, HookWriters

LEMMA SentIsTrueStep ==
  ASSUME PipelineInv, Truth, [Next]_vars
  PROVE  SentIsTrue'
<1>0. SentIsTrue /\ WorkersTell /\ HooksTell /\ msg \in [Keys -> DOMAIN Rank]
  BY DEF Truth, PipelineInv, RowsOK
<1>1. (\A k \in Keys : accepted[k] > 0 => accepted'[k] > 0) /\ interrupted \subseteq interrupted'
  BY SentStays, InterruptedGrows DEF Sent
<1>2. UNCHANGED msg => SentIsTrue'
  BY <1>0, <1>1 DEF SentIsTrue
<1>3. ASSUME NEW k, NEW s, msg' = [msg EXCEPT ![k] = s], s \in WentOut /\ k \notin interrupted => k \in Keys /\ accepted[k] > 0
      PROVE  SentIsTrue'
  BY <1>0, <1>1, <1>3 DEF SentIsTrue, WentOut
<1>4. ASSUME NEW w \in Workers, Record(w) PROVE SentIsTrue'
  <2>1. msg' = msg \/ msg' = [msg EXCEPT ![worker[w].key] = "QUEUED"]
    BY <1>0, <1>4 DEF Record
  <2> QED BY <1>2, <1>3, <2>1 DEF WentOut
<1>5. ASSUME NEW w \in Workers, AdvanceWrite(w) PROVE SentIsTrue'
  <2>1. worker[w].key \in Keys
    BY <1>5 DEF AdvanceWrite, PipelineInv, SendInv, WorkersOK
  <2> QED BY <1>0, <1>3, <1>5, <2>1 DEF AdvanceWrite, WorkersTell, Sent
<1>6. ASSUME NEW h \in Hooks, HookWrite(h) PROVE SentIsTrue'
  <2>1. hook[h].event.key \in Keys /\ accepted[hook[h].event.key] > 0
    BY <1>0, <1>6 DEF HookWrite, HooksTell, Sent, PipelineInv, HooksOK, Events
  <2> QED BY <1>3, <1>6, <2>1 DEF HookWrite
<1>7. ASSUME NEW w \in Workers, WorkerStep(w) \/ Crash(w), ~Record(w), ~AdvanceWrite(w)
      PROVE  UNCHANGED msg
  BY <1>7 DEF WorkerStep, Crash, CheckSuppression, AdvanceRead, Reserve, ProviderAccepts, ProviderRefuses,
     Release, Finish, SaveProviderId, logVars
<1>8. ASSUME NEW h \in Hooks, HookStart(h) \/ HookStep(h) \/ HookCrash(h), ~HookWrite(h)
      PROVE  UNCHANGED msg
  BY <1>8 DEF HookStart, HookStep, HookCrash, AppendEvent, HookRead, HookSuppress, logVars
<1>9. ASSUME NEW k \in Keys, Enqueue(k) \/ Requeue(k) \/ ReservationExpires(k) \/ \E w \in Workers : Take(w, k)
      PROVE  UNCHANGED msg
  BY <1>9 DEF Enqueue, Requeue, ReservationExpires, Take, logVars
<1>10. ReleaseSuppression \/ UNCHANGED vars => UNCHANGED msg
  BY DEF ReleaseSuppression, vars, logVars
<1> QED BY <1>2, <1>4, <1>5, <1>6, <1>7, <1>8, <1>9, <1>10 DEF Next

\* Under every fault, a row is marked SENT (or later DELAYED or DELIVERED) only when
\* the provider took the message (handleSendEmail, EmailService.send, EmailLog.advance):
\* when its answers are wrong, updates fail, reservations expire, webhook calls die,
\* events are replayed, and workers die at any statement but one. The exception is the
\* key whose sender died before the provider's answer or whose worker lost its lock:
\* it can be taken without being sent, and the next attempt reports a duplicate.
THEOREM SentRowsAreTrue == Spec => []SentIsTrue
<1>1. Init => Held /\ Truth
  BY DEF Init, Idle, HookIdle, Held, Truth, WorkersTell, TakenIsSent, HooksTell, SentIsTrue, WentOut
<1>2. PipelineInv /\ (Held /\ Truth) /\ [Next]_vars => (Held /\ Truth)'
  <2> SUFFICES ASSUME PipelineInv, Held, Truth, [Next]_vars PROVE (Held /\ Truth)'
    OBVIOUS
  <2>1. Held' /\ WorkersTell' /\ TakenIsSent' /\ HooksTell' /\ SentIsTrue'
    BY HeldStep, WorkersTellStep, TakenStep, HooksTellStep, SentIsTrueStep
  <2> QED BY <2>1 DEF Truth
<1>3. Held /\ Truth => SentIsTrue
  BY DEF Truth
<1> QED BY <1>1, <1>2, <1>3, PipelineAlways, PTL DEF Spec
==============================================================================
