----------------------------- MODULE LedgerProofs -----------------------------
(* Any number of requests, records and readings, and any faults: when the cached *)
(* reading, the ledger and the stored due point are what the records say.        *)
EXTENDS VehicleLedger, TLAPS

Entries == [reading : Readings, fix : BOOLEAN]
Sources == [kind : Kinds \cup {"NONE"}, live : BOOLEAN, amount : Maybe(Amounts)]
Expenses == [from : Kinds \cup {"NONE", "MANUAL"}, live : BOOLEAN, amount : Maybe(Amounts)]
Bases == [on : Maybe(Nat), odo : Maybe(Distance), days : Maybe(Nat), distance : Maybe(Nat), unit : Maybe(Units)]
Dues == [on : Maybe(Nat), at : Maybe(Nat)]
Rules ==
  [exists : BOOLEAN, gone : BOOLEAN, active : BOOLEAN, on : Maybe(Nat), odo : Maybe(Distance),
   days : Maybe(Nat), distance : Maybe(Nat), unit : Maybe(Units), due : Dues]
Places == {"idle", "insert", "commit", "match", "advance", "due", "store", "present", "write", "project", "mirror", "retract"}
Ops == {"NONE", "READING", "SERVICE", "FUEL", "POLICY", "UPDATE", "REMOVE", "COMPLETE", "RULE"}
Calls ==
  [pc : Places, op : Ops, key : Maybe(Records), reading : Maybe(Readings), metered : BOOLEAN, fix : BOOLEAN,
   matches : BOOLEAN, amount : Maybe(Amounts), seen : SUBSET Entries, pick : Maybe(Readings), copy : Sources,
   basis : Bases, unit : Maybe(Units), left : Int]

\* What a request knows at each statement: its record, its reading, and the
\* newest of the readings it can see, its own included.
CallOK(r) ==
  /\ r.pc = "idle" => r.key = None
  /\ r.pc \in {"insert", "commit"} =>
       r.reading \in Readings /\ ((r.op = "READING" /\ r.key = None) \/ (r.op \in {"SERVICE", "FUEL"} /\ r.key \in Records))
  /\ r.pc \in {"write", "project", "mirror", "retract"} => r.key \in Records
  /\ r.pc = "match" => r.op = "SERVICE" /\ r.key \in Records
  /\ r.pc \in {"advance", "due", "store", "present"} =>
       (r.op = "SERVICE" /\ r.key \in Records) \/ (r.op # "SERVICE" /\ r.key = None)
  /\ r.pc \in {"match", "advance"} => r.reading \in Readings
  /\ r.pc = "store" => r.unit \in Units
  /\ r.pc = "commit" /\ r.metered => r.pick \in Newest(r.seen \cup {[reading |-> r.reading, fix |-> r.fix]})

LedgerTypes ==
  /\ entries \subseteq Entries /\ cached \in Maybe(Readings) /\ astray \subseteq Records
  /\ source \in [Records -> Sources] /\ ledger \in [Records -> Expenses] /\ rule \in Rules
  /\ req \in [Requests -> Calls] /\ \A q \in Requests : CallOK(req[q])

-----------------------------------------------------------------------------
(* How a request goes on.                                                      *)

Moves(q, pcs, keys) ==
  \E r \in Calls : CallOK(r) /\ r.pc \in pcs /\ r.key \in keys /\ req' = [req EXCEPT ![q] = r]

LEMMA Moved ==
  ASSUME LedgerTypes, NEW q \in Requests, NEW pcs, NEW keys, Moves(q, pcs, keys)
  PROVE  /\ req' \in [Requests -> Calls] /\ \A p \in Requests : CallOK(req[p])'
         /\ req'[q].pc \in pcs /\ req'[q].key \in keys
         /\ \A p \in Requests \ {q} : req'[p] = req[p]
<1>1. PICK r \in Calls : CallOK(r) /\ r.pc \in pcs /\ r.key \in keys /\ req' = [req EXCEPT ![q] = r]
  BY DEF Moves
<1>2. req \in [Requests -> Calls] /\ \A p \in Requests : CallOK(req[p])
  BY DEF LedgerTypes
<1>3. req' \in [Requests -> Calls] /\ req'[q] = r /\ \A p \in Requests \ {q} : req'[p] = req[p]
  BY <1>1, <1>2
<1>4. ASSUME NEW p \in Requests PROVE CallOK(req[p])'
  <2>1. CallOK(req'[p])
    BY <1>1, <1>2, <1>3
  <2> QED BY <2>1 DEF CallOK
<1> QED BY <1>1, <1>3, <1>4

LEMMA Blanks ==
  /\ NoSource \in Sources /\ NoExpense \in Expenses /\ NoRule \in Rules /\ Basis(NoRule) \in Bases
  /\ Idle.pc = "idle" /\ Idle.key = None /\ Idle \in Calls /\ CallOK(Idle)
<1>1. /\ NoSource \in Sources /\ NoExpense \in Expenses /\ NoRule \in Rules /\ Basis(NoRule) \in Bases
  BY DEF NoSource, Sources, NoExpense, Expenses, NoRule, Rules, Dues, NoDue, Maybe, Basis, Bases
<1>2. Idle \in Calls /\ CallOK(Idle) /\ Idle.pc = "idle" /\ Idle.key = None
  BY <1>1 DEF Idle, Calls, CallOK, Places, Ops, Maybe
<1> QED BY <1>1, <1>2

LEMMA Ends ==
  ASSUME NEW q \in Requests, End(q)
  PROVE  Moves(q, {"idle"}, {None})
BY Blanks DEF End, Go, Moves

LEMMA Begins ==
  ASSUME NEW q \in Requests, NEW r \in Calls, NEW pc \in Places, CallOK([r EXCEPT !.pc = pc]), Begin(q, pc, r)
  PROVE  Moves(q, {pc}, {r.key}) /\ req[q].pc = "idle"
<1> DEFINE c == [r EXCEPT !.pc = pc]
<1>1. c \in Calls /\ c.pc = pc /\ c.key = r.key
  BY DEF Calls
<1>2. req' = [req EXCEPT ![q] = c] /\ CallOK(c) /\ req[q].pc = "idle"
  BY DEF Begin, At
<1> HIDE DEF c
<1> QED BY <1>1, <1>2 DEF Moves

LEMMA Steps ==
  ASSUME LedgerTypes, NEW q \in Requests, NEW pc \in Places, CallOK([req[q] EXCEPT !.pc = pc]), Step(q, pc)
  PROVE  Moves(q, {pc}, {req[q].key})
<1> DEFINE c == [req[q] EXCEPT !.pc = pc]
<1>1. c \in Calls /\ c.pc = pc /\ c.key = req[q].key
  BY DEF LedgerTypes, Calls
<1>2. req' = [req EXCEPT ![q] = c] /\ CallOK(c)
  BY DEF Step, Go
<1> HIDE DEF c
<1> QED BY <1>1, <1>2 DEF Moves

\* A request that has used its reading is a request still.
LEMMA UsedIsCall ==
  ASSUME NEW r \in Calls
  PROVE  /\ Used(r) \in Calls /\ Used(r).key = r.key /\ Used(r).op = r.op /\ Used(r).pc = r.pc
         /\ Used(r).left = r.left
<1>1. None \in Maybe(Readings) /\ None \in Maybe(Units) /\ Basis(NoRule) \in Bases
  BY Blanks DEF Maybe
<1> QED BY <1>1 DEF Used, Calls

\* The requests that write a reading, and the others, as they begin.
LEMMA ReadingBegins ==
  ASSUME NEW q \in Requests, NEW r \in Readings, NEW fix \in BOOLEAN, AddOdometerEntry(q, r, fix)
  PROVE  Moves(q, {"insert"}, {None}) /\ req[q].pc = "idle"
<1> DEFINE b == [Idle EXCEPT !.op = "READING", !.reading = r, !.metered = TRUE, !.fix = fix]
<1>1. b \in Calls /\ b.op = "READING" /\ b.key = None /\ b.reading = r
  BY Blanks DEF Calls, Ops, Maybe
<1>2. Begin(q, "insert", b)
  BY DEF AddOdometerEntry
<1> HIDE DEF b
<1>3. CallOK([b EXCEPT !.pc = "insert"]) /\ "insert" \in Places
  BY <1>1 DEF CallOK, Calls, Places
<1> QED BY <1>1, <1>2, <1>3, Begins

LEMMA ServiceBegins ==
  ASSUME NEW q \in Requests, NEW k \in Records, NEW r \in Readings, NEW metered \in BOOLEAN,
         NEW matches \in BOOLEAN, NEW amount \in Maybe(Amounts), CreateService(q, k, r, metered, matches, amount)
  PROVE  Moves(q, {"insert"}, {k}) /\ req[q].pc = "idle"
<1> DEFINE b == [Idle EXCEPT !.op = "SERVICE", !.key = k, !.reading = r, !.metered = metered,
                            !.matches = matches, !.amount = amount]
<1>1. b \in Calls /\ b.op = "SERVICE" /\ b.key = k /\ b.reading = r
  <2>1. "SERVICE" \in Ops /\ r \in Maybe(Readings) /\ k \in Maybe(Records)
    BY DEF Ops, Maybe
  <2>2. b \in Calls
    BY <2>1, Blanks DEF Calls
  <2>3. b.op = "SERVICE" /\ b.key = k /\ b.reading = r
    BY Blanks DEF Calls
  <2> QED BY <2>2, <2>3
<1>2. Begin(q, "insert", b)
  BY DEF CreateService
<1> HIDE DEF b
<1>3. CallOK([b EXCEPT !.pc = "insert"]) /\ "insert" \in Places
  BY <1>1 DEF CallOK, Calls, Places
<1> QED BY <1>1, <1>2, <1>3, Begins

LEMMA FuelBegins ==
  ASSUME NEW q \in Requests, NEW k \in Records, NEW r \in Readings, NEW amount \in Maybe(Amounts),
         CreateFuel(q, k, r, amount)
  PROVE  Moves(q, {"insert"}, {k}) /\ req[q].pc = "idle"
<1> DEFINE b == [Idle EXCEPT !.op = "FUEL", !.key = k, !.reading = r, !.metered = TRUE, !.amount = amount]
<1>1. b \in Calls /\ b.op = "FUEL" /\ b.key = k /\ b.reading = r
  BY Blanks DEF Calls, Ops, Maybe
<1>2. Begin(q, "insert", b)
  BY DEF CreateFuel
<1> HIDE DEF b
<1>3. CallOK([b EXCEPT !.pc = "insert"]) /\ "insert" \in Places
  BY <1>1 DEF CallOK, Calls, Places
<1> QED BY <1>1, <1>2, <1>3, Begins

LEMMA PaperBegins ==
  ASSUME NEW q \in Requests, NEW k \in Records, NEW amount \in Maybe(Amounts),
         Update(q, k, amount) \/ CreatePolicy(q, k, amount) \/ Remove(q, k)
  PROVE  /\ Update(q, k, amount) => Moves(q, {"write"}, {k})
         /\ CreatePolicy(q, k, amount) => Moves(q, {"mirror"}, {k})
         /\ Remove(q, k) => Moves(q, {"retract"}, {k})
         /\ req[q].pc = "idle"
<1> DEFINE u == [Idle EXCEPT !.op = "UPDATE", !.key = k, !.amount = amount]
           c == [Idle EXCEPT !.op = "POLICY", !.key = k, !.copy = Row("POLICY", amount)]
           d == [Idle EXCEPT !.op = "REMOVE", !.key = k]
<1>1. Row("POLICY", amount) \in Sources
  BY DEF Row, Sources, Kinds
<1>2. u \in Calls /\ u.key = k /\ c \in Calls /\ c.key = k /\ d \in Calls /\ d.key = k
  <2>1. {"UPDATE", "POLICY", "REMOVE"} \subseteq Ops /\ k \in Maybe(Records) /\ amount \in Maybe(Amounts)
    BY DEF Ops, Maybe
  <2>2. u \in Calls /\ u.key = k
    BY <2>1, Blanks DEF Calls
  <2>3. c \in Calls /\ c.key = k
    BY <1>1, <2>1, Blanks DEF Calls
  <2>4. d \in Calls /\ d.key = k
    BY <2>1, Blanks DEF Calls
  <2> QED BY <2>2, <2>3, <2>4
<1>3. /\ Update(q, k, amount) => Begin(q, "write", u)
      /\ CreatePolicy(q, k, amount) => Begin(q, "mirror", c)
      /\ Remove(q, k) => Begin(q, "retract", d)
  BY DEF Update, CreatePolicy, Remove
<1> HIDE DEF u, c, d
<1>4. /\ CallOK([u EXCEPT !.pc = "write"]) /\ CallOK([c EXCEPT !.pc = "mirror"]) /\ CallOK([d EXCEPT !.pc = "retract"])
      /\ {"write", "mirror", "retract"} \subseteq Places
  BY <1>2 DEF CallOK, Calls, Places
<1> QED BY <1>2, <1>3, <1>4, Begins

LEMMA RuleBegins ==
  ASSUME LedgerTypes, NEW q \in Requests, NEW r \in Readings, NEW metered \in BOOLEAN, CompleteRule(q, r, metered)
  PROVE  Moves(q, {"advance"}, {None}) /\ req[q].pc = "idle"
<1> DEFINE b == [Idle EXCEPT !.op = "COMPLETE", !.reading = r, !.metered = metered, !.basis = Basis(rule), !.left = 1]
<1>1. Basis(rule) \in Bases
  BY DEF LedgerTypes, Rules, Basis, Bases
<1>2. b \in Calls /\ b.op = "COMPLETE" /\ b.key = None /\ b.reading = r
  <2>1. 1 \in Int /\ "COMPLETE" \in Ops /\ r \in Maybe(Readings)
    BY DEF Ops, Maybe
  <2>2. b \in Calls
    BY <1>1, <2>1, Blanks DEF Calls
  <2>3. b.op = "COMPLETE" /\ b.key = None /\ b.reading = r
    BY Blanks DEF Calls
  <2> QED BY <2>2, <2>3
<1>3. Begin(q, "advance", b)
  BY DEF CompleteRule
<1> HIDE DEF b
<1>4. CallOK([b EXCEPT !.pc = "advance"]) /\ "advance" \in Places
  BY <1>2 DEF CallOK, Calls, Places
<1> QED BY <1>2, <1>3, <1>4, Begins

\* A rule is created or edited by its users.
Edits(q) == \E i \in Intervals : \/ \E on \in GivenDays, odo \in GivenOdos : CreateRule(q, i, on, odo)
                                \/ \E active \in BOOLEAN : UpdateRule(q, i, active)

LEMMA DueBegins ==
  ASSUME NEW q \in Requests, Begin(q, "due", [Idle EXCEPT !.op = "RULE", !.left = 1])
  PROVE  Moves(q, {"due"}, {None}) /\ req[q].pc = "idle"
<1> DEFINE b == [Idle EXCEPT !.op = "RULE", !.left = 1]
<1>1. b \in Calls /\ b.op = "RULE" /\ b.key = None
  <2>1. 1 \in Int /\ "RULE" \in Ops
    BY DEF Ops
  <2>2. b \in Calls
    BY <2>1, Blanks DEF Calls
  <2>3. b.op = "RULE" /\ b.key = None
    BY Blanks DEF Calls
  <2> QED BY <2>2, <2>3
<1> HIDE DEF b
<1>2. CallOK([b EXCEPT !.pc = "due"]) /\ "due" \in Places
  BY <1>1 DEF CallOK, Calls, Places
<1> QED BY <1>1, <1>2, Begins DEF b

-----------------------------------------------------------------------------
(* The statements of a request.                                                *)

LEMMA NewestIsOne ==
  ASSUME NEW es \in SUBSET Entries
  PROVE  Newest(es) \subseteq Readings
BY DEF Newest, Entries

LEMMA Inserts ==
  ASSUME LedgerTypes, NEW q \in Requests, Insert(q)
  PROVE  Moves(q, {"commit"}, {req[q].key}) /\ req[q].pc = "insert"
<1>1. PICK n \in IF req[q].metered THEN Refreshed(q) ELSE {None} :
        req' = [req EXCEPT ![q] = [req[q] EXCEPT !.pc = "commit", !.seen = entries, !.pick = n]]
  BY DEF Insert, Go
<1>2. req[q] \in Calls /\ CallOK(req[q]) /\ req[q].pc = "insert" /\ entries \in SUBSET Entries
  BY DEF Insert, At, LedgerTypes
<1>3. Recorded(q) \in SUBSET Entries
  <2>1. Entry(q) \in Entries
    BY <1>2 DEF Entry, Entries, Calls, CallOK
  <2> QED BY <1>2, <2>1 DEF Recorded, Written
<1>4. n \in Maybe(Readings)
  BY <1>1, <1>3, NewestIsOne DEF Refreshed, Maybe
<1> DEFINE c == [req[q] EXCEPT !.pc = "commit", !.seen = entries, !.pick = n]
<1>5. c \in Calls
  <2>1. "commit" \in Places
    BY DEF Places
  <2> QED BY <1>2, <1>4, <2>1 DEF Calls
<1>6. /\ c.pc = "commit" /\ c.key = req[q].key /\ c.op = req[q].op /\ c.reading = req[q].reading
      /\ c.seen = entries /\ c.pick = n /\ c.metered = req[q].metered /\ c.fix = req[q].fix
  BY <1>2 DEF Calls
<1>7. req' = [req EXCEPT ![q] = c]
  BY <1>1
<1> HIDE DEF c
<1>8. c.metered => c.pick \in Newest(c.seen \cup {[reading |-> c.reading, fix |-> c.fix]})
  BY <1>1, <1>6 DEF Refreshed, Recorded, Written, Entry
<1>9. CallOK(c)
  BY <1>2, <1>6, <1>8 DEF CallOK
<1> QED BY <1>2, <1>5, <1>6, <1>7, <1>9 DEF Moves

LEMMA Commits ==
  ASSUME LedgerTypes, NEW q \in Requests, Commit(q)
  PROVE  /\ req[q].pc = "commit"
         /\ req[q].op = "READING" => Moves(q, {"idle"}, {None}) /\ req[q].key = None
         /\ req[q].op # "READING" => Moves(q, {"match", "project"}, {req[q].key}) /\ req[q].key \in Records
<1>1. req[q] \in Calls /\ CallOK(req[q]) /\ req[q].pc = "commit"
  BY DEF Commit, At, LedgerTypes
<1>2. CASE req[q].op = "READING"
  BY <1>1, <1>2, Ends DEF Commit, CallOK
<1>3. CASE req[q].op # "READING"
  <2> DEFINE pc == NextAfterCommit(req[q].op)
             c == [req[q] EXCEPT !.pc = pc, !.seen = {}, !.pick = None, !.amount = None]
  <2>1. req[q].op \in {"SERVICE", "FUEL"} /\ req[q].key \in Records /\ req[q].reading \in Readings
    BY <1>1, <1>3 DEF CallOK
  <2>2. (req[q].op = "SERVICE" /\ pc = "match") \/ (req[q].op = "FUEL" /\ pc = "project")
    BY <2>1 DEF NextAfterCommit
  <2> HIDE DEF pc
  <2>3. c \in Calls
    <3>1. pc \in Places /\ None \in Maybe(Readings) /\ None \in Maybe(Amounts)
      BY <2>2 DEF Places, Maybe
    <3> QED BY <1>1, <3>1 DEF Calls
  <2>4. c.pc = pc /\ c.key = req[q].key /\ c.op = req[q].op /\ c.reading = req[q].reading
    BY <1>1 DEF Calls
  <2>5. req' = [req EXCEPT ![q] = c]
    BY <1>3 DEF Commit, Go, pc
  <2> HIDE DEF c
  <2>6. CallOK(c)
    BY <2>1, <2>2, <2>4 DEF CallOK
  <2> QED BY <1>1, <1>3, <2>1, <2>2, <2>3, <2>4, <2>5, <2>6 DEF Moves
<1> QED BY <1>1, <1>2, <1>3

LEMMA Writes ==
  ASSUME LedgerTypes, NEW q \in Requests, Write(q)
  PROVE  Moves(q, {"project", "mirror"}, {req[q].key}) /\ req[q].pc = "write" /\ req[q].key \in Records
<1>1. req[q] \in Calls /\ CallOK(req[q]) /\ req[q].pc = "write" /\ req[q].key \in Records
  BY DEF Write, At, LedgerTypes, CallOK
<1> DEFINE kind == source[req[q].key].kind
           m == [req[q] EXCEPT !.pc = "mirror", !.copy = Row(kind, req[q].amount)]
           p == [req[q] EXCEPT !.pc = "project"]
<1>2. kind \in Kinds \cup {"NONE"}
  BY <1>1 DEF LedgerTypes, Sources
<1>3. Row(kind, req[q].amount) \in Sources
  <2>1. req[q].amount \in Maybe(Amounts)
    BY <1>1 DEF Calls
  <2> QED BY <1>2, <2>1 DEF Row, Sources
<1>4. m \in Calls /\ p \in Calls
  <2>1. "mirror" \in Places /\ "project" \in Places
    BY DEF Places
  <2> HIDE DEF kind
  <2> QED BY <1>1, <1>3, <2>1 DEF Calls
<1>5. m.pc = "mirror" /\ m.key = req[q].key /\ p.pc = "project" /\ p.key = req[q].key
  BY <1>1 DEF Calls
<1>6. req' = [req EXCEPT ![q] = m] \/ req' = [req EXCEPT ![q] = p]
  BY DEF Write, Mirroring, Go
<1> HIDE DEF m, p
<1>7. CallOK(m) /\ CallOK(p)
  BY <1>1, <1>5 DEF CallOK
<1> QED BY <1>1, <1>4, <1>5, <1>6, <1>7 DEF Moves

LEMMA RuleHasBasis ==
  ASSUME LedgerTypes
  PROVE  Basis(rule) \in Bases
BY DEF LedgerTypes, Rules, Basis, Bases

LEMMA Matches ==
  ASSUME LedgerTypes, NEW q \in Requests, Match(q)
  PROVE  Moves(q, {"advance", "due"}, {req[q].key}) /\ req[q].pc = "match" /\ req[q].key \in Records
<1>1. /\ req[q] \in Calls /\ req[q].pc = "match" /\ req[q].op = "SERVICE" /\ req[q].key \in Records
      /\ req[q].reading \in Readings
  BY DEF Match, At, LedgerTypes, CallOK
<1> DEFINE a == [req[q] EXCEPT !.pc = "advance", !.basis = Basis(rule), !.left = 2]
           u == Used(req[q])
           d == [u EXCEPT !.pc = "due", !.left = 1]
<1>u. u \in Calls /\ u.key = req[q].key /\ u.op = "SERVICE"
  BY <1>1, UsedIsCall
<1> HIDE DEF u
<1>2. a \in Calls /\ d \in Calls
  <2>1. "advance" \in Places /\ "due" \in Places /\ 1 \in Int /\ 2 \in Int
    BY DEF Places
  <2> QED BY <1>1, <1>u, <2>1, RuleHasBasis DEF Calls
<1>3. /\ a.pc = "advance" /\ a.key = req[q].key /\ a.op = "SERVICE" /\ a.reading \in Readings
      /\ d.pc = "due" /\ d.key = req[q].key /\ d.op = "SERVICE"
  BY <1>1, <1>u DEF Calls
<1>4. req' = [req EXCEPT ![q] = a] \/ req' = [req EXCEPT ![q] = d]
  BY DEF Match, Go, u
<1> HIDE DEF a, d
<1>5. CallOK(a) /\ CallOK(d)
  BY <1>1, <1>3 DEF CallOK
<1> QED BY <1>1, <1>2, <1>3, <1>4, <1>5 DEF Moves

\* After a recomputation the request answers for its completion, goes on to the mirror
\* of its service, or ends; only one that has no record ends.
LEMMA Recomputes ==
  ASSUME LedgerTypes, NEW q \in Requests, req[q].pc \in {"due", "store"}, Recomputed(q)
  PROVE  Moves(q, {"present", "project", "idle"}, {req[q].key})
<1>1. req[q] \in Calls /\ CallOK(req[q])
  BY DEF LedgerTypes
<1> DEFINE u == Used(req[q])
           d == [u EXCEPT !.pc = "present"]
           p == [u EXCEPT !.pc = "project", !.left = 0]
<1>u. u \in Calls /\ u.key = req[q].key /\ u.op = req[q].op
  BY <1>1, UsedIsCall
<1> HIDE DEF u
<1>2. d \in Calls /\ p \in Calls
  <2>1. "present" \in Places /\ "project" \in Places /\ 0 \in Int
    BY DEF Places
  <2> QED BY <1>u, <2>1 DEF Calls
<1>3. /\ d.pc = "present" /\ d.key = req[q].key /\ d.op = req[q].op
      /\ p.pc = "project" /\ p.key = req[q].key /\ p.op = req[q].op
  BY <1>u DEF Calls
<1>4. \/ req' = [req EXCEPT ![q] = d]
      \/ req[q].op = "SERVICE" /\ req' = [req EXCEPT ![q] = p]
      \/ req[q].op # "SERVICE" /\ End(q)
  BY DEF Recomputed, Go, u
<1> HIDE DEF d, p
<1>5. CallOK(d) /\ (req[q].op = "SERVICE" => CallOK(p))
  BY <1>1, <1>3 DEF CallOK
<1>6. CASE req' = [req EXCEPT ![q] = d]
  BY <1>2, <1>3, <1>5, <1>6 DEF Moves
<1>7. CASE req[q].op = "SERVICE" /\ req' = [req EXCEPT ![q] = p]
  BY <1>2, <1>3, <1>5, <1>7 DEF Moves
<1>8. CASE req[q].op # "SERVICE" /\ End(q)
  <2>1. req[q].key = None
    BY <1>1, <1>8 DEF CallOK
  <2> QED BY <1>8, <2>1, Blanks DEF End, Go, Moves
<1> QED BY <1>4, <1>6, <1>7, <1>8

LEMMA Presents ==
  ASSUME LedgerTypes, NEW q \in Requests, Present(q)
  PROVE  Moves(q, {"due"}, {req[q].key}) /\ req[q].pc = "present"
<1>1. req[q] \in Calls /\ CallOK(req[q]) /\ req[q].pc = "present"
  BY DEF Present, At, LedgerTypes
<1> DEFINE n == req[q].left - 1
           c == [req[q] EXCEPT !.pc = "due", !.left = n]
<1>2. n \in Int /\ "due" \in Places
  BY <1>1 DEF Calls, Places
<1>3. req' = [req EXCEPT ![q] = c]
  BY DEF Present, Go
<1> HIDE DEF n
<1>4. c \in Calls /\ c.pc = "due" /\ c.key = req[q].key /\ c.op = req[q].op
  BY <1>1, <1>2 DEF Calls
<1> HIDE DEF c
<1>5. CallOK(c)
  BY <1>1, <1>4 DEF CallOK
<1> QED BY <1>1, <1>3, <1>4, <1>5 DEF Moves

LEMMA Advances ==
  ASSUME LedgerTypes, NEW q \in Requests, Advance(q)
  PROVE  Moves(q, {"due"}, {req[q].key}) /\ req[q].pc = "advance"
<1>1. req[q] \in Calls /\ CallOK(req[q]) /\ req[q].pc = "advance"
  BY DEF Advance, At, LedgerTypes
<1> DEFINE u == Used(req[q])
           c == [u EXCEPT !.pc = "due"]
<1>2. u \in Calls /\ u.key = req[q].key /\ u.op = req[q].op
  BY <1>1, UsedIsCall
<1>3. req' = [req EXCEPT ![q] = c]
  BY DEF Advance, AfterAdvance, Go
<1> HIDE DEF u
<1>4. c \in Calls /\ c.pc = "due" /\ c.key = req[q].key /\ c.op = req[q].op
  BY <1>2 DEF Calls, Places
<1> HIDE DEF c
<1>5. CallOK(c)
  BY <1>1, <1>4 DEF CallOK
<1> QED BY <1>1, <1>3, <1>4, <1>5 DEF Moves

LEMMA ReadInUnits ==
  ASSUME LedgerTypes
  PROVE  ReadIn \subseteq Units
<1>1. Newest(entries) \subseteq Readings
  BY NewestIsOne DEF LedgerTypes
<1>2. \A r \in Newest(entries) : r.unit \in Units
  BY <1>1, LedgerConstants
<1>3. rule.odo # None => rule.odo.unit \in Units
  BY DEF LedgerTypes, Rules, Distance, Maybe
<1> QED BY <1>2, <1>3 DEF ReadIn, Units

LEMMA DueReads ==
  ASSUME LedgerTypes, NEW q \in Requests, DueRead(q)
  PROVE  /\ req[q].pc = "due"
         /\ rule.exists => Moves(q, {"store"}, {req[q].key})
         /\ ~rule.exists => Moves(q, {"present", "project", "idle"}, {req[q].key})
<1>1. req[q] \in Calls /\ CallOK(req[q]) /\ req[q].pc = "due"
  BY DEF DueRead, At, LedgerTypes
<1>2. ASSUME rule.exists
      PROVE  Moves(q, {"store"}, {req[q].key})
  <2>1. PICK u \in ReadIn : req' = [req EXCEPT ![q] = [req[q] EXCEPT !.pc = "store", !.basis = Basis(rule), !.unit = u]]
    BY <1>2 DEF DueRead, Go
  <2> DEFINE s == [req[q] EXCEPT !.pc = "store", !.basis = Basis(rule), !.unit = u]
  <2>2. "store" \in Places /\ u \in Maybe(Units)
    BY <2>1, ReadInUnits DEF Places, Maybe
  <2>3. s \in Calls /\ s.pc = "store" /\ s.key = req[q].key /\ s.op = req[q].op /\ s.unit = u
    BY <1>1, <2>2, RuleHasBasis DEF Calls
  <2>4. req' = [req EXCEPT ![q] = s]
    BY <2>1
  <2> HIDE DEF s
  <2>5. CallOK(s)
    BY <1>1, <2>1, <2>3, ReadInUnits DEF CallOK
  <2> QED BY <2>3, <2>4, <2>5 DEF Moves
<1>3. ~rule.exists => Recomputed(q)
  BY DEF DueRead
<1> QED BY <1>1, <1>2, <1>3, Recomputes

LEMMA DueStores ==
  ASSUME LedgerTypes, NEW q \in Requests, DueStore(q)
  PROVE  Moves(q, {"present", "project", "idle"}, {req[q].key}) /\ req[q].pc = "store"
BY Recomputes DEF DueStore, At

LEMMA Projects ==
  ASSUME LedgerTypes, NEW q \in Requests, Project(q)
  PROVE  Moves(q, {"mirror"}, {req[q].key}) /\ req[q].pc = "project" /\ req[q].key \in Records
<1>1. req[q] \in Calls /\ req[q].pc = "project" /\ req[q].key \in Records
  BY DEF Project, At, LedgerTypes, CallOK
<1> DEFINE c == [req[q] EXCEPT !.pc = "mirror", !.copy = source[req[q].key]]
<1>2. c \in Calls
  <2>1. "mirror" \in Places /\ source[req[q].key] \in Sources
    BY <1>1 DEF Places, LedgerTypes
  <2> QED BY <1>1, <2>1 DEF Calls
<1>3. c.pc = "mirror" /\ c.key = req[q].key
  BY <1>1 DEF Calls
<1>4. req' = [req EXCEPT ![q] = c]
  BY DEF Project, Go
<1> HIDE DEF c
<1>5. CallOK(c)
  BY <1>1, <1>3 DEF CallOK
<1> QED BY <1>1, <1>2, <1>3, <1>4, <1>5 DEF Moves

\* What a request does last: its mirror's write, or nothing any more.
LEMMA Lasts ==
  ASSUME LedgerTypes, NEW q \in Requests,
         Mirror(q) \/ Retract(q) \/ MirrorFails(q) \/ Crash(q) \/ RuleGone(q)
  PROVE  /\ Moves(q, {"idle"}, {None})
         /\ Mirror(q) \/ Retract(q) \/ MirrorFails(q) => req[q].pc \in {"mirror", "retract"} /\ req[q].key \in Records
<1>1. End(q)
  BY DEF Mirror, Retract, MirrorFails, Crash, RuleGone, Abandon
<1>2. Mirror(q) \/ Retract(q) \/ MirrorFails(q) => req[q].pc \in {"mirror", "retract"}
  BY DEF Mirror, Retract, MirrorFails, At
<1>3. CallOK(req[q])
  BY DEF LedgerTypes
<1> QED BY <1>1, <1>2, <1>3, Ends DEF CallOK

-----------------------------------------------------------------------------
(* The rows stay well formed.                                                  *)

LEMMA DueIsWellFormed ==
  ASSUME NEW b \in Bases, NEW u, b.unit = None => u \in Units
  PROVE  DueOf(b, u) \in Dues
<1> DEFINE unit == IF b.unit = None THEN u ELSE b.unit
<1>1. /\ b.on = None \/ b.on \in Nat
      /\ b.days = None \/ b.days \in Nat
      /\ b.distance = None \/ b.distance \in Nat
  BY DEF Bases, Maybe
<1>2. unit \in Units /\ (b.odo # None => b.odo.value \in Nat /\ b.odo.unit \in Units)
  BY DEF Bases, Maybe, Distance
<1>3. Factor[unit] \in Nat /\ (b.odo # None => Factor[b.odo.unit] \in Nat)
  BY <1>2, LedgerConstants
<1> HIDE DEF unit
<1>4. \A m, n \in Nat : m * n \in Nat /\ m + n \in Nat
  OBVIOUS
<1>5. b.odo # None => Metres(b.odo) \in Nat
  BY <1>2, <1>3, <1>4 DEF Metres
<1>6. b.odo # None /\ b.distance # None => Metres(b.odo) + b.distance * Factor[unit] \in Nat
  BY <1>1, <1>3, <1>4, <1>5
<1>7. b.on # None /\ b.days # None => b.on + b.days \in Nat
  BY <1>1, <1>4
<1> QED BY <1>6, <1>7 DEF DueOf, Dues, Maybe, unit

\* Every step moves at most one request, to a statement whose facts it knows.
LEMMA OneMoves ==
  ASSUME LedgerTypes, [Next]_vars
  PROVE  UNCHANGED req \/ \E q \in Requests : Moves(q, Places, Maybe(Records))
<1> DEFINE Goal == \E q \in Requests : Moves(q, Places, Maybe(Records))
<1>1. UNCHANGED vars => UNCHANGED req
  BY DEF vars
<1>2. ASSUME NEW q \in Requests, NEW pcs, NEW keys, Moves(q, pcs, keys)
      PROVE  Goal
  <2>1. PICK c \in Calls : CallOK(c) /\ req' = [req EXCEPT ![q] = c]
    BY <1>2 DEF Moves
  <2>2. c.pc \in Places /\ c.key \in Maybe(Records)
    BY DEF Calls
  <2> QED BY <2>1, <2>2 DEF Moves
<1>3. ASSUME NEW q \in Requests, NEW r \in Readings, NEW yes \in BOOLEAN,
             AddOdometerEntry(q, r, yes) \/ CompleteRule(q, r, yes)
      PROVE  Goal
  BY <1>2, <1>3, ReadingBegins, RuleBegins
<1>4. ASSUME NEW q \in Requests, NEW k \in Records, NEW r \in Readings, NEW a \in Amounts \cup {None},
             CreateFuel(q, k, r, a) \/ \E x, y \in BOOLEAN : CreateService(q, k, r, x, y, a)
      PROVE  Goal
  <2>1. a \in Maybe(Amounts)
    BY DEF Maybe
  <2>2. CASE CreateFuel(q, k, r, a)
    BY <1>2, <2>1, <2>2, FuelBegins
  <2>3. ASSUME NEW x \in BOOLEAN, NEW y \in BOOLEAN, CreateService(q, k, r, x, y, a)
        PROVE  Goal
    <3>1. Moves(q, {"insert"}, {k})
      BY <2>1, <2>3, ServiceBegins
    <3> QED BY <1>2, <3>1
  <2> QED BY <1>4, <2>2, <2>3
<1>5. ASSUME NEW q \in Requests, NEW k \in Records,
             Remove(q, k) \/ \E a \in Amounts \cup {None} : Update(q, k, a) \/ CreatePolicy(q, k, a)
      PROVE  Goal
  BY <1>2, <1>5, PaperBegins DEF Maybe
<1>6. ASSUME NEW q \in Requests, Edits(q)
      PROVE  Goal
  BY <1>2, <1>6, DueBegins DEF Edits, UpdateRule, CreateRule
<1>7. ASSUME NEW q \in Requests, Insert(q) \/ Commit(q) \/ Write(q) \/ Match(q) \/ Advance(q)
      PROVE  Goal
  BY <1>2, <1>7, Inserts, Commits, Writes, Matches, Advances
<1>8. ASSUME NEW q \in Requests, DueRead(q) \/ DueStore(q) \/ Present(q) \/ Project(q)
      PROVE  Goal
  BY <1>2, <1>8, DueReads, DueStores, Presents, Projects
<1>9. ASSUME NEW q \in Requests, Mirror(q) \/ Retract(q) \/ MirrorFails(q) \/ Crash(q) \/ RuleGone(q)
      PROVE  Goal
  BY <1>2, <1>9, Lasts
<1>10. (RemoveRule \/ \E k \in Records : RemoveExpense(k) \/ \E a \in Amounts : AddExpense(k, a) \/ EditExpense(k, a))
         => UNCHANGED req
  BY DEF RemoveRule, RemoveExpense, AddExpense, EditExpense, calls
<1> QED BY <1>1, <1>3, <1>4, <1>5, <1>6, <1>7, <1>8, <1>9, <1>10 DEF Next, Edits

\* Which steps write the history, which write the rule.
LEMMA HistoryWriters ==
  ASSUME [Next]_vars
  PROVE  UNCHANGED history \/ \E q \in Requests : Commit(q)
<1>1. UNCHANGED vars => UNCHANGED history
  BY DEF vars, history
<1>2. ASSUME NEW q \in Requests, NEW r, NEW yes, AddOdometerEntry(q, r, yes) \/ CompleteRule(q, r, yes)
      PROVE  UNCHANGED history
  BY <1>2 DEF AddOdometerEntry, CompleteRule
<1>3. ASSUME NEW q \in Requests, NEW k, NEW r, NEW a,
             CreateFuel(q, k, r, a) \/ \E x, y \in BOOLEAN : CreateService(q, k, r, x, y, a)
      PROVE  UNCHANGED history
  BY <1>3 DEF CreateFuel, CreateService
<1>4. ASSUME NEW q \in Requests, NEW k,
             Remove(q, k) \/ \E a : Update(q, k, a) \/ CreatePolicy(q, k, a)
      PROVE  UNCHANGED history
  BY <1>4 DEF Remove, Update, CreatePolicy
<1>5. ASSUME NEW q \in Requests,
             Insert(q) \/ Write(q) \/ Match(q) \/ Advance(q) \/ Present(q) \/ Edits(q)
      PROVE  UNCHANGED history
  BY <1>5 DEF Insert, Write, Match, Advance, Present, Edits, UpdateRule, CreateRule
<1>6. ASSUME NEW q \in Requests,
             DueRead(q) \/ DueStore(q) \/ Project(q) \/ Mirror(q) \/ Retract(q) \/ MirrorFails(q) \/ Crash(q) \/ RuleGone(q)
      PROVE  UNCHANGED history
  BY <1>6 DEF DueRead, DueStore, Project, Mirror, Retract, MirrorFails, Crash, RuleGone, Abandon
<1>7. (RemoveRule \/ \E k \in Records : RemoveExpense(k) \/ \E a \in Amounts : AddExpense(k, a) \/ EditExpense(k, a))
         => UNCHANGED history
  BY DEF RemoveRule, RemoveExpense, AddExpense, EditExpense
<1> QED BY <1>1, <1>2, <1>3, <1>4, <1>5, <1>6, <1>7 DEF Next, Edits

LEMMA RuleWriters ==
  ASSUME [Next]_vars
  PROVE  \/ UNCHANGED upkeep \/ RemoveRule
         \/ \E q \in Requests : Advance(q) \/ Edits(q) \/ DueStore(q) \/ Crash(q) \/ RuleGone(q)
<1>1. UNCHANGED vars => UNCHANGED upkeep
  BY DEF vars, upkeep
<1>2. ASSUME NEW q \in Requests, NEW r, NEW yes, AddOdometerEntry(q, r, yes) \/ CompleteRule(q, r, yes)
      PROVE  UNCHANGED upkeep
  BY <1>2 DEF AddOdometerEntry, CompleteRule
<1>3. ASSUME NEW q \in Requests, NEW k, NEW r, NEW a,
             CreateFuel(q, k, r, a) \/ \E x, y \in BOOLEAN : CreateService(q, k, r, x, y, a)
      PROVE  UNCHANGED upkeep
  BY <1>3 DEF CreateFuel, CreateService
<1>4. ASSUME NEW q \in Requests, NEW k,
             Remove(q, k) \/ \E a : Update(q, k, a) \/ CreatePolicy(q, k, a)
      PROVE  UNCHANGED upkeep
  BY <1>4 DEF Remove, Update, CreatePolicy
<1>5. ASSUME NEW q \in Requests, Insert(q) \/ Commit(q) \/ Write(q) \/ Match(q)
      PROVE  UNCHANGED upkeep
  BY <1>5 DEF Insert, Commit, Write, Match
<1>6. ASSUME NEW q \in Requests, DueRead(q) \/ Present(q) \/ Project(q) \/ Mirror(q) \/ Retract(q) \/ MirrorFails(q)
      PROVE  UNCHANGED upkeep
  BY <1>6 DEF DueRead, Present, Project, Mirror, Retract, MirrorFails
<1>7. (\E k \in Records : RemoveExpense(k) \/ \E a \in Amounts : AddExpense(k, a) \/ EditExpense(k, a))
         => UNCHANGED upkeep
  BY DEF RemoveExpense, AddExpense, EditExpense
<1> QED BY <1>1, <1>2, <1>3, <1>4, <1>5, <1>6, <1>7 DEF Next, Edits

-----------------------------------------------------------------------------
(* Each statement leaves well-formed rows.                                     *)

LEMMA HistoryTyped ==
  ASSUME LedgerTypes, [Next]_vars
  PROVE  (entries \subseteq Entries /\ cached \in Maybe(Readings))'
<1>1. UNCHANGED history => (entries \subseteq Entries /\ cached \in Maybe(Readings))'
  BY DEF history, LedgerTypes
<1>2. ASSUME NEW q \in Requests, Commit(q)
      PROVE  (entries \subseteq Entries /\ cached \in Maybe(Readings))'
  <2>1. req[q] \in Calls /\ CallOK(req[q]) /\ req[q].pc = "commit"
    BY <1>2 DEF Commit, At, LedgerTypes
  <2>2. Entry(q) \in Entries /\ req[q].pick \in Maybe(Readings)
    BY <2>1 DEF Entry, Entries, Calls, CallOK
  <2> QED BY <1>2, <2>2 DEF Commit, Recorded, Written, LedgerTypes
<1> QED BY <1>1, <1>2, HistoryWriters

LEMMA RuleTyped ==
  ASSUME LedgerTypes, [Next]_vars
  PROVE  (rule \in Rules)'
<1>1. rule \in Rules
  BY DEF LedgerTypes
<1>2. UNCHANGED rule => (rule \in Rules)'
  BY <1>1
<1>3. RemoveRule => (rule \in Rules)'
  BY Blanks DEF RemoveRule, Rules
<1>4. ASSUME NEW q \in Requests, Advance(q)
      PROVE  (rule \in Rules)'
  <2>1. req[q] \in Calls /\ req[q].reading \in Readings
    BY <1>4 DEF Advance, At, LedgerTypes, CallOK
  <2> DEFINE next == Completed(req[q].basis, Completion(q))
  <2>2. req[q].reading.day \in Nat /\ req[q].reading.value \in Nat /\ VehicleUnit \in Units
    BY <2>1, LedgerConstants
  <2>3. Completion(q).on \in Nat /\ Completion(q).odo \in Maybe(Distance)
    BY <2>2 DEF Completion, Distance, Maybe
  <2>4. req[q].basis.odo \in Maybe(Distance)
    BY <2>1 DEF Calls, Bases
  <2>5. next.on \in Maybe(Nat) /\ next.odo \in Maybe(Distance)
    BY <2>3, <2>4 DEF Completed, Maybe
  <2>6. rule' = [rule EXCEPT !.on = next.on, !.odo = next.odo]
    BY <1>4 DEF Advance
  <2> HIDE DEF next
  <2> QED BY <1>1, <2>5, <2>6 DEF Rules
<1>5. ASSUME NEW q \in Requests, NEW i \in Intervals, NEW on \in GivenDays, NEW odo \in GivenOdos, CreateRule(q, i, on, odo)
      PROVE  (rule \in Rules)'
  <2>1. on \in Maybe(Nat) /\ odo \in Maybe(Distance)
    <3>1. \A r \in Readings : r.day \in Nat /\ r.value \in Nat /\ VehicleUnit \in Units
      BY LedgerConstants
    <3> QED BY <3>1 DEF GivenDays, GivenOdos, Maybe, Distance
  <2>2. i.days \in Maybe(Nat) /\ i.distance \in Maybe(Nat) /\ i.unit \in Maybe(Units)
    BY LedgerConstants
  <2>3. NoRule \in Rules /\ rule' = [NoRule EXCEPT !.exists = TRUE, !.active = TRUE, !.on = on, !.odo = odo,
                                            !.days = i.days, !.distance = i.distance, !.unit = i.unit]
    BY <1>5, Blanks DEF CreateRule
  <2> QED BY <2>1, <2>2, <2>3 DEF Rules
<1>6. ASSUME NEW q \in Requests, NEW i \in Intervals, NEW active \in BOOLEAN, UpdateRule(q, i, active)
      PROVE  (rule \in Rules)'
  <2>1. i.days \in Maybe(Nat) /\ i.distance \in Maybe(Nat)
    BY LedgerConstants
  <2>2. rule' = [rule EXCEPT !.days = i.days, !.distance = i.distance, !.active = active]
    BY <1>6 DEF UpdateRule, Edited
  <2> QED BY <1>1, <2>1, <2>2 DEF Rules
<1>7. ASSUME NEW q \in Requests, DueStore(q)
      PROVE  (rule \in Rules)'
  <2>1. req[q].basis \in Bases /\ req[q].unit \in Units
    BY <1>7 DEF DueStore, At, LedgerTypes, Calls, CallOK
  <2> DEFINE due == DueOf(req[q].basis, req[q].unit)
  <2>2. due \in Dues
    BY <2>1, DueIsWellFormed
  <2>3. rule' = [rule EXCEPT !.due = due]
    BY <1>7 DEF DueStore
  <2> HIDE DEF due
  <2> QED BY <1>1, <2>2, <2>3 DEF Rules
<1>8. ASSUME NEW q \in Requests, Crash(q) \/ RuleGone(q)
      PROVE  UNCHANGED rule
  BY <1>8 DEF Crash, RuleGone, Abandon
<1>9. UNCHANGED upkeep => UNCHANGED rule
  BY DEF upkeep
<1> QED BY <1>2, <1>3, <1>4, <1>5, <1>6, <1>7, <1>8, <1>9, RuleWriters DEF Edits

LEMMA BooksWriters ==
  ASSUME [Next]_vars
  PROVE  \/ UNCHANGED books
         \/ \E q \in Requests : \/ Commit(q) \/ Write(q) \/ Mirror(q) \/ Retract(q) \/ MirrorFails(q) \/ Crash(q) \/ RuleGone(q)
                                \/ \E k \in Records : Remove(q, k) \/ \E a \in Amounts \cup {None} : CreatePolicy(q, k, a)
         \/ \E k \in Records : RemoveExpense(k) \/ \E a \in Amounts : AddExpense(k, a) \/ EditExpense(k, a)
<1>1. UNCHANGED vars => UNCHANGED books
  BY DEF vars, books
<1>2. ASSUME NEW q \in Requests, NEW r, NEW yes, AddOdometerEntry(q, r, yes) \/ CompleteRule(q, r, yes)
      PROVE  UNCHANGED books
  BY <1>2 DEF AddOdometerEntry, CompleteRule
<1>3. ASSUME NEW q \in Requests, NEW k, NEW r, NEW a,
             CreateFuel(q, k, r, a) \/ (\E x, y \in BOOLEAN : CreateService(q, k, r, x, y, a)) \/ Update(q, k, a)
      PROVE  UNCHANGED books
  BY <1>3 DEF CreateFuel, CreateService, Update
<1>4. ASSUME NEW q \in Requests, Insert(q) \/ Match(q) \/ Advance(q) \/ Present(q) \/ Edits(q)
      PROVE  UNCHANGED books
  BY <1>4 DEF Insert, Match, Advance, Present, Edits, UpdateRule, CreateRule
<1>5. ASSUME NEW q \in Requests, DueRead(q) \/ DueStore(q) \/ Project(q)
      PROVE  UNCHANGED books
  BY <1>5 DEF DueRead, DueStore, Project
<1>6. RemoveRule => UNCHANGED books
  BY DEF RemoveRule
<1> QED BY <1>1, <1>2, <1>3, <1>4, <1>5, <1>6 DEF Next, Edits

Typed(s, l, a) == s \in [Records -> Sources] /\ l \in [Records -> Expenses] /\ a \subseteq Records

LEMMA RowsTyped ==
  /\ \A src \in Sources, old \in Expenses : Mirrored(src, old) \in Expenses
  /\ \A old \in Expenses : Withdrawn(old) \in Expenses
  /\ \A old \in Expenses, a \in Maybe(Amounts) : [old EXCEPT !.amount = a] \in Expenses
  /\ \A src \in Sources, a \in Maybe(Amounts) : [src EXCEPT !.amount = a] \in Sources
  /\ \A src \in Sources : [src EXCEPT !.live = FALSE] \in Sources
  /\ \A kind \in Kinds, a \in Maybe(Amounts) : Row(kind, a) \in Sources
<1>1. \A old \in Expenses : Withdrawn(old) \in Expenses
  BY DEF Withdrawn, Expenses
<1>2. \A src \in Sources, old \in Expenses : Mirrored(src, old) \in Expenses
  BY <1>1 DEF Mirrored, Expenses, Sources
<1>3. /\ \A old \in Expenses, a \in Maybe(Amounts) : [old EXCEPT !.amount = a] \in Expenses
      /\ \A src \in Sources, a \in Maybe(Amounts) : [src EXCEPT !.amount = a] \in Sources
  BY DEF Expenses, Sources
<1>4. /\ \A src \in Sources : [src EXCEPT !.live = FALSE] \in Sources
      /\ \A kind \in Kinds, a \in Maybe(Amounts) : Row(kind, a) \in Sources
  BY DEF Sources, Row
<1> QED BY <1>1, <1>2, <1>3, <1>4

LEMMA BooksTyped ==
  ASSUME LedgerTypes, [Next]_vars
  PROVE  Typed(source', ledger', astray')
<1>1. Typed(source, ledger, astray)
  BY DEF LedgerTypes, Typed
<1>2. UNCHANGED books => Typed(source', ledger', astray')
  BY <1>1 DEF books
<1>3. ASSUME NEW q \in Requests, Commit(q) \/ Write(q)
      PROVE  Typed(source', ledger', astray')
  <2>1. req[q] \in Calls /\ CallOK(req[q])
    BY DEF LedgerTypes
  <2>2. req[q].amount \in Maybe(Amounts)
    BY <2>1 DEF Calls
  <2>3. ASSUME Commit(q), req[q].op # "READING"
        PROVE  Row(req[q].op, req[q].amount) \in Sources
    <3>1. req[q].op \in Kinds
      BY <2>1, <2>3 DEF Commit, At, CallOK, Kinds
    <3> QED BY <3>1, <2>2, RowsTyped
  <2>4. ASSUME Write(q)
        PROVE  req[q].key \in Records /\ [source[req[q].key] EXCEPT !.amount = req[q].amount] \in Sources
    <3>1. req[q].key \in Records
      BY <2>1, <2>4 DEF Write, At, CallOK
    <3>2. source[req[q].key] \in Sources
      BY <1>1, <3>1 DEF Typed
    <3> QED BY <3>1, <3>2, <2>2, RowsTyped
  <2>5. CASE Commit(q)
    <3>1. ledger' = ledger /\ astray' = astray
      BY <2>5 DEF Commit
    <3>2. source' = source \/ (req[q].op # "READING" /\ source' = [source EXCEPT ![req[q].key] = Row(req[q].op, req[q].amount)])
      BY <2>5 DEF Commit
    <3> QED BY <1>1, <2>3, <2>5, <3>1, <3>2 DEF Typed
  <2>6. CASE Write(q)
    <3>1. ledger' = ledger /\ astray' = astray
          /\ source' = [source EXCEPT ![req[q].key] = [source[req[q].key] EXCEPT !.amount = req[q].amount]]
      BY <2>6 DEF Write
    <3> QED BY <1>1, <2>4, <2>6, <3>1 DEF Typed
  <2> QED BY <1>3, <2>5, <2>6
<1>4. ASSUME NEW q \in Requests, NEW k \in Records, NEW a \in Maybe(Amounts), Remove(q, k) \/ CreatePolicy(q, k, a)
      PROVE  Typed(source', ledger', astray')
  <2>1. [source[k] EXCEPT !.live = FALSE] \in Sources
    BY <1>1, RowsTyped DEF Typed
  <2>2. Row("POLICY", a) \in Sources
    BY RowsTyped DEF Kinds
  <2>3. ledger' = ledger /\ astray' = astray
    BY <1>4 DEF Remove, CreatePolicy
  <2>4. \/ source' = [source EXCEPT ![k] = [source[k] EXCEPT !.live = FALSE]]
        \/ source' = [source EXCEPT ![k] = Row("POLICY", a)]
    BY <1>4 DEF Remove, CreatePolicy
  <2> QED BY <1>1, <2>1, <2>2, <2>3, <2>4 DEF Typed
<1>5. ASSUME NEW q \in Requests, Mirror(q) \/ Retract(q) \/ MirrorFails(q) \/ Crash(q) \/ RuleGone(q)
      PROVE  Typed(source', ledger', astray')
  <2>1. req[q] \in Calls
    BY DEF LedgerTypes
  <2>2. req[q].copy \in Sources /\ req[q].key \in Maybe(Records)
    BY <2>1 DEF Calls
  <2>3. \A k \in Records : Mirrored(req[q].copy, ledger[k]) \in Expenses /\ Withdrawn(ledger[k]) \in Expenses
    BY <1>1, <2>2, RowsTyped DEF Typed
  <2>4. source' = source
    BY <1>5 DEF Mirror, Retract, MirrorFails, Crash, RuleGone, Abandon
  <2>5. Mirror(q) \/ Retract(q) \/ MirrorFails(q) => req[q].key \in Records
    BY Lasts
  <2>6. CASE Mirror(q)
    <3>1. ledger' = [ledger EXCEPT ![req[q].key] = Mirrored(req[q].copy, ledger[req[q].key])]
      BY <2>6 DEF Mirror
    <3>2. astray' \subseteq astray \cup {req[q].key}
      BY <2>6 DEF Mirror
    <3> QED BY <1>1, <2>3, <2>4, <2>5, <2>6, <3>1, <3>2 DEF Typed
  <2>7. CASE Retract(q)
    BY <1>1, <2>3, <2>4, <2>5, <2>7 DEF Retract, Typed
  <2>8. CASE MirrorFails(q)
    BY <1>1, <2>4, <2>5, <2>8 DEF MirrorFails, Typed
  <2>9. CASE Crash(q) \/ RuleGone(q)
    BY <1>1, <2>2, <2>4, <2>9 DEF Crash, RuleGone, Abandon, Typed, Maybe
  <2> QED BY <1>5, <2>6, <2>7, <2>8, <2>9
<1>6. ASSUME NEW k \in Records, RemoveExpense(k) \/ \E a \in Amounts : AddExpense(k, a) \/ EditExpense(k, a)
      PROVE  Typed(source', ledger', astray')
  <2>1. source' = source /\ astray' = astray
    BY <1>6 DEF RemoveExpense, AddExpense, EditExpense
  <2>2. ledger[k] \in Expenses
    BY <1>1 DEF Typed
  <2>3. \A a \in Amounts : [from |-> "MANUAL", live |-> TRUE, amount |-> a] \in Expenses /\ a \in Maybe(Amounts)
    BY DEF Expenses, Maybe
  <2>4. \E x \in Expenses : ledger' = [ledger EXCEPT ![k] = x]
    BY <1>6, <2>2, <2>3, RowsTyped DEF RemoveExpense, AddExpense, EditExpense
  <2> QED BY <1>1, <2>1, <2>4 DEF Typed
<1> QED BY <1>2, <1>3, <1>4, <1>5, <1>6, BooksWriters DEF Maybe

LEMMA TypesStep == LedgerTypes /\ [Next]_vars => LedgerTypes'
<1> SUFFICES ASSUME LedgerTypes, [Next]_vars PROVE LedgerTypes'
  OBVIOUS
<1>1. (req \in [Requests -> Calls])' /\ (\A q \in Requests : CallOK(req[q]))'
  <2>1. CASE UNCHANGED req
    BY <2>1 DEF LedgerTypes, CallOK
  <2>2. CASE \E q \in Requests : Moves(q, Places, Maybe(Records))
    BY <2>2, Moved
  <2> QED BY <2>1, <2>2, OneMoves
<1> QED BY <1>1, HistoryTyped, RuleTyped, BooksTyped DEF LedgerTypes, Typed

LEMMA TypesInit == Init => LedgerTypes
<1> SUFFICES ASSUME Init PROVE LedgerTypes
  OBVIOUS
<1>1. req \in [Requests -> Calls] /\ \A q \in Requests : CallOK(req[q])
  BY Blanks DEF Init
<1>2. cached \in Maybe(Readings)
  BY DEF Init, Maybe
<1> QED BY <1>1, <1>2, Blanks DEF Init, LedgerTypes

-----------------------------------------------------------------------------
(* The cached reading, and the due point.                                      *)

LEMMA CacheStep ==
  ASSUME LedgerTypes, CacheIsNewest, [Next]_vars
  PROVE  CacheIsNewest'
<1>1. CASE UNCHANGED history
  BY <1>1 DEF history, CacheIsNewest, Newest
<1>2. ASSUME NEW q \in Requests, Commit(q)
      PROVE  CacheIsNewest'
  <2>1. CallOK(req[q]) /\ req[q].pc = "commit" /\ entries' = Recorded(q)
    BY <1>2 DEF Commit, At, LedgerTypes
  <2>2. CASE ~req[q].metered
    <3>1. entries' = entries /\ cached' = cached /\ cacheLags' = cacheLags
      BY <1>2, <2>1, <2>2 DEF Commit, Recorded, Written
    <3> QED BY <3>1 DEF CacheIsNewest, Newest
  <2>3. CASE req[q].metered
    <3>1. cached' = req[q].pick /\ cacheLags' = (req[q].seen # entries)
      BY <1>2, <2>3 DEF Commit
    <3>2. req[q].pick \in Newest(req[q].seen \cup {Entry(q)})
      BY <2>1, <2>3 DEF CallOK, Entry
    <3>3. entries' = entries \cup {Entry(q)}
      BY <2>1, <2>3 DEF Recorded, Written
    <3>4. ~cacheLags' => cached' \in Newest(entries')
      BY <3>1, <3>2, <3>3
    <3> QED BY <3>4 DEF CacheIsNewest, Newest
  <2> QED BY <2>2, <2>3
<1> QED BY <1>1, <1>2, HistoryWriters

\* A request stops recomputing the due point only by storing it, by dying, or
\* because it found no rule.
LEMMA LeavesDue ==
  ASSUME LedgerTypes, [Next]_vars, NEW q \in Requests, req[q].pc \in {"due", "store"}
  PROVE  req'[q].pc \in {"due", "store"} \/ DueStore(q) \/ Crash(q) \/ ~rule.exists
<1> DEFINE Goal == req'[q].pc \in {"due", "store"} \/ DueStore(q) \/ Crash(q) \/ ~rule.exists
<1>1. req' = req => Goal
  OBVIOUS
<1>2. ASSUME NEW p \in Requests, NEW pcs, NEW keys, Moves(p, pcs, keys), req[p].pc \notin {"due", "store"}
      PROVE  Goal
  BY <1>2, Moved
<1>3. ASSUME NEW p \in Requests, p # q, NEW pcs, NEW keys, Moves(p, pcs, keys)
      PROVE  Goal
  BY <1>3, Moved
<1>4. ASSUME NEW p \in Requests, NEW r \in Readings, NEW yes \in BOOLEAN,
             AddOdometerEntry(p, r, yes) \/ CompleteRule(p, r, yes)
      PROVE  Goal
  <2>1. (Moves(p, {"insert"}, {None}) \/ Moves(p, {"advance"}, {None})) /\ req[p].pc = "idle"
    BY <1>4, ReadingBegins, RuleBegins
  <2> QED BY <1>2, <2>1
<1>5. ASSUME NEW p \in Requests, NEW k \in Records, NEW r \in Readings, NEW a \in Maybe(Amounts),
             NEW x \in BOOLEAN, NEW y \in BOOLEAN, CreateFuel(p, k, r, a) \/ CreateService(p, k, r, x, y, a)
      PROVE  Goal
  <2>1. Moves(p, {"insert"}, {k}) /\ req[p].pc = "idle"
    BY <1>5, FuelBegins, ServiceBegins
  <2> QED BY <1>2, <2>1
<1>6. ASSUME NEW p \in Requests, NEW k \in Records, NEW a \in Maybe(Amounts),
             Remove(p, k) \/ Update(p, k, a) \/ CreatePolicy(p, k, a)
      PROVE  Goal
  <2>1. (\E pcs : Moves(p, pcs, {k})) /\ req[p].pc = "idle"
    BY <1>6, PaperBegins
  <2> QED BY <1>2, <2>1
<1>7. ASSUME NEW p \in Requests, Edits(p)
      PROVE  Goal
  <2>1. Moves(p, {"due"}, {None}) /\ req[p].pc = "idle"
    BY <1>7, DueBegins DEF Edits, UpdateRule, CreateRule
  <2> QED BY <1>2, <2>1
<1>8. ASSUME NEW p \in Requests, Insert(p) \/ Commit(p) \/ Write(p) \/ Match(p) \/ Advance(p) \/ Present(p) \/ Project(p)
      PROVE  Goal
  <2>1. (\E pcs, keys : Moves(p, pcs, keys)) /\ req[p].pc \in {"insert", "commit", "write", "match", "advance", "present", "project"}
    BY <1>8, Inserts, Commits, Writes, Matches, Advances, Presents, Projects
  <2> QED BY <1>2, <2>1
<1>9. ASSUME NEW p \in Requests, Mirror(p) \/ Retract(p) \/ MirrorFails(p)
      PROVE  Goal
  <2>1. Moves(p, {"idle"}, {None}) /\ req[p].pc \in {"mirror", "retract"}
    BY <1>9, Lasts
  <2> QED BY <1>2, <2>1
<1>10. ASSUME NEW p \in Requests, DueRead(p) \/ DueStore(p) \/ Crash(p) \/ RuleGone(p)
       PROVE  Goal
  <2>1. \E pcs, keys : Moves(p, pcs, keys)
    BY <1>10, DueReads, DueStores, Lasts
  <2>2. CASE p = q
    <3>1. CASE DueRead(p)
      <4>1. rule.exists => Moves(p, {"store"}, {req[p].key})
        BY <3>1, DueReads
      <4>2. rule.exists => req'[q].pc = "store"
        BY <2>2, <4>1, Moved
      <4> QED BY <4>2
    <3>2. RuleGone(p) => ~rule.exists
      BY DEF RuleGone
    <3>3. (DueStore(p) => DueStore(q)) /\ (Crash(p) => Crash(q))
      BY <2>2, Zenon
    <3> QED BY <1>10, <3>1, <3>2, <3>3
  <2> QED BY <1>3, <2>1, <2>2
<1>11. (RemoveRule \/ \E k \in Records : RemoveExpense(k) \/ \E a \in Amounts : AddExpense(k, a) \/ EditExpense(k, a))
         => UNCHANGED req
  BY DEF RemoveRule, RemoveExpense, AddExpense, EditExpense, calls
<1>12. UNCHANGED vars => UNCHANGED req
  BY DEF vars
<1> HIDE DEF Goal
<1>13. ASSUME NEW p \in Requests, NEW k \in Records, NEW r \in Readings, NEW a \in Amounts \cup {None},
              CreateFuel(p, k, r, a) \/ \E x, y \in BOOLEAN : CreateService(p, k, r, x, y, a)
       PROVE  Goal
  BY <1>5, <1>13 DEF Maybe
<1>14. ASSUME NEW p \in Requests, NEW k \in Records,
              Remove(p, k) \/ \E a \in Amounts \cup {None} : Update(p, k, a) \/ CreatePolicy(p, k, a)
       PROVE  Goal
  BY <1>6, <1>14 DEF Maybe
<1>15. Goal
  BY <1>1, <1>4, <1>7, <1>8, <1>9, <1>10, <1>11, <1>12, <1>13, <1>14 DEF Next, Edits
<1> QED BY <1>15 DEF Goal

\* The due point a basis has, in one unit or another.
DueFrom(r) == \E u \in Units : r.due = DueOf(Basis(r), u)

LEMMA DueStep ==
  ASSUME LedgerTypes, DueFollowsRule, [Next]_vars
  PROVE  DueFollowsRule'
<1>0. DueFollowsRule <=> (rule.exists /\ ~Recomputing /\ ~ruleLags => DueFrom(rule))
  BY DEF DueFollowsRule, DueFrom
<1>P. DueFollowsRule' <=> (rule'.exists /\ ~Recomputing' /\ ~ruleLags' => DueFrom(rule'))
  BY DEF DueFollowsRule, DueFrom, DueOf, Basis, Metres
<1>1. ASSUME NEW q \in Requests, DueStore(q)
      PROVE  DueFollowsRule'
  <2>1. rule \in Rules /\ req[q].unit \in Units
    BY <1>1 DEF LedgerTypes, DueStore, At, CallOK
  <2> DEFINE due == DueOf(req[q].basis, req[q].unit)
  <2>2. rule' = [rule EXCEPT !.due = due] /\ ruleLags' = (req[q].basis # Basis(rule))
    BY <1>1 DEF DueStore
  <2> HIDE DEF due
  <2>3. /\ rule'.due = due /\ rule'.on = rule.on /\ rule'.odo = rule.odo
        /\ rule'.days = rule.days /\ rule'.distance = rule.distance /\ rule'.unit = rule.unit
    BY <2>1, <2>2 DEF Rules
  <2>4. Basis(rule') = Basis(rule)
    BY <2>3 DEF Basis
  <2>5. ~ruleLags' => rule'.due = DueOf(Basis(rule'), req[q].unit)
    BY <2>2, <2>3, <2>4 DEF due
  <2> QED BY <1>P, <2>1, <2>5 DEF DueFrom
<1>2. ASSUME NEW q \in Requests, Crash(q) \/ RuleGone(q), req[q].pc \in {"due", "store"}
      PROVE  ruleLags'
  BY <1>2 DEF Crash, RuleGone, Abandon, At
<1>3. ASSUME rule' = rule, ruleLags => ruleLags'
      PROVE  DueFollowsRule'
  <2>1. SUFFICES ASSUME rule.exists, ~ruleLags', ~Recomputing'
                 PROVE  DueFrom(rule)
    BY <1>3, <1>P
  <2>2. CASE ~Recomputing
    BY <1>0, <1>3, <2>1, <2>2
  <2>3. CASE Recomputing
    <3>1. PICK q \in Requests : req[q].pc \in {"due", "store"}
      BY <2>3 DEF Recomputing
    <3>2. req'[q].pc \notin {"due", "store"}
      BY <2>1 DEF Recomputing
    <3>3. ~Crash(q)
      BY <1>2, <2>1, <3>1
    <3>4. DueStore(q)
      BY <2>1, <3>1, <3>2, <3>3, LeavesDue
    <3>5. DueFollowsRule'
      BY <1>1, <3>4
    <3> QED BY <1>3, <1>P, <2>1, <3>5
  <2> QED BY <2>2, <2>3
<1>4. RemoveRule => DueFollowsRule'
  BY <1>P DEF RemoveRule, NoRule
<1>5. ASSUME NEW q \in Requests, Advance(q) \/ Edits(q)
      PROVE  DueFollowsRule'
  <2>1. \E keys : Moves(q, {"due"}, keys)
    BY <1>5, Advances, DueBegins DEF Edits, UpdateRule, CreateRule
  <2>2. req'[q].pc = "due"
    BY <2>1, Moved
  <2> QED BY <1>P, <2>2 DEF Recomputing
<1>6. ASSUME NEW q \in Requests, Crash(q) \/ RuleGone(q)
      PROVE  DueFollowsRule'
  <2>1. rule' = rule /\ (ruleLags => ruleLags')
    BY <1>6 DEF Crash, RuleGone, Abandon
  <2> QED BY <1>3, <2>1
<1> QED BY <1>1, <1>3, <1>4, <1>5, <1>6, RuleWriters DEF upkeep

-----------------------------------------------------------------------------
(* The expense ledger. A record being added is nobody else's yet; a removal has  *)
(* withdrawn its record; and whoever writes a record holds it until its mirror   *)
(* is written or counted astray, but for a correction not yet written.           *)

Adding(q) == req[q].pc \in {"insert", "commit"} /\ req[q].key # None
Added == \A q \in Requests : Adding(q) =>
           source[req[q].key] = NoSource /\ \A p \in Requests \ {q} : req[p].key # req[q].key
Removed == \A q \in Requests : req[q].pc = "retract" => ~source[req[q].key].live
Holds(q, k) == req[q].key = k /\ req[q].pc # "write"
Kept == \A k \in Records :
          \/ source[k].kind = "NONE" \/ k \in astray \/ Agrees(k)
          \/ \E q \in Requests : Holds(q, k)
Books == Added /\ Removed /\ Kept

\* What a step of q must see to for the books to stay right.
Enters(q) ==
  /\ Adding(q)' => /\ source'[req'[q].key] = NoSource
                   /\ \A p \in Requests \ {q} : req[p].key # req'[q].key
  /\ req'[q].pc = "retract" => ~source'[req'[q].key].live
  /\ \A p \in Requests \ {q} : Adding(p) =>
       req'[q].key # req[p].key /\ source'[req[p].key] = source[req[p].key]
  /\ \A p \in Requests \ {q} :
       req[p].pc = "retract" /\ ~source[req[p].key].live => ~source'[req[p].key].live
SameRow(k) == source'[k] = source[k] /\ ledger'[k] = ledger[k] /\ (k \in astray => k \in astray')
Keeps(q) == \A k \in Records :
  \/ SameRow(k) /\ (Holds(q, k) => Holds(q, k)')
  \/ Holds(q, k)' \/ k \in astray' \/ Agrees(k)' \/ source'[k].kind = "NONE"

LEMMA BooksMove ==
  ASSUME LedgerTypes, Books, NEW q \in Requests, NEW pcs, NEW keys, Moves(q, pcs, keys), Enters(q), Keeps(q)
  PROVE  Books'
<1>1. \A p \in Requests \ {q} : req'[p] = req[p]
  BY Moved
<1>2. Added'
  <2> SUFFICES ASSUME NEW p \in Requests, Adding(p)'
               PROVE  source'[req'[p].key] = NoSource /\ \A o \in Requests \ {p} : req'[o].key # req'[p].key
    BY DEF Added
  <2>1. CASE p = q
    <3>1. Adding(q)'
      BY <2>1 DEF Adding
    <3>2. source'[req'[q].key] = NoSource /\ \A o \in Requests \ {q} : req[o].key # req'[q].key
      BY <3>1 DEF Enters
    <3> QED BY <1>1, <2>1, <3>2
  <2>2. CASE p # q
    <3>1. Adding(p) /\ req'[p] = req[p]
      BY <1>1, <2>2 DEF Adding
    <3>2. source[req[p].key] = NoSource /\ \A o \in Requests \ {p} : req[o].key # req[p].key
      BY <3>1 DEF Books, Added
    <3>3. req'[q].key # req[p].key /\ source'[req[p].key] = source[req[p].key]
      BY <2>2, <3>1 DEF Enters
    <3> QED BY <1>1, <3>1, <3>2, <3>3
  <2> QED BY <2>1, <2>2
<1>3. Removed'
  <2> SUFFICES ASSUME NEW p \in Requests, req'[p].pc = "retract"
               PROVE  ~source'[req'[p].key].live
    BY DEF Removed
  <2>1. CASE p = q
    BY <2>1 DEF Enters
  <2>2. CASE p # q
    <3>1. req'[p] = req[p]
      BY <1>1, <2>2
    <3>2. ~source[req[p].key].live
      BY <3>1 DEF Books, Removed
    <3> QED BY <2>2, <3>1, <3>2 DEF Enters
  <2> QED BY <2>1, <2>2
<1>4. Kept'
  <2> SUFFICES ASSUME NEW k \in Records, source'[k].kind # "NONE", k \notin astray', ~Agrees(k)'
               PROVE  \E p \in Requests : Holds(p, k)'
    BY DEF Kept
  <2>1. CASE Holds(q, k)'
    BY <2>1
  <2>2. CASE SameRow(k) /\ (Holds(q, k) => Holds(q, k)')
    <3>1. source[k].kind # "NONE" /\ k \notin astray /\ ~Agrees(k)
      BY <2>2 DEF SameRow, Agrees
    <3>2. PICK p \in Requests : Holds(p, k)
      BY <3>1 DEF Books, Kept
    <3>3. CASE p = q
      <4>1. Holds(q, k)
        BY <3>2, <3>3 DEF Holds
      <4> QED BY <2>2, <4>1
    <3>4. CASE p # q
      BY <1>1, <3>2, <3>4 DEF Holds
    <3> QED BY <3>3, <3>4
  <2> QED BY <2>1, <2>2 DEF Keeps
<1> QED BY <1>2, <1>3, <1>4 DEF Books

\* A request that goes on with its record and writes no row.
LEMMA GoesOn ==
  ASSUME LedgerTypes, Books, NEW q \in Requests, NEW pcs, Moves(q, pcs, {req[q].key}), UNCHANGED books,
         "insert" \notin pcs, "write" \notin pcs, "retract" \notin pcs, "commit" \in pcs => req[q].pc = "insert"
  PROVE  Books'
<1>1. /\ req'[q].pc \in pcs /\ req'[q].key = req[q].key
      /\ source' = source /\ ledger' = ledger /\ astray' = astray
  BY Moved DEF books
<1>2. Enters(q)
  <2>1. Adding(q)' => Adding(q)
    BY <1>1 DEF Adding
  <2>2. Adding(q) => source[req[q].key] = NoSource /\ \A p \in Requests \ {q} : req[p].key # req[q].key
    BY DEF Books, Added
  <2>3. \A p \in Requests \ {q} : Adding(p) => req[q].key # req[p].key
    BY DEF Books, Added
  <2> QED BY <1>1, <2>1, <2>2, <2>3 DEF Enters
<1>3. Keeps(q)
  BY <1>1 DEF Keeps, SameRow, Holds
<1> QED BY <1>2, <1>3, BooksMove

\* A request that begins or ends without a record.
LEMMA HoldsNone ==
  ASSUME LedgerTypes, Books, NEW q \in Requests, NEW pcs, Moves(q, pcs, {None}), UNCHANGED books,
         req[q].key = None, "retract" \notin pcs
  PROVE  Books'
<1>1. /\ req'[q].pc \in pcs /\ req'[q].key = None
      /\ source' = source /\ ledger' = ledger /\ astray' = astray
  BY Moved DEF books
<1>2. Enters(q)
  BY <1>1 DEF Enters, Adding
<1>3. Keeps(q)
  BY <1>1, LedgerConstants DEF Keeps, SameRow, Holds
<1> QED BY <1>2, <1>3, BooksMove

LEMMA AddBegins ==
  ASSUME LedgerTypes, Books, NEW q \in Requests, NEW k \in Records, Unused(k), UNCHANGED books,
         Moves(q, {"insert"}, {k}), req[q].pc = "idle"
  PROVE  Books'
<1>1. /\ req'[q].pc = "insert" /\ req'[q].key = k /\ req[q].key = None
      /\ source' = source /\ ledger' = ledger /\ astray' = astray
  <2>1. req'[q].pc = "insert" /\ req'[q].key = k
    BY Moved
  <2>2. req[q].key = None
    BY DEF LedgerTypes, CallOK
  <2> QED BY <2>1, <2>2 DEF books
<1>2. source[k] = NoSource /\ \A p \in Requests : req[p].key # k
  BY DEF Unused
<1>3. Enters(q)
  BY <1>1, <1>2 DEF Enters, Adding
<1>4. Keeps(q)
  BY <1>1, LedgerConstants DEF Keeps, SameRow, Holds
<1> QED BY <1>3, <1>4, BooksMove

LEMMA CorrectionBegins ==
  ASSUME LedgerTypes, Books, NEW q \in Requests, NEW k \in Records, NEW a \in Maybe(Amounts), Update(q, k, a)
  PROVE  Books'
<1>1. Moves(q, {"write"}, {k}) /\ req[q].key = None
  BY PaperBegins DEF LedgerTypes, CallOK
<1>2. /\ req'[q].pc = "write" /\ req'[q].key = k
      /\ source' = source /\ ledger' = ledger /\ astray' = astray
  BY <1>1, Moved DEF books, Update
<1>3. \A p \in Requests : Adding(p) => req[p].key # k
  BY DEF Update, Books, Added, NoSource
<1>4. Enters(q)
  BY <1>2, <1>3 DEF Enters, Adding
<1>5. Keeps(q)
  BY <1>1, <1>2, LedgerConstants DEF Keeps, SameRow, Holds
<1> QED BY <1>1, <1>4, <1>5, BooksMove

LEMMA PolicyBegins ==
  ASSUME LedgerTypes, Books, NEW q \in Requests, NEW k \in Records, NEW a \in Maybe(Amounts), CreatePolicy(q, k, a)
  PROVE  Books'
<1>1. Moves(q, {"mirror"}, {k}) /\ req[q].key = None
  BY PaperBegins DEF LedgerTypes, CallOK
<1>2. /\ req'[q].pc = "mirror" /\ req'[q].key = k /\ ledger' = ledger /\ astray' = astray
      /\ \A o \in Records \ {k} : source'[o] = source[o]
  BY <1>1, Moved DEF CreatePolicy, LedgerTypes
<1>3. \A p \in Requests : req[p].key # k
  BY DEF CreatePolicy, Unused
<1>4. \A p \in Requests : Adding(p) \/ req[p].pc = "retract" => req[p].key \in Records
  BY DEF LedgerTypes, CallOK, Adding
<1>5. Enters(q)
  BY <1>2, <1>3, <1>4 DEF Enters, Adding
<1>6. Keeps(q)
  BY <1>1, <1>2, LedgerConstants DEF Keeps, SameRow, Holds
<1> QED BY <1>1, <1>5, <1>6, BooksMove

LEMMA RemovalBegins ==
  ASSUME LedgerTypes, Books, NEW q \in Requests, NEW k \in Records, Remove(q, k)
  PROVE  Books'
<1>1. Moves(q, {"retract"}, {k}) /\ req[q].key = None
  <2>1. None \in Maybe(Amounts)
    BY DEF Maybe
  <2> QED BY <2>1, PaperBegins DEF LedgerTypes, CallOK
<1>2. source[k] \in Sources /\ source' = [source EXCEPT ![k] = [source[k] EXCEPT !.live = FALSE]]
  BY DEF Remove, LedgerTypes
<1>3. /\ req'[q].pc = "retract" /\ req'[q].key = k /\ ledger' = ledger /\ astray' = astray
      /\ \A o \in Records \ {k} : source'[o] = source[o]
  BY <1>1, Moved DEF Remove, LedgerTypes
<1>4. ~source'[k].live
  BY <1>2 DEF LedgerTypes, Sources
<1>5. \A p \in Requests : Adding(p) => req[p].key # k
  BY DEF Remove, Books, Added, NoSource
<1>6. \A p \in Requests : Adding(p) \/ req[p].pc = "retract" => req[p].key \in Records
  BY DEF LedgerTypes, CallOK, Adding
<1>7. Enters(q)
  BY <1>3, <1>4, <1>5, <1>6 DEF Enters, Adding
<1>8. Keeps(q)
  BY <1>1, <1>3, LedgerConstants DEF Keeps, SameRow, Holds
<1> QED BY <1>1, <1>7, <1>8, BooksMove

LEMMA AddCommits ==
  ASSUME LedgerTypes, Books, NEW q \in Requests, Commit(q)
  PROVE  Books'
<1>1. CASE req[q].op = "READING"
  <2>1. UNCHANGED books
    BY <1>1 DEF Commit, books
  <2> QED BY <1>1, <2>1, Commits, HoldsNone
<1>2. CASE req[q].op # "READING"
  <2> DEFINE k == req[q].key
  <2>1. Moves(q, {"match", "project"}, {k}) /\ k \in Records /\ req[q].pc = "commit"
    BY <1>2, Commits
  <2>2. /\ req'[q].pc \in {"match", "project"} /\ req'[q].key = k /\ ledger' = ledger /\ astray' = astray
        /\ \A o \in Records \ {k} : source'[o] = source[o]
    BY <1>2, <2>1, Moved DEF Commit, LedgerTypes
  <2>3. Adding(q)
    BY <2>1, LedgerConstants DEF Adding
  <2>4. \A p \in Requests \ {q} : req[p].key # k
    BY <2>3 DEF Books, Added
  <2>5. \A p \in Requests : Adding(p) \/ req[p].pc = "retract" => req[p].key \in Records
    BY DEF LedgerTypes, CallOK, Adding
  <2> HIDE DEF k
  <2>6. Enters(q)
    BY <2>2, <2>4, <2>5 DEF Enters, Adding
  <2>7. Keeps(q)
    BY <2>2 DEF Keeps, SameRow, Holds, k
  <2> QED BY <2>1, <2>6, <2>7, BooksMove
<1> QED BY <1>1, <1>2

LEMMA CorrectionWrites ==
  ASSUME LedgerTypes, Books, NEW q \in Requests, Write(q)
  PROVE  Books'
<1> DEFINE k == req[q].key
<1>1. Moves(q, {"project", "mirror"}, {k}) /\ k \in Records /\ req[q].pc = "write"
  BY Writes
<1>2. source[k] \in Sources /\ source' = [source EXCEPT ![k] = [source[k] EXCEPT !.amount = req[q].amount]]
  BY <1>1 DEF Write, LedgerTypes
<1>3. /\ req'[q].pc \in {"project", "mirror"} /\ req'[q].key = k /\ ledger' = ledger /\ astray' = astray
      /\ \A o \in Records \ {k} : source'[o] = source[o]
  BY <1>1, <1>2, Moved DEF Write, LedgerTypes
<1>4. source'[k].live = source[k].live
  BY <1>1, <1>2 DEF LedgerTypes, Sources
<1>5. \A p \in Requests \ {q} : Adding(p) => req[p].key # k
  BY DEF Books, Added
<1>6. \A p \in Requests : Adding(p) \/ req[p].pc = "retract" => req[p].key \in Records
  BY DEF LedgerTypes, CallOK, Adding
<1> HIDE DEF k
<1>7. Enters(q)
  BY <1>3, <1>4, <1>5, <1>6 DEF Enters, Adding
<1>8. Keeps(q)
  BY <1>3 DEF Keeps, SameRow, Holds, k
<1> QED BY <1>1, <1>7, <1>8, BooksMove

\* A last step touches no other record's mirror, and accounts for its own.
ElsewhereSame(k) == \A o \in Records \ {k} : ledger'[o] = ledger[o] /\ (o \in astray => o \in astray')
SeenTo(q, k) == k \in Records =>
  k \in astray' \/ Agrees(k)' \/ source[k].kind = "NONE" \/ (req[q].pc = "write" /\ SameRow(k))

LEMMA BooksEnd ==
  ASSUME LedgerTypes, Books, NEW q \in Requests,
         Mirror(q) \/ Retract(q) \/ MirrorFails(q) \/ Crash(q) \/ RuleGone(q)
  PROVE  Books'
<1>0. PICK k : k = req[q].key
  OBVIOUS
<1>1. Moves(q, {"idle"}, {None}) /\ source' = source
  BY Lasts DEF Mirror, Retract, MirrorFails, Crash, RuleGone, Abandon
<1>2. req'[q].pc = "idle" /\ req'[q].key = None
  BY <1>1, Moved
<1>3. Enters(q)
  BY <1>1, <1>2 DEF Enters, Adding
<1>4. CallOK(req[q])
  BY DEF LedgerTypes
<1>5. ElsewhereSame(k) /\ SeenTo(q, k) => Keeps(q)
  BY <1>0, <1>1, <1>2 DEF Keeps, SameRow, Holds, ElsewhereSame, SeenTo
<1>6. ASSUME Mirror(q)
      PROVE  Keeps(q)
  <2>1. k \in Records /\ ledger[k] \in Expenses /\ req[q].copy \in Sources
    <3>1. k \in Records
      BY <1>0, <1>6, Lasts
    <3>2. req[q] \in Calls
      BY DEF LedgerTypes
    <3> QED BY <3>1, <3>2 DEF LedgerTypes, Calls
  <2>2. /\ ledger' = [ledger EXCEPT ![k] = Mirrored(req[q].copy, ledger[k])]
        /\ astray' = IF req[q].copy = source[k] THEN astray \ {k} ELSE astray \cup {k}
    BY <1>0, <1>6 DEF Mirror
  <2>3. ledger'[k] = Mirrored(req[q].copy, ledger[k])
    BY <2>1, <2>2 DEF LedgerTypes
  <2>4. ~Withdrawn(ledger[k]).live
    BY <2>1 DEF Withdrawn, Expenses
  <2>5. req[q].copy = source[k] => Agrees(k)'
    BY <1>1, <2>3, <2>4 DEF Agrees, Mirrored
  <2>6. req[q].copy # source[k] => k \in astray'
    BY <2>2
  <2>7. ElsewhereSame(k)
    BY <2>2 DEF LedgerTypes, ElsewhereSame
  <2>8. SeenTo(q, k)
    BY <2>5, <2>6 DEF SeenTo
  <2> QED BY <1>5, <2>7, <2>8
<1>7. ASSUME Retract(q)
      PROVE  Keeps(q)
  <2>1. k \in Records /\ ledger[k] \in Expenses /\ req[q].pc = "retract"
    BY <1>0, <1>7, Lasts DEF LedgerTypes, Retract, At
  <2>2. ledger' = [ledger EXCEPT ![k] = Withdrawn(ledger[k])] /\ astray' = astray \ {k}
    BY <1>0, <1>7 DEF Retract
  <2>3. ~source[k].live
    BY <1>0, <2>1 DEF Books, Removed
  <2>4. ~Withdrawn(ledger[k]).live
    BY <2>1 DEF Withdrawn, Expenses
  <2>5. ledger'[k] = Withdrawn(ledger[k])
    BY <2>1, <2>2 DEF LedgerTypes
  <2>6. Agrees(k)'
    BY <1>1, <2>3, <2>4, <2>5 DEF Agrees
  <2>7. ElsewhereSame(k)
    BY <2>2 DEF LedgerTypes, ElsewhereSame
  <2>8. SeenTo(q, k)
    BY <2>6 DEF SeenTo
  <2> QED BY <1>5, <2>7, <2>8
<1>8. ASSUME MirrorFails(q)
      PROVE  Keeps(q)
  <2>1. ledger' = ledger /\ astray' = astray \cup {k}
    BY <1>0, <1>8 DEF MirrorFails
  <2>2. ElsewhereSame(k) /\ SeenTo(q, k)
    BY <2>1 DEF ElsewhereSame, SeenTo
  <2> QED BY <1>5, <2>2
<1>9. ASSUME Crash(q) \/ RuleGone(q)
      PROVE  Keeps(q)
  <2>1. ledger' = ledger /\ astray' = IF k # None /\ req[q].pc \notin {"insert", "commit", "write"}
                                    THEN astray \cup {k} ELSE astray
    BY <1>0, <1>9 DEF Crash, RuleGone, Abandon
  <2>2. k \in Records => k # None
    BY LedgerConstants
  <2>3. k \in Records /\ req[q].pc \in {"insert", "commit"} => source[k].kind = "NONE"
    BY <1>0, <2>2 DEF Books, Added, Adding, NoSource
  <2>4. req[q].pc = "write" => SameRow(k)
    BY <1>1, <2>1 DEF SameRow
  <2>5. ElsewhereSame(k)
    BY <2>1 DEF ElsewhereSame
  <2>6. SeenTo(q, k)
    BY <2>1, <2>2, <2>3, <2>4 DEF SeenTo
  <2> QED BY <1>5, <2>5, <2>6
<1>10. Keeps(q)
  BY <1>6, <1>7, <1>8, <1>9
<1> QED BY <1>1, <1>3, <1>10, BooksMove

\* Users touch manual expenses only, so never the mirror of a record.
LEMMA BooksManual ==
  ASSUME LedgerTypes, Books, NEW k \in Records,
         RemoveExpense(k) \/ \E a \in Amounts : AddExpense(k, a) \/ EditExpense(k, a)
  PROVE  Books'
<1>1. source' = source /\ astray' = astray /\ req' = req
  BY DEF RemoveExpense, AddExpense, EditExpense, calls
<1>2. \A o \in Records \ {k} : ledger'[o] = ledger[o]
  BY DEF RemoveExpense, AddExpense, EditExpense, LedgerTypes
<1>3. ASSUME NEW a \in Amounts, AddExpense(k, a)
      PROVE  source[k].kind = "NONE"
  BY <1>3 DEF AddExpense, Unused, NoSource
<1>4. Editable(k) => ~Agrees(k)
  <2>1. source[k].kind \in Kinds \cup {"NONE"}
    BY DEF LedgerTypes, Sources
  <2> QED BY <2>1 DEF Agrees, Kinds, Editable
<1>5. ASSUME NEW a \in Amounts, RemoveExpense(k) \/ EditExpense(k, a)
      PROVE  ~Agrees(k)
  BY <1>4, <1>5 DEF RemoveExpense, EditExpense
<1>6. source[k].kind = "NONE" \/ ~Agrees(k)
  BY <1>3, <1>4, <1>5 DEF RemoveExpense
<1>7. Kept'
  BY <1>1, <1>2, <1>6 DEF Books, Kept, Agrees, Holds
<1> QED BY <1>1, <1>7 DEF Books, Added, Removed, Adding

LEMMA BooksStep ==
  ASSUME LedgerTypes, Books, [Next]_vars
  PROVE  Books'
<1>1. ASSUME UNCHANGED <<books, req>>
      PROVE  Books'
  BY <1>1 DEF books, Books, Added, Adding, Removed, Kept, Agrees, Holds
<1>2. UNCHANGED vars => UNCHANGED <<books, req>>
  BY DEF vars, books
<1>3. ASSUME NEW q \in Requests, NEW r \in Readings, NEW yes \in BOOLEAN,
             AddOdometerEntry(q, r, yes) \/ CompleteRule(q, r, yes)
      PROVE  Books'
  <2>1. (Moves(q, {"insert"}, {None}) \/ Moves(q, {"advance"}, {None})) /\ req[q].key = None
    BY <1>3, ReadingBegins, RuleBegins DEF LedgerTypes, CallOK
  <2>2. UNCHANGED books
    BY <1>3 DEF AddOdometerEntry, CompleteRule
  <2> QED BY <2>1, <2>2, HoldsNone
<1>4. ASSUME NEW q \in Requests, NEW k \in Records, NEW r \in Readings, NEW a \in Maybe(Amounts),
             NEW x \in BOOLEAN, NEW y \in BOOLEAN, CreateFuel(q, k, r, a) \/ CreateService(q, k, r, x, y, a)
      PROVE  Books'
  <2>1. Moves(q, {"insert"}, {k}) /\ req[q].pc = "idle"
    BY <1>4, FuelBegins, ServiceBegins
  <2>2. UNCHANGED books /\ Unused(k)
    BY <1>4 DEF CreateFuel, CreateService
  <2> QED BY <2>1, <2>2, AddBegins
<1>5. ASSUME NEW q \in Requests, NEW k \in Records, NEW r \in Readings, NEW a \in Amounts \cup {None},
             CreateFuel(q, k, r, a) \/ \E x, y \in BOOLEAN : CreateService(q, k, r, x, y, a)
      PROVE  Books'
  BY <1>4, <1>5 DEF Maybe
<1>6. ASSUME NEW q \in Requests, NEW k \in Records,
             Remove(q, k) \/ \E a \in Amounts \cup {None} : Update(q, k, a) \/ CreatePolicy(q, k, a)
      PROVE  Books'
  BY <1>6, RemovalBegins, CorrectionBegins, PolicyBegins DEF Maybe
<1>7. ASSUME NEW q \in Requests, Edits(q)
      PROVE  Books'
  <2>1. Moves(q, {"due"}, {None}) /\ req[q].key = None
    BY <1>7, DueBegins DEF Edits, UpdateRule, CreateRule, LedgerTypes, CallOK
  <2>2. UNCHANGED books
    BY <1>7 DEF Edits, UpdateRule, CreateRule
  <2> QED BY <2>1, <2>2, HoldsNone
<1>8. ASSUME NEW q \in Requests, Insert(q) \/ Match(q) \/ Advance(q) \/ Present(q) \/ Project(q)
      PROVE  Books'
  <2>1. UNCHANGED books
    BY <1>8 DEF Insert, Match, Advance, Present, Project
  <2>2. Insert(q) => Moves(q, {"commit"}, {req[q].key}) /\ req[q].pc = "insert"
    BY Inserts
  <2>3. Match(q) => Moves(q, {"advance", "due"}, {req[q].key})
    BY Matches
  <2>4. Advance(q) => Moves(q, {"due"}, {req[q].key})
    BY Advances
  <2>5. Project(q) => Moves(q, {"mirror"}, {req[q].key})
    BY Projects
  <2>6. Present(q) => Moves(q, {"due"}, {req[q].key})
    BY Presents
  <2> QED BY <1>8, <2>1, <2>2, <2>3, <2>4, <2>5, <2>6, GoesOn
<1>9. ASSUME NEW q \in Requests, DueRead(q) \/ DueStore(q)
      PROVE  Books'
  <2>1. UNCHANGED books
    BY <1>9 DEF DueRead, DueStore
  <2>2. Moves(q, {"store"}, {req[q].key}) \/ Moves(q, {"present", "project", "idle"}, {req[q].key})
    BY <1>9, DueReads, DueStores
  <2> QED BY <2>1, <2>2, GoesOn
<1>10. ASSUME NEW q \in Requests, Commit(q) \/ Write(q) \/ Mirror(q) \/ Retract(q) \/ MirrorFails(q) \/ Crash(q) \/ RuleGone(q)
       PROVE  Books'
  BY <1>10, AddCommits, CorrectionWrites, BooksEnd
<1>11. RemoveRule => UNCHANGED <<books, req>>
  BY DEF RemoveRule, calls, books
<1>12. (\E k \in Records : RemoveExpense(k) \/ \E a \in Amounts : AddExpense(k, a) \/ EditExpense(k, a)) => Books'
  BY BooksManual
<1> QED BY <1>1, <1>2, <1>3, <1>5, <1>6, <1>7, <1>8, <1>9, <1>10, <1>11, <1>12 DEF Next, Edits

-----------------------------------------------------------------------------
(* The theorems.                                                               *)

LedgerInv == LedgerTypes /\ CacheIsNewest /\ DueFollowsRule /\ Books

LEMMA InvInit == Init => LedgerInv
<1> SUFFICES ASSUME Init PROVE LedgerInv
  OBVIOUS
<1>1. LedgerTypes
  BY TypesInit
<1>2. CacheIsNewest
  BY DEF Init, CacheIsNewest
<1>3. DueFollowsRule
  BY DEF Init, DueFollowsRule, NoRule
<1>4. \A q \in Requests : req[q].pc = "idle"
  BY Blanks DEF Init
<1>5. Books
  BY <1>4 DEF Init, Books, Added, Adding, Removed, Kept, NoSource
<1> QED BY <1>1, <1>2, <1>3, <1>5 DEF LedgerInv

LEMMA InvStep == LedgerInv /\ [Next]_vars => LedgerInv'
BY TypesStep, CacheStep, DueStep, BooksStep DEF LedgerInv

LEMMA InvAlways == Spec => []LedgerInv
BY InvInit, InvStep, PTL DEF Spec

\* The rows and the caches hold what their columns may hold, however many requests
\* overlap (schema.prisma and the services that write it).
THEOREM LedgerTypeCorrect == Spec => []TypeOK
<1>1. LedgerInv => TypeOK
  BY DEF LedgerInv, LedgerTypes, TypeOK, Entries, Sources, Expenses, Rules
<1> QED BY <1>1, InvAlways, PTL

\* The cached mileage is the newest reading of the history whenever its last writer
\* had seen every entry (refreshCurrentOdometer), for any number of overlapping
\* readings, services and fills.
THEOREM CachedReadingIsNewest == Spec => []CacheIsNewest
<1>1. LedgerInv => CacheIsNewest
  BY DEF LedgerInv
<1> QED BY <1>1, InvAlways, PTL

\* The stored due point is that of the rule's anchor whenever nobody is recomputing
\* it and its last store had read the anchor it stored for (recomputeAndPersist).
THEOREM DuePointFollows == Spec => []DueFollowsRule
<1>1. LedgerInv => DueFollowsRule
  BY DEF LedgerInv
<1> QED BY <1>1, InvAlways, PTL

\* A record's cost is in the expense ledger once if the record lives and has one, and
\* not at all otherwise, when its requests are over and its mirror was not lost
\* (projectService, projectFuel, project, retract), whatever crashed or overlapped.
THEOREM LedgerMirrorsRecords == Spec => []MirrorAgrees
<1>1. LedgerInv => MirrorAgrees
  BY DEF LedgerInv, Books, Kept, Holds, MirrorAgrees, Settled
<1> QED BY <1>1, InvAlways, PTL

=============================================================================
