-------------------------------- MODULE Tyres --------------------------------
(* The tyre sets of one vehicle and the periods they spend on it. Every request  *)
(* reads what it decides on before the transaction that writes, and no index     *)
(* limits a vehicle to one open period.                                          *)
EXTENDS Naturals, FiniteSets

CONSTANTS
  Sets,        \* tyre_sets rows
  Periods,     \* tyre_installations rows that may ever exist
  Fitters,     \* requests the API serves at the same time about the sets
  NoPeriod

ASSUME TyreConstants == NoPeriod \notin Periods

VARIABLES
  set,       \* the row: its status, and deletedAt
  period,    \* an installation: the set it is of, and whether removedOn is null
  task,      \* what each request is doing
  crossed    \* history: a request wrote over what it had read too early

tyreVars == <<set, period, task, crossed>>

SetStatuses == {"STORED", "IN_USE", "RETIRED"}
NoSet == [status |-> "NONE", gone |-> FALSE]
NewSet == [status |-> "STORED", gone |-> FALSE]
NoTask == [pc |-> "rest", of |-> NoPeriod, found |-> NoPeriod]
Unfitted == [of |-> NoPeriod, open |-> FALSE]

TyreInit ==
  /\ set = [s \in Sets |-> NoSet]
  /\ period = [p \in Periods |-> Unfitted]
  /\ task = [f \in Fitters |-> NoTask]
  /\ crossed = FALSE

Open == {p \in Periods : period[p].open}
OpenOf(s) == {p \in Open : period[p].of = s}
Live(s) == set[s].status # "NONE" /\ ~set[s].gone
DoTask(f, pc, s, p) == task' = [task EXCEPT ![f] = [pc |-> pc, of |-> s, found |-> p]]
EndTask(f) == task' = [task EXCEPT ![f] = NoTask]
SetTo(sets, s, status) == [sets EXCEPT ![s] = [@ EXCEPT !.status = status]]
Closed(periods, p) == [periods EXCEPT ![p] = [@ EXCEPT !.open = FALSE]]

AddSet(s) ==
  /\ set[s] = NoSet
  /\ set' = [set EXCEPT ![s] = NewSet]
  /\ UNCHANGED <<period, task, crossed>>

\* A status is edited freely, fitted or not.
EditSet(s, status) ==
  /\ Live(s)
  /\ set' = SetTo(set, s, status)
  /\ UNCHANGED <<period, task, crossed>>

-----------------------------------------------------------------------------
(* fit: the set and its open period, the vehicle's open period, the transaction. *)

Fit(f, s) ==
  /\ task[f].pc = "rest" /\ Live(s) /\ set[s].status # "RETIRED" /\ OpenOf(s) = {}
  /\ DoTask(f, "find", s, NoPeriod)
  /\ UNCHANGED <<set, period, crossed>>

\* Whatever is on the vehicle, in no particular order.
FindReplaced(f) ==
  /\ task[f].pc = "find"
  /\ \E p \in IF Open = {} THEN {NoPeriod} ELSE Open : DoTask(f, "fit", task[f].of, p)
  /\ UNCHANGED <<set, period, crossed>>

ReplacedKept(f) == period
Replaced(f) == IF task[f].found = NoPeriod THEN period ELSE Closed(period, task[f].found)

FitSet(f, p) ==
  /\ task[f].pc = "fit" /\ period[p] = Unfitted
  /\ period' = [Replaced(f) EXCEPT ![p] = [of |-> task[f].of, open |-> TRUE]]
  /\ LET old == task[f].found
         stored == IF old = NoPeriod THEN set ELSE SetTo(set, period[old].of, "STORED")
     IN  set' = SetTo(stored, task[f].of, "IN_USE")
  /\ crossed' = (crossed \/ Open \ {task[f].found} # {} \/ ~Live(task[f].of))
  /\ EndTask(f)

-----------------------------------------------------------------------------
(* remove and softDelete.                                                      *)

TakeOff(f, s) ==
  /\ task[f].pc = "rest"
  /\ \E p \in OpenOf(s) : DoTask(f, "off", s, p)
  /\ UNCHANGED <<set, period, crossed>>

TakenOff(f) ==
  /\ task[f].pc = "off"
  /\ period' = Closed(period, task[f].found)
  /\ set' = SetTo(set, task[f].of, "STORED")
  /\ EndTask(f)
  /\ UNCHANGED crossed

DeleteSet(f, s) ==
  /\ task[f].pc = "rest" /\ Live(s) /\ OpenOf(s) = {}
  /\ DoTask(f, "delete", s, NoPeriod)
  /\ UNCHANGED <<set, period, crossed>>

SetDeleted(f) ==
  /\ task[f].pc = "delete"
  /\ set' = [set EXCEPT ![task[f].of] = [@ EXCEPT !.gone = TRUE]]
  /\ crossed' = (crossed \/ OpenOf(task[f].of) # {})
  /\ EndTask(f)
  /\ UNCHANGED period

TyreNext ==
  \/ \E s \in Sets : AddSet(s) \/ \E status \in SetStatuses : EditSet(s, status)
  \/ \E f \in Fitters :
       \/ FindReplaced(f) \/ TakenOff(f) \/ SetDeleted(f)
       \/ \E s \in Sets : Fit(f, s) \/ TakeOff(f, s) \/ DeleteSet(f, s)
       \/ \E p \in Periods : FitSet(f, p)

TyreSpec == TyreInit /\ [][TyreNext]_tyreVars

-----------------------------------------------------------------------------
(* Properties.                                                                 *)

\* The vehicle wears one set at a time and never a deleted one, through any
\* sequence of swaps, removals, deletions and status edits, unless two requests
\* crossed: nothing else in the handlers or the schema keeps it so (D-108).
CarWearsOneSet ==
  ~crossed => Cardinality(Open) <= 1 /\ \A p \in Open : ~set[period[p].of].gone

\* D-108 as it is written: exactly one installation is ever open.
OneFitted == Cardinality(Open) <= 1
=============================================================================
