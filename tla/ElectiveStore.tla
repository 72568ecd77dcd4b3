---- MODULE ElectiveStore ----
(***************************************************************************)
(* The MongoDB collections of the elective-disciplines module and the      *)
(* single statements its service issues against them: each operator below  *)
(* is one updateOne / updateMany / findOneAndUpdate / create, atomic in    *)
(* MongoDB, as a function from the database before to the database after.  *)
(* ElectiveSteps interleaves them one by one; Electives runs a handler's   *)
(* statements together on a snapshot.                                      *)
(*                                                                         *)
(* Abstracted: titles, credits, descriptions, audit records.  A student's  *)
(* group is fixed (GroupOf) and always one of the period's target groups.  *)
(* All periods belong to one academic term, so a discipline's term is the  *)
(* flag inTerm.  startsAt is in the past; endsAt < now is the set `ended`  *)
(* of the modules that use this one.                                       *)
(***************************************************************************)
EXTENDS Integers, FiniteSets

CONSTANTS Students, Groups, Disciplines, Periods,
          SelectionIds,   \* identities of the selection documents; bounds how many are ever created
          Requests,       \* identities of HTTP requests, and of the finalization tokens they draw
          GroupOf,        \* the group of a student's active profile
          MaxCapacity,    \* largest capacity a manager enters
          MaxChoices,     \* largest requiredChoices (5 in the DTO)
          StatusChoices,  \* the statuses a manager gives a discipline directly
          TermChoices,    \* whether a manager may move a discipline to another term
          NoRequest, NoPeriod

ASSUME BoundsAssumption == MaxCapacity \in Nat \ {0} /\ MaxChoices \in Nat \ {0}
ASSUME GroupAssumption == GroupOf \in [Students -> Groups]
ASSUME NullAssumption == NoRequest \notin Requests /\ NoPeriod \notin Periods
ASSUME ChoiceAssumption == /\ StatusChoices \subseteq {"draft", "active", "archived"}
                           /\ TermChoices \subseteq BOOLEAN
ASSUME FiniteAssumption == IsFiniteSet(SelectionIds)

----
(* Documents. *)

DisciplineStatus == {"draft", "active", "cancelled", "archived"}
PeriodStatus == {"draft", "active", "closed", "finalized"}
CancelReason == {"none", "student", "discipline_cancelled", "incomplete_set"}

Discipline == [status : DisciplineStatus, capacity : 1..MaxCapacity,
               enrolled : 0..MaxCapacity, inTerm : BOOLEAN]
Period == [status : PeriodStatus, required : 1..MaxChoices,
           lock : Requests \cup {NoRequest}]
Selection == [status : {"selected", "enrolled", "cancelled"}, reason : CancelReason,
              student : Students, period : Periods, discipline : Disciplines,
              slot : 0..(MaxChoices - 1)]
NoSelection == [status |-> "absent"]
RollEntry == [period : Periods \cup {NoPeriod}, students : SUBSET Students]

Rolls == Disciplines \X Groups

Database == [disc : [Disciplines -> Discipline],
             period : [Periods -> Period],
             sel : [SelectionIds -> Selection \cup {NoSelection}],
             roll : [Rolls -> RollEntry]]

(* Every discipline and period has just been created, as a draft. *)
FreshDatabases ==
  [disc : [Disciplines -> [status : {"draft"}, capacity : 1..MaxCapacity,
                           enrolled : {0}, inTerm : {TRUE}]],
   period : [Periods -> [status : {"draft"}, required : 1..MaxChoices, lock : {NoRequest}]],
   sel : [SelectionIds -> {NoSelection}],
   roll : [Rolls -> [period : {NoPeriod}, students : {{}}]]]

(* The managers have opened the disciplines; a period may still be a draft. *)
OfferedDatabases ==
  [disc : [Disciplines -> [status : {"active"}, capacity : 1..MaxCapacity,
                           enrolled : {0}, inTerm : {TRUE}]],
   period : [Periods -> [status : {"draft", "active"}, required : 1..MaxChoices,
                         lock : {NoRequest}]],
   sel : [SelectionIds -> {NoSelection}],
   roll : [Rolls -> [period : {NoPeriod}, students : {{}}]]]

----
(* Queries. *)

IsActive(x) == x.status \in {"selected", "enrolled"}

\* Documents that hold a seat of discipline d, as the unique indexes see them.
SeatsOf(D, d) == {i \in SelectionIds : IsActive(D.sel[i]) /\ D.sel[i].discipline = d}

ChoicesOf(D, s, p) == {i \in SelectionIds :
                         IsActive(D.sel[i]) /\ D.sel[i].student = s /\ D.sel[i].period = p}

SelectedIn(D, p) == {i \in SelectionIds : D.sel[i].status = "selected" /\ D.sel[i].period = p}

\* Fault: the cascade forgets to filter on SELECTED.
SelectedOfAnyStatus(D, d) == {i \in SelectionIds : D.sel[i].status # "absent" /\ D.sel[i].discipline = d}
SelectedOf(D, d) == {i \in SelectionIds : D.sel[i].status = "selected" /\ D.sel[i].discipline = d}

\* ensurePeriodIsOpen
IsOpen(D, p, ended) == D.period[p].status = "active" /\ p \notin ended

SlotsTaken(D, s, p) == {D.sel[i].slot : i \in ChoicesOf(D, s, p)}

\* The two partial unique indexes, for one more active document.
IndexesAdmit(D, s, p, d, slot) ==
  \A i \in ChoicesOf(D, s, p) : D.sel[i].discipline # d /\ D.sel[i].slot # slot

\* Fault: off by one against requiredChoices.
IncompleteButOne(D, required, ids) ==
  {s \in Students : LET mine == {i \in ids : D.sel[i].student = s}
                    IN  mine # {} /\ Cardinality(mine) + 1 < required}

\* Students with a selected document among `ids` but fewer than the period requires.
Incomplete(D, required, ids) ==
  {s \in Students : LET mine == {i \in ids : D.sel[i].student = s}
                    IN  mine # {} /\ Cardinality(mine) < required}

BucketOf(x) == <<x.discipline, GroupOf[x.student]>>

----
(* Statements. *)

CloseExpired(D, ended) ==
  [D EXCEPT !.period = [p \in Periods |->
     IF D.period[p].status = "active" /\ p \in ended
       THEN [D.period[p] EXCEPT !.status = "closed"] ELSE D.period[p]]]

\* Faults: the reservation does not compare with the capacity, or lets in one too many.
HasFreeSeatAlways(D, d) == D.disc[d].status = "active" /\ D.disc[d].inTerm
HasFreeSeatPlusOne(D, d) ==
  HasFreeSeatAlways(D, d) /\ D.disc[d].enrolled <= D.disc[d].capacity

HasFreeSeat(D, d) ==
  /\ D.disc[d].status = "active"
  /\ D.disc[d].inTerm
  /\ D.disc[d].enrolled < D.disc[d].capacity

\* Fault: the reservation is sent twice.
TakeSeatTwice(D, d) == [D EXCEPT !.disc[d].enrolled = @ + 2]

TakeSeat(D, d) == [D EXCEPT !.disc[d].enrolled = @ + 1]

\* Fault: the decrement is not guarded by { enrolledCount: { $gt: 0 } }.
LessUnguarded(count, n) == count - n

\* n guarded decrements { enrolledCount: { $gt: 0 } } of one discipline.
Less(count, n) == IF count > n THEN count - n ELSE 0
ReturnSeat(D, d) == [D EXCEPT !.disc[d].enrolled = Less(@, 1)]

InsertSelection(D, i, s, p, d, slot) ==
  [D EXCEPT !.sel[i] = [status |-> "selected", reason |-> "none", student |-> s,
                        period |-> p, discipline |-> d, slot |-> slot]]

CancelSelections(D, ids, reason) ==
  [D EXCEPT !.sel = [i \in SelectionIds |->
     IF i \in ids THEN [D.sel[i] EXCEPT !.status = "cancelled", !.reason = reason]
                  ELSE D.sel[i]]]

EnrolSelections(D, ids) ==
  [D EXCEPT !.sel = [i \in SelectionIds |->
     IF i \in ids THEN [D.sel[i] EXCEPT !.status = "enrolled"] ELSE D.sel[i]]]

\* Fault: enrolledCount survives the cancellation.
FlipKeepingCount(D, d) == [D EXCEPT !.disc[d].status = "cancelled"]

FlipDisciplineCancelled(D, d) ==
  [D EXCEPT !.disc[d] = [@ EXCEPT !.status = "cancelled", !.enrolled = 0]]

\* Fault: an assignment that serves another period is taken over.
RollNeverTaken(D, k, p) == FALSE

\* The course assignment of this discipline and group already serves something else.
RollTaken(D, k, p) == D.roll[k].period \notin {NoPeriod, p}

\* Fault: the students replace the roll instead of joining it.
AddToRollReplacing(D, k, p, students) ==
  [D EXCEPT !.roll[k] = [period |-> p, students |-> students]]

AddToRoll(D, k, p, students) ==
  [D EXCEPT !.roll[k] = [period |-> p, students |-> D.roll[k].students \cup students]]

\* save() writes the fields the handler changed, whatever the others are by now.
SaveDiscipline(D, d, fields, capacity, inTerm) ==
  LET old == D.disc[d]
      new == [old EXCEPT !.capacity = IF "capacity" \in fields THEN capacity ELSE old.capacity,
                         !.inTerm = IF "inTerm" \in fields THEN inTerm ELSE old.inTerm]
  IN  [D EXCEPT !.disc[d] = new]

SaveStatus(D, d, status) == [D EXCEPT !.disc[d].status = status]

SaveRequired(D, p, required) == [D EXCEPT !.period[p].required = required]

SetPeriod(D, p, status) == [D EXCEPT !.period[p].status = status]

MarkFinalized(D, p) ==
  [D EXCEPT !.period[p] = [@ EXCEPT !.status = "finalized", !.lock = NoRequest]]
====
