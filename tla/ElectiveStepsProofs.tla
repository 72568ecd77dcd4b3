---- MODULE ElectiveStepsProofs ----
(***************************************************************************)
(* Proofs about ElectiveSteps: what the elective service guarantees when   *)
(* no transaction surrounds its statements, for any number of students,    *)
(* disciplines, periods, selections and concurrent requests, processes     *)
(* that die anywhere and finalizations that are overtaken.                 *)
(***************************************************************************)
EXTENDS ElectiveSteps, FiniteSetTheorems, WellFoundedInduction, TLAPS

(* The local variables of a request. *)

Choosing == {"select.period", "select.quota"}
Reserving == {"select.reserve", "select.create"}
Withdrawing == {"withdraw.cancel", "withdraw.seat"}
Cancelling == {"cancel.periods", "cancel.flip", "cancel.cascade"}
Attempting == {"finalize.lock", "finalize.read", "finalize.release"}
Deciding == {"finalize.drop", "finalize.seats", "finalize.course"}
Enrolling == {"finalize.assignment", "finalize.upsert", "finalize.enrol"}
Managing == {"edit.save", "status.save", "period.save", "period.publish"}

LEMMA PlaceForms ==
  ASSUME NEW x \in Places
  PROVE  /\ x.pc \in Choosing => x.s \in Students /\ x.p \in Periods /\ x.d \in Disciplines
         /\ x.pc = "select.quota" => x.required \in 1..MaxChoices
         /\ x.pc \in Reserving =>
              /\ x = [pc |-> x.pc, s |-> x.s, p |-> x.p, d |-> x.d, slots |-> x.slots]
              /\ x.s \in Students /\ x.p \in Periods /\ x.d \in Disciplines
              /\ x.slots \in SUBSET (0..(MaxChoices - 1))
         /\ x.pc = "select.undo" => x.d \in Disciplines
         /\ x.pc \in Withdrawing => x = [pc |-> x.pc, i |-> x.i] /\ x.i \in SelectionIds
         /\ x.pc \in Cancelling => x = [pc |-> x.pc, d |-> x.d] /\ x.d \in Disciplines
         /\ x.pc \in Attempting => x.p \in Periods
         /\ x.pc = "finalize.read" => x.required \in 1..MaxChoices
         /\ x.pc \in Deciding =>
              /\ x = [pc |-> x.pc, p |-> x.p, drop |-> x.drop, keep |-> x.keep]
              /\ x.p \in Periods /\ x.drop \in SUBSET SelectionIds /\ x.keep \in SUBSET SelectionIds
         /\ x.pc \in Enrolling =>
              /\ x = [pc |-> x.pc, p |-> x.p, drop |-> x.drop, keep |-> x.keep, k |-> x.k]
              /\ x.p \in Periods /\ x.drop \in SUBSET SelectionIds /\ x.keep \in SUBSET SelectionIds
              /\ x.k \in Rolls
         /\ x.pc = "edit.save" =>
              /\ x.d \in Disciplines /\ x.fields \subseteq {"capacity", "inTerm"}
              /\ x.capacity \in 1..MaxCapacity /\ x.inTerm \in BOOLEAN
         /\ x.pc = "status.save" => x.d \in Disciplines /\ x.status \in StatusChoices
         /\ x.pc = "period.save" => x.p \in Periods /\ x.required \in 1..MaxChoices
         /\ x.pc = "period.publish" => x.p \in Periods
<1>1. CASE x.pc \in Choosing
  <2>1. \/ x \in [pc : {"select.period"}, s : Students, p : Periods, d : Disciplines]
        \/ x \in [pc : {"select.quota"}, s : Students, p : Periods, d : Disciplines,
                  required : 1..MaxChoices]
    BY <1>1 DEF Places, Choosing
  <2> QED
    BY <2>1 DEF Choosing, Reserving, Withdrawing, Cancelling, Attempting, Deciding, Enrolling
<1>2. CASE x.pc \in Reserving
  <2>1. x \in [pc : Reserving, s : Students, p : Periods, d : Disciplines,
               slots : SUBSET (0..(MaxChoices - 1))]
    BY <1>2 DEF Places, Reserving
  <2> QED
    BY <2>1 DEF Choosing, Reserving, Withdrawing, Cancelling, Attempting, Deciding, Enrolling
<1>3. CASE x.pc = "select.undo"
  <2>1. x \in [pc : {"select.undo"}, d : Disciplines]
    BY <1>3 DEF Places
  <2> QED
    BY <2>1 DEF Choosing, Reserving, Withdrawing, Cancelling, Attempting, Deciding, Enrolling
<1>4. CASE x.pc \in Withdrawing
  <2>1. x \in [pc : Withdrawing, i : SelectionIds]
    BY <1>4 DEF Places, Withdrawing
  <2> QED
    BY <2>1 DEF Choosing, Reserving, Withdrawing, Cancelling, Attempting, Deciding, Enrolling
<1>5. CASE x.pc \in Cancelling
  <2>1. x \in [pc : Cancelling, d : Disciplines]
    BY <1>5 DEF Places, Cancelling
  <2> QED
    BY <2>1 DEF Choosing, Reserving, Withdrawing, Cancelling, Attempting, Deciding, Enrolling
<1>6. CASE x.pc \in Attempting
  <2>1. \/ x \in [pc : {"finalize.lock", "finalize.release"}, p : Periods]
        \/ x \in [pc : {"finalize.read"}, p : Periods, required : 1..MaxChoices]
    BY <1>6 DEF Places, Attempting
  <2> QED
    BY <2>1 DEF Choosing, Reserving, Withdrawing, Cancelling, Attempting, Deciding, Enrolling
<1>7. CASE x.pc \in Deciding
  <2>1. x \in [pc : Deciding, p : Periods, drop : SUBSET SelectionIds, keep : SUBSET SelectionIds]
    BY <1>7 DEF Places, Deciding
  <2> QED
    BY <2>1 DEF Choosing, Reserving, Withdrawing, Cancelling, Attempting, Deciding, Enrolling
<1>8. CASE x.pc \in Enrolling
  <2>1. x \in [pc : Enrolling, p : Periods, drop : SUBSET SelectionIds, keep : SUBSET SelectionIds,
               k : Rolls]
    BY <1>8 DEF Places, Enrolling
  <2> QED
    BY <2>1 DEF Choosing, Reserving, Withdrawing, Cancelling, Attempting, Deciding, Enrolling
<1>9. CASE x.pc \in Managing
  <2>1. \/ x \in [pc : {"edit.save"}, d : Disciplines, fields : SUBSET {"capacity", "inTerm"},
                  capacity : 1..MaxCapacity, inTerm : BOOLEAN]
        \/ x \in [pc : {"status.save"}, d : Disciplines, status : StatusChoices]
        \/ x \in [pc : {"period.save"}, p : Periods, required : 1..MaxChoices]
        \/ x \in [pc : {"period.publish"}, p : Periods]
    BY <1>9 DEF Places, Managing
  <2> QED
    BY <2>1 DEF Choosing, Reserving, Withdrawing, Cancelling, Attempting, Deciding, Enrolling
<1> QED
  BY <1>1, <1>2, <1>3, <1>4, <1>5, <1>6, <1>7, <1>8, <1>9 DEF Managing, Choosing, Attempting

LEMMA PlaceMakes ==
  /\ Idle \in Places /\ Done \in Places
  /\ \A s \in Students, p \in Periods, d \in Disciplines :
       /\ [pc |-> "select.period", s |-> s, p |-> p, d |-> d] \in Places
       /\ \A n \in 1..MaxChoices :
            [pc |-> "select.quota", s |-> s, p |-> p, d |-> d, required |-> n] \in Places
  /\ \A c \in Reserving, s \in Students, p \in Periods, d \in Disciplines,
        slots \in SUBSET (0..(MaxChoices - 1)) :
       [pc |-> c, s |-> s, p |-> p, d |-> d, slots |-> slots] \in Places
  /\ \A d \in Disciplines : [pc |-> "select.undo", d |-> d] \in Places
  /\ \A c \in Withdrawing, i \in SelectionIds : [pc |-> c, i |-> i] \in Places
  /\ \A c \in Cancelling, d \in Disciplines : [pc |-> c, d |-> d] \in Places
  /\ \A p \in Periods :
       /\ \A c \in {"finalize.lock", "finalize.release", "period.publish"} :
            [pc |-> c, p |-> p] \in Places
       /\ \A c \in {"finalize.read", "period.save"}, n \in 1..MaxChoices :
            [pc |-> c, p |-> p, required |-> n] \in Places
  /\ \A c \in Deciding, p \in Periods, drop \in SUBSET SelectionIds, keep \in SUBSET SelectionIds :
       [pc |-> c, p |-> p, drop |-> drop, keep |-> keep] \in Places
  /\ \A c \in Enrolling, p \in Periods, drop \in SUBSET SelectionIds, keep \in SUBSET SelectionIds,
        k \in Rolls :
       [pc |-> c, p |-> p, drop |-> drop, keep |-> keep, k |-> k] \in Places
  /\ \A d \in Disciplines, fields \in SUBSET {"capacity", "inTerm"}, capacity \in 1..MaxCapacity,
        inTerm \in BOOLEAN :
       [pc |-> "edit.save", d |-> d, fields |-> fields, capacity |-> capacity, inTerm |-> inTerm]
         \in Places
  /\ \A d \in Disciplines, status \in StatusChoices :
       [pc |-> "status.save", d |-> d, status |-> status] \in Places
BY DEF Places, Idle, Done, Choosing, Reserving, Withdrawing, Cancelling, Attempting, Deciding, Enrolling

----
(* The statements, collection by collection. *)

LEMMA DocumentTypes ==
  ASSUME NEW D \in Database
  PROVE  /\ D = [disc |-> D.disc, period |-> D.period, sel |-> D.sel, roll |-> D.roll]
         /\ \A d \in Disciplines : /\ D.disc[d] \in Discipline
                                   /\ D.disc[d].enrolled \in 0..MaxCapacity
                                   /\ D.disc[d].capacity \in 1..MaxCapacity
         /\ \A p \in Periods : D.period[p] \in Period /\ D.period[p].required \in 1..MaxChoices
         /\ \A i \in SelectionIds : D.sel[i] \in Selection \/ D.sel[i] = NoSelection
         /\ \A k \in Rolls : D.roll[k] \in RollEntry
BY DEF Database, Discipline, Period

\* A document that has been created, or a selection that has been made.
LEMMA Present ==
  ASSUME NEW D \in Database, NEW i \in SelectionIds
  PROVE  /\ D.sel[i] \in Selection <=> D.sel[i].status # "absent"
         /\ D.sel[i] \in Selection =>
              /\ D.sel[i].student \in Students /\ D.sel[i].period \in Periods
              /\ D.sel[i].discipline \in Disciplines
              /\ BucketOf(D.sel[i]) \in Rolls
<1>1. D.sel[i] \in Selection => D.sel[i].status # "absent"
  BY DEF Selection
<1>2. D.sel[i] \notin Selection => D.sel[i].status = "absent"
  BY DocumentTypes DEF NoSelection
<1> QED
  BY <1>1, <1>2, GroupAssumption DEF Selection, BucketOf, Rolls

\* E is D with another collection of one kind.
LEMMA DatabaseUpdates ==
  ASSUME NEW D \in Database
  PROVE  /\ \A x \in [Disciplines -> Discipline] :
              /\ [D EXCEPT !.disc = x] \in Database /\ [D EXCEPT !.disc = x].disc = x
              /\ [D EXCEPT !.disc = x].period = D.period /\ [D EXCEPT !.disc = x].sel = D.sel
              /\ [D EXCEPT !.disc = x].roll = D.roll
         /\ \A x \in [Periods -> Period] :
              /\ [D EXCEPT !.period = x] \in Database /\ [D EXCEPT !.period = x].period = x
              /\ [D EXCEPT !.period = x].disc = D.disc /\ [D EXCEPT !.period = x].sel = D.sel
              /\ [D EXCEPT !.period = x].roll = D.roll
         /\ \A x \in [SelectionIds -> Selection \cup {NoSelection}] :
              /\ [D EXCEPT !.sel = x] \in Database /\ [D EXCEPT !.sel = x].sel = x
              /\ [D EXCEPT !.sel = x].disc = D.disc /\ [D EXCEPT !.sel = x].period = D.period
              /\ [D EXCEPT !.sel = x].roll = D.roll
         /\ \A x \in [Rolls -> RollEntry] :
              /\ [D EXCEPT !.roll = x] \in Database /\ [D EXCEPT !.roll = x].roll = x
              /\ [D EXCEPT !.roll = x].disc = D.disc /\ [D EXCEPT !.roll = x].period = D.period
              /\ [D EXCEPT !.roll = x].sel = D.sel
BY DEF Database

\* Only the disciplines change, and only d.
OnlyDiscipline(D, d, E) ==
  /\ E \in Database /\ E.period = D.period /\ E.sel = D.sel /\ E.roll = D.roll
  /\ \A e \in Disciplines \ {d} : E.disc[e] = D.disc[e]

LEMMA TakeSeatEffect ==
  ASSUME NEW D \in Database, NEW d \in Disciplines, HasFreeSeat(D, d)
  PROVE  LET E == TakeSeat(D, d)
         IN  /\ OnlyDiscipline(D, d, E)
             /\ E.disc[d].status = D.disc[d].status /\ E.disc[d].capacity = D.disc[d].capacity
             /\ E.disc[d].enrolled = D.disc[d].enrolled + 1
<1> DEFINE y == [D.disc[d] EXCEPT !.enrolled = @ + 1]
           x == [D.disc EXCEPT ![d] = y]
<1>1. TakeSeat(D, d) = [D EXCEPT !.disc = x]
  BY DEF TakeSeat
<1>2. D.disc \in [Disciplines -> Discipline] /\ D.disc[d] \in Discipline
  BY DEF Database
<1>3. /\ y \in Discipline /\ y.status = D.disc[d].status /\ y.capacity = D.disc[d].capacity
      /\ y.enrolled = D.disc[d].enrolled + 1
  BY <1>2, BoundsAssumption DEF Discipline, HasFreeSeat
<1> HIDE DEF y
<1>4. x \in [Disciplines -> Discipline] /\ x[d] = y /\ \A e \in Disciplines \ {d} : x[e] = D.disc[e]
  BY <1>2, <1>3
<1> HIDE DEF x
<1> QED
  BY <1>1, <1>3, <1>4, DatabaseUpdates DEF OnlyDiscipline

LEMMA ReturnSeatEffect ==
  ASSUME NEW D \in Database, NEW d \in Disciplines
  PROVE  LET E == ReturnSeat(D, d)
         IN  /\ OnlyDiscipline(D, d, E)
             /\ E.disc[d].status = D.disc[d].status /\ E.disc[d].capacity = D.disc[d].capacity
             /\ E.disc[d].enrolled = Less(D.disc[d].enrolled, 1)
<1> DEFINE n == Less(D.disc[d].enrolled, 1)
           y == [D.disc[d] EXCEPT !.enrolled = n]
           x == [D.disc EXCEPT ![d] = y]
<1>1. ReturnSeat(D, d) = [D EXCEPT !.disc = x]
  BY DEF ReturnSeat
<1>2. D.disc \in [Disciplines -> Discipline] /\ D.disc[d] \in Discipline
  BY DEF Database
<1>3. n \in 0..MaxCapacity
  BY <1>2, BoundsAssumption DEF Discipline, Less
<1> HIDE DEF n
<1>4. /\ y \in Discipline /\ y.status = D.disc[d].status /\ y.capacity = D.disc[d].capacity
      /\ y.enrolled = n
  BY <1>2, <1>3 DEF Discipline
<1> HIDE DEF y
<1>5. x \in [Disciplines -> Discipline] /\ x[d] = y /\ \A e \in Disciplines \ {d} : x[e] = D.disc[e]
  BY <1>2, <1>4
<1> HIDE DEF x
<1> QED
  BY <1>1, <1>4, <1>5, DatabaseUpdates DEF OnlyDiscipline, n

LEMMA SaveDisciplineEffect ==
  ASSUME NEW D \in Database, NEW x \in Places, x.pc = "edit.save"
  PROVE  LET E == SaveDiscipline(D, x.d, x.fields, x.capacity, x.inTerm)
         IN  /\ x.d \in Disciplines /\ OnlyDiscipline(D, x.d, E)
             /\ E.disc[x.d].status = D.disc[x.d].status
             /\ E.disc[x.d].enrolled = D.disc[x.d].enrolled
             /\ E.disc[x.d].capacity \in {x.capacity, D.disc[x.d].capacity}
             /\ "capacity" \notin x.fields => E.disc[x.d].capacity = D.disc[x.d].capacity
<1> DEFINE d == x.d
           z == D.disc[d]
           n == IF "capacity" \in x.fields THEN x.capacity ELSE z.capacity
           t == IF "inTerm" \in x.fields THEN x.inTerm ELSE z.inTerm
           y == [z EXCEPT !.capacity = n, !.inTerm = t]
           disc == [D.disc EXCEPT ![d] = y]
<1>1. SaveDiscipline(D, d, x.fields, x.capacity, x.inTerm) = [D EXCEPT !.disc = disc]
  <2>1. SaveDiscipline(D, d, x.fields, x.capacity, x.inTerm) = [D EXCEPT !.disc[d] = y]
    BY Zenon DEF SaveDiscipline
  <2> HIDE DEF y
  <2> QED
    BY <2>1
<1>2. D.disc \in [Disciplines -> Discipline] /\ d \in Disciplines /\ z \in Discipline
  BY PlaceForms DEF Database
<1>3. n \in 1..MaxCapacity /\ t \in BOOLEAN
  BY <1>2, PlaceForms DEF Discipline
<1>4. n \in {x.capacity, z.capacity} /\ ("capacity" \notin x.fields => n = z.capacity)
  OBVIOUS
<1> HIDE DEF n, t, z, d
<1>5. y = [status |-> z.status, capacity |-> n, enrolled |-> z.enrolled, inTerm |-> t]
  <2>1. z \in Discipline /\ y = [z EXCEPT !.capacity = n, !.inTerm = t]
    BY <1>2
  <2> HIDE DEF y
  <2> QED
    BY <2>1 DEF Discipline
<1>6. /\ y \in Discipline /\ y.status = z.status /\ y.capacity = n /\ y.enrolled = z.enrolled
  BY <1>2, <1>3, <1>5 DEF Discipline
<1> HIDE DEF y
<1>7. /\ disc \in [Disciplines -> Discipline] /\ disc[d] = y
      /\ \A e \in Disciplines \ {d} : disc[e] = D.disc[e]
  BY <1>2, <1>6
<1> HIDE DEF disc
<1>8. LET E == [D EXCEPT !.disc = disc] IN E.disc = disc /\ OnlyDiscipline(D, d, E)
  BY <1>7, DatabaseUpdates DEF OnlyDiscipline
<1> QED
  BY <1>1, <1>2, <1>4, <1>6, <1>7, <1>8 DEF z, d

LEMMA SaveStatusEffect ==
  ASSUME NEW D \in Database, NEW d \in Disciplines, NEW status \in DisciplineStatus
  PROVE  LET E == SaveStatus(D, d, status)
         IN  /\ OnlyDiscipline(D, d, E)
             /\ E.disc[d].status = status /\ E.disc[d].enrolled = D.disc[d].enrolled
             /\ E.disc[d].capacity = D.disc[d].capacity
<1> DEFINE y == [D.disc[d] EXCEPT !.status = status]
           x == [D.disc EXCEPT ![d] = y]
<1>1. SaveStatus(D, d, status) = [D EXCEPT !.disc = x]
  BY DEF SaveStatus
<1>2. D.disc \in [Disciplines -> Discipline] /\ D.disc[d] \in Discipline
  BY DEF Database
<1>3. /\ y \in Discipline /\ y.status = status /\ y.capacity = D.disc[d].capacity
      /\ y.enrolled = D.disc[d].enrolled
  BY <1>2 DEF Discipline
<1> HIDE DEF y
<1>4. x \in [Disciplines -> Discipline] /\ x[d] = y /\ \A e \in Disciplines \ {d} : x[e] = D.disc[e]
  BY <1>2, <1>3
<1> HIDE DEF x
<1> QED
  BY <1>1, <1>3, <1>4, DatabaseUpdates DEF OnlyDiscipline

LEMMA FlipEffect ==
  ASSUME NEW D \in Database, NEW d \in Disciplines
  PROVE  LET E == FlipDisciplineCancelled(D, d)
         IN  OnlyDiscipline(D, d, E) /\ E.disc[d].status = "cancelled"
<1> DEFINE y == [D.disc[d] EXCEPT !.status = "cancelled", !.enrolled = 0]
           x == [D.disc EXCEPT ![d] = y]
<1>1. FlipDisciplineCancelled(D, d) = [D EXCEPT !.disc = x]
  BY DEF FlipDisciplineCancelled
<1>2. D.disc \in [Disciplines -> Discipline] /\ D.disc[d] \in Discipline
  BY DEF Database
<1>3. y \in Discipline /\ y.status = "cancelled"
  <2> DEFINE z == D.disc[d]
  <2>1. z \in Discipline /\ y = [z EXCEPT !.status = "cancelled", !.enrolled = 0]
    BY <1>2
  <2> HIDE DEF y, z
  <2>2. y = [status |-> "cancelled", capacity |-> z.capacity, enrolled |-> 0, inTerm |-> z.inTerm]
    BY <2>1 DEF Discipline
  <2>3. z.capacity \in 1..MaxCapacity /\ z.inTerm \in BOOLEAN
    BY <2>1 DEF Discipline
  <2> QED
    BY <2>2, <2>3, BoundsAssumption DEF Discipline, DisciplineStatus
<1> HIDE DEF y
<1>4. x \in [Disciplines -> Discipline] /\ x[d] = y /\ \A e \in Disciplines \ {d} : x[e] = D.disc[e]
  BY <1>2, <1>3
<1> HIDE DEF x
<1>5. LET E == [D EXCEPT !.disc = x] IN OnlyDiscipline(D, d, E) /\ E.disc[d] = y
  BY <1>4, DatabaseUpdates DEF OnlyDiscipline
<1> QED
  BY <1>1, <1>3, <1>5

\* Periods may be published and may close; none is finalized.
PeriodMoves(old, new) ==
  \/ new = old
  \/ old = "draft" /\ new = "active"
  \/ old = "active" /\ new = "closed"

PeriodsMove(D, E) == \A p \in Periods : PeriodMoves(D.period[p].status, E.period[p].status)

OnlyPeriods(D, E) ==
  /\ E \in Database /\ E.disc = D.disc /\ E.sel = D.sel /\ E.roll = D.roll
  /\ PeriodsMove(D, E)

LEMMA OnePeriod ==
  ASSUME NEW D \in Database, NEW p \in Periods, NEW y \in Period,
         PeriodMoves(D.period[p].status, y.status)
  PROVE  OnlyPeriods(D, [D EXCEPT !.period = [D.period EXCEPT ![p] = y]])
<1> DEFINE x == [D.period EXCEPT ![p] = y]
<1>1. D.period \in [Periods -> Period]
  BY DEF Database
<1>2. x \in [Periods -> Period] /\ x[p] = y /\ \A q \in Periods \ {p} : x[q] = D.period[q]
  BY <1>1
<1> HIDE DEF x
<1>3. OnlyPeriods(D, [D EXCEPT !.period = x])
  BY <1>2, DatabaseUpdates DEF OnlyPeriods, PeriodsMove, PeriodMoves
<1> QED
  BY <1>3 DEF x

LEMMA LockEffect ==
  ASSUME NEW D \in Database, NEW p \in Periods, NEW r \in Requests \cup {NoRequest}
  PROVE  OnlyPeriods(D, [D EXCEPT !.period[p].lock = r])
<1>1. [D.period[p] EXCEPT !.lock = r] \in Period
      /\ [D.period[p] EXCEPT !.lock = r].status = D.period[p].status
  BY DocumentTypes DEF Period
<1> DEFINE y == [D.period[p] EXCEPT !.lock = r]
<1>2. [D EXCEPT !.period[p].lock = r] = [D EXCEPT !.period = [D.period EXCEPT ![p] = y]]
  OBVIOUS
<1> HIDE DEF y
<1>3. OnlyPeriods(D, [D EXCEPT !.period = [D.period EXCEPT ![p] = y]])
  BY <1>1, OnePeriod DEF y, PeriodMoves
<1> QED
  BY <1>2, <1>3

LEMMA SetPeriodEffect ==
  ASSUME NEW D \in Database, NEW p \in Periods, NEW status \in PeriodStatus,
         PeriodMoves(D.period[p].status, status)
  PROVE  OnlyPeriods(D, SetPeriod(D, p, status))
<1>1. [D.period[p] EXCEPT !.status = status] \in Period
      /\ [D.period[p] EXCEPT !.status = status].status = status
  BY DocumentTypes DEF Period
<1> DEFINE y == [D.period[p] EXCEPT !.status = status]
<1>2. SetPeriod(D, p, status) = [D EXCEPT !.period = [D.period EXCEPT ![p] = y]]
  BY DEF SetPeriod
<1> HIDE DEF y
<1>3. OnlyPeriods(D, [D EXCEPT !.period = [D.period EXCEPT ![p] = y]])
  BY <1>1, OnePeriod DEF y
<1> QED
  BY <1>2, <1>3

LEMMA SaveRequiredEffect ==
  ASSUME NEW D \in Database, NEW p \in Periods, NEW n \in 1..MaxChoices
  PROVE  OnlyPeriods(D, SaveRequired(D, p, n))
<1> DEFINE y == [D.period[p] EXCEPT !.required = n]
<1>1. y \in Period /\ y.status = D.period[p].status
  BY DocumentTypes DEF Period
<1>2. SaveRequired(D, p, n) = [D EXCEPT !.period = [D.period EXCEPT ![p] = y]]
  BY DEF SaveRequired
<1> HIDE DEF y
<1> QED
  BY <1>1, <1>2, OnePeriod DEF PeriodMoves

LEMMA CloseExpiredEffect ==
  ASSUME NEW D \in Database, NEW past
  PROVE  OnlyPeriods(D, CloseExpired(D, past))
<1> DEFINE closed(y) == [y EXCEPT !.status = "closed"]
           x == [p \in Periods |-> IF D.period[p].status = "active" /\ p \in past
                                   THEN closed(D.period[p]) ELSE D.period[p]]
<1>1. CloseExpired(D, past) = [D EXCEPT !.period = x]
  BY DEF CloseExpired
<1>2. \A y \in Period : closed(y) \in Period /\ closed(y).status = "closed"
  BY DEF Period, PeriodStatus
<1> HIDE DEF closed
<1>3. /\ x \in [Periods -> Period]
      /\ \A p \in Periods : \/ x[p].status = D.period[p].status
                            \/ D.period[p].status = "active" /\ x[p].status = "closed"
  BY <1>2, DocumentTypes
<1> HIDE DEF x
<1> QED
  BY <1>1, <1>3, DatabaseUpdates DEF OnlyPeriods, PeriodsMove, PeriodMoves

LEMMA MarkFinalizedEffect ==
  ASSUME NEW D \in Database, NEW p \in Periods
  PROVE  LET E == MarkFinalized(D, p)
         IN  /\ E \in Database /\ E.disc = D.disc /\ E.sel = D.sel /\ E.roll = D.roll
             /\ \A q \in Periods \ {p} : E.period[q] = D.period[q]
             /\ E.period[p].status = "finalized"
<1> DEFINE z == D.period[p]
           y == [z EXCEPT !.status = "finalized", !.lock = NoRequest]
           x == [D.period EXCEPT ![p] = y]
<1>1. MarkFinalized(D, p) = [D EXCEPT !.period = x]
  BY DEF MarkFinalized
<1>2. z \in Period /\ D.period \in [Periods -> Period]
  BY DEF Database
<1> HIDE DEF z
<1>3. y = [status |-> "finalized", required |-> z.required, lock |-> NoRequest]
  <2>1. z \in Period /\ y = [z EXCEPT !.status = "finalized", !.lock = NoRequest]
    BY <1>2
  <2> HIDE DEF y
  <2> QED
    BY <2>1 DEF Period
<1>4. z.required \in 1..MaxChoices
  BY <1>2 DEF Period
<1>5. y \in Period
  BY <1>3, <1>4 DEF Period, PeriodStatus
<1> HIDE DEF y
<1>6. /\ x \in [Periods -> Period] /\ \A q \in Periods \ {p} : x[q] = D.period[q]
      /\ x[p] = y
  BY <1>2, <1>5
<1>7. y.status = "finalized"
  BY <1>3
<1> HIDE DEF x
<1> QED
  BY <1>1, <1>6, <1>7, DatabaseUpdates

SameChoice(x, y) == /\ x.student = y.student /\ x.period = y.period
                    /\ x.discipline = y.discipline /\ x.slot = y.slot

\* A selection that has been made stays, with its student, period, discipline and slot.
Kept(D, E) ==
  \A i \in SelectionIds : D.sel[i] \in Selection => E.sel[i] \in Selection /\ SameChoice(E.sel[i], D.sel[i])

\* Only the selections in ids change, which now have the given status.
OnlySelections(D, ids, status, E) ==
  /\ E \in Database /\ E.disc = D.disc /\ E.period = D.period /\ E.roll = D.roll /\ Kept(D, E)
  /\ \A i \in SelectionIds \ ids : E.sel[i] = D.sel[i]
  /\ \A i \in ids : E.sel[i] \in Selection /\ E.sel[i].status = status

LEMMA InsertEffect ==
  ASSUME NEW D \in Database, NEW i \in SelectionIds, D.sel[i].status = "absent",
         NEW s \in Students, NEW p \in Periods, NEW d \in Disciplines, NEW slot \in 0..(MaxChoices - 1)
  PROVE  LET E == InsertSelection(D, i, s, p, d, slot)
         IN  /\ OnlySelections(D, {i}, "selected", E)
             /\ E.sel[i].discipline = d /\ E.sel[i].period = p
<1> DEFINE y == [status |-> "selected", reason |-> "none", student |-> s,
                 period |-> p, discipline |-> d, slot |-> slot]
           x == [D.sel EXCEPT ![i] = y]
<1>1. InsertSelection(D, i, s, p, d, slot) = [D EXCEPT !.sel = x]
  BY DEF InsertSelection
<1>2. y \in Selection /\ y.status = "selected" /\ y.discipline = d /\ y.period = p
  BY DEF Selection, CancelReason
<1> HIDE DEF y
<1>3. D.sel \in [SelectionIds -> Selection \cup {NoSelection}] /\ D.sel[i] \notin Selection
  BY Present DEF Database
<1>4. /\ x \in [SelectionIds -> Selection \cup {NoSelection}]
      /\ x[i] = y /\ \A j \in SelectionIds \ {i} : x[j] = D.sel[j]
  BY <1>2, <1>3
<1> HIDE DEF x
<1> QED
  BY <1>1, <1>2, <1>3, <1>4, DatabaseUpdates DEF OnlySelections, Kept, SameChoice

LEMMA CancelEffect ==
  ASSUME NEW D \in Database, NEW ids \in SUBSET SelectionIds, NEW reason \in CancelReason,
         \A i \in ids : D.sel[i] \in Selection
  PROVE  OnlySelections(D, ids, "cancelled", CancelSelections(D, ids, reason))
<1> DEFINE gone(y) == [y EXCEPT !.status = "cancelled", !.reason = reason]
           x == [i \in SelectionIds |-> IF i \in ids THEN gone(D.sel[i]) ELSE D.sel[i]]
<1>1. CancelSelections(D, ids, reason) = [D EXCEPT !.sel = x]
  BY DEF CancelSelections
<1>2. ASSUME NEW y \in Selection
      PROVE  gone(y) \in Selection /\ gone(y).status = "cancelled" /\ SameChoice(gone(y), y)
  BY <1>2 DEF Selection, SameChoice
<1> HIDE DEF gone
<1>3. /\ x \in [SelectionIds -> Selection \cup {NoSelection}]
      /\ \A i \in SelectionIds \ ids : x[i] = D.sel[i]
      /\ \A i \in ids : x[i] \in Selection /\ x[i].status = "cancelled" /\ SameChoice(x[i], D.sel[i])
  BY <1>2, DocumentTypes
<1> HIDE DEF x
<1>4. \A i \in SelectionIds : SameChoice(D.sel[i], D.sel[i])
  BY DEF SameChoice
<1> QED
  BY <1>1, <1>3, <1>4, DatabaseUpdates DEF OnlySelections, Kept

LEMMA EnrolEffect ==
  ASSUME NEW D \in Database, NEW ids \in SUBSET SelectionIds, \A i \in ids : D.sel[i] \in Selection
  PROVE  OnlySelections(D, ids, "enrolled", EnrolSelections(D, ids))
<1> DEFINE entered(y) == [y EXCEPT !.status = "enrolled"]
           x == [i \in SelectionIds |-> IF i \in ids THEN entered(D.sel[i]) ELSE D.sel[i]]
<1>1. EnrolSelections(D, ids) = [D EXCEPT !.sel = x]
  BY DEF EnrolSelections
<1>2. ASSUME NEW y \in Selection
      PROVE  entered(y) \in Selection /\ entered(y).status = "enrolled" /\ SameChoice(entered(y), y)
  BY <1>2 DEF Selection, SameChoice
<1> HIDE DEF entered
<1>3. /\ x \in [SelectionIds -> Selection \cup {NoSelection}]
      /\ \A i \in SelectionIds \ ids : x[i] = D.sel[i]
      /\ \A i \in ids : x[i] \in Selection /\ x[i].status = "enrolled" /\ SameChoice(x[i], D.sel[i])
  BY <1>2, DocumentTypes
<1> HIDE DEF x
<1>4. \A i \in SelectionIds : SameChoice(D.sel[i], D.sel[i])
  BY DEF SameChoice
<1> QED
  BY <1>1, <1>3, <1>4, DatabaseUpdates DEF OnlySelections, Kept

LEMMA AddToRollEffect ==
  ASSUME NEW D \in Database, NEW k \in Rolls, NEW p \in Periods, NEW students \in SUBSET Students
  PROVE  LET E == AddToRoll(D, k, p, students)
         IN  /\ E \in Database /\ E.disc = D.disc /\ E.period = D.period /\ E.sel = D.sel
             /\ E.roll[k].period = p /\ E.roll[k].students = D.roll[k].students \cup students
             /\ \A l \in Rolls \ {k} : E.roll[l] = D.roll[l]
<1> DEFINE y == [period |-> p, students |-> D.roll[k].students \cup students]
           x == [D.roll EXCEPT ![k] = y]
<1>1. AddToRoll(D, k, p, students) = [D EXCEPT !.roll = x]
  BY DEF AddToRoll
<1>2. D.roll \in [Rolls -> RollEntry] /\ D.roll[k] \in RollEntry
  BY DEF Database
<1>3. /\ y \in RollEntry /\ y.period = p
      /\ y.students = D.roll[k].students \cup students
  BY <1>2 DEF RollEntry
<1> HIDE DEF y
<1>4. x \in [Rolls -> RollEntry] /\ x[k] = y /\ \A l \in Rolls \ {k} : x[l] = D.roll[l]
  BY <1>2, <1>3
<1> HIDE DEF x
<1> QED
  BY <1>1, <1>3, <1>4, DatabaseUpdates

----
(* The core of the invariants: types, and every request names selections that there are, the *)
(* finalization only those of its period.                                                    *)

Fits(x, D) ==
  /\ x.pc \in Withdrawing => D.sel[x.i] \in Selection
  /\ x.pc \in Deciding \cup Enrolling =>
       \A i \in x.drop \cup x.keep : D.sel[i] \in Selection /\ D.sel[i].period = x.p

Core == TypeOK /\ req \in [Requests -> Places] /\ \A r \in Requests : Fits(req[r], db)

LEMMA KeptSame == \A D, E : E.sel = D.sel => Kept(D, E)
BY DEF Kept, SameChoice

LEMMA FitsStays ==
  ASSUME NEW x \in Places, NEW D, NEW E, Fits(x, D), Kept(D, E)
  PROVE  Fits(x, E)
BY PlaceForms DEF Fits, Kept, SameChoice

\* A step of one request.
LEMMA Moves ==
  ASSUME Core, NEW r \in Requests, NEW x \in Places, Goes(r, x), db' \in Database, Kept(db, db'),
         stale' \subseteq Periods, Fits(x, db')
  PROVE  Core' /\ req'[r] = x /\ \A q \in Requests \ {r} : req'[q] = req[q]
<1>1. /\ req' \in [Requests -> Places] /\ req'[r] = x /\ \A q \in Requests \ {r} : req'[q] = req[q]
  BY DEF Core, Goes
<1>2. \A q \in Requests : Fits(req'[q], db')
  <2> SUFFICES ASSUME NEW q \in Requests PROVE Fits(req'[q], db')
    OBVIOUS
  <2>1. CASE q = r
    BY <1>1, <2>1
  <2>2. CASE q # r
    BY <1>1, <2>2, FitsStays DEF Core
  <2> QED
    BY <2>1, <2>2
<1>3. TypeOK'
  BY <1>1 DEF Core, TypeOK, Goes
<1>4. \A q \in Requests : Fits(req[q], db)'
  BY <1>2 DEF Fits
<1> QED
  BY <1>1, <1>3, <1>4 DEF Core

\* Nobody takes a step, or one dies.
LEMMA Stays ==
  ASSUME Core, req' = req, db' \in Database, Kept(db, db'), stale' \subseteq Periods,
         ended' \subseteq Periods, archived' \subseteq Disciplines, crashed' \in BOOLEAN
  PROVE  Core'
<1>1. \A q \in Requests : Fits(req'[q], db')
  BY FitsStays DEF Core
<1>2. \A q \in Requests : Fits(req[q], db)'
  BY <1>1 DEF Fits
<1> QED
  BY <1>2 DEF Core, TypeOK

LEMMA CoreFacts ==
  ASSUME Core, NEW r \in Requests
  PROVE  /\ db \in Database /\ stale \subseteq Periods /\ req[r] \in Places /\ Fits(req[r], db)
         /\ Fits(Done, db)
BY DEF Core, TypeOK, Fits, Done, Withdrawing, Deciding, Enrolling

LEMMA DonePlace ==
  \A D : Done \in Places /\ Fits(Done, D) /\ Done.pc = "done"
BY PlaceMakes DEF Done, Fits, Withdrawing, Deciding, Enrolling

\* The first slot that has not been tried.
LEMMA LeastSlot ==
  ASSUME NEW S \in SUBSET Nat, S # {}
  PROVE  (CHOOSE k \in S : \A j \in S : k <= j) \in S
<1>1. PICK m \in S : \A n \in S : ~(<<n, m>> \in OpToRel(<, Nat))
  BY NatLessThanWellFounded, WFMin
<1>2. \A n \in S : m <= n
  <2> SUFFICES ASSUME NEW n \in S PROVE m <= n
    OBVIOUS
  <2>1. ~(n < m)
    BY <1>1 DEF OpToRel
  <2> QED
    BY <2>1
<1> QED
  BY <1>2

LEMMA SelectCore ==
  ASSUME Core, NEW r \in Requests, Select(r)
  PROVE  Core'
<1> USE CoreFacts, DonePlace
<1>1. CASE \E s \in Students, p \in Periods, d \in Disciplines : SelectBegin(r, s, p, d)
  <2>1. PICK s \in Students, p \in Periods, d \in Disciplines : SelectBegin(r, s, p, d)
    BY <1>1
  <2> DEFINE x == [pc |-> "select.period", s |-> s, p |-> p, d |-> d]
  <2>2. x \in Places /\ Fits(x, db') /\ Goes(r, x)
    BY <2>1, PlaceMakes DEF SelectBegin, Fits, Withdrawing, Deciding, Enrolling
  <2> HIDE DEF x
  <2>3. db' \in Database /\ Kept(db, db') /\ stale' \subseteq Periods
    BY <2>1, CloseExpiredEffect, KeptSame DEF SelectBegin, OnlyPeriods
  <2> QED
    BY <2>2, <2>3, Moves
<1>2. CASE SelectReadPeriod(r)
  <2> DEFINE y == [pc |-> "select.quota", s |-> req[r].s, p |-> req[r].p, d |-> req[r].d,
                   required |-> db.period[req[r].p].required]
  <2>1. PICK x : x \in {y, Done} /\ Goes(r, x)
    BY <1>2 DEF SelectReadPeriod
  <2>2. x \in Places /\ Fits(x, db)
    <3>1. req[r].pc \in Choosing
      BY <1>2 DEF SelectReadPeriod, At, Choosing
    <3>2. req[r].p \in Periods /\ db.period[req[r].p].required \in 1..MaxChoices
      BY <3>1, PlaceForms, DocumentTypes
    <3>3. y \in Places /\ Fits(y, db)
      BY <3>1, <3>2, PlaceForms, PlaceMakes DEF Fits, Withdrawing, Deciding, Enrolling
    <3> QED
      BY <2>1, <3>3
  <2>3. db' = db /\ stale' = stale
    BY <1>2 DEF SelectReadPeriod
  <2> QED
    BY <2>1, <2>2, <2>3, Moves, KeptSame
<1>3. CASE SelectReadQuota(r)
  <2> DEFINE slots == 0..(req[r].required - 1) \ SlotsTaken(db, req[r].s, req[r].p)
             y == [pc |-> "select.reserve", s |-> req[r].s, p |-> req[r].p, d |-> req[r].d,
                   slots |-> slots]
  <2>1. PICK x : x \in {y, Done} /\ Goes(r, x)
    BY <1>3 DEF SelectReadQuota
  <2>2. req[r].pc \in Choosing
    BY <1>3 DEF SelectReadQuota, At, Choosing
  <2>3. slots \subseteq 0..(MaxChoices - 1)
    <3>1. req[r].required \in 1..MaxChoices
      BY <1>3, PlaceForms DEF SelectReadQuota, At
    <3> QED
      BY <3>1, BoundsAssumption
  <2> HIDE DEF slots
  <2>4. y \in Places /\ Fits(y, db)
    BY <2>2, <2>3, PlaceForms, PlaceMakes DEF Reserving, Fits, Withdrawing, Deciding, Enrolling
  <2>5. db' = db /\ stale' = stale
    BY <1>3 DEF SelectReadQuota
  <2> QED
    BY <2>1, <2>4, <2>5, Moves, KeptSame
<1>4. CASE SelectReserve(r)
  <2>1. req[r].pc \in Reserving
    BY <1>4 DEF SelectReserve, At, Reserving
  <2> DEFINE y == [req[r] EXCEPT !.pc = "select.create"]
  <2>2. y = [pc |-> "select.create", s |-> req[r].s, p |-> req[r].p, d |-> req[r].d,
             slots |-> req[r].slots]
    BY <2>1, PlaceForms
  <2>3. y \in Places /\ \A D : Fits(y, D)
    BY <2>1, <2>2, PlaceForms, PlaceMakes DEF Reserving, Fits, Withdrawing, Deciding, Enrolling
  <2>4. CASE HasFreeSeat(db, req[r].d)
    <3>1. OnlyDiscipline(db, req[r].d, db')
      BY <1>4, <2>1, <2>4, PlaceForms, TakeSeatEffect DEF SelectReserve
    <3>2. Goes(r, y) /\ stale' = stale
      BY <1>4, <2>4 DEF SelectReserve
    <3> QED
      BY <2>3, <3>1, <3>2, Moves, KeptSame DEF OnlyDiscipline
  <2>5. CASE ~HasFreeSeat(db, req[r].d)
    <3>1. Goes(r, Done) /\ db' = db /\ stale' = stale
      BY <1>4, <2>5 DEF SelectReserve
    <3> QED
      BY <3>1, Moves, KeptSame
  <2> QED
    BY <2>4, <2>5
<1>5. CASE \E i \in SelectionIds : SelectCreate(r, i)
  <2>1. PICK i \in SelectionIds : SelectCreate(r, i)
    BY <1>5
  <2>2. /\ req[r].pc \in Reserving /\ req[r].slots # {} /\ db.sel[i].status = "absent"
        /\ stale' = stale
    BY <2>1 DEF SelectCreate, At, Reserving
  <2> DEFINE slot == CHOOSE k \in req[r].slots : \A j \in req[r].slots : k <= j
             rest == req[r].slots \ {slot}
             y == [req[r] EXCEPT !.slots = rest]
  <2>3. slot \in req[r].slots /\ slot \in 0..(MaxChoices - 1)
    BY <2>2, PlaceForms, LeastSlot
  <2>4. IF IndexesAdmit(db, req[r].s, req[r].p, req[r].d, slot)
          THEN /\ db' = InsertSelection(db, i, req[r].s, req[r].p, req[r].d, slot)
               /\ Goes(r, Done)
          ELSE db' = db /\ Goes(r, y)
    BY <2>1 DEF SelectCreate
  <2> HIDE DEF slot
  <2>5. CASE IndexesAdmit(db, req[r].s, req[r].p, req[r].d, slot)
    <3>1. OnlySelections(db, {i}, "selected", db')
      BY <2>2, <2>3, <2>4, <2>5, PlaceForms, InsertEffect
    <3> QED
      BY <2>2, <2>4, <2>5, <3>1, Moves DEF OnlySelections
  <2>6. CASE ~IndexesAdmit(db, req[r].s, req[r].p, req[r].d, slot)
    <3>1. rest \in SUBSET (0..(MaxChoices - 1))
      BY <2>2, PlaceForms
    <3> HIDE DEF rest
    <3>2. y = [pc |-> req[r].pc, s |-> req[r].s, p |-> req[r].p, d |-> req[r].d, slots |-> rest]
      BY <2>2, PlaceForms
    <3>3. y \in Places /\ Fits(y, db)
      BY <2>2, <3>1, <3>2, PlaceForms, PlaceMakes DEF Reserving, Fits, Withdrawing, Deciding, Enrolling
    <3> QED
      BY <2>2, <2>4, <2>6, <3>3, Moves, KeptSame
  <2> QED
    BY <2>5, <2>6
<1>6. CASE SelectCreateFails(r)
  <2>1. req[r].pc \in Reserving /\ Goes(r, [pc |-> "select.undo", d |-> req[r].d])
        /\ db' = db /\ stale' = stale
    BY <1>6 DEF SelectCreateFails, At, Reserving
  <2>2. [pc |-> "select.undo", d |-> req[r].d] \in Places /\ Fits([pc |-> "select.undo", d |-> req[r].d], db)
    BY <2>1, PlaceForms, PlaceMakes DEF Fits, Withdrawing, Deciding, Enrolling
  <2> QED
    BY <2>1, <2>2, Moves, KeptSame
<1>7. CASE SelectUndo(r)
  <2>1. OnlyDiscipline(db, req[r].d, db')
    BY <1>7, PlaceForms, ReturnSeatEffect DEF SelectUndo, At
  <2>2. Goes(r, Done) /\ stale' = stale
    BY <1>7 DEF SelectUndo
  <2> QED
    BY <2>1, <2>2, Moves, KeptSame DEF OnlyDiscipline
<1> QED
  BY <1>1, <1>2, <1>3, <1>4, <1>5, <1>6, <1>7 DEF Select

LEMMA SelectedArePresent ==
  ASSUME NEW D \in Database
  PROVE  \A i \in SelectionIds : D.sel[i].status = "selected" => D.sel[i] \in Selection
BY Present

LEMMA WithdrawCore ==
  ASSUME Core, NEW r \in Requests, Withdraw(r)
  PROVE  Core'
<1> USE CoreFacts, DonePlace
<1>1. CASE \E i \in SelectionIds : WithdrawBegin(r, i)
  <2>1. PICK i \in SelectionIds : WithdrawBegin(r, i)
    BY <1>1
  <2> DEFINE x == [pc |-> "withdraw.cancel", i |-> i]
  <2>2. Goes(r, x) /\ db' = db /\ stale' = stale /\ db.sel[i] \in Selection
    BY <2>1, Present DEF WithdrawBegin
  <2>3. x \in Places /\ Fits(x, db)
    BY <2>2, PlaceMakes DEF Fits, Withdrawing, Deciding, Enrolling
  <2> HIDE DEF x
  <2> QED
    BY <2>2, <2>3, Moves, KeptSame
<1>2. CASE WithdrawCancel(r)
  <2>1. req[r].pc \in Withdrawing /\ stale' = stale
    BY <1>2 DEF WithdrawCancel, At, Withdrawing
  <2> DEFINE i == req[r].i
             x == [req[r] EXCEPT !.pc = "withdraw.seat"]
  <2>2. i \in SelectionIds /\ db.sel[i] \in Selection
    BY <2>1, PlaceForms DEF Fits
  <2>3. CASE db.sel[i].status = "selected"
    <3>1. db' = CancelSelections(db, {i}, "student") /\ Goes(r, x)
      BY <1>2, <2>3 DEF WithdrawCancel
    <3>2. OnlySelections(db, {i}, "cancelled", db')
      BY <2>2, <3>1, CancelEffect DEF CancelReason
    <3>3. x = [pc |-> "withdraw.seat", i |-> i]
      BY <2>1, PlaceForms
    <3>4. x \in Places /\ Fits(x, db')
      BY <2>2, <3>2, <3>3, PlaceMakes DEF Fits, Withdrawing, Deciding, Enrolling, OnlySelections, Kept
    <3> HIDE DEF x
    <3> QED
      BY <2>1, <3>1, <3>2, <3>4, Moves DEF OnlySelections
  <2>4. CASE db.sel[i].status # "selected"
    <3>1. db' = db /\ Goes(r, Done)
      BY <1>2, <2>4 DEF WithdrawCancel
    <3> QED
      BY <2>1, <3>1, Moves, KeptSame
  <2> QED
    BY <2>3, <2>4
<1>3. CASE WithdrawSeat(r)
  <2>1. req[r].pc \in Withdrawing /\ stale' = stale /\ Goes(r, Done)
        /\ db' = ReturnSeat(db, db.sel[req[r].i].discipline)
    BY <1>3 DEF WithdrawSeat, At, Withdrawing
  <2>2. db.sel[req[r].i].discipline \in Disciplines
    BY <2>1, PlaceForms, Present DEF Fits
  <2>3. OnlyDiscipline(db, db.sel[req[r].i].discipline, db')
    BY <2>1, <2>2, ReturnSeatEffect
  <2> QED
    BY <2>1, <2>3, Moves, KeptSame DEF OnlyDiscipline
<1> QED
  BY <1>1, <1>2, <1>3 DEF Withdraw

LEMMA CancelCore ==
  ASSUME Core, NEW r \in Requests, Cancel(r)
  PROVE  Core'
<1> USE CoreFacts, DonePlace
<1>1. CASE \E d \in Disciplines : CancelBegin(r, d)
  <2>1. PICK d \in Disciplines : CancelBegin(r, d)
    BY <1>1
  <2> DEFINE x == [pc |-> "cancel.periods", d |-> d]
  <2>2. Goes(r, x) /\ db' = db /\ stale' = stale
    BY <2>1 DEF CancelBegin
  <2>3. x \in Places /\ Fits(x, db)
    BY PlaceMakes DEF Cancelling, Fits, Withdrawing, Deciding, Enrolling
  <2> HIDE DEF x
  <2> QED
    BY <2>2, <2>3, Moves, KeptSame
<1>2. CASE CancelCheckPeriods(r)
  <2>1. req[r].pc \in Cancelling /\ stale' = stale /\ db' = db
    BY <1>2 DEF CancelCheckPeriods, At, Cancelling
  <2>2. PICK x \in {Done, [req[r] EXCEPT !.pc = "cancel.flip"]} : Goes(r, x)
    BY <1>2 DEF CancelCheckPeriods
  <2>3. [req[r] EXCEPT !.pc = "cancel.flip"] = [pc |-> "cancel.flip", d |-> req[r].d]
    BY <2>1, PlaceForms
  <2>4. x \in Places /\ Fits(x, db)
    BY <2>1, <2>2, <2>3, PlaceForms, PlaceMakes DEF Cancelling, Fits, Withdrawing, Deciding, Enrolling
  <2> QED
    BY <2>1, <2>2, <2>4, Moves, KeptSame
<1>3. CASE CancelFlip(r)
  <2>1. req[r].pc \in Cancelling /\ stale' = stale
    BY <1>3 DEF CancelFlip, At, Cancelling
  <2> DEFINE y == [req[r] EXCEPT !.pc = "cancel.cascade"]
  <2>2. \/ db' = FlipDisciplineCancelled(db, req[r].d) /\ Goes(r, y)
        \/ db' = db /\ Goes(r, Done)
    BY <1>3 DEF CancelFlip
  <2>3. y = [pc |-> "cancel.cascade", d |-> req[r].d]
    BY <2>1, PlaceForms
  <2>4. y \in Places /\ \A D : Fits(y, D)
    BY <2>1, <2>3, PlaceForms, PlaceMakes DEF Cancelling, Fits, Withdrawing, Deciding, Enrolling
  <2> HIDE DEF y
  <2>5. CASE db' = FlipDisciplineCancelled(db, req[r].d) /\ Goes(r, y)
    <3>1. OnlyDiscipline(db, req[r].d, db')
      BY <2>1, <2>5, PlaceForms, FlipEffect
    <3> QED
      BY <2>1, <2>4, <2>5, <3>1, Moves, KeptSame DEF OnlyDiscipline
  <2>6. CASE db' = db /\ Goes(r, Done)
    BY <2>1, <2>6, Moves, KeptSame
  <2> QED
    BY <2>2, <2>5, <2>6
<1>4. CASE CancelCascade(r)
  <2>1. /\ Goes(r, Done) /\ stale' = stale
        /\ db' = CancelSelections(db, SelectedOf(db, req[r].d), "discipline_cancelled")
    BY <1>4 DEF CancelCascade
  <2>2. /\ SelectedOf(db, req[r].d) \in SUBSET SelectionIds
        /\ \A i \in SelectedOf(db, req[r].d) : db.sel[i] \in Selection
    BY SelectedArePresent DEF SelectedOf
  <2>3. OnlySelections(db, SelectedOf(db, req[r].d), "cancelled", db')
    BY <2>1, <2>2, CancelEffect DEF CancelReason
  <2> QED
    BY <2>1, <2>3, Moves DEF OnlySelections
<1> QED
  BY <1>1, <1>2, <1>3, <1>4 DEF Cancel

LEMMA FinalizeCore ==
  ASSUME Core, NEW r \in Requests, Finalize(r)
  PROVE  Core'
<1> USE CoreFacts, DonePlace
<1>0. ASSUME NEW p \in Periods, NEW D
      PROVE  \A c \in {"finalize.lock", "finalize.release"} :
               [pc |-> c, p |-> p] \in Places /\ Fits([pc |-> c, p |-> p], D)
  BY PlaceMakes DEF Fits, Withdrawing, Deciding, Enrolling
<1>1. CASE \E p \in Periods : FinalizeBegin(r, p)
  <2>1. PICK p \in Periods : FinalizeBegin(r, p)
    BY <1>1
  <2> DEFINE x == [pc |-> "finalize.lock", p |-> p]
  <2>2. x \in Places /\ Fits(x, db')
    BY <1>0
  <2>3. Goes(r, x) /\ db' = CloseExpired(db, ended) /\ stale' = stale
    BY <2>1 DEF FinalizeBegin
  <2> HIDE DEF x
  <2>4. db' \in Database /\ Kept(db, db')
    BY <2>3, CloseExpiredEffect, KeptSame DEF OnlyPeriods
  <2> QED
    BY <2>2, <2>3, <2>4, Moves
<1>2. CASE FinalizeLock(r)
  <2>1. req[r].pc \in Attempting
    BY <1>2 DEF FinalizeLock, At, Attempting
  <2> DEFINE p == req[r].p
             x == [pc |-> "finalize.read", p |-> p, required |-> db.period[p].required]
  <2>2. p \in Periods /\ db.period[p].required \in 1..MaxChoices
    BY <2>1, PlaceForms, DocumentTypes
  <2>3. x \in Places /\ \A D : Fits(x, D)
    BY <2>2, PlaceMakes DEF Fits, Withdrawing, Deciding, Enrolling
  <2>4. \/ db' = [db EXCEPT !.period[p].lock = r] /\ stale' = stale \ {p} /\ Goes(r, x)
        \/ db' = db /\ stale' = stale /\ Goes(r, Done)
    BY <1>2 DEF FinalizeLock
  <2> HIDE DEF x
  <2>5. db' \in Database /\ Kept(db, db') /\ stale' \subseteq Periods
    <3>1. OnlyPeriods(db, [db EXCEPT !.period[p].lock = r])
      BY <2>2, LockEffect
    <3> QED
      BY <2>4, <3>1, KeptSame DEF OnlyPeriods
  <2> QED
    BY <2>3, <2>4, <2>5, Moves
<1>3. CASE FinalizeRead(r)
  <2> DEFINE p == req[r].p
             read == SelectedIn(db, p)
             drop == {i \in read : db.sel[i].student \in Incomplete(db, req[r].required, read)}
             keep == read \ drop
             c == IF drop = {} THEN "finalize.course" ELSE "finalize.drop"
             x == [pc |-> c, p |-> p, drop |-> drop, keep |-> keep]
  <2>1. p \in Periods /\ Goes(r, x) /\ db' = db /\ stale' = stale
    BY <1>3, PlaceForms DEF FinalizeRead, At, Attempting
  <2>2. /\ drop \in SUBSET SelectionIds /\ keep \in SUBSET SelectionIds
        /\ \A i \in drop \cup keep : db.sel[i] \in Selection /\ db.sel[i].period = p
    BY SelectedArePresent DEF SelectedIn
  <2>3. c \in Deciding
    BY DEF Deciding
  <2> HIDE DEF c, drop, keep
  <2>4. x \in Places /\ Fits(x, db)
    BY <2>1, <2>2, <2>3, PlaceMakes DEF Fits, Withdrawing, Deciding
  <2> HIDE DEF x
  <2> QED
    BY <2>1, <2>4, Moves, KeptSame
<1>4. CASE FinalizeDrop(r)
  <2>1. req[r].pc \in Deciding /\ stale' = stale
    BY <1>4 DEF FinalizeDrop, At, Deciding
  <2> DEFINE ids == {i \in SelectedIn(db, req[r].p) :
                       db.sel[i].student \in {db.sel[j].student : j \in req[r].drop}}
             x == [req[r] EXCEPT !.pc = "finalize.seats"]
  <2>2. Goes(r, x) /\ db' = CancelSelections(db, ids, "incomplete_set")
    BY <1>4 DEF FinalizeDrop
  <2>3. ids \in SUBSET SelectionIds /\ \A i \in ids : db.sel[i] \in Selection
    BY SelectedArePresent DEF SelectedIn
  <2> HIDE DEF ids
  <2>4. OnlySelections(db, ids, "cancelled", db')
    BY <2>2, <2>3, CancelEffect DEF CancelReason
  <2>5. x = [pc |-> "finalize.seats", p |-> req[r].p, drop |-> req[r].drop, keep |-> req[r].keep]
    BY <2>1, PlaceForms
  <2>6. x \in Places /\ Fits(x, db)
    <3>1. /\ req[r].p \in Periods /\ req[r].drop \in SUBSET SelectionIds
          /\ req[r].keep \in SUBSET SelectionIds
      BY <2>1, PlaceForms
    <3> HIDE DEF x
    <3>2. x \in Places
      BY <2>5, <3>1, PlaceMakes DEF Deciding
    <3> QED
      BY <2>1, <2>5, <3>2 DEF Fits, Withdrawing
  <2> HIDE DEF x
  <2> QED
    BY <2>1, <2>2, <2>4, <2>6, FitsStays, Moves DEF OnlySelections
<1>5. CASE \E i \in SelectionIds : FinalizeReturnSeat(r, i)
  <2>1. PICK i \in SelectionIds : FinalizeReturnSeat(r, i)
    BY <1>5
  <2>2. req[r].pc \in Deciding /\ stale' = stale /\ i \in req[r].drop
        /\ db' = ReturnSeat(db, db.sel[i].discipline)
    BY <2>1 DEF FinalizeReturnSeat, At, Deciding
  <2> DEFINE c == IF req[r].drop = {i} THEN "finalize.course" ELSE req[r].pc
             rest == req[r].drop \ {i}
             x == [req[r] EXCEPT !.drop = rest, !.pc = c]
  <2>3. Goes(r, x)
    BY <2>1 DEF FinalizeReturnSeat
  <2>4. c \in Deciding
    BY <2>2 DEF Deciding
  <2>5. rest \in SUBSET SelectionIds /\ rest \subseteq req[r].drop
    BY <2>2, PlaceForms
  <2> HIDE DEF c, rest
  <2>6. x = [pc |-> c, p |-> req[r].p, drop |-> rest, keep |-> req[r].keep]
    <3> DEFINE z == req[r]
    <3>1. z \in [pc : Deciding, p : Periods, drop : SUBSET SelectionIds, keep : SUBSET SelectionIds]
      <4>1. z \in Places /\ z.pc \in Deciding
        BY <2>2
      <4> HIDE DEF z
      <4> QED
        BY <4>1 DEF Places, Deciding
    <3>2. x = [z EXCEPT !.drop = rest, !.pc = c]
      OBVIOUS
    <3> HIDE DEF z, x
    <3>3. x = [pc |-> c, p |-> z.p, drop |-> rest, keep |-> z.keep]
      BY <3>1, <3>2
    <3> QED
      BY <3>3 DEF z
  <2>7. x \in Places /\ Fits(x, db)
    <3>1. x \in Places
      BY <2>2, <2>4, <2>5, <2>6, PlaceForms, PlaceMakes
    <3> QED
      BY <2>2, <2>4, <2>5, <2>6, <3>1 DEF Fits, Withdrawing, Deciding
  <2>8. OnlyDiscipline(db, db.sel[i].discipline, db')
    <3>1. db.sel[i].discipline \in Disciplines
      BY <2>2, Present DEF Fits
    <3> QED
      BY <2>2, <3>1, ReturnSeatEffect
  <2> HIDE DEF x
  <2> QED
    BY <2>2, <2>3, <2>7, <2>8, KeptSame, FitsStays, Moves DEF OnlyDiscipline
<1>6. CASE \E k \in Rolls : FinalizeCourse(r, k)
  <2>1. PICK k \in Rolls : FinalizeCourse(r, k)
    BY <1>6
  <2> DEFINE y == [pc |-> "finalize.assignment", p |-> req[r].p, drop |-> {}, keep |-> req[r].keep, k |-> k]
  <2>2. req[r].pc \in Deciding /\ stale' = stale /\ db' = db
    BY <2>1 DEF FinalizeCourse, At, Deciding
  <2>3. PICK x \in {Released(r), y} : Goes(r, x)
    BY <2>1 DEF FinalizeCourse
  <2>4. Released(r) \in Places /\ Fits(Released(r), db)
    BY <1>0, <2>2, PlaceForms DEF Released
  <2>5. y \in Places
    BY <2>2, PlaceForms, PlaceMakes DEF Enrolling
  <2>6. Fits(y, db)
    BY <2>2 DEF Fits, Withdrawing
  <2> HIDE DEF y
  <2> QED
    BY <2>2, <2>3, <2>4, <2>5, <2>6, KeptSame, Moves
<1>7. CASE FinalizeFindAssignment(r)
  <2> DEFINE y == [req[r] EXCEPT !.pc = "finalize.upsert"]
  <2>1. req[r].pc \in Enrolling /\ stale' = stale /\ db' = db
    BY <1>7 DEF FinalizeFindAssignment, At, Enrolling
  <2>2. PICK x \in {Released(r), y} : Goes(r, x)
    BY <1>7 DEF FinalizeFindAssignment
  <2>3. Released(r) \in Places /\ Fits(Released(r), db)
    BY <1>0, <2>1, PlaceForms DEF Released
  <2>4. y = [pc |-> "finalize.upsert", p |-> req[r].p, drop |-> req[r].drop, keep |-> req[r].keep,
             k |-> req[r].k]
    BY <2>1, PlaceForms
  <2>5. y \in Places
    BY <2>1, <2>4, PlaceForms, PlaceMakes DEF Enrolling
  <2>6. Fits(y, db)
    BY <2>1, <2>4 DEF Fits, Withdrawing
  <2> HIDE DEF y
  <2> QED
    BY <2>1, <2>2, <2>3, <2>5, <2>6, KeptSame, Moves
<1>8. CASE FinalizeUpsertAssignment(r)
  <2> DEFINE students == {db.sel[i].student : i \in InBucket(req[r].keep, req[r].k)}
             y == [req[r] EXCEPT !.pc = "finalize.enrol"]
  <2>1. /\ req[r].pc \in Enrolling /\ stale' = stale /\ Goes(r, y)
        /\ db' = AddToRoll(db, req[r].k, req[r].p, students)
    BY <1>8 DEF FinalizeUpsertAssignment, At, Enrolling
  <2>2. students \in SUBSET Students
    BY <2>1, PlaceForms, Present DEF InBucket, Fits
  <2> HIDE DEF students
  <2>3. db' \in Database /\ Kept(db, db')
    BY <2>1, <2>2, PlaceForms, AddToRollEffect, KeptSame
  <2>4. y = [pc |-> "finalize.enrol", p |-> req[r].p, drop |-> req[r].drop, keep |-> req[r].keep,
             k |-> req[r].k]
    BY <2>1, PlaceForms
  <2>5. y \in Places
    <3>1. /\ req[r].p \in Periods /\ req[r].drop \in SUBSET SelectionIds
          /\ req[r].keep \in SUBSET SelectionIds /\ req[r].k \in Rolls
      BY <2>1, PlaceForms
    <3> HIDE DEF y
    <3> QED
      BY <2>4, <3>1, PlaceMakes DEF Enrolling
  <2>6. Fits(y, db)
    BY <2>1, <2>4 DEF Fits, Withdrawing
  <2> HIDE DEF y
  <2> QED
    BY <2>1, <2>3, <2>5, <2>6, FitsStays, Moves
<1>9. CASE FinalizeEnrol(r)
  <2> DEFINE mine == InBucket(req[r].keep, req[r].k)
             rest == req[r].keep \ mine
             y == [pc |-> "finalize.course", p |-> req[r].p, drop |-> {}, keep |-> rest]
  <2>1. req[r].pc \in Enrolling /\ stale' = stale
    BY <1>9 DEF FinalizeEnrol, At, Enrolling
  <2>2. PICK hit \in SUBSET mine : db' = EnrolSelections(db, hit)
    BY <1>9 DEF FinalizeEnrol
  <2>3. PICK x \in {Released(r), y} : Goes(r, x)
    BY <1>9 DEF FinalizeEnrol
  <2>4. hit \in SUBSET SelectionIds /\ \A i \in hit : db.sel[i] \in Selection
    BY <2>1, PlaceForms DEF InBucket, Fits
  <2>5. OnlySelections(db, hit, "enrolled", db')
    BY <2>2, <2>4, EnrolEffect
  <2>6. Released(r) \in Places /\ Fits(Released(r), db)
    BY <1>0, <2>1, PlaceForms DEF Released
  <2>7. rest \in SUBSET SelectionIds /\ rest \subseteq req[r].keep
    BY <2>1, PlaceForms
  <2> HIDE DEF rest, mine
  <2>8. y \in Places
    BY <2>1, <2>7, PlaceForms, PlaceMakes DEF Deciding
  <2>9. Fits(y, db)
    BY <2>1, <2>7 DEF Fits, Withdrawing
  <2> HIDE DEF y
  <2> QED
    BY <2>1, <2>3, <2>5, <2>6, <2>8, <2>9, FitsStays, Moves DEF OnlySelections
<1>10. CASE FinalizeCommit(r)
  <2>1. req[r].pc \in Deciding /\ req[r].p \in Periods
    BY <1>10, PlaceForms DEF FinalizeCommit, At, Deciding
  <2>2. \/ db' = MarkFinalized(db, req[r].p) /\ stale' = stale \ {req[r].p} /\ Goes(r, Done)
        \/ db' = db /\ stale' = stale /\ Goes(r, Released(r))
    BY <1>10 DEF FinalizeCommit
  <2>3. Released(r) \in Places /\ \A D : Fits(Released(r), D)
    BY <1>0, <2>1 DEF Released
  <2>4. db' \in Database /\ Kept(db, db')
    BY <2>1, <2>2, MarkFinalizedEffect, KeptSame
  <2> QED
    BY <2>2, <2>3, <2>4, Moves
<1>11. CASE FinalizeFails(r)
  <2>1. req[r].pc \in Finalizing /\ Goes(r, Released(r)) /\ db' = db /\ stale' = stale
    BY <1>11 DEF FinalizeFails
  <2>2. req[r].p \in Periods
    BY <2>1, PlaceForms DEF Finalizing, Attempting, Deciding, Enrolling
  <2>3. Released(r) \in Places /\ Fits(Released(r), db)
    BY <1>0, <2>2 DEF Released
  <2> QED
    BY <2>1, <2>3, KeptSame, Moves
<1>12. CASE FinalizeRelease(r)
  <2>1. req[r].p \in Periods /\ Goes(r, Done)
    BY <1>12, PlaceForms DEF FinalizeRelease, At, Attempting
  <2>2. \/ db' = [db EXCEPT !.period[req[r].p].lock = NoRequest] /\ stale' = stale \ {req[r].p}
        \/ db' = db /\ stale' = stale
    BY <1>12 DEF FinalizeRelease
  <2>3. db' \in Database /\ Kept(db, db')
    <3>1. OnlyPeriods(db, [db EXCEPT !.period[req[r].p].lock = NoRequest])
      BY <2>1, LockEffect
    <3> QED
      BY <2>2, <3>1, KeptSame DEF OnlyPeriods
  <2> QED
    BY <2>1, <2>2, <2>3, Moves
<1> QED
  BY <1>1, <1>2, <1>3, <1>4, <1>5, <1>6, <1>7, <1>8, <1>9, <1>10, <1>11, <1>12 DEF Finalize

\* An administrator's requests besides cancelling and finalizing leave selections, rolls, seat
\* counts and locks alone.
Edits(r) ==
  /\ db' \in Database /\ db'.sel = db.sel /\ db'.roll = db.roll
  /\ PeriodsMove(db, db')
  /\ \A p \in Periods : db'.period[p].lock = db.period[p].lock
  /\ \A d \in Disciplines : /\ db'.disc[d].enrolled = db.disc[d].enrolled
                            /\ db'.disc[d].status = "cancelled" => db.disc[d].status = "cancelled"
  /\ stale' = stale
  /\ req[r].pc \in Managing \cup {"idle"}
  /\ \E x \in Places : Goes(r, x) /\ x.pc \in Managing \cup {"done"}

\* An edit whose save() comes in time.
EditsInTime(r) ==
  \A d \in Disciplines :
    /\ db.disc[d].status = "cancelled" => db'.disc[d].status = "cancelled"
    /\ db.disc[d].enrolled <= db.disc[d].capacity => db'.disc[d].enrolled <= db'.disc[d].capacity

LEMMA PeriodLocks ==
  ASSUME NEW D \in Database, NEW p \in Periods, NEW n, NEW status
  PROVE  \A q \in Periods : /\ SaveRequired(D, p, n).period[q].lock = D.period[q].lock
                            /\ SetPeriod(D, p, status).period[q].lock = D.period[q].lock
BY DocumentTypes DEF SaveRequired, SetPeriod, Database, Period

\* A step that only begins or ends an edit.
LEMMA OnlyPlace ==
  ASSUME Core, NEW r \in Requests, NEW x \in Places, Goes(r, x), x.pc \in Managing \cup {"done"},
         req[r].pc \in Managing \cup {"idle"}, UNCHANGED <<db, stale>>
  PROVE  Edits(r) /\ EditsInTime(r)
BY CoreFacts DEF Edits, EditsInTime, PeriodsMove, PeriodMoves

LEMMA ManageEdits ==
  ASSUME Core, NEW r \in Requests, Manage(r)
  PROVE  Edits(r) /\ (CapacityInTime(r) /\ StatusInTime(r) => EditsInTime(r))
<1> USE CoreFacts, DonePlace
<1>1. CASE \E d \in Disciplines, capacity \in 1..MaxCapacity :
             \E inTerm \in TermChoices \cup {db.disc[d].inTerm} : UpdateDiscipline(r, d, capacity, inTerm)
  <2>0. PICK d \in Disciplines, capacity \in 1..MaxCapacity :
             \E inTerm \in TermChoices \cup {db.disc[d].inTerm} : UpdateDiscipline(r, d, capacity, inTerm)
    BY <1>1
  <2>1. PICK inTerm \in TermChoices \cup {db.disc[d].inTerm} : UpdateDiscipline(r, d, capacity, inTerm)
    BY <2>0
  <2>2. inTerm \in BOOLEAN
    BY ChoiceAssumption, DocumentTypes DEF Discipline
  <2>3. PICK fields \in SUBSET {"capacity", "inTerm"} :
          Goes(r, [pc |-> "edit.save", d |-> d, fields |-> fields,
                   capacity |-> capacity, inTerm |-> inTerm])
    BY <2>1 DEF UpdateDiscipline
  <2> DEFINE x == [pc |-> "edit.save", d |-> d, fields |-> fields,
                   capacity |-> capacity, inTerm |-> inTerm]
  <2>4. x \in Places /\ x.pc \in Managing
    BY <2>2, PlaceMakes DEF Managing
  <2>5. Goes(r, x) /\ req[r].pc = "idle" /\ UNCHANGED <<db, stale>>
    BY <2>1, <2>3 DEF UpdateDiscipline, Begins, At
  <2> HIDE DEF x
  <2> QED
    BY <2>4, <2>5, OnlyPlace
<1>2. CASE UpdateDisciplineSave(r)
  <2> DEFINE d == req[r].d
  <2>1. /\ req[r].pc = "edit.save" /\ Goes(r, Done) /\ stale' = stale
        /\ db' = SaveDiscipline(db, d, req[r].fields, req[r].capacity, req[r].inTerm)
    BY <1>2 DEF UpdateDisciplineSave, At
  <2>3. /\ d \in Disciplines /\ OnlyDiscipline(db, d, db')
        /\ db'.disc[d].status = db.disc[d].status /\ db'.disc[d].enrolled = db.disc[d].enrolled
        /\ db'.disc[d].capacity \in {req[r].capacity, db.disc[d].capacity}
        /\ "capacity" \notin req[r].fields => db'.disc[d].capacity = db.disc[d].capacity
    BY <2>1, SaveDisciplineEffect
  <2>4. Edits(r)
    BY <2>1, <2>3 DEF Edits, OnlyDiscipline, Managing, PeriodsMove, PeriodMoves
  <2>5. ASSUME CapacityInTime(r) PROVE EditsInTime(r)
    BY <1>2, <2>3, <2>5 DEF CapacityInTime, EditsInTime, OnlyDiscipline
  <2> QED
    BY <2>4, <2>5
<1>3. CASE \E d \in Disciplines, status \in StatusChoices : SetDisciplineStatus(r, d, status)
  <2>1. PICK d \in Disciplines, status \in StatusChoices : SetDisciplineStatus(r, d, status)
    BY <1>3
  <2> DEFINE x == [pc |-> "status.save", d |-> d, status |-> status]
  <2>2. x \in Places /\ x.pc \in Managing
    BY PlaceMakes DEF Managing
  <2>3. Goes(r, x) /\ req[r].pc = "idle" /\ UNCHANGED <<db, stale>>
    BY <2>1 DEF SetDisciplineStatus, Begins, At
  <2> HIDE DEF x
  <2> QED
    BY <2>2, <2>3, OnlyPlace
<1>4. CASE SetDisciplineStatusSave(r)
  <2> DEFINE d == req[r].d
  <2>1. /\ req[r].pc = "status.save" /\ Goes(r, Done) /\ stale' = stale
        /\ db' = SaveStatus(db, d, req[r].status)
    BY <1>4 DEF SetDisciplineStatusSave, At
  <2>2. d \in Disciplines /\ req[r].status \in DisciplineStatus /\ req[r].status # "cancelled"
    BY <2>1, PlaceForms, ChoiceAssumption DEF DisciplineStatus
  <2>3. /\ OnlyDiscipline(db, d, db')
        /\ db'.disc[d].status = req[r].status /\ db'.disc[d].enrolled = db.disc[d].enrolled
        /\ db'.disc[d].capacity = db.disc[d].capacity
    BY <2>1, <2>2, SaveStatusEffect
  <2>4. Edits(r)
    BY <2>1, <2>2, <2>3 DEF Edits, OnlyDiscipline, Managing, PeriodsMove, PeriodMoves
  <2>5. ASSUME StatusInTime(r) PROVE EditsInTime(r)
    BY <1>4, <2>3, <2>5 DEF StatusInTime, EditsInTime, OnlyDiscipline
  <2> QED
    BY <2>4, <2>5
<1>5. CASE \E p \in Periods, required \in 1..MaxChoices : UpdatePeriod(r, p, required)
  <2>1. PICK p \in Periods, required \in 1..MaxChoices : UpdatePeriod(r, p, required)
    BY <1>5
  <2> DEFINE x == [pc |-> "period.save", p |-> p, required |-> required]
  <2>2. x \in Places /\ x.pc \in Managing
    BY PlaceMakes DEF Managing
  <2>3. Goes(r, x) /\ req[r].pc = "idle" /\ UNCHANGED <<db, stale>>
    BY <2>1 DEF UpdatePeriod, Begins, At
  <2> HIDE DEF x
  <2> QED
    BY <2>2, <2>3, OnlyPlace
<1>6. CASE UpdatePeriodSave(r)
  <2>1. /\ req[r].pc = "period.save" /\ Goes(r, Done) /\ stale' = stale
        /\ db' = SaveRequired(db, req[r].p, req[r].required)
    BY <1>6 DEF UpdatePeriodSave, At
  <2>2. req[r].p \in Periods /\ req[r].required \in 1..MaxChoices
    BY <2>1, PlaceForms
  <2>3. OnlyPeriods(db, db') /\ \A q \in Periods : db'.period[q].lock = db.period[q].lock
    BY <2>1, <2>2, SaveRequiredEffect, PeriodLocks
  <2> QED
    BY <2>1, <2>3 DEF Edits, EditsInTime, OnlyPeriods, Managing
<1>7. CASE \E p \in Periods : Publish(r, p)
  <2>1. PICK p \in Periods : Publish(r, p)
    BY <1>7
  <2> DEFINE x == [pc |-> "period.publish", p |-> p]
  <2>2. x \in Places /\ x.pc \in Managing
    BY PlaceMakes DEF Managing
  <2>3. Goes(r, x) /\ req[r].pc = "idle" /\ UNCHANGED <<db, stale>>
    BY <2>1 DEF Publish, Begins, At
  <2> HIDE DEF x
  <2> QED
    BY <2>2, <2>3, OnlyPlace
<1>8. CASE PublishPeriod(r)
  <2>1. req[r].pc = "period.publish" /\ Goes(r, Done) /\ stale' = stale
    BY <1>8 DEF PublishPeriod, At
  <2>2. req[r].p \in Periods
    BY <2>1, PlaceForms
  <2>3. CASE db.period[req[r].p].status = "draft"
    <3>1. db' = SetPeriod(db, req[r].p, "active")
      BY <1>8, <2>3 DEF PublishPeriod
    <3>2. OnlyPeriods(db, db') /\ \A q \in Periods : db'.period[q].lock = db.period[q].lock
      BY <2>2, <2>3, <3>1, SetPeriodEffect, PeriodLocks DEF PeriodMoves, PeriodStatus
    <3> QED
      BY <2>1, <3>2 DEF Edits, EditsInTime, OnlyPeriods, Managing
  <2>4. CASE db.period[req[r].p].status # "draft"
    <3>1. db' = db
      BY <1>8, <2>4 DEF PublishPeriod
    <3> QED
      BY <2>1, <3>1, OnlyPlace DEF Managing
  <2> QED
    BY <2>3, <2>4
<1> QED
  BY <1>1, <1>2, <1>3, <1>4, <1>5, <1>6, <1>7, <1>8 DEF Manage, EditDiscipline

LEMMA ManageInTime ==
  ASSUME Core, NEW r \in Requests, Manage(r), [SavesInTime]_vars
  PROVE  Edits(r) /\ EditsInTime(r)
<1>1. CASE SavesInTime
  BY <1>1, ManageEdits DEF SavesInTime
<1>2. CASE vars' = vars
  BY <1>2, ManageEdits DEF EditsInTime, vars
<1> QED
  BY <1>1, <1>2

LEMMA ManageCore ==
  ASSUME Core, NEW r \in Requests, Manage(r)
  PROVE  /\ Core' /\ req'[r].pc \in Managing \cup {"done"} /\ crashed' = crashed
         /\ \A q \in Requests \ {r} : req'[q] = req[q]
<1>1. Edits(r)
  BY ManageEdits
<1>2. PICK x \in Places : Goes(r, x) /\ x.pc \in Managing \cup {"done"}
  BY <1>1 DEF Edits
<1>3. Fits(x, db')
  BY <1>2 DEF Fits, Managing, Withdrawing, Deciding, Enrolling
<1>4. db' \in Database /\ Kept(db, db') /\ stale' \subseteq Periods
  BY <1>1, CoreFacts, KeptSame DEF Edits
<1> QED
  BY <1>2, <1>3, <1>4, Moves DEF Goes

\* Steps that no request takes: the managers of other parts, the clock, reads of periods.
Elsewhere ==
  \/ \E p \in Periods : ClosePeriod(p) \/ PeriodEnds(p) \/ LockAges(p)
  \/ ListPeriods
  \/ \E d \in Archivable : ArchiveCourse(d) \/ RestoreCourse(d)
  \/ UNCHANGED vars

LEMMA ElsewhereEffect ==
  ASSUME Core, Elsewhere
  PROVE  OnlyPeriods(db, db') /\ req' = req /\ crashed' = crashed /\ Core'
<1>1. db \in Database /\ OnlyPeriods(db, db)
  BY DEF Core, TypeOK, OnlyPeriods, PeriodsMove, PeriodMoves
<1>2. /\ OnlyPeriods(db, db') /\ req' = req /\ crashed' = crashed /\ stale' \subseteq Periods
      /\ ended' \subseteq Periods /\ archived' \subseteq Disciplines
  <2> USE <1>1 DEF Core, TypeOK
  <2>1. CASE \E p \in Periods : ClosePeriod(p)
    BY <2>1, SetPeriodEffect DEF ClosePeriod, PeriodMoves, PeriodStatus
  <2>2. CASE \E p \in Periods : PeriodEnds(p)
    BY <2>2 DEF PeriodEnds
  <2>3. CASE \E p \in Periods : LockAges(p)
    BY <2>3 DEF LockAges
  <2>4. CASE ListPeriods
    BY <2>4, CloseExpiredEffect DEF ListPeriods
  <2>5. CASE \E d \in Archivable : ArchiveCourse(d) \/ RestoreCourse(d)
    BY <2>5, ArchivableAssumption DEF ArchiveCourse, RestoreCourse
  <2>6. CASE UNCHANGED vars
    BY <2>6 DEF vars
  <2> QED
    BY <2>1, <2>2, <2>3, <2>4, <2>5, <2>6 DEF Elsewhere
<1> QED
  BY <1>1, <1>2, Stays, KeptSame DEF OnlyPeriods, Core, TypeOK

LEMMA CrashCore ==
  ASSUME Core, NEW r \in Requests, Crash(r)
  PROVE  /\ Core' /\ db' = db /\ req'[r] = Done /\ crashed'
         /\ \A q \in Requests \ {r} : req'[q] = req[q]
<1>1. /\ req' \in [Requests -> Places] /\ req'[r] = Done
      /\ \A q \in Requests \ {r} : req'[q] = req[q]
  BY DonePlace DEF Core, Crash
<1>2. \A q \in Requests : Fits(req'[q], db')
  BY <1>1, DonePlace DEF Crash, Core
<1>3. \A q \in Requests : Fits(req[q], db)'
  BY <1>2 DEF Fits
<1> QED
  BY <1>1, <1>3 DEF Core, TypeOK, Crash

\* A campus where nobody has chosen yet is one where the choices are made.
LEMMA PublishedIsChosen == OfferedDatabases \subseteq ChosenDatabases
<1> SUFFICES ASSUME NEW D \in OfferedDatabases PROVE D \in ChosenDatabases
  OBVIOUS
<1>1. /\ \A d \in Disciplines : D.disc[d].enrolled = 0 /\ D.disc[d].capacity \in 1..MaxCapacity
      /\ \A i \in SelectionIds : D.sel[i] = NoSelection
  BY DEF OfferedDatabases
<1>2. (\A d : SeatsOf(D, d) = {}) /\ \A s, p : ChoicesOf(D, s, p) = {}
  BY <1>1 DEF SeatsOf, ChoicesOf, IsActive, NoSelection
<1>3. D \in [disc : [Disciplines -> [status : {"active"}, capacity : 1..MaxCapacity,
                                  enrolled : 0..MaxCapacity, inTerm : {TRUE}]],
             period : [Periods -> [status : {"draft", "active"}, required : 1..MaxChoices,
                                   lock : {NoRequest}]],
             sel : [SelectionIds -> [status : {"selected"}, reason : {"none"}, student : Students,
                                     period : Periods, discipline : Disciplines,
                                     slot : 0..(MaxChoices - 1)] \cup {NoSelection}],
             roll : [Rolls -> [period : {NoPeriod}, students : {{}}]]]
  <2>1. [status : {"active"}, capacity : 1..MaxCapacity, enrolled : {0}, inTerm : {TRUE}]
          \subseteq [status : {"active"}, capacity : 1..MaxCapacity,
                     enrolled : 0..MaxCapacity, inTerm : {TRUE}]
    <3>1. 0 \in 0..MaxCapacity
      BY BoundsAssumption
    <3> QED
      BY <3>1
  <2> QED
    BY <2>1 DEF OfferedDatabases
<1>4. /\ \A d \in Disciplines : /\ D.disc[d].enrolled = Cardinality(SeatsOf(D, d))
                                /\ D.disc[d].enrolled <= D.disc[d].capacity
      /\ \A i \in SelectionIds : D.sel[i] # NoSelection =>
           /\ D.period[D.sel[i].period].status = "active"
           /\ D.sel[i].slot < D.period[D.sel[i].period].required
      /\ \A s \in Students, p \in Periods : \A i, j \in ChoicesOf(D, s, p) :
           (D.sel[i].discipline = D.sel[j].discipline \/ D.sel[i].slot = D.sel[j].slot) => i = j
  BY <1>1, <1>2, FS_EmptySet, BoundsAssumption
<1> QED
  BY <1>3, <1>4, Zenon DEF ChosenDatabases

LEMMA ChosenFacts ==
  ASSUME NEW D \in ChosenDatabases
  PROVE  /\ D \in Database
         /\ \A d \in Disciplines : /\ D.disc[d].enrolled = Cardinality(SeatsOf(D, d))
                                   /\ D.disc[d].enrolled <= D.disc[d].capacity
         /\ \A i \in SelectionIds : D.sel[i].status \in {"absent", "selected"}
         /\ \A p \in Periods : D.period[p].status \in {"draft", "active"}
         /\ \A k \in Rolls : D.roll[k] = [period |-> NoPeriod, students |-> {}]
<1>1. /\ [status : {"active"}, capacity : 1..MaxCapacity, enrolled : 0..MaxCapacity, inTerm : {TRUE}]
           \subseteq Discipline
      /\ [status : {"draft", "active"}, required : 1..MaxChoices, lock : {NoRequest}] \subseteq Period
      /\ [status : {"selected"}, reason : {"none"}, student : Students, period : Periods,
          discipline : Disciplines, slot : 0..(MaxChoices - 1)] \subseteq Selection
      /\ [period : {NoPeriod}, students : {{}}] \subseteq RollEntry
  BY DEF Discipline, DisciplineStatus, Period, PeriodStatus, Selection, CancelReason, RollEntry
<1>2. D \in Database
  BY <1>1 DEF ChosenDatabases, Database
<1>3. \A i \in SelectionIds : D.sel[i].status \in {"absent", "selected"}
  BY DEF ChosenDatabases, NoSelection
<1>4. \A p \in Periods : D.period[p].status \in {"draft", "active"}
  BY DEF ChosenDatabases
<1>5. \A k \in Rolls : D.roll[k] = [period |-> NoPeriod, students |-> {}]
  BY DEF ChosenDatabases
<1> QED
  BY <1>2, <1>3, <1>4, <1>5 DEF ChosenDatabases

LEMMA InitCore == ChosenInit => Core
<1> SUFFICES ASSUME ChosenInit PROVE Core
  OBVIOUS
<1>1. db \in Database /\ req = [r \in Requests |-> Idle]
  BY ChosenFacts DEF ChosenInit, NothingUnderWay
<1>2. Idle \in Places /\ Fits(Idle, db)
  BY PlaceMakes DEF Idle, Fits, Withdrawing, Deciding, Enrolling
<1> QED
  BY <1>1, <1>2 DEF Core, TypeOK, ChosenInit, NothingUnderWay

LEMMA StepCore ==
  ASSUME Core, [Next]_vars
  PROVE  Core'
<1>1. ASSUME NEW r \in Requests, Select(r) \/ Withdraw(r) \/ Cancel(r) \/ Finalize(r) \/ Manage(r)
                                      \/ Crash(r)
      PROVE  Core'
  BY <1>1, SelectCore, WithdrawCore, CancelCore, FinalizeCore, ManageCore, CrashCore
<1>2. CASE Elsewhere
  BY <1>2, ElsewhereEffect
<1> QED
  BY <1>1, <1>2 DEF Next, Elsewhere

\* A campus that starts with nobody enrolled anywhere is one of those the other theorems are about.
THEOREM SpecIsChosen == Spec => ChosenSpec
<1>1. Init => ChosenInit
  BY PublishedIsChosen DEF Init, ChosenInit
<1> QED
  BY <1>1, PTL DEF Spec, ChosenSpec

\* Requests name documents that there are, and a finalization only selections of its period.
THEOREM CoreInductive == ChosenSpec => []Core
<1> QED
  BY InitCore, StepCore, PTL DEF ChosenSpec

\* Whatever statements interleave, fail or stay undone, every document keeps the shape the
\* schemas give it: no count below zero or above the largest capacity, no field written into a
\* selection that does not exist.
THEOREM StepsTypeCorrect == ChosenSpec => []TypeOK
<1>1. Core => TypeOK
  BY DEF Core
<1> QED
  BY <1>1, CoreInductive, PTL

----
(* An enrolment is final. *)

LEMMA GoesTo ==
  ASSUME Core, NEW r \in Requests, NEW x, Goes(r, x)
  PROVE  /\ req'[r] = x /\ crashed' = crashed
         /\ \A q \in Requests \ {r} : req'[q] = req[q]
BY DEF Core, Goes

\* The statements of a handler that leave every selection alone.
LEMMA OthersKeepSelections ==
  ASSUME Core, NEW r \in Requests,
         \/ \E s \in Students, p \in Periods, d \in Disciplines : SelectBegin(r, s, p, d)
         \/ SelectReadPeriod(r) \/ SelectReadQuota(r) \/ SelectReserve(r)
         \/ SelectCreateFails(r) \/ SelectUndo(r)
         \/ \E i \in SelectionIds : WithdrawBegin(r, i)
         \/ WithdrawSeat(r)
         \/ \E d \in Disciplines : CancelBegin(r, d)
         \/ CancelCheckPeriods(r) \/ CancelFlip(r)
         \/ \E p \in Periods : FinalizeBegin(r, p)
         \/ FinalizeLock(r) \/ FinalizeRead(r)
         \/ \E i \in SelectionIds : FinalizeReturnSeat(r, i)
         \/ \E k \in Rolls : FinalizeCourse(r, k)
         \/ FinalizeFindAssignment(r) \/ FinalizeUpsertAssignment(r)
         \/ FinalizeCommit(r) \/ FinalizeFails(r) \/ FinalizeRelease(r)
  PROVE  db'.sel = db.sel
<1>1. db = [disc |-> db.disc, period |-> db.period, sel |-> db.sel, roll |-> db.roll]
  BY CoreFacts, DocumentTypes
<1>2. /\ \A past : CloseExpired(db, past).sel = db.sel
      /\ \A d : /\ TakeSeat(db, d).sel = db.sel /\ ReturnSeat(db, d).sel = db.sel
                /\ FlipDisciplineCancelled(db, d).sel = db.sel
      /\ \A k, p, students : AddToRoll(db, k, p, students).sel = db.sel
      /\ \A p : MarkFinalized(db, p).sel = db.sel
      /\ \A p, q : [db EXCEPT !.period[p].lock = q].sel = db.sel
  BY <1>1 DEF CloseExpired, TakeSeat, ReturnSeat, FlipDisciplineCancelled, AddToRoll, MarkFinalized
<1>3. CASE \E s \in Students, p \in Periods, d \in Disciplines : SelectBegin(r, s, p, d)
  BY <1>2, <1>3 DEF SelectBegin
<1>4. CASE SelectReadPeriod(r)
  BY <1>2, <1>4 DEF SelectReadPeriod
<1>5. CASE SelectReadQuota(r)
  BY <1>2, <1>5 DEF SelectReadQuota
<1>6. CASE SelectReserve(r)
  BY <1>2, <1>6 DEF SelectReserve
<1>7. CASE SelectCreateFails(r)
  BY <1>2, <1>7 DEF SelectCreateFails
<1>8. CASE SelectUndo(r)
  BY <1>2, <1>8 DEF SelectUndo
<1>9. CASE \E i \in SelectionIds : WithdrawBegin(r, i)
  BY <1>2, <1>9 DEF WithdrawBegin
<1>10. CASE WithdrawSeat(r)
  BY <1>2, <1>10 DEF WithdrawSeat
<1>11. CASE \E d \in Disciplines : CancelBegin(r, d)
  BY <1>2, <1>11 DEF CancelBegin
<1>12. CASE CancelCheckPeriods(r)
  BY <1>2, <1>12 DEF CancelCheckPeriods
<1>13. CASE CancelFlip(r)
  BY <1>2, <1>13 DEF CancelFlip
<1>14. CASE \E p \in Periods : FinalizeBegin(r, p)
  BY <1>2, <1>14 DEF FinalizeBegin
<1>15. CASE FinalizeLock(r)
  BY <1>2, <1>15 DEF FinalizeLock
<1>16. CASE FinalizeRead(r)
  BY <1>2, <1>16 DEF FinalizeRead
<1>17. CASE \E i \in SelectionIds : FinalizeReturnSeat(r, i)
  BY <1>2, <1>17 DEF FinalizeReturnSeat
<1>18. CASE \E k \in Rolls : FinalizeCourse(r, k)
  BY <1>2, <1>18 DEF FinalizeCourse
<1>19. CASE FinalizeFindAssignment(r)
  BY <1>2, <1>19 DEF FinalizeFindAssignment
<1>20. CASE FinalizeUpsertAssignment(r)
  BY <1>2, <1>20 DEF FinalizeUpsertAssignment
<1>21. CASE FinalizeCommit(r)
  BY <1>2, <1>21 DEF FinalizeCommit
<1>22. CASE FinalizeFails(r)
  BY <1>2, <1>22 DEF FinalizeFails
<1>23. CASE FinalizeRelease(r)
  <2>1. [db EXCEPT !.period[req[r].p].lock = NoRequest].sel = db.sel
    BY <1>1
  <2> QED
    BY <1>23, <2>1 DEF FinalizeRelease
<1> QED
  BY <1>3, <1>4, <1>5, <1>6, <1>7, <1>8, <1>9, <1>10, <1>11, <1>12, <1>13,
     <1>14, <1>15, <1>16, <1>17, <1>18, <1>19, <1>20, <1>21, <1>22, <1>23

\* The statements that do change selections, and how.
LEMMA CreateWrites ==
  ASSUME Core, NEW r \in Requests, NEW i \in SelectionIds, SelectCreate(r, i)
  PROVE  \/ /\ db.sel[i].status = "absent" /\ Goes(r, Done)
            /\ OnlySelections(db, {i}, "selected", db')
            /\ db'.sel[i].discipline = req[r].d /\ db'.sel[i].period = req[r].p
         \/ /\ db' = db
            /\ \E y \in Places : Goes(r, y) /\ y.pc = "select.create" /\ y.d = req[r].d
<1> DEFINE slot == CHOOSE k \in req[r].slots : \A j \in req[r].slots : k <= j
           rest == req[r].slots \ {slot}
           y == [req[r] EXCEPT !.slots = rest]
<1>1. /\ req[r] \in Places /\ req[r].pc \in Reserving /\ req[r].pc = "select.create"
      /\ req[r].slots # {} /\ db.sel[i].status = "absent"
  BY CoreFacts DEF SelectCreate, At, Reserving
<1>2. slot \in 0..(MaxChoices - 1) /\ rest \in SUBSET (0..(MaxChoices - 1))
  BY <1>1, PlaceForms, LeastSlot
<1>3. IF IndexesAdmit(db, req[r].s, req[r].p, req[r].d, slot)
        THEN /\ db' = InsertSelection(db, i, req[r].s, req[r].p, req[r].d, slot)
             /\ Goes(r, Done)
        ELSE db' = db /\ Goes(r, y)
  BY DEF SelectCreate
<1> HIDE DEF slot, rest
<1>4. CASE IndexesAdmit(db, req[r].s, req[r].p, req[r].d, slot)
  <2>1. db \in Database /\ req[r].s \in Students /\ req[r].p \in Periods /\ req[r].d \in Disciplines
    BY <1>1, PlaceForms, CoreFacts
  <2> HIDE DEF y
  <2>2. LET E == InsertSelection(db, i, req[r].s, req[r].p, req[r].d, slot)
        IN  OnlySelections(db, {i}, "selected", E) /\ E.sel[i].discipline = req[r].d
              /\ E.sel[i].period = req[r].p
    BY <1>1, <1>2, <2>1, InsertEffect
  <2> QED
    BY <1>1, <1>3, <1>4, <2>2
<1>5. CASE ~IndexesAdmit(db, req[r].s, req[r].p, req[r].d, slot)
  <2>1. y = [pc |-> "select.create", s |-> req[r].s, p |-> req[r].p, d |-> req[r].d, slots |-> rest]
    BY <1>1, PlaceForms
  <2>2. y \in Places
    BY <1>1, <1>2, <2>1, PlaceForms, PlaceMakes DEF Reserving
  <2> QED
    BY <1>3, <1>5, <2>1, <2>2
<1> QED
  BY <1>4, <1>5

LEMMA WithdrawWrites ==
  ASSUME Core, NEW r \in Requests, WithdrawCancel(r)
  PROVE  /\ req[r].i \in SelectionIds /\ db.sel[req[r].i] \in Selection
         /\ \/ /\ db.sel[req[r].i].status = "selected"
               /\ OnlySelections(db, {req[r].i}, "cancelled", db')
               /\ Goes(r, [pc |-> "withdraw.seat", i |-> req[r].i])
            \/ db' = db /\ Goes(r, Done)
<1> DEFINE i == req[r].i
           x == [req[r] EXCEPT !.pc = "withdraw.seat"]
<1>1. req[r] \in Places /\ req[r].pc \in Withdrawing /\ Fits(req[r], db) /\ db \in Database
  BY CoreFacts DEF WithdrawCancel, At, Withdrawing
<1>2. i \in SelectionIds /\ db.sel[i] \in Selection
  BY <1>1, PlaceForms DEF Fits
<1>3. CASE db.sel[i].status = "selected"
  <2>1. db' = CancelSelections(db, {i}, "student") /\ Goes(r, x)
    BY <1>3 DEF WithdrawCancel
  <2>2. OnlySelections(db, {i}, "cancelled", db')
    BY <1>1, <1>2, <2>1, CancelEffect DEF CancelReason
  <2>3. x = [pc |-> "withdraw.seat", i |-> i]
    BY <1>1, PlaceForms
  <2> QED
    BY <1>2, <1>3, <2>1, <2>2, <2>3
<1>4. CASE db.sel[i].status # "selected"
  BY <1>2, <1>4 DEF WithdrawCancel
<1> QED
  BY <1>3, <1>4

LEMMA CascadeWrites ==
  ASSUME Core, NEW r \in Requests, CancelCascade(r)
  PROVE  Goes(r, Done) /\ OnlySelections(db, SelectedOf(db, req[r].d), "cancelled", db')
<1>1. db \in Database
  BY CoreFacts
<1>2. /\ SelectedOf(db, req[r].d) \in SUBSET SelectionIds
      /\ \A i \in SelectedOf(db, req[r].d) : db.sel[i] \in Selection
  BY <1>1, SelectedArePresent DEF SelectedOf
<1> QED
  BY <1>1, <1>2, CancelEffect DEF CancelCascade, CancelReason

LEMMA DropWrites ==
  ASSUME Core, NEW r \in Requests, FinalizeDrop(r)
  PROVE  LET ids == {i \in SelectedIn(db, req[r].p) :
                       db.sel[i].student \in {db.sel[j].student : j \in req[r].drop}}
         IN  /\ OnlySelections(db, ids, "cancelled", db')
             /\ Goes(r, [pc |-> "finalize.seats", p |-> req[r].p, drop |-> req[r].drop,
                         keep |-> req[r].keep])
<1> DEFINE ids == {i \in SelectedIn(db, req[r].p) :
                     db.sel[i].student \in {db.sel[j].student : j \in req[r].drop}}
           x == [req[r] EXCEPT !.pc = "finalize.seats"]
<1>1. db \in Database /\ req[r] \in Places /\ req[r].pc \in Deciding
  BY CoreFacts DEF FinalizeDrop, At, Deciding
<1>2. Goes(r, x) /\ db' = CancelSelections(db, ids, "incomplete_set")
  BY DEF FinalizeDrop
<1>3. ids \in SUBSET SelectionIds /\ \A i \in ids : db.sel[i] \in Selection
  BY <1>1, SelectedArePresent DEF SelectedIn
<1>4. x = [pc |-> "finalize.seats", p |-> req[r].p, drop |-> req[r].drop, keep |-> req[r].keep]
  BY <1>1, PlaceForms
<1> HIDE DEF ids, x
<1>5. OnlySelections(db, ids, "cancelled", db')
  BY <1>1, <1>2, <1>3, CancelEffect DEF CancelReason
<1> QED
  BY <1>2, <1>4, <1>5 DEF ids

LEMMA EnrolWrites ==
  ASSUME Core, NEW r \in Requests, FinalizeEnrol(r)
  PROVE  LET mine == InBucket(req[r].keep, req[r].k)
         IN  \E hit \in SUBSET mine :
               /\ OnlySelections(db, hit, "enrolled", db')
               /\ \/ Goes(r, Released(r))
                  \/ /\ hit = mine
                     /\ Goes(r, [pc |-> "finalize.course", p |-> req[r].p, drop |-> {},
                                 keep |-> req[r].keep \ mine])
<1> DEFINE mine == InBucket(req[r].keep, req[r].k)
           y == [pc |-> "finalize.course", p |-> req[r].p, drop |-> {}, keep |-> req[r].keep \ mine]
<1>1. db \in Database /\ req[r] \in Places /\ req[r].pc \in Enrolling /\ Fits(req[r], db)
  BY CoreFacts DEF FinalizeEnrol, At, Enrolling
<1>2. PICK hit \in SUBSET mine : /\ db' = EnrolSelections(db, hit)
                                 /\ Goes(r, Released(r)) \/ (hit = mine /\ Goes(r, y))
  BY DEF FinalizeEnrol
<1>3. hit \in SUBSET SelectionIds /\ \A i \in hit : db.sel[i] \in Selection
  BY <1>1, PlaceForms DEF InBucket, Fits
<1>4. OnlySelections(db, hit, "enrolled", db')
  BY <1>1, <1>2, <1>3, EnrolEffect
<1> HIDE DEF mine
<1> QED
  BY <1>2, <1>4 DEF mine

\* All that can happen to selections in a step.
Cancels(D, E) ==
  \E ids \in SUBSET SelectionIds :
    /\ \A i \in ids : D.sel[i].status = "selected"
    /\ OnlySelections(D, ids, "cancelled", E)

LEMMA SelectionSteps ==
  ASSUME Core, [Next]_vars
  PROVE  \/ db'.sel = db.sel
         \/ \E r \in Requests, i \in SelectionIds :
              SelectCreate(r, i) /\ db.sel[i].status = "absent" /\ OnlySelections(db, {i}, "selected", db')
         \/ Cancels(db, db')
         \/ \E r \in Requests : \E hit \in SUBSET InBucket(req[r].keep, req[r].k) :
              FinalizeEnrol(r) /\ OnlySelections(db, hit, "enrolled", db')
<1>1. CASE \E r \in Requests : \E i \in SelectionIds : SelectCreate(r, i)
  BY <1>1, CreateWrites
<1>2. CASE \E r \in Requests : WithdrawCancel(r)
  <2>1. PICK r \in Requests : WithdrawCancel(r)
    BY <1>2
  <2>2. \/ db' = db
        \/ /\ req[r].i \in SelectionIds /\ db.sel[req[r].i].status = "selected"
           /\ OnlySelections(db, {req[r].i}, "cancelled", db')
    BY <2>1, WithdrawWrites
  <2> QED
    BY <2>2 DEF Cancels
<1>3. CASE \E r \in Requests : CancelCascade(r)
  <2>1. PICK r \in Requests : CancelCascade(r)
    BY <1>3
  <2>2. OnlySelections(db, SelectedOf(db, req[r].d), "cancelled", db')
    BY <2>1, CascadeWrites
  <2> QED
    BY <2>2 DEF Cancels, SelectedOf
<1>4. CASE \E r \in Requests : FinalizeDrop(r)
  <2>1. PICK r \in Requests : FinalizeDrop(r)
    BY <1>4
  <2> DEFINE ids == {i \in SelectedIn(db, req[r].p) :
                       db.sel[i].student \in {db.sel[j].student : j \in req[r].drop}}
  <2>2. OnlySelections(db, ids, "cancelled", db')
    BY <2>1, DropWrites
  <2>3. ids \in SUBSET SelectionIds /\ \A i \in ids : db.sel[i].status = "selected"
    BY DEF SelectedIn
  <2> HIDE DEF ids
  <2> QED
    BY <2>2, <2>3 DEF Cancels
<1>5. CASE \E r \in Requests : FinalizeEnrol(r)
  <2>1. PICK r \in Requests : FinalizeEnrol(r)
    BY <1>5
  <2> QED
    BY <2>1, EnrolWrites
<1>6. CASE \E r \in Requests : Crash(r)
  BY <1>6 DEF Crash
<1>7. CASE Elsewhere
  BY <1>7, ElsewhereEffect DEF OnlyPeriods
<1>8. ASSUME NEW r \in Requests, Select(r) \/ Withdraw(r) \/ Cancel(r) \/ Finalize(r) \/ Manage(r),
             \A i \in SelectionIds : ~SelectCreate(r, i),
             ~WithdrawCancel(r), ~CancelCascade(r), ~FinalizeDrop(r), ~FinalizeEnrol(r)
      PROVE  db'.sel = db.sel
  BY <1>8, OthersKeepSelections, ManageEdits DEF Select, Withdraw, Cancel, Finalize, Edits
<1> QED
  BY <1>1, <1>2, <1>3, <1>4, <1>5, <1>6, <1>7, <1>8 DEF Next, Elsewhere

\* An enrolled selection is never cancelled again: not by an attempt that has lost its lock, nor
\* by a withdrawal or a cancellation of the discipline that began earlier.
THEOREM EnrolmentStays == ChosenSpec => EnrolmentIsFinal
<1>1. Core /\ [Next]_vars =>
        [\A i \in SelectionIds : db.sel[i].status = "enrolled" => db'.sel[i].status = "enrolled"]_vars
  <2> SUFFICES ASSUME Core, [Next]_vars, NEW i \in SelectionIds, db.sel[i].status = "enrolled"
               PROVE  db'.sel[i].status = "enrolled"
    OBVIOUS
  <2> QED
    BY SelectionSteps DEF Cancels, OnlySelections
<1> QED
  BY <1>1, CoreInductive, PTL DEF ChosenSpec, EnrolmentIsFinal

----
(* What the statements write, one handler at a time. *)

SelectPlaces == Choosing \cup Reserving \cup {"select.undo"}

\* The places of an attempt that holds the lock, or believes that it does.
Watched == {"finalize.read"} \cup Deciding \cup Enrolling

\* The other handlers publish or close periods at most, and never touch a roll.
LEMMA HandlersMovePeriods ==
  ASSUME Core, NEW r \in Requests, Select(r) \/ Withdraw(r) \/ Cancel(r) \/ Manage(r)
  PROVE  PeriodsMove(db, db') /\ db'.roll = db.roll /\ req'[r].pc \notin Watched
<1> USE CoreFacts
<1>0. PeriodsMove(db, db) /\ Done.pc \notin Watched
  BY DEF PeriodsMove, PeriodMoves, Done, Watched, Deciding, Enrolling
<1>1. \A x : Goes(r, x) => req'[r] = x
  BY GoesTo
<1>2. \A x \in Places, c \in Choosing \cup Reserving \cup Withdrawing \cup Cancelling :
        [x EXCEPT !.pc = c].pc \notin Watched
  BY DEF Places, Choosing, Reserving, Withdrawing, Cancelling, Watched, Deciding, Enrolling
<1>3. CASE \E s \in Students, p \in Periods, d \in Disciplines : SelectBegin(r, s, p, d)
  BY <1>1, <1>3, CloseExpiredEffect DEF SelectBegin, OnlyPeriods, Watched, Deciding, Enrolling
<1>4. CASE SelectReadPeriod(r)
  BY <1>0, <1>1, <1>4 DEF SelectReadPeriod, Watched, Deciding, Enrolling
<1>5. CASE SelectReadQuota(r)
  BY <1>0, <1>1, <1>5 DEF SelectReadQuota, Watched, Deciding, Enrolling
<1>6. CASE SelectReserve(r)
  <2>1. req[r].d \in Disciplines
    BY <1>6, PlaceForms DEF SelectReserve, At, Reserving
  <2>2. \/ HasFreeSeat(db, req[r].d) /\ db' = TakeSeat(db, req[r].d)
        \/ db' = db
    BY <1>6 DEF SelectReserve
  <2>3. db'.period = db.period /\ db'.roll = db.roll
    BY <2>1, <2>2, TakeSeatEffect DEF OnlyDiscipline
  <2>4. \/ Goes(r, Done) \/ Goes(r, [req[r] EXCEPT !.pc = "select.create"])
    BY <1>6 DEF SelectReserve
  <2> QED
    BY <1>0, <1>1, <1>2, <2>3, <2>4 DEF Reserving, PeriodsMove, PeriodMoves
<1>7. CASE \E i \in SelectionIds : SelectCreate(r, i)
  BY <1>0, <1>1, <1>7, CreateWrites DEF OnlySelections, PeriodsMove, PeriodMoves, Watched, Deciding, Enrolling
<1>8. CASE SelectCreateFails(r)
  BY <1>0, <1>1, <1>8 DEF SelectCreateFails, Watched, Deciding, Enrolling
<1>9. CASE SelectUndo(r)
  <2>1. req[r].d \in Disciplines
    BY <1>9, PlaceForms DEF SelectUndo, At
  <2> QED
    BY <1>0, <1>1, <1>9, <2>1, ReturnSeatEffect DEF SelectUndo, OnlyDiscipline, PeriodsMove, PeriodMoves
<1>10. CASE \E i \in SelectionIds : WithdrawBegin(r, i)
  BY <1>0, <1>1, <1>10 DEF WithdrawBegin, Watched, Deciding, Enrolling
<1>11. CASE WithdrawCancel(r)
  <2>1. PeriodsMove(db, db') /\ db'.roll = db.roll
    BY <1>0, <1>11, WithdrawWrites DEF OnlySelections, PeriodsMove, PeriodMoves
  <2>2. Goes(r, Done) \/ Goes(r, [pc |-> "withdraw.seat", i |-> req[r].i])
    BY <1>11, WithdrawWrites
  <2>3. [pc |-> "withdraw.seat", i |-> req[r].i].pc \notin Watched
    BY DEF Watched, Deciding, Enrolling
  <2> QED
    BY <1>0, <1>1, <2>1, <2>2, <2>3
<1>12. CASE WithdrawSeat(r)
  <2>1. db.sel[req[r].i].discipline \in Disciplines
    BY <1>12, PlaceForms, Present DEF WithdrawSeat, At, Withdrawing, Fits
  <2> QED
    BY <1>0, <1>1, <1>12, <2>1, ReturnSeatEffect DEF WithdrawSeat, OnlyDiscipline, PeriodsMove, PeriodMoves
<1>13. CASE \E d \in Disciplines : CancelBegin(r, d)
  BY <1>0, <1>1, <1>13 DEF CancelBegin, Watched, Deciding, Enrolling
<1>14. CASE CancelCheckPeriods(r)
  BY <1>0, <1>1, <1>2, <1>14 DEF CancelCheckPeriods, Cancelling
<1>15. CASE CancelFlip(r)
  <2>1. req[r].d \in Disciplines
    BY <1>15, PlaceForms DEF CancelFlip, At, Cancelling
  <2>2. db' = FlipDisciplineCancelled(db, req[r].d) \/ db' = db
    BY <1>15 DEF CancelFlip
  <2>3. db'.period = db.period /\ db'.roll = db.roll
    BY <2>1, <2>2, FlipEffect DEF OnlyDiscipline
  <2>4. \/ Goes(r, Done) \/ Goes(r, [req[r] EXCEPT !.pc = "cancel.cascade"])
    BY <1>15 DEF CancelFlip
  <2> QED
    BY <1>0, <1>1, <1>2, <2>3, <2>4 DEF Cancelling, PeriodsMove, PeriodMoves
<1>16. CASE CancelCascade(r)
  BY <1>0, <1>1, <1>16, CascadeWrites DEF OnlySelections, PeriodsMove, PeriodMoves
<1>17. CASE Manage(r)
  BY <1>17, ManageEdits, ManageCore DEF Edits, Managing, Watched, Deciding, Enrolling
<1> QED
  BY <1>3, <1>4, <1>5, <1>6, <1>7, <1>8, <1>9, <1>10, <1>11, <1>12, <1>13, <1>14, <1>15, <1>16, <1>17
     DEF Select, Withdraw, Cancel

\* What an attempt writes, and where it goes: it has no lock, takes it, reads, drops the
\* incomplete choices, returns a seat, looks at a course or its assignment, writes the roll,
\* enrols, or ends.
Unattended == {"finalize.lock", "finalize.release", "done"}

NotAttempting(r) == OnlyPeriods(db, db') /\ req'[r].pc \in Unattended

TakesLock(r) ==
  /\ FinalizeLock(r) /\ OnlyPeriods(db, db') /\ req'[r].pc = "finalize.read"
  /\ db'.period[req'[r].p].status = "closed"

Reads(r) ==
  /\ FinalizeRead(r) /\ db' = db /\ req[r].pc = "finalize.read" /\ req'[r].p = req[r].p
  /\ \/ req'[r].pc = "finalize.drop"
     \/ req'[r].pc = "finalize.course" /\ req'[r].drop = {}
  /\ SelectedIn(db, req[r].p) \subseteq req'[r].drop \cup req'[r].keep

ReturnsASeat(r) ==
  /\ \E d \in Disciplines : OnlyDiscipline(db, d, db')
  /\ req[r].pc = "finalize.seats" /\ req'[r].pc \in {"finalize.seats", "finalize.course"}
  /\ req'[r].p = req[r].p /\ req'[r].keep = req[r].keep

Looks(r) ==
  /\ db' = db /\ req'[r].p = req[r].p /\ req'[r].keep = req[r].keep
  /\ \/ req[r].pc = "finalize.course" /\ req'[r].pc = "finalize.assignment"
     \/ /\ req[r].pc = "finalize.assignment" /\ req'[r].pc = "finalize.upsert"
        /\ req'[r].k = req[r].k /\ ~RollTaken(db, req[r].k, req[r].p)

WritesRoll(r) ==
  LET students == {db.sel[i].student : i \in InBucket(req[r].keep, req[r].k)}
  IN  /\ db' \in Database /\ db'.disc = db.disc /\ db'.period = db.period /\ db'.sel = db.sel
      /\ db'.roll[req[r].k].period = req[r].p
      /\ db'.roll[req[r].k].students = db.roll[req[r].k].students \cup students
      /\ \A l \in Rolls \ {req[r].k} : db'.roll[l] = db.roll[l]
      /\ FinalizeUpsertAssignment(r)
      /\ req[r].pc = "finalize.upsert" /\ req'[r].pc = "finalize.enrol"
      /\ req'[r].p = req[r].p /\ req'[r].keep = req[r].keep /\ req'[r].k = req[r].k

Ends(r) ==
  /\ req[r].pc = "finalize.course" /\ req[r].keep = {} /\ req'[r].pc \in Unattended
  /\ db'.disc = db.disc /\ db'.sel = db.sel /\ db'.roll = db.roll
  /\ \A q \in Periods \ {req[r].p} : db'.period[q] = db.period[q]
  /\ db'.period[req[r].p].status \in {db.period[req[r].p].status, "finalized"}

LEMMA UnattendedPlaces ==
  \A c \in Unattended : c \notin Watched \cup SelectPlaces \cup Withdrawing \cup Cancelling
BY DEF Unattended, Watched, Deciding, Enrolling, SelectPlaces, Choosing, Reserving, Withdrawing, Cancelling

LEMMA ReleaseUnwatched ==
  ASSUME Core, NEW r \in Requests, Goes(r, Released(r)) \/ Goes(r, Done)
  PROVE  req'[r].pc \in Unattended
<1>1. Released(r).pc \in Unattended /\ Done.pc \in Unattended
  BY DEF Released, Done, Unattended
<1> QED
  BY <1>1, GoesTo

LEMMA SamePeriods == Core => OnlyPeriods(db, db)
BY DEF Core, TypeOK, OnlyPeriods, PeriodsMove, PeriodMoves

LEMMA AttemptSteps ==
  ASSUME Core, NEW r \in Requests, Finalize(r)
  PROVE  \/ NotAttempting(r) \/ TakesLock(r) \/ Reads(r) \/ ReturnsASeat(r) \/ Looks(r)
         \/ WritesRoll(r) \/ Ends(r) \/ FinalizeDrop(r) \/ FinalizeEnrol(r)
<1> USE CoreFacts, GoesTo
<1>1. CASE \E p \in Periods : FinalizeBegin(r, p)
  <2>1. PICK p \in Periods : FinalizeBegin(r, p)
    BY <1>1
  <2>2. OnlyPeriods(db, db') /\ Goes(r, [pc |-> "finalize.lock", p |-> p])
    BY <2>1, CloseExpiredEffect DEF FinalizeBegin
  <2>3. [pc |-> "finalize.lock", p |-> p].pc \in Unattended
    BY DEF Unattended
  <2> QED
    BY <2>2, <2>3 DEF NotAttempting
<1>2. CASE FinalizeLock(r)
  <2>1. req[r].pc \in Attempting
    BY <1>2 DEF FinalizeLock, At, Attempting
  <2> DEFINE p == req[r].p
             x == [pc |-> "finalize.read", p |-> p, required |-> db.period[p].required]
  <2>2. p \in Periods /\ x.pc = "finalize.read" /\ x.p = p
    BY <2>1, PlaceForms
  <2>3. \/ /\ db' = [db EXCEPT !.period[p].lock = r] /\ Goes(r, x)
           /\ db.period[p].status = "closed"
        \/ db' = db /\ Goes(r, Done)
    BY <1>2 DEF FinalizeLock, Lockable
  <2> HIDE DEF x, p
  <2>4. CASE db' = [db EXCEPT !.period[p].lock = r] /\ Goes(r, x) /\ db.period[p].status = "closed"
    <3>1. OnlyPeriods(db, db')
      BY <2>2, <2>4, LockEffect
    <3>2. db'.period[p].status = "closed"
      BY <2>2, <2>4, <3>1 DEF OnlyPeriods, PeriodsMove, PeriodMoves
    <3>3. req'[r].pc = "finalize.read" /\ req'[r].p = p
      BY <2>2, <2>4
    <3> QED
      BY <1>2, <3>1, <3>2, <3>3 DEF TakesLock
  <2>5. CASE db' = db /\ Goes(r, Done)
    BY <2>5, ReleaseUnwatched, SamePeriods DEF NotAttempting
  <2> QED
    BY <2>3, <2>4, <2>5
<1>3. CASE FinalizeRead(r)
  <2> DEFINE p == req[r].p
             read == SelectedIn(db, p)
             drop == {i \in read : db.sel[i].student \in Incomplete(db, req[r].required, read)}
             keep == read \ drop
             c == IF drop = {} THEN "finalize.course" ELSE "finalize.drop"
  <2>1. /\ req[r].pc = "finalize.read" /\ db' = db
        /\ Goes(r, [pc |-> c, p |-> p, drop |-> drop, keep |-> keep])
    BY <1>3 DEF FinalizeRead, At
  <2>2. read \subseteq drop \cup keep
    OBVIOUS
  <2>3. c = "finalize.drop" \/ (c = "finalize.course" /\ drop = {})
    OBVIOUS
  <2> HIDE DEF c, drop, keep
  <2>4. req'[r] = [pc |-> c, p |-> p, drop |-> drop, keep |-> keep]
    BY <2>1
  <2> QED
    BY <1>3, <2>1, <2>2, <2>3, <2>4 DEF Reads
<1>4. CASE \E i \in SelectionIds : FinalizeReturnSeat(r, i)
  <2>1. PICK i \in SelectionIds : FinalizeReturnSeat(r, i)
    BY <1>4
  <2>2. /\ req[r].pc = "finalize.seats" /\ i \in req[r].drop
        /\ db' = ReturnSeat(db, db.sel[i].discipline)
    BY <2>1 DEF FinalizeReturnSeat, At
  <2> DEFINE c == IF req[r].drop = {i} THEN "finalize.course" ELSE req[r].pc
             rest == req[r].drop \ {i}
             z == req[r]
             x == [z EXCEPT !.drop = rest, !.pc = c]
  <2>3. Goes(r, x)
    BY <2>1 DEF FinalizeReturnSeat
  <2>4. c \in {"finalize.seats", "finalize.course"}
    BY <2>2
  <2>5. z = [pc |-> z.pc, p |-> z.p, drop |-> z.drop, keep |-> z.keep]
    BY <2>2, PlaceForms DEF Deciding
  <2> HIDE DEF c, rest
  <2>6. x.pc = c /\ x.p = z.p /\ x.keep = z.keep
    <3> HIDE DEF z
    <3> QED
      BY <2>5
  <2> HIDE DEF x
  <2>7. \E d \in Disciplines : OnlyDiscipline(db, d, db')
    <3>1. db.sel[i].discipline \in Disciplines
      BY <2>2, Present DEF Fits, Deciding
    <3> QED
      BY <2>2, <3>1, ReturnSeatEffect
  <2> QED
    BY <2>2, <2>3, <2>4, <2>6, <2>7 DEF ReturnsASeat
<1>5. CASE \E k \in Rolls : FinalizeCourse(r, k)
  <2>1. PICK k \in Rolls : FinalizeCourse(r, k)
    BY <1>5
  <2> DEFINE y == [pc |-> "finalize.assignment", p |-> req[r].p, drop |-> {}, keep |-> req[r].keep, k |-> k]
  <2>2. req[r].pc = "finalize.course" /\ db' = db /\ (Goes(r, Released(r)) \/ Goes(r, y))
    BY <2>1 DEF FinalizeCourse, At
  <2>3. y.pc = "finalize.assignment" /\ y.p = req[r].p /\ y.keep = req[r].keep
    OBVIOUS
  <2> HIDE DEF y
  <2> QED
    BY <2>2, <2>3, ReleaseUnwatched, SamePeriods DEF Looks, NotAttempting
<1>6. CASE FinalizeFindAssignment(r)
  <2> DEFINE y == [req[r] EXCEPT !.pc = "finalize.upsert"]
  <2>1. /\ req[r].pc = "finalize.assignment" /\ db' = db
        /\ Goes(r, Released(r)) \/ (Goes(r, y) /\ ~RollTaken(db, req[r].k, req[r].p))
    BY <1>6 DEF FinalizeFindAssignment, At
  <2>2. y = [pc |-> "finalize.upsert", p |-> req[r].p, drop |-> req[r].drop, keep |-> req[r].keep,
             k |-> req[r].k]
    BY <2>1, PlaceForms DEF Enrolling
  <2> HIDE DEF y
  <2>3. y.pc = "finalize.upsert" /\ y.p = req[r].p /\ y.keep = req[r].keep /\ y.k = req[r].k
    BY <2>2
  <2> QED
    BY <2>1, <2>3, ReleaseUnwatched, SamePeriods DEF Looks, NotAttempting
<1>7. CASE FinalizeUpsertAssignment(r)
  <2> DEFINE students == {db.sel[i].student : i \in InBucket(req[r].keep, req[r].k)}
             y == [req[r] EXCEPT !.pc = "finalize.enrol"]
  <2>1. /\ req[r].pc = "finalize.upsert" /\ Goes(r, y)
        /\ db' = AddToRoll(db, req[r].k, req[r].p, students)
    BY <1>7 DEF FinalizeUpsertAssignment, At
  <2>2. y = [pc |-> "finalize.enrol", p |-> req[r].p, drop |-> req[r].drop, keep |-> req[r].keep,
             k |-> req[r].k]
    BY <2>1, PlaceForms DEF Enrolling
  <2> HIDE DEF y
  <2>3. y.pc = "finalize.enrol" /\ y.p = req[r].p /\ y.keep = req[r].keep /\ y.k = req[r].k
    BY <2>2
  <2>4. students \in SUBSET Students /\ req[r].p \in Periods /\ req[r].k \in Rolls
    BY <2>1, PlaceForms, Present DEF InBucket, Fits, Enrolling
  <2> HIDE DEF students
  <2>5. /\ db' \in Database /\ db'.disc = db.disc /\ db'.period = db.period /\ db'.sel = db.sel
        /\ db'.roll[req[r].k].period = req[r].p
        /\ db'.roll[req[r].k].students = db.roll[req[r].k].students \cup students
        /\ \A l \in Rolls \ {req[r].k} : db'.roll[l] = db.roll[l]
    BY <2>1, <2>4, AddToRollEffect
  <2>6. req'[r] = y
    BY <2>1
  <2>7. WritesRoll(r)
    BY <1>7, <2>1, <2>3, <2>5, <2>6 DEF WritesRoll, students
  <2> QED
    BY <2>7
<1>8. CASE FinalizeCommit(r)
  <2>1. req[r].pc = "finalize.course" /\ req[r].keep = {} /\ req[r].p \in Periods
    BY <1>8, PlaceForms DEF FinalizeCommit, At, Deciding
  <2>2. \/ db' = MarkFinalized(db, req[r].p) /\ Goes(r, Done)
        \/ db' = db /\ Goes(r, Released(r))
    BY <1>8 DEF FinalizeCommit
  <2>3. CASE db' = MarkFinalized(db, req[r].p) /\ Goes(r, Done)
    BY <2>1, <2>3, MarkFinalizedEffect, ReleaseUnwatched DEF Ends
  <2> QED
    BY <2>1, <2>2, <2>3, ReleaseUnwatched, SamePeriods DEF NotAttempting
<1>9. CASE FinalizeFails(r)
  BY <1>9, ReleaseUnwatched, SamePeriods DEF FinalizeFails, NotAttempting
<1>10. CASE FinalizeRelease(r)
  <2>1. req[r].p \in Periods /\ Goes(r, Done)
    BY <1>10, PlaceForms DEF FinalizeRelease, At, Attempting
  <2>2. \/ db' = [db EXCEPT !.period[req[r].p].lock = NoRequest]
        \/ db' = db
    BY <1>10 DEF FinalizeRelease
  <2>3. OnlyPeriods(db, [db EXCEPT !.period[req[r].p].lock = NoRequest])
    BY <2>1, LockEffect
  <2> QED
    BY <2>1, <2>2, <2>3, ReleaseUnwatched, SamePeriods DEF NotAttempting
<1> QED
  BY <1>1, <1>2, <1>3, <1>4, <1>5, <1>6, <1>7, <1>8, <1>9, <1>10 DEF Finalize

----
(* A finalized period leaves nothing undecided. *)

\* No choice is inserted into a period that has closed since the student's request found it open.
\* Without transactions nothing but speed ensures that: the period is read two statements earlier.
InsertInTime(r, i) == SelectCreate(r, i) => db.period[req[r].p].status = "active"

ChoicesInTime == [][\A r \in Requests, i \in SelectionIds : InsertInTime(r, i)]_vars

\* An attempt has read every choice of its period that is still undecided, and there will be no more.
Undecided(x, D) ==
  /\ x.pc \in Watched => D.period[x.p].status \in {"closed", "finalized"}
  /\ x.pc \in Deciding \cup Enrolling =>
       \A i \in SelectionIds : D.sel[i].status = "selected" /\ D.sel[i].period = x.p =>
         i \in x.keep \/ (x.pc = "finalize.drop" /\ i \in x.drop)

Settled(D) == \A i \in SelectionIds :
                D.sel[i].status = "selected" => D.period[D.sel[i].period].status # "finalized"

SettledInv == Core /\ Settled(db) /\ \A r \in Requests : Undecided(req[r], db)

\* What is undecided after a step was undecided before it, or has just been chosen in an open period.
FewerUndecided(D, E) ==
  \A i \in SelectionIds : E.sel[i].status = "selected" =>
    \/ D.sel[i].status = "selected" /\ E.sel[i].period = D.sel[i].period
    \/ D.period[E.sel[i].period].status = "active"

LEMMA UndecidedSteps ==
  ASSUME Core, [Next]_vars, [\A r \in Requests, i \in SelectionIds : InsertInTime(r, i)]_vars
  PROVE  FewerUndecided(db, db')
<1>1. CASE db'.sel = db.sel
  BY <1>1 DEF FewerUndecided
<1>2. CASE \E r \in Requests, i \in SelectionIds :
             SelectCreate(r, i) /\ db.sel[i].status = "absent" /\ OnlySelections(db, {i}, "selected", db')
  <2>1. PICK r \in Requests, i \in SelectionIds :
               SelectCreate(r, i) /\ db.sel[i].status = "absent" /\ OnlySelections(db, {i}, "selected", db')
    BY <1>2
  <2>2. db'.sel[i].status = "selected" /\ db' # db
    BY <2>1 DEF OnlySelections
  <2>3. db'.sel[i].period = req[r].p /\ db.period[req[r].p].status = "active"
    BY <2>1, <2>2, CreateWrites DEF vars, InsertInTime
  <2> QED
    BY <2>1, <2>3 DEF FewerUndecided, OnlySelections
<1>3. CASE Cancels(db, db')
  BY <1>3 DEF Cancels, OnlySelections, FewerUndecided
<1>4. CASE \E r \in Requests : \E hit \in SUBSET InBucket(req[r].keep, req[r].k) :
             FinalizeEnrol(r) /\ OnlySelections(db, hit, "enrolled", db')
  BY <1>4 DEF OnlySelections, FewerUndecided
<1> QED
  BY <1>1, <1>2, <1>3, <1>4, SelectionSteps

\* What an attempt knows stays true while others work.
LEMMA UndecidedStays ==
  ASSUME NEW x \in Places, NEW D \in Database, NEW E, Undecided(x, D), FewerUndecided(D, E),
         \A p \in Periods : D.period[p].status \in {"closed", "finalized"} =>
                              E.period[p].status \in {"closed", "finalized"}
  PROVE  Undecided(x, E)
<1>1. x.pc \in Watched => x.p \in Periods
  BY PlaceForms DEF Watched, Attempting, Deciding, Enrolling
<1>2. \A c \in Deciding \cup Enrolling : c \in Watched
  BY DEF Watched
<1> QED
  BY <1>1, <1>2 DEF Undecided, FewerUndecided

LEMMA PeriodsOnlyEnd ==
  ASSUME Core, [Next]_vars
  PROVE  \/ PeriodsMove(db, db')
         \/ \E r \in Requests : Finalize(r) /\ Ends(r)
<1>1. ASSUME NEW r \in Requests, Finalize(r)
      PROVE  PeriodsMove(db, db') \/ Ends(r)
  BY <1>1, AttemptSteps, DropWrites, EnrolWrites
     DEF NotAttempting, TakesLock, Reads, ReturnsASeat, Looks, WritesRoll, OnlyPeriods, OnlyDiscipline,
         OnlySelections, PeriodsMove, PeriodMoves
<1>2. ASSUME NEW r \in Requests, Crash(r)
      PROVE  PeriodsMove(db, db')
  BY <1>2 DEF Crash, PeriodsMove, PeriodMoves
<1>3. CASE Elsewhere
  BY <1>3, ElsewhereEffect DEF OnlyPeriods
<1> QED
  BY <1>1, <1>2, <1>3, HandlersMovePeriods DEF Next, Elsewhere

\* A step of a request moves no other request.
LEMMA OneMoves ==
  ASSUME Core, NEW r \in Requests, Select(r) \/ Withdraw(r) \/ Cancel(r) \/ Finalize(r) \/ Manage(r) \/ Crash(r)
  PROVE  (\A q \in Requests \ {r} : req'[q] = req[q]) /\ (~crashed' => ~crashed)
<1>1. ASSUME NEW x, Goes(r, x)
      PROVE  (\A q \in Requests \ {r} : req'[q] = req[q]) /\ (~crashed' => ~crashed)
  BY <1>1, GoesTo
<1>2. Select(r) => \E x : Goes(r, x)
  BY DEF Select,
         SelectBegin, SelectReadPeriod, SelectReadQuota, SelectReserve, SelectCreate, SelectCreateFails, SelectUndo
<1>3. Withdraw(r) => \E x : Goes(r, x)
  BY DEF Withdraw,
         WithdrawBegin, WithdrawCancel, WithdrawSeat
<1>4. Cancel(r) => \E x : Goes(r, x)
  BY DEF Cancel,
         CancelBegin, CancelCheckPeriods, CancelFlip, CancelCascade
<1>5. Finalize(r) => \E x : Goes(r, x)
  BY DEF Finalize,
         FinalizeBegin, FinalizeLock, FinalizeRead, FinalizeDrop, FinalizeReturnSeat, FinalizeCourse, FinalizeFindAssignment, FinalizeUpsertAssignment, FinalizeEnrol, FinalizeCommit, FinalizeFails, FinalizeRelease
<1>6. CASE Crash(r)
  BY <1>6 DEF Crash, Core
<1>7. CASE Manage(r)
  BY <1>7, ManageCore
<1> QED
  BY <1>1, <1>2, <1>3, <1>4, <1>5, <1>6, <1>7

LEMMA SettledStep ==
  ASSUME SettledInv, [Next]_vars, [\A r \in Requests, i \in SelectionIds : InsertInTime(r, i)]_vars
  PROVE  SettledInv'
<1>1. Core /\ Core' /\ db \in Database /\ db' \in Database /\ FewerUndecided(db, db')
  BY StepCore, UndecidedSteps DEF SettledInv, Core, TypeOK
<1>2. /\ \A i \in SelectionIds : db'.sel[i].status = "selected" => db'.sel[i].period \in Periods
      /\ \A q \in Requests : req[q] \in Places
      /\ \A q \in Requests : req[q].pc \in Deciding => req[q].p \in Periods
  BY <1>1, SelectedArePresent, Present, CoreFacts, PlaceForms
<1>3. CASE PeriodsMove(db, db')
  <2>1. Settled(db')
    BY <1>1, <1>2, <1>3 DEF SettledInv, Settled, FewerUndecided, PeriodsMove, PeriodMoves
  <2>2. \A x \in Places : Undecided(x, db) => Undecided(x, db')
    BY <1>1, <1>3, UndecidedStays DEF PeriodsMove, PeriodMoves
  <2>3. ASSUME NEW q \in Requests, req'[q] = req[q] \/ req'[q].pc \notin Watched
        PROVE  Undecided(req'[q], db')
    BY <1>2, <2>2, <2>3 DEF SettledInv, Undecided, Watched
  <2>4. ASSUME NEW r \in Requests, Select(r) \/ Withdraw(r) \/ Cancel(r) \/ Finalize(r) \/ Manage(r) \/ Crash(r),
               NEW q \in Requests \ {r}
        PROVE  req'[q] = req[q]
    BY <1>1, <2>4, OneMoves
  <2>5. ASSUME NEW r \in Requests, Finalize(r)
        PROVE  Undecided(req'[r], db')
    <3>1. CASE NotAttempting(r)
      BY <2>3, <3>1, UnattendedPlaces DEF NotAttempting
    <3>2. CASE TakesLock(r)
      BY <3>2 DEF TakesLock, Undecided, Deciding, Enrolling
    <3>3. CASE Reads(r)
      BY <1>2, <3>3 DEF SettledInv, Reads, Undecided, SelectedIn, Watched, Deciding, Enrolling
    <3>4. CASE ReturnsASeat(r)
      BY <1>2, <2>2, <3>4 DEF SettledInv, ReturnsASeat, Undecided, Watched, Deciding, Enrolling
    <3>5. CASE Looks(r)
      BY <1>2, <3>5 DEF SettledInv, Looks, Undecided, Watched, Deciding, Enrolling
    <3>6. CASE WritesRoll(r)
      BY <1>2, <2>2, <3>6 DEF SettledInv, WritesRoll, Undecided, Watched, Deciding, Enrolling
    <3>7. CASE Ends(r)
      BY <2>3, <3>7, UnattendedPlaces DEF Ends
    <3>8. CASE FinalizeDrop(r)
      <4> DEFINE ids == {i \in SelectedIn(db, req[r].p) :
                           db.sel[i].student \in {db.sel[j].student : j \in req[r].drop}}
                 y == [pc |-> "finalize.seats", p |-> req[r].p, drop |-> req[r].drop, keep |-> req[r].keep]
      <4>1. OnlySelections(db, ids, "cancelled", db') /\ Goes(r, y)
        BY <1>1, <3>8, DropWrites
      <4>2. req[r].pc = "finalize.drop"
        BY <3>8 DEF FinalizeDrop, At
      <4>3. ASSUME NEW i \in SelectionIds, db'.sel[i].status = "selected", db'.sel[i].period = req[r].p
            PROVE  i \in req[r].keep
        <5>1. i \notin ids /\ db'.sel[i] = db.sel[i]
          BY <4>1, <4>3 DEF OnlySelections
        <5>2. i \in SelectedIn(db, req[r].p) /\ i \notin req[r].drop
          BY <4>3, <5>1 DEF SelectedIn
        <5>3. i \in req[r].keep \/ i \in req[r].drop
          BY <4>2, <5>2 DEF SettledInv, Undecided, SelectedIn, Deciding
        <5> QED
          BY <5>2, <5>3
      <4>4. db'.period[req[r].p].status \in {"closed", "finalized"}
        BY <4>1, <4>2 DEF SettledInv, Undecided, OnlySelections, Watched, Deciding
      <4>5. req'[r] = y
        BY <1>1, <4>1, GoesTo
      <4> QED
        BY <4>3, <4>4, <4>5 DEF Undecided
    <3>9. CASE FinalizeEnrol(r)
      <4> DEFINE mine == InBucket(req[r].keep, req[r].k)
                 y == [pc |-> "finalize.course", p |-> req[r].p, drop |-> {}, keep |-> req[r].keep \ mine]
      <4>1. PICK hit \in SUBSET mine :
                   /\ OnlySelections(db, hit, "enrolled", db')
                   /\ Goes(r, Released(r)) \/ (hit = mine /\ Goes(r, y))
        BY <1>1, <3>9, EnrolWrites
      <4>2. CASE Goes(r, Released(r))
        BY <1>1, <2>3, <4>2, ReleaseUnwatched, UnattendedPlaces
      <4>3. CASE hit = mine /\ Goes(r, y)
        <5>1. req[r].pc = "finalize.enrol"
          BY <3>9 DEF FinalizeEnrol, At
        <5>2. db'.period[req[r].p].status \in {"closed", "finalized"}
          BY <4>1, <5>1 DEF SettledInv, Undecided, OnlySelections, Watched, Enrolling
        <5>3. ASSUME NEW i \in SelectionIds, db'.sel[i].status = "selected", db'.sel[i].period = req[r].p
              PROVE  i \in req[r].keep \ mine
          <6>1. i \notin mine /\ db'.sel[i] = db.sel[i]
            BY <4>1, <4>3, <5>3 DEF OnlySelections
          <6> HIDE DEF mine
          <6> QED
            BY <5>1, <5>3, <6>1 DEF SettledInv, Undecided, Enrolling
        <5>4. req'[r] = y
          BY <1>1, <4>3, GoesTo
        <5> QED
          BY <5>2, <5>3, <5>4 DEF Undecided
      <4> QED
        BY <4>1, <4>2, <4>3
    <3> QED
      BY <1>1, <2>5, <3>1, <3>2, <3>3, <3>4, <3>5, <3>6, <3>7, <3>8, <3>9, AttemptSteps
  <2>6. ASSUME NEW r \in Requests, Select(r) \/ Withdraw(r) \/ Cancel(r) \/ Manage(r) \/ Crash(r)
        PROVE  Undecided(req'[r], db')
    <3>1. req'[r].pc \notin Watched
      BY <1>1, <2>6, HandlersMovePeriods, CrashCore DEF Done, Watched, Deciding, Enrolling
    <3> QED
      BY <2>3, <3>1
  <2>7. ASSUME NEW q \in Requests
        PROVE  Undecided(req'[q], db')
    <3>1. CASE Elsewhere
      BY <1>1, <2>3, <3>1, ElsewhereEffect
    <3>2. ASSUME NEW r \in Requests, Select(r) \/ Withdraw(r) \/ Cancel(r) \/ Finalize(r) \/ Manage(r) \/ Crash(r)
          PROVE  Undecided(req'[q], db')
      BY <2>3, <2>4, <2>5, <2>6, <3>2
    <3> QED
      BY <3>1, <3>2 DEF Next, Elsewhere
  <2> QED
    BY <1>1, <2>1, <2>7 DEF SettledInv
<1>4. CASE \E r \in Requests : Finalize(r) /\ Ends(r)
  <2>1. PICK r \in Requests : Finalize(r) /\ Ends(r)
    BY <1>4
  <2>2. /\ req[r].pc = "finalize.course" /\ req[r].keep = {} /\ db'.sel = db.sel
        /\ \A q \in Periods \ {req[r].p} : db'.period[q] = db.period[q]
        /\ db'.period[req[r].p].status \in {db.period[req[r].p].status, "finalized"}
    BY <2>1 DEF Ends
  <2>3. \A i \in SelectionIds : db.sel[i].status = "selected" => db.sel[i].period # req[r].p
    BY <2>2 DEF SettledInv, Undecided, Deciding
  <2>4. Settled(db')
    BY <1>2, <2>2, <2>3 DEF SettledInv, Settled
  <2>5. \A p \in Periods : db.period[p].status \in {"closed", "finalized"} =>
                              db'.period[p].status \in {"closed", "finalized"}
    BY <2>2
  <2>6. ASSUME NEW q \in Requests
        PROVE  Undecided(req'[q], db')
    <3>1. CASE q = r
      BY <2>1, <3>1, UnattendedPlaces DEF Ends, Undecided, Watched
    <3>2. CASE q # r
      BY <1>1, <1>2, <2>1, <2>5, <3>2, OneMoves, UndecidedStays DEF SettledInv
    <3> QED
      BY <3>1, <3>2
  <2> QED
    BY <1>1, <2>4, <2>6 DEF SettledInv
<1> QED
  BY <1>1, <1>3, <1>4, PeriodsOnlyEnd

\* A finalized period leaves no selection undecided, whichever attempt finished it: attempts that
\* fail, die, are retried or are overtaken after the lock's 15 minutes included.  Only a choice
\* inserted after its period closed could be left over.
THEOREM PeriodsSettle == ChosenSpec /\ ChoicesInTime => []FinalizedPeriodSettled
<1>1. ChosenInit => SettledInv
  <2> SUFFICES ASSUME ChosenInit PROVE SettledInv
    OBVIOUS
  <2>1. Core /\ \A p \in Periods : db.period[p].status \in {"draft", "active"}
    BY InitCore, ChosenFacts DEF ChosenInit
  <2>2. \A i \in SelectionIds : db.sel[i].status = "selected" => db.sel[i].period \in Periods
    BY <2>1, SelectedArePresent, Present DEF Core, TypeOK
  <2>3. \A r \in Requests : req[r] = Idle /\ Idle.pc \notin Watched
    BY DEF ChosenInit, NothingUnderWay, Idle, Watched, Deciding, Enrolling
  <2> QED
    BY <2>1, <2>2, <2>3 DEF SettledInv, Settled, Undecided, Watched
<1>2. SettledInv /\ [Next]_vars /\ [\A r \in Requests, i \in SelectionIds : InsertInTime(r, i)]_vars
        => SettledInv'
  BY SettledStep
<1>3. SettledInv => FinalizedPeriodSettled
  BY DEF SettledInv, Settled, FinalizedPeriodSettled
<1> QED
  BY <1>1, <1>2, <1>3, PTL DEF ChosenSpec, ChoicesInTime

----
(* Nobody is enrolled who is not on the roll of the course. *)

\* An upsert finds the assignment as the check before it did: free, or of the attempt's own period.
\* Its filter does not name the period, so without transactions two periods that share a discipline
\* and a group can both pass the check, and the second upsert takes the first one's assignment over.
UpsertInTurn(r) == FinalizeUpsertAssignment(r) => ~RollTaken(db, req[r].k, req[r].p)

UpsertsInTurn == [][\A r \in Requests : UpsertInTurn(r)]_vars

\* Whom an attempt is about to enrol is on the roll, which is its period's.
OnRoll(x, D) ==
  x.pc = "finalize.enrol" =>
    /\ D.roll[x.k].period = x.p
    /\ \A i \in x.keep : BucketOf(D.sel[i]) = x.k => D.sel[i].student \in D.roll[x.k].students

HasEntry(D, i) == /\ D.roll[BucketOf(D.sel[i])].period = D.sel[i].period
                  /\ D.sel[i].student \in D.roll[BucketOf(D.sel[i])].students

RollsInv ==
  /\ Core
  /\ \A i \in SelectionIds : db.sel[i].status = "enrolled" => HasEntry(db, i)
  /\ \A r \in Requests : OnRoll(req[r], db)

LEMMA RollSteps ==
  ASSUME Core, [Next]_vars
  PROVE  db'.roll = db.roll \/ \E r \in Requests : Finalize(r) /\ WritesRoll(r)
<1>1. ASSUME NEW r \in Requests, Finalize(r)
      PROVE  db'.roll = db.roll \/ WritesRoll(r)
  BY <1>1, AttemptSteps, DropWrites, EnrolWrites
     DEF NotAttempting, TakesLock, Reads, ReturnsASeat, Looks, Ends, OnlyPeriods, OnlyDiscipline,
         OnlySelections
<1>2. ASSUME NEW r \in Requests, Crash(r)
      PROVE  db'.roll = db.roll
  BY <1>2 DEF Crash
<1>3. CASE Elsewhere
  BY <1>3, ElsewhereEffect DEF OnlyPeriods
<1> QED
  BY <1>1, <1>2, <1>3, HandlersMovePeriods DEF Next, Elsewhere

LEMMA SelectionsKept ==
  ASSUME Core, [Next]_vars
  PROVE  Kept(db, db')
<1>1. db'.sel = db.sel => Kept(db, db')
  BY KeptSame
<1>2. CASE \E r \in Requests, i \in SelectionIds :
             SelectCreate(r, i) /\ db.sel[i].status = "absent" /\ OnlySelections(db, {i}, "selected", db')
  BY <1>2 DEF OnlySelections
<1>3. CASE Cancels(db, db')
  BY <1>3 DEF Cancels, OnlySelections
<1>4. CASE \E r \in Requests : \E hit \in SUBSET InBucket(req[r].keep, req[r].k) :
             FinalizeEnrol(r) /\ OnlySelections(db, hit, "enrolled", db')
  BY <1>4 DEF OnlySelections
<1> QED
  BY <1>1, <1>2, <1>3, <1>4, SelectionSteps

LEMMA NewEnrolments ==
  ASSUME Core, [Next]_vars, NEW i \in SelectionIds, db'.sel[i].status = "enrolled"
  PROVE  \/ db.sel[i].status = "enrolled"
         \/ \E r \in Requests : FinalizeEnrol(r) /\ i \in InBucket(req[r].keep, req[r].k)
BY SelectionSteps DEF Cancels, OnlySelections

\* Only an upsert takes an attempt to where it enrols.
LEMMA EnrolsAfterUpsert ==
  ASSUME Core, [Next]_vars, NEW q \in Requests
  PROVE  \/ req'[q] = req[q]
         \/ req'[q].pc # "finalize.enrol"
         \/ Finalize(q) /\ WritesRoll(q)
<1>1. ASSUME NEW r \in Requests, Finalize(r)
      PROVE  req'[r].pc # "finalize.enrol" \/ WritesRoll(r)
  <2>1. CASE FinalizeDrop(r)
    <3>1. req'[r] = [pc |-> "finalize.seats", p |-> req[r].p, drop |-> req[r].drop, keep |-> req[r].keep]
      BY <2>1, DropWrites, GoesTo
    <3> QED
      BY <3>1
  <2>2. CASE FinalizeEnrol(r)
    <3> DEFINE y == [pc |-> "finalize.course", p |-> req[r].p, drop |-> {},
                     keep |-> req[r].keep \ InBucket(req[r].keep, req[r].k)]
    <3>1. Goes(r, Released(r)) \/ Goes(r, y)
      BY <2>2, EnrolWrites
    <3>2. Released(r).pc # "finalize.enrol" /\ y.pc # "finalize.enrol"
      BY DEF Released
    <3> HIDE DEF y
    <3> QED
      BY <3>1, <3>2, GoesTo
  <2> QED
    BY <1>1, <2>1, <2>2, AttemptSteps, UnattendedPlaces
       DEF NotAttempting, TakesLock, Reads, ReturnsASeat, Looks, Ends, Watched, Enrolling
<1>2. ASSUME NEW r \in Requests, Select(r) \/ Withdraw(r) \/ Cancel(r) \/ Manage(r) \/ Crash(r)
      PROVE  req'[r].pc # "finalize.enrol"
  BY <1>2, HandlersMovePeriods, CrashCore DEF Done, Watched, Enrolling
<1>3. ASSUME NEW r \in Requests, Select(r) \/ Withdraw(r) \/ Cancel(r) \/ Finalize(r) \/ Manage(r) \/ Crash(r)
      PROVE  q # r => req'[q] = req[q]
  BY <1>3, OneMoves
<1>4. CASE Elsewhere
  BY <1>4, ElsewhereEffect
<1> QED
  BY <1>1, <1>2, <1>3, <1>4 DEF Next, Elsewhere

LEMMA RollsStep ==
  ASSUME RollsInv, [Next]_vars, [\A r \in Requests : UpsertInTurn(r)]_vars
  PROVE  RollsInv'
<1>1. Core /\ Core' /\ db \in Database /\ Kept(db, db')
  BY StepCore, SelectionsKept DEF RollsInv, Core, TypeOK
<1>2. ASSUME NEW i \in SelectionIds, db.sel[i] \in Selection
      PROVE  /\ BucketOf(db'.sel[i]) = BucketOf(db.sel[i]) /\ BucketOf(db.sel[i]) \in Rolls
             /\ db'.sel[i].student = db.sel[i].student /\ db'.sel[i].period = db.sel[i].period
             /\ db.sel[i].period \in Periods
  BY <1>1, <1>2, Present DEF Kept, SameChoice, BucketOf
<1>3. ASSUME NEW q \in Requests, req[q].pc = "finalize.enrol" \/ req[q].pc = "finalize.upsert"
      PROVE  /\ req[q].p \in Periods /\ req[q].k \in Rolls
             /\ \A i \in req[q].keep : i \in SelectionIds /\ db.sel[i] \in Selection /\ db.sel[i].period = req[q].p
  BY <1>1, <1>3, CoreFacts, PlaceForms DEF Fits, Enrolling
<1>4. \A i \in SelectionIds : db.sel[i].status = "enrolled" => db.sel[i] \in Selection /\ HasEntry(db, i)
  BY <1>1, Present DEF RollsInv
<1>5. CASE db'.roll = db.roll /\ ~\E r \in Requests : Finalize(r) /\ WritesRoll(r)
  <2>1. ASSUME NEW i \in SelectionIds, db.sel[i] \in Selection, HasEntry(db, i)
        PROVE  HasEntry(db', i)
    BY <1>2, <1>5, <2>1 DEF HasEntry
  <2>2. ASSUME NEW i \in SelectionIds, db'.sel[i].status = "enrolled"
        PROVE  HasEntry(db', i)
    <3>1. CASE db.sel[i].status = "enrolled"
      BY <1>4, <2>1, <3>1
    <3>2. ASSUME NEW r \in Requests, FinalizeEnrol(r), i \in InBucket(req[r].keep, req[r].k)
          PROVE  HasEntry(db', i)
      <4>1. req[r].pc = "finalize.enrol" /\ i \in req[r].keep /\ BucketOf(db.sel[i]) = req[r].k
        BY <3>2 DEF FinalizeEnrol, At, InBucket
      <4>2. db.sel[i] \in Selection /\ db.sel[i].period = req[r].p
        BY <1>3, <4>1
      <4>3. HasEntry(db, i)
        BY <4>1, <4>2 DEF RollsInv, OnRoll, HasEntry
      <4> QED
        BY <2>1, <4>2, <4>3
    <3> QED
      BY <1>1, <2>2, <3>1, <3>2, NewEnrolments
  <2>3. ASSUME NEW q \in Requests
        PROVE  OnRoll(req'[q], db')
    <3>1. CASE req'[q] = req[q]
      BY <1>2, <1>3, <1>5, <3>1 DEF RollsInv, OnRoll
    <3>2. CASE req'[q].pc # "finalize.enrol"
      BY <3>2 DEF OnRoll
    <3> QED
      BY <1>1, <1>5, <3>1, <3>2, EnrolsAfterUpsert
  <2> QED
    BY <1>1, <2>2, <2>3 DEF RollsInv
<1>6. CASE \E r \in Requests : Finalize(r) /\ WritesRoll(r)
  <2>1. PICK r \in Requests : Finalize(r) /\ WritesRoll(r)
    BY <1>6
  <2> DEFINE k == req[r].k
             p == req[r].p
  <2>2. /\ db'.sel = db.sel /\ FinalizeUpsertAssignment(r) /\ req[r].pc = "finalize.upsert"
        /\ db'.roll[k].period = p /\ db.roll[k].students \subseteq db'.roll[k].students
        /\ \A i \in InBucket(req[r].keep, k) : db.sel[i].student \in db'.roll[k].students
        /\ \A l \in Rolls \ {k} : db'.roll[l] = db.roll[l]
        /\ req'[r].pc = "finalize.enrol"
        /\ req'[r].p = p /\ req'[r].keep = req[r].keep /\ req'[r].k = k
    BY <2>1 DEF WritesRoll
  <2>3. k \in Rolls /\ p \in Periods /\ vars' # vars
    BY <1>3, <2>2 DEF vars
  <2>4. db.roll[k].period \in {p, NoPeriod}
    BY <2>2, <2>3 DEF UpsertInTurn, RollTaken
  <2> HIDE DEF k, p
  <2>5. ASSUME NEW i \in SelectionIds, db'.sel[i].status = "enrolled"
        PROVE  HasEntry(db', i)
    <3>1. db.sel[i] \in Selection /\ HasEntry(db, i) /\ db'.sel[i] = db.sel[i]
      BY <1>4, <2>2, <2>5
    <3>2. db.sel[i].period # NoPeriod
      BY <1>2, <3>1, NullAssumption
    <3> QED
      BY <1>2, <2>2, <2>4, <3>1, <3>2 DEF HasEntry
  <2>6. ASSUME NEW q \in Requests, q # r
        PROVE  OnRoll(req'[q], db')
    <3>1. req'[q] = req[q]
      BY <1>1, <2>1, <2>6, OneMoves
    <3> SUFFICES ASSUME req[q].pc = "finalize.enrol" PROVE OnRoll(req[q], db')
      BY <3>1 DEF OnRoll
    <3>2. /\ req[q].p \in Periods /\ req[q].k \in Rolls /\ db.roll[req[q].k].period = req[q].p
          /\ \A i \in req[q].keep : BucketOf(db.sel[i]) = req[q].k =>
                                      db.sel[i].student \in db.roll[req[q].k].students
      BY <1>3 DEF RollsInv, OnRoll
    <3>3. req[q].p # NoPeriod
      BY <3>2, NullAssumption
    <3> QED
      BY <2>2, <2>4, <3>2, <3>3 DEF OnRoll
  <2>7. OnRoll(req'[r], db')
    BY <2>2 DEF OnRoll, InBucket
  <2> QED
    BY <1>1, <2>5, <2>6, <2>7 DEF RollsInv
<1> QED
  BY <1>1, <1>5, <1>6, RollSteps

\* Finalization attempts that fail half-way, die, are retried or are overtaken after the lock's 15
\* minutes never enrol anyone who is not on the roll of the course, for the period of the choice.
\* Only an upsert that takes over an assignment written since the attempt checked it could break that.
THEOREM EnrolmentsHaveEntries == ChosenSpec /\ UpsertsInTurn => []EnrolledAreOnRoll
<1>1. ChosenInit => RollsInv
  <2> SUFFICES ASSUME ChosenInit PROVE RollsInv
    OBVIOUS
  <2>1. Core /\ \A i \in SelectionIds : db.sel[i].status # "enrolled"
    BY InitCore, ChosenFacts DEF ChosenInit
  <2>2. \A r \in Requests : req[r] = Idle /\ Idle.pc # "finalize.enrol"
    BY DEF ChosenInit, NothingUnderWay, Idle
  <2> QED
    BY <2>1, <2>2 DEF RollsInv, OnRoll
<1>2. RollsInv /\ [Next]_vars /\ [\A r \in Requests : UpsertInTurn(r)]_vars => RollsInv'
  BY RollsStep
<1>3. RollsInv => EnrolledAreOnRoll
  BY DEF RollsInv, HasEntry, EnrolledAreOnRoll
<1> QED
  BY <1>1, <1>2, <1>3, PTL DEF ChosenSpec, UpsertsInTurn

\* With a single period every upsert is in turn, and the theorem needs no condition.
LEMMA SinglePeriodInTurn ==
  ASSUME Core, \A p, q \in Periods : p = q, NEW r \in Requests
  PROVE  UpsertInTurn(r)
<1>1. ASSUME req[r].pc = "finalize.upsert"
      PROVE  req[r].p \in Periods /\ db.roll[req[r].k].period \in Periods \cup {NoPeriod}
  BY <1>1, CoreFacts, PlaceForms, DocumentTypes DEF Enrolling, RollEntry
<1> QED
  BY <1>1 DEF UpsertInTurn, FinalizeUpsertAssignment, At, RollTaken

COROLLARY SinglePeriodEnrolments ==
  ASSUME \A p, q \in Periods : p = q
  PROVE  ChosenSpec => []EnrolledAreOnRoll
<1>1. Core => \A r \in Requests : UpsertInTurn(r)
  BY SinglePeriodInTurn
<1>2. []Core => UpsertsInTurn
  BY <1>1, PTL DEF UpsertsInTurn
<1> QED
  BY <1>2, CoreInductive, EnrolmentsHaveEntries, PTL

----
(* Requests run only the handlers they may run. *)

FinalizePlaces == Attempting \cup Deciding \cup Enrolling

JobInv ==
  /\ Core
  /\ \A r \in Requests : /\ req[r].pc \in SelectPlaces => "select" \in Job[r]
                         /\ req[r].pc \in FinalizePlaces => "finalize" \in Job[r]

LEMMA PcChanges == \A x \in Places : \A c : [x EXCEPT !.pc = c].pc = c
BY DEF Places

LEMMA GoesOn ==
  ASSUME Core, NEW r \in Requests, NEW c, Goes(r, [req[r] EXCEPT !.pc = c]) \/ Goes(r, Done)
  PROVE  req'[r].pc \in {c, "done"}
<1>1. CASE Goes(r, [req[r] EXCEPT !.pc = c])
  <2> DEFINE y == [req[r] EXCEPT !.pc = c]
  <2>1. y.pc = c
    BY CoreFacts, PcChanges
  <2>2. Goes(r, y)
    BY <1>1
  <2> HIDE DEF y
  <2> QED
    BY <2>1, <2>2, GoesTo
<1>2. CASE Goes(r, Done)
  BY <1>2, GoesTo DEF Done
<1> QED
  BY <1>1, <1>2

LEMMA SelectJob ==
  ASSUME Core, NEW r \in Requests, Select(r)
  PROVE  /\ req[r].pc \in SelectPlaces \/ "select" \in Job[r]
         /\ req'[r].pc \in SelectPlaces \cup {"done"}
<1> USE CoreFacts, GoesTo DEF SelectPlaces, Choosing, Reserving, At
<1>0. Done.pc = "done"
  BY DEF Done
<1>1. CASE \E s \in Students, p \in Periods, d \in Disciplines : SelectBegin(r, s, p, d)
  BY <1>1 DEF SelectBegin, Begins
<1>2. CASE SelectReadPeriod(r)
  BY <1>0, <1>2 DEF SelectReadPeriod
<1>3. CASE SelectReadQuota(r)
  BY <1>0, <1>3 DEF SelectReadQuota
<1>4. CASE SelectReserve(r)
  <2>1. Goes(r, Done) \/ Goes(r, [req[r] EXCEPT !.pc = "select.create"])
    BY <1>4 DEF SelectReserve
  <2> QED
    BY <1>4, <2>1, GoesOn DEF SelectReserve
<1>5. CASE \E i \in SelectionIds : SelectCreate(r, i)
  BY <1>0, <1>5, CreateWrites DEF SelectCreate
<1>6. CASE SelectCreateFails(r)
  BY <1>6 DEF SelectCreateFails
<1>7. CASE SelectUndo(r)
  BY <1>0, <1>7 DEF SelectUndo
<1> QED
  BY <1>1, <1>2, <1>3, <1>4, <1>5, <1>6, <1>7 DEF Select

LEMMA OthersJob ==
  ASSUME Core, NEW r \in Requests, Withdraw(r) \/ Cancel(r) \/ Manage(r)
  PROVE  req'[r].pc \notin SelectPlaces \cup FinalizePlaces
<1> USE CoreFacts, GoesTo
<1>0. \A c \in Withdrawing \cup Cancelling \cup Managing \cup {"done"} : c \notin SelectPlaces \cup FinalizePlaces
  BY DEF SelectPlaces, Choosing, Reserving, FinalizePlaces, Attempting, Deciding, Enrolling, Withdrawing,
         Cancelling, Managing
<1>1. Done.pc = "done" /\ \A c, i : [pc |-> c, i |-> i].pc = c
  BY DEF Done
<1>2. CASE \E i \in SelectionIds : WithdrawBegin(r, i)
  BY <1>0, <1>2 DEF WithdrawBegin, Withdrawing
<1>3. CASE WithdrawCancel(r)
  <2>1. Goes(r, Done) \/ Goes(r, [req[r] EXCEPT !.pc = "withdraw.seat"])
    BY <1>3 DEF WithdrawCancel
  <2> QED
    BY <1>0, <2>1, GoesOn DEF Withdrawing
<1>4. CASE WithdrawSeat(r)
  BY <1>0, <1>1, <1>4 DEF WithdrawSeat
<1>5. CASE \E d \in Disciplines : CancelBegin(r, d)
  BY <1>0, <1>5 DEF CancelBegin, Cancelling
<1>6. CASE CancelCheckPeriods(r)
  <2>1. Goes(r, Done) \/ Goes(r, [req[r] EXCEPT !.pc = "cancel.flip"])
    BY <1>6 DEF CancelCheckPeriods
  <2> QED
    BY <1>0, <2>1, GoesOn DEF Cancelling
<1>7. CASE CancelFlip(r)
  <2>1. Goes(r, Done) \/ Goes(r, [req[r] EXCEPT !.pc = "cancel.cascade"])
    BY <1>7 DEF CancelFlip
  <2> QED
    BY <1>0, <2>1, GoesOn DEF Cancelling
<1>8. CASE CancelCascade(r)
  BY <1>0, <1>1, <1>8 DEF CancelCascade
<1>9. CASE Manage(r)
  BY <1>0, <1>9, ManageCore
<1> QED
  BY <1>2, <1>3, <1>4, <1>5, <1>6, <1>7, <1>8, <1>9 DEF Withdraw, Cancel

LEMMA FinalizeJob ==
  ASSUME Core, NEW r \in Requests, Finalize(r)
  PROVE  /\ req[r].pc \in FinalizePlaces \/ (req[r].pc = "idle" /\ "finalize" \in Job[r])
         /\ req'[r].pc \in FinalizePlaces \cup {"done"}
<1> USE CoreFacts, GoesTo
<1>0. /\ \A c \in Watched : c \in FinalizePlaces
      /\ \A c \in Unattended : c \in FinalizePlaces \cup {"done"}
      /\ Finalizing \subseteq FinalizePlaces
      /\ "finalize.lock" \in FinalizePlaces /\ "finalize.release" \in FinalizePlaces
  BY DEF FinalizePlaces, Attempting, Deciding, Enrolling, Watched, Unattended, Finalizing
<1>1. Done.pc = "done" /\ Released(r).pc = "finalize.release"
  BY DEF Done, Released
<1>2. CASE \E p \in Periods : FinalizeBegin(r, p)
  BY <1>0, <1>2 DEF FinalizeBegin, Begins, At
<1>3. ASSUME ~ \E p \in Periods : FinalizeBegin(r, p)
      PROVE  req[r].pc \in FinalizePlaces
  BY <1>0, <1>3 DEF Finalize, FinalizeLock, FinalizeRead, FinalizeDrop, FinalizeReturnSeat, FinalizeCourse,
         FinalizeFindAssignment, FinalizeUpsertAssignment, FinalizeEnrol, FinalizeCommit, FinalizeFails,
         FinalizeRelease, At, Watched, Deciding, Enrolling
<1>4. req'[r].pc \in FinalizePlaces \cup {"done"}
  <2>1. CASE FinalizeDrop(r)
    <3>1. req'[r] = [pc |-> "finalize.seats", p |-> req[r].p, drop |-> req[r].drop, keep |-> req[r].keep]
      BY <2>1, DropWrites
    <3> QED
      BY <1>0, <3>1 DEF Watched, Deciding
  <2>2. CASE FinalizeEnrol(r)
    <3> DEFINE y == [pc |-> "finalize.course", p |-> req[r].p, drop |-> {},
                     keep |-> req[r].keep \ InBucket(req[r].keep, req[r].k)]
    <3>1. Goes(r, Released(r)) \/ Goes(r, y)
      BY <2>2, EnrolWrites
    <3>2. y.pc = "finalize.course"
      OBVIOUS
    <3> HIDE DEF y
    <3> QED
      BY <1>0, <1>1, <3>1, <3>2 DEF Watched, Deciding
  <2> QED
    BY <1>0, <2>1, <2>2, AttemptSteps
       DEF NotAttempting, TakesLock, Reads, ReturnsASeat, Looks, WritesRoll, Ends, Watched, Deciding, Enrolling
<1> QED
  BY <1>2, <1>3, <1>4 DEF FinalizeBegin, Begins, At

LEMMA JobStep ==
  ASSUME JobInv, [Next]_vars
  PROVE  JobInv'
<1>1. Core /\ Core'
  BY StepCore DEF JobInv
<1>2. ASSUME NEW r \in Requests, Select(r) \/ Withdraw(r) \/ Cancel(r) \/ Finalize(r) \/ Manage(r) \/ Crash(r),
             NEW q \in Requests
      PROVE  /\ req'[q].pc \in SelectPlaces => "select" \in Job[q]
             /\ req'[q].pc \in FinalizePlaces => "finalize" \in Job[q]
  <2>0. /\ "done" \notin FinalizePlaces \cup SelectPlaces
        /\ \A c \in SelectPlaces : c \notin FinalizePlaces
    BY DEF FinalizePlaces, SelectPlaces, Choosing, Reserving, Attempting, Deciding, Enrolling
  <2>1. CASE q # r
    BY <1>1, <1>2, <2>1, OneMoves DEF JobInv
  <2>2. CASE q = r /\ Select(r)
    BY <1>1, <2>0, <2>2, SelectJob DEF JobInv
  <2>3. CASE q = r /\ (Withdraw(r) \/ Cancel(r) \/ Manage(r))
    BY <1>1, <2>3, OthersJob
  <2>4. CASE q = r /\ Finalize(r)
    BY <1>1, <2>0, <2>4, FinalizeJob DEF JobInv
  <2>5. CASE q = r /\ Crash(r)
    BY <1>1, <2>0, <2>5, CrashCore DEF Done
  <2> QED
    BY <1>2, <2>1, <2>2, <2>3, <2>4, <2>5
<1>3. CASE Elsewhere
  BY <1>1, <1>3, ElsewhereEffect DEF JobInv
<1> QED
  BY <1>1, <1>2, <1>3 DEF JobInv, Next, Elsewhere

LEMMA JobInductive == ChosenSpec => []JobInv
<1>1. ChosenInit => JobInv
  <2> SUFFICES ASSUME ChosenInit PROVE JobInv
    OBVIOUS
  <2>1. \A r \in Requests : req[r] = Idle /\ Idle.pc = "idle"
    BY DEF ChosenInit, NothingUnderWay, Idle
  <2>2. "idle" \notin FinalizePlaces \cup SelectPlaces
    BY DEF FinalizePlaces, SelectPlaces, Choosing, Reserving, Attempting, Deciding, Enrolling
  <2> QED
    BY <2>1, <2>2, InitCore DEF JobInv
<1> QED
  BY <1>1, JobStep, PTL DEF ChosenSpec

\* When the students' time to choose is over, every choice is in time.
COROLLARY NobodyChoosingSettles ==
  ASSUME \A r \in Requests : "select" \notin Job[r]
  PROVE  ChosenSpec => []FinalizedPeriodSettled
<1>1. JobInv => \A r \in Requests, i \in SelectionIds : InsertInTime(r, i)
  BY DEF JobInv, InsertInTime, SelectCreate, At, SelectPlaces, Reserving
<1>2. []JobInv => ChoicesInTime
  BY <1>1, PTL DEF ChoicesInTime
<1> QED
  BY <1>2, JobInductive, PeriodsSettle, PTL

----
(* Seats. *)

\* A request has reserved a seat of discipline d that it has neither filled nor returned, or has
\* cancelled a selection whose seat it has yet to return.
Holds(x, D, d) ==
  \/ x.pc \in {"select.create", "select.undo"} /\ x.d = d
  \/ x.pc = "withdraw.seat" /\ D.sel[x.i].discipline = d

Holders(R, D, d) == {r \in Requests : Holds(R[r], D, d)}

\* The selections an attempt has dropped (or found dropped) whose seats it has yet to return.
Owes(x, D, d) ==
  {i \in SelectionIds : x.pc = "finalize.seats" /\ i \in x.drop /\ D.sel[i].discipline = d}

Debts(R, D, d) == {t \in Requests \X SelectionIds : t[2] \in Owes(R[t[1]], D, d)}

\* What a step of request r does to the seats of discipline d.
SameSeats(d) == db'.disc[d] = db.disc[d] /\ SeatsOf(db', d) = SeatsOf(db, d)

SameHold(r, d) == Holds(req'[r], db', d) <=> Holds(req[r], db, d)

Counts(d, n) == /\ db'.disc[d].status = db.disc[d].status
                /\ db'.disc[d].capacity = db.disc[d].capacity /\ db'.disc[d].enrolled = n

Reserves(r, d) ==
  /\ HasFreeSeat(db, d) /\ Counts(d, db.disc[d].enrolled + 1) /\ SeatsOf(db', d) = SeatsOf(db, d)
  /\ ~Holds(req[r], db, d) /\ Holds(req'[r], db', d)

Fills(r, d) ==
  /\ db'.disc[d] = db.disc[d]
  /\ \E i \in SelectionIds \ SeatsOf(db, d) : SeatsOf(db', d) = SeatsOf(db, d) \cup {i}
  /\ Holds(req[r], db, d) /\ ~Holds(req'[r], db', d)

Returns(r, d) ==
  /\ Counts(d, Less(db.disc[d].enrolled, 1)) /\ SeatsOf(db', d) = SeatsOf(db, d)
  /\ Holds(req[r], db, d) /\ ~Holds(req'[r], db', d)

Leaves(r, d) ==
  /\ db'.disc[d] = db.disc[d]
  /\ \E i \in SeatsOf(db, d) : SeatsOf(db', d) = SeatsOf(db, d) \ {i}
  /\ ~Holds(req[r], db, d) /\ Holds(req'[r], db', d)

Stops(r, d) == db'.disc[d].status = "cancelled" /\ SameHold(r, d)

\* An edit in time: whatever it makes of the discipline, the seats given stay within its capacity.
Adjusts(r, d) ==
  /\ SeatsOf(db', d) = SeatsOf(db, d) /\ SameHold(r, d)
  /\ db'.disc[d].enrolled = db.disc[d].enrolled
  /\ db'.disc[d].status # "cancelled" => db.disc[d].status # "cancelled"
  /\ db.disc[d].enrolled <= db.disc[d].capacity => db'.disc[d].enrolled <= db'.disc[d].capacity

LEMMA SameSelectionsSameSeats ==
  ASSUME NEW D, NEW E, E.sel = D.sel, NEW d
  PROVE  SeatsOf(E, d) = SeatsOf(D, d)
BY DEF SeatsOf

LEMMA SelectSeats ==
  ASSUME Core, NEW r \in Requests, Select(r), NEW d \in Disciplines
  PROVE  (SameSeats(d) /\ SameHold(r, d)) \/ Reserves(r, d) \/ Fills(r, d) \/ Returns(r, d)
<1> USE CoreFacts, GoesTo
<1>0. \A D, e : ~Holds(Done, D, e)
  BY DEF Done, Holds
<1>1. CASE \E s \in Students, p \in Periods, e \in Disciplines : SelectBegin(r, s, p, e)
  <2>1. PICK s \in Students, p \in Periods, e \in Disciplines : SelectBegin(r, s, p, e)
    BY <1>1
  <2>2. /\ req[r].pc = "idle" /\ db'.disc = db.disc /\ db'.sel = db.sel
        /\ req'[r] = [pc |-> "select.period", s |-> s, p |-> p, d |-> e]
    BY <2>1, CloseExpiredEffect DEF SelectBegin, Begins, At, OnlyPeriods
  <2>3. SeatsOf(db', d) = SeatsOf(db, d)
    BY <2>2, SameSelectionsSameSeats
  <2> QED
    BY <2>2, <2>3 DEF SameSeats, SameHold, Holds
<1>2. CASE SelectReadPeriod(r)
  <2>1. req[r].pc = "select.period" /\ req'[r].pc \in {"select.quota", "done"} /\ db' = db
    BY <1>2 DEF SelectReadPeriod, At, Done
  <2> QED
    BY <2>1 DEF SameSeats, SameHold, Holds
<1>3. CASE SelectReadQuota(r)
  <2>1. req[r].pc = "select.quota" /\ req'[r].pc \in {"select.reserve", "done"} /\ db' = db
    BY <1>3 DEF SelectReadQuota, At, Done
  <2> QED
    BY <2>1 DEF SameSeats, SameHold, Holds
<1>4. CASE SelectReserve(r)
  <2> DEFINE y == [req[r] EXCEPT !.pc = "select.create"]
  <2>1. req[r].pc = "select.reserve" /\ req[r].d \in Disciplines
    BY <1>4, PlaceForms DEF SelectReserve, At, Reserving
  <2>2. y.pc = "select.create" /\ y.d = req[r].d
    <3>1. y = [pc |-> "select.create", s |-> req[r].s, p |-> req[r].p, d |-> req[r].d, slots |-> req[r].slots]
      BY <2>1, PlaceForms DEF Reserving
    <3> HIDE DEF y
    <3> QED
      BY <3>1
  <2>3. \/ HasFreeSeat(db, req[r].d) /\ db' = TakeSeat(db, req[r].d) /\ Goes(r, y)
        \/ db' = db /\ Goes(r, Done)
    BY <1>4 DEF SelectReserve
  <2> HIDE DEF y
  <2>4. CASE db' = db /\ Goes(r, Done)
    BY <1>0, <2>1, <2>4 DEF SameSeats, SameHold, Holds
  <2>5. CASE HasFreeSeat(db, req[r].d) /\ db' = TakeSeat(db, req[r].d) /\ Goes(r, y)
    <3>1. /\ OnlyDiscipline(db, req[r].d, db') /\ db'.disc[req[r].d].status = db.disc[req[r].d].status
          /\ db'.disc[req[r].d].capacity = db.disc[req[r].d].capacity
          /\ db'.disc[req[r].d].enrolled = db.disc[req[r].d].enrolled + 1
      BY <2>1, <2>5, TakeSeatEffect
    <3>2. SeatsOf(db', d) = SeatsOf(db, d) /\ req'[r] = y
      BY <2>5, <3>1, SameSelectionsSameSeats DEF OnlyDiscipline
    <3>3. CASE d = req[r].d
      BY <2>1, <2>2, <2>5, <3>1, <3>2, <3>3 DEF Reserves, Counts, Holds
    <3>4. CASE d # req[r].d
      BY <2>1, <2>2, <3>1, <3>2, <3>4 DEF SameSeats, SameHold, Holds, OnlyDiscipline
    <3> QED
      BY <3>3, <3>4
  <2> QED
    BY <2>3, <2>4, <2>5
<1>5. CASE \E i \in SelectionIds : SelectCreate(r, i)
  <2>1. PICK i \in SelectionIds : SelectCreate(r, i)
    BY <1>5
  <2>2. req[r].pc = "select.create"
    BY <2>1 DEF SelectCreate, At
  <2>3. CASE db' = db /\ \E y \in Places : Goes(r, y) /\ y.pc = "select.create" /\ y.d = req[r].d
    BY <2>2, <2>3 DEF SameSeats, SameHold, Holds
  <2>4. CASE /\ db.sel[i].status = "absent" /\ Goes(r, Done)
             /\ OnlySelections(db, {i}, "selected", db')
             /\ db'.sel[i].discipline = req[r].d /\ db'.sel[i].period = req[r].p
    <3>1. /\ \A j \in SelectionIds \ {i} : db'.sel[j] = db.sel[j]
          /\ IsActive(db'.sel[i]) /\ db'.sel[i].discipline = req[r].d /\ ~IsActive(db.sel[i])
          /\ db'.disc = db.disc /\ req'[r] = Done
      BY <2>4 DEF OnlySelections, IsActive
    <3>2. CASE d = req[r].d
      <4>1. SeatsOf(db', d) = SeatsOf(db, d) \cup {i} /\ i \notin SeatsOf(db, d)
        BY <3>1, <3>2 DEF SeatsOf
      <4> QED
        BY <1>0, <2>2, <3>1, <3>2, <4>1 DEF Fills, Holds
    <3>3. CASE d # req[r].d
      <4>1. SeatsOf(db', d) = SeatsOf(db, d)
        BY <3>1, <3>3 DEF SeatsOf
      <4> QED
        BY <1>0, <2>2, <3>1, <3>3, <4>1 DEF SameSeats, SameHold, Holds
    <3> QED
      BY <3>2, <3>3
  <2> QED
    BY <2>1, <2>3, <2>4, CreateWrites
<1>6. CASE SelectCreateFails(r)
  <2>1. /\ req[r].pc = "select.create" /\ db' = db
        /\ req'[r] = [pc |-> "select.undo", d |-> req[r].d]
    BY <1>6 DEF SelectCreateFails, At
  <2> QED
    BY <2>1 DEF SameSeats, SameHold, Holds
<1>7. CASE SelectUndo(r)
  <2>1. req[r].pc = "select.undo" /\ req[r].d \in Disciplines /\ req'[r] = Done
        /\ db' = ReturnSeat(db, req[r].d)
    BY <1>7, PlaceForms DEF SelectUndo, At
  <2>2. /\ OnlyDiscipline(db, req[r].d, db') /\ db'.disc[req[r].d].status = db.disc[req[r].d].status
        /\ db'.disc[req[r].d].capacity = db.disc[req[r].d].capacity
        /\ db'.disc[req[r].d].enrolled = Less(db.disc[req[r].d].enrolled, 1)
    BY <2>1, ReturnSeatEffect
  <2>3. SeatsOf(db', d) = SeatsOf(db, d)
    BY <2>2, SameSelectionsSameSeats DEF OnlyDiscipline
  <2>4. CASE d = req[r].d
    BY <1>0, <2>1, <2>2, <2>3, <2>4 DEF Returns, Counts, Holds
  <2>5. CASE d # req[r].d
    BY <1>0, <2>1, <2>2, <2>3, <2>5 DEF SameSeats, SameHold, Holds, OnlyDiscipline
  <2> QED
    BY <2>4, <2>5
<1> QED
  BY <1>1, <1>2, <1>3, <1>4, <1>5, <1>6, <1>7 DEF Select

LEMMA WithdrawSeats ==
  ASSUME Core, NEW r \in Requests, Withdraw(r), NEW d \in Disciplines
  PROVE  (SameSeats(d) /\ SameHold(r, d)) \/ Returns(r, d) \/ Leaves(r, d)
<1> USE CoreFacts, GoesTo
<1>0. \A D, e : ~Holds(Done, D, e)
  BY DEF Done, Holds
<1>1. CASE \E i \in SelectionIds : WithdrawBegin(r, i)
  <2>1. req[r].pc = "idle" /\ req'[r].pc = "withdraw.cancel" /\ db' = db
    BY <1>1 DEF WithdrawBegin, Begins, At
  <2> QED
    BY <2>1 DEF SameSeats, SameHold, Holds
<1>2. CASE WithdrawCancel(r)
  <2> DEFINE i == req[r].i
             y == [pc |-> "withdraw.seat", i |-> i]
  <2>1. req[r].pc = "withdraw.cancel" /\ y.pc = "withdraw.seat" /\ y.i = i
    BY <1>2 DEF WithdrawCancel, At
  <2>2. /\ i \in SelectionIds /\ db.sel[i] \in Selection
        /\ \/ /\ db.sel[i].status = "selected" /\ OnlySelections(db, {i}, "cancelled", db')
              /\ Goes(r, y)
           \/ db' = db /\ Goes(r, Done)
    BY <1>2, WithdrawWrites
  <2> HIDE DEF i, y
  <2>3. CASE db' = db /\ Goes(r, Done)
    BY <1>0, <2>1, <2>3 DEF SameSeats, SameHold, Holds
  <2>4. CASE db.sel[i].status = "selected" /\ OnlySelections(db, {i}, "cancelled", db') /\ Goes(r, y)
    <3>1. /\ \A j \in SelectionIds \ {i} : db'.sel[j] = db.sel[j]
          /\ ~IsActive(db'.sel[i]) /\ db'.sel[i].discipline = db.sel[i].discipline /\ IsActive(db.sel[i])
          /\ db'.disc = db.disc /\ req'[r] = y
      BY <2>2, <2>4 DEF OnlySelections, IsActive, Kept, SameChoice
    <3>2. CASE d = db.sel[i].discipline
      <4>1. SeatsOf(db', d) = SeatsOf(db, d) \ {i} /\ i \in SeatsOf(db, d)
        BY <2>2, <3>1, <3>2 DEF SeatsOf
      <4> QED
        BY <2>1, <3>1, <3>2, <4>1 DEF Leaves, Holds
    <3>3. CASE d # db.sel[i].discipline
      <4>1. SeatsOf(db', d) = SeatsOf(db, d)
        BY <3>1, <3>3 DEF SeatsOf
      <4> QED
        BY <2>1, <3>1, <3>3, <4>1 DEF SameSeats, SameHold, Holds
    <3> QED
      BY <3>2, <3>3
  <2> QED
    BY <2>2, <2>3, <2>4
<1>3. CASE WithdrawSeat(r)
  <2> DEFINE e == db.sel[req[r].i].discipline
  <2>1. req[r].pc = "withdraw.seat" /\ req'[r] = Done /\ db' = ReturnSeat(db, e) /\ e \in Disciplines
    BY <1>3, PlaceForms, Present DEF WithdrawSeat, At, Withdrawing, Fits
  <2>2. /\ OnlyDiscipline(db, e, db') /\ db'.disc[e].status = db.disc[e].status
        /\ db'.disc[e].capacity = db.disc[e].capacity
        /\ db'.disc[e].enrolled = Less(db.disc[e].enrolled, 1)
    BY <2>1, ReturnSeatEffect
  <2>3. SeatsOf(db', d) = SeatsOf(db, d)
    BY <2>2, SameSelectionsSameSeats DEF OnlyDiscipline
  <2>4. CASE d = e
    BY <1>0, <2>1, <2>2, <2>3, <2>4 DEF Returns, Counts, Holds
  <2>5. CASE d # e
    BY <1>0, <2>1, <2>2, <2>3, <2>5 DEF SameSeats, SameHold, Holds, OnlyDiscipline
  <2> QED
    BY <2>4, <2>5
<1> QED
  BY <1>1, <1>2, <1>3 DEF Withdraw

\* A discipline is cancelled from the moment its cancellation is recorded.
CascadesAfterFlip ==
  \A r \in Requests : req[r].pc = "cancel.cascade" => db.disc[req[r].d].status = "cancelled"

LEMMA CancelSeats ==
  ASSUME Core, CascadesAfterFlip, NEW r \in Requests, Cancel(r), NEW d \in Disciplines
  PROVE  (SameSeats(d) /\ SameHold(r, d)) \/ Stops(r, d)
<1> USE CoreFacts, GoesTo
<1>0. \A D, x, e : x.pc \in Cancelling \cup {"idle", "done"} => ~Holds(x, D, e)
  BY DEF Holds, Cancelling
<1>1. Done.pc = "done"
  BY DEF Done
<1>2. CASE \E e \in Disciplines : CancelBegin(r, e)
  <2>1. req[r].pc = "idle" /\ req'[r].pc = "cancel.periods" /\ db' = db
    BY <1>2 DEF CancelBegin, Begins, At
  <2> QED
    BY <2>1 DEF SameSeats, SameHold, Holds
<1>3. CASE CancelCheckPeriods(r)
  <2>1. Goes(r, Done) \/ Goes(r, [req[r] EXCEPT !.pc = "cancel.flip"])
    BY <1>3 DEF CancelCheckPeriods
  <2>2. req[r].pc = "cancel.periods" /\ req'[r].pc \in {"cancel.flip", "done"} /\ db' = db
    BY <1>3, <2>1, GoesOn DEF CancelCheckPeriods, At
  <2> QED
    BY <2>2 DEF SameSeats, SameHold, Holds
<1>4. CASE CancelFlip(r)
  <2>1. Goes(r, Done) \/ Goes(r, [req[r] EXCEPT !.pc = "cancel.cascade"])
    BY <1>4 DEF CancelFlip
  <2>2. req[r].pc = "cancel.flip" /\ req'[r].pc \in {"cancel.cascade", "done"} /\ req[r].d \in Disciplines
    BY <1>4, <2>1, GoesOn, PlaceForms DEF CancelFlip, At, Cancelling
  <2>3. SameHold(r, d)
    BY <2>2 DEF SameHold, Holds
  <2>4. db' = db \/ db' = FlipDisciplineCancelled(db, req[r].d)
    BY <1>4 DEF CancelFlip
  <2>5. CASE db' = FlipDisciplineCancelled(db, req[r].d)
    <3>1. OnlyDiscipline(db, req[r].d, db') /\ db'.disc[req[r].d].status = "cancelled"
      BY <2>2, <2>5, FlipEffect
    <3>2. SeatsOf(db', d) = SeatsOf(db, d)
      BY <3>1, SameSelectionsSameSeats DEF OnlyDiscipline
    <3> QED
      BY <2>3, <3>1, <3>2 DEF SameSeats, Stops, OnlyDiscipline
  <2> QED
    BY <2>3, <2>4, <2>5 DEF SameSeats
<1>5. CASE CancelCascade(r)
  <2>1. /\ req[r].pc = "cancel.cascade" /\ req'[r] = Done
        /\ OnlySelections(db, SelectedOf(db, req[r].d), "cancelled", db')
    BY <1>5, CascadeWrites DEF CancelCascade, At
  <2>2. SameHold(r, d) /\ db'.disc = db.disc
    BY <1>0, <1>1, <2>1 DEF SameHold, OnlySelections, Cancelling
  <2>3. CASE d = req[r].d
    BY <2>1, <2>2, <2>3 DEF CascadesAfterFlip, Stops
  <2>4. CASE d # req[r].d
    <3>1. ASSUME NEW i \in SelectionIds
          PROVE  i \in SeatsOf(db', d) <=> i \in SeatsOf(db, d)
      <4>1. CASE i \in SelectedOf(db, req[r].d)
        BY <2>1, <2>4, <4>1, SelectedArePresent
           DEF SelectedOf, SeatsOf, OnlySelections, Kept, SameChoice
      <4>2. CASE i \notin SelectedOf(db, req[r].d)
        BY <2>1, <4>2 DEF SeatsOf, OnlySelections
      <4> QED
        BY <4>1, <4>2
    <3>2. SeatsOf(db', d) = SeatsOf(db, d)
      BY <3>1 DEF SeatsOf
    <3> QED
      BY <2>2, <3>2 DEF SameSeats
  <2> QED
    BY <2>3, <2>4
<1> QED
  BY <1>2, <1>3, <1>4, <1>5 DEF Cancel

LEMMA ManageSeats ==
  ASSUME Core, NEW r \in Requests, Manage(r), [SavesInTime]_vars, NEW d \in Disciplines
  PROVE  Adjusts(r, d)
<1>1. Edits(r) /\ EditsInTime(r)
  BY ManageInTime
<1>2. SeatsOf(db', d) = SeatsOf(db, d)
  BY <1>1, SameSelectionsSameSeats DEF Edits
<1>3. req[r].pc \in Managing \cup {"idle"} /\ req'[r].pc \in Managing \cup {"done"}
  BY <1>1, ManageCore DEF Edits
<1>4. SameHold(r, d)
  BY <1>3 DEF SameHold, Holds, Managing
<1>5. db'.disc[d].enrolled = db.disc[d].enrolled
  BY <1>1 DEF Edits
<1>6. /\ db'.disc[d].status # "cancelled" => db.disc[d].status # "cancelled"
      /\ db.disc[d].enrolled <= db.disc[d].capacity => db'.disc[d].enrolled <= db'.disc[d].capacity
  BY <1>1 DEF EditsInTime
<1> QED
  BY <1>2, <1>4, <1>5, <1>6 DEF Adjusts

\* Every seat that is held, by a selection or by a request, is counted.  One that is counted and held
\* by nobody was lost by a request that died, or by an attempt at finalization that failed or
\* dropped more than it had read.
Balance(R, D, leaky, d) ==
  LET held == Cardinality(SeatsOf(D, d)) + Cardinality(Holders(R, D, d)) + Cardinality(Debts(R, D, d))
  IN  /\ IsFiniteSet(Holders(R, D, d)) /\ IsFiniteSet(Debts(R, D, d))
      /\ D.disc[d].status # "cancelled" =>
           /\ held <= D.disc[d].enrolled /\ D.disc[d].enrolled <= D.disc[d].capacity
           /\ ~leaky => held = D.disc[d].enrolled

Leaky == crashed \/ \E r \in Requests : "finalize" \in Job[r]

SeatsInv ==
  /\ JobInv
  /\ CascadesAfterFlip
  /\ \A d \in Disciplines : Balance(req, db, Leaky, d)

Dies(r, d) == SameSeats(d) /\ ~Holds(req'[r], db', d) /\ Leaky'

LEMMA BalanceStep ==
  ASSUME NEW d \in Disciplines, NEW r \in Requests, db \in Database, db' \in Database,
         Balance(req, db, Leaky, d), ~Leaky' => ~Leaky,
         \A q \in Requests \ {r} : Holds(req'[q], db', d) <=> Holds(req[q], db, d),
         Debts(req', db', d) \subseteq Debts(req, db, d),
         Debts(req', db', d) = Debts(req, db, d) \/ Leaky',
         \/ SameSeats(d) /\ SameHold(r, d)
         \/ Reserves(r, d) \/ Fills(r, d) \/ Returns(r, d) \/ Leaves(r, d) \/ Stops(r, d) \/ Adjusts(r, d)
         \/ Dies(r, d)
  PROVE  Balance(req', db', Leaky', d)
<1> DEFINE H == Holders(req, db, d)
           K == Holders(req', db', d)
           S == SeatsOf(db, d)
           T == SeatsOf(db', d)
           B == Debts(req, db, d)
           C == Debts(req', db', d)
<1>1. /\ IsFiniteSet(S) /\ Cardinality(S) \in Nat /\ IsFiniteSet(H) /\ Cardinality(H) \in Nat
      /\ IsFiniteSet(T) /\ Cardinality(T) \in Nat
  <2>1. S \subseteq SelectionIds /\ T \subseteq SelectionIds /\ IsFiniteSet(H)
    BY DEF SeatsOf, Balance
  <2> HIDE DEF S, T, H
  <2> QED
    BY <2>1, FiniteAssumption, FS_Subset, FS_CardinalityType
<1>2. /\ db.disc[d].enrolled \in Nat /\ db.disc[d].capacity \in Nat
      /\ db'.disc[d].enrolled \in Nat /\ db'.disc[d].capacity \in Nat
  BY DocumentTypes, BoundsAssumption
<1>3. /\ Holds(req[r], db, d) <=> r \in H
      /\ Holds(req'[r], db', d) <=> r \in K
      /\ \A q : q # r => (q \in K <=> q \in H)
  BY DEF Holders
<1>4. /\ (r \in H <=> r \in K) => K = H
      /\ r \in H /\ r \notin K => K = H \ {r}
      /\ r \notin H /\ r \in K => K = H \cup {r}
  <2> HIDE DEF H, K
  <2> QED
    BY <1>3
<1>5. db.disc[d].status # "cancelled" =>
        /\ Cardinality(S) + Cardinality(H) + Cardinality(B) <= db.disc[d].enrolled
        /\ db.disc[d].enrolled <= db.disc[d].capacity
        /\ ~Leaky => Cardinality(S) + Cardinality(H) + Cardinality(B) = db.disc[d].enrolled
  BY DEF Balance
<1>0. /\ IsFiniteSet(C) /\ Cardinality(B) \in Nat /\ Cardinality(C) \in Nat
      /\ Cardinality(C) <= Cardinality(B) /\ (~Leaky' => Cardinality(C) = Cardinality(B))
  <2>1. IsFiniteSet(B) /\ C \subseteq B /\ (C = B \/ Leaky')
    BY DEF Balance
  <2> HIDE DEF B, C
  <2> QED
    BY <2>1, FS_Subset, FS_CardinalityType
<1>6. /\ IsFiniteSet(K) /\ Cardinality(K) \in Nat
      /\ r \notin H /\ r \in K => Cardinality(K) = Cardinality(H) + 1
      /\ r \in H /\ r \notin K => Cardinality(H) = Cardinality(K) + 1
  <2> HIDE DEF H, K
  <2> QED
    BY <1>1, <1>4, FS_AddElement, FS_RemoveElement, FS_CardinalityType
<1> SUFFICES ASSUME db'.disc[d].status # "cancelled"
             PROVE  /\ Cardinality(T) + Cardinality(K) + Cardinality(C) <= db'.disc[d].enrolled
                    /\ db'.disc[d].enrolled <= db'.disc[d].capacity
                    /\ ~Leaky' => Cardinality(T) + Cardinality(K) + Cardinality(C) = db'.disc[d].enrolled
  BY <1>0, <1>6 DEF Balance
<1>7. CASE SameSeats(d) /\ SameHold(r, d)
  <2>1. db'.disc[d] = db.disc[d] /\ T = S /\ K = H
    BY <1>3, <1>4, <1>7 DEF SameSeats, SameHold
  <2> HIDE DEF H, K, S, T, B, C
  <2> QED
    BY <1>0, <1>1, <1>2, <1>5, <2>1
<1>8. CASE Reserves(r, d)
  <2>1. /\ T = S /\ r \notin H /\ r \in K /\ db.disc[d].status = "active"
        /\ db.disc[d].enrolled < db.disc[d].capacity
        /\ db'.disc[d].capacity = db.disc[d].capacity
        /\ db'.disc[d].enrolled = db.disc[d].enrolled + 1
    BY <1>3, <1>8 DEF Reserves, HasFreeSeat, Counts
  <2> HIDE DEF H, K, S, T, B, C
  <2> QED
    BY <1>0, <1>1, <1>2, <1>5, <1>6, <2>1
<1>9. CASE Fills(r, d)
  <2>1. /\ r \in H /\ r \notin K /\ db'.disc[d] = db.disc[d]
        /\ \E i : i \notin S /\ T = S \cup {i}
    BY <1>3, <1>9 DEF Fills
  <2> HIDE DEF H, K, S, T, B, C
  <2>2. Cardinality(T) = Cardinality(S) + 1
    BY <1>1, <2>1, FS_AddElement
  <2> QED
    BY <1>0, <1>1, <1>2, <1>5, <1>6, <2>1, <2>2
<1>10. CASE Returns(r, d)
  <2>1. /\ T = S /\ r \in H /\ r \notin K /\ db.disc[d].status # "cancelled"
        /\ db'.disc[d].capacity = db.disc[d].capacity
        /\ db'.disc[d].enrolled = Less(db.disc[d].enrolled, 1)
    BY <1>3, <1>10 DEF Returns, Counts
  <2> HIDE DEF H, K, S, T, B, C
  <2>2. db.disc[d].enrolled >= 1
    BY <1>0, <1>1, <1>2, <1>5, <1>6, <2>1
  <2>3. db'.disc[d].enrolled = db.disc[d].enrolled - 1
    BY <1>2, <2>1, <2>2 DEF Less
  <2> QED
    BY <1>0, <1>1, <1>2, <1>5, <1>6, <2>1, <2>3
<1>11. CASE Leaves(r, d)
  <2>1. /\ r \notin H /\ r \in K /\ db'.disc[d] = db.disc[d]
        /\ \E i : i \in S /\ T = S \ {i}
    BY <1>3, <1>11 DEF Leaves
  <2> HIDE DEF H, K, S, T, B, C
  <2>2. Cardinality(S) = Cardinality(T) + 1
    BY <1>1, <2>1, FS_RemoveElement
  <2> QED
    BY <1>0, <1>1, <1>2, <1>5, <1>6, <2>1, <2>2
<1>12. CASE Stops(r, d)
  BY <1>12 DEF Stops
<1>13. CASE Dies(r, d)
  <2>1. db'.disc[d] = db.disc[d] /\ T = S /\ r \notin K /\ Leaky'
    BY <1>3, <1>13 DEF Dies, SameSeats
  <2> HIDE DEF H, K, S, T, B, C
  <2> QED
    BY <1>0, <1>1, <1>2, <1>4, <1>5, <1>6, <2>1
<1>14. CASE Adjusts(r, d)
  <2>1. /\ T = S /\ K = H /\ db.disc[d].status # "cancelled"
        /\ db'.disc[d].enrolled = db.disc[d].enrolled
        /\ db'.disc[d].enrolled <= db'.disc[d].capacity
    BY <1>3, <1>4, <1>5, <1>14 DEF Adjusts, SameHold
  <2> HIDE DEF H, K, S, T, B, C
  <2> QED
    BY <1>0, <1>1, <1>2, <1>5, <2>1
<1> QED
  BY <1>7, <1>8, <1>9, <1>10, <1>11, <1>12, <1>13, <1>14

LEMMA CascadeBegins ==
  ASSUME Core, NEW r \in Requests, Select(r) \/ Withdraw(r) \/ Cancel(r) \/ Manage(r) \/ Crash(r),
         req'[r].pc = "cancel.cascade"
  PROVE  db'.disc[req'[r].d].status = "cancelled"
<1> USE CoreFacts, GoesTo
<1>1. "cancel.cascade" \notin SelectPlaces \cup Managing \cup {"done"} /\ Done.pc = "done"
  BY DEF SelectPlaces, Choosing, Reserving, Managing, Done
<1>2. ~Select(r) /\ ~Crash(r) /\ ~Manage(r)
  BY <1>1, SelectJob, CrashCore, ManageCore
<1>3. ASSUME Withdraw(r)
      PROVE  FALSE
  <2>1. CASE \E i \in SelectionIds : WithdrawBegin(r, i)
    BY <2>1 DEF WithdrawBegin
  <2>2. CASE WithdrawCancel(r)
    <3>1. Goes(r, Done) \/ Goes(r, [req[r] EXCEPT !.pc = "withdraw.seat"])
      BY <2>2 DEF WithdrawCancel
    <3> QED
      BY <3>1, GoesOn
  <2>3. CASE WithdrawSeat(r)
    BY <1>1, <2>3 DEF WithdrawSeat
  <2> QED
    BY <1>3, <2>1, <2>2, <2>3 DEF Withdraw
<1>4. CASE \E d \in Disciplines : CancelBegin(r, d)
  BY <1>4 DEF CancelBegin
<1>5. CASE CancelCheckPeriods(r)
  <2>1. Goes(r, Done) \/ Goes(r, [req[r] EXCEPT !.pc = "cancel.flip"])
    BY <1>5 DEF CancelCheckPeriods
  <2> QED
    BY <2>1, GoesOn
<1>6. CASE CancelFlip(r)
  <2> DEFINE d == req[r].d
             y == [req[r] EXCEPT !.pc = "cancel.cascade"]
  <2>1. d \in Disciplines /\ y = [pc |-> "cancel.cascade", d |-> d]
    BY <1>6, PlaceForms DEF CancelFlip, At, Cancelling
  <2>2. Goes(r, Done) \/ (Goes(r, y) /\ db' = FlipDisciplineCancelled(db, d))
    BY <1>6 DEF CancelFlip
  <2> HIDE DEF y, d
  <2>3. req'[r] = y /\ db' = FlipDisciplineCancelled(db, d) /\ y.d = d
    BY <1>1, <2>1, <2>2
  <2>4. db'.disc[d].status = "cancelled"
    BY <2>1, <2>3, FlipEffect
  <2> QED
    BY <2>3, <2>4
<1>7. CASE CancelCascade(r)
  BY <1>1, <1>7 DEF CancelCascade
<1> QED
  BY <1>2, <1>3, <1>4, <1>5, <1>6, <1>7 DEF Cancel

\* Nothing else changes what other requests hold and owe.
LEMMA OthersHold ==
  ASSUME Core, Kept(db, db'), NEW q \in Requests, req'[q] = req[q], NEW d
  PROVE  /\ Holds(req'[q], db', d) <=> Holds(req[q], db, d)
         /\ Owes(req'[q], db', d) = Owes(req[q], db, d)
<1>1. Holds(req'[q], db', d) <=> Holds(req[q], db, d)
  BY CoreFacts, PlaceForms DEF Fits, Kept, SameChoice, Holds, Withdrawing
<1>2. ASSUME NEW i \in SelectionIds, req[q].pc = "finalize.seats", i \in req[q].drop
      PROVE  db'.sel[i].discipline = db.sel[i].discipline
  BY <1>2, CoreFacts DEF Fits, Kept, SameChoice, Deciding
<1> QED
  BY <1>1, <1>2 DEF Owes

LEMMA DebtsChange ==
  ASSUME NEW r \in Requests, NEW d,
         \A q \in Requests \ {r} : Owes(req'[q], db', d) = Owes(req[q], db, d)
  PROVE  LET B == Debts(req, db, d)
             C == Debts(req', db', d)
             owed == Owes(req[r], db, d)
             owes == Owes(req'[r], db', d)
         IN  /\ owes \subseteq owed => C \subseteq B
             /\ owes = owed => C = B
             /\ \A i \in owed : owes = owed \ {i} => <<r, i>> \in B /\ C = B \ {<<r, i>>}
             /\ C \subseteq B \cup ({r} \X owes)
<1> DEFINE B == Debts(req, db, d)
           C == Debts(req', db', d)
<1>1. ASSUME NEW q \in Requests, NEW i \in SelectionIds
      PROVE  /\ <<q, i>> \in B <=> i \in Owes(req[q], db, d)
             /\ <<q, i>> \in C <=> i \in Owes(req'[q], db', d)
  BY DEF Debts
<1>2. /\ B \subseteq Requests \X SelectionIds /\ C \subseteq Requests \X SelectionIds
      /\ Owes(req[r], db, d) \subseteq SelectionIds /\ Owes(req'[r], db', d) \subseteq SelectionIds
  BY DEF Debts, Owes
<1> HIDE DEF B, C
<1>3. \A q \in Requests, i \in SelectionIds : q # r => (<<q, i>> \in C <=> <<q, i>> \in B)
  BY <1>1
<1>4. ASSUME Owes(req'[r], db', d) \subseteq Owes(req[r], db, d)
      PROVE  C \subseteq B
  BY <1>1, <1>2, <1>3, <1>4
<1>5. ASSUME Owes(req'[r], db', d) = Owes(req[r], db, d)
      PROVE  C = B
  <2>1. \A q \in Requests, i \in SelectionIds : <<q, i>> \in C <=> <<q, i>> \in B
    BY <1>1, <1>3, <1>5
  <2> QED
    BY <1>2, <2>1
<1>6. ASSUME NEW i \in Owes(req[r], db, d), Owes(req'[r], db', d) = Owes(req[r], db, d) \ {i}
      PROVE  <<r, i>> \in B /\ C = B \ {<<r, i>>}
  <2>1. \A q \in Requests, j \in SelectionIds : <<q, j>> \in C <=> <<q, j>> \in B /\ <<q, j>> # <<r, i>>
    BY <1>1, <1>3, <1>6
  <2>2. i \in SelectionIds /\ <<r, i>> \in B
    BY <1>1, <1>2
  <2> QED
    BY <1>2, <2>1, <2>2
<1>7. C \subseteq B \cup ({r} \X Owes(req'[r], db', d))
  BY <1>1, <1>2, <1>3
<1> QED
  BY <1>4, <1>5, <1>6, <1>7 DEF B, C

\* What a step of an attempt at finalization does to discipline d: the selections of the incomplete
\* sets leave their seats, which the attempt now owes; it returns one of them.
Drops(r, d) ==
  /\ db'.disc[d] = db.disc[d] /\ SeatsOf(db', d) \subseteq SeatsOf(db, d)
  /\ Owes(req'[r], db', d) \subseteq SeatsOf(db, d) \ SeatsOf(db', d)

Repays(r, d) ==
  /\ Counts(d, Less(db.disc[d].enrolled, 1)) /\ SeatsOf(db', d) = SeatsOf(db, d)
  /\ \E i \in Owes(req[r], db, d) : Owes(req'[r], db', d) = Owes(req[r], db, d) \ {i}

LEMMA DebtStep ==
  ASSUME NEW d \in Disciplines, NEW r \in Requests, db \in Database, db' \in Database,
         Balance(req, db, Leaky, d), Leaky', SameHold(r, d),
         \A q \in Requests \ {r} : /\ Holds(req'[q], db', d) <=> Holds(req[q], db, d)
                                   /\ Owes(req'[q], db', d) = Owes(req[q], db, d),
         \/ SameSeats(d) /\ Owes(req'[r], db', d) \subseteq Owes(req[r], db, d)
         \/ Drops(r, d) \/ Repays(r, d) \/ Stops(r, d)
  PROVE  Balance(req', db', Leaky', d)
<1> DEFINE H == Holders(req, db, d)
           S == SeatsOf(db, d)
           T == SeatsOf(db', d)
           B == Debts(req, db, d)
           C == Debts(req', db', d)
           owes == Owes(req'[r], db', d)
<1>1. Holders(req', db', d) = H
  BY DEF Holders, SameHold
<1>2. /\ IsFiniteSet(S) /\ Cardinality(S) \in Nat /\ IsFiniteSet(T) /\ Cardinality(T) \in Nat
      /\ IsFiniteSet(H) /\ Cardinality(H) \in Nat /\ IsFiniteSet(B) /\ Cardinality(B) \in Nat
      /\ IsFiniteSet(owes) /\ Cardinality(owes) \in Nat
  <2>1. S \subseteq SelectionIds /\ T \subseteq SelectionIds /\ owes \subseteq SelectionIds
        /\ IsFiniteSet(H) /\ IsFiniteSet(B)
    BY DEF SeatsOf, Owes, Balance
  <2> HIDE DEF S, T, H, B, owes
  <2> QED
    BY <2>1, FiniteAssumption, FS_Subset, FS_CardinalityType
<1>3. /\ IsFiniteSet({r} \X owes) /\ Cardinality({r} \X owes) = Cardinality(owes)
  <2> HIDE DEF owes
  <2>1. IsFiniteSet({r}) /\ Cardinality({r}) = 1
    BY FS_Singleton
  <2>2. IsFiniteSet({r} \X owes) /\ Cardinality({r} \X owes) = Cardinality({r}) * Cardinality(owes)
    BY <1>2, <2>1, FS_Product
  <2>3. 1 * Cardinality(owes) = Cardinality(owes)
    BY <1>2
  <2> QED
    BY <2>1, <2>2, <2>3
<1>4. /\ owes \subseteq Owes(req[r], db, d) => C \subseteq B
      /\ \A i \in Owes(req[r], db, d) : owes = Owes(req[r], db, d) \ {i} => <<r, i>> \in B /\ C = B \ {<<r, i>>}
      /\ C \subseteq B \cup ({r} \X owes)
  BY DebtsChange
<1>5. /\ IsFiniteSet(C) /\ Cardinality(C) \in Nat
      /\ Cardinality(C) <= Cardinality(B) + Cardinality(owes)
      /\ C \subseteq B => Cardinality(C) <= Cardinality(B)
  <2> DEFINE U == B \cup ({r} \X owes)
  <2>1. C \subseteq U /\ IsFiniteSet(U) /\ Cardinality(U) \in Nat
        /\ Cardinality(U) <= Cardinality(B) + Cardinality(owes)
    <3> DEFINE V == {r} \X owes
    <3>1. IsFiniteSet(V) /\ Cardinality(V) = Cardinality(owes) /\ C \subseteq B \cup V
      BY <1>3, <1>4
    <3> HIDE DEF V, B, C, owes
    <3>2. /\ IsFiniteSet(B \cup V)
          /\ Cardinality(B \cup V) = Cardinality(B) + Cardinality(V) - Cardinality(B \cap V)
      BY <1>2, <3>1, FS_Union
    <3>3. Cardinality(B \cap V) \in Nat /\ Cardinality(B \cup V) \in Nat
      <4>1. B \cap V \subseteq B
        OBVIOUS
      <4>2. IsFiniteSet(B \cap V)
        BY <1>2, <4>1, FS_Subset
      <4> QED
        BY <3>2, <4>2, FS_CardinalityType
    <3> QED
      BY <1>2, <3>1, <3>2, <3>3 DEF V
  <2> HIDE DEF U, B, C, owes
  <2> QED
    BY <1>2, <2>1, FS_Subset, FS_CardinalityType
<1>6. /\ db.disc[d].enrolled \in Nat /\ db.disc[d].capacity \in Nat
      /\ db'.disc[d].enrolled \in Nat /\ db'.disc[d].capacity \in Nat
  BY DocumentTypes, BoundsAssumption
<1>7. db.disc[d].status # "cancelled" =>
        /\ Cardinality(S) + Cardinality(H) + Cardinality(B) <= db.disc[d].enrolled
        /\ db.disc[d].enrolled <= db.disc[d].capacity
  BY DEF Balance
<1> SUFFICES ASSUME db'.disc[d].status # "cancelled"
             PROVE  /\ Cardinality(T) + Cardinality(H) + Cardinality(C) <= db'.disc[d].enrolled
                    /\ db'.disc[d].enrolled <= db'.disc[d].capacity
  BY <1>1, <1>2, <1>5 DEF Balance
<1>8. CASE SameSeats(d) /\ owes \subseteq Owes(req[r], db, d)
  <2>1. db'.disc[d] = db.disc[d] /\ T = S /\ C \subseteq B
    BY <1>4, <1>8 DEF SameSeats
  <2> HIDE DEF H, S, T, B, C, owes
  <2> QED
    BY <1>2, <1>5, <1>6, <1>7, <2>1
<1>9. CASE Drops(r, d)
  <2>1. db'.disc[d] = db.disc[d] /\ T \subseteq S /\ owes \subseteq S \ T
    BY <1>9 DEF Drops
  <2> HIDE DEF H, S, T, B, C, owes
  <2>2. Cardinality(S \ T) = Cardinality(S) - Cardinality(T) /\ IsFiniteSet(S \ T)
    <3>1. S \cap T = T
      BY <2>1
    <3> QED
      BY <1>2, <3>1, FS_Difference
  <2>3. Cardinality(owes) <= Cardinality(S \ T)
    BY <2>1, <2>2, FS_Subset
  <2> QED
    BY <1>2, <1>5, <1>6, <1>7, <2>1, <2>2, <2>3
<1>10. CASE Repays(r, d)
  <2>1. /\ T = S /\ db.disc[d].status # "cancelled"
        /\ db'.disc[d].capacity = db.disc[d].capacity
        /\ db'.disc[d].enrolled = Less(db.disc[d].enrolled, 1)
        /\ \E t \in B : C = B \ {t}
    BY <1>4, <1>10 DEF Repays, Counts
  <2> HIDE DEF H, S, T, B, C, owes
  <2>2. Cardinality(B) = Cardinality(C) + 1
    <3>1. PICK t \in B : C = B \ {t}
      BY <2>1
    <3>2. Cardinality(B \ {t}) = Cardinality(B) - 1
      BY <1>2, <3>1, FS_RemoveElement
    <3> QED
      BY <1>2, <1>5, <3>1, <3>2
  <2>3. db.disc[d].enrolled >= 1
    BY <1>2, <1>5, <1>6, <1>7, <2>1, <2>2
  <2>4. db'.disc[d].enrolled = db.disc[d].enrolled - 1
    BY <1>6, <2>1, <2>3 DEF Less
  <2> QED
    BY <1>2, <1>5, <1>6, <1>7, <2>1, <2>2, <2>4
<1>11. CASE Stops(r, d)
  BY <1>11 DEF Stops
<1> QED
  BY <1>8, <1>9, <1>10, <1>11

\* An attempt acts on what it has read: nobody else has since cancelled a selection that it is about
\* to drop or to enrol (unless the discipline itself was cancelled), nor enrolled one to drop.
Stands(D, i, statuses) ==
  D.disc[D.sel[i].discipline].status # "cancelled" => D.sel[i].status \in statuses

ActsOnWhatItRead(r) ==
  /\ FinalizeDrop(r) => \A i \in req[r].drop : Stands(db, i, {"selected"})
  /\ FinalizeEnrol(r) => \A i \in InBucket(req[r].keep, req[r].k) : Stands(db, i, {"selected", "enrolled"})

LEMMA FinalizeSeats ==
  ASSUME Core, NEW r \in Requests, Finalize(r), ActsOnWhatItRead(r), NEW d \in Disciplines
  PROVE  /\ SameHold(r, d) /\ db'.disc[d].status = db.disc[d].status
         /\ \/ SameSeats(d) /\ Owes(req'[r], db', d) \subseteq Owes(req[r], db, d)
            \/ Drops(r, d) \/ Repays(r, d) \/ Stops(r, d)
<1> USE CoreFacts, GoesTo
<1>1. SameHold(r, d)
  <2>1. \A c \in FinalizePlaces \cup {"idle", "done"} :
          c \notin {"select.create", "select.undo", "withdraw.seat"}
    BY DEF FinalizePlaces, Attempting, Deciding, Enrolling
  <2> QED
    BY <2>1, FinalizeJob DEF SameHold, Holds
<1>2. CASE FinalizeDrop(r)
  <2> DEFINE ids == {i \in SelectedIn(db, req[r].p) :
                       db.sel[i].student \in {db.sel[j].student : j \in req[r].drop}}
             y == [pc |-> "finalize.seats", p |-> req[r].p, drop |-> req[r].drop, keep |-> req[r].keep]
  <2>1. OnlySelections(db, ids, "cancelled", db') /\ Goes(r, y)
    BY <1>2, DropWrites
  <2>2. /\ req[r].pc = "finalize.drop" /\ req[r].drop \in SUBSET SelectionIds
        /\ \A i \in req[r].drop : db.sel[i] \in Selection /\ db.sel[i].period = req[r].p
    BY <1>2, PlaceForms DEF FinalizeDrop, At, Deciding, Fits
  <2>3. \A i \in req[r].drop : db.sel[i].status = "selected" => i \in ids
    BY <2>2 DEF SelectedIn
  <2>4. ids \subseteq SelectionIds /\ req'[r].drop = req[r].drop
    BY <2>1 DEF SelectedIn
  <2> HIDE DEF ids, y
  <2>5. db'.disc = db.disc /\ \A i \in SelectionIds : i \notin ids => db'.sel[i] = db.sel[i]
    BY <2>1 DEF OnlySelections
  <2>6. \A i \in ids : ~IsActive(db'.sel[i])
    BY <2>1 DEF OnlySelections, IsActive
  <2>7. SeatsOf(db', d) \subseteq SeatsOf(db, d)
    BY <2>4, <2>5, <2>6 DEF SeatsOf
  <2>8. CASE db.disc[d].status # "cancelled"
    <3>1. ASSUME NEW i \in Owes(req'[r], db', d)
          PROVE  i \in SeatsOf(db, d) /\ i \notin SeatsOf(db', d)
      <4>1. i \in SelectionIds /\ i \in req[r].drop /\ db'.sel[i].discipline = d
        BY <2>4 DEF Owes
      <4>2. db.sel[i].discipline = d
        BY <2>1, <2>2, <4>1 DEF OnlySelections, Kept, SameChoice
      <4>3. db.sel[i].status = "selected"
        BY <1>2, <2>8, <4>1, <4>2 DEF ActsOnWhatItRead, Stands
      <4> QED
        BY <2>3, <2>6, <4>1, <4>2, <4>3 DEF SeatsOf, IsActive
    <3> QED
      BY <1>1, <2>5, <2>7, <3>1 DEF Drops
  <2>9. CASE db.disc[d].status = "cancelled"
    BY <1>1, <2>5, <2>9 DEF Stops
  <2> QED
    BY <2>8, <2>9
<1>3. CASE FinalizeEnrol(r)
  <2>1. PICK hit \in SUBSET InBucket(req[r].keep, req[r].k) : OnlySelections(db, hit, "enrolled", db')
    BY <1>3, EnrolWrites
  <2>2. req[r].pc = "finalize.enrol" /\ req[r].keep \in SUBSET SelectionIds
    BY <1>3, PlaceForms DEF FinalizeEnrol, At, Enrolling
  <2>3. \A i \in hit : i \in SelectionIds /\ db.sel[i] \in Selection
    BY <2>2 DEF InBucket, Fits, Enrolling
  <2>4. req'[r].pc # "finalize.seats"
    <3> DEFINE mine == InBucket(req[r].keep, req[r].k)
               y == [pc |-> "finalize.course", p |-> req[r].p, drop |-> {}, keep |-> req[r].keep \ mine]
    <3>1. Goes(r, Released(r)) \/ Goes(r, y)
      BY <1>3, EnrolWrites
    <3>2. y.pc = "finalize.course" /\ Released(r).pc = "finalize.release"
      BY DEF Released
    <3> HIDE DEF y
    <3> QED
      BY <3>1, <3>2
  <2>5. Owes(req'[r], db', d) = {} /\ db'.disc = db.disc
    BY <2>1, <2>4 DEF Owes, OnlySelections
  <2>6. CASE db.disc[d].status # "cancelled"
    <3>1. ASSUME NEW i \in SelectionIds
          PROVE  i \in SeatsOf(db', d) <=> i \in SeatsOf(db, d)
      <4>1. CASE i \in hit /\ db.sel[i].discipline = d
        <5>1. IsActive(db.sel[i])
          BY <1>3, <2>1, <2>6, <4>1 DEF ActsOnWhatItRead, Stands, IsActive
        <5>2. IsActive(db'.sel[i]) /\ db'.sel[i].discipline = d
          BY <2>1, <2>3, <4>1 DEF OnlySelections, Kept, SameChoice, IsActive
        <5> QED
          BY <4>1, <5>1, <5>2 DEF SeatsOf
      <4>2. CASE i \in hit /\ db.sel[i].discipline # d
        <5>1. db'.sel[i].discipline # d
          BY <2>1, <2>3, <4>2 DEF OnlySelections, Kept, SameChoice
        <5> QED
          BY <4>2, <5>1 DEF SeatsOf
      <4>3. CASE i \notin hit
        BY <2>1, <4>3 DEF OnlySelections, SeatsOf
      <4> QED
        BY <4>1, <4>2, <4>3
    <3>2. SeatsOf(db', d) = SeatsOf(db, d)
      BY <3>1 DEF SeatsOf
    <3> QED
      BY <1>1, <2>5, <3>2 DEF SameSeats
  <2>7. CASE db.disc[d].status = "cancelled"
    BY <1>1, <2>5, <2>7 DEF Stops
  <2> QED
    BY <2>6, <2>7
<1>4. ASSUME NEW i \in SelectionIds, FinalizeReturnSeat(r, i)
      PROVE  /\ db'.disc[d].status = db.disc[d].status
             /\ \/ SameSeats(d) /\ Owes(req'[r], db', d) \subseteq Owes(req[r], db, d)
                \/ Repays(r, d)
  <2> DEFINE e == db.sel[i].discipline
             c == IF req[r].drop = {i} THEN "finalize.course" ELSE req[r].pc
             rest == req[r].drop \ {i}
             z == req[r]
             x == [z EXCEPT !.drop = rest, !.pc = c]
  <2>1. /\ req[r].pc = "finalize.seats" /\ i \in req[r].drop /\ db' = ReturnSeat(db, e)
        /\ Goes(r, x)
    BY <1>4 DEF FinalizeReturnSeat, At
  <2>2. z = [pc |-> z.pc, p |-> z.p, drop |-> z.drop, keep |-> z.keep] /\ e \in Disciplines
    BY <2>1, PlaceForms, Present DEF Deciding, Fits
  <2>3. /\ c = "finalize.seats" \/ (c = "finalize.course" /\ rest = {})
        /\ rest \subseteq req[r].drop /\ i \notin rest
        /\ \A j \in req[r].drop : j # i => j \in rest
    BY <2>1
  <2>4. /\ OnlyDiscipline(db, e, db') /\ db'.disc[e].status = db.disc[e].status
        /\ db'.disc[e].capacity = db.disc[e].capacity
        /\ db'.disc[e].enrolled = Less(db.disc[e].enrolled, 1)
    BY <2>1, <2>2, ReturnSeatEffect
  <2>5. SeatsOf(db', d) = SeatsOf(db, d) /\ db'.sel = db.sel
    BY <2>4, SameSelectionsSameSeats DEF OnlyDiscipline
  <2> HIDE DEF c, rest
  <2>6. x.pc = c /\ x.drop = rest
    <3> HIDE DEF z
    <3> QED
      BY <2>2
  <2> HIDE DEF x
  <2>7. req'[r].pc = c /\ req'[r].drop = rest
    BY <2>1, <2>6
  <2>8. \A j \in SelectionIds : /\ j \in Owes(req'[r], db', d) <=> j \in rest /\ db.sel[j].discipline = d
                                /\ j \in Owes(req[r], db, d) <=> j \in req[r].drop /\ db.sel[j].discipline = d
    BY <2>1, <2>3, <2>5, <2>7 DEF Owes
  <2>9. Owes(req'[r], db', d) \subseteq SelectionIds /\ Owes(req[r], db, d) \subseteq SelectionIds
    BY DEF Owes
  <2>10. CASE d = e
    <3>1. i \in Owes(req[r], db, d) /\ Owes(req'[r], db', d) = Owes(req[r], db, d) \ {i}
      BY <2>1, <2>3, <2>8, <2>9, <2>10
    <3> QED
      BY <2>4, <2>5, <2>10, <3>1 DEF Repays, Counts
  <2>11. CASE d # e
    BY <2>3, <2>4, <2>5, <2>8, <2>9, <2>11 DEF SameSeats, OnlyDiscipline
  <2> QED
    BY <2>10, <2>11
<1>5. ASSUME db'.disc = db.disc, db'.sel = db.sel, req'[r].pc # "finalize.seats"
      PROVE  SameSeats(d) /\ Owes(req'[r], db', d) \subseteq Owes(req[r], db, d)
  <2>1. Owes(req'[r], db', d) = {}
    BY <1>5 DEF Owes
  <2> QED
    BY <1>5, <2>1, SameSelectionsSameSeats DEF SameSeats
<1>6. ASSUME ~FinalizeDrop(r), ~FinalizeEnrol(r), \A i \in SelectionIds : ~FinalizeReturnSeat(r, i)
      PROVE  db'.disc = db.disc /\ db'.sel = db.sel /\ req'[r].pc # "finalize.seats"
  <2>1. ~ReturnsASeat(r) \/ (db'.disc = db.disc /\ db'.sel = db.sel /\ req'[r].pc # "finalize.seats")
    <3> SUFFICES ASSUME req[r].pc = "finalize.seats"
                 PROVE  db' = db /\ req'[r].pc # "finalize.seats"
      BY DEF ReturnsASeat
    <3>1. FinalizeFails(r)
      BY <1>6 DEF Finalize, FinalizeBegin, Begins, FinalizeLock, FinalizeRead, FinalizeCourse,
             FinalizeFindAssignment, FinalizeUpsertAssignment, FinalizeCommit, FinalizeRelease, At
    <3> QED
      BY <3>1 DEF FinalizeFails, Released
  <2>2. "finalize.seats" \notin Unattended
    BY DEF Unattended
  <2> QED
    BY <1>6, <2>1, <2>2, AttemptSteps
       DEF NotAttempting, TakesLock, Reads, Looks, WritesRoll, Ends, OnlyPeriods
<1> QED
  BY <1>1, <1>2, <1>3, <1>4, <1>5, <1>6 DEF Drops, Stops

LEMMA FinalizeStatus ==
  ASSUME Core, NEW r \in Requests, Finalize(r), NEW d \in Disciplines
  PROVE  db'.disc[d].status = db.disc[d].status
<1>1. CASE \E i \in SelectionIds : FinalizeReturnSeat(r, i)
  <2>1. PICK i \in SelectionIds : FinalizeReturnSeat(r, i)
    BY <1>1
  <2>2. db.sel[i].discipline \in Disciplines /\ db' = ReturnSeat(db, db.sel[i].discipline)
    BY <2>1, CoreFacts, PlaceForms, Present DEF FinalizeReturnSeat, At, Deciding, Fits
  <2> QED
    BY <2>2, CoreFacts, ReturnSeatEffect DEF OnlyDiscipline
<1>2. CASE ~\E i \in SelectionIds : FinalizeReturnSeat(r, i)
  <2>1. ActsOnWhatItRead(r) \/ FinalizeDrop(r) \/ FinalizeEnrol(r)
    BY DEF ActsOnWhatItRead
  <2> QED
    BY <2>1, DropWrites, EnrolWrites, FinalizeSeats DEF OnlySelections
<1> QED
  BY <1>1, <1>2

\* A cancelled discipline is never taken up again, unless a status is saved late.
LEMMA CascadeStep ==
  ASSUME Core, CascadesAfterFlip, [Next]_vars, [SavesInTime]_vars
  PROVE  /\ CascadesAfterFlip'
         /\ \A d \in Disciplines : db'.disc[d].status # "cancelled" => db.disc[d].status # "cancelled"
<1>1. ASSUME NEW r \in Requests, Select(r) \/ Withdraw(r) \/ Cancel(r) \/ Finalize(r) \/ Manage(r) \/ Crash(r)
      PROVE  \A d \in Disciplines : db'.disc[d].status # "cancelled" => db.disc[d].status # "cancelled"
  <2> SUFFICES ASSUME NEW d \in Disciplines, ~Finalize(r), ~Crash(r)
               PROVE  db'.disc[d].status # "cancelled" => db.disc[d].status # "cancelled"
    BY <1>1, CrashCore, FinalizeStatus
  <2> QED
    BY <1>1, SelectSeats, WithdrawSeats, CancelSeats, ManageSeats
       DEF SameSeats, Reserves, Fills, Returns, Leaves, Stops, Adjusts, Counts
<1>2. CASE Elsewhere
  BY <1>2, ElsewhereEffect DEF OnlyPeriods, CascadesAfterFlip
<1>3. ASSUME NEW r \in Requests, Select(r) \/ Withdraw(r) \/ Cancel(r) \/ Finalize(r) \/ Manage(r) \/ Crash(r)
      PROVE  CascadesAfterFlip'
  <2> SUFFICES ASSUME NEW q \in Requests, req'[q].pc = "cancel.cascade"
               PROVE  db'.disc[req'[q].d].status = "cancelled"
    BY DEF CascadesAfterFlip
  <2>1. CASE q = r
    <3>1. ~Finalize(r)
      <4>1. "cancel.cascade" \notin FinalizePlaces \cup {"done"}
        BY DEF FinalizePlaces, Attempting, Deciding, Enrolling
      <4> QED
        BY <2>1, <4>1, FinalizeJob
    <3> QED
      BY <1>3, <2>1, <3>1, CascadeBegins
  <2>2. CASE q # r
    <3>1. req'[q] = req[q] /\ req[q].d \in Disciplines
      BY <1>3, <2>2, OneMoves, CoreFacts, PlaceForms DEF Cancelling
    <3> QED
      BY <1>1, <1>3, <3>1 DEF CascadesAfterFlip
  <2> QED
    BY <2>1, <2>2
<1> QED
  BY <1>1, <1>2, <1>3 DEF Next, Elsewhere

LEMMA SeatsStep ==
  ASSUME SeatsInv, [Next]_vars, [SavesInTime]_vars, [\A r \in Requests : ActsOnWhatItRead(r)]_vars
  PROVE  SeatsInv'
<1>1. Core /\ Core' /\ JobInv /\ JobInv' /\ db \in Database /\ db' \in Database /\ Kept(db, db')
  BY StepCore, JobStep, SelectionsKept DEF SeatsInv, JobInv, Core, TypeOK
<1>2. CascadesAfterFlip /\ CascadesAfterFlip'
  BY <1>1, CascadeStep DEF SeatsInv
<1> SUFFICES ASSUME NEW d \in Disciplines
             PROVE  Balance(req', db', Leaky', d)
  BY <1>1, <1>2 DEF SeatsInv
<1>3. Balance(req, db, Leaky, d)
  BY DEF SeatsInv
<1>4. CASE Elsewhere
  <2>1. req' = req /\ db'.disc = db.disc /\ db'.sel = db.sel /\ crashed' = crashed
    BY <1>1, <1>4, ElsewhereEffect DEF OnlyPeriods
  <2>2. \A q \in Requests : /\ Holds(req[q], db', d) <=> Holds(req[q], db, d)
                            /\ Owes(req[q], db', d) = Owes(req[q], db, d)
    BY <2>1 DEF Holds, Owes
  <2>3. /\ Holders(req', db', d) = Holders(req, db, d) /\ Debts(req', db', d) = Debts(req, db, d)
        /\ SeatsOf(db', d) = SeatsOf(db, d)
    BY <2>1, <2>2, SameSelectionsSameSeats DEF Holders, Debts
  <2> QED
    BY <1>3, <2>1, <2>3 DEF Balance, Leaky
<1>5. ASSUME NEW r \in Requests, Select(r) \/ Withdraw(r) \/ Cancel(r) \/ Finalize(r) \/ Manage(r) \/ Crash(r)
      PROVE  /\ ~Leaky' => ~Leaky
             /\ \A q \in Requests \ {r} : /\ Holds(req'[q], db', d) <=> Holds(req[q], db, d)
                                          /\ Owes(req'[q], db', d) = Owes(req[q], db, d)
  <2>1. (\A q \in Requests \ {r} : req'[q] = req[q]) /\ (~crashed' => ~crashed)
    BY <1>1, <1>5, OneMoves
  <2> QED
    BY <1>1, <2>1, OthersHold DEF Leaky
<1>6. ASSUME NEW r \in Requests, Select(r) \/ Withdraw(r) \/ Cancel(r) \/ Manage(r) \/ Crash(r)
      PROVE  Balance(req', db', Leaky', d)
  <2>1. \/ SameSeats(d) /\ SameHold(r, d)
        \/ Reserves(r, d) \/ Fills(r, d) \/ Returns(r, d) \/ Leaves(r, d) \/ Stops(r, d) \/ Adjusts(r, d)
        \/ Dies(r, d)
    <3>1. CASE Crash(r)
      <4>1. db' = db /\ req'[r].pc = "done" /\ crashed'
        BY <1>1, <3>1, CrashCore DEF Done
      <4> QED
        BY <4>1 DEF Dies, SameSeats, Holds, Leaky
    <3> QED
      BY <1>1, <1>2, <1>6, <3>1, SelectSeats, WithdrawSeats, CancelSeats, ManageSeats
  <2>2. req'[r].pc # "finalize.seats"
    <3>1. /\ "finalize.seats" \notin SelectPlaces \cup {"done"}
          /\ "finalize.seats" \in Watched
      BY DEF SelectPlaces, Choosing, Reserving, Watched, Deciding
    <3> QED
      BY <1>1, <1>6, <3>1, HandlersMovePeriods, CrashCore DEF Done
  <2>3. Owes(req'[r], db', d) = {}
    BY <2>2 DEF Owes
  <2>4. /\ Debts(req', db', d) \subseteq Debts(req, db, d)
        /\ Owes(req[r], db, d) = {} => Debts(req', db', d) = Debts(req, db, d)
    BY <1>5, <1>6, <2>3, DebtsChange
  <2>5. Owes(req[r], db, d) = {} \/ Leaky'
    <3> SUFFICES ASSUME req[r].pc = "finalize.seats"
                 PROVE  Leaky'
      BY DEF Owes
    <3>1. "finalize" \in Job[r]
      BY <1>1 DEF JobInv, FinalizePlaces, Deciding
    <3> QED
      BY <3>1 DEF Leaky
  <2> QED
    BY <1>1, <1>3, <1>5, <1>6, <2>1, <2>4, <2>5, BalanceStep
<1>7. ASSUME NEW r \in Requests, Finalize(r)
      PROVE  Balance(req', db', Leaky', d)
  <2>1. "finalize" \in Job[r]
    BY <1>1, <1>7, FinalizeJob DEF JobInv
  <2>2. Leaky'
    BY <2>1 DEF Leaky
  <2>3. CASE vars' = vars
    <3>1. req' = req /\ db' = db /\ crashed' = crashed
      BY <2>3 DEF vars
    <3>2. Leaky' = Leaky
      BY <3>1 DEF Leaky
    <3> QED
      BY <1>3, <3>1, <3>2
  <2>4. CASE ActsOnWhatItRead(r)
    BY <1>1, <1>3, <1>5, <1>7, <2>2, <2>4, FinalizeSeats, DebtStep
  <2> QED
    BY <2>3, <2>4
<1> QED
  BY <1>4, <1>6, <1>7 DEF Next, Elsewhere

\* No statement of an attempt acts on a selection that has left the state the attempt read it in.
AttemptsActOnWhatTheyRead == [][\A r \in Requests : ActsOnWhatItRead(r)]_vars

\* Every save() comes in time.
SavesAreInTime == [][SavesInTime]_vars

LEMMA SeatsInductive == ChosenSpec /\ SavesAreInTime /\ AttemptsActOnWhatTheyRead => []SeatsInv
<1>1. ChosenInit => SeatsInv
  <2> SUFFICES ASSUME ChosenInit PROVE SeatsInv
    OBVIOUS
  <2>1. Core /\ \A r \in Requests : req[r].pc = "idle"
    BY InitCore DEF ChosenInit, NothingUnderWay, Idle
  <2>2. JobInv /\ CascadesAfterFlip
    BY <2>1 DEF JobInv, CascadesAfterFlip, FinalizePlaces, SelectPlaces, Choosing, Reserving, Attempting,
                Deciding, Enrolling
  <2>3. ASSUME NEW d \in Disciplines
        PROVE  Balance(req, db, Leaky, d)
    <3>1. Holders(req, db, d) = {} /\ Debts(req, db, d) = {}
      BY <2>1 DEF Holders, Holds, Debts, Owes
    <3>2. /\ IsFiniteSet(Holders(req, db, d)) /\ Cardinality(Holders(req, db, d)) = 0
          /\ IsFiniteSet(Debts(req, db, d)) /\ Cardinality(Debts(req, db, d)) = 0
      BY <3>1, FS_EmptySet
    <3>3. db.disc[d].enrolled = Cardinality(SeatsOf(db, d)) /\ db.disc[d].enrolled <= db.disc[d].capacity
      BY ChosenFacts DEF ChosenInit
    <3>4. db.disc[d].enrolled \in Nat /\ db.disc[d].capacity \in Nat
      BY <2>1, DocumentTypes, BoundsAssumption DEF Core, TypeOK
    <3> QED
      BY <3>2, <3>3, <3>4 DEF Balance
  <2> QED
    BY <2>2, <2>3 DEF SeatsInv
<1>2. SeatsInv /\ [Next]_vars /\ [SavesInTime]_vars /\ [\A r \in Requests : ActsOnWhatItRead(r)]_vars
        => SeatsInv'
  BY SeatsStep
<1> QED
  BY <1>1, <1>2, PTL DEF ChosenSpec, SavesAreInTime, AttemptsActOnWhatTheyRead

\* Requests that die between two statements, and attempts at finalization that fail, are retried or
\* are overtaken, leak seats but hand none out twice.  Two things could, and are supposed away: an edit
\* of a discipline whose save() is late (SavesInTime), and an attempt that returns a seat, or enrols a
\* selection, that another request has given up since the attempt read it.
THEOREM SeatsStayCovered ==
  ChosenSpec /\ SavesAreInTime /\ AttemptsActOnWhatTheyRead => []SeatsCoverSelections
<1>1. SeatsInv => SeatsCoverSelections
  <2> SUFFICES ASSUME SeatsInv, NEW d \in Disciplines, db.disc[d].status # "cancelled"
               PROVE  /\ Cardinality(SeatsOf(db, d)) <= db.disc[d].enrolled
                      /\ db.disc[d].enrolled <= db.disc[d].capacity
    BY DEF SeatsCoverSelections
  <2>1. /\ IsFiniteSet(Holders(req, db, d)) /\ IsFiniteSet(Debts(req, db, d))
        /\ Cardinality(SeatsOf(db, d)) + Cardinality(Holders(req, db, d)) + Cardinality(Debts(req, db, d))
             <= db.disc[d].enrolled
        /\ db.disc[d].enrolled <= db.disc[d].capacity
    BY DEF SeatsInv, Balance
  <2>2. /\ Cardinality(Holders(req, db, d)) \in Nat /\ Cardinality(Debts(req, db, d)) \in Nat
        /\ Cardinality(SeatsOf(db, d)) \in Nat
    <3>1. SeatsOf(db, d) \subseteq SelectionIds
      BY DEF SeatsOf
    <3> QED
      BY <2>1, <3>1, FiniteAssumption, FS_Subset, FS_CardinalityType
  <2>3. db.disc[d].enrolled \in Nat
    BY DocumentTypes, BoundsAssumption DEF SeatsInv, JobInv, Core, TypeOK
  <2> QED
    BY <2>1, <2>2, <2>3
<1> QED
  BY <1>1, SeatsInductive, PTL

\* While students choose and withdraw and disciplines are edited and cancelled there is no such attempt.
LEMMA NothingToRead ==
  ASSUME \A r \in Requests : "finalize" \notin Job[r]
  PROVE  ChosenSpec => AttemptsActOnWhatTheyRead
<1>1. JobInv => \A r \in Requests : ActsOnWhatItRead(r)
  BY DEF JobInv, ActsOnWhatItRead, FinalizeDrop, FinalizeEnrol, At, FinalizePlaces, Deciding, Enrolling
<1>2. []JobInv => AttemptsActOnWhatTheyRead
  BY <1>1, PTL DEF AttemptsActOnWhatTheyRead
<1> QED
  BY <1>2, JobInductive, PTL

\* Among students who choose and withdraw, and administrators who edit and cancel disciplines and
\* publish and close periods, nobody is overbooked, wherever their requests fail or die between two
\* statements, as long as no save() of a capacity or a status is late.
COROLLARY ChoicesStayCovered ==
  ASSUME \A r \in Requests : "finalize" \notin Job[r]
  PROVE  ChosenSpec /\ SavesAreInTime => []SeatsCoverSelections
BY NothingToRead, SeatsStayCovered, PTL

\* When every request has ended and none has died, the counter of a discipline that was not
\* cancelled is the number of selections that hold its seats: each failed attempt has given its back,
\* and no edit in time has disturbed the count.
THEOREM CountersSettle ==
  ASSUME \A r \in Requests : "finalize" \notin Job[r]
  PROVE  ChosenSpec /\ SavesAreInTime => []CounterSettles
<1>1. SeatsInv => CounterSettles
  <2> SUFFICES ASSUME SeatsInv, ~crashed, \A r \in Requests : ~Running(r),
                      NEW d \in Disciplines, db.disc[d].status # "cancelled"
               PROVE  db.disc[d].enrolled = Cardinality(SeatsOf(db, d))
    BY DEF CounterSettles
  <2>1. Holders(req, db, d) = {} /\ Debts(req, db, d) = {}
    BY DEF Holders, Holds, Debts, Owes, Running
  <2>2. Cardinality(Holders(req, db, d)) = 0 /\ Cardinality(Debts(req, db, d)) = 0
    BY <2>1, FS_EmptySet
  <2>3. ~Leaky
    BY DEF Leaky
  <2>4. Cardinality(SeatsOf(db, d)) + Cardinality(Holders(req, db, d)) + Cardinality(Debts(req, db, d))
          = db.disc[d].enrolled
    BY <2>3 DEF SeatsInv, Balance
  <2>5. Cardinality(SeatsOf(db, d)) \in Nat
    <3>1. SeatsOf(db, d) \subseteq SelectionIds
      BY DEF SeatsOf
    <3> QED
      BY <3>1, FiniteAssumption, FS_Subset, FS_CardinalityType
  <2> QED
    BY <2>2, <2>4, <2>5
<1> QED
  BY <1>1, NothingToRead, SeatsInductive, PTL

----
(* The lock: when attempts do act on what they read. *)

SameLocks(D, E) == \A p \in Periods : E.period[p].lock = D.period[p].lock

LEMMA ClosingKeepsLocks ==
  ASSUME NEW D \in Database
  PROVE  /\ \A past : SameLocks(D, CloseExpired(D, past))
         /\ \A q \in Periods : \A status : SameLocks(D, SetPeriod(D, q, status))
<1> DEFINE given(y, status) == [y EXCEPT !.status = status]
<1>1. ASSUME NEW y \in Period, NEW status
      PROVE  given(y, status).lock = y.lock
  BY DEF Period
<1>2. D.period \in [Periods -> Period] /\ \A p \in Periods : D.period[p] \in Period
  BY DEF Database
<1>3. ASSUME NEW past
      PROVE  SameLocks(D, CloseExpired(D, past))
  <2> DEFINE x == [p \in Periods |-> IF D.period[p].status = "active" /\ p \in past
                                     THEN given(D.period[p], "closed") ELSE D.period[p]]
  <2>1. CloseExpired(D, past).period = x
    BY DEF CloseExpired, Database
  <2> HIDE DEF given
  <2>2. \A p \in Periods : x[p].lock = D.period[p].lock
    BY <1>1, <1>2
  <2> QED
    BY <2>1, <2>2 DEF SameLocks
<1>4. ASSUME NEW q \in Periods, NEW status
      PROVE  SameLocks(D, SetPeriod(D, q, status))
  <2> DEFINE x == [D.period EXCEPT ![q] = given(D.period[q], status)]
  <2>1. SetPeriod(D, q, status).period = x
    BY DEF SetPeriod, Database
  <2> HIDE DEF given
  <2>2. \A p \in Periods : x[p].lock = D.period[p].lock
    BY <1>1, <1>2
  <2> QED
    BY <2>1, <2>2 DEF SameLocks
<1> QED
  BY <1>3, <1>4

\* Only the lock, the commit and the release of an attempt write a lock.
LEMMA OthersKeepLocks ==
  ASSUME Core, [Next]_vars,
         \A r \in Requests : ~FinalizeLock(r) /\ ~FinalizeCommit(r) /\ ~FinalizeRelease(r)
  PROVE  SameLocks(db, db')
<1>1. db \in Database /\ db = [disc |-> db.disc, period |-> db.period, sel |-> db.sel, roll |-> db.roll]
  BY DocumentTypes DEF Core, TypeOK
<1>2. /\ \A d : /\ TakeSeat(db, d).period = db.period /\ ReturnSeat(db, d).period = db.period
                /\ FlipDisciplineCancelled(db, d).period = db.period
      /\ \A k, p, students : AddToRoll(db, k, p, students).period = db.period
      /\ \A ids, reason : CancelSelections(db, ids, reason).period = db.period
      /\ \A ids : EnrolSelections(db, ids).period = db.period
      /\ \A i, s, p, d, slot : InsertSelection(db, i, s, p, d, slot).period = db.period
  BY <1>1 DEF TakeSeat, ReturnSeat, FlipDisciplineCancelled, AddToRoll, CancelSelections, EnrolSelections,
              InsertSelection
<1>3. db'.period = db.period => SameLocks(db, db')
  BY DEF SameLocks
<1>4. ASSUME NEW r \in Requests, Select(r)
      PROVE  SameLocks(db, db')
  <2>1. CASE \E s \in Students, p \in Periods, d \in Disciplines : SelectBegin(r, s, p, d)
    BY <1>1, <2>1, ClosingKeepsLocks DEF SelectBegin
  <2>2. CASE SelectReadPeriod(r) \/ SelectReadQuota(r) \/ SelectCreateFails(r)
    BY <1>3, <2>2 DEF SelectReadPeriod, SelectReadQuota, SelectCreateFails
  <2>3. CASE SelectReserve(r)
    BY <1>2, <1>3, <2>3 DEF SelectReserve
  <2>4. CASE \E i \in SelectionIds : SelectCreate(r, i)
    BY <1>3, <2>4, CreateWrites DEF OnlySelections
  <2>5. CASE SelectUndo(r)
    BY <1>2, <1>3, <2>5 DEF SelectUndo
  <2> QED
    BY <1>4, <2>1, <2>2, <2>3, <2>4, <2>5 DEF Select
<1>5. ASSUME NEW r \in Requests, Withdraw(r)
      PROVE  SameLocks(db, db')
  <2>1. CASE \E i \in SelectionIds : WithdrawBegin(r, i)
    BY <1>3, <2>1 DEF WithdrawBegin
  <2>2. CASE WithdrawCancel(r)
    BY <1>3, <2>2, WithdrawWrites DEF OnlySelections
  <2>3. CASE WithdrawSeat(r)
    BY <1>2, <1>3, <2>3 DEF WithdrawSeat
  <2> QED
    BY <1>5, <2>1, <2>2, <2>3 DEF Withdraw
<1>6. ASSUME NEW r \in Requests, Cancel(r)
      PROVE  SameLocks(db, db')
  <2>1. CASE (\E d \in Disciplines : CancelBegin(r, d)) \/ CancelCheckPeriods(r)
    BY <1>3, <2>1 DEF CancelBegin, CancelCheckPeriods
  <2>2. CASE CancelFlip(r)
    BY <1>2, <1>3, <2>2 DEF CancelFlip
  <2>3. CASE CancelCascade(r)
    BY <1>3, <2>3, CascadeWrites DEF OnlySelections
  <2> QED
    BY <1>6, <2>1, <2>2, <2>3 DEF Cancel
<1>7. ASSUME NEW r \in Requests, Finalize(r)
      PROVE  SameLocks(db, db')
  <2>1. CASE \E p \in Periods : FinalizeBegin(r, p)
    BY <1>1, <2>1, ClosingKeepsLocks DEF FinalizeBegin
  <2>2. CASE \/ FinalizeRead(r) \/ FinalizeFindAssignment(r) \/ FinalizeFails(r)
             \/ \E k \in Rolls : FinalizeCourse(r, k)
    BY <1>3, <2>2 DEF FinalizeRead, FinalizeFindAssignment, FinalizeFails, FinalizeCourse
  <2>3. CASE FinalizeDrop(r) \/ FinalizeEnrol(r)
    BY <1>3, <2>3, DropWrites, EnrolWrites DEF OnlySelections
  <2>4. CASE \E i \in SelectionIds : FinalizeReturnSeat(r, i)
    BY <1>2, <1>3, <2>4 DEF FinalizeReturnSeat
  <2>5. CASE FinalizeUpsertAssignment(r)
    BY <1>2, <1>3, <2>5 DEF FinalizeUpsertAssignment
  <2> QED
    BY <1>7, <2>1, <2>2, <2>3, <2>4, <2>5 DEF Finalize
<1>8. ASSUME NEW r \in Requests, Crash(r)
      PROVE  SameLocks(db, db')
  BY <1>3, <1>8 DEF Crash
<1>9. CASE Elsewhere
  <2>1. CASE \E p \in Periods : ClosePeriod(p)
    BY <1>1, <2>1, ClosingKeepsLocks DEF ClosePeriod
  <2>2. CASE (\E p \in Periods : PeriodEnds(p)) \/ (\E p \in Periods : LockAges(p))
    BY <1>3, <2>2 DEF PeriodEnds, LockAges
  <2>3. CASE ListPeriods
    BY <1>1, <2>3, ClosingKeepsLocks DEF ListPeriods
  <2>4. CASE (\E d \in Archivable : ArchiveCourse(d) \/ RestoreCourse(d)) \/ UNCHANGED vars
    BY <1>3, <2>4 DEF ArchiveCourse, RestoreCourse, vars
  <2> QED
    BY <1>9, <2>1, <2>2, <2>3, <2>4 DEF Elsewhere
<1>10. ASSUME NEW r \in Requests, Manage(r)
       PROVE  SameLocks(db, db')
  BY <1>10, ManageEdits DEF Edits, SameLocks
<1> QED
  BY <1>4, <1>5, <1>6, <1>7, <1>8, <1>9, <1>10 DEF Next, Elsewhere

\* An attempt past the lock owns it, and its period has closed.
Owns(r) ==
  req[r].pc \in Watched =>
    db.period[req[r].p].lock = r /\ db.period[req[r].p].status \in {"closed", "finalized"}

\* A lock is taken over after 15 minutes only from an attempt that has died.
TakesFromTheDead(r) ==
  FinalizeLock(r) /\ req[r].p \in stale =>
    \A q \in Requests : db.period[req[r].p].lock = q => req[q].pc \notin Watched

\* What the three statements write, if they write at all.
LEMMA LockWrites ==
  ASSUME Core, NEW r \in Requests, FinalizeLock(r) \/ FinalizeCommit(r) \/ FinalizeRelease(r)
  PROVE  /\ req[r].p \in Periods
         /\ \A p \in Periods \ {req[r].p} : db'.period[p].lock = db.period[p].lock
         /\ \/ req'[r].pc \in Unattended /\ (db' = db \/ db.period[req[r].p].lock = r)
            \/ /\ FinalizeLock(r) /\ Lockable(req[r].p) /\ db'.period[req[r].p].lock = r
               /\ db'.period[req[r].p].status = db.period[req[r].p].status
               /\ req'[r].pc = "finalize.read" /\ req'[r].p = req[r].p
<1> USE CoreFacts, GoesTo
<1> DEFINE p == req[r].p
<1>1. p \in Periods
  BY PlaceForms DEF FinalizeLock, FinalizeCommit, FinalizeRelease, At, Attempting, Deciding
<1>2. /\ db.period \in [Periods -> Period] /\ db.period[p] \in Period
      /\ \A q : [db EXCEPT !.period[p].lock = q].period = [db.period EXCEPT ![p] = [db.period[p] EXCEPT !.lock = q]]
  BY <1>1 DEF Database
<1>3. \A q : LET y == [db.period[p] EXCEPT !.lock = q]
             IN  y.lock = q /\ y.status = db.period[p].status
  BY <1>2 DEF Period
<1>4. CASE FinalizeLock(r)
  <2> DEFINE x == [pc |-> "finalize.read", p |-> p, required |-> db.period[p].required]
             y == [db.period[p] EXCEPT !.lock = r]
  <2>1. x.pc = "finalize.read" /\ x.p = p
    OBVIOUS
  <2>2. \/ Lockable(p) /\ Goes(r, x) /\ db'.period = [db.period EXCEPT ![p] = y]
        \/ db' = db /\ Goes(r, Done)
    BY <1>2, <1>4 DEF FinalizeLock
  <2>3. y.lock = r /\ y.status = db.period[p].status
    BY <1>3
  <2> HIDE DEF x, y
  <2>4. CASE Lockable(p) /\ Goes(r, x) /\ db'.period = [db.period EXCEPT ![p] = y]
    <3>1. db'.period[p] = y /\ \A q \in Periods \ {p} : db'.period[q] = db.period[q]
      BY <1>1, <1>2, <2>4
    <3> QED
      BY <1>1, <1>4, <2>1, <2>3, <2>4, <3>1
  <2>5. CASE db' = db /\ Goes(r, Done)
    BY <1>1, <2>5, ReleaseUnwatched
  <2> QED
    BY <2>2, <2>4, <2>5
<1>5. CASE FinalizeCommit(r)
  <2>1. \/ /\ db.period[p].lock = r /\ Goes(r, Done)
           /\ db'.period = [db.period EXCEPT ![p] = [db.period[p] EXCEPT !.status = "finalized", !.lock = NoRequest]]
        \/ db' = db /\ Goes(r, Released(r))
    BY <1>1, <1>5 DEF FinalizeCommit, MarkFinalized, Database
  <2> QED
    BY <1>1, <1>2, <2>1, ReleaseUnwatched
<1>6. CASE FinalizeRelease(r)
  <2>1. /\ Goes(r, Done)
        /\ \/ /\ db.period[p].lock = r
              /\ db'.period = [db.period EXCEPT ![p] = [db.period[p] EXCEPT !.lock = NoRequest]]
           \/ db' = db
    BY <1>2, <1>6 DEF FinalizeRelease
  <2> QED
    BY <1>1, <1>2, <2>1, ReleaseUnwatched
<1> QED
  BY <1>4, <1>5, <1>6

LEMMA OwnsStep ==
  ASSUME Core, \A r \in Requests : Owns(r), [Next]_vars, [\A r \in Requests : TakesFromTheDead(r)]_vars
  PROVE  \A r \in Requests : Owns(r)'
<1>1. ASSUME NEW p \in Periods, db.period[p].status \in {"closed", "finalized"}
      PROVE  db'.period[p].status \in {"closed", "finalized"}
  BY <1>1, PeriodsOnlyEnd DEF PeriodsMove, PeriodMoves, Ends
<1>2. ASSUME NEW q \in Requests, req[q].pc \in Watched
      PROVE  /\ req[q].p \in Periods /\ db.period[req[q].p].lock = q
             /\ db.period[req[q].p].status \in {"closed", "finalized"}
  BY <1>2, CoreFacts, PlaceForms DEF Owns, Watched, Attempting, Deciding, Enrolling
<1>3. ASSUME NEW q \in Requests, req'[q].pc \in Watched => req[q].pc \in Watched /\ req'[q].p = req[q].p,
             req[q].pc \in Watched => db'.period[req[q].p].lock = db.period[req[q].p].lock
      PROVE  Owns(q)'
  BY <1>1, <1>2, <1>3 DEF Owns
<1>4. ASSUME NEW r \in Requests, FinalizeLock(r) \/ FinalizeCommit(r) \/ FinalizeRelease(r),
             NEW q \in Requests
      PROVE  Owns(q)'
  <2>1. /\ req[r].p \in Periods
        /\ \A p \in Periods \ {req[r].p} : db'.period[p].lock = db.period[p].lock
        /\ \/ req'[r].pc \in Unattended /\ (db' = db \/ db.period[req[r].p].lock = r)
           \/ /\ FinalizeLock(r) /\ Lockable(req[r].p) /\ db'.period[req[r].p].lock = r
              /\ db'.period[req[r].p].status = db.period[req[r].p].status
              /\ req'[r].pc = "finalize.read" /\ req'[r].p = req[r].p
    BY <1>4, LockWrites
  <2>2. Finalize(r)
    BY <1>4 DEF Finalize
  <2>3. CASE q = r
    <3>1. CASE req'[r].pc \in Unattended
      BY <2>3, <3>1, UnattendedPlaces DEF Owns
    <3>2. CASE /\ Lockable(req[r].p) /\ db'.period[req[r].p].lock = r
               /\ db'.period[req[r].p].status = db.period[req[r].p].status
               /\ req'[r].pc = "finalize.read" /\ req'[r].p = req[r].p
      BY <2>3, <3>2 DEF Owns, Lockable
    <3> QED
      BY <2>1, <3>1, <3>2
  <2>4. CASE q # r
    <3>1. req'[q] = req[q]
      BY <2>2, <2>4, OneMoves
    <3>2. ASSUME req[q].pc \in Watched, req[q].p = req[r].p
          PROVE  db'.period[req[q].p].lock = db.period[req[q].p].lock
      <4>1. db.period[req[r].p].lock = q /\ q # NoRequest
        BY <1>2, <3>2, NullAssumption
      <4>2. CASE vars' = vars
        BY <4>2 DEF vars
      <4>3. CASE TakesFromTheDead(r)
        BY <2>1, <2>4, <3>2, <4>1, <4>3 DEF TakesFromTheDead, Lockable
      <4> QED
        BY <4>2, <4>3
    <3> QED
      BY <1>2, <1>3, <2>1, <3>1, <3>2
  <2> QED
    BY <2>3, <2>4
<1>5. ASSUME \A r \in Requests : ~FinalizeLock(r) /\ ~FinalizeCommit(r) /\ ~FinalizeRelease(r),
             NEW q \in Requests
      PROVE  Owns(q)'
  <2>1. SameLocks(db, db')
    BY <1>5, OthersKeepLocks
  <2>2. req'[q].pc \in Watched => req[q].pc \in Watched /\ req'[q].p = req[q].p
    <3>1. CASE req'[q] = req[q]
      BY <3>1
    <3>2. CASE Finalize(q) /\ ~FinalizeDrop(q) /\ ~FinalizeEnrol(q)
      BY <1>5, <3>2, AttemptSteps, UnattendedPlaces
         DEF NotAttempting, TakesLock, Reads, ReturnsASeat, Looks, WritesRoll, Ends, Watched, Deciding, Enrolling
    <3>3. CASE FinalizeDrop(q)
      <4>1. req'[q] = [pc |-> "finalize.seats", p |-> req[q].p, drop |-> req[q].drop, keep |-> req[q].keep]
        BY <3>3, DropWrites, GoesTo
      <4>2. req[q].pc = "finalize.drop"
        BY <3>3 DEF FinalizeDrop, At
      <4> QED
        BY <4>1, <4>2 DEF Watched, Deciding
    <3>4. CASE FinalizeEnrol(q)
      <4> DEFINE y == [pc |-> "finalize.course", p |-> req[q].p, drop |-> {},
                       keep |-> req[q].keep \ InBucket(req[q].keep, req[q].k)]
      <4>1. Goes(q, Released(q)) \/ Goes(q, y)
        BY <3>4, EnrolWrites
      <4>2. req[q].pc = "finalize.enrol" /\ y.p = req[q].p
        BY <3>4 DEF FinalizeEnrol, At
      <4> HIDE DEF y
      <4> QED
        BY <4>1, <4>2, GoesTo, ReleaseUnwatched, UnattendedPlaces DEF Watched, Enrolling
    <3>5. ASSUME NEW r \in Requests, Select(r) \/ Withdraw(r) \/ Cancel(r) \/ Finalize(r) \/ Manage(r) \/ Crash(r), r # q
          PROVE  req'[q] = req[q]
      BY <3>5, OneMoves
    <3>6. CASE Select(q) \/ Withdraw(q) \/ Cancel(q) \/ Manage(q) \/ Crash(q)
      <4>1. Done.pc \notin Watched
        BY DEF Done, Watched, Deciding, Enrolling
      <4> QED
        BY <3>6, <4>1, HandlersMovePeriods, CrashCore
    <3>7. CASE Elsewhere
      BY <3>7, ElsewhereEffect
    <3> QED
      BY <3>1, <3>2, <3>3, <3>4, <3>5, <3>6, <3>7 DEF Next, Elsewhere
  <2> QED
    BY <1>2, <1>3, <2>1, <2>2 DEF SameLocks
<1> QED
  BY <1>4, <1>5

\* A withdrawal that has found its period open cancels the selection before the period closes.
WithdrawInTime(r) == WithdrawCancel(r) => db.period[db.sel[req[r].i].period].status = "active"

\* What an attempt has read is still as it was, and it drops or keeps a student's choices together.
Remembers(x, D) ==
  /\ x.pc = "finalize.drop" =>
       /\ \A i \in x.drop : Stands(D, i, {"selected"})
       /\ \A i \in x.keep, j \in x.drop : D.sel[i].student # D.sel[j].student
  /\ x.pc \in Deciding \cup Enrolling => \A i \in x.keep : Stands(D, i, {"selected", "enrolled"})

LockInv ==
  /\ Core /\ CascadesAfterFlip
  /\ \A r \in Requests : Owns(r) /\ Remembers(req[r], db)

\* Who changes the status of a selection.
LEMMA StatusWriters ==
  ASSUME Core, [Next]_vars, NEW i \in SelectionIds, db.sel[i] \in Selection,
         db'.sel[i].status # db.sel[i].status
  PROVE  \E r \in Requests :
           \/ WithdrawCancel(r) /\ req[r].i = i
           \/ CancelCascade(r) /\ db.sel[i].discipline = req[r].d
           \/ FinalizeDrop(r) /\ db.sel[i].period = req[r].p
           \/ FinalizeEnrol(r) /\ db.sel[i].period = req[r].p
<1>1. db'.sel # db.sel /\ db'.sel[i] # db.sel[i]
  OBVIOUS
<1>2. ASSUME NEW r \in Requests, NEW j \in SelectionIds, SelectCreate(r, j)
      PROVE  db'.sel[i] = db.sel[i]
  BY <1>2, CreateWrites, CoreFacts, Present DEF OnlySelections
<1>3. ASSUME NEW r \in Requests, WithdrawCancel(r)
      PROVE  req[r].i = i
  BY <1>1, <1>3, WithdrawWrites DEF OnlySelections
<1>4. ASSUME NEW r \in Requests, CancelCascade(r)
      PROVE  db.sel[i].discipline = req[r].d
  BY <1>1, <1>4, CascadeWrites DEF OnlySelections, SelectedOf
<1>5. ASSUME NEW r \in Requests, FinalizeDrop(r)
      PROVE  db.sel[i].period = req[r].p
  <2> DEFINE ids == {j \in SelectedIn(db, req[r].p) :
                       db.sel[j].student \in {db.sel[k].student : k \in req[r].drop}}
  <2>1. OnlySelections(db, ids, "cancelled", db')
    BY <1>5, DropWrites
  <2>2. \A j \in ids : db.sel[j].period = req[r].p
    BY DEF SelectedIn
  <2> HIDE DEF ids
  <2> QED
    BY <1>1, <2>1, <2>2 DEF OnlySelections
<1>6. ASSUME NEW r \in Requests, FinalizeEnrol(r)
      PROVE  db.sel[i].period = req[r].p
  <2>1. PICK hit \in SUBSET InBucket(req[r].keep, req[r].k) : OnlySelections(db, hit, "enrolled", db')
    BY <1>6, EnrolWrites
  <2>2. req[r].pc = "finalize.enrol" /\ i \in hit
    BY <1>1, <1>6, <2>1 DEF FinalizeEnrol, At, OnlySelections
  <2> QED
    BY <2>1, <2>2, CoreFacts DEF InBucket, Fits, Enrolling
<1>7. ASSUME NEW r \in Requests, Crash(r)
      PROVE  FALSE
  BY <1>1, <1>7 DEF Crash
<1>8. ASSUME Elsewhere
      PROVE  FALSE
  BY <1>1, <1>8, ElsewhereEffect DEF OnlyPeriods
<1>9. ASSUME NEW r \in Requests, Select(r) \/ Withdraw(r) \/ Cancel(r) \/ Finalize(r) \/ Manage(r)
      PROVE  WithdrawCancel(r) \/ CancelCascade(r) \/ FinalizeDrop(r) \/ FinalizeEnrol(r)
  <2> SUFFICES ASSUME ~WithdrawCancel(r), ~CancelCascade(r), ~FinalizeDrop(r), ~FinalizeEnrol(r)
               PROVE  FALSE
    OBVIOUS
  <2>1. \A j \in SelectionIds : ~SelectCreate(r, j)
    BY <1>1, <1>2
  <2> QED
    BY <1>1, <1>9, <2>1, OthersKeepSelections, ManageEdits DEF Select, Withdraw, Cancel, Finalize, Edits
<1> QED
  BY <1>3, <1>4, <1>5, <1>6, <1>7, <1>8, <1>9 DEF Next, Elsewhere

\* Nobody else writes what an attempt has read.
LEMMA ReadStands ==
  ASSUME LockInv, [Next]_vars, [SavesInTime]_vars, [\A r \in Requests : WithdrawInTime(r)]_vars,
         NEW q \in Requests, req[q].pc \in Deciding \cup Enrolling, ~FinalizeDrop(q), ~FinalizeEnrol(q),
         NEW i \in req[q].drop \cup req[q].keep
  PROVE  /\ \A statuses : Stands(db, i, statuses) => Stands(db', i, statuses)
         /\ db'.sel[i].student = db.sel[i].student
<1>1. /\ i \in SelectionIds /\ db.sel[i] \in Selection /\ db.sel[i].period = req[q].p
      /\ db.sel[i].discipline \in Disciplines /\ req[q].p \in Periods /\ req[q].pc \in Watched
  <2>1. req[q].p \in Periods /\ i \in SelectionIds /\ req[q].pc \in Watched
    BY CoreFacts, PlaceForms DEF LockInv, Watched
  <2>2. db.sel[i] \in Selection /\ db.sel[i].period = req[q].p
    BY CoreFacts DEF LockInv, Fits
  <2> QED
    BY <2>1, <2>2, CoreFacts, Present DEF LockInv
<1>2. /\ db'.sel[i].discipline = db.sel[i].discipline /\ db'.sel[i].student = db.sel[i].student
      /\ \A d \in Disciplines : db'.disc[d].status # "cancelled" => db.disc[d].status # "cancelled"
  BY <1>1, SelectionsKept, CascadeStep DEF LockInv, Kept, SameChoice
<1>3. CASE db'.sel[i].status = db.sel[i].status
  BY <1>1, <1>2, <1>3 DEF Stands
<1>4. CASE db'.sel[i].status # db.sel[i].status
  <2>1. PICK r \in Requests :
          \/ WithdrawCancel(r) /\ req[r].i = i
          \/ CancelCascade(r) /\ db.sel[i].discipline = req[r].d
          \/ FinalizeDrop(r) /\ db.sel[i].period = req[r].p
          \/ FinalizeEnrol(r) /\ db.sel[i].period = req[r].p
    BY <1>1, <1>4, StatusWriters DEF LockInv
  <2>2. db.period[req[q].p].lock = q /\ db.period[req[q].p].status # "active"
    BY <1>1 DEF LockInv, Owns
  <2>3. ~(WithdrawCancel(r) /\ req[r].i = i)
    <3>1. vars' # vars
      BY <1>4 DEF vars
    <3> QED
      BY <1>1, <2>2, <3>1 DEF WithdrawInTime
  <2>4. ~(FinalizeDrop(r) \/ FinalizeEnrol(r)) \/ db.sel[i].period # req[r].p
    <3> SUFFICES ASSUME FinalizeDrop(r) \/ FinalizeEnrol(r), db.sel[i].period = req[r].p
                 PROVE  FALSE
      OBVIOUS
    <3>1. req[r].pc \in Watched
      BY DEF FinalizeDrop, FinalizeEnrol, At, Watched, Deciding, Enrolling
    <3>2. db.period[req[r].p].lock = r
      BY <3>1 DEF LockInv, Owns
    <3>3. r = q
      BY <1>1, <2>2, <3>2
    <3> QED
      BY <3>3
  <2>5. CancelCascade(r) /\ db.disc[db.sel[i].discipline].status = "cancelled"
    BY <2>1, <2>3, <2>4 DEF CancelCascade, At, LockInv, CascadesAfterFlip
  <2> QED
    BY <1>1, <1>2, <2>5 DEF Stands
<1> QED
  BY <1>3, <1>4

LEMMA RemembersStep ==
  ASSUME LockInv, [Next]_vars, [SavesInTime]_vars, [\A r \in Requests : WithdrawInTime(r)]_vars,
         NEW q \in Requests
  PROVE  Remembers(req'[q], db')
<1>0. Core /\ Core' /\ Remembers(req[q], db)
  BY StepCore DEF LockInv
<1>1. CASE req'[q].pc \notin Deciding \cup Enrolling
  BY <1>1 DEF Remembers, Deciding
<1>2. CASE /\ ~FinalizeDrop(q) /\ ~FinalizeEnrol(q) /\ req[q].pc \in Deciding \cup Enrolling
           /\ req'[q].keep = req[q].keep
           /\ req'[q].pc = "finalize.drop" => req[q].pc = "finalize.drop" /\ req'[q].drop = req[q].drop
  BY <1>0, <1>2, ReadStands DEF Remembers
<1>3. CASE FinalizeRead(q)
  <2> DEFINE p == req[q].p
             read == SelectedIn(db, p)
             drop == {i \in read : db.sel[i].student \in Incomplete(db, req[q].required, read)}
             keep == read \ drop
             c == IF drop = {} THEN "finalize.course" ELSE "finalize.drop"
  <2>1. /\ db' = db /\ Goes(q, [pc |-> c, p |-> p, drop |-> drop, keep |-> keep])
    BY <1>3 DEF FinalizeRead
  <2>2. /\ \A i \in drop \cup keep : db.sel[i].status = "selected"
        /\ \A i \in keep, j \in drop : db.sel[i].student # db.sel[j].student
    BY DEF SelectedIn
  <2> HIDE DEF c, drop, keep
  <2>3. req'[q] = [pc |-> c, p |-> p, drop |-> drop, keep |-> keep]
    BY <1>0, <2>1, GoesTo
  <2>4. req'[q].drop = drop /\ req'[q].keep = keep
    BY <2>3
  <2> QED
    BY <2>1, <2>2, <2>4 DEF Remembers, Stands
<1>4. CASE FinalizeDrop(q)
  <2> DEFINE ids == {i \in SelectedIn(db, req[q].p) :
                       db.sel[i].student \in {db.sel[j].student : j \in req[q].drop}}
             y == [pc |-> "finalize.seats", p |-> req[q].p, drop |-> req[q].drop, keep |-> req[q].keep]
  <2>1. OnlySelections(db, ids, "cancelled", db') /\ Goes(q, y)
    BY <1>0, <1>4, DropWrites
  <2>2. req[q].pc = "finalize.drop" /\ req[q].keep \in SUBSET SelectionIds
    BY <1>0, <1>4, CoreFacts, PlaceForms DEF FinalizeDrop, At, Deciding
  <2>3. \A i \in req[q].keep : i \in SelectionIds /\ i \notin ids
    BY <1>0, <2>2 DEF Remembers
  <2>4. req'[q].pc = "finalize.seats" /\ req'[q].keep = req[q].keep
    BY <1>0, <2>1, GoesTo
  <2> HIDE DEF ids, y
  <2> QED
    BY <1>0, <2>1, <2>2, <2>3, <2>4 DEF Remembers, Stands, OnlySelections, Deciding
<1>5. CASE FinalizeEnrol(q)
  <2> DEFINE mine == InBucket(req[q].keep, req[q].k)
             y == [pc |-> "finalize.course", p |-> req[q].p, drop |-> {}, keep |-> req[q].keep \ mine]
  <2>1. PICK hit \in SUBSET mine : /\ OnlySelections(db, hit, "enrolled", db')
                                   /\ Goes(q, Released(q)) \/ (hit = mine /\ Goes(q, y))
    BY <1>0, <1>5, EnrolWrites
  <2>2. req[q].pc = "finalize.enrol" /\ req[q].keep \in SUBSET SelectionIds
    BY <1>0, <1>5, CoreFacts, PlaceForms DEF FinalizeEnrol, At, Enrolling
  <2>3. y.pc = "finalize.course" /\ y.keep = req[q].keep \ mine
    OBVIOUS
  <2>4. CASE Goes(q, Released(q))
    BY <1>0, <1>1, <2>4, ReleaseUnwatched, UnattendedPlaces DEF Watched
  <2> HIDE DEF y, mine
  <2>5. CASE hit = mine /\ Goes(q, y)
    <3>1. req'[q].pc = "finalize.course" /\ req'[q].keep = req[q].keep \ mine
      BY <1>0, <2>3, <2>5, GoesTo
    <3>2. \A i \in req[q].keep \ mine : Stands(db, i, {"selected", "enrolled"}) /\ db'.sel[i] = db.sel[i]
      BY <1>0, <2>1, <2>2, <2>5 DEF Remembers, OnlySelections, Enrolling
    <3> QED
      BY <2>1, <3>1, <3>2 DEF Remembers, Stands, OnlySelections
  <2> QED
    BY <2>1, <2>4, <2>5
<1>6. CASE req'[q] = req[q]
  <2>1. FinalizeDrop(q) \/ FinalizeEnrol(q) \/ (~FinalizeDrop(q) /\ ~FinalizeEnrol(q))
    OBVIOUS
  <2> QED
    BY <1>1, <1>2, <1>4, <1>5, <1>6, <2>1
<1>7. CASE Finalize(q)
  BY <1>0, <1>1, <1>2, <1>3, <1>4, <1>5, <1>7, AttemptSteps, UnattendedPlaces
     DEF NotAttempting, TakesLock, Reads, ReturnsASeat, Looks, WritesRoll, Ends, Watched, Deciding, Enrolling
<1>8. CASE Select(q) \/ Withdraw(q) \/ Cancel(q) \/ Manage(q) \/ Crash(q)
  <2>1. req'[q].pc \notin Watched
    <3>1. Done.pc \notin Watched
      BY DEF Done, Watched, Deciding, Enrolling
    <3> QED
      BY <1>0, <1>8, <3>1, HandlersMovePeriods, CrashCore
  <2> QED
    BY <1>1, <2>1 DEF Watched
<1>9. ASSUME NEW r \in Requests, Select(r) \/ Withdraw(r) \/ Cancel(r) \/ Finalize(r) \/ Manage(r) \/ Crash(r), r # q
      PROVE  req'[q] = req[q]
  BY <1>0, <1>9, OneMoves
<1>10. CASE Elsewhere
  BY <1>0, <1>6, <1>10, ElsewhereEffect
<1> QED
  BY <1>6, <1>7, <1>8, <1>9, <1>10 DEF Next, Elsewhere

\* Withdrawals cancel while their period is active, and no lock is taken from an attempt that runs.
WithdrawalsInTime == [][\A r \in Requests : WithdrawInTime(r)]_vars
OnlyTheDeadOvertaken == [][\A r \in Requests : TakesFromTheDead(r)]_vars

LEMMA LockInductive ==
  ChosenSpec /\ SavesAreInTime /\ WithdrawalsInTime /\ OnlyTheDeadOvertaken => []LockInv
<1>1. ChosenInit => LockInv
  <2> SUFFICES ASSUME ChosenInit PROVE LockInv
    OBVIOUS
  <2>1. Core /\ \A r \in Requests : req[r].pc = "idle"
    BY InitCore DEF ChosenInit, NothingUnderWay, Idle
  <2> QED
    BY <2>1 DEF LockInv, CascadesAfterFlip, Owns, Remembers, Watched, Deciding, Enrolling
<1>2. ASSUME LockInv, [Next]_vars, [SavesInTime]_vars,
             [\A r \in Requests : WithdrawInTime(r)]_vars, [\A r \in Requests : TakesFromTheDead(r)]_vars
      PROVE  LockInv'
  <2>1. Core' /\ CascadesAfterFlip'
    BY <1>2, StepCore, CascadeStep DEF LockInv
  <2>2. \A r \in Requests : Owns(r)'
    BY <1>2, OwnsStep DEF LockInv
  <2>3. \A r \in Requests : Remembers(req'[r], db')
    BY <1>2, RemembersStep
  <2>4. \A r \in Requests : Remembers(req[r], db)'
    BY <2>3 DEF Remembers, Stands
  <2> QED
    BY <2>1, <2>2, <2>4 DEF LockInv
<1> QED
  BY <1>1, <1>2, PTL DEF ChosenSpec, SavesAreInTime, WithdrawalsInTime, OnlyTheDeadOvertaken

\* The lock does what it is for: nobody is overbooked beside a finalization, if withdrawals that
\* began in time end before the period closes, no attempt outlives its lock's 15 minutes, and no
\* save() of a capacity or a status is late.
COROLLARY FinalizationStaysCovered ==
  ChosenSpec /\ SavesAreInTime /\ WithdrawalsInTime /\ OnlyTheDeadOvertaken => []SeatsCoverSelections
<1>1. LockInv => \A r \in Requests : ActsOnWhatItRead(r)
  <2> SUFFICES ASSUME LockInv, NEW r \in Requests PROVE ActsOnWhatItRead(r)
    OBVIOUS
  <2> QED
    BY DEF LockInv, Remembers, ActsOnWhatItRead, FinalizeDrop, FinalizeEnrol, At, InBucket, Enrolling
<1>2. []LockInv => AttemptsActOnWhatTheyRead
  BY <1>1, PTL DEF AttemptsActOnWhatTheyRead
<1> QED
  BY <1>2, LockInductive, SeatsStayCovered, PTL
====
