---- MODULE ElectivesProofs ----
(***************************************************************************)
(* Proofs about Electives, for any number of students, groups,             *)
(* disciplines, periods, selections and concurrent requests.               *)
(***************************************************************************)
EXTENDS Electives, FiniteSetTheorems, TLAPS

----
(* What a transaction writes is the difference between two databases. *)

LEMMA ChangedIsPartial ==
  ASSUME NEW S, NEW T, NEW f \in [S -> T], NEW g \in [S -> T]
  PROVE  /\ Changed(f, g) \in PartialFunctions(S, T)
         /\ DOMAIN Changed(f, g) = {x \in S : f[x] # g[x]}
<1>1. DOMAIN f = S
  OBVIOUS
<1> DEFINE X == {x \in S : f[x] # g[x]}
<1>2. Changed(f, g) = [x \in X |-> g[x]]
  BY <1>1 DEF Changed
<1>3. Changed(f, g) \in [X -> T] /\ DOMAIN Changed(f, g) = X
  BY <1>2
<1>4. X \in SUBSET S
  OBVIOUS
<1> QED
  BY <1>3, <1>4 DEF PartialFunctions

LEMMA OverlayIsTotal ==
  ASSUME NEW S, NEW T, NEW f \in [S -> T], NEW w \in PartialFunctions(S, T)
  PROVE  Overlay(f, w) \in [S -> T]
<1>1. PICK X \in SUBSET S : w \in [X -> T]
  BY DEF PartialFunctions
<1> QED
  BY <1>1 DEF Overlay

LEMMA OverlayChanged ==
  ASSUME NEW S, NEW T, NEW f \in [S -> T], NEW g \in [S -> T]
  PROVE  Overlay(f, Changed(f, g)) = g
<1>1. DOMAIN Changed(f, g) = {x \in S : f[x] # g[x]}
  BY ChangedIsPartial
<1>2. \A x \in DOMAIN Changed(f, g) : Changed(f, g)[x] = g[x]
  BY DEF Changed
<1>3. \A x \in S : Overlay(f, Changed(f, g))[x] = g[x]
  BY <1>1, <1>2 DEF Overlay
<1>4. DOMAIN Overlay(f, Changed(f, g)) = S /\ DOMAIN g = S
  BY DEF Overlay
<1>5. Overlay(f, Changed(f, g)) = [x \in S |-> Overlay(f, Changed(f, g))[x]]
  BY DEF Overlay
<1> QED
  BY <1>3, <1>5

\* Committing what a handler wrote on a snapshot, if nothing else has committed since,
\* installs exactly the database the handler left.
LEMMA ApplyDiff ==
  ASSUME NEW D \in Database, NEW E \in Database
  PROVE  Apply(D, Diff(D, E)) = E
<1>1. /\ Overlay(D.disc, Changed(D.disc, E.disc)) = E.disc
      /\ Overlay(D.period, Changed(D.period, E.period)) = E.period
      /\ Overlay(D.sel, Changed(D.sel, E.sel)) = E.sel
      /\ Overlay(D.roll, Changed(D.roll, E.roll)) = E.roll
  BY OverlayChanged DEF Database
<1>2. E = [disc |-> E.disc, period |-> E.period, sel |-> E.sel, roll |-> E.roll]
  BY DEF Database
<1> QED
  BY <1>1, <1>2 DEF Apply, Diff

LEMMA IndexEntriesType ==
  ASSUME NEW D \in Database
  PROVE  IndexEntries(D) \subseteq
           (({"choice"} \X Students \X Periods \X Disciplines)
              \cup ({"slot"} \X Students \X Periods \X (0..(MaxChoices - 1))))
<1>1. \A i \in SelectionIds : IsActive(D.sel[i]) => D.sel[i] \in Selection
  BY DEF Database, IsActive, NoSelection
<1>2. \A i \in SelectionIds : IsActive(D.sel[i]) =>
        /\ D.sel[i].student \in Students
        /\ D.sel[i].period \in Periods
        /\ D.sel[i].discipline \in Disciplines
        /\ D.sel[i].slot \in 0..(MaxChoices - 1)
  BY <1>1 DEF Selection
<1> QED
  BY <1>2 DEF IndexEntries

LEMMA DiffType ==
  ASSUME NEW D \in Database, NEW E \in Database
  PROVE  Diff(D, E) \in WriteSet
<1>1. /\ Changed(D.disc, E.disc) \in PartialFunctions(Disciplines, Discipline)
      /\ Changed(D.period, E.period) \in PartialFunctions(Periods, Period)
      /\ Changed(D.sel, E.sel) \in PartialFunctions(SelectionIds, Selection \cup {NoSelection})
      /\ Changed(D.roll, E.roll) \in PartialFunctions(Rolls, RollEntry)
  BY ChangedIsPartial DEF Database
<1>2. (IndexEntries(D) \ IndexEntries(E)) \cup (IndexEntries(E) \ IndexEntries(D))
        \in SUBSET (({"choice"} \X Students \X Periods \X Disciplines)
                      \cup ({"slot"} \X Students \X Periods \X (0..(MaxChoices - 1))))
  BY IndexEntriesType
<1> QED
  BY <1>1, <1>2 DEF Diff, WriteSet

LEMMA ApplyType ==
  ASSUME NEW D \in Database, NEW w \in WriteSet
  PROVE  Apply(D, w) \in Database
<1>1. /\ Overlay(D.disc, w.disc) \in [Disciplines -> Discipline]
      /\ Overlay(D.period, w.period) \in [Periods -> Period]
      /\ Overlay(D.sel, w.sel) \in [SelectionIds -> Selection \cup {NoSelection}]
      /\ Overlay(D.roll, w.roll) \in [Rolls -> RollEntry]
  BY OverlayIsTotal DEF Database, WriteSet
<1> QED
  BY <1>1 DEF Apply, Database

LEMMA NoWritesType == NoWrites \in WriteSet
<1>1. \A S, T : Nothing \in PartialFunctions(S, T)
  <2> SUFFICES ASSUME NEW S, NEW T PROVE Nothing \in PartialFunctions(S, T)
    OBVIOUS
  <2>1. Nothing \in [{} -> T]
    BY DEF Nothing
  <2> QED
    BY <2>1 DEF PartialFunctions
<1> QED
  BY <1>1 DEF NoWrites, WriteSet

----
(* The inductive invariant. *)

CountsExact(D) == \A d \in Disciplines : D.disc[d].enrolled = Cardinality(SeatsOf(D, d))

CapacityHolds(D) == \A d \in Disciplines : D.disc[d].enrolled <= D.disc[d].capacity

EnrolledOnlyWhenFinalized(D) ==
  \A i \in SelectionIds :
    D.sel[i].status = "enrolled" => D.period[D.sel[i].period].status = "finalized"

Consistent(D) == CountsExact(D) /\ CapacityHolds(D) /\ EnrolledOnlyWhenFinalized(D)

\* Each discipline document an open transaction will write respects its own capacity.
WritesFit ==
  \A r \in open : \A d \in DOMAIN write[r].disc :
    write[r].disc[d].enrolled <= write[r].disc[d].capacity

SlotsFit(D) ==
  \A i \in SelectionIds :
    IsActive(D.sel[i]) => /\ D.period[D.sel[i].period].status # "draft"
                          /\ D.sel[i].slot < D.period[D.sel[i].period].required

ChoicesDiffer(D) ==
  \A i, j \in SelectionIds :
    /\ IsActive(D.sel[i]) /\ IsActive(D.sel[j]) /\ i # j
    /\ D.sel[i].student = D.sel[j].student /\ D.sel[i].period = D.sel[j].period
    => D.sel[i].discipline # D.sel[j].discipline /\ D.sel[i].slot # D.sel[j].slot

EnrolledOf(D, s, p) ==
  {i \in SelectionIds : D.sel[i].status = "enrolled" /\ D.sel[i].student = s /\ D.sel[i].period = p}

SetsComplete(D) ==
  \A s \in Students, p \in Periods :
    EnrolledOf(D, s, p) # {} => /\ D.period[p].status = "finalized"
                                /\ Cardinality(EnrolledOf(D, s, p)) = D.period[p].required

OnRoll(D, k) ==
  {D.sel[i].student : i \in {j \in SelectionIds : /\ D.sel[j].status = "enrolled"
                                                  /\ BucketOf(D.sel[j]) = k
                                                  /\ D.sel[j].period = D.roll[k].period}}

RollsMatch(D) == \A k \in Rolls : D.roll[k].students = OnRoll(D, k)

\* The choices of every student, and what finalization made of them.
InOrder(D) == SlotsFit(D) /\ ChoicesDiffer(D) /\ SetsComplete(D) /\ RollsMatch(D)

EntriesOf(x) == {<<"choice", x.student, x.period, x.discipline>>,
                 <<"slot", x.student, x.period, x.slot>>}

SameChoice(x, y) == /\ x.student = y.student /\ x.period = y.period
                    /\ x.discipline = y.discipline /\ x.slot = y.slot

\* What choices rely on in a period: once open it is never a draft again, nor does the
\* number of choices change.
PeriodKeeps(x, y) == x.status # "draft" => y.status # "draft" /\ y.required = x.required

\* The writes w lead from D to a database in order, and carry what keeps that true when
\* others commit first: a new choice claims its index entries, an enrolment writes the
\* period and the roll it depends on.
Fitting(D, w) ==
  /\ \A i \in DOMAIN w.sel : IsActive(w.sel[i]) =>
       /\ D.sel[i].status = "absent" => EntriesOf(w.sel[i]) \subseteq w.index
       /\ D.sel[i].status # "absent" => IsActive(D.sel[i]) /\ SameChoice(w.sel[i], D.sel[i])
       /\ w.sel[i].status = "enrolled" =>
            w.sel[i].period \in DOMAIN w.period /\ BucketOf(w.sel[i]) \in DOMAIN w.roll
       /\ D.period[w.sel[i].period].status # "draft"
  /\ \A p \in DOMAIN w.period : PeriodKeeps(D.period[p], w.period[p])
  /\ InOrder(Apply(D, w))

WritesFitting == \A r \in open : Fitting(db, write[r])

\* For each discipline, E follows from D by a step of the seat book.
BookKept(D, E) ==
  \A d \in Disciplines :
    \/ /\ \E i \in SelectionIds \ SeatsOf(D, d) : SeatsOf(E, d) = SeatsOf(D, d) \cup {i}
       /\ Cardinality(SeatsOf(D, d)) < D.disc[d].capacity
       /\ E.disc[d].capacity = D.disc[d].capacity
    \/ /\ SeatsOf(E, d) \in SUBSET SeatsOf(D, d)
       /\ E.disc[d].capacity = D.disc[d].capacity
    \/ /\ SeatsOf(E, d) = SeatsOf(D, d)
       /\ E.disc[d].capacity \in Cardinality(SeatsOf(D, d))..MaxCapacity

WritesBooked == \A r \in open : BookKept(db, Apply(db, write[r]))

IInv == /\ TypeOK
        /\ Consistent(db) /\ WritesSound /\ WritesFit
        /\ InOrder(db) /\ WritesFitting /\ WritesBooked

\* What a handler owes: it leads from one consistent database to another, it changes a
\* discipline's document whenever it changes the set of its seats, and it leaves what
\* is final alone.
Sound(D, E) ==
  /\ E \in Database
  /\ Consistent(E)
  /\ \A d \in Disciplines : E.disc[d] = D.disc[d] => SeatsOf(E, d) = SeatsOf(D, d)
  /\ \A p \in Periods : E.period[p] # D.period[p] => D.period[p].status # "finalized"
  /\ \A i \in SelectionIds : E.sel[i] # D.sel[i] => D.sel[i].status \in {"absent", "selected"}

\* It also leaves the choices in order, and writes what that depends on.
Proceeds(D, E) ==
  /\ InOrder(E)
  /\ \A i \in SelectionIds : E.sel[i] # D.sel[i] /\ IsActive(E.sel[i]) =>
       /\ D.sel[i].status = "absent" => EntriesOf(E.sel[i]) \cap IndexEntries(D) = {}
       /\ D.sel[i].status # "absent" => IsActive(D.sel[i]) /\ SameChoice(E.sel[i], D.sel[i])
       /\ E.sel[i].status = "enrolled" =>
            /\ E.period[E.sel[i].period] # D.period[E.sel[i].period]
            /\ E.roll[BucketOf(E.sel[i])] # D.roll[BucketOf(E.sel[i])]
       /\ D.period[E.sel[i].period].status # "draft"
  /\ \A p \in Periods : PeriodKeeps(D.period[p], E.period[p])

----
(* Transactions preserve it, whatever the handlers are, as long as they are sound. *)

LEMMA DocumentTypes ==
  ASSUME NEW D \in Database
  PROVE  /\ \A d \in Disciplines : /\ D.disc[d] \in Discipline
                                   /\ D.disc[d].enrolled \in 0..MaxCapacity
                                   /\ D.disc[d].capacity \in 1..MaxCapacity
         /\ \A p \in Periods : D.period[p] \in Period
         /\ \A i \in SelectionIds : D.sel[i].status # "absent" => D.sel[i] \in Selection
  BY DEF Database, Discipline, NoSelection

\* The writes w of an open transaction, judged against the database D.
Installable(D, w) ==
  LET E == Apply(D, w)
  IN  /\ \A d \in Disciplines :
           IF d \in DOMAIN w.disc
             THEN E.disc[d].enrolled = Cardinality(SeatsOf(E, d))
             ELSE SeatsOf(E, d) = SeatsOf(D, d)
      /\ \A p \in DOMAIN w.period : D.period[p].status # "finalized"
      /\ \A i \in DOMAIN w.sel : D.sel[i].status \in {"absent", "selected"}
      /\ \A i \in SelectionIds :
           E.sel[i].status = "enrolled" => E.period[E.sel[i].period].status = "finalized"

\* The invariants about open transactions after a step, stated of the state it reaches.
LEMMA SoundPrimed ==
  (\A r \in open' : Installable(db', write'[r])) => WritesSound'
BY DEF WritesSound, Installable, Apply, SeatsOf

LEMMA BookedPrimed ==
  (\A r \in open' : BookKept(db', Apply(db', write'[r]))) => WritesBooked'
BY Zenon DEF WritesBooked, BookKept, SeatsOf, IsActive, Apply, Overlay

\* The order after a step, stated of the state it reaches.
LEMMA OrderPrimed ==
  InOrder(db') /\ (\A r \in open' : Fitting(db', write'[r])) => InOrder(db)' /\ WritesFitting'
BY Zenon DEF WritesFitting, Fitting, InOrder, SlotsFit, ChoicesDiffer, SetsComplete, RollsMatch, EnrolledOf,
       OnRoll, EntriesOf, SameChoice, PeriodKeeps, BucketOf, IsActive, Apply, Overlay

LEMMA FittingDiff ==
  ASSUME NEW D \in Database, NEW E \in Database, Proceeds(D, E)
  PROVE  Fitting(D, Diff(D, E))
<1>1. DOMAIN D.period = Periods /\ DOMAIN D.sel = SelectionIds /\ DOMAIN D.roll = Rolls
  BY DEF Database
<1> DEFINE w == Diff(D, E)
<1>2. /\ DOMAIN w.period = {p \in Periods : D.period[p] # E.period[p]}
      /\ DOMAIN w.sel = {i \in SelectionIds : D.sel[i] # E.sel[i]}
      /\ DOMAIN w.roll = {k \in Rolls : D.roll[k] # E.roll[k]}
      /\ \A p \in DOMAIN w.period : w.period[p] = E.period[p]
      /\ \A i \in DOMAIN w.sel : w.sel[i] = E.sel[i]
  BY <1>1 DEF Diff, Changed
<1>3. IndexEntries(E) \ IndexEntries(D) \subseteq w.index
  BY DEF Diff
<1>4. InOrder(Apply(D, w))
  BY ApplyDiff DEF Proceeds
<1> HIDE DEF w
<1>5. ASSUME NEW i \in DOMAIN w.sel, IsActive(w.sel[i])
      PROVE  /\ D.sel[i].status = "absent" => EntriesOf(w.sel[i]) \subseteq w.index
             /\ D.sel[i].status # "absent" => IsActive(D.sel[i]) /\ SameChoice(w.sel[i], D.sel[i])
             /\ w.sel[i].status = "enrolled" =>
                  w.sel[i].period \in DOMAIN w.period /\ BucketOf(w.sel[i]) \in DOMAIN w.roll
             /\ D.period[w.sel[i].period].status # "draft"
  <2>1. i \in SelectionIds /\ E.sel[i] # D.sel[i] /\ w.sel[i] = E.sel[i] /\ IsActive(E.sel[i])
    BY <1>2, <1>5
  <2>2. E.sel[i].period \in Periods /\ BucketOf(E.sel[i]) \in Rolls
    BY <2>1, DocumentTypes, GroupAssumption DEF IsActive, Selection, BucketOf, Rolls
  <2>3. EntriesOf(E.sel[i]) \subseteq IndexEntries(E)
    BY <2>1 DEF EntriesOf, IndexEntries
  <2> QED
    BY <1>2, <1>3, <2>1, <2>2, <2>3 DEF Proceeds
<1>6. \A p \in DOMAIN w.period : PeriodKeeps(D.period[p], w.period[p])
  BY <1>2 DEF Proceeds
<1> QED
  BY <1>4, <1>5, <1>6 DEF Fitting, w

LEMMA OpenSound ==
  ASSUME IInv, NEW E, Sound(db, E), Proceeds(db, E), BookKept(db, E),
         NEW r \in Requests, Open(r, E)
  PROVE  IInv'
<1>1. db \in Database /\ E \in Database /\ db' = db /\ ended' = ended
  BY DEF IInv, TypeOK, Sound, Open
<1>2. /\ write \in [Requests -> WriteSet] /\ open \subseteq Requests
      /\ open' = open \cup {r} /\ write' = [write EXCEPT ![r] = Diff(db, E)]
  BY DEF IInv, TypeOK, Open
<1>3. Diff(db, E) \in WriteSet
  BY <1>1, DiffType
<1>4. TypeOK'
  BY <1>1, <1>2, <1>3 DEF IInv, TypeOK
<1>5. Consistent(db)'
  BY <1>1 DEF IInv, Consistent, CountsExact, CapacityHolds, EnrolledOnlyWhenFinalized, SeatsOf
<1>6. Apply(db, Diff(db, E)) = E
  BY <1>1, ApplyDiff
<1>7. /\ DOMAIN Diff(db, E).disc = {d \in Disciplines : db.disc[d] # E.disc[d]}
      /\ DOMAIN Diff(db, E).period = {p \in Periods : db.period[p] # E.period[p]}
      /\ DOMAIN Diff(db, E).sel = {i \in SelectionIds : db.sel[i] # E.sel[i]}
  <2>1. DOMAIN db.disc = Disciplines /\ DOMAIN db.period = Periods /\ DOMAIN db.sel = SelectionIds
    BY <1>1 DEF Database
  <2> QED
    BY <2>1 DEF Diff, Changed
<1>8. \A d \in DOMAIN Diff(db, E).disc : Diff(db, E).disc[d] = E.disc[d]
  BY DEF Diff, Changed
<1>9. WritesSound'
  <2> SUFFICES ASSUME NEW q \in open' PROVE Installable(db, write'[q])
    BY <1>1, SoundPrimed
  <2>1. CASE q = r
    <3>1. write'[q] = Diff(db, E) /\ Apply(db, write'[q]) = E
      BY <1>2, <1>6, <2>1
    <3> QED
      BY <1>7, <3>1 DEF Installable, Sound, Consistent, CountsExact, EnrolledOnlyWhenFinalized
  <2>2. CASE q # r
    <3>1. q \in open /\ write'[q] = write[q]
      BY <1>2, <2>2
    <3> QED
      BY <3>1 DEF IInv, WritesSound, Installable
  <2> QED
    BY <2>1, <2>2
<1>10. WritesFit'
  <2> SUFFICES ASSUME NEW q \in open', NEW d \in DOMAIN write'[q].disc
               PROVE  write'[q].disc[d].enrolled <= write'[q].disc[d].capacity
    BY DEF WritesFit
  <2>1. CASE q = r
    <3>1. write'[q] = Diff(db, E)
      BY <1>2, <2>1
    <3> QED
      BY <3>1, <1>7, <1>8 DEF Sound, Consistent, CapacityHolds
  <2>2. CASE q # r
    <3>1. q \in open /\ write'[q] = write[q]
      BY <1>2, <2>2
    <3> QED
      BY <3>1 DEF IInv, WritesFit
  <2> QED
    BY <2>1, <2>2
<1>11. \A q \in open' : Fitting(db, write'[q])
  <2>1. write'[r] = Diff(db, E) /\ \A q \in open : q # r => write'[q] = write[q]
    BY <1>2
  <2>2. Fitting(db, Diff(db, E))
    BY <1>1, FittingDiff
  <2> QED
    BY <1>2, <2>1, <2>2 DEF IInv, WritesFitting
<1>12. InOrder(db)
  BY DEF IInv
<1>13. \A q \in open' : BookKept(db, Apply(db, write'[q]))
  <2>1. write'[r] = Diff(db, E) /\ \A q \in open : q # r => write'[q] = write[q]
    BY <1>2
  <2> QED
    BY <1>2, <1>6, <2>1 DEF IInv, WritesBooked
<1>14. WritesBooked'
  BY <1>1, <1>13, BookedPrimed
<1> QED
  BY <1>1, <1>4, <1>5, <1>9, <1>10, <1>11, <1>12, <1>14, OrderPrimed DEF IInv

\* What Apply yields, document by document.
LEMMA ApplyPointwise ==
  ASSUME NEW D \in Database, NEW w \in WriteSet
  PROVE  /\ \A d \in Disciplines :
              Apply(D, w).disc[d] = IF d \in DOMAIN w.disc THEN w.disc[d] ELSE D.disc[d]
         /\ \A p \in Periods :
              Apply(D, w).period[p] = IF p \in DOMAIN w.period THEN w.period[p] ELSE D.period[p]
         /\ \A i \in SelectionIds :
              Apply(D, w).sel[i] = IF i \in DOMAIN w.sel THEN w.sel[i] ELSE D.sel[i]
         /\ \A k \in Rolls :
              Apply(D, w).roll[k] = IF k \in DOMAIN w.roll THEN w.roll[k] ELSE D.roll[k]
<1>1. /\ DOMAIN D.disc = Disciplines /\ DOMAIN D.period = Periods
      /\ DOMAIN D.sel = SelectionIds /\ DOMAIN D.roll = Rolls
  BY DEF Database
<1> QED
  BY <1>1 DEF Apply, Overlay

LEMMA WriteDomains ==
  ASSUME NEW w \in WriteSet
  PROVE  /\ DOMAIN w.disc \subseteq Disciplines
         /\ DOMAIN w.period \subseteq Periods
         /\ DOMAIN w.sel \subseteq SelectionIds
         /\ DOMAIN w.roll \subseteq Rolls
<1>1. \A S, T, f : f \in PartialFunctions(S, T) => DOMAIN f \subseteq S
  BY DEF PartialFunctions
<1>2. /\ w.disc \in PartialFunctions(Disciplines, Discipline)
      /\ w.period \in PartialFunctions(Periods, Period)
      /\ w.sel \in PartialFunctions(SelectionIds, Selection \cup {NoSelection})
      /\ w.roll \in PartialFunctions(Rolls, RollEntry)
  BY DEF WriteSet
<1> QED
  BY <1>1, <1>2

LEMMA AbortSound ==
  ASSUME IInv, NEW r \in Requests, Abort(r)
  PROVE  IInv'
<1>1. db' = db /\ ended' = ended /\ open' = open \ {r}
  BY DEF Abort, Keep
<1>2. write' = [q \in Requests |-> IF q \in open \ {r} THEN write[q] ELSE NoWrites]
  BY DEF Abort, Keep
<1>3. write \in [Requests -> WriteSet] /\ open \subseteq Requests
  BY DEF IInv, TypeOK
<1>4. write' \in [Requests -> WriteSet]
  BY <1>2, <1>3, NoWritesType
<1>5. TypeOK'
  BY <1>1, <1>3, <1>4 DEF IInv, TypeOK
<1>6. Consistent(db)'
  BY <1>1 DEF IInv, Consistent, CountsExact, CapacityHolds, EnrolledOnlyWhenFinalized, SeatsOf
<1>7. \A q \in open' : q \in open /\ write'[q] = write[q]
  BY <1>1, <1>2, <1>3
<1>8. WritesSound' /\ WritesFit'
  <2>1. (\A q \in open : Installable(db, write[q])) /\ WritesFit
    BY DEF IInv, WritesSound, Installable
  <2>2. WritesSound'
    BY <1>1, <1>7, <2>1, SoundPrimed
  <2>3. WritesFit'
    BY <1>7, <2>1 DEF WritesFit
  <2> QED
    BY <2>2, <2>3
<1>9. InOrder(db) /\ \A q \in open' : Fitting(db, write'[q])
  BY <1>7 DEF IInv, WritesFitting
<1>10. \A q \in open' : BookKept(db, Apply(db, write'[q]))
  BY <1>7 DEF IInv, WritesBooked
<1>11. WritesBooked'
  BY <1>1, <1>10, BookedPrimed
<1> QED
  BY <1>1, <1>5, <1>6, <1>8, <1>9, <1>11, OrderPrimed DEF IInv

\* The heart of the argument: writes that could be installed on D still can after the
\* writes v of another transaction, provided the two do not conflict.
LEMMA InstallableAfter ==
  ASSUME NEW D \in Database, NEW v \in WriteSet, NEW w \in WriteSet,
         EnrolledOnlyWhenFinalized(D),
         Installable(D, v), Installable(D, w), ~ Overlap(v, w)
  PROVE  Installable(Apply(D, v), w)
<1> DEFINE E == Apply(D, v)
           F == Apply(E, w)
           G == Apply(D, w)
<1>1. E \in Database /\ F \in Database /\ G \in Database
  BY ApplyType
<1>2. /\ DOMAIN v.disc \subseteq Disciplines /\ DOMAIN w.disc \subseteq Disciplines
      /\ DOMAIN v.period \subseteq Periods /\ DOMAIN w.period \subseteq Periods
      /\ DOMAIN v.sel \subseteq SelectionIds /\ DOMAIN w.sel \subseteq SelectionIds
  BY WriteDomains
<1>3. /\ DOMAIN v.disc \cap DOMAIN w.disc = {}
      /\ DOMAIN v.period \cap DOMAIN w.period = {}
      /\ DOMAIN v.sel \cap DOMAIN w.sel = {}
  BY DEF Overlap
<1>E. /\ \A d \in Disciplines : E.disc[d] = IF d \in DOMAIN v.disc THEN v.disc[d] ELSE D.disc[d]
      /\ \A p \in Periods : E.period[p] = IF p \in DOMAIN v.period THEN v.period[p] ELSE D.period[p]
      /\ \A i \in SelectionIds : E.sel[i] = IF i \in DOMAIN v.sel THEN v.sel[i] ELSE D.sel[i]
  BY ApplyPointwise
<1>F. /\ \A d \in Disciplines : F.disc[d] = IF d \in DOMAIN w.disc THEN w.disc[d] ELSE E.disc[d]
      /\ \A p \in Periods : F.period[p] = IF p \in DOMAIN w.period THEN w.period[p] ELSE E.period[p]
      /\ \A i \in SelectionIds : F.sel[i] = IF i \in DOMAIN w.sel THEN w.sel[i] ELSE E.sel[i]
  BY <1>1, ApplyPointwise
<1>G. /\ \A d \in Disciplines : G.disc[d] = IF d \in DOMAIN w.disc THEN w.disc[d] ELSE D.disc[d]
      /\ \A p \in Periods : G.period[p] = IF p \in DOMAIN w.period THEN w.period[p] ELSE D.period[p]
      /\ \A i \in SelectionIds : G.sel[i] = IF i \in DOMAIN w.sel THEN w.sel[i] ELSE D.sel[i]
  BY ApplyPointwise
<1> HIDE DEF E, F, G
<1>4. ASSUME NEW d \in Disciplines, d \in DOMAIN w.disc
      PROVE  F.disc[d].enrolled = Cardinality(SeatsOf(F, d))
  <2>1. SeatsOf(E, d) = SeatsOf(D, d)
    BY <1>3, <1>4 DEF Installable, E
  <2>2. \A i \in SelectionIds : i \in SeatsOf(F, d) <=> i \in SeatsOf(G, d)
    BY <2>1, <1>E, <1>F, <1>G DEF SeatsOf
  <2>3. SeatsOf(F, d) = SeatsOf(G, d)
    BY <2>2 DEF SeatsOf
  <2>4. G.disc[d].enrolled = Cardinality(SeatsOf(G, d))
    BY <1>4 DEF Installable, G
  <2> QED
    BY <2>3, <2>4, <1>4, <1>F, <1>G
<1>5. ASSUME NEW d \in Disciplines, d \notin DOMAIN w.disc
      PROVE  SeatsOf(F, d) = SeatsOf(E, d)
  <2>1. SeatsOf(G, d) = SeatsOf(D, d)
    BY <1>5 DEF Installable, G
  <2>2. \A i \in SelectionIds : i \in SeatsOf(F, d) <=> i \in SeatsOf(E, d)
    BY <2>1, <1>2, <1>3, <1>E, <1>F, <1>G DEF SeatsOf
  <2> QED
    BY <2>2 DEF SeatsOf
<1>6. \A p \in DOMAIN w.period : E.period[p].status # "finalized"
  BY <1>2, <1>3, <1>E DEF Installable
<1>7. \A i \in DOMAIN w.sel : E.sel[i].status \in {"absent", "selected"}
  BY <1>2, <1>3, <1>E DEF Installable
<1>8. ASSUME NEW i \in SelectionIds, F.sel[i].status = "enrolled"
      PROVE  F.period[F.sel[i].period].status = "finalized"
  <2>1. F.sel[i].period \in Periods
    BY <1>1, <1>8 DEF Database, Selection, NoSelection
  <2>2. CASE i \in DOMAIN w.sel
    <3>1. F.sel[i] = G.sel[i] /\ G.period[G.sel[i].period].status = "finalized"
      BY <1>8, <2>2, <1>F, <1>G DEF Installable, G
    <3>2. \A p \in DOMAIN v.period : D.period[p].status # "finalized"
      BY DEF Installable
    <3> QED
      BY <2>1, <3>1, <3>2, <1>E, <1>F, <1>G
  <2>3. CASE i \notin DOMAIN w.sel
    <3>1. F.sel[i] = E.sel[i]
      BY <2>3, <1>F
    <3>2. E.period[E.sel[i].period].status = "finalized"
      BY <3>1, <1>8 DEF Installable, E
    <3> QED
      BY <2>1, <3>1, <3>2, <1>6, <1>F
  <2> QED
    BY <2>2, <2>3
<1> QED
  BY <1>4, <1>5, <1>6, <1>7, <1>8 DEF Installable, E, F

\* Nor does v change what w does to the seats of a discipline.
LEMMA BookedAfter ==
  ASSUME NEW D \in Database, NEW v \in WriteSet, NEW w \in WriteSet,
         Installable(D, v), Installable(D, w), BookKept(D, Apply(D, w)), ~ Overlap(v, w)
  PROVE  BookKept(Apply(D, v), Apply(Apply(D, v), w))
<1> DEFINE E == Apply(D, v)
           F == Apply(E, w)
           G == Apply(D, w)
<1>1. E \in Database /\ F \in Database /\ G \in Database
  BY ApplyType
<1>2. /\ DOMAIN v.disc \cap DOMAIN w.disc = {}
      /\ DOMAIN v.sel \cap DOMAIN w.sel = {}
  BY DEF Overlap
<1>3. /\ \A d \in Disciplines : E.disc[d] = IF d \in DOMAIN v.disc THEN v.disc[d] ELSE D.disc[d]
      /\ \A i \in SelectionIds : E.sel[i] = IF i \in DOMAIN v.sel THEN v.sel[i] ELSE D.sel[i]
      /\ \A d \in Disciplines : G.disc[d] = IF d \in DOMAIN w.disc THEN w.disc[d] ELSE D.disc[d]
      /\ \A i \in SelectionIds : G.sel[i] = IF i \in DOMAIN w.sel THEN w.sel[i] ELSE D.sel[i]
  BY ApplyPointwise
<1>4. /\ \A d \in Disciplines : F.disc[d] = IF d \in DOMAIN w.disc THEN w.disc[d] ELSE E.disc[d]
      /\ \A i \in SelectionIds : F.sel[i] = IF i \in DOMAIN w.sel THEN w.sel[i] ELSE E.sel[i]
  BY <1>1, ApplyPointwise
<1> HIDE DEF E, F, G
<1>5. ASSUME NEW d \in Disciplines, d \in DOMAIN w.disc
      PROVE  /\ SeatsOf(E, d) = SeatsOf(D, d) /\ SeatsOf(F, d) = SeatsOf(G, d)
             /\ E.disc[d] = D.disc[d] /\ F.disc[d] = G.disc[d]
  <2>1. SeatsOf(E, d) = SeatsOf(D, d)
    BY <1>2, <1>5 DEF Installable, E
  <2>2. \A i \in SelectionIds : i \in SeatsOf(F, d) <=> i \in SeatsOf(G, d)
    BY <2>1, <1>3, <1>4 DEF SeatsOf
  <2>3. SeatsOf(F, d) = SeatsOf(G, d)
    BY <2>2 DEF SeatsOf
  <2> QED
    BY <1>2, <1>3, <1>4, <1>5, <2>1, <2>3
<1>6. ASSUME NEW d \in Disciplines, d \notin DOMAIN w.disc
      PROVE  SeatsOf(F, d) \in SUBSET SeatsOf(E, d) /\ F.disc[d].capacity = E.disc[d].capacity
  <2>1. SeatsOf(G, d) = SeatsOf(D, d)
    BY <1>6 DEF Installable, G
  <2>2. \A i \in SelectionIds : i \in SeatsOf(F, d) => i \in SeatsOf(E, d)
    BY <2>1, <1>2, <1>3, <1>4 DEF SeatsOf
  <2> QED
    BY <1>4, <1>6, <2>2 DEF SeatsOf
<1>7. BookKept(D, G)
  BY DEF G
<1> QED
  BY <1>5, <1>6, <1>7 DEF BookKept, E, F

\* The same for the order of the choices: writes that keep D in order keep it in order
\* after the writes v of another transaction that does not conflict.  A choice v adds and
\* one w adds differ because their index entries do; what v enrols lies in periods and on
\* rolls that w does not touch.
LEMMA FittingAfter ==
  ASSUME NEW D \in Database, NEW v \in WriteSet, NEW w \in WriteSet,
         Installable(D, v), Installable(D, w), Fitting(D, v), Fitting(D, w), ~ Overlap(v, w)
  PROVE  Fitting(Apply(D, v), w)
<1> DEFINE E == Apply(D, v)
           F == Apply(E, w)
           G == Apply(D, w)
<1>1. E \in Database /\ F \in Database /\ G \in Database
  BY ApplyType
<1>2. /\ DOMAIN v.period \subseteq Periods /\ DOMAIN w.period \subseteq Periods
      /\ DOMAIN v.sel \subseteq SelectionIds /\ DOMAIN w.sel \subseteq SelectionIds
  BY WriteDomains
<1>3. /\ DOMAIN v.period \cap DOMAIN w.period = {}
      /\ DOMAIN v.sel \cap DOMAIN w.sel = {}
      /\ DOMAIN v.roll \cap DOMAIN w.roll = {}
      /\ v.index \cap w.index = {}
  BY DEF Overlap
<1>E. /\ \A p \in Periods : E.period[p] = IF p \in DOMAIN v.period THEN v.period[p] ELSE D.period[p]
      /\ \A i \in SelectionIds : E.sel[i] = IF i \in DOMAIN v.sel THEN v.sel[i] ELSE D.sel[i]
      /\ \A k \in Rolls : E.roll[k] = IF k \in DOMAIN v.roll THEN v.roll[k] ELSE D.roll[k]
  BY ApplyPointwise
<1>F. /\ \A p \in Periods : F.period[p] = IF p \in DOMAIN w.period THEN w.period[p] ELSE E.period[p]
      /\ \A i \in SelectionIds : F.sel[i] = IF i \in DOMAIN w.sel THEN w.sel[i] ELSE E.sel[i]
      /\ \A k \in Rolls : F.roll[k] = IF k \in DOMAIN w.roll THEN w.roll[k] ELSE E.roll[k]
  BY <1>1, ApplyPointwise
<1>G. /\ \A p \in Periods : G.period[p] = IF p \in DOMAIN w.period THEN w.period[p] ELSE D.period[p]
      /\ \A i \in SelectionIds : G.sel[i] = IF i \in DOMAIN w.sel THEN w.sel[i] ELSE D.sel[i]
      /\ \A k \in Rolls : G.roll[k] = IF k \in DOMAIN w.roll THEN w.roll[k] ELSE D.roll[k]
  BY ApplyPointwise
<1>4. InOrder(E) /\ InOrder(G)
  BY DEF Fitting
<1>5. /\ \A i \in DOMAIN v.sel : D.sel[i].status \in {"absent", "selected"}
      /\ \A i \in DOMAIN w.sel : D.sel[i].status \in {"absent", "selected"}
  BY DEF Installable
<1> HIDE DEF E, F, G
<1>6. \A p \in Periods : /\ PeriodKeeps(D.period[p], E.period[p])
                         /\ PeriodKeeps(E.period[p], F.period[p])
                         /\ PeriodKeeps(G.period[p], F.period[p])
  <2>1. /\ \A p \in DOMAIN v.period : PeriodKeeps(D.period[p], v.period[p])
        /\ \A p \in DOMAIN w.period : PeriodKeeps(D.period[p], w.period[p])
    BY DEF Fitting
  <2>2. \A x : PeriodKeeps(x, x)
    BY DEF PeriodKeeps
  <2>3. \A p \in Periods : PeriodKeeps(D.period[p], E.period[p])
    BY <1>E, <2>1, <2>2
  <2> SUFFICES ASSUME NEW p \in Periods
               PROVE  /\ PeriodKeeps(E.period[p], F.period[p])
                      /\ PeriodKeeps(G.period[p], F.period[p])
    BY <2>3
  <2>4. CASE p \in DOMAIN w.period
    <3>1. E.period[p] = D.period[p] /\ F.period[p] = w.period[p] /\ G.period[p] = w.period[p]
      BY <1>3, <1>E, <1>F, <1>G, <2>4
    <3> QED
      BY <2>1, <2>2, <2>4, <3>1
  <2>5. CASE p \notin DOMAIN w.period
    <3>1. F.period[p] = E.period[p] /\ G.period[p] = D.period[p]
      BY <1>F, <1>G, <2>5
    <3> QED
      BY <2>2, <2>3, <3>1
  <2> QED
    BY <2>4, <2>5
<1>7. \A i \in SelectionIds : F.sel[i] = E.sel[i] \/ (i \in DOMAIN w.sel /\ F.sel[i] = G.sel[i])
  BY <1>F, <1>G
<1>8. SlotsFit(F)
  <2> SUFFICES ASSUME NEW i \in SelectionIds, IsActive(F.sel[i])
               PROVE  /\ F.period[F.sel[i].period].status # "draft"
                      /\ F.sel[i].slot < F.period[F.sel[i].period].required
    BY DEF SlotsFit
  <2>1. F.sel[i].period \in Periods
    BY <1>1, DocumentTypes DEF IsActive, Selection
  <2>2. CASE F.sel[i] = E.sel[i]
    BY <1>4, <1>6, <2>1, <2>2 DEF InOrder, SlotsFit, PeriodKeeps
  <2>3. CASE F.sel[i] = G.sel[i]
    BY <1>4, <1>6, <2>1, <2>3 DEF InOrder, SlotsFit, PeriodKeeps
  <2> QED
    BY <1>7, <2>2, <2>3
<1>9. ASSUME NEW i \in DOMAIN w.sel, NEW j \in SelectionIds \ DOMAIN w.sel,
             IsActive(F.sel[i]), IsActive(F.sel[j]),
             F.sel[i].student = F.sel[j].student, F.sel[i].period = F.sel[j].period
      PROVE  F.sel[i].discipline # F.sel[j].discipline /\ F.sel[i].slot # F.sel[j].slot
  <2>1. /\ F.sel[i] = w.sel[i] /\ G.sel[i] = w.sel[i] /\ E.sel[i] = D.sel[i]
        /\ F.sel[j] = E.sel[j] /\ G.sel[j] = D.sel[j] /\ i \in SelectionIds /\ i # j
    BY <1>2, <1>3, <1>E, <1>F, <1>G
  <2>2. CASE D.sel[i].status # "absent"
    <3>1. IsActive(E.sel[i]) /\ SameChoice(F.sel[i], E.sel[i])
      BY <1>9, <2>1, <2>2 DEF Fitting
    <3> QED
      BY <1>4, <1>9, <2>1, <3>1 DEF InOrder, ChoicesDiffer, SameChoice
  <2>3. CASE G.sel[j] = F.sel[j]
    BY <1>4, <1>9, <2>1, <2>3 DEF InOrder, ChoicesDiffer
  <2>4. CASE j \in DOMAIN v.sel /\ D.sel[j].status # "absent"
    <3>1. IsActive(G.sel[j]) /\ SameChoice(F.sel[j], G.sel[j])
      BY <1>9, <1>E, <2>1, <2>4 DEF Fitting
    <3> QED
      BY <1>4, <1>9, <2>1, <3>1 DEF InOrder, ChoicesDiffer, SameChoice
  <2>5. CASE j \in DOMAIN v.sel /\ D.sel[i].status = "absent" /\ D.sel[j].status = "absent"
    <3>1. EntriesOf(F.sel[i]) \subseteq w.index
      BY <1>9, <2>1, <2>5 DEF Fitting
    <3>2. EntriesOf(F.sel[j]) \subseteq v.index
      BY <1>9, <1>E, <2>1, <2>5 DEF Fitting
    <3>3. EntriesOf(F.sel[i]) \cap EntriesOf(F.sel[j]) = {}
      BY <1>3, <3>1, <3>2
    <3> QED
      BY <1>9, <3>3 DEF EntriesOf
  <2> QED
    BY <1>E, <2>1, <2>2, <2>3, <2>4, <2>5
<1>10. ChoicesDiffer(F)
  <2> SUFFICES ASSUME NEW i \in SelectionIds, NEW j \in SelectionIds,
                      IsActive(F.sel[i]), IsActive(F.sel[j]), i # j,
                      F.sel[i].student = F.sel[j].student, F.sel[i].period = F.sel[j].period
               PROVE  F.sel[i].discipline # F.sel[j].discipline /\ F.sel[i].slot # F.sel[j].slot
    BY DEF ChoicesDiffer
  <2>1. CASE i \in DOMAIN w.sel /\ j \in DOMAIN w.sel
    <3>1. F.sel[i] = G.sel[i] /\ F.sel[j] = G.sel[j]
      BY <1>F, <1>G, <2>1
    <3> QED
      BY <1>4, <3>1 DEF InOrder, ChoicesDiffer
  <2>2. CASE i \notin DOMAIN w.sel /\ j \notin DOMAIN w.sel
    <3>1. F.sel[i] = E.sel[i] /\ F.sel[j] = E.sel[j]
      BY <1>F, <2>2
    <3> QED
      BY <1>4, <3>1 DEF InOrder, ChoicesDiffer
  <2>3. CASE i \in DOMAIN w.sel /\ j \notin DOMAIN w.sel
    BY <1>9, <2>3
  <2>4. CASE i \notin DOMAIN w.sel /\ j \in DOMAIN w.sel
    BY <1>9, <2>4
  <2> QED
    BY <2>1, <2>2, <2>3, <2>4
<1>11. ASSUME NEW i \in SelectionIds, NEW x, x.status = "enrolled",
              x = E.sel[i] \/ x = F.sel[i] \/ x = G.sel[i]
       PROVE  \/ E.sel[i] = x /\ F.sel[i] = x /\ G.sel[i] = x
              \/ /\ E.sel[i] = x /\ F.sel[i] = x /\ G.sel[i].status # "enrolled"
                 /\ x.period \in DOMAIN v.period /\ BucketOf(x) \in DOMAIN v.roll
              \/ /\ E.sel[i].status # "enrolled" /\ F.sel[i] = x /\ G.sel[i] = x
                 /\ x.period \in DOMAIN w.period /\ BucketOf(x) \in DOMAIN w.roll
  <2>1. CASE i \in DOMAIN v.sel
    <3>1. /\ E.sel[i] = v.sel[i] /\ F.sel[i] = v.sel[i] /\ G.sel[i] = D.sel[i]
          /\ D.sel[i].status # "enrolled"
      BY <1>2, <1>3, <1>5, <1>E, <1>F, <1>G, <2>1
    <3>2. x = v.sel[i] /\ IsActive(x)
      BY <1>11, <3>1 DEF IsActive
    <3> QED
      BY <1>11, <2>1, <3>1, <3>2 DEF Fitting
  <2>2. CASE i \in DOMAIN w.sel
    <3>1. /\ E.sel[i] = D.sel[i] /\ F.sel[i] = w.sel[i] /\ G.sel[i] = w.sel[i]
          /\ D.sel[i].status # "enrolled"
      BY <1>2, <1>3, <1>5, <1>E, <1>F, <1>G, <2>2
    <3>2. x = w.sel[i] /\ IsActive(x)
      BY <1>11, <3>1 DEF IsActive
    <3> QED
      BY <1>11, <2>2, <3>1, <3>2 DEF Fitting
  <2>3. CASE i \notin DOMAIN v.sel /\ i \notin DOMAIN w.sel
    BY <1>11, <1>E, <1>F, <1>G, <2>3
  <2> QED
    BY <2>1, <2>2, <2>3
<1>12. SetsComplete(F)
  <2> SUFFICES ASSUME NEW s \in Students, NEW p \in Periods, EnrolledOf(F, s, p) # {}
               PROVE  /\ F.period[p].status = "finalized"
                      /\ Cardinality(EnrolledOf(F, s, p)) = F.period[p].required
    BY DEF SetsComplete
  <2>1. CASE p \in DOMAIN w.period
    <3>1. \A i \in SelectionIds : i \in EnrolledOf(F, s, p) <=> i \in EnrolledOf(G, s, p)
      <4> TAKE i \in SelectionIds
      <4>1. ASSUME i \in EnrolledOf(F, s, p) PROVE i \in EnrolledOf(G, s, p)
        BY <1>3, <1>11, <2>1, <4>1 DEF EnrolledOf
      <4>2. ASSUME i \in EnrolledOf(G, s, p) PROVE i \in EnrolledOf(F, s, p)
        BY <1>3, <1>11, <2>1, <4>2 DEF EnrolledOf
      <4> QED
        BY <4>1, <4>2
    <3>2. EnrolledOf(F, s, p) = EnrolledOf(G, s, p)
      BY <3>1 DEF EnrolledOf
    <3>3. F.period[p] = G.period[p]
      BY <1>F, <1>G, <2>1
    <3> QED
      BY <1>4, <3>2, <3>3 DEF InOrder, SetsComplete
  <2>2. CASE p \notin DOMAIN w.period
    <3>1. \A i \in SelectionIds : i \in EnrolledOf(F, s, p) <=> i \in EnrolledOf(E, s, p)
      <4> TAKE i \in SelectionIds
      <4>1. ASSUME i \in EnrolledOf(F, s, p) PROVE i \in EnrolledOf(E, s, p)
        BY <1>11, <2>2, <4>1 DEF EnrolledOf
      <4>2. ASSUME i \in EnrolledOf(E, s, p) PROVE i \in EnrolledOf(F, s, p)
        BY <1>11, <2>2, <4>2 DEF EnrolledOf
      <4> QED
        BY <4>1, <4>2
    <3>2. EnrolledOf(F, s, p) = EnrolledOf(E, s, p)
      BY <3>1 DEF EnrolledOf
    <3>3. F.period[p] = E.period[p]
      BY <1>F, <2>2
    <3> QED
      BY <1>4, <3>2, <3>3 DEF InOrder, SetsComplete
  <2> QED
    BY <2>1, <2>2
<1>13. RollsMatch(F)
  <2> SUFFICES ASSUME NEW k \in Rolls PROVE F.roll[k].students = OnRoll(F, k)
    BY DEF RollsMatch
  <2> DEFINE named(X) == {j \in SelectionIds : /\ X.sel[j].status = "enrolled"
                                               /\ BucketOf(X.sel[j]) = k
                                               /\ X.sel[j].period = X.roll[k].period}
  <2>1. CASE k \in DOMAIN w.roll
    <3>1. F.roll[k] = G.roll[k]
      BY <1>F, <1>G, <2>1
    <3>2. \A j \in SelectionIds :
            /\ j \in named(F) => j \in named(G) /\ F.sel[j] = G.sel[j]
            /\ j \in named(G) => j \in named(F)
      <4> TAKE j \in SelectionIds
      <4>1. ASSUME j \in named(F) PROVE j \in named(G) /\ F.sel[j] = G.sel[j]
        BY <1>3, <1>11, <2>1, <3>1, <4>1
      <4>2. ASSUME j \in named(G) PROVE j \in named(F)
        BY <1>3, <1>11, <2>1, <3>1, <4>2
      <4> QED
        BY <4>1, <4>2
    <3>3. OnRoll(F, k) = OnRoll(G, k)
      <4>1. named(F) = named(G) /\ \A j \in named(F) : F.sel[j] = G.sel[j]
        BY <3>2
      <4>2. OnRoll(F, k) = {F.sel[j].student : j \in named(F)}
        BY DEF OnRoll
      <4>3. OnRoll(G, k) = {G.sel[j].student : j \in named(G)}
        BY DEF OnRoll
      <4> HIDE DEF named
      <4> QED
        BY <4>1, <4>2, <4>3
    <3> QED
      BY <1>4, <3>1, <3>3 DEF InOrder, RollsMatch
  <2>2. CASE k \notin DOMAIN w.roll
    <3>1. F.roll[k] = E.roll[k]
      BY <1>F, <2>2
    <3>2. \A j \in SelectionIds :
            /\ j \in named(F) => j \in named(E) /\ F.sel[j] = E.sel[j]
            /\ j \in named(E) => j \in named(F)
      <4> TAKE j \in SelectionIds
      <4>1. ASSUME j \in named(F) PROVE j \in named(E) /\ F.sel[j] = E.sel[j]
        BY <1>11, <2>2, <3>1, <4>1
      <4>2. ASSUME j \in named(E) PROVE j \in named(F)
        BY <1>11, <2>2, <3>1, <4>2
      <4> QED
        BY <4>1, <4>2
    <3>3. OnRoll(F, k) = OnRoll(E, k)
      <4>1. named(F) = named(E) /\ \A j \in named(F) : F.sel[j] = E.sel[j]
        BY <3>2
      <4>2. OnRoll(F, k) = {F.sel[j].student : j \in named(F)}
        BY DEF OnRoll
      <4>3. OnRoll(E, k) = {E.sel[j].student : j \in named(E)}
        BY DEF OnRoll
      <4> HIDE DEF named
      <4> QED
        BY <4>1, <4>2, <4>3
    <3> QED
      BY <1>4, <3>1, <3>3 DEF InOrder, RollsMatch
  <2> QED
    BY <2>1, <2>2
<1>14. ASSUME NEW i \in DOMAIN w.sel, IsActive(w.sel[i])
       PROVE  /\ E.sel[i].status = "absent" => EntriesOf(w.sel[i]) \subseteq w.index
              /\ E.sel[i].status # "absent" => IsActive(E.sel[i]) /\ SameChoice(w.sel[i], E.sel[i])
              /\ w.sel[i].status = "enrolled" =>
                   w.sel[i].period \in DOMAIN w.period /\ BucketOf(w.sel[i]) \in DOMAIN w.roll
              /\ E.period[w.sel[i].period].status # "draft"
  <2>1. E.sel[i] = D.sel[i] /\ G.sel[i] = w.sel[i] /\ i \in SelectionIds
    BY <1>2, <1>3, <1>E, <1>G
  <2>2. w.sel[i].period \in Periods
    BY <1>1, <1>14, <2>1, DocumentTypes DEF IsActive, Selection
  <2>3. D.period[w.sel[i].period].status # "draft"
    BY <1>14 DEF Fitting
  <2>4. E.period[w.sel[i].period].status # "draft"
    BY <1>6, <2>2, <2>3 DEF PeriodKeeps
  <2> QED
    BY <1>14, <2>1, <2>4 DEF Fitting
<1>15. \A p \in DOMAIN w.period : PeriodKeeps(E.period[p], w.period[p])
  BY <1>2, <1>3, <1>E DEF Fitting
<1>16. InOrder(F)
  BY <1>8, <1>10, <1>12, <1>13 DEF InOrder
<1> QED
  BY <1>14, <1>15, <1>16 DEF Fitting, E, F

\* Writes that may be installed are installed, by a commit or outside any transaction,
\* and the open transactions that conflict with them are gone.
LEMMA InstallSound ==
  ASSUME IInv, NEW w \in WriteSet, NEW others \in SUBSET open,
         Installable(db, w), Fitting(db, w),
         \A d \in DOMAIN w.disc : w.disc[d].enrolled <= w.disc[d].capacity,
         db' = Apply(db, w), ended' = ended, Keep(Survivors(w, others))
  PROVE  IInv'
<1> DEFINE survivors == Survivors(w, others)
<1>1. /\ open' = survivors
      /\ write' = [q \in Requests |-> IF q \in survivors THEN write[q] ELSE NoWrites]
  BY DEF Keep
<1>2. /\ db \in Database /\ write \in [Requests -> WriteSet] /\ open \subseteq Requests
  BY DEF IInv, TypeOK
<1>3. survivors \subseteq open /\ \A q \in survivors : ~ Overlap(write[q], w)
  BY DEF Survivors
<1>4. \A q \in open' : q \in open /\ write'[q] = write[q]
  BY <1>1, <1>2, <1>3
<1>5. TypeOK'
  <2>1. write' \in [Requests -> WriteSet]
    BY <1>1, <1>2, NoWritesType
  <2>2. db' \in Database
    BY <1>2, ApplyType
  <2> QED
    BY <1>1, <1>2, <1>3, <2>1, <2>2 DEF IInv, TypeOK
<1>6. \A q \in open : Installable(db, write[q])
  BY DEF IInv, WritesSound, Installable
<1>7. Consistent(db')
  <2>1. \A d \in Disciplines :
          db'.disc[d] = IF d \in DOMAIN w.disc THEN w.disc[d] ELSE db.disc[d]
    BY <1>2, ApplyPointwise
  <2>2. CountsExact(db')
    <3> SUFFICES ASSUME NEW d \in Disciplines
                 PROVE  db'.disc[d].enrolled = Cardinality(SeatsOf(db', d))
      BY DEF CountsExact
    <3>1. CASE d \in DOMAIN w.disc
      BY <3>1 DEF Installable
    <3>2. CASE d \notin DOMAIN w.disc
      <4>1. SeatsOf(db', d) = SeatsOf(db, d)
        BY <3>2 DEF Installable
      <4> QED
        BY <2>1, <3>2, <4>1 DEF IInv, Consistent, CountsExact
    <3> QED
      BY <3>1, <3>2
  <2>3. CapacityHolds(db')
    BY <2>1 DEF IInv, Consistent, CapacityHolds
  <2>4. EnrolledOnlyWhenFinalized(db')
    BY DEF Installable, EnrolledOnlyWhenFinalized
  <2> QED
    BY <2>2, <2>3, <2>4 DEF Consistent
<1>8. ASSUME NEW q \in open'
      PROVE  Installable(db', write'[q])
  <2>1. q \in open /\ write'[q] = write[q] /\ write[q] \in WriteSet
    BY <1>2, <1>4
  <2>2. ~ Overlap(w, write[q])
    BY <1>1, <1>3 DEF Overlap
  <2>3. EnrolledOnlyWhenFinalized(db)
    BY DEF IInv, Consistent
  <2> QED
    BY <1>2, <1>6, <2>1, <2>2, <2>3, InstallableAfter
<1>9. WritesSound'
  BY <1>8, SoundPrimed
<1>10. WritesFit'
  BY <1>4 DEF IInv, WritesFit
<1>11. \A q \in open' : Fitting(db', write'[q])
  <2> SUFFICES ASSUME NEW q \in open' PROVE Fitting(db', write'[q])
    OBVIOUS
  <2>1. q \in open /\ write'[q] = write[q] /\ write[q] \in WriteSet /\ ~ Overlap(w, write[q])
    BY <1>1, <1>2, <1>3, <1>4 DEF Overlap
  <2> QED
    BY <1>2, <1>6, <2>1, FittingAfter DEF IInv, WritesFitting
<1>12. InOrder(db')
  BY DEF Fitting
<1>13. \A q \in open' : BookKept(db', Apply(db', write'[q]))
  <2> SUFFICES ASSUME NEW q \in open' PROVE BookKept(db', Apply(db', write'[q]))
    OBVIOUS
  <2>1. q \in open /\ write'[q] = write[q] /\ write[q] \in WriteSet /\ ~ Overlap(w, write[q])
    BY <1>1, <1>2, <1>3, <1>4 DEF Overlap
  <2> QED
    BY <1>2, <1>6, <2>1, BookedAfter DEF IInv, WritesBooked
<1>14. WritesBooked'
  BY <1>13, BookedPrimed
<1> QED
  BY <1>5, <1>7, <1>9, <1>10, <1>11, <1>12, <1>14, OrderPrimed
     DEF IInv, Consistent, CountsExact, CapacityHolds, EnrolledOnlyWhenFinalized, SeatsOf

LEMMA CommitSound ==
  ASSUME IInv, NEW r \in Requests, Commit(r)
  PROVE  IInv'
<1>1. /\ r \in open /\ db' = Apply(db, write[r]) /\ ended' = ended
      /\ Keep(Survivors(write[r], open \ {r}))
  BY DEF Commit
<1>2. write[r] \in WriteSet /\ open \ {r} \in SUBSET open
  BY DEF IInv, TypeOK
<1>3. Installable(db, write[r])
  BY <1>1 DEF IInv, WritesSound, Installable
<1>4. \A d \in DOMAIN write[r].disc : write[r].disc[d].enrolled <= write[r].disc[d].capacity
  BY <1>1 DEF IInv, WritesFit
<1>5. Fitting(db, write[r])
  BY <1>1 DEF IInv, WritesFitting
<1> QED
  BY <1>1, <1>2, <1>3, <1>4, <1>5, InstallSound

----
(* The handlers are sound. *)

LEMMA SeatsFinite ==
  ASSUME NEW D, NEW d
  PROVE  IsFiniteSet(SeatsOf(D, d)) /\ Cardinality(SeatsOf(D, d)) \in Nat
<1>1. SeatsOf(D, d) \in SUBSET SelectionIds
  BY DEF SeatsOf
<1> QED
  BY <1>1, FiniteAssumption, FS_Subset, FS_CardinalityType

\* The statements, collection by collection.
FourCollections(D) ==
  D = [disc |-> D.disc, period |-> D.period, sel |-> D.sel, roll |-> D.roll]

IsTotal(f, S) == f = [x \in S |-> f[x]]

LEMMA DatabaseIsFour == ASSUME NEW D \in Database PROVE FourCollections(D)
BY DEF Database, FourCollections

LEMMA FieldUpdate ==
  ASSUME NEW D, FourCollections(D), NEW x
  PROVE  /\ [D EXCEPT !.disc = x]
              = [disc |-> x, period |-> D.period, sel |-> D.sel, roll |-> D.roll]
         /\ [D EXCEPT !.period = x]
              = [disc |-> D.disc, period |-> x, sel |-> D.sel, roll |-> D.roll]
         /\ [D EXCEPT !.sel = x]
              = [disc |-> D.disc, period |-> D.period, sel |-> x, roll |-> D.roll]
         /\ [D EXCEPT !.roll = x]
              = [disc |-> D.disc, period |-> D.period, sel |-> D.sel, roll |-> x]
BY DEF FourCollections

\* E differs from D in the selections `ids`, which now all have the given status.
SelectionsBecome(D, ids, status, E) ==
  /\ FourCollections(E)
  /\ E.disc = D.disc /\ E.period = D.period /\ E.roll = D.roll
  /\ IsTotal(E.sel, SelectionIds)
  /\ \A i \in SelectionIds \ ids : E.sel[i] = D.sel[i]
  /\ \A i \in ids : /\ E.sel[i] \in Selection
                    /\ E.sel[i].status = status
                    /\ SameChoice(E.sel[i], D.sel[i])

LEMMA CancelSelectionsEffect ==
  ASSUME NEW D, FourCollections(D), NEW ids \in SUBSET SelectionIds,
         NEW reason \in CancelReason, \A i \in ids : D.sel[i] \in Selection
  PROVE  SelectionsBecome(D, ids, "cancelled", CancelSelections(D, ids, reason))
<1> DEFINE E == CancelSelections(D, ids, reason)
           gone(y) == [y EXCEPT !.status = "cancelled", !.reason = reason]
           x == [i \in SelectionIds |-> IF i \in ids THEN gone(D.sel[i]) ELSE D.sel[i]]
<1>1. CancelSelections(D, ids, reason) = [D EXCEPT !.sel = x]
  BY DEF CancelSelections
<1>2. \A i \in ids : /\ x[i] \in Selection /\ x[i].status = "cancelled"
                     /\ SameChoice(x[i], D.sel[i])
  <2>1. ASSUME NEW y \in Selection
        PROVE  gone(y) \in Selection /\ gone(y).status = "cancelled" /\ SameChoice(gone(y), y)
    BY <2>1 DEF Selection, SameChoice
  <2> HIDE DEF gone
  <2> QED
    BY <2>1
<1>3. /\ \A i \in SelectionIds \ ids : x[i] = D.sel[i]
      /\ IsTotal(x, SelectionIds)
  BY DEF IsTotal
<1> HIDE DEF x
<1>4. E = [disc |-> D.disc, period |-> D.period, sel |-> x, roll |-> D.roll]
  BY <1>1, FieldUpdate
<1> HIDE DEF E
<1> QED
  BY <1>2, <1>3, <1>4 DEF SelectionsBecome, FourCollections, E

LEMMA EnrolSelectionsEffect ==
  ASSUME NEW D, FourCollections(D), NEW ids \in SUBSET SelectionIds,
         \A i \in ids : D.sel[i] \in Selection
  PROVE  SelectionsBecome(D, ids, "enrolled", EnrolSelections(D, ids))
<1> DEFINE E == EnrolSelections(D, ids)
           x == [i \in SelectionIds |->
                  IF i \in ids THEN [D.sel[i] EXCEPT !.status = "enrolled"] ELSE D.sel[i]]
<1>1. EnrolSelections(D, ids) = [D EXCEPT !.sel = x]
  BY DEF EnrolSelections
<1>2. \A i \in ids : /\ x[i] \in Selection /\ x[i].status = "enrolled"
                     /\ SameChoice(x[i], D.sel[i])
  BY DEF Selection, SameChoice
<1>3. /\ \A i \in SelectionIds \ ids : x[i] = D.sel[i]
      /\ IsTotal(x, SelectionIds)
  BY DEF IsTotal
<1> HIDE DEF x
<1>4. E = [disc |-> D.disc, period |-> D.period, sel |-> x, roll |-> D.roll]
  BY <1>1, FieldUpdate
<1> HIDE DEF E
<1> QED
  BY <1>2, <1>3, <1>4 DEF SelectionsBecome, FourCollections, E

\* E differs from D in the counters, which lost count[d] seats each (but stop at zero).
SeatsReturned(D, count, E) ==
  /\ FourCollections(E)
  /\ E.period = D.period /\ E.sel = D.sel /\ E.roll = D.roll
  /\ E.disc \in [Disciplines -> Discipline]
  /\ \A d \in Disciplines : /\ E.disc[d].capacity = D.disc[d].capacity
                            /\ E.disc[d].enrolled = Less(D.disc[d].enrolled, count[d])

LEMMA LessType ==
  ASSUME NEW n \in 0..MaxCapacity, NEW m \in Nat
  PROVE  Less(n, m) \in 0..MaxCapacity /\ (m = 0 => Less(n, m) = n)
BY BoundsAssumption DEF Less

LEMMA ReturnSeatEffect ==
  ASSUME NEW D, FourCollections(D), NEW e \in Disciplines,
         D.disc \in [Disciplines -> Discipline]
  PROVE  SeatsReturned(D, [d \in Disciplines |-> IF d = e THEN 1 ELSE 0], ReturnSeat(D, e))
<1> DEFINE E == ReturnSeat(D, e)
           count == [d \in Disciplines |-> IF d = e THEN 1 ELSE 0]
           x == [D.disc EXCEPT ![e].enrolled = Less(@, 1)]
<1>1. ReturnSeat(D, e) = [D EXCEPT !.disc = x]
  BY DEF ReturnSeat
<1>2. \A d \in Disciplines : D.disc[d] \in Discipline /\ D.disc[d].enrolled \in 0..MaxCapacity
  BY DEF Discipline
<1>3. /\ Less(D.disc[e].enrolled, 1) \in 0..MaxCapacity
      /\ \A d \in Disciplines : Less(D.disc[d].enrolled, 0) = D.disc[d].enrolled
  BY <1>2, LessType
<1>4. x[e] = [D.disc[e] EXCEPT !.enrolled = Less(@, 1)]
  OBVIOUS
<1>5. \A d \in Disciplines : d # e => x[d] = D.disc[d]
  OBVIOUS
<1>6. /\ x[e] \in Discipline /\ x[e].capacity = D.disc[e].capacity
      /\ x[e].enrolled = Less(D.disc[e].enrolled, 1)
  BY <1>2, <1>3, <1>4 DEF Discipline
<1>7. x \in [Disciplines -> Discipline]
  BY <1>2, <1>6
<1>8. \A d \in Disciplines : /\ x[d].capacity = D.disc[d].capacity
                             /\ x[d].enrolled = Less(D.disc[d].enrolled, count[d])
  BY <1>3, <1>5, <1>6
<1> HIDE DEF x, count
<1>9. E = [disc |-> x, period |-> D.period, sel |-> D.sel, roll |-> D.roll]
  BY <1>1, FieldUpdate
<1> HIDE DEF E
<1> QED
  BY <1>7, <1>8, <1>9 DEF SeatsReturned, FourCollections, E, count

LEMMA ReturnSeatsEffect ==
  ASSUME NEW D, FourCollections(D), NEW ids, D.disc \in [Disciplines -> Discipline]
  PROVE  SeatsReturned(D, [d \in Disciplines |-> Cardinality(ids \cap SeatsOf(D, d))],
                       ReturnSeats(D, ids))
<1> DEFINE E == ReturnSeats(D, ids)
           count == [d \in Disciplines |-> Cardinality(ids \cap SeatsOf(D, d))]
           x == [d \in Disciplines |->
                  [D.disc[d] EXCEPT !.enrolled = Less(@, Cardinality(ids \cap SeatsOf(D, d)))]]
<1>1. ReturnSeats(D, ids) = [D EXCEPT !.disc = x]
  BY DEF ReturnSeats
<1>2. \A d \in Disciplines : D.disc[d] \in Discipline /\ D.disc[d].enrolled \in 0..MaxCapacity
  BY DEF Discipline
<1>3. \A d \in Disciplines : Cardinality(ids \cap SeatsOf(D, d)) \in Nat
  <2> SUFFICES ASSUME NEW d \in Disciplines
               PROVE  Cardinality(ids \cap SeatsOf(D, d)) \in Nat
    OBVIOUS
  <2>1. ids \cap SeatsOf(D, d) \in SUBSET SelectionIds
    BY DEF SeatsOf
  <2> QED
    BY <2>1, FiniteAssumption, FS_Subset, FS_CardinalityType
<1>4. \A d \in Disciplines :
        /\ x[d] \in Discipline /\ x[d].capacity = D.disc[d].capacity
        /\ x[d].enrolled = Less(D.disc[d].enrolled, count[d])
  <2> SUFFICES ASSUME NEW d \in Disciplines
               PROVE  /\ x[d] \in Discipline /\ x[d].capacity = D.disc[d].capacity
                      /\ x[d].enrolled = Less(D.disc[d].enrolled, count[d])
    OBVIOUS
  <2> DEFINE n == Less(D.disc[d].enrolled, Cardinality(ids \cap SeatsOf(D, d)))
  <2>1. n \in 0..MaxCapacity
    BY <1>2, <1>3, LessType
  <2>2. x[d] = [D.disc[d] EXCEPT !.enrolled = n] /\ n = Less(D.disc[d].enrolled, count[d])
    OBVIOUS
  <2> HIDE DEF n, x, count
  <2> QED
    BY <1>2, <2>1, <2>2 DEF Discipline
<1>5. x \in [Disciplines -> Discipline]
  BY <1>4
<1> HIDE DEF x, count
<1>6. E = [disc |-> x, period |-> D.period, sel |-> D.sel, roll |-> D.roll]
  BY <1>1, FieldUpdate
<1> HIDE DEF E
<1> QED
  BY <1>4, <1>5, <1>6 DEF SeatsReturned, FourCollections, E, count

\* A step that leaves enrolments, rolls and finalized periods alone keeps them matched.
LEMMA EnrolmentKept ==
  ASSUME NEW D, NEW E, SetsComplete(D), RollsMatch(D), E.roll = D.roll,
         \A i \in SelectionIds :
           E.sel[i].status = "enrolled" \/ D.sel[i].status = "enrolled" => E.sel[i] = D.sel[i],
         \A p \in Periods : D.period[p].status = "finalized" => E.period[p] = D.period[p]
  PROVE  SetsComplete(E) /\ RollsMatch(E)
<1>1. SetsComplete(E)
  <2> SUFFICES ASSUME NEW s \in Students, NEW p \in Periods, EnrolledOf(E, s, p) # {}
               PROVE  /\ E.period[p].status = "finalized"
                      /\ Cardinality(EnrolledOf(E, s, p)) = E.period[p].required
    BY DEF SetsComplete
  <2>1. EnrolledOf(E, s, p) = EnrolledOf(D, s, p)
    BY DEF EnrolledOf
  <2> QED
    BY <2>1 DEF SetsComplete
<1>2. RollsMatch(E)
  <2> SUFFICES ASSUME NEW k \in Rolls PROVE E.roll[k].students = OnRoll(E, k)
    BY DEF RollsMatch
  <2>1. OnRoll(E, k) = OnRoll(D, k)
    <3> DEFINE named(X) == {j \in SelectionIds : /\ X.sel[j].status = "enrolled"
                                                 /\ BucketOf(X.sel[j]) = k
                                                 /\ X.sel[j].period = X.roll[k].period}
    <3>1. named(E) = named(D) /\ \A j \in named(E) : E.sel[j] = D.sel[j]
      OBVIOUS
    <3>2. /\ OnRoll(E, k) = {E.sel[j].student : j \in named(E)}
          /\ OnRoll(D, k) = {D.sel[j].student : j \in named(D)}
      BY DEF OnRoll
    <3> HIDE DEF named
    <3> QED
      BY <3>1, <3>2
  <2> QED
    BY <2>1 DEF RollsMatch
<1> QED
  BY <1>1, <1>2

\* E has no choice that D has not, and enrols nobody.
Lessens(D, E) ==
  /\ E.roll = D.roll
  /\ \A i \in SelectionIds :
       E.sel[i] = D.sel[i] \/ (D.sel[i].status = "selected" /\ E.sel[i].status = "cancelled")
  /\ \A p \in Periods : /\ PeriodKeeps(D.period[p], E.period[p])
                        /\ D.period[p].status = "finalized" => E.period[p] = D.period[p]

LEMMA LessensProceeds ==
  ASSUME NEW D \in Database, NEW E \in Database, InOrder(D), Lessens(D, E)
  PROVE  InOrder(E) /\ Proceeds(D, E)
<1>1. \A i \in SelectionIds : IsActive(E.sel[i]) =>
        E.sel[i] = D.sel[i] /\ IsActive(D.sel[i]) /\ D.sel[i].period \in Periods
  BY DocumentTypes DEF Lessens, IsActive, Selection
<1>2. \A i \in SelectionIds : E.sel[i].status = "enrolled" \/ D.sel[i].status = "enrolled" =>
        E.sel[i] = D.sel[i]
  BY DEF Lessens
<1>3. SlotsFit(E)
  BY <1>1 DEF InOrder, SlotsFit, Lessens, PeriodKeeps
<1>4. ChoicesDiffer(E)
  BY <1>1 DEF InOrder, ChoicesDiffer
<1>5. SetsComplete(E) /\ RollsMatch(E)
  BY <1>2, EnrolmentKept DEF InOrder, Lessens
<1>7. InOrder(E)
  BY <1>3, <1>4, <1>5 DEF InOrder
<1> QED
  BY <1>1, <1>7 DEF Proceeds, Lessens

\* closeExpiredPeriods changes only periods that are active.
LEMMA CloseExpiredEffect ==
  ASSUME NEW D \in Database, NEW X, Consistent(D)
  PROVE  LET C == CloseExpired(D, X)
         IN  /\ C \in Database /\ Consistent(C)
             /\ C.disc = D.disc /\ C.sel = D.sel /\ C.roll = D.roll
             /\ \A p \in Periods : /\ C.period[p] # D.period[p] => D.period[p].status = "active"
                                   /\ C.period[p].status = "active" => C.period[p] = D.period[p]
                                   /\ D.period[p].status = "finalized" => C.period[p] = D.period[p]
             /\ Lessens(D, C)
<1> DEFINE C == CloseExpired(D, X)
<1>1. /\ C.disc = D.disc /\ C.sel = D.sel /\ C.roll = D.roll
      /\ C.period = [p \in Periods |-> IF D.period[p].status = "active" /\ p \in X
                                        THEN [D.period[p] EXCEPT !.status = "closed"]
                                        ELSE D.period[p]]
  BY DEF CloseExpired, Database
<1>2. C.period \in [Periods -> Period]
  BY <1>1, DocumentTypes DEF Period, PeriodStatus
<1>3. C = [disc |-> C.disc, period |-> C.period, sel |-> C.sel, roll |-> C.roll]
  BY DEF CloseExpired, Database
<1>4. C \in Database
  BY <1>1, <1>2, <1>3 DEF Database
<1>5. \A p \in Periods : /\ C.period[p] # D.period[p] => D.period[p].status = "active"
                         /\ C.period[p].status = "active" => C.period[p] = D.period[p]
                         /\ D.period[p].status = "finalized" => C.period[p] = D.period[p]
  BY <1>1, DocumentTypes DEF Period
<1>6. \A i \in SelectionIds : D.sel[i].status = "enrolled" => D.sel[i].period \in Periods
  BY DocumentTypes DEF Selection
<1>7. EnrolledOnlyWhenFinalized(C)
  BY <1>1, <1>5, <1>6 DEF Consistent, EnrolledOnlyWhenFinalized
<1>8. Consistent(C)
  BY <1>1, <1>7 DEF Consistent, CountsExact, CapacityHolds, SeatsOf
<1>9. Lessens(D, C)
  <2>1. \A p \in Periods : PeriodKeeps(D.period[p], C.period[p])
    BY <1>1, DocumentTypes DEF Period, PeriodKeeps
  <2> QED
    BY <1>1, <1>5, <2>1 DEF Lessens
<1> QED
  BY <1>1, <1>4, <1>5, <1>8, <1>9

\* Handlers that write no selection.
LEMMA ManagerSound ==
  ASSUME NEW D \in Database, NEW E \in Database, Consistent(D),
         E.sel = D.sel,
         \A d \in Disciplines : /\ E.disc[d].enrolled = D.disc[d].enrolled
                                /\ E.disc[d].enrolled <= E.disc[d].capacity,
         \A p \in Periods : E.period[p] # D.period[p] => D.period[p].status # "finalized"
  PROVE  Sound(D, E)
<1>1. \A d : SeatsOf(E, d) = SeatsOf(D, d)
  BY DEF SeatsOf
<1>2. CountsExact(E) /\ CapacityHolds(E)
  BY <1>1 DEF Consistent, CountsExact, CapacityHolds
<1>3. EnrolledOnlyWhenFinalized(E)
  <2>1. \A i \in SelectionIds : D.sel[i].status = "enrolled" => D.sel[i].period \in Periods
    BY DocumentTypes DEF Selection
  <2> QED
    BY <2>1 DEF Consistent, EnrolledOnlyWhenFinalized
<1> QED
  BY <1>1, <1>2, <1>3 DEF Sound, Consistent

LEMMA SeatsLeft ==
  ASSUME NEW D, NEW E,
         \A i \in SelectionIds : IsActive(E.sel[i]) =>
           IsActive(D.sel[i]) /\ E.sel[i].discipline = D.sel[i].discipline,
         \A d \in Disciplines : E.disc[d].capacity = D.disc[d].capacity
  PROVE  BookKept(D, E)
<1>1. \A d \in Disciplines : SeatsOf(E, d) \in SUBSET SeatsOf(D, d)
  BY DEF SeatsOf
<1> QED
  BY <1>1 DEF BookKept

LEMMA SeatsResized ==
  ASSUME NEW D \in Database, NEW E \in Database, Consistent(D), E.sel = D.sel,
         \A d \in Disciplines : D.disc[d].enrolled <= E.disc[d].capacity
  PROVE  BookKept(D, E)
<1>1. \A d : SeatsOf(E, d) = SeatsOf(D, d)
  BY DEF SeatsOf
<1>2. ASSUME NEW d \in Disciplines
      PROVE  E.disc[d].capacity \in Cardinality(SeatsOf(D, d))..MaxCapacity
  <2>1. D.disc[d].enrolled = Cardinality(SeatsOf(D, d)) /\ D.disc[d].enrolled <= E.disc[d].capacity
    BY DEF Consistent, CountsExact
  <2>2. D.disc[d].enrolled \in 0..MaxCapacity /\ E.disc[d].capacity \in 1..MaxCapacity
    BY DocumentTypes
  <2> QED
    BY <2>1, <2>2, BoundsAssumption
<1> QED
  BY <1>1, <1>2 DEF BookKept

LEMMA SelectSound ==
  ASSUME NEW D \in Database, Consistent(D), NEW X,
         NEW s \in Students, NEW p \in Periods, NEW d \in Disciplines, NEW i \in SelectionIds,
         NEW slot \in 0..(MaxChoices - 1),
         HasFreeSeat(CloseExpired(D, X), d), D.sel[i].status = "absent"
  PROVE  LET C == CloseExpired(D, X)
             E == InsertSelection(TakeSeat(C, d), i, s, p, d, slot)
         IN  /\ Sound(D, E) /\ BookKept(D, E)
             /\ E.period = C.period /\ E.roll = D.roll
             /\ \A j \in SelectionIds : j # i => E.sel[j] = D.sel[j]
             /\ E.sel[i] = [status |-> "selected", reason |-> "none", student |-> s,
                            period |-> p, discipline |-> d, slot |-> slot]
<1> DEFINE C == CloseExpired(D, X)
           E == InsertSelection(TakeSeat(C, d), i, s, p, d, slot)
           new == [status |-> "selected", reason |-> "none", student |-> s,
                   period |-> p, discipline |-> d, slot |-> slot]
<1>1. /\ C \in Database /\ Consistent(C)
      /\ C.disc = D.disc /\ C.sel = D.sel /\ C.roll = D.roll
      /\ \A q \in Periods : C.period[q] # D.period[q] => D.period[q].status = "active"
  BY CloseExpiredEffect
<1>2. HasFreeSeat(C, d)
  OBVIOUS
<1> HIDE DEF C
<1>3. /\ E.disc = [C.disc EXCEPT ![d].enrolled = @ + 1]
      /\ E.sel = [C.sel EXCEPT ![i] = new]
      /\ E.period = C.period /\ E.roll = C.roll
      /\ E = [disc |-> E.disc, period |-> E.period, sel |-> E.sel, roll |-> E.roll]
  <2> DEFINE T == TakeSeat(C, d)
             taken == [C.disc EXCEPT ![d].enrolled = @ + 1]
  <2>1. C = [disc |-> C.disc, period |-> C.period, sel |-> C.sel, roll |-> C.roll]
    BY <1>1 DEF Database
  <2>2. T = [disc |-> taken, period |-> C.period, sel |-> C.sel, roll |-> C.roll]
    BY <2>1 DEF TakeSeat
  <2>3. E = [disc |-> taken, period |-> C.period, sel |-> [C.sel EXCEPT ![i] = new],
             roll |-> C.roll]
    BY <2>2 DEF InsertSelection
  <2> QED
    BY <2>3
<1> HIDE DEF E
<1>4. new \in Selection
  BY DEF Selection, CancelReason
<1>5. /\ \A e \in Disciplines : e # d => E.disc[e] = C.disc[e]
      /\ E.disc[d] = [C.disc[d] EXCEPT !.enrolled = @ + 1]
      /\ E.disc[d].enrolled = C.disc[d].enrolled + 1
      /\ E.disc[d].capacity = C.disc[d].capacity
  BY <1>1, <1>3, DocumentTypes DEF Database, Discipline
<1>6. C.disc[d].enrolled < C.disc[d].capacity
  BY <1>2 DEF HasFreeSeat
<1>7. E.disc \in [Disciplines -> Discipline]
  <2>1. E.disc[d] \in Discipline
    BY <1>1, <1>5, <1>6, DocumentTypes, BoundsAssumption DEF Discipline
  <2> QED
    BY <1>1, <1>3, <1>5, <2>1 DEF Database
<1>8. E \in Database
  BY <1>1, <1>3, <1>4, <1>7 DEF Database
<1>9. /\ \A j \in SelectionIds : j # i => E.sel[j] = C.sel[j]
      /\ E.sel[i] = new /\ C.sel[i].status = "absent"
  BY <1>1, <1>3 DEF Database
<1>10. SeatsOf(E, d) = SeatsOf(C, d) \cup {i} /\ i \notin SeatsOf(C, d)
  BY <1>9 DEF SeatsOf, IsActive
<1>11. \A e \in Disciplines : e # d => SeatsOf(E, e) = SeatsOf(C, e)
  BY <1>9 DEF SeatsOf, IsActive
<1>12. Cardinality(SeatsOf(E, d)) = Cardinality(SeatsOf(C, d)) + 1
  BY <1>10, SeatsFinite, FS_AddElement
<1>13. CountsExact(E)
  BY <1>1, <1>5, <1>11, <1>12 DEF Consistent, CountsExact
<1>14. CapacityHolds(E)
  <2>1. C.disc[d].enrolled \in Int /\ C.disc[d].capacity \in Int
    BY <1>1, DocumentTypes
  <2>2. \A e \in Disciplines : C.disc[e].enrolled <= C.disc[e].capacity
    BY <1>1 DEF Consistent, CapacityHolds
  <2> QED
    <3>1. E.disc[d].enrolled <= E.disc[d].capacity
      <4>1. E.disc[d].enrolled = C.disc[d].enrolled + 1 /\ E.disc[d].capacity = C.disc[d].capacity
        BY <1>5
      <4> QED
        BY <4>1, <1>6, <2>1
    <3>2. \A e \in Disciplines : e # d => E.disc[e] = C.disc[e]
      BY <1>5
    <3> QED
      BY <2>2, <3>1, <3>2 DEF CapacityHolds
<1>15. EnrolledOnlyWhenFinalized(E)
  BY <1>1, <1>3, <1>9 DEF Consistent, EnrolledOnlyWhenFinalized
<1>16. \A e \in Disciplines : E.disc[e] = D.disc[e] => SeatsOf(E, e) = SeatsOf(D, e)
  <2>1. \A e : SeatsOf(C, e) = SeatsOf(D, e)
    BY <1>1 DEF SeatsOf
  <2>2. E.disc[d] # D.disc[d]
    <3>1. C.disc[d].enrolled \in Int /\ C.disc[d] = D.disc[d]
      BY <1>1, DocumentTypes
    <3>2. E.disc[d].enrolled = C.disc[d].enrolled + 1
      BY <1>5
    <3>3. E.disc[d].enrolled # C.disc[d].enrolled
      BY <3>1, <3>2
    <3> QED
      BY <3>1, <3>3
  <2> QED
    BY <1>11, <2>1, <2>2
<1>17. \A j \in SelectionIds : E.sel[j] # D.sel[j] => D.sel[j].status \in {"absent", "selected"}
  BY <1>1, <1>9
<1>18. \A q \in Periods : E.period[q] # D.period[q] => D.period[q].status # "finalized"
  BY <1>1, <1>3
<1>19. Sound(D, E)
  BY <1>8, <1>13, <1>14, <1>15, <1>16, <1>17, <1>18 DEF Sound, Consistent
<1>20. BookKept(D, E)
  <2>1. \A e : SeatsOf(C, e) = SeatsOf(D, e)
    BY <1>1 DEF SeatsOf
  <2>2. /\ SeatsOf(E, d) = SeatsOf(D, d) \cup {i} /\ i \in SelectionIds \ SeatsOf(D, d)
        /\ E.disc[d].capacity = D.disc[d].capacity
        /\ Cardinality(SeatsOf(D, d)) < D.disc[d].capacity
    BY <1>1, <1>5, <1>6, <1>10, <2>1 DEF Consistent, CountsExact
  <2>3. \A e \in Disciplines : e # d => /\ SeatsOf(E, e) = SeatsOf(D, e)
                                        /\ E.disc[e].capacity = D.disc[e].capacity
    BY <1>1, <1>5, <1>11, <2>1
  <2> QED
    BY <2>2, <2>3 DEF BookKept
<1> QED
  BY <1>1, <1>3, <1>9, <1>19, <1>20 DEF E, C

\* A new choice is one the student does not have yet, at a free slot of an open period.
LEMMA SelectProceeds ==
  ASSUME NEW D \in Database, Consistent(D), InOrder(D), NEW X,
         NEW s \in Students, NEW p \in Periods, NEW d \in Disciplines, NEW i \in SelectionIds,
         NEW slot \in 0..(MaxChoices - 1), NEW C, C = CloseExpired(D, X),
         MayChoose(C, s, p, d), LowestFreeSlot(C, s, p, slot), D.sel[i].status = "absent"
  PROVE  Proceeds(D, InsertSelection(TakeSeat(C, d), i, s, p, d, slot))
<1> DEFINE E == InsertSelection(TakeSeat(C, d), i, s, p, d, slot)
<1>1. /\ C \in Database /\ C.sel = D.sel /\ C.roll = D.roll /\ Lessens(D, C)
      /\ C.period[p].status = "active" => C.period[p] = D.period[p]
  BY CloseExpiredEffect
<1>2. InOrder(C)
  BY <1>1, LessensProceeds
<1>3. HasFreeSeat(C, d) /\ C.period[p].status = "active" /\ slot < C.period[p].required
  BY DEF MayChoose, IsOpen, LowestFreeSlot
<1>4. /\ E \in Database /\ E.period = C.period /\ E.roll = D.roll
      /\ \A j \in SelectionIds : j # i => E.sel[j] = D.sel[j]
      /\ E.sel[i] = [status |-> "selected", reason |-> "none", student |-> s,
                     period |-> p, discipline |-> d, slot |-> slot]
  BY <1>3, SelectSound DEF Sound
<1> HIDE DEF E
<1>5. \A j \in SelectionIds :
        IsActive(D.sel[j]) /\ D.sel[j].student = s /\ D.sel[j].period = p =>
          D.sel[j].discipline # d /\ D.sel[j].slot # slot
  BY <1>1 DEF MayChoose, ChoicesOf, LowestFreeSlot, SlotsTaken
<1>6. \A j \in SelectionIds : j # i => E.sel[j] = C.sel[j]
  BY <1>1, <1>4
<1>7. SlotsFit(E)
  BY <1>2, <1>3, <1>4, <1>6 DEF InOrder, SlotsFit
<1>8. ChoicesDiffer(E)
  <2> SUFFICES ASSUME NEW a \in SelectionIds, NEW b \in SelectionIds,
                      IsActive(E.sel[a]), IsActive(E.sel[b]), a # b,
                      E.sel[a].student = E.sel[b].student, E.sel[a].period = E.sel[b].period
               PROVE  E.sel[a].discipline # E.sel[b].discipline /\ E.sel[a].slot # E.sel[b].slot
    BY DEF ChoicesDiffer
  <2>1. CASE a = i
    BY <1>4, <1>5, <2>1
  <2>2. CASE b = i
    BY <1>4, <1>5, <2>2
  <2>3. CASE a # i /\ b # i
    BY <1>2, <1>6, <2>3 DEF InOrder, ChoicesDiffer
  <2> QED
    BY <2>1, <2>2, <2>3
<1>9. SetsComplete(E) /\ RollsMatch(E)
  <2>1. \A j \in SelectionIds :
          E.sel[j].status = "enrolled" \/ C.sel[j].status = "enrolled" => E.sel[j] = C.sel[j]
    BY <1>1, <1>4, <1>6
  <2> QED
    BY <1>1, <1>2, <1>4, <2>1, EnrolmentKept DEF InOrder
<1>10. EntriesOf(E.sel[i]) \cap IndexEntries(D) = {}
  <2>1. <<"choice", s, p, d>> \notin IndexEntries(D)
    BY <1>5 DEF IndexEntries
  <2>2. <<"slot", s, p, slot>> \notin IndexEntries(D)
    BY <1>5 DEF IndexEntries
  <2>3. EntriesOf(E.sel[i]) = {<<"choice", s, p, d>>, <<"slot", s, p, slot>>}
    BY <1>4 DEF EntriesOf
  <2> QED
    BY <2>1, <2>2, <2>3
<1>11. \A q \in Periods : PeriodKeeps(D.period[q], E.period[q])
  BY <1>1, <1>4 DEF Lessens
<1>12. InOrder(E)
  BY <1>7, <1>8, <1>9 DEF InOrder
<1>13. ASSUME NEW j \in SelectionIds, E.sel[j] # D.sel[j], IsActive(E.sel[j])
       PROVE  j = i /\ E.sel[j].status = "selected" /\ D.period[E.sel[j].period].status = "active"
  BY <1>1, <1>3, <1>4, <1>13
<1> QED
  BY <1>10, <1>11, <1>12, <1>13 DEF Proceeds, E


\* Cancelling selected selections and giving back exactly their seats, for the student's
\* own withdrawal (one selection) and for finalization (the incomplete sets).
LEMMA SeatsGivenBack ==
  ASSUME NEW C \in Database, NEW E \in Database, Consistent(C),
         NEW gone \in SUBSET SelectionIds,
         \A i \in gone : C.sel[i].status = "selected",
         \A i \in gone : E.sel[i].status = "cancelled",
         \A i \in SelectionIds \ gone :
           IsActive(E.sel[i]) = IsActive(C.sel[i]) /\ E.sel[i].discipline = C.sel[i].discipline,
         NEW d \in Disciplines,
         E.disc[d].capacity = C.disc[d].capacity,
         E.disc[d].enrolled = Less(C.disc[d].enrolled, Cardinality(gone \cap SeatsOf(C, d)))
  PROVE  /\ E.disc[d].enrolled = Cardinality(SeatsOf(E, d))
         /\ E.disc[d].enrolled <= E.disc[d].capacity
         /\ E.disc[d].enrolled = C.disc[d].enrolled => SeatsOf(E, d) = SeatsOf(C, d)
<1> DEFINE S == SeatsOf(C, d)
           T == gone \cap S
           n == Cardinality(S)
           m == Cardinality(T)
<1>1. IsFiniteSet(S) /\ n \in Nat
  BY SeatsFinite
<1>2. T \in SUBSET S
  OBVIOUS
<1>3. IsFiniteSet(T) /\ m \in Nat /\ m <= n
  BY <1>1, <1>2, FS_Subset, FS_CardinalityType
<1>4. SeatsOf(E, d) = S \ T
  <2>1. \A i \in SelectionIds : i \in SeatsOf(E, d) <=> i \in S /\ i \notin gone
    BY DEF SeatsOf, IsActive
  <2> QED
    BY <2>1 DEF SeatsOf
<1>5. Cardinality(S \ T) = n - m
  <2>1. Cardinality(S \ T) = Cardinality(S) - Cardinality(S \cap T)
    BY <1>1, FS_Difference
  <2>2. S \cap T = T
    BY <1>2
  <2> QED
    BY <2>1, <2>2
<1>6. C.disc[d].enrolled = n
  BY DEF Consistent, CountsExact
<1>7. E.disc[d].enrolled = n - m
  <2>1. E.disc[d].enrolled = IF n > m THEN n - m ELSE 0
    BY <1>6 DEF Less
  <2> QED
    BY <2>1, <1>1, <1>3
<1>8. C.disc[d].enrolled <= C.disc[d].capacity /\ C.disc[d].capacity \in Int
  BY DocumentTypes DEF Consistent, CapacityHolds
<1>9. E.disc[d].enrolled = C.disc[d].enrolled => SeatsOf(E, d) = S
  <2>1. n - m = n => m = 0
    BY <1>1, <1>3
  <2>2. m = 0 => T = {}
    BY <1>3, FS_EmptySet
  <2> QED
    BY <2>1, <2>2, <1>4, <1>6, <1>7
<1> QED
  BY <1>1, <1>3, <1>4, <1>5, <1>6, <1>7, <1>8, <1>9

LEMMA CancelSound ==
  ASSUME NEW D \in Database, Consistent(D), NEW i \in SelectionIds,
         D.sel[i].status = "selected"
  PROVE  LET E == ReturnSeat(CancelSelections(D, {i}, "student"), D.sel[i].discipline)
         IN  Sound(D, E) /\ Lessens(D, E) /\ BookKept(D, E)
<1> DEFINE e == D.sel[i].discipline
           M == CancelSelections(D, {i}, "student")
           E == ReturnSeat(M, e)
           count == [d \in Disciplines |-> IF d = e THEN 1 ELSE 0]
<1>1. D.sel[i] \in Selection /\ e \in Disciplines /\ FourCollections(D)
  BY DocumentTypes, DatabaseIsFour DEF Selection
<1>2. SelectionsBecome(D, {i}, "cancelled", M)
  BY <1>1, CancelSelectionsEffect DEF CancelReason
<1>3. FourCollections(M) /\ M.disc \in [Disciplines -> Discipline]
  BY <1>2 DEF SelectionsBecome, Database
<1>4. SeatsReturned(M, count, E)
  BY <1>1, <1>3, ReturnSeatEffect
<1> HIDE DEF M, E
<1>5. /\ FourCollections(E) /\ E.period = D.period /\ E.roll = D.roll
      /\ E.disc \in [Disciplines -> Discipline]
      /\ IsTotal(E.sel, SelectionIds)
      /\ \A j \in SelectionIds : j # i => E.sel[j] = D.sel[j]
      /\ E.sel[i] \in Selection /\ E.sel[i].status = "cancelled"
  BY <1>2, <1>4 DEF SelectionsBecome, SeatsReturned
<1>6. E \in Database
  <2>1. \A j \in SelectionIds : E.sel[j] \in Selection \cup {NoSelection}
    BY <1>5 DEF Database
  <2>2. E.sel \in [SelectionIds -> Selection \cup {NoSelection}]
    BY <1>5, <2>1 DEF IsTotal
  <2> QED
    BY <1>5, <2>2 DEF Database, FourCollections
<1>7. ASSUME NEW d \in Disciplines
      PROVE  /\ E.disc[d].capacity = D.disc[d].capacity
             /\ E.disc[d].enrolled
                  = Less(D.disc[d].enrolled, Cardinality({i} \cap SeatsOf(D, d)))
  <2>1. /\ E.disc[d].capacity = D.disc[d].capacity
        /\ E.disc[d].enrolled = Less(D.disc[d].enrolled, count[d])
    BY <1>2, <1>4 DEF SelectionsBecome, SeatsReturned
  <2>2. Cardinality({i} \cap SeatsOf(D, d)) = count[d]
    <3>1. CASE d = e
      <4>1. {i} \cap SeatsOf(D, d) = {i}
        BY <3>1 DEF SeatsOf, IsActive
      <4> QED
        BY <3>1, <4>1, FS_Singleton
    <3>2. CASE d # e
      <4>1. {i} \cap SeatsOf(D, d) = {}
        BY <3>2 DEF SeatsOf
      <4> QED
        BY <3>2, <4>1, FS_EmptySet
    <3> QED
      BY <3>1, <3>2
  <2> QED
    BY <2>1, <2>2
<1> HIDE DEF count
<1>8. \A d \in Disciplines :
        /\ E.disc[d].enrolled = Cardinality(SeatsOf(E, d))
        /\ E.disc[d].enrolled <= E.disc[d].capacity
        /\ E.disc[d].enrolled = D.disc[d].enrolled => SeatsOf(E, d) = SeatsOf(D, d)
  <2>1. /\ {i} \in SUBSET SelectionIds
        /\ \A j \in {i} : D.sel[j].status = "selected" /\ E.sel[j].status = "cancelled"
        /\ \A j \in SelectionIds \ {i} : /\ IsActive(E.sel[j]) = IsActive(D.sel[j])
                                         /\ E.sel[j].discipline = D.sel[j].discipline
    BY <1>5
  <2> QED
    BY <1>6, <1>7, <2>1, SeatsGivenBack
<1>9. EnrolledOnlyWhenFinalized(E)
  BY <1>5 DEF Consistent, EnrolledOnlyWhenFinalized
<1>10. \A j \in SelectionIds : E.sel[j] # D.sel[j] => D.sel[j].status = "selected"
  BY <1>5
<1>11. Lessens(D, E)
  BY <1>5 DEF Lessens, PeriodKeeps
<1>12. Sound(D, E)
  BY <1>5, <1>6, <1>8, <1>9, <1>10 DEF Sound, Consistent, CountsExact, CapacityHolds
<1>13. BookKept(D, E)
  <2>1. \A j \in SelectionIds : IsActive(E.sel[j]) =>
          IsActive(D.sel[j]) /\ E.sel[j].discipline = D.sel[j].discipline
    BY <1>5 DEF IsActive
  <2>2. \A d \in Disciplines : E.disc[d].capacity = D.disc[d].capacity
    BY <1>7
  <2> QED
    BY <2>1, <2>2, SeatsLeft
<1> QED
  BY <1>11, <1>12, <1>13 DEF E, M

LEMMA CancelDisciplineSound ==
  ASSUME NEW D \in Database, Consistent(D), NEW d \in Disciplines,
         D.disc[d].status = "active",
         \A i \in SelectionIds :
           D.sel[i].status # "absent" /\ D.sel[i].discipline = d
             => D.period[D.sel[i].period].status # "finalized"
  PROVE  LET E == CancelSelections(FlipDisciplineCancelled(D, d), SelectedOf(D, d),
                                   "discipline_cancelled")
         IN  Sound(D, E) /\ Lessens(D, E) /\ BookKept(D, E)
<1> DEFINE M == FlipDisciplineCancelled(D, d)
           gone == SelectedOf(D, d)
           E == CancelSelections(M, gone, "discipline_cancelled")
           x == [D.disc EXCEPT ![d] = [@ EXCEPT !.status = "cancelled", !.enrolled = 0]]
<1>1. FourCollections(D) /\ D.disc[d] \in Discipline /\ D.disc \in [Disciplines -> Discipline]
  BY DatabaseIsFour DEF Database
<1>2. M = [disc |-> x, period |-> D.period, sel |-> D.sel, roll |-> D.roll]
  <2>1. M = [D EXCEPT !.disc = x]
    BY DEF FlipDisciplineCancelled
  <2> HIDE DEF x
  <2> QED
    BY <1>1, <2>1, FieldUpdate
<1>3. /\ \A c \in Disciplines : c # d => x[c] = D.disc[c]
      /\ x[d] = [D.disc[d] EXCEPT !.status = "cancelled", !.enrolled = 0]
  BY <1>1
<1>4. /\ x[d] \in Discipline /\ x[d].status = "cancelled" /\ x[d].enrolled = 0
      /\ x[d].capacity = D.disc[d].capacity
  <2>1. 0 \in 0..MaxCapacity /\ "cancelled" \in DisciplineStatus
    BY BoundsAssumption DEF DisciplineStatus
  <2> HIDE DEF x
  <2> QED
    BY <1>1, <1>3, <2>1 DEF Discipline
<1>5. x \in [Disciplines -> Discipline]
  BY <1>1, <1>4
<1> HIDE DEF x, M
<1>6. FourCollections(M) /\ M.sel = D.sel
  BY <1>2 DEF FourCollections
<1>7. /\ gone \in SUBSET SelectionIds
      /\ \A i \in gone : D.sel[i] \in Selection /\ D.sel[i].status = "selected"
  BY DocumentTypes DEF SelectedOf
<1>8. SelectionsBecome(M, gone, "cancelled", E)
  BY <1>6, <1>7, CancelSelectionsEffect DEF CancelReason
<1> HIDE DEF E
<1>9. /\ FourCollections(E) /\ E.period = D.period /\ E.roll = D.roll /\ E.disc = x
      /\ IsTotal(E.sel, SelectionIds)
      /\ \A i \in SelectionIds \ gone : E.sel[i] = D.sel[i]
      /\ \A i \in gone : E.sel[i] \in Selection /\ E.sel[i].status = "cancelled"
  BY <1>2, <1>8 DEF SelectionsBecome
<1>10. E \in Database
  <2>1. \A i \in SelectionIds : E.sel[i] \in Selection \cup {NoSelection}
    BY <1>9 DEF Database
  <2>2. E.sel \in [SelectionIds -> Selection \cup {NoSelection}]
    BY <1>9, <2>1 DEF IsTotal
  <2> QED
    BY <1>5, <1>9, <2>2 DEF Database, FourCollections
<1>11. \A i \in SelectionIds : D.sel[i].status = "enrolled" => D.sel[i].discipline # d
  BY DEF Consistent, EnrolledOnlyWhenFinalized
<1>12. SeatsOf(E, d) = {}
  <2> SUFFICES ASSUME NEW i \in SelectionIds, i \in SeatsOf(E, d)
               PROVE  FALSE
    BY DEF SeatsOf
  <2>1. i \notin gone
    BY <1>9 DEF SeatsOf, IsActive
  <2>2. E.sel[i] = D.sel[i]
    BY <1>9, <2>1
  <2> QED
    BY <1>11, <2>1, <2>2 DEF SeatsOf, IsActive, SelectedOf
<1>13. \A c \in Disciplines : c # d => SeatsOf(E, c) = SeatsOf(D, c)
  <2> SUFFICES ASSUME NEW c \in Disciplines, c # d
               PROVE  SeatsOf(E, c) = SeatsOf(D, c)
    OBVIOUS
  <2>1. \A i \in SelectionIds : i \in SeatsOf(E, c) <=> i \in SeatsOf(D, c)
    <3> TAKE i \in SelectionIds
    <3>1. CASE i \in gone
      <4>1. i \notin SeatsOf(E, c)
        BY <1>9, <3>1 DEF SeatsOf, IsActive
      <4>2. i \notin SeatsOf(D, c)
        BY <3>1 DEF SeatsOf, SelectedOf
      <4> QED
        BY <4>1, <4>2
    <3>2. CASE i \notin gone
      BY <1>9, <3>2 DEF SeatsOf
    <3> QED
      BY <3>1, <3>2
  <2> QED
    BY <2>1 DEF SeatsOf
<1>14. CountsExact(E)
  <2>1. Cardinality(SeatsOf(E, d)) = 0
    BY <1>12, FS_EmptySet
  <2> QED
    BY <1>3, <1>4, <1>9, <1>13, <2>1 DEF Consistent, CountsExact
<1>15. CapacityHolds(E)
  <2>1. x[d].capacity \in 1..MaxCapacity
    BY <1>4 DEF Discipline
  <2>2. x[d].enrolled <= x[d].capacity
    BY <1>4, <2>1, BoundsAssumption
  <2> QED
    BY <1>3, <1>9, <2>2 DEF Consistent, CapacityHolds
<1>16. EnrolledOnlyWhenFinalized(E)
  <2> SUFFICES ASSUME NEW i \in SelectionIds, E.sel[i].status = "enrolled"
               PROVE  E.period[E.sel[i].period].status = "finalized"
    BY DEF EnrolledOnlyWhenFinalized
  <2>1. i \notin gone
    BY <1>9
  <2> QED
    BY <1>9, <2>1 DEF Consistent, EnrolledOnlyWhenFinalized
<1>17. x[d] # D.disc[d]
  BY <1>4
<1>18. Lessens(D, E)
  BY <1>7, <1>9 DEF Lessens, PeriodKeeps
<1>19. Sound(D, E)
  BY <1>7, <1>9, <1>10, <1>13, <1>14, <1>15, <1>16, <1>17 DEF Sound, Consistent
<1>20. BookKept(D, E)
  <2>1. \A c \in Disciplines : E.disc[c].capacity = D.disc[c].capacity
    BY <1>3, <1>4, <1>9
  <2> QED
    <3>1. \A i \in SelectionIds : IsActive(E.sel[i]) =>
            IsActive(D.sel[i]) /\ E.sel[i].discipline = D.sel[i].discipline
      BY <1>9 DEF IsActive
    <3> QED
      BY <2>1, <3>1, SeatsLeft
<1> QED
  BY <1>18, <1>19, <1>20 DEF E, M

LEMMA MarkFinalizedEffect ==
  ASSUME NEW D, FourCollections(D), NEW p \in Periods, D.period \in [Periods -> Period]
  PROVE  LET E == MarkFinalized(D, p)
         IN  /\ FourCollections(E)
             /\ E.disc = D.disc /\ E.sel = D.sel /\ E.roll = D.roll
             /\ E.period \in [Periods -> Period]
             /\ \A q \in Periods : q # p => E.period[q] = D.period[q]
             /\ E.period[p].status = "finalized" /\ E.period[p].required = D.period[p].required
<1> DEFINE E == MarkFinalized(D, p)
           x == [D.period EXCEPT ![p] = [@ EXCEPT !.status = "finalized", !.lock = NoRequest]]
<1>1. MarkFinalized(D, p) = [D EXCEPT !.period = x]
  BY DEF MarkFinalized
<1>2. /\ \A q \in Periods : q # p => x[q] = D.period[q]
      /\ x[p] = [D.period[p] EXCEPT !.status = "finalized", !.lock = NoRequest]
      /\ D.period[p] \in Period
  OBVIOUS
<1>3. x[p] \in Period /\ x[p].status = "finalized" /\ x[p].required = D.period[p].required
  <2> HIDE DEF x
  <2> QED
    BY <1>2 DEF Period, PeriodStatus
<1>4. x \in [Periods -> Period]
  BY <1>2, <1>3
<1> HIDE DEF x
<1>5. E = [disc |-> D.disc, period |-> x, sel |-> D.sel, roll |-> D.roll]
  BY <1>1, FieldUpdate
<1> HIDE DEF E
<1>6. /\ FourCollections(E) /\ E.period = x
      /\ E.disc = D.disc /\ E.sel = D.sel /\ E.roll = D.roll
  BY <1>5 DEF FourCollections
<1>7. /\ E.period \in [Periods -> Period]
      /\ \A q \in Periods : q # p => E.period[q] = D.period[q]
      /\ E.period[p].status = "finalized" /\ E.period[p].required = D.period[p].required
  BY <1>2, <1>3, <1>4, <1>6
<1> QED
  BY <1>6, <1>7 DEF E

\* The students whom the selections ids put on the roll k.
Joining(D, ids, k) == {D.sel[i].student : i \in {j \in ids : BucketOf(D.sel[j]) = k}}

LEMMA AddToRollsEffect ==
  ASSUME NEW D, FourCollections(D), NEW p \in Periods, NEW ids \in SUBSET SelectionIds,
         D.roll \in [Rolls -> RollEntry], \A i \in ids : D.sel[i] \in Selection
  PROVE  LET E == AddToRolls(D, p, ids)
         IN  /\ FourCollections(E)
             /\ E.disc = D.disc /\ E.period = D.period /\ E.sel = D.sel
             /\ E.roll \in [Rolls -> RollEntry]
             /\ \A k \in Rolls :
                  /\ Joining(D, ids, k) = {} => E.roll[k] = D.roll[k]
                  /\ Joining(D, ids, k) # {} =>
                       /\ E.roll[k].period = p
                       /\ E.roll[k].students = D.roll[k].students \cup Joining(D, ids, k)
<1> DEFINE E == AddToRolls(D, p, ids)
           who(k) == Joining(D, ids, k)
           x == [k \in Rolls |->
                  IF who(k) = {} THEN D.roll[k]
                  ELSE [period |-> p, students |-> D.roll[k].students \cup who(k)]]
<1>1. AddToRolls(D, p, ids) = [D EXCEPT !.roll = x]
  BY DEF AddToRolls, Joining
<1>2. \A k \in Rolls : who(k) \in SUBSET Students /\ D.roll[k] \in RollEntry
  BY DEF Selection, Joining
<1> HIDE DEF who
<1>3. \A k \in Rolls :
        /\ who(k) = {} => x[k] = D.roll[k]
        /\ who(k) # {} => x[k] = [period |-> p, students |-> D.roll[k].students \cup who(k)]
  OBVIOUS
<1>4. \A k \in Rolls : x[k] \in RollEntry
  BY <1>2, <1>3 DEF RollEntry
<1>5. \A k \in Rolls : who(k) # {} =>
        x[k].period = p /\ x[k].students = D.roll[k].students \cup who(k)
  <2> SUFFICES ASSUME NEW k \in Rolls, who(k) # {}
               PROVE  x[k].period = p /\ x[k].students = D.roll[k].students \cup who(k)
    OBVIOUS
  <2>1. x[k] = [period |-> p, students |-> D.roll[k].students \cup who(k)]
    BY <1>3
  <2> HIDE DEF x
  <2> QED
    BY <2>1
<1>6. x \in [Rolls -> RollEntry]
  BY <1>4
<1> HIDE DEF x
<1>7. E = [disc |-> D.disc, period |-> D.period, sel |-> D.sel, roll |-> x]
  BY <1>1, FieldUpdate
<1> HIDE DEF E
<1>8. /\ FourCollections(E) /\ E.roll = x
      /\ E.disc = D.disc /\ E.period = D.period /\ E.sel = D.sel
  BY <1>7 DEF FourCollections
<1>9. \A k \in Rolls :
        /\ who(k) = {} => E.roll[k] = D.roll[k]
        /\ who(k) # {} => E.roll[k].period = p
                          /\ E.roll[k].students = D.roll[k].students \cup who(k)
  <2>1. E.roll = x
    BY <1>8
  <2> QED
    BY <1>3, <1>5, <2>1, Zenon
<1> QED
  BY <1>6, <1>8, <1>9 DEF E, who

\* What finalization makes of the database, collection by collection.
LEMMA FinalizedEffect ==
  ASSUME NEW C \in Database, NEW p \in Periods
  PROVE  LET drop == Dropped(C, p)
             keep == Kept(C, p)
             E == Finalized(C, p)
         IN  /\ E \in Database
             /\ drop \in SUBSET SelectionIds /\ keep \in SUBSET SelectionIds
             /\ \A i \in drop \cup keep : C.sel[i].status = "selected" /\ C.sel[i].period = p
             /\ \A q \in Periods : q # p => E.period[q] = C.period[q]
             /\ E.period[p].status = "finalized" /\ E.period[p].required = C.period[p].required
             /\ \A i \in SelectionIds : i \notin drop /\ i \notin keep => E.sel[i] = C.sel[i]
             /\ \A i \in drop : E.sel[i].status = "cancelled"
             /\ \A i \in keep : E.sel[i].status = "enrolled" /\ SameChoice(E.sel[i], C.sel[i])
             /\ \A d \in Disciplines :
                  /\ E.disc[d].capacity = C.disc[d].capacity
                  /\ E.disc[d].enrolled
                       = Less(C.disc[d].enrolled, Cardinality(drop \cap SeatsOf(C, d)))
             /\ \A k \in Rolls :
                  /\ Joining(C, keep, k) = {} => E.roll[k] = C.roll[k]
                  /\ Joining(C, keep, k) # {} =>
                       /\ E.roll[k].period = p
                       /\ E.roll[k].students = C.roll[k].students \cup Joining(C, keep, k)
<1> DEFINE drop == Dropped(C, p)
           keep == Kept(C, p)
           A == ReturnSeats(C, drop)
           B == CancelSelections(A, drop, "incomplete_set")
           F == AddToRolls(B, p, keep)
           G == EnrolSelections(F, keep)
           E == MarkFinalized(G, p)
           count == [d \in Disciplines |-> Cardinality(drop \cap SeatsOf(C, d))]
<1>1. /\ drop \in SUBSET SelectionIds /\ keep \in SUBSET SelectionIds
      /\ drop \cap keep = {}
      /\ \A i \in drop \cup keep : /\ C.sel[i].status = "selected" /\ C.sel[i].period = p
                                   /\ C.sel[i] \in Selection
  BY DocumentTypes DEF Kept, Dropped, SelectedIn
<1>2. Finalized(C, p) = E
  BY DEF Finalized
<1>3. FourCollections(C) /\ C.disc \in [Disciplines -> Discipline]
  BY DatabaseIsFour DEF Database
<1> HIDE DEF drop, keep
<1>4. SeatsReturned(C, count, A)
  BY <1>3, ReturnSeatsEffect
<1> HIDE DEF A
<1>5. SelectionsBecome(A, drop, "cancelled", B)
  BY <1>1, <1>4, CancelSelectionsEffect DEF SeatsReturned, CancelReason
<1> HIDE DEF B
<1>6. /\ FourCollections(B) /\ B.period = C.period /\ B.roll = C.roll /\ B.disc = A.disc
      /\ \A i \in SelectionIds \ drop : B.sel[i] = C.sel[i]
      /\ \A i \in drop : B.sel[i] \in Selection /\ B.sel[i].status = "cancelled"
      /\ IsTotal(B.sel, SelectionIds)
  BY <1>4, <1>5 DEF SeatsReturned, SelectionsBecome
<1>7. \A i \in keep : B.sel[i] = C.sel[i] /\ B.sel[i] \in Selection
  BY <1>1, <1>6
<1>8. /\ FourCollections(F) /\ F.disc = B.disc /\ F.period = B.period /\ F.sel = B.sel
      /\ F.roll \in [Rolls -> RollEntry]
      /\ \A k \in Rolls :
           /\ Joining(B, keep, k) = {} => F.roll[k] = C.roll[k]
           /\ Joining(B, keep, k) # {} =>
                /\ F.roll[k].period = p
                /\ F.roll[k].students = C.roll[k].students \cup Joining(B, keep, k)
  <2>1. B.roll \in [Rolls -> RollEntry]
    BY <1>6 DEF Database
  <2> QED
    BY <1>1, <1>6, <1>7, <2>1, AddToRollsEffect
<1> HIDE DEF F
<1>9. SelectionsBecome(F, keep, "enrolled", G)
  BY <1>1, <1>7, <1>8, EnrolSelectionsEffect
<1> HIDE DEF G
<1>10. /\ FourCollections(E) /\ E.disc = G.disc /\ E.sel = G.sel /\ E.roll = G.roll
       /\ E.period \in [Periods -> Period]
       /\ \A q \in Periods : q # p => E.period[q] = C.period[q]
       /\ E.period[p].status = "finalized" /\ E.period[p].required = C.period[p].required
  <2>1. FourCollections(G) /\ G.period = C.period /\ C.period \in [Periods -> Period]
    BY <1>6, <1>8, <1>9 DEF SelectionsBecome, Database
  <2> QED
    BY <2>1, MarkFinalizedEffect
<1> HIDE DEF E
<1>11. /\ E.disc = A.disc /\ IsTotal(E.sel, SelectionIds) /\ E.roll \in [Rolls -> RollEntry]
       /\ \A i \in SelectionIds : i \notin drop /\ i \notin keep => E.sel[i] = C.sel[i]
       /\ \A i \in drop : E.sel[i] \in Selection /\ E.sel[i].status = "cancelled"
       /\ \A i \in keep : /\ E.sel[i] \in Selection /\ E.sel[i].status = "enrolled"
                          /\ SameChoice(E.sel[i], C.sel[i])
  <2>1. E.disc = A.disc /\ E.roll \in [Rolls -> RollEntry] /\ IsTotal(E.sel, SelectionIds)
    BY <1>6, <1>8, <1>9, <1>10 DEF SelectionsBecome
  <2>2. \A i \in SelectionIds \ keep : E.sel[i] = B.sel[i]
    BY <1>8, <1>9, <1>10 DEF SelectionsBecome
  <2>3. \A i \in keep : /\ E.sel[i] \in Selection /\ E.sel[i].status = "enrolled"
                        /\ SameChoice(E.sel[i], C.sel[i])
    BY <1>7, <1>8, <1>9, <1>10 DEF SelectionsBecome
  <2> QED
    BY <1>1, <1>6, <2>1, <2>2, <2>3
<1>12. E \in Database
  <2>1. \A i \in SelectionIds : E.sel[i] \in Selection \cup {NoSelection}
    BY <1>11 DEF Database
  <2>2. E.sel \in [SelectionIds -> Selection \cup {NoSelection}]
    BY <1>11, <2>1 DEF IsTotal
  <2>3. E.disc \in [Disciplines -> Discipline]
    BY <1>4, <1>11 DEF SeatsReturned
  <2> QED
    BY <1>10, <1>11, <2>2, <2>3 DEF Database, FourCollections
<1>13. \A k \in Rolls : /\ Joining(B, keep, k) = Joining(C, keep, k)
                        /\ E.roll[k] = F.roll[k]
  BY <1>7, <1>9, <1>10 DEF Joining, SelectionsBecome
<1>14. \A k \in Rolls :
         /\ Joining(C, keep, k) = {} => E.roll[k] = C.roll[k]
         /\ Joining(C, keep, k) # {} =>
              /\ E.roll[k].period = p
              /\ E.roll[k].students = C.roll[k].students \cup Joining(C, keep, k)
  BY <1>8, <1>13
<1>15. \A d \in Disciplines :
         /\ E.disc[d].capacity = C.disc[d].capacity
         /\ E.disc[d].enrolled = Less(C.disc[d].enrolled, Cardinality(drop \cap SeatsOf(C, d)))
  BY <1>4, <1>11 DEF SeatsReturned
<1> QED
  BY <1>1, <1>2, <1>10, <1>11, <1>12, <1>14, <1>15 DEF drop, keep

LEMMA FinalizeSound ==
  ASSUME NEW C \in Database, Consistent(C), NEW p \in Periods, C.period[p].status = "closed"
  PROVE  Sound(C, Finalized(C, p)) /\ BookKept(C, Finalized(C, p))
<1> DEFINE drop == Dropped(C, p)
           keep == Kept(C, p)
           E == Finalized(C, p)
<1>1. /\ E \in Database
      /\ drop \in SUBSET SelectionIds /\ keep \in SUBSET SelectionIds
      /\ \A i \in drop \cup keep : C.sel[i].status = "selected" /\ C.sel[i].period = p
      /\ \A q \in Periods : q # p => E.period[q] = C.period[q]
      /\ E.period[p].status = "finalized"
      /\ \A i \in SelectionIds : i \notin drop /\ i \notin keep => E.sel[i] = C.sel[i]
      /\ \A i \in drop : E.sel[i].status = "cancelled"
      /\ \A i \in keep : E.sel[i].status = "enrolled" /\ SameChoice(E.sel[i], C.sel[i])
  BY FinalizedEffect
<1>2. \A d \in Disciplines :
        /\ E.disc[d].capacity = C.disc[d].capacity
        /\ E.disc[d].enrolled = Less(C.disc[d].enrolled, Cardinality(drop \cap SeatsOf(C, d)))
  BY FinalizedEffect
<1> HIDE DEF drop, keep, E
<1>3. \A d \in Disciplines :
        /\ E.disc[d].enrolled = Cardinality(SeatsOf(E, d))
        /\ E.disc[d].enrolled <= E.disc[d].capacity
        /\ E.disc[d].enrolled = C.disc[d].enrolled => SeatsOf(E, d) = SeatsOf(C, d)
  <2> TAKE d \in Disciplines
  <2>1. /\ \A i \in drop : C.sel[i].status = "selected" /\ E.sel[i].status = "cancelled"
        /\ \A i \in SelectionIds \ drop : /\ IsActive(E.sel[i]) = IsActive(C.sel[i])
                                          /\ E.sel[i].discipline = C.sel[i].discipline
    BY <1>1 DEF IsActive, SameChoice
  <2> QED
    BY <1>1, <1>2, <2>1, SeatsGivenBack
<1>4. EnrolledOnlyWhenFinalized(E)
  <2> SUFFICES ASSUME NEW i \in SelectionIds, E.sel[i].status = "enrolled"
               PROVE  E.period[E.sel[i].period].status = "finalized"
    BY DEF EnrolledOnlyWhenFinalized
  <2>1. CASE i \in keep
    BY <1>1, <2>1 DEF SameChoice
  <2>2. CASE i \notin keep
    <3>1. E.sel[i] = C.sel[i] /\ C.sel[i].status = "enrolled"
      BY <1>1, <2>2
    <3>2. C.sel[i].period \in Periods
      BY <3>1, DocumentTypes DEF Selection
    <3> QED
      BY <1>1, <3>1, <3>2 DEF Consistent, EnrolledOnlyWhenFinalized
  <2> QED
    BY <2>1, <2>2
<1>5. \A i \in SelectionIds : E.sel[i] # C.sel[i] => C.sel[i].status = "selected"
  BY <1>1
<1>6. BookKept(C, E)
  <2>1. \A i \in SelectionIds : IsActive(E.sel[i]) =>
          IsActive(C.sel[i]) /\ E.sel[i].discipline = C.sel[i].discipline
    BY <1>1 DEF IsActive, SameChoice
  <2> QED
    BY <1>2, <2>1, SeatsLeft
<1>7. Sound(C, E)
  BY <1>1, <1>3, <1>4, <1>5 DEF Sound, Consistent, CountsExact, CapacityHolds
<1> QED
  BY <1>6, <1>7 DEF E

\* A student holds at most as many choices in a period as it asks for: their slots are
\* distinct numbers below it.
LEMMA ChoicesWithinSlots ==
  ASSUME NEW D \in Database, SlotsFit(D), ChoicesDiffer(D), NEW s \in Students, NEW p \in Periods
  PROVE  /\ IsFiniteSet(ChoicesOf(D, s, p))
         /\ Cardinality(ChoicesOf(D, s, p)) \in Nat
         /\ Cardinality(ChoicesOf(D, s, p)) <= D.period[p].required
<1> DEFINE S == ChoicesOf(D, s, p)
           n == D.period[p].required
           slots == 0..(n - 1)
           f == [i \in S |-> D.sel[i].slot]
<1>1. n \in 1..MaxChoices
  BY DocumentTypes DEF Period
<1>2. S \in SUBSET SelectionIds /\ \A i \in S : IsActive(D.sel[i]) /\ D.sel[i].period = p
                                               /\ D.sel[i].student = s
  BY DEF ChoicesOf
<1>3. IsFiniteSet(S) /\ Cardinality(S) \in Nat
  BY <1>2, FiniteAssumption, FS_Subset, FS_CardinalityType
<1>4. \A i \in S : D.sel[i].slot \in slots
  <2> SUFFICES ASSUME NEW i \in S PROVE D.sel[i].slot \in slots
    OBVIOUS
  <2>1. D.sel[i].slot \in 0..(MaxChoices - 1) /\ D.sel[i].slot < n
    BY <1>2, DocumentTypes DEF IsActive, Selection, SlotsFit
  <2> HIDE DEF n, S
  <2> QED
    BY <1>1, <2>1, BoundsAssumption
<1>5. \A i, j \in S : i # j => D.sel[i].slot # D.sel[j].slot
  BY <1>2 DEF ChoicesDiffer
<1> HIDE DEF S, slots
<1>6. f \in [S -> slots] /\ \A i, j \in S : f[i] = f[j] => i = j
  BY <1>4, <1>5
<1>7. f \in Injection(S, slots)
  BY <1>6 DEF Injection, IsInjective
<1>8. IsFiniteSet(slots) /\ Cardinality(slots) = n
  <2>1. 0 \in Int /\ n - 1 \in Int
    BY <1>1, BoundsAssumption
  <2>2. IsFiniteSet(0..(n - 1)) /\ Cardinality(0..(n - 1)) = IF 0 > n - 1 THEN 0 ELSE n - 1 - 0 + 1
    BY <2>1, FS_Interval
  <2> HIDE DEF n
  <2> QED
    BY <1>1, <2>2, BoundsAssumption DEF slots
<1>9. Cardinality(S) <= Cardinality(slots)
  BY <1>7, <1>8, FS_Injection
<1> QED
  BY <1>3, <1>8, <1>9 DEF S

\* Finalization enrols whole sets: a student who stays holds exactly as many choices as
\* the period asks for, and the rolls it writes were empty or had just been made for it.
LEMMA FinalizeProceeds ==
  ASSUME NEW D \in Database, NEW C \in Database, NEW p \in Periods,
         InOrder(D), Lessens(D, C), C.sel = D.sel, EnrolledOnlyWhenFinalized(C),
         C.period[p].status = "closed", D.period[p].status \in {"active", "closed"},
         \A i \in Kept(C, p) : ~ RollTaken(C, BucketOf(C.sel[i]), p)
  PROVE  Proceeds(D, Finalized(C, p))
<1> DEFINE drop == Dropped(C, p)
           keep == Kept(C, p)
           E == Finalized(C, p)
<1>1. /\ E \in Database
      /\ drop \in SUBSET SelectionIds /\ keep \in SUBSET SelectionIds
      /\ \A i \in drop \cup keep : C.sel[i].status = "selected" /\ C.sel[i].period = p
      /\ \A q \in Periods : q # p => E.period[q] = C.period[q]
      /\ E.period[p].status = "finalized" /\ E.period[p].required = C.period[p].required
      /\ \A i \in SelectionIds : i \notin drop /\ i \notin keep => E.sel[i] = C.sel[i]
      /\ \A i \in drop : E.sel[i].status = "cancelled"
      /\ \A i \in keep : E.sel[i].status = "enrolled" /\ SameChoice(E.sel[i], C.sel[i])
  BY FinalizedEffect
<1>2. \A k \in Rolls :
        /\ Joining(C, keep, k) = {} => E.roll[k] = C.roll[k]
        /\ Joining(C, keep, k) # {} =>
             /\ E.roll[k].period = p
             /\ E.roll[k].students = C.roll[k].students \cup Joining(C, keep, k)
  BY FinalizedEffect
<1>3. \A i \in SelectionIds : C.sel[i].status = "selected" /\ C.sel[i].period = p =>
        i \in drop \cup keep
  BY DEF Kept, SelectedIn
<1>4. \A i \in keep, s \in Students : C.sel[i].student = s =>
        /\ s \notin Incomplete(C, C.period[p].required, SelectedIn(C, p))
        /\ \A j \in SelectedIn(C, p) : C.sel[j].student = s => j \in keep
  BY DEF Kept, Dropped
<1> HIDE DEF drop, keep, E
<1>5. InOrder(C) /\ C.roll = D.roll
  BY LessensProceeds DEF Lessens
<1>6. \A i \in SelectionIds : IsActive(E.sel[i]) =>
        /\ IsActive(C.sel[i]) /\ SameChoice(E.sel[i], C.sel[i]) /\ C.sel[i].period \in Periods
        /\ E.sel[i] = C.sel[i] \/ i \in keep
  <2> SUFFICES ASSUME NEW i \in SelectionIds, IsActive(E.sel[i])
               PROVE  /\ IsActive(C.sel[i]) /\ SameChoice(E.sel[i], C.sel[i])
                      /\ E.sel[i] = C.sel[i] \/ i \in keep
    BY DocumentTypes DEF IsActive, Selection
  <2> QED
    BY <1>1 DEF IsActive, SameChoice
<1>7. \A q \in Periods : /\ C.period[q].status # "draft" =>
                              E.period[q].status # "draft" /\ E.period[q].required = C.period[q].required
                         /\ PeriodKeeps(D.period[q], E.period[q])
  BY <1>1 DEF Lessens, PeriodKeeps
<1>8. SlotsFit(E)
  BY <1>5, <1>6, <1>7 DEF InOrder, SlotsFit, SameChoice
<1>9. ChoicesDiffer(E)
  BY <1>5, <1>6 DEF InOrder, ChoicesDiffer, SameChoice
<1>10. \A i \in SelectionIds : C.sel[i].status = "enrolled" =>
         C.sel[i].period # p /\ E.sel[i] = C.sel[i]
  BY <1>1 DEF EnrolledOnlyWhenFinalized
<1>11. \A i \in SelectionIds : E.sel[i].status = "enrolled" =>
         i \in keep \/ (E.sel[i] = C.sel[i] /\ C.sel[i].status = "enrolled")
  BY <1>1
<1>12. \A i \in keep : /\ C.sel[i] \in Selection /\ E.sel[i].period = p
                       /\ E.sel[i].student = C.sel[i].student
                       /\ BucketOf(E.sel[i]) = BucketOf(C.sel[i]) /\ BucketOf(C.sel[i]) \in Rolls
  <2> SUFFICES ASSUME NEW i \in keep
               PROVE  /\ C.sel[i] \in Selection /\ E.sel[i].period = p
                      /\ E.sel[i].student = C.sel[i].student
                      /\ BucketOf(E.sel[i]) = BucketOf(C.sel[i]) /\ BucketOf(C.sel[i]) \in Rolls
    OBVIOUS
  <2>1. C.sel[i] \in Selection /\ SameChoice(E.sel[i], C.sel[i]) /\ C.sel[i].period = p
    BY <1>1, DocumentTypes
  <2> QED
    BY <2>1, GroupAssumption DEF SameChoice, BucketOf, Rolls, Selection
<1>13. SetsComplete(E)
  <2> SUFFICES ASSUME NEW s \in Students, NEW q \in Periods, EnrolledOf(E, s, q) # {}
               PROVE  /\ E.period[q].status = "finalized"
                      /\ Cardinality(EnrolledOf(E, s, q)) = E.period[q].required
    BY DEF SetsComplete
  <2>1. CASE q # p
    <3>1. EnrolledOf(E, s, q) = EnrolledOf(C, s, q)
      BY <1>10, <1>11, <1>12, <2>1 DEF EnrolledOf
    <3> QED
      BY <1>1, <1>5, <2>1, <3>1 DEF InOrder, SetsComplete
  <2>2. CASE q = p
    <3> DEFINE mine == {i \in SelectedIn(C, p) : C.sel[i].student = s}
    <3>1. \A i \in EnrolledOf(E, s, p) : i \in keep /\ C.sel[i].student = s
      BY <1>10, <1>11, <1>12 DEF EnrolledOf
    <3>2. PICK i \in keep : C.sel[i].student = s
      BY <2>2, <3>1
    <3>3. mine = EnrolledOf(E, s, p)
      <4>1. \A j \in mine : j \in EnrolledOf(E, s, p)
        BY <1>1, <1>4, <1>12, <3>2 DEF EnrolledOf
      <4>2. \A j \in EnrolledOf(E, s, p) : j \in mine
        BY <1>1, <3>1 DEF SelectedIn
      <4> QED
        BY <4>1, <4>2
    <3>4. mine # {} /\ ~ (Cardinality(mine) < C.period[p].required)
      BY <1>4, <2>2, <3>2, <3>3 DEF Incomplete
    <3>5. mine \in SUBSET ChoicesOf(C, s, p)
      BY DEF SelectedIn, ChoicesOf, IsActive
    <3>6. /\ IsFiniteSet(ChoicesOf(C, s, p))
          /\ Cardinality(ChoicesOf(C, s, p)) \in Nat
          /\ Cardinality(ChoicesOf(C, s, p)) <= C.period[p].required
      BY <1>5, ChoicesWithinSlots DEF InOrder
    <3>7. Cardinality(mine) <= Cardinality(ChoicesOf(C, s, p)) /\ Cardinality(mine) \in Nat
      BY <3>5, <3>6, FS_Subset, FS_CardinalityType
    <3>8. C.period[p].required \in 1..MaxChoices
      BY DocumentTypes DEF Period
    <3>9. Cardinality(mine) = C.period[p].required
      <4> HIDE DEF mine
      <4> QED
        BY <3>4, <3>6, <3>7, <3>8, BoundsAssumption
    <3> QED
      BY <1>1, <2>2, <3>3, <3>9
  <2> QED
    BY <2>1, <2>2
<1>14. ASSUME NEW k \in Rolls, Joining(C, keep, k) # {}
       PROVE  C.roll[k].students = {}
  <2>1. PICK i \in keep : BucketOf(C.sel[i]) = k
    BY <1>14 DEF Joining
  <2>2. C.roll[k].period \in {NoPeriod, p}
    BY <2>1 DEF RollTaken, keep
  <2>3. \A j \in SelectionIds : C.sel[j].status = "enrolled" => C.sel[j].period # C.roll[k].period
    BY <1>10, <2>2, DocumentTypes, NullAssumption DEF Selection
  <2>4. OnRoll(C, k) = {}
    BY <2>3 DEF OnRoll
  <2> QED
    BY <1>5, <2>4 DEF InOrder, RollsMatch
<1>15. RollsMatch(E)
  <2> SUFFICES ASSUME NEW k \in Rolls PROVE E.roll[k].students = OnRoll(E, k)
    BY DEF RollsMatch
  <2> DEFINE named(X) == {j \in SelectionIds : /\ X.sel[j].status = "enrolled"
                                               /\ BucketOf(X.sel[j]) = k
                                               /\ X.sel[j].period = X.roll[k].period}
  <2>1. /\ OnRoll(E, k) = {E.sel[j].student : j \in named(E)}
        /\ OnRoll(C, k) = {C.sel[j].student : j \in named(C)}
    BY DEF OnRoll
  <2>2. CASE Joining(C, keep, k) = {}
    <3>1. E.roll[k] = C.roll[k]
      BY <1>2, <2>2
    <3>2. \A j \in keep : BucketOf(E.sel[j]) # k
      BY <1>12, <2>2 DEF Joining
    <3>3. \A j \in SelectionIds : /\ j \in named(E) => j \in named(C) /\ E.sel[j] = C.sel[j]
                                  /\ j \in named(C) => j \in named(E)
      BY <1>10, <1>11, <3>1, <3>2
    <3>4. named(E) = named(C) /\ \A j \in named(E) : E.sel[j] = C.sel[j]
      BY <3>3
    <3>5. C.roll[k].students = OnRoll(C, k)
      BY <1>5 DEF InOrder, RollsMatch
    <3> HIDE DEF named
    <3> QED
      BY <2>1, <3>1, <3>4, <3>5
  <2>3. CASE Joining(C, keep, k) # {}
    <3>1. E.roll[k].period = p /\ E.roll[k].students = Joining(C, keep, k)
      BY <1>2, <1>14, <2>3
    <3> DEFINE here == {j \in keep : BucketOf(C.sel[j]) = k}
    <3>2. \A j \in SelectionIds : j \in named(E) <=> j \in here
      BY <1>1, <1>10, <1>11, <1>12, <3>1
    <3>3. named(E) = here /\ \A j \in here : E.sel[j].student = C.sel[j].student
      BY <1>1, <1>12, <3>2
    <3>4. Joining(C, keep, k) = {C.sel[j].student : j \in here}
      BY DEF Joining
    <3> HIDE DEF named, here
    <3> QED
      BY <2>1, <3>1, <3>3, <3>4
  <2> QED
    BY <2>2, <2>3
<1>16. InOrder(E)
  BY <1>8, <1>9, <1>13, <1>15 DEF InOrder
<1>17. ASSUME NEW i \in SelectionIds, E.sel[i] # D.sel[i], IsActive(E.sel[i])
       PROVE  /\ D.sel[i].status # "absent"
              /\ IsActive(D.sel[i]) /\ SameChoice(E.sel[i], D.sel[i])
              /\ E.period[E.sel[i].period] # D.period[E.sel[i].period]
              /\ E.roll[BucketOf(E.sel[i])] # D.roll[BucketOf(E.sel[i])]
              /\ D.period[E.sel[i].period].status # "draft"
  <2>1. i \in keep /\ IsActive(D.sel[i]) /\ SameChoice(E.sel[i], D.sel[i])
    BY <1>6, <1>17
  <2>2. E.period[p] # D.period[p] /\ E.sel[i].period = p
    BY <1>1, <1>12, <2>1
  <2> DEFINE k == BucketOf(E.sel[i])
  <2>3. k \in Rolls /\ Joining(C, keep, k) # {}
    BY <1>12, <2>1 DEF Joining
  <2>4. E.roll[k] # D.roll[k]
    BY <1>2, <1>5, <1>14, <2>3
  <2> QED
    BY <2>1, <2>2, <2>4 DEF IsActive
<1> QED
  BY <1>7, <1>16, <1>17 DEF Proceeds, E

----
(* Every step of the specification preserves the invariant. *)

LEMMA InitSound == Init => IInv
<1> SUFFICES ASSUME Init PROVE IInv
  OBVIOUS
<1>1. /\ db.disc \in [Disciplines -> [status : {"draft"}, capacity : 1..MaxCapacity,
                                     enrolled : {0}, inTerm : {TRUE}]]
      /\ db.period \in [Periods -> [status : {"draft"}, required : 1..MaxChoices,
                                    lock : {NoRequest}]]
      /\ db.sel \in [SelectionIds -> {NoSelection}]
      /\ db.roll \in [Rolls -> [period : {NoPeriod}, students : {{}}]]
      /\ FourCollections(db)
  BY DEF Init, FreshDatabases, FourCollections
<1>2. db.disc \in [Disciplines -> Discipline]
  <2>1. 0 \in 0..MaxCapacity
    BY BoundsAssumption
  <2> QED
    BY <1>1, <2>1 DEF Discipline, DisciplineStatus
<1>3. db.period \in [Periods -> Period]
  BY <1>1 DEF Period, PeriodStatus
<1>4. db.sel \in [SelectionIds -> Selection \cup {NoSelection}]
  BY <1>1
<1>5. db.roll \in [Rolls -> RollEntry]
  BY <1>1 DEF RollEntry
<1>6. db \in Database
  BY <1>1, <1>2, <1>3, <1>4, <1>5 DEF Database, FourCollections
<1>7. TypeOK
  BY <1>6, NoWritesType DEF Init, TypeOK
<1>8. \A i \in SelectionIds : db.sel[i].status = "absent"
  BY <1>1 DEF NoSelection
<1>9. \A d \in Disciplines : SeatsOf(db, d) = {}
  BY <1>8 DEF SeatsOf, IsActive
<1>10. CountsExact(db)
  BY <1>1, <1>9, FS_EmptySet DEF CountsExact
<1>11. CapacityHolds(db)
  <2>1. \A d \in Disciplines : db.disc[d].enrolled = 0 /\ db.disc[d].capacity \in 1..MaxCapacity
    BY <1>1
  <2>2. \A n \in 1..MaxCapacity : 0 <= n
    BY BoundsAssumption
  <2> QED
    BY <2>1, <2>2 DEF CapacityHolds
<1>12. EnrolledOnlyWhenFinalized(db)
  BY <1>8 DEF EnrolledOnlyWhenFinalized
<1>13. WritesSound /\ WritesFit
  BY DEF Init, WritesSound, WritesFit
<1>14. SlotsFit(db) /\ ChoicesDiffer(db)
  BY <1>8 DEF SlotsFit, ChoicesDiffer, IsActive
<1>15. SetsComplete(db)
  BY <1>8 DEF SetsComplete, EnrolledOf
<1>16. RollsMatch(db)
  <2>1. \A k \in Rolls : db.roll[k].students = {} /\ OnRoll(db, k) = {}
    BY <1>1, <1>8 DEF OnRoll
  <2> QED
    BY <2>1 DEF RollsMatch
<1>17. WritesFitting /\ WritesBooked
  BY DEF Init, WritesFitting, WritesBooked
<1> QED
  BY <1>7, <1>10, <1>11, <1>12, <1>13, <1>14, <1>15, <1>16, <1>17 DEF IInv, Consistent, InOrder

LEMMA SelectStep ==
  ASSUME IInv, NEW r \in Requests, NEW s \in Students, NEW p \in Periods,
         NEW d \in Disciplines, NEW i \in SelectionIds, NEW slot \in 0..(MaxChoices - 1),
         SelectDiscipline(r, s, p, d, i, slot)
  PROVE  IInv'
<1> DEFINE E == InsertSelection(TakeSeat(CloseExpired(db, ended), d), i, s, p, d, slot)
<1>1. /\ MayChoose(CloseExpired(db, ended), s, p, d) /\ db.sel[i].status = "absent"
      /\ LowestFreeSlot(CloseExpired(db, ended), s, p, slot) /\ Open(r, E)
  BY DEF SelectDiscipline, FreshSelection
<1>2. db \in Database /\ Consistent(db) /\ InOrder(db)
  BY DEF IInv, TypeOK
<1>3. Sound(db, E) /\ BookKept(db, E)
  BY <1>1, <1>2, SelectSound DEF MayChoose
<1>4. Proceeds(db, E)
  BY <1>1, <1>2, SelectProceeds
<1> HIDE DEF E
<1> QED
  BY <1>1, <1>3, <1>4, OpenSound

LEMMA CancelStep ==
  ASSUME IInv, NEW r \in Requests, NEW i \in SelectionIds, CancelSelection(r, i)
  PROVE  IInv'
<1> DEFINE E == ReturnSeat(CancelSelections(db, {i}, "student"), db.sel[i].discipline)
<1>1. db.sel[i].status = "selected" /\ Open(r, E)
  BY DEF CancelSelection
<1>2. db \in Database /\ Consistent(db) /\ InOrder(db)
  BY DEF IInv, TypeOK
<1>3. Sound(db, E) /\ Lessens(db, E) /\ BookKept(db, E)
  BY <1>1, <1>2, CancelSound
<1> HIDE DEF E
<1>4. Proceeds(db, E)
  BY <1>2, <1>3, LessensProceeds DEF Sound
<1> QED
  BY <1>1, <1>3, <1>4, OpenSound

LEMMA CancelDisciplineStep ==
  ASSUME IInv, NEW r \in Requests, NEW d \in Disciplines, CancelDiscipline(r, d)
  PROVE  IInv'
<1> DEFINE E == CancelSelections(FlipDisciplineCancelled(db, d), SelectedOf(db, d),
                                 "discipline_cancelled")
<1>1. /\ db.disc[d].status = "active" /\ Open(r, E)
      /\ \A i \in SelectionIds :
           db.sel[i].status # "absent" /\ db.sel[i].discipline = d
             => db.period[db.sel[i].period].status # "finalized"
  BY DEF CancelDiscipline
<1>2. db \in Database /\ Consistent(db) /\ InOrder(db)
  BY DEF IInv, TypeOK
<1>3. Sound(db, E) /\ Lessens(db, E) /\ BookKept(db, E)
  BY <1>1, <1>2, CancelDisciplineSound
<1> HIDE DEF E
<1>4. Proceeds(db, E)
  BY <1>2, <1>3, LessensProceeds DEF Sound
<1> QED
  BY <1>1, <1>3, <1>4, OpenSound

LEMMA FinalizeStep ==
  ASSUME IInv, NEW r \in Requests, NEW p \in Periods, FinalizePeriod(r, p)
  PROVE  IInv'
<1> DEFINE C == CloseExpired(db, ended)
           E == Finalized(C, p)
<1>1. /\ C.period[p].status = "closed" /\ Open(r, E)
      /\ \A i \in Kept(C, p) : ~ RollTaken(C, BucketOf(C.sel[i]), p)
  BY DEF FinalizePeriod
<1>2. db \in Database /\ Consistent(db) /\ InOrder(db)
  BY DEF IInv, TypeOK
<1>3. /\ C \in Database /\ Consistent(C) /\ Lessens(db, C)
      /\ C.disc = db.disc /\ C.sel = db.sel
      /\ \A q \in Periods : /\ C.period[q] # db.period[q] => db.period[q].status = "active"
                            /\ db.period[q].status = "finalized" => C.period[q] = db.period[q]
  BY <1>2, CloseExpiredEffect
<1> HIDE DEF C
<1>4. Sound(C, E) /\ BookKept(C, E)
  BY <1>1, <1>3, FinalizeSound
<1>7. Proceeds(db, E)
  <2>1. db.period[p].status \in {"active", "closed"}
    BY <1>1, <1>3
  <2> QED
    BY <1>1, <1>2, <1>3, <2>1, FinalizeProceeds DEF Consistent
<1> HIDE DEF E
<1>5. \A d : SeatsOf(C, d) = SeatsOf(db, d)
  BY <1>3 DEF SeatsOf
<1>6. Sound(db, E)
  BY <1>3, <1>4, <1>5 DEF Sound
<1>8. BookKept(db, E)
  BY <1>3, <1>4, <1>5 DEF BookKept
<1> QED
  BY <1>1, <1>6, <1>7, <1>8, OpenSound

\* A handler that rewrites one discipline document, counter and all seats untouched.
LEMMA RewriteDisciplineStep ==
  ASSUME IInv, NEW r \in Requests, NEW d \in Disciplines, NEW doc \in Discipline,
         doc.enrolled = db.disc[d].enrolled, doc.enrolled <= doc.capacity,
         NEW E, E = [db EXCEPT !.disc = [db.disc EXCEPT ![d] = doc]], Open(r, E)
  PROVE  IInv'
<1> DEFINE x == [db.disc EXCEPT ![d] = doc]
<1>1. db \in Database /\ Consistent(db) /\ InOrder(db) /\ FourCollections(db)
  BY DatabaseIsFour DEF IInv, TypeOK
<1>2. x \in [Disciplines -> Discipline]
  BY <1>1 DEF Database
<1>3. \A c \in Disciplines : x[c] = IF c = d THEN doc ELSE db.disc[c]
  BY <1>1 DEF Database
<1> HIDE DEF x
<1>4. E = [disc |-> x, period |-> db.period, sel |-> db.sel, roll |-> db.roll]
  BY <1>1, FieldUpdate DEF x
<1>5. /\ E \in Database /\ E.disc = x
      /\ E.sel = db.sel /\ E.period = db.period /\ E.roll = db.roll
  BY <1>1, <1>2, <1>4 DEF Database
<1>6. \A c \in Disciplines : /\ E.disc[c].enrolled = db.disc[c].enrolled
                             /\ E.disc[c].enrolled <= E.disc[c].capacity
  BY <1>1, <1>3, <1>5 DEF Consistent, CapacityHolds
<1>7. Sound(db, E)
  BY <1>1, <1>5, <1>6, ManagerSound
<1>8. Lessens(db, E)
  BY <1>5 DEF Lessens, PeriodKeeps
<1>9. Proceeds(db, E)
  BY <1>1, <1>5, <1>8, LessensProceeds
<1>10. BookKept(db, E)
  BY <1>1, <1>5, <1>6, SeatsResized
<1> QED
  BY <1>7, <1>9, <1>10, OpenSound

LEMMA UpdateDisciplineStep ==
  ASSUME IInv, NEW r \in Requests, NEW d \in Disciplines, NEW capacity \in 1..MaxCapacity,
         NEW inTerm \in TermChoices, UpdateDiscipline(r, d, capacity, inTerm)
  PROVE  IInv'
<1> DEFINE doc == [db.disc[d] EXCEPT !.capacity = capacity, !.inTerm = inTerm]
           E == [db EXCEPT !.disc = [db.disc EXCEPT ![d] = doc]]
<1>1. capacity >= db.disc[d].enrolled /\ Open(r, E)
  BY DEF UpdateDiscipline
<1>2. db.disc[d] \in Discipline /\ inTerm \in BOOLEAN
  BY ChoiceAssumption DEF IInv, TypeOK, Database
<1>3. /\ doc \in Discipline /\ doc.enrolled = db.disc[d].enrolled /\ doc.capacity = capacity
  BY <1>2 DEF Discipline
<1>4. doc.enrolled <= doc.capacity
  <2>1. db.disc[d].enrolled \in 0..MaxCapacity
    BY <1>2 DEF Discipline
  <2> QED
    BY <1>1, <1>3, <2>1, BoundsAssumption
<1> HIDE DEF doc
<1> QED
  BY <1>1, <1>3, <1>4, RewriteDisciplineStep

LEMMA SetDisciplineStatusStep ==
  ASSUME IInv, NEW r \in Requests, NEW d \in Disciplines, NEW status \in StatusChoices,
         SetDisciplineStatus(r, d, status)
  PROVE  IInv'
<1> DEFINE doc == [db.disc[d] EXCEPT !.status = status]
           E == [db EXCEPT !.disc = [db.disc EXCEPT ![d] = doc]]
<1>1. Open(r, E)
  BY DEF SetDisciplineStatus
<1>2. db.disc[d] \in Discipline /\ status \in DisciplineStatus
  BY ChoiceAssumption DEF IInv, TypeOK, Database, DisciplineStatus
<1>3. /\ doc \in Discipline /\ doc.enrolled = db.disc[d].enrolled
      /\ doc.capacity = db.disc[d].capacity
  BY <1>2 DEF Discipline
<1>4. doc.enrolled <= doc.capacity
  BY <1>3 DEF IInv, Consistent, CapacityHolds
<1> HIDE DEF doc
<1> QED
  BY <1>1, <1>3, <1>4, RewriteDisciplineStep

\* A handler that rewrites one period document that is not finalized, and keeps what
\* the choices made in it rely on.
LEMMA RewritePeriodStep ==
  ASSUME IInv, NEW r \in Requests, NEW p \in Periods, NEW doc \in Period,
         db.period[p].status # "finalized", PeriodKeeps(db.period[p], doc),
         NEW E, E = [db EXCEPT !.period = [db.period EXCEPT ![p] = doc]], Open(r, E)
  PROVE  IInv'
<1> DEFINE x == [db.period EXCEPT ![p] = doc]
<1>1. db \in Database /\ Consistent(db) /\ InOrder(db) /\ FourCollections(db)
  BY DatabaseIsFour DEF IInv, TypeOK
<1>2. x \in [Periods -> Period]
  BY <1>1 DEF Database
<1>3. x[p] = doc /\ \A q \in Periods : q # p => x[q] = db.period[q]
  BY <1>1 DEF Database
<1> HIDE DEF x
<1>4. E = [disc |-> db.disc, period |-> x, sel |-> db.sel, roll |-> db.roll]
  BY <1>1, FieldUpdate DEF x
<1>5. /\ E \in Database /\ E.period = x
      /\ E.sel = db.sel /\ E.disc = db.disc /\ E.roll = db.roll
  BY <1>1, <1>2, <1>4 DEF Database
<1>6. /\ \A c \in Disciplines : /\ E.disc[c].enrolled = db.disc[c].enrolled
                                /\ E.disc[c].enrolled <= E.disc[c].capacity
      /\ \A q \in Periods : E.period[q] # db.period[q] => db.period[q].status # "finalized"
  BY <1>1, <1>3, <1>5 DEF Consistent, CapacityHolds
<1>7. Sound(db, E)
  BY <1>1, <1>5, <1>6, ManagerSound
<1>8. Lessens(db, E)
  <2>1. \A q \in Periods : PeriodKeeps(db.period[q], db.period[q])
    BY DEF PeriodKeeps
  <2> QED
    BY <1>3, <1>5, <2>1 DEF Lessens
<1>9. Proceeds(db, E)
  BY <1>1, <1>5, <1>8, LessensProceeds
<1>10. BookKept(db, E)
  BY <1>1, <1>5, <1>6, SeatsResized
<1> QED
  BY <1>7, <1>9, <1>10, OpenSound

LEMMA PeriodSteps ==
  ASSUME IInv, NEW r \in Requests, NEW p \in Periods,
         \/ \E required \in 1..MaxChoices : UpdatePeriod(r, p, required)
         \/ PublishPeriod(r, p)
         \/ ClosePeriod(r, p)
  PROVE  IInv'
<1>1. db.period[p] \in Period
  BY DEF IInv, TypeOK, Database
<1>2. CASE \E required \in 1..MaxChoices : UpdatePeriod(r, p, required)
  <2> PICK required \in 1..MaxChoices : UpdatePeriod(r, p, required)
    BY <1>2
  <2> DEFINE doc == [db.period[p] EXCEPT !.required = required]
  <2>1. /\ db.period[p].status = "draft"
        /\ Open(r, [db EXCEPT !.period = [db.period EXCEPT ![p] = doc]])
    BY DEF UpdatePeriod
  <2>2. doc \in Period /\ PeriodKeeps(db.period[p], doc)
    BY <1>1, <2>1 DEF Period, PeriodKeeps
  <2> HIDE DEF doc
  <2> QED
    BY <2>1, <2>2, RewritePeriodStep
<1>3. CASE PublishPeriod(r, p)
  <2> DEFINE doc == [db.period[p] EXCEPT !.status = "active"]
  <2>1. /\ db.period[p].status = "draft"
        /\ Open(r, [db EXCEPT !.period = [db.period EXCEPT ![p] = doc]])
    BY <1>3 DEF PublishPeriod, SetPeriod
  <2>2. doc \in Period /\ PeriodKeeps(db.period[p], doc)
    BY <1>1, <2>1 DEF Period, PeriodStatus, PeriodKeeps
  <2> HIDE DEF doc
  <2> QED
    BY <2>1, <2>2, RewritePeriodStep
<1>4. CASE ClosePeriod(r, p)
  <2> DEFINE doc == [db.period[p] EXCEPT !.status = "closed"]
  <2>1. /\ db.period[p].status # "finalized"
        /\ Open(r, [db EXCEPT !.period = [db.period EXCEPT ![p] = doc]])
    BY <1>4 DEF ClosePeriod, SetPeriod
  <2>2. doc \in Period /\ PeriodKeeps(db.period[p], doc)
    BY <1>1, <2>1 DEF Period, PeriodStatus, PeriodKeeps
  <2> HIDE DEF doc
  <2> QED
    BY <2>1, <2>2, RewritePeriodStep
<1> QED
  BY <1>2, <1>3, <1>4

LEMMA ListPeriodsStep ==
  ASSUME IInv, ListPeriods
  PROVE  IInv'
<1> DEFINE C == CloseExpired(db, ended)
           w == Diff(db, C)
<1>1. db' = C /\ Keep(Survivors(w, open)) /\ ended' = ended
  BY DEF ListPeriods
<1>2. db \in Database /\ Consistent(db) /\ InOrder(db)
  BY DEF IInv, TypeOK
<1>3. /\ C \in Database /\ Consistent(C) /\ C.disc = db.disc /\ C.sel = db.sel
      /\ Lessens(db, C)
      /\ \A q \in Periods : C.period[q] # db.period[q] => db.period[q].status = "active"
  BY <1>2, CloseExpiredEffect
<1> HIDE DEF C
<1>4. w \in WriteSet /\ Apply(db, w) = C /\ Fitting(db, w)
  BY <1>2, <1>3, DiffType, ApplyDiff, LessensProceeds, FittingDiff
<1>5. /\ DOMAIN w.disc = {} /\ DOMAIN w.sel = {}
      /\ \A q \in DOMAIN w.period : db.period[q].status = "active"
  <2>1. DOMAIN db.disc = Disciplines /\ DOMAIN db.period = Periods /\ DOMAIN db.sel = SelectionIds
    BY <1>2 DEF Database
  <2> QED
    BY <1>3, <2>1 DEF Diff, Changed
<1> HIDE DEF w
<1>6. \A d : SeatsOf(C, d) = SeatsOf(db, d)
  BY <1>3 DEF SeatsOf
<1>7. Installable(db, w)
  BY <1>3, <1>4, <1>5, <1>6 DEF Installable, Consistent, EnrolledOnlyWhenFinalized
<1> QED
  BY <1>1, <1>4, <1>5, <1>7, InstallSound

LEMMA NothingInstalled ==
  ASSUME IInv, db' = db, open' = open, write' = write, ended' \subseteq Periods
  PROVE  IInv'
<1>1. TypeOK'
  BY DEF IInv, TypeOK
<1>2. Consistent(db)'
  BY DEF IInv, Consistent, CountsExact, CapacityHolds, EnrolledOnlyWhenFinalized, SeatsOf
<1>3. WritesSound'
  <2>1. \A r \in open : Installable(db, write[r])
    BY DEF IInv, WritesSound, Installable
  <2> QED
    BY <2>1, SoundPrimed
<1>4. WritesFit'
  BY DEF IInv, WritesFit
<1>5. InOrder(db) /\ \A r \in open : Fitting(db, write[r])
  BY DEF IInv, WritesFitting
<1>6. WritesBooked'
  BY BookedPrimed DEF IInv, WritesBooked
<1> QED
  BY <1>1, <1>2, <1>3, <1>4, <1>5, <1>6, OrderPrimed DEF IInv

\* IInv holds in every reachable state: initially, and after every action of Next.
THEOREM Inductive == Spec => []IInv
<1>1. Init => IInv
  BY InitSound
<1>2. IInv /\ [Next]_vars => IInv'
  <2> SUFFICES ASSUME IInv, [Next]_vars PROVE IInv'
    OBVIOUS
  <2>1. ASSUME NEW r \in Requests, StudentRequest(r) PROVE IInv'
    BY <2>1, SelectStep, CancelStep DEF StudentRequest
  <2>2. ASSUME NEW r \in Requests, ManagerRequest(r) PROVE IInv'
    <3>1. CASE \E d \in Disciplines, capacity \in 1..MaxCapacity, inTerm \in TermChoices :
                 UpdateDiscipline(r, d, capacity, inTerm)
      BY <3>1, UpdateDisciplineStep
    <3>2. CASE \E d \in Disciplines, status \in StatusChoices : SetDisciplineStatus(r, d, status)
      BY <3>2, SetDisciplineStatusStep
    <3>3. CASE \E d \in Disciplines : CancelDiscipline(r, d)
      BY <3>3, CancelDisciplineStep
    <3>4. CASE \E p \in Periods :
                 \/ \E required \in 1..MaxChoices : UpdatePeriod(r, p, required)
                 \/ PublishPeriod(r, p) \/ ClosePeriod(r, p)
      BY <3>4, PeriodSteps
    <3>5. CASE \E p \in Periods : FinalizePeriod(r, p)
      BY <3>5, FinalizeStep
    <3> QED
      BY <2>2, <3>1, <3>2, <3>3, <3>4, <3>5 DEF ManagerRequest
  <2>3. ASSUME NEW r \in Requests, Commit(r) PROVE IInv'
    BY <2>3, CommitSound
  <2>4. ASSUME NEW r \in Requests, Abort(r) PROVE IInv'
    BY <2>4, AbortSound
  <2>5. CASE ListPeriods
    BY <2>5, ListPeriodsStep
  <2>6. ASSUME NEW p \in Periods, PeriodEnds(p) PROVE IInv'
    <3>1. /\ db' = db /\ open' = open /\ write' = write /\ ended' \subseteq Periods
      BY <2>6 DEF PeriodEnds, IInv, TypeOK
    <3> QED
      BY <3>1, NothingInstalled
  <2>7. CASE UNCHANGED vars
    <3>1. /\ db' = db /\ open' = open /\ write' = write /\ ended' \subseteq Periods
      BY <2>7 DEF vars, IInv, TypeOK
    <3> QED
      BY <3>1, NothingInstalled
  <2> QED
    BY <2>1, <2>2, <2>3, <2>4, <2>5, <2>6, <2>7 DEF Next
<1> QED
  BY <1>1, <1>2, PTL DEF Spec

\* Whatever requests run and however their transactions interleave, every document and
\* every pending write keeps the shape the schemas give it.
THEOREM TypeCorrect == Spec => []TypeOK
<1>1. IInv => TypeOK
  BY DEF IInv
<1> QED
  BY <1>1, Inductive, PTL

\* The open transactions are always ones that may be installed as they are.
THEOREM WritesAreSound == Spec => []WritesSound
<1>1. IInv => WritesSound
  BY DEF IInv
<1> QED
  BY <1>1, Inductive, PTL

\* enrolledCount is the number of seats taken, for any number of students, disciplines
\* and concurrent requests.
THEOREM CounterIsExact == Spec => []SeatsExact
<1>1. IInv => SeatsExact
  BY DEF IInv, Consistent, CountsExact, SeatsExact
<1> QED
  BY <1>1, Inductive, PTL

\* No discipline is ever overbooked.
THEOREM NoOverbooking == Spec => []NeverOverbooked
<1>1. IInv => NeverOverbooked
  BY DEF IInv, Consistent, CountsExact, CapacityHolds, NeverOverbooked
<1> QED
  BY <1>1, Inductive, PTL

\* No student ever holds more choices in a period than it asks for, nor the same discipline
\* twice, however many of their requests run at once.
THEOREM ChoicesWithinQuota == Spec => []QuotaRespected
<1>1. IInv => QuotaRespected
  <2> SUFFICES ASSUME IInv, NEW s \in Students, NEW p \in Periods
               PROVE  /\ Cardinality(ChoicesOf(db, s, p)) <= db.period[p].required
                      /\ \A i, j \in ChoicesOf(db, s, p) :
                           db.sel[i].discipline = db.sel[j].discipline => i = j
    BY DEF QuotaRespected
  <2>1. db \in Database /\ SlotsFit(db) /\ ChoicesDiffer(db)
    BY DEF IInv, TypeOK, InOrder
  <2>2. Cardinality(ChoicesOf(db, s, p)) <= db.period[p].required
    BY <2>1, ChoicesWithinSlots
  <2>3. \A i, j \in ChoicesOf(db, s, p) : db.sel[i].discipline = db.sel[j].discipline => i = j
    BY <2>1 DEF ChoicesOf, ChoicesDiffer
  <2> QED
    BY <2>2, <2>3
<1> QED
  BY <1>1, Inductive, PTL

\* A student is enrolled in the whole set a period asks for or in none of it.
THEOREM SetsAreComplete == Spec => []EnrolledSetsComplete
<1>1. IInv => EnrolledSetsComplete
  <2> SUFFICES ASSUME IInv, NEW s \in Students, NEW p \in Periods,
                      {i \in ChoicesOf(db, s, p) : db.sel[i].status = "enrolled"} # {}
               PROVE  /\ db.period[p].status = "finalized"
                      /\ Cardinality({i \in ChoicesOf(db, s, p) : db.sel[i].status = "enrolled"})
                           = db.period[p].required
    BY DEF EnrolledSetsComplete
  <2>1. {i \in ChoicesOf(db, s, p) : db.sel[i].status = "enrolled"} = EnrolledOf(db, s, p)
    BY DEF ChoicesOf, EnrolledOf, IsActive
  <2> QED
    BY <2>1 DEF IInv, InOrder, SetsComplete
<1> QED
  BY <1>1, Inductive, PTL

\* The rolls of the course assignments name exactly the students enrolled through them.
THEOREM RollsMatchEnrolment == Spec => []RollMatchesEnrolment
<1>1. IInv => RollMatchesEnrolment
  BY DEF IInv, InOrder, RollsMatch, OnRoll, RollMatchesEnrolment
<1> QED
  BY <1>1, Inductive, PTL

LEMMA OpenKeepsDatabase ==
  \A r, E : Open(r, E) => db' = db
BY DEF Open

\* A handler only opens its transaction: the collections change when it commits.
LEMMA RequestsOnlyOpen ==
  \A r \in Requests : StudentRequest(r) \/ ManagerRequest(r) => db' = db
<1> SUFFICES ASSUME NEW r \in Requests, StudentRequest(r) \/ ManagerRequest(r)
             PROVE  db' = db
  OBVIOUS
<1>1. \A s, p, d, i, slot : SelectDiscipline(r, s, p, d, i, slot) => db' = db
  BY OpenKeepsDatabase DEF SelectDiscipline
<1>2. \A i : CancelSelection(r, i) => db' = db
  BY OpenKeepsDatabase DEF CancelSelection
<1>3. \A d, capacity, inTerm : UpdateDiscipline(r, d, capacity, inTerm) => db' = db
  BY OpenKeepsDatabase DEF UpdateDiscipline
<1>4. \A d, status : SetDisciplineStatus(r, d, status) => db' = db
  BY OpenKeepsDatabase DEF SetDisciplineStatus
<1>5. \A d : CancelDiscipline(r, d) => db' = db
  BY OpenKeepsDatabase DEF CancelDiscipline
<1>6. \A p, required : UpdatePeriod(r, p, required) => db' = db
  BY OpenKeepsDatabase DEF UpdatePeriod
<1>7. \A p : PublishPeriod(r, p) => db' = db
  BY OpenKeepsDatabase DEF PublishPeriod
<1>8. \A p : ClosePeriod(r, p) => db' = db
  BY OpenKeepsDatabase DEF ClosePeriod
<1>9. \A p : FinalizePeriod(r, p) => db' = db
  BY OpenKeepsDatabase DEF FinalizePeriod
<1>10. CASE StudentRequest(r)
  BY <1>1, <1>2, <1>10, Zenon DEF StudentRequest
<1>11. CASE ManagerRequest(r)
  BY <1>3, <1>4, <1>5, <1>6, <1>7, <1>8, <1>9, <1>11, Zenon DEF ManagerRequest
<1> QED
  BY <1>10, <1>11

\* A cancelled or enrolled selection never changes again.
THEOREM SettledStays == Spec => SettledSelectionsStay
<1>1. IInv /\ [Next]_vars =>
        [\A i \in SelectionIds :
           db.sel[i].status \in {"cancelled", "enrolled"} => db'.sel[i] = db.sel[i]]_vars
  <2> SUFFICES ASSUME IInv, Next, NEW i \in SelectionIds,
                      db.sel[i].status \in {"cancelled", "enrolled"}
               PROVE  db'.sel[i] = db.sel[i]
    OBVIOUS
  <2>1. CASE db' = db
    BY <2>1
  <2>2. ASSUME NEW r \in Requests, Commit(r) PROVE db'.sel[i] = db.sel[i]
    <3>1. r \in open /\ db' = Apply(db, write[r])
      BY <2>2 DEF Commit
    <3>2. db \in Database /\ write[r] \in WriteSet
      BY DEF IInv, TypeOK
    <3>3. db'.sel[i] = IF i \in DOMAIN write[r].sel THEN write[r].sel[i] ELSE db.sel[i]
      BY <3>1, <3>2, ApplyPointwise
    <3> QED
      BY <3>1, <3>3 DEF IInv, WritesSound
  <2>3. CASE ListPeriods
    <3>1. db' = CloseExpired(db, ended) /\ db \in Database /\ Consistent(db)
      BY <2>3 DEF ListPeriods, IInv, TypeOK
    <3> QED
      BY <3>1, CloseExpiredEffect
  <2>4. \A r \in Requests : StudentRequest(r) \/ ManagerRequest(r) => db' = db
    BY RequestsOnlyOpen
  <2>5. \A r \in Requests : Abort(r) => db' = db
    BY DEF Abort
  <2>6. \A p \in Periods : PeriodEnds(p) => db' = db
    BY DEF PeriodEnds
  <2> QED
    BY <2>1, <2>2, <2>3, <2>4, <2>5, <2>6 DEF Next
<1> QED
  BY <1>1, Inductive, PTL DEF Spec, SettledSelectionsStay

\* The committed collections take one step of the seat book at a time, or none.
LEMMA BookSteps ==
  ASSUME IInv, Next
  PROVE  db' = db \/ BookKept(db, db')
<1>1. ASSUME NEW r \in Requests, Commit(r) PROVE BookKept(db, db')
  BY <1>1 DEF Commit, IInv, WritesBooked
<1>2. CASE ListPeriods
  <2>1. db' = CloseExpired(db, ended) /\ db \in Database /\ Consistent(db)
    BY <1>2 DEF ListPeriods, IInv, TypeOK
  <2>2. db'.disc = db.disc /\ db'.sel = db.sel
    BY <2>1, CloseExpiredEffect
  <2> QED
    BY <2>2, SeatsLeft
<1>3. \A r \in Requests : StudentRequest(r) \/ ManagerRequest(r) => db' = db
  BY RequestsOnlyOpen
<1>4. \A r \in Requests : Abort(r) => db' = db
  BY DEF Abort
<1>5. \A p \in Periods : PeriodEnds(p) => db' = db
  BY DEF PeriodEnds
<1> QED
  BY <1>1, <1>2, <1>3, <1>4, <1>5 DEF Next

\* enrolledCount, incremented and decremented by concurrent transactions and never
\* recounted, implements the book of seat holders.
THEOREM CounterIsABook == Spec => SeatBookSpec
<1> DEFINE holders == [d \in Disciplines |-> SeatsOf(db, d)]
           size == [d \in Disciplines |-> db.disc[d].capacity]
<1>1. Init => Book!Init
  <2> SUFFICES ASSUME Init PROVE Book!Init
    OBVIOUS
  <2>1. /\ db.disc \in [Disciplines -> [status : {"draft"}, capacity : 1..MaxCapacity,
                                       enrolled : {0}, inTerm : {TRUE}]]
        /\ db.sel \in [SelectionIds -> {NoSelection}]
    BY DEF Init, FreshDatabases
  <2>2. \A d \in Disciplines : SeatsOf(db, d) = {}
    BY <2>1 DEF SeatsOf, IsActive, NoSelection
  <2>3. \A d \in Disciplines : db.disc[d].capacity \in 1..MaxCapacity
    BY <2>1
  <2>4. holders = [d \in Disciplines |-> {}]
    BY <2>2
  <2>5. size \in [Disciplines -> 1..MaxCapacity]
    BY <2>3
  <2> QED
    BY <2>4, <2>5 DEF Book!Init
<1>2. IInv /\ [Next]_vars => [Book!Next]_<<holders, size>>
  <2> SUFFICES ASSUME IInv, [Next]_vars PROVE Book!Next \/ UNCHANGED <<holders, size>>
    OBVIOUS
  <2>1. CASE db' = db
    <3>1. holders' = holders /\ size' = size
      BY <2>1 DEF SeatsOf
    <3> QED
      BY <3>1
  <2>2. CASE BookKept(db, db')
    <3>1. \A d \in Disciplines : /\ holders[d] = SeatsOf(db, d) /\ size[d] = db.disc[d].capacity
                                 /\ holders'[d] = SeatsOf(db', d) /\ size'[d] = db'.disc[d].capacity
      BY DEF SeatsOf, IsActive
    <3> HIDE DEF holders, size
    <3>2. \A d \in Disciplines :
            \/ /\ \E i \in SelectionIds \ holders[d] : holders'[d] = holders[d] \cup {i}
               /\ Cardinality(holders[d]) < size[d] /\ size'[d] = size[d]
            \/ holders'[d] \in SUBSET holders[d] /\ size'[d] = size[d]
            \/ holders'[d] = holders[d] /\ size'[d] \in Cardinality(holders[d])..MaxCapacity
      BY <2>2, <3>1 DEF BookKept
    <3>3. \A S : Book!Cardinality(S) = Cardinality(S)
      BY DEF Book!Cardinality, Cardinality
    <3>4. Book!Next
      BY <3>2, <3>3 DEF Book!Next, Book!Admit, Book!Release, Book!Resize, holders, size
    <3> QED
      BY <3>4
  <2> QED
    BY <2>1, <2>2, BookSteps DEF vars
<1> QED
  BY <1>1, <1>2, Inductive, PTL DEF Spec, SeatBookSpec, Book!Spec
====
