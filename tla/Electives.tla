---- MODULE Electives ----
(***************************************************************************)
(* The elective-disciplines service in the deployed configuration          *)
(* (AUDIT_TRANSACTIONAL_OUTBOX=true): every POST/PUT/PATCH/DELETE handler  *)
(* runs inside one MongoDB transaction opened by TransactionInterceptor    *)
(* (readConcern snapshot, writeConcern majority).                          *)
(*                                                                         *)
(* A transaction reads the snapshot taken when it begins and is visible    *)
(* only when it commits; two transactions that write the same document or  *)
(* the same unique-index entry conflict, and the first to commit wins.     *)
(* What a transaction has only READ is not protected: a commit may install *)
(* writes whose guard was true in the snapshot and is false now.           *)
(*                                                                         *)
(* So a handler is one action that opens a transaction holding its writes  *)
(* (Open), followed by Commit or Abort.  A handler that throws changes     *)
(* nothing and is not represented.  A transaction overtaken by a           *)
(* conflicting commit can only abort, and the driver runs the handler      *)
(* again on a new snapshot: the model drops it at once, and the retry is   *)
(* a new Open.                                                             *)
(***************************************************************************)
EXTENDS ElectiveStore

VARIABLES db,      \* the committed collections
          ended,   \* periods whose endsAt is in the past
          open,    \* requests with a transaction in progress
          write    \* what each open transaction will install

vars == <<db, ended, open, write>>

----
(* Transactions. *)

PartialFunctions(S, T) == UNION {[X -> T] : X \in SUBSET S}
Changed(f, g) == [x \in {y \in DOMAIN f : f[y] # g[y]} |-> g[x]]
Overlay(f, w) == [x \in DOMAIN f |-> IF x \in DOMAIN w THEN w[x] ELSE f[x]]

\* Fault: the index on (student, period, choiceSlot) is missing.
IndexEntriesNoSlot(D) ==
  {<<"choice", D.sel[i].student, D.sel[i].period, D.sel[i].discipline>> :
     i \in {j \in SelectionIds : IsActive(D.sel[j])}}

IndexEntries(D) ==
  LET act == {i \in SelectionIds : IsActive(D.sel[i])}
  IN  {<<"choice", D.sel[i].student, D.sel[i].period, D.sel[i].discipline>> : i \in act}
        \cup {<<"slot", D.sel[i].student, D.sel[i].period, D.sel[i].slot>> : i \in act}

Diff(D, E) ==
  [disc |-> Changed(D.disc, E.disc), period |-> Changed(D.period, E.period),
   sel |-> Changed(D.sel, E.sel), roll |-> Changed(D.roll, E.roll),
   index |-> (IndexEntries(D) \ IndexEntries(E)) \cup (IndexEntries(E) \ IndexEntries(D))]

Apply(D, w) ==
  [disc |-> Overlay(D.disc, w.disc), period |-> Overlay(D.period, w.period),
   sel |-> Overlay(D.sel, w.sel), roll |-> Overlay(D.roll, w.roll)]

Nothing == [x \in {} |-> x]
NoWrites == [disc |-> Nothing, period |-> Nothing, sel |-> Nothing, roll |-> Nothing,
             index |-> {}]

Overlap(v, w) ==
  \/ DOMAIN v.disc \cap DOMAIN w.disc # {}
  \/ DOMAIN v.period \cap DOMAIN w.period # {}
  \/ DOMAIN v.sel \cap DOMAIN w.sel # {}
  \/ DOMAIN v.roll \cap DOMAIN w.roll # {}
  \/ v.index \cap w.index # {}

\* The handler has run to its end on the snapshot db and produced E.
Open(r, E) ==
  /\ r \notin open
  /\ E # db
  /\ open' = open \cup {r}
  /\ write' = [write EXCEPT ![r] = Diff(db, E)]
  /\ UNCHANGED <<db, ended>>

\* The transactions still open after the writes w reach the database from elsewhere.
Survivors(w, others) == {q \in others : ~ Overlap(write[q], w)}

Keep(survivors) ==
  /\ open' = survivors
  /\ write' = [q \in Requests |-> IF q \in survivors THEN write[q] ELSE NoWrites]

Commit(r) ==
  /\ r \in open
  /\ db' = Apply(db, write[r])
  /\ Keep(Survivors(write[r], open \ {r}))
  /\ UNCHANGED ended

\* The handler failed, the database refused the commit, or the process died before it.
Abort(r) ==
  /\ r \in open
  /\ Keep(open \ {r})
  /\ UNCHANGED <<db, ended>>

----
(* Handlers. *)

FreshSelection(i) ==
  /\ db.sel[i].status = "absent"
  /\ \A q \in open : i \notin DOMAIN write[q].sel

LowestFreeSlot(D, s, p, slot) ==
  /\ slot < D.period[p].required
  /\ slot \notin SlotsTaken(D, s, p)
  /\ 0..(slot - 1) \subseteq SlotsTaken(D, s, p)

MayChoose(D, s, p, d) ==
  /\ IsOpen(D, p, ended)
  /\ \A i \in ChoicesOf(D, s, p) : D.sel[i].discipline # d
  /\ Cardinality(ChoicesOf(D, s, p)) < D.period[p].required
  /\ HasFreeSeat(D, d)

SelectDiscipline(r, s, p, d, i, slot) ==
  LET D == CloseExpired(db, ended)
  IN  /\ MayChoose(D, s, p, d)
      /\ FreshSelection(i)
      /\ LowestFreeSlot(D, s, p, slot)
      /\ Open(r, InsertSelection(TakeSeat(D, d), i, s, p, d, slot))

CancelSelection(r, i) ==
  /\ db.sel[i].status = "selected"
  /\ IsOpen(db, db.sel[i].period, ended)
  /\ Open(r, ReturnSeat(CancelSelections(db, {i}, "student"), db.sel[i].discipline))

\* Fault: the capacity may go below the students already enrolled.
UpdateDisciplineFreely(r, d, capacity, inTerm) ==
  Open(r, [db EXCEPT !.disc[d] = [@ EXCEPT !.capacity = capacity, !.inTerm = inTerm]])

UpdateDiscipline(r, d, capacity, inTerm) ==
  /\ capacity >= db.disc[d].enrolled
  /\ Open(r, [db EXCEPT !.disc[d] = [@ EXCEPT !.capacity = capacity, !.inTerm = inTerm]])

SetDisciplineStatus(r, d, status) ==
  /\ db.disc[d].status # "cancelled"
  /\ Open(r, [db EXCEPT !.disc[d].status = status])

\* Fault: a discipline may be cancelled although its period is finalized.
CancelDisciplineAlways(r, d) ==
  /\ db.disc[d].status = "active"
  /\ Open(r, CancelSelections(FlipDisciplineCancelled(db, d), SelectedOf(db, d),
                              "discipline_cancelled"))

CancelDiscipline(r, d) ==
  /\ db.disc[d].status = "active"
  /\ \A i \in SelectionIds :
       /\ db.sel[i].status # "absent"
       /\ db.sel[i].discipline = d
       => db.period[db.sel[i].period].status # "finalized"
  /\ Open(r, CancelSelections(FlipDisciplineCancelled(db, d), SelectedOf(db, d),
                              "discipline_cancelled"))

UpdatePeriod(r, p, required) ==
  /\ db.period[p].status = "draft"
  /\ Open(r, [db EXCEPT !.period[p].required = required])

PublishPeriod(r, p) ==
  /\ db.period[p].status = "draft"
  /\ p \notin ended
  /\ Open(r, SetPeriod(db, p, "active"))

ClosePeriod(r, p) ==
  /\ db.period[p].status = "active"
  /\ Open(r, SetPeriod(db, p, "closed"))

\* One guarded decrement per cancelled selection, summed by discipline.
ReturnSeats(D, ids) ==
  [D EXCEPT !.disc = [d \in Disciplines |->
     [D.disc[d] EXCEPT !.enrolled = Less(@, Cardinality(ids \cap SeatsOf(D, d)))]]]

AddToRolls(D, p, ids) ==
  [D EXCEPT !.roll = [k \in Rolls |->
     LET students == {D.sel[i].student : i \in {j \in ids : BucketOf(D.sel[j]) = k}}
     IN  IF students = {} THEN D.roll[k]
         ELSE [period |-> p, students |-> D.roll[k].students \cup students]]]

Dropped(D, p) ==
  LET read == SelectedIn(D, p)
  IN  {i \in read : D.sel[i].student \in Incomplete(D, D.period[p].required, read)}

Kept(D, p) == SelectedIn(D, p) \ Dropped(D, p)

Finalized(D, p) ==
  MarkFinalized(
    EnrolSelections(
      AddToRolls(
        CancelSelections(ReturnSeats(D, Dropped(D, p)), Dropped(D, p), "incomplete_set"),
        p, Kept(D, p)),
      Kept(D, p)),
    p)

\* The lock taken on entry is cleared by the same transaction, so none is ever visible.
FinalizePeriod(r, p) ==
  LET D == CloseExpired(db, ended)
  IN  /\ D.period[p].status = "closed"
      /\ \A i \in Kept(D, p) : /\ D.disc[D.sel[i].discipline].inTerm
                               /\ ~ RollTaken(D, BucketOf(D.sel[i]), p)
      /\ Open(r, Finalized(D, p))

\* GET /electives/periods and /electives/active: not transactional.
ListPeriods ==
  LET D == CloseExpired(db, ended)
  IN  /\ D # db
      /\ db' = D
      /\ Keep(Survivors(Diff(db, D), open))
      /\ UNCHANGED ended

PeriodEnds(p) ==
  /\ p \notin ended
  /\ ended' = ended \cup {p}
  /\ UNCHANGED <<db, open, write>>

----
Init ==
  /\ db \in FreshDatabases
  /\ ended = {}
  /\ open = {}
  /\ write = [r \in Requests |-> NoWrites]

StudentRequest(r) ==
  \/ \E s \in Students, p \in Periods, d \in Disciplines, i \in SelectionIds,
        slot \in 0..(MaxChoices - 1) : SelectDiscipline(r, s, p, d, i, slot)
  \/ \E i \in SelectionIds : CancelSelection(r, i)

ManagerRequest(r) ==
  \/ \E d \in Disciplines, capacity \in 1..MaxCapacity, inTerm \in TermChoices :
       UpdateDiscipline(r, d, capacity, inTerm)
  \/ \E d \in Disciplines, status \in StatusChoices :
       SetDisciplineStatus(r, d, status)
  \/ \E d \in Disciplines : CancelDiscipline(r, d)
  \/ \E p \in Periods, required \in 1..MaxChoices : UpdatePeriod(r, p, required)
  \/ \E p \in Periods : PublishPeriod(r, p)
  \/ \E p \in Periods : ClosePeriod(r, p)
  \/ \E p \in Periods : FinalizePeriod(r, p)

Next ==
  \/ \E r \in Requests : StudentRequest(r) \/ ManagerRequest(r) \/ Commit(r) \/ Abort(r)
  \/ ListPeriods
  \/ \E p \in Periods : PeriodEnds(p)

Spec == Init /\ [][Next]_vars

----
(* What the module promises. *)

WriteSet == [disc : PartialFunctions(Disciplines, Discipline),
             period : PartialFunctions(Periods, Period),
             sel : PartialFunctions(SelectionIds, Selection \cup {NoSelection}),
             roll : PartialFunctions(Rolls, RollEntry),
             index : SUBSET (({"choice"} \X Students \X Periods \X Disciplines)
                        \cup ({"slot"} \X Students \X Periods \X (0..(MaxChoices - 1))))]

TypeOK ==
  /\ db \in Database
  /\ ended \subseteq Periods
  /\ open \subseteq Requests
  /\ write \in [Requests -> WriteSet]

\* enrolledCount, the counter that hands out seats, always equals the number of
\* selected or enrolled selections of the discipline: concurrent selections,
\* withdrawals, cancellations and finalizations neither leak nor duplicate a seat.
SeatsExact ==
  \A d \in Disciplines : db.disc[d].enrolled = Cardinality(SeatsOf(db, d))

\* Why it stays so although a commit does not check what its transaction has only read:
\* whatever else has committed meanwhile, installing the writes of an open transaction
\* leaves the counters it wrote equal to the seats and the other disciplines' seats as
\* they are, touches only periods and selections that are not final, and enrols only
\* in a period that is then finalized.
WritesSound ==
  \A r \in open :
    LET E == Apply(db, write[r])
    IN  /\ \A d \in Disciplines :
             IF d \in DOMAIN write[r].disc
               THEN E.disc[d].enrolled = Cardinality(SeatsOf(E, d))
               ELSE SeatsOf(E, d) = SeatsOf(db, d)
        /\ \A p \in DOMAIN write[r].period : db.period[p].status # "finalized"
        /\ \A i \in DOMAIN write[r].sel : db.sel[i].status \in {"absent", "selected"}
        /\ \A i \in SelectionIds :
             E.sel[i].status = "enrolled" => E.period[E.sel[i].period].status = "finalized"

\* A discipline never has more students than its capacity, even while the capacity
\* is being lowered: "the seat limit is enforced atomically" (README 4.6).
NeverOverbooked ==
  \A d \in Disciplines : Cardinality(SeatsOf(db, d)) <= db.disc[d].capacity

\* A student never holds more than requiredChoices active selections in a period,
\* nor the same discipline twice, however many requests run at once.
QuotaRespected ==
  \A s \in Students, p \in Periods :
    /\ Cardinality(ChoicesOf(db, s, p)) <= db.period[p].required
    /\ \A i, j \in ChoicesOf(db, s, p) :
         db.sel[i].discipline = db.sel[j].discipline => i = j

\* Finalization enrols a student in the whole set of required choices or in none.
EnrolledSetsComplete ==
  \A s \in Students, p \in Periods :
    LET enrolled == {i \in ChoicesOf(db, s, p) : db.sel[i].status = "enrolled"}
    IN  enrolled # {} =>
          /\ db.period[p].status = "finalized"
          /\ Cardinality(enrolled) = db.period[p].required

\* An enrolled selection's student is on the roll of the course assignment that the
\* same period created for the discipline and the student's group, and only then.
RollMatchesEnrolment ==
  \A k \in Rolls :
    db.roll[k].students =
      {db.sel[i].student : i \in {j \in SelectionIds :
         /\ db.sel[j].status = "enrolled"
         /\ BucketOf(db.sel[j]) = k
         /\ db.sel[j].period = db.roll[k].period}}

\* A cancelled or enrolled selection is final: no late handler revives a withdrawn
\* choice or cancels an enrolled one.
SettledSelectionsStay ==
  [][\A i \in SelectionIds :
       db.sel[i].status \in {"cancelled", "enrolled"} => db'.sel[i] = db.sel[i]]_vars

\* The counter implements a book of seat holders: a selection is admitted only while
\* the discipline has fewer holders than seats, and every seat given back is the seat
\* of a selection that ended.
Book == INSTANCE SeatBook WITH
          Holders <- SelectionIds,
          MaxSize <- MaxCapacity,
          holders <- [d \in Disciplines |-> SeatsOf(db, d)],
          size <- [d \in Disciplines |-> db.disc[d].capacity]

SeatBookSpec == Book!Spec

\* "Students may choose disciplines only while the period is active" and "a finalized
\* period is immutable" (README 4.6): a finalized period holds no selection that is
\* still waiting for finalization.
FinalizedPeriodSettled ==
  \A i \in SelectionIds :
    db.sel[i].status = "selected" => db.period[db.sel[i].period].status # "finalized"
====
