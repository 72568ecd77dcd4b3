---- MODULE ElectiveSteps ----
(***************************************************************************)
(* The elective-disciplines service with AUDIT_TRANSACTIONAL_OUTBOX=false, *)
(* the configuration of every e2e suite and of a MongoDB without a replica *)
(* set: no transaction surrounds a handler, so each awaited statement is a *)
(* step of its own, the statements of concurrent requests interleave, and  *)
(* a process that dies leaves a handler half done.                         *)
(*                                                                         *)
(* A request carries its place in the handler (pc) and the local variables *)
(* the rest of the handler reads.  Each request runs once; Job says which  *)
(* handlers it may run.                                                    *)
(***************************************************************************)
EXTENDS ElectiveStore

CONSTANTS Job,        \* the handlers a request may run
          Archivable  \* disciplines whose course managers archive and restore

ASSUME JobAssumption ==
  Job \in [Requests -> SUBSET {"select", "withdraw", "cancel", "finalize",
                              "edit", "status", "period", "publish"}]
ASSUME ArchivableAssumption == Archivable \subseteq Disciplines

VARIABLES db,
          ended,     \* periods whose endsAt is in the past
          stale,     \* periods whose finalization lock is more than 15 minutes old
          archived,  \* disciplines whose course (found by code) is archived
          req,       \* what each request is about to do
          crashed    \* whether some request died half-way

vars == <<db, ended, stale, archived, req, crashed>>

Idle == [pc |-> "idle"]
Done == [pc |-> "done"]

----
(* One step of request r, which goes from `pc` to the local state `next`. *)

At(r, pc) == req[r].pc = pc

Goes(r, next) ==
  /\ req' = [req EXCEPT ![r] = next]
  /\ UNCHANGED <<ended, archived, crashed>>

\* The handler's catch block: release the lock, answer with the error.
Released(r) == [pc |-> "finalize.release", p |-> req[r].p]

Begins(r, job) == At(r, "idle") /\ job \in Job[r]

----
(* selectDiscipline *)

SelectBegin(r, s, p, d) ==
  /\ Begins(r, "select")
  /\ db' = CloseExpired(db, ended)
  /\ Goes(r, [pc |-> "select.period", s |-> s, p |-> p, d |-> d])
  /\ UNCHANGED stale

SelectReadPeriod(r) ==
  /\ At(r, "select.period")
  /\ Goes(r, IF IsOpen(db, req[r].p, ended)
             THEN [pc |-> "select.quota", s |-> req[r].s, p |-> req[r].p, d |-> req[r].d,
                   required |-> db.period[req[r].p].required]
             ELSE Done)
  /\ UNCHANGED <<db, stale>>

\* The student's choices and the discipline, read in parallel, and the checks on them,
\* with the requiredChoices of the period as it was read before.
SelectReadQuota(r) ==
  LET mine == ChoicesOf(db, req[r].s, req[r].p)
  IN  /\ At(r, "select.quota")
      /\ Goes(r, IF /\ db.disc[req[r].d].status = "active"
                    /\ db.disc[req[r].d].inTerm
                    /\ \A i \in mine : db.sel[i].discipline # req[r].d
                    /\ Cardinality(mine) < req[r].required
                 THEN [pc |-> "select.reserve", s |-> req[r].s, p |-> req[r].p, d |-> req[r].d,
                       slots |-> 0..(req[r].required - 1) \ SlotsTaken(db, req[r].s, req[r].p)]
                 ELSE Done)
      /\ UNCHANGED <<db, stale>>

SelectReserve(r) ==
  /\ At(r, "select.reserve")
  /\ IF HasFreeSeat(db, req[r].d)
       THEN /\ db' = TakeSeat(db, req[r].d)
            /\ Goes(r, [req[r] EXCEPT !.pc = "select.create"])
       ELSE UNCHANGED db /\ Goes(r, Done)
  /\ UNCHANGED stale

\* createSelectionInAvailableSlot, one attempt: the lowest slot not yet tried.
SelectCreate(r, i) ==
  LET slot == CHOOSE k \in req[r].slots : \A j \in req[r].slots : k <= j
  IN  /\ At(r, "select.create")
      /\ req[r].slots # {}
      /\ db.sel[i].status = "absent"
      /\ IF IndexesAdmit(db, req[r].s, req[r].p, req[r].d, slot)
           THEN /\ db' = InsertSelection(db, i, req[r].s, req[r].p, req[r].d, slot)
                /\ Goes(r, Done)
           ELSE /\ UNCHANGED db
                /\ Goes(r, [req[r] EXCEPT !.slots = @ \ {slot}])
      /\ UNCHANGED stale

\* No slot was left, or the insert failed for another reason: the seat goes back.
SelectCreateFails(r) ==
  /\ At(r, "select.create")
  /\ Goes(r, [pc |-> "select.undo", d |-> req[r].d])
  /\ UNCHANGED <<db, stale>>

\* Fault: a failed insert keeps the seat it reserved.
SelectUndoForgotten(r) ==
  /\ At(r, "select.undo")
  /\ Goes(r, Done)
  /\ UNCHANGED <<db, stale>>

SelectUndo(r) ==
  /\ At(r, "select.undo")
  /\ db' = ReturnSeat(db, req[r].d)
  /\ Goes(r, Done)
  /\ UNCHANGED stale

----
(* cancelSelection *)

WithdrawBegin(r, i) ==
  /\ Begins(r, "withdraw")
  /\ db.sel[i].status # "absent"
  /\ IsOpen(db, db.sel[i].period, ended)
  /\ Goes(r, [pc |-> "withdraw.cancel", i |-> i])
  /\ UNCHANGED <<db, stale>>

WithdrawCancel(r) ==
  LET i == req[r].i
  IN  /\ At(r, "withdraw.cancel")
      /\ IF db.sel[i].status = "selected"
           THEN /\ db' = CancelSelections(db, {i}, "student")
                /\ Goes(r, [req[r] EXCEPT !.pc = "withdraw.seat"])
           ELSE UNCHANGED db /\ Goes(r, Done)
      /\ UNCHANGED stale

WithdrawSeat(r) ==
  /\ At(r, "withdraw.seat")
  /\ db' = ReturnSeat(db, db.sel[req[r].i].discipline)
  /\ Goes(r, Done)
  /\ UNCHANGED stale

----
(* cancelDiscipline *)

CancelBegin(r, d) ==
  /\ Begins(r, "cancel")
  /\ db.disc[d].status = "active"
  /\ Goes(r, [pc |-> "cancel.periods", d |-> d])
  /\ UNCHANGED <<db, stale>>

\* distinct('period') over the discipline's selections of any status, then exists(FINALIZED).
CancelCheckPeriods(r) ==
  /\ At(r, "cancel.periods")
  /\ Goes(r, IF \E i \in SelectionIds :
                  /\ db.sel[i].status # "absent"
                  /\ db.sel[i].discipline = req[r].d
                  /\ db.period[db.sel[i].period].status = "finalized"
             THEN Done ELSE [req[r] EXCEPT !.pc = "cancel.flip"])
  /\ UNCHANGED <<db, stale>>

CancelFlip(r) ==
  /\ At(r, "cancel.flip")
  /\ IF db.disc[req[r].d].status = "active"
       THEN /\ db' = FlipDisciplineCancelled(db, req[r].d)
            /\ Goes(r, [req[r] EXCEPT !.pc = "cancel.cascade"])
       ELSE UNCHANGED db /\ Goes(r, Done)
  /\ UNCHANGED stale

CancelCascade(r) ==
  /\ At(r, "cancel.cascade")
  /\ db' = CancelSelections(db, SelectedOf(db, req[r].d), "discipline_cancelled")
  /\ Goes(r, Done)
  /\ UNCHANGED stale

----
(* finalizePeriod *)

FinalizeBegin(r, p) ==
  /\ Begins(r, "finalize")
  /\ db' = CloseExpired(db, ended)
  /\ Goes(r, [pc |-> "finalize.lock", p |-> p])
  /\ UNCHANGED stale

Lockable(p) ==
  /\ db.period[p].status = "closed"
  /\ db.period[p].lock = NoRequest \/ p \in stale

\* The lock carries this attempt's token; a lock older than 15 minutes is taken over.
FinalizeLock(r) ==
  LET p == req[r].p
  IN  /\ At(r, "finalize.lock")
      /\ IF Lockable(p)
           THEN /\ db' = [db EXCEPT !.period[p].lock = r]
                /\ stale' = stale \ {p}
                /\ Goes(r, [pc |-> "finalize.read", p |-> p, required |-> db.period[p].required])
           ELSE UNCHANGED <<db, stale>> /\ Goes(r, Done)

FinalizeRead(r) ==
  LET p == req[r].p
      read == SelectedIn(db, p)
      drop == {i \in read : db.sel[i].student \in Incomplete(db, req[r].required, read)}
  IN  /\ At(r, "finalize.read")
      /\ Goes(r, [pc |-> IF drop = {} THEN "finalize.course" ELSE "finalize.drop",
                  p |-> p, drop |-> drop, keep |-> read \ drop])
      /\ UNCHANGED <<db, stale>>

\* Faults: the update hits the students' selections of every status, or none.
FinalizeDropAnyStatus(r) ==
  LET p == req[r].p
      students == {db.sel[i].student : i \in req[r].drop}
  IN  /\ At(r, "finalize.drop")
      /\ db' = CancelSelections(db, UNION {ChoicesOf(db, s, p) : s \in students}, "incomplete_set")
      /\ Goes(r, [req[r] EXCEPT !.pc = "finalize.seats"])
      /\ UNCHANGED stale

FinalizeDropNothing(r) ==
  /\ At(r, "finalize.drop")
  /\ Goes(r, [req[r] EXCEPT !.pc = "finalize.seats"])
  /\ UNCHANGED <<db, stale>>

\* updateMany over the incomplete students' selections as they are now, not as read.
FinalizeDrop(r) ==
  LET p == req[r].p
      students == {db.sel[i].student : i \in req[r].drop}
  IN  /\ At(r, "finalize.drop")
      /\ db' = CancelSelections(db, {i \in SelectedIn(db, p) : db.sel[i].student \in students},
                                "incomplete_set")
      /\ Goes(r, [req[r] EXCEPT !.pc = "finalize.seats"])
      /\ UNCHANGED stale

\* One guarded decrement for each selection that was read.
FinalizeReturnSeat(r, i) ==
  /\ At(r, "finalize.seats")
  /\ i \in req[r].drop
  /\ db' = ReturnSeat(db, db.sel[i].discipline)
  /\ Goes(r, [req[r] EXCEPT !.drop = @ \ {i},
                            !.pc = IF req[r].drop = {i} THEN "finalize.course" ELSE @])
  /\ UNCHANGED stale

Buckets(ids) == {BucketOf(db.sel[i]) : i \in ids}
InBucket(ids, k) == {i \in ids : BucketOf(db.sel[i]) = k}

FinalizeCourse(r, k) ==
  /\ At(r, "finalize.course")
  /\ k \in Buckets(req[r].keep)
  /\ Goes(r, IF k[1] \in archived THEN Released(r)
             ELSE [pc |-> "finalize.assignment", p |-> req[r].p, drop |-> {},
                   keep |-> req[r].keep, k |-> k])
  /\ UNCHANGED <<db, stale>>

FinalizeFindAssignment(r) ==
  /\ At(r, "finalize.assignment")
  /\ Goes(r, IF RollTaken(db, req[r].k, req[r].p) THEN Released(r)
             ELSE [req[r] EXCEPT !.pc = "finalize.upsert"])
  /\ UNCHANGED <<db, stale>>

FinalizeUpsertAssignment(r) ==
  LET k == req[r].k
  IN  /\ At(r, "finalize.upsert")
      /\ db' = AddToRoll(db, k, req[r].p,
                         {db.sel[i].student : i \in InBucket(req[r].keep, k)})
      /\ Goes(r, [req[r] EXCEPT !.pc = "finalize.enrol"])
      /\ UNCHANGED stale

\* updateMany by _id, whatever the selections' status has become in the meantime.  A
\* selection withdrawn since then is revived, unless the student's newer choice holds
\* its index entries: then the update stops with E11000, some documents written.
FinalizeEnrol(r) ==
  LET mine == InBucket(req[r].keep, req[r].k)
      clash == {i \in mine : LET x == db.sel[i]
                             IN  /\ ~ IsActive(x)
                                 /\ ~ IndexesAdmit(db, x.student, x.period, x.discipline, x.slot)}
  IN  /\ At(r, "finalize.enrol")
      /\ \E hit \in SUBSET (mine \ clash) :
           /\ clash = {} => hit = mine
           /\ db' = EnrolSelections(db, hit)
      /\ Goes(r, IF clash = {}
                 THEN [pc |-> "finalize.course", p |-> req[r].p, drop |-> {},
                       keep |-> req[r].keep \ mine]
                 ELSE Released(r))
      /\ UNCHANGED stale

FinalizeCommit(r) ==
  LET p == req[r].p
  IN  /\ At(r, "finalize.course")
      /\ req[r].keep = {}
      /\ IF db.period[p].status = "closed" /\ db.period[p].lock = r
           THEN db' = MarkFinalized(db, p) /\ stale' = stale \ {p} /\ Goes(r, Done)
           ELSE /\ Goes(r, Released(r))
                /\ UNCHANGED <<db, stale>>

Finalizing == {"finalize.read", "finalize.drop", "finalize.seats", "finalize.course",
               "finalize.assignment", "finalize.upsert", "finalize.enrol"}

\* validateFinalizationBuckets rejects a teacher, a course does not match, or a
\* statement fails: the handler's catch block runs next.
FinalizeFails(r) ==
  /\ req[r].pc \in Finalizing
  /\ Goes(r, Released(r))
  /\ UNCHANGED <<db, stale>>

\* releaseFinalizationLock
FinalizeRelease(r) ==
  LET p == req[r].p
  IN  /\ At(r, "finalize.release")
      /\ Goes(r, Done)
      /\ IF db.period[p].status = "closed" /\ db.period[p].lock = r
           THEN db' = [db EXCEPT !.period[p].lock = NoRequest] /\ stale' = stale \ {p}
           ELSE UNCHANGED <<db, stale>>

----
(* updateDiscipline, setDisciplineStatus, updatePeriod: a document is read, its checks are *)
(* made on what was read, and save() writes the changed fields without looking again.      *)

UpdateDiscipline(r, d, capacity, inTerm) ==
  LET doc == db.disc[d]
      changed == {f \in {"capacity", "inTerm"} :
                    [capacity |-> capacity, inTerm |-> inTerm][f] # doc[f]}
  IN  /\ Begins(r, "edit")
      /\ "capacity" \in changed => capacity >= doc.enrolled
      /\ Goes(r, [pc |-> "edit.save", d |-> d, fields |-> changed,
                  capacity |-> capacity, inTerm |-> inTerm])
      /\ UNCHANGED <<db, stale>>

UpdateDisciplineSave(r) ==
  /\ At(r, "edit.save")
  /\ db' = SaveDiscipline(db, req[r].d, req[r].fields, req[r].capacity, req[r].inTerm)
  /\ Goes(r, Done)
  /\ UNCHANGED stale

\* To any status but CANCELLED, which goes to cancelDiscipline.
SetDisciplineStatus(r, d, status) ==
  /\ Begins(r, "status")
  /\ db.disc[d].status \notin {"cancelled", status}
  /\ Goes(r, [pc |-> "status.save", d |-> d, status |-> status])
  /\ UNCHANGED <<db, stale>>

SetDisciplineStatusSave(r) ==
  /\ At(r, "status.save")
  /\ db' = SaveStatus(db, req[r].d, req[r].status)
  /\ Goes(r, Done)
  /\ UNCHANGED stale

UpdatePeriod(r, p, required) ==
  /\ Begins(r, "period")
  /\ db.period[p].status = "draft"
  /\ required # db.period[p].required
  /\ Goes(r, [pc |-> "period.save", p |-> p, required |-> required])
  /\ UNCHANGED <<db, stale>>

UpdatePeriodSave(r) ==
  /\ At(r, "period.save")
  /\ db' = SaveRequired(db, req[r].p, req[r].required)
  /\ Goes(r, Done)
  /\ UNCHANGED stale

(* setPeriodStatus: the conditional update repeats the check on the status. *)

Publish(r, p) ==
  /\ Begins(r, "publish")
  /\ db.period[p].status = "draft"
  /\ p \notin ended
  /\ Goes(r, [pc |-> "period.publish", p |-> p])
  /\ UNCHANGED <<db, stale>>

PublishPeriod(r) ==
  /\ At(r, "period.publish")
  /\ db' = IF db.period[req[r].p].status = "draft" THEN SetPeriod(db, req[r].p, "active") ELSE db
  /\ Goes(r, Done)
  /\ UNCHANGED stale

----
(* The rest of the system. *)

ClosePeriod(p) ==
  /\ db.period[p].status = "active"
  /\ db' = SetPeriod(db, p, "closed")
  /\ UNCHANGED <<ended, stale, archived, req, crashed>>

ListPeriods ==
  /\ db' = CloseExpired(db, ended)
  /\ db' # db
  /\ UNCHANGED <<ended, stale, archived, req, crashed>>

PeriodEnds(p) ==
  /\ p \notin ended
  /\ ended' = ended \cup {p}
  /\ UNCHANGED <<db, stale, archived, req, crashed>>

LockAges(p) ==
  /\ db.period[p].lock # NoRequest /\ p \notin stale
  /\ stale' = stale \cup {p}
  /\ UNCHANGED <<db, ended, archived, req, crashed>>

\* CoursesService.archiveCourse and restoreCourse.  The 409 for a course with assignments
\* of the current term is left out: that only lets more courses be archived.
ArchiveCourse(d) ==
  /\ archived' = archived \cup {d}
  /\ d \notin archived
  /\ UNCHANGED <<db, ended, stale, req, crashed>>

RestoreCourse(d) ==
  /\ d \in archived
  /\ archived' = archived \ {d}
  /\ UNCHANGED <<db, ended, stale, req, crashed>>

Running(r) == req[r].pc \notin {"idle", "done"}

Crash(r) ==
  /\ Running(r)
  /\ req' = [req EXCEPT ![r] = Done]
  /\ crashed' = TRUE
  /\ UNCHANGED <<db, ended, stale, archived>>

----
(* Where the finalization starts when the students have chosen and nothing is in flight: any *)
(* choices that the indexes and the seats admit.                                            *)
ChosenDatabases ==
  {D \in [disc : [Disciplines -> [status : {"active"}, capacity : 1..MaxCapacity,
                                  enrolled : 0..MaxCapacity, inTerm : {TRUE}]],
          period : [Periods -> [status : {"draft", "active"}, required : 1..MaxChoices,
                                lock : {NoRequest}]],
          sel : [SelectionIds -> [status : {"selected"}, reason : {"none"}, student : Students,
                                  period : Periods, discipline : Disciplines,
                                  slot : 0..(MaxChoices - 1)] \cup {NoSelection}],
          roll : [Rolls -> [period : {NoPeriod}, students : {{}}]]] :
     /\ \A d \in Disciplines : /\ D.disc[d].enrolled = Cardinality(SeatsOf(D, d))
                               /\ D.disc[d].enrolled <= D.disc[d].capacity
     /\ \A i \in SelectionIds : D.sel[i] # NoSelection =>
          /\ D.period[D.sel[i].period].status = "active"
          /\ D.sel[i].slot < D.period[D.sel[i].period].required
     /\ \A s \in Students, p \in Periods : \A i, j \in ChoicesOf(D, s, p) :
          (D.sel[i].discipline = D.sel[j].discipline \/ D.sel[i].slot = D.sel[j].slot) => i = j}

NothingUnderWay ==
  /\ ended = {} /\ stale = {} /\ archived = {} /\ crashed = FALSE
  /\ req = [r \in Requests |-> Idle]

Init == db \in OfferedDatabases /\ NothingUnderWay

ChosenInit == db \in ChosenDatabases /\ NothingUnderWay

Select(r) ==
  \/ \E s \in Students, p \in Periods, d \in Disciplines : SelectBegin(r, s, p, d)
  \/ SelectReadPeriod(r)
  \/ SelectReadQuota(r)
  \/ SelectReserve(r)
  \/ \E i \in SelectionIds : SelectCreate(r, i)
  \/ SelectCreateFails(r)
  \/ SelectUndo(r)

Withdraw(r) ==
  \/ \E i \in SelectionIds : WithdrawBegin(r, i)
  \/ WithdrawCancel(r)
  \/ WithdrawSeat(r)

Cancel(r) ==
  \/ \E d \in Disciplines : CancelBegin(r, d)
  \/ CancelCheckPeriods(r)
  \/ CancelFlip(r)
  \/ CancelCascade(r)

Finalize(r) ==
  \/ \E p \in Periods : FinalizeBegin(r, p)
  \/ FinalizeLock(r)
  \/ FinalizeRead(r)
  \/ FinalizeDrop(r)
  \/ \E i \in SelectionIds : FinalizeReturnSeat(r, i)
  \/ \E k \in Rolls : FinalizeCourse(r, k)
  \/ FinalizeFindAssignment(r)
  \/ FinalizeUpsertAssignment(r)
  \/ FinalizeEnrol(r)
  \/ FinalizeCommit(r)
  \/ FinalizeFails(r)
  \/ FinalizeRelease(r)

EditDiscipline(r) ==
  \E d \in Disciplines, capacity \in 1..MaxCapacity :
    \E inTerm \in TermChoices \cup {db.disc[d].inTerm} : UpdateDiscipline(r, d, capacity, inTerm)

Manage(r) ==
  \/ EditDiscipline(r)
  \/ UpdateDisciplineSave(r)
  \/ \E d \in Disciplines, status \in StatusChoices : SetDisciplineStatus(r, d, status)
  \/ SetDisciplineStatusSave(r)
  \/ \E p \in Periods, required \in 1..MaxChoices : UpdatePeriod(r, p, required)
  \/ UpdatePeriodSave(r)
  \/ \E p \in Periods : Publish(r, p)
  \/ PublishPeriod(r)

Next ==
  \/ \E r \in Requests :
       \/ Select(r) \/ Withdraw(r) \/ Cancel(r) \/ Finalize(r) \/ Manage(r)
       \/ Crash(r)
  \/ \E p \in Periods : ClosePeriod(p) \/ PeriodEnds(p) \/ LockAges(p)
  \/ ListPeriods
  \/ \E d \in Archivable : ArchiveCourse(d) \/ RestoreCourse(d)

Spec == Init /\ [][Next]_vars

ChosenSpec == ChosenInit /\ [][Next]_vars

----
(* What holds without transactions. *)

Places == [pc : {"idle", "done"}]
  \cup [pc : {"select.period"}, s : Students, p : Periods, d : Disciplines]
  \cup [pc : {"select.quota"}, s : Students, p : Periods, d : Disciplines, required : 1..MaxChoices]
  \cup [pc : {"select.reserve", "select.create"}, s : Students, p : Periods, d : Disciplines,
        slots : SUBSET (0..(MaxChoices - 1))]
  \cup [pc : {"select.undo"}, d : Disciplines]
  \cup [pc : {"withdraw.cancel", "withdraw.seat"}, i : SelectionIds]
  \cup [pc : {"cancel.periods", "cancel.flip", "cancel.cascade"}, d : Disciplines]
  \cup [pc : {"finalize.lock", "finalize.release", "period.publish"}, p : Periods]
  \cup [pc : {"finalize.read", "period.save"}, p : Periods, required : 1..MaxChoices]
  \cup [pc : {"finalize.drop", "finalize.seats", "finalize.course"}, p : Periods,
        drop : SUBSET SelectionIds, keep : SUBSET SelectionIds]
  \cup [pc : {"finalize.assignment", "finalize.upsert", "finalize.enrol"},
        p : Periods, drop : SUBSET SelectionIds, keep : SUBSET SelectionIds, k : Rolls]
  \cup [pc : {"edit.save"}, d : Disciplines, fields : SUBSET {"capacity", "inTerm"},
        capacity : 1..MaxCapacity, inTerm : BOOLEAN]
  \cup [pc : {"status.save"}, d : Disciplines, status : StatusChoices]

TypeOK ==
  /\ db \in Database
  /\ ended \subseteq Periods /\ stale \subseteq Periods
  /\ archived \subseteq Disciplines
  /\ crashed \in BOOLEAN
  /\ \A r \in Requests : req[r] \in Places

\* When an administrator's save() is late: a capacity goes below the seats that were given
\* meanwhile, or a status replaces the cancellation that came meanwhile.
CapacityInTime(r) ==
  UpdateDisciplineSave(r) /\ "capacity" \in req[r].fields =>
    req[r].capacity >= db.disc[req[r].d].enrolled

StatusInTime(r) ==
  SetDisciplineStatusSave(r) => db.disc[req[r].d].status # "cancelled"

SavesInTime == \A r \in Requests : CapacityInTime(r) /\ StatusInTime(r)

\* However selections, withdrawals, cancellations and edits interleave and wherever processes
\* die, no discipline that was not cancelled has more selections than seats counted, nor
\* more seats counted than its capacity: a crash can only leak a seat.  What the code cannot
\* promise is that save() comes in time, so the run and the theorem suppose SavesInTime.
SeatsCoverSelections ==
  \A d \in Disciplines :
    db.disc[d].status # "cancelled" =>
      /\ Cardinality(SeatsOf(db, d)) <= db.disc[d].enrolled
      /\ db.disc[d].enrolled <= db.disc[d].capacity

\* When every request has ended and none has died, the counter of a discipline that
\* was not cancelled is exact: each failed attempt has given its seat back, and no edit of
\* the discipline was in the way, supposed that none revived it after its cancellation.
CounterSettles ==
  (~ crashed /\ \A r \in Requests : ~ Running(r)) =>
    \A d \in Disciplines :
      db.disc[d].status # "cancelled" => db.disc[d].enrolled = Cardinality(SeatsOf(db, d))

\* Finalization attempts that fail half-way, die, are retried or are overtaken after
\* the lock's 15 minutes never enrol anyone who is not on the roll of the course; as long as
\* no two periods finalize into one roll at once (the upsert does not look at the period).
EnrolledAreOnRoll ==
  \A i \in SelectionIds :
    db.sel[i].status = "enrolled" =>
      LET entry == db.roll[BucketOf(db.sel[i])]
      IN  entry.period = db.sel[i].period /\ db.sel[i].student \in entry.students

\* A finalized period leaves no selection undecided, whichever attempt finished it.
FinalizedPeriodSettled ==
  \A i \in SelectionIds :
    db.sel[i].status = "selected" => db.period[db.sel[i].period].status # "finalized"

\* An enrolled selection is never cancelled again, not by an attempt that lost its lock,
\* not by a withdrawal or a discipline's cancellation that started earlier.
EnrolmentIsFinal ==
  [][\A i \in SelectionIds :
       db.sel[i].status = "enrolled" => db'.sel[i].status = "enrolled"]_vars

\* "The administrator restores the course and retries finalization" (comment in
\* finalizePeriod): a retry enrols the same students, so nobody ends up with part of
\* the required set enrolled and the rest cancelled as incomplete.
RetryKeepsSetsWhole ==
  ~ \E i, j \in SelectionIds :
      /\ db.sel[i].status = "enrolled"
      /\ db.sel[j].status = "cancelled" /\ db.sel[j].reason = "incomplete_set"
      /\ db.sel[i].student = db.sel[j].student
      /\ db.sel[i].period = db.sel[j].period
====
