---- MODULE MCElectiveSteps ----
(* Model values for checking ElectiveSteps: which requests run which handler. *)
EXTENDS ElectiveSteps, TLC

CONSTANTS g, r1, r2, r3

OneGroup == [s \in Students |-> g]

StudentJobs == (r1 :> {"select"}) @@ (r2 :> {"select", "publish", "edit", "status"})
                 @@ (r3 :> {"select", "withdraw", "cancel", "edit", "status", "period"})
FinalizeJobs == (r1 :> {"finalize"}) @@ (r2 :> {"finalize"}) @@ (r3 :> {"withdraw", "cancel"})
RetryJobs == [r \in Requests |-> {"finalize"}]

StudentSymmetry == Permutations(Students) \cup Permutations(SelectionIds)
                     \cup Permutations(Disciplines)
FinalizeSymmetry == Permutations(Students) \cup Permutations(SelectionIds)
                      \cup Permutations({r1, r2})

\* The students' phase: the steps of Next other than finalization's and archiving, with the
\* saves of a discipline in time (so every step satisfies SavesInTime).
StudentNext ==
  \/ \E r \in Requests :
       \/ Select(r) \/ Withdraw(r) \/ Cancel(r) \/ Crash(r)
       \/ EditDiscipline(r)
       \/ UpdateDisciplineSave(r) /\ CapacityInTime(r)
       \/ \E d \in Disciplines, status \in StatusChoices : SetDisciplineStatus(r, d, status)
       \/ SetDisciplineStatusSave(r) /\ StatusInTime(r)
       \/ \E p \in Periods, required \in 1..MaxChoices : UpdatePeriod(r, p, required)
       \/ UpdatePeriodSave(r)
       \/ \E p \in Periods : Publish(r, p)
       \/ PublishPeriod(r)
  \/ \E p \in Periods : ClosePeriod(p) \/ PeriodEnds(p)
  \/ ListPeriods

StudentSpec == Init /\ [][StudentNext]_vars

\* Nobody takes a seat any more, so capacities do not matter.
FullInit == ChosenInit /\ \A d \in Disciplines : db.disc[d].capacity = MaxCapacity

\* updatePeriod, updateDiscipline or setDisciplineStatus read its document before what the
\* students chose, and is still to save.
SaveUnderWay ==
  /\ db \in {D \in ChosenDatabases : \A d \in Disciplines : D.disc[d].capacity = MaxCapacity}
  /\ ended = {} /\ stale = {} /\ archived = {} /\ crashed = FALSE
  /\ \E save \in [pc : {"period.save"}, p : Periods, required : 1..MaxChoices]
                 \cup [pc : {"edit.save"}, d : Disciplines, fields : {{"capacity"}},
                       capacity : {1}, inTerm : {TRUE}]
                 \cup [pc : {"status.save"}, d : Disciplines, status : StatusChoices] :
       /\ req = [r \in Requests |-> IF r = r3 THEN save ELSE Idle]
       /\ save.pc # "period.save" => \A i \in SelectionIds : db.sel[i] # NoSelection

FinalizeSpec == (FullInit \/ SaveUnderWay) /\ [][Next]_vars

\* Nobody dies and no attempt lasts 15 minutes: an attempt fails, a later one retries.
RetrySpec == FullInit /\ [][Next /\ UNCHANGED <<stale, crashed>>]_vars
====
