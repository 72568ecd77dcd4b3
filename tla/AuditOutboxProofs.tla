---- MODULE AuditOutboxProofs ----
(***************************************************************************)
(* The journal is sound for any number of events, server processes,        *)
(* attempts and faults: no event is stored twice, none leaves the queue as *)
(* processed without being in the journal, and a settled event stays       *)
(* settled.                                                                *)
(*                                                                         *)
(* The inductive invariant adds what the processes know: a process only    *)
(* works on events that have been queued (HeldAreQueued), and one that is  *)
(* about to mark an event as processed has seen it in the journal          *)
(* (MarkedAreLogged), whoever owns the claim by then.                      *)
(* It also implements AuditTrail, in which claims do not exist: there a    *)
(* process that holds an event is one of its attempts (HeldAreAttempts).   *)
(***************************************************************************)
EXTENDS AuditOutbox, TLAPS

Holding == {"create", "mark", "duplicate", "fail"}

HeldAreQueued ==
  \A w \in Workers : worker[w].pc \in Holding => Status(worker[w].e) # "absent"

MarkedAreLogged ==
  \A w \in Workers : worker[w].pc \in {"mark", "duplicate"} => log[worker[w].e] = 1

IInv == TypeOK /\ LoggedOnce /\ ProcessedIsLogged /\ HeldAreQueued /\ MarkedAreLogged

----
(* What the fields of a process and of a document are. *)

LEMMA HeldFields ==
  ASSUME TypeOK, NEW w \in Workers, worker[w].pc \in Holding
  PROVE  /\ worker[w] \in [pc : Holding, life : Lives, done : 0..(BatchSize - 1),
                           e : Events, attempt : Nat]
         /\ worker[w].e \in Events
BY DEF TypeOK, Place, Holding, Down

LEMMA EntryFields ==
  ASSUME TypeOK, NEW e \in Events, Status(e) # "absent"
  PROVE  outbox[e] \in Entry
BY DEF TypeOK, Status, Absent

LEMMA HoldingPlace ==
  ASSUME NEW x \in [pc : Holding, life : Lives, done : 0..(BatchSize - 1),
                    e : Events, attempt : Nat]
  PROVE  x \in Place
BY DEF Place, Holding

LEMMA NextPlace ==
  ASSUME TypeOK, NEW w \in Workers, worker[w].pc \in Holding
  PROVE  /\ EventDone(w) \in Place
         /\ \A pc \in Holding : [worker[w] EXCEPT !.pc = pc] \in Place
<1>1. worker[w] \in [pc : Holding, life : Lives, done : 0..(BatchSize - 1),
                     e : Events, attempt : Nat]
  BY HeldFields
<1>2. EventDone(w) \in [pc : {"sweep", "claim"}, life : Lives, done : 0..BatchSize]
  BY <1>1, LimitsAssumption DEF EventDone
<1>3. EventDone(w) \in Place
  BY <1>2 DEF Place
<1>4. ASSUME NEW pc \in Holding PROVE [worker[w] EXCEPT !.pc = pc] \in Place
  BY <1>1, <1>4, HoldingPlace
<1> QED
  BY <1>3, <1>4

----
(* Every action moves at most one process, never empties a place in the journal or  *)
(* forgets that an event was queued.                                                *)

Journal(o, l) ==
  /\ o \in [Events -> Entry \cup {Absent}]
  /\ l \in [Events -> Nat]
  /\ \A e \in Events :
       /\ l[e] <= 1
       /\ l[e] = 1 => o[e].status # "absent"
       /\ o[e].status \in {"processed", "expired"} => l[e] = 1

Grows(o, l) ==
  \A e \in Events :
    /\ Status(e) # "absent" => o[e].status # "absent"
    /\ log[e] = 1 => l[e] = 1

Consistent(x, o, l) ==
  /\ x \in Place
  /\ x.pc \in Holding => x.e \in Events /\ o[x.e].status # "absent"
  /\ x.pc \in {"mark", "duplicate"} => l[x.e] = 1

LEMMA JournalNow == ASSUME IInv PROVE Journal(outbox, log) /\ Grows(outbox, log)
BY DEF IInv, TypeOK, LoggedOnce, ProcessedIsLogged, Journal, Grows, Status

LEMMA Moves ==
  ASSUME IInv, NEW w \in Workers, NEW x, Goes(w, x),
         Journal(outbox', log'), Grows(outbox', log'), Consistent(x, outbox', log'),
         faults' \in 0..MaxFaults
  PROVE  IInv'
<1>1. worker' \in [Workers -> Place]
  BY DEF IInv, TypeOK, Goes, Consistent
<1>2. TypeOK' /\ LoggedOnce' /\ ProcessedIsLogged'
  BY <1>1 DEF Journal, TypeOK, LoggedOnce, ProcessedIsLogged, Status
<1>3. ASSUME NEW v \in Workers
      PROVE  /\ worker'[v].pc \in Holding => outbox'[worker'[v].e].status # "absent"
             /\ worker'[v].pc \in {"mark", "duplicate"} => log'[worker'[v].e] = 1
  <2>1. CASE v = w
    BY <2>1 DEF Goes, Consistent, Status, IInv, TypeOK
  <2>2. CASE v # w
    <3>1. worker'[v] = worker[v]
      BY <2>2 DEF Goes, IInv, TypeOK
    <3>2. worker[v].pc \in Holding => worker[v].e \in Events
      BY HeldFields DEF IInv
    <3>3. {"mark", "duplicate"} \subseteq Holding
      BY DEF Holding
    <3> QED
      BY <3>1, <3>2, <3>3 DEF IInv, HeldAreQueued, MarkedAreLogged, Grows, Status
  <2> QED
    BY <2>1, <2>2
<1> QED
  BY <1>2, <1>3 DEF IInv, HeldAreQueued, MarkedAreLogged, Status

\* The process moves and the collections stay.
LEMMA MovesAlone ==
  ASSUME IInv, NEW w \in Workers, NEW x, Goes(w, x), x \in Place,
         x.pc \in Holding => x.e \in Events /\ Status(x.e) # "absent",
         x.pc \in {"mark", "duplicate"} => log[x.e] = 1,
         UNCHANGED <<outbox, log>>, UNCHANGED faults \/ Fails
  PROVE  IInv'
<1>1. Journal(outbox', log') /\ Grows(outbox', log')
  BY JournalNow DEF Journal, Grows
<1>2. Consistent(x, outbox', log')
  BY DEF Consistent, Status
<1>3. faults' \in 0..MaxFaults
  BY LimitsAssumption DEF IInv, TypeOK, Fails
<1> QED
  BY <1>1, <1>2, <1>3, Moves

\* Only the queue changes, and no process moves.
LEMMA QueueChanges ==
  ASSUME IInv, UNCHANGED <<log, worker>>, UNCHANGED faults \/ Fails,
         Journal(outbox', log), Grows(outbox', log)
  PROVE  IInv'
<1>1. TypeOK' /\ LoggedOnce' /\ ProcessedIsLogged'
  BY LimitsAssumption DEF Journal, IInv, TypeOK, LoggedOnce, ProcessedIsLogged, Status, Fails
<1>2. HeldAreQueued' /\ MarkedAreLogged'
  BY HeldFields DEF IInv, HeldAreQueued, MarkedAreLogged, Grows, Status
<1> QED
  BY <1>1, <1>2 DEF IInv

----
(* The steps of a process. *)

LEMMA FlushPlace ==
  /\ Down \in Place
  /\ \A life \in Lives : Flush(life) \in Place
<1>1. ASSUME NEW life \in Lives PROVE Flush(life) \in Place
  BY LimitsAssumption DEF Flush, Place
<1> QED
  BY <1>1 DEF Place

LEMMA NotHolding ==
  /\ Down.pc \notin Holding
  /\ \A life \in Lives : Flush(life).pc \notin Holding
  /\ \A w \in Workers : EventDone(w).pc \notin Holding
  /\ {"mark", "duplicate"} \subseteq Holding
BY DEF Down, Flush, EventDone, Holding

LEMMA StartMoves ==
  ASSUME IInv, NEW w \in Workers, Start(w) \/ Tick(w) \/ LastFlush(w) \/ Exit(w) \/ Crash(w)
  PROVE  IInv'
<1>1. "up" \in Lives /\ "closed" \in Lives
  BY DEF Lives
<1>2. CASE Start(w) \/ Tick(w)
  BY <1>1, <1>2, FlushPlace, NotHolding, MovesAlone DEF Start, Tick
<1>3. CASE LastFlush(w)
  BY <1>1, <1>3, FlushPlace, NotHolding, MovesAlone DEF LastFlush
<1>4. CASE Exit(w)
  BY <1>4, FlushPlace, NotHolding, MovesAlone DEF Exit
<1>5. CASE Crash(w)
  BY <1>5, FlushPlace, NotHolding, MovesAlone DEF Crash
<1> QED
  BY <1>2, <1>3, <1>4, <1>5

LEMMA ShutdownMoves ==
  ASSUME IInv, NEW w \in Workers, Shutdown(w)
  PROVE  IInv'
<1> DEFINE x == [worker[w] EXCEPT !.life = "closing"]
<1>1. worker[w] \in Place /\ worker[w].pc # "down"
  BY DEF IInv, TypeOK, Shutdown, At
<1>2. x \in Place /\ x.pc = worker[w].pc /\ (worker[w].pc \in Holding => x.e = worker[w].e)
  BY <1>1 DEF Place, Down, Lives, Holding
<1>3. worker[w].pc \in Holding => worker[w].e \in Events
  BY HeldFields DEF IInv
<1>4. /\ x.pc \in Holding => x.e \in Events /\ Status(x.e) # "absent"
      /\ x.pc \in {"mark", "duplicate"} => log[x.e] = 1
  BY <1>2, <1>3, NotHolding DEF IInv, HeldAreQueued, MarkedAreLogged
<1> QED
  BY <1>2, <1>4, MovesAlone DEF Shutdown

LEMMA BatchEndsMoves ==
  ASSUME IInv, NEW w \in Workers, BatchEnds(w)
  PROVE  IInv'
<1> DEFINE x == [pc |-> "idle", life |-> worker[w].life]
<1>1. worker[w].life \in Lives
  BY DEF IInv, TypeOK, BatchEnds, At, Place, Down
<1>2. x \in Place /\ x.pc = "idle"
  BY <1>1 DEF Place
<1> QED
  BY <1>2, MovesAlone DEF BatchEnds, Holding

----
(* The steps that write. *)

LEMMA Replaced ==
  ASSUME IInv, NEW e \in Events, NEW doc \in Entry,
         doc.status \in {"processed", "expired"} => log[e] = 1
  PROVE  LET o == [outbox EXCEPT ![e] = doc]
         IN  Journal(o, log) /\ Grows(o, log) /\ o[e].status # "absent"
<1> DEFINE o == [outbox EXCEPT ![e] = doc]
<1>1. o \in [Events -> Entry \cup {Absent}] /\ o[e] = doc
  BY DEF IInv, TypeOK
<1>2. doc.status # "absent"
  BY DEF Entry
<1>3. ASSUME NEW f \in Events, f # e PROVE o[f] = outbox[f]
  BY <1>3 DEF IInv, TypeOK
<1>4. Journal(o, log)
  BY <1>1, <1>2, <1>3, JournalNow DEF Journal
<1>5. Grows(o, log)
  BY <1>1, <1>2, <1>3 DEF Grows, Status
<1> QED
  BY <1>1, <1>2, <1>4, <1>5

\* The two updates that look for a claimed document: by markProcessed and scheduleRetry.
LEMMA ClaimedReplaced ==
  ASSUME IInv, NEW e \in Events, NEW status \in {"processed", "dead", "pending"},
         NEW due \in BOOLEAN, status = "processed" => log[e] = 1, Status(e) = "processing"
  PROVE  LET doc == [outbox[e] EXCEPT !.status = status, !.due = due, !.stale = FALSE]
             o == [outbox EXCEPT ![e] = doc]
         IN  Journal(o, log) /\ Grows(o, log)
<1> DEFINE doc == [outbox[e] EXCEPT !.status = status, !.due = due, !.stale = FALSE]
<1>1. outbox[e] \in Entry
  BY EntryFields DEF IInv
<1>2. doc \in Entry /\ doc.status = status
  BY <1>1 DEF Entry
<1> QED
  BY <1>2, Replaced

LEMMA MarkedJournal ==
  ASSUME IInv, NEW e \in Events, log[e] = 1
  PROVE  Journal(Processed(e), log) /\ Grows(Processed(e), log)
<1>1. CASE Status(e) = "processing"
  <2> DEFINE doc == [outbox[e] EXCEPT !.status = "processed", !.stale = FALSE]
  <2>1. outbox[e] \in Entry
    BY <1>1, EntryFields DEF IInv
  <2>2. doc \in Entry
    BY <2>1 DEF Entry
  <2>3. Processed(e) = [outbox EXCEPT ![e] = doc]
    BY <1>1 DEF Processed
  <2> QED
    BY <2>2, <2>3, Replaced
<1>2. CASE Status(e) # "processing"
  BY <1>2, JournalNow DEF Processed
<1> QED
  BY <1>1, <1>2

LEMMA ReleaseMoves ==
  ASSUME IInv, NEW w \in Workers, ReleaseStaleLocks(w)
  PROVE  IInv'
<1> DEFINE x == [worker[w] EXCEPT !.pc = "claim"]
<1>0. worker[w] \in Place /\ worker[w].pc = "sweep"
  BY DEF IInv, TypeOK, ReleaseStaleLocks, At
<1>1. worker[w] \in [pc : {"sweep", "claim"}, life : Lives, done : 0..BatchSize]
  BY <1>0 DEF Place, Down
<1>2. x \in Place /\ x.pc = "claim"
  BY <1>1 DEF Place
<1>3. ASSUME NEW e \in Events
      PROVE  /\ outbox'[e] \in Entry \cup {Absent}
             /\ outbox'[e].status = outbox[e].status \/
                  (outbox[e].status = "processing" /\ outbox'[e].status = "pending")
  <2>1. CASE IsStale(e)
    <3>1. outbox[e] \in Entry
      BY <2>1, EntryFields DEF IInv, IsStale
    <3>2. outbox'[e] = [outbox[e] EXCEPT !.status = "pending", !.due = TRUE, !.stale = FALSE]
      BY <2>1 DEF ReleaseStaleLocks
    <3> QED
      BY <2>1, <3>1, <3>2 DEF Entry, IsStale, Status
  <2>2. CASE ~ IsStale(e)
    BY <2>2 DEF ReleaseStaleLocks, IInv, TypeOK
  <2> QED
    BY <2>1, <2>2
<1>4. outbox' \in [Events -> Entry \cup {Absent}]
  <2> DEFINE f(e) == IF IsStale(e)
                       THEN [outbox[e] EXCEPT !.status = "pending", !.due = TRUE, !.stale = FALSE]
                       ELSE outbox[e]
  <2>1. outbox' = [e \in Events |-> f(e)]
    BY DEF ReleaseStaleLocks
  <2>2. \A e \in Events : f(e) \in Entry \cup {Absent}
    BY <1>3, <2>1
  <2> HIDE DEF f
  <2> QED
    BY <2>1, <2>2
<1>5. Journal(outbox', log') /\ Grows(outbox', log')
  BY <1>3, <1>4, JournalNow DEF Journal, Grows, Status, ReleaseStaleLocks
<1>6. Consistent(x, outbox', log')
  BY <1>2 DEF Consistent, Holding
<1>7. faults' \in 0..MaxFaults
  BY DEF ReleaseStaleLocks, IInv, TypeOK
<1> QED
  BY <1>5, <1>6, <1>7, Moves DEF ReleaseStaleLocks

LEMMA ClaimMoves ==
  ASSUME IInv, NEW w \in Workers, Claim(w)
  PROVE  IInv'
<1>1. PICK e \in Claimable :
        /\ At(w, "claim")
        /\ worker[w].done < BatchSize
        /\ outbox' = [outbox EXCEPT ![e] = [status |-> "processing", due |-> TRUE,
                         stale |-> FALSE, attempts |-> outbox[e].attempts + 1]]
        /\ Goes(w, [pc |-> "create", life |-> worker[w].life, done |-> worker[w].done,
                    e |-> e, attempt |-> outbox[e].attempts + 1])
        /\ UNCHANGED <<log, faults>>
  BY DEF Claim
<1> DEFINE doc == [status |-> "processing", due |-> TRUE,
                   stale |-> FALSE, attempts |-> outbox[e].attempts + 1]
           x == [pc |-> "create", life |-> worker[w].life, done |-> worker[w].done,
                 e |-> e, attempt |-> outbox[e].attempts + 1]
<1>2. e \in Events /\ outbox[e] \in Entry
  BY EntryFields DEF IInv, Claimable
<1>3. outbox[e].attempts + 1 \in Nat /\ doc \in Entry
  BY <1>2 DEF Entry
<1>4. worker[w].life \in Lives /\ worker[w].done \in 0..(BatchSize - 1)
  BY <1>1, LimitsAssumption DEF IInv, TypeOK, At, Place, Down
<1>5. x \in [pc : Holding, life : Lives, done : 0..(BatchSize - 1), e : Events, attempt : Nat]
  BY <1>2, <1>3, <1>4 DEF Holding
<1>6. x \in Place
  BY <1>5, HoldingPlace
<1>7. Journal(outbox', log') /\ Grows(outbox', log') /\ outbox'[e].status # "absent"
  BY <1>1, <1>2, <1>3, Replaced
<1>8. Consistent(x, outbox', log')
  BY <1>2, <1>6, <1>7 DEF Consistent
<1>9. faults' \in 0..MaxFaults
  BY <1>1 DEF IInv, TypeOK
<1> QED
  BY <1>1, <1>7, <1>8, <1>9, Moves

\* What a process that holds an event may do next with it.
LEMMA HoldsOn ==
  ASSUME IInv, NEW w \in Workers, worker[w].pc \in Holding, NEW pc \in Holding,
         NEW o, NEW l, Grows(o, l),
         pc \in {"mark", "duplicate"} => l[worker[w].e] = 1
  PROVE  Consistent([worker[w] EXCEPT !.pc = pc], o, l)
<1> DEFINE x == [worker[w] EXCEPT !.pc = pc]
<1>1. worker[w] \in [pc : Holding, life : Lives, done : 0..(BatchSize - 1),
                     e : Events, attempt : Nat]
  BY HeldFields DEF IInv
<1>2. x.pc = pc /\ x.e = worker[w].e /\ worker[w].e \in Events
  BY <1>1
<1>3. x \in Place
  BY NextPlace DEF IInv
<1>4. o[worker[w].e].status # "absent"
  BY <1>2 DEF IInv, HeldAreQueued, Grows
<1> QED
  BY <1>2, <1>3, <1>4 DEF Consistent

LEMMA LetsGo ==
  ASSUME IInv, NEW w \in Workers, worker[w].pc \in Holding, NEW o, NEW l
  PROVE  Consistent(EventDone(w), o, l)
BY NextPlace, NotHolding DEF IInv, Consistent

LEMMA Stored ==
  ASSUME IInv, NEW e \in Events, Status(e) # "absent"
  PROVE  LET l == [log EXCEPT ![e] = 1]
         IN  Journal(outbox, l) /\ Grows(outbox, l) /\ l[e] = 1
<1> DEFINE l == [log EXCEPT ![e] = 1]
<1>1. l \in [Events -> Nat] /\ l[e] = 1 /\ \A f \in Events : f # e => l[f] = log[f]
  BY DEF IInv, TypeOK
<1> HIDE DEF l
<1>2. Journal(outbox, l) /\ Grows(outbox, l)
  BY <1>1, JournalNow DEF Journal, Grows, Status
<1> QED
  BY <1>1, <1>2 DEF l

LEMMA CreateMoves ==
  ASSUME IInv, NEW w \in Workers, Create(w) \/ CreateFails(w)
  PROVE  IInv'
<1> DEFINE e == worker[w].e
<1>1. worker[w].pc = "create" /\ worker[w].pc \in Holding
  BY DEF Create, CreateFails, At, Holding
<1>2. e \in Events /\ Status(e) # "absent"
  BY <1>1, HeldFields DEF IInv, HeldAreQueued
<1>3. log' = log \/ log' = [log EXCEPT ![e] = 1]
  BY DEF Create, CreateFails
<1>4. Journal(outbox', log') /\ Grows(outbox', log')
  BY <1>2, <1>3, Stored, JournalNow DEF Create, CreateFails
<1>5. faults' \in 0..MaxFaults
  BY LimitsAssumption DEF Create, CreateFails, Fails, IInv, TypeOK
<1>6. CASE Create(w)
  <2>1. PICK pc \in {"fail", "duplicate", "mark"} :
          /\ Goes(w, [worker[w] EXCEPT !.pc = pc])
          /\ pc \in {"mark", "duplicate"} => e \notin Bad /\ (log[e] > 0 \/ pc = "mark")
    BY <1>6 DEF Create
  <2>2. pc \in {"mark", "duplicate"} => log'[e] = 1
    <3>1. log[e] \in Nat /\ log[e] <= 1
      BY <1>2 DEF IInv, TypeOK, LoggedOnce
    <3>2. e \notin Bad => log'[e] = 1
      BY <1>2, <1>6, <3>1 DEF Create, IInv, TypeOK
    <3> QED
      BY <2>1, <3>2
  <2>3. Consistent([worker[w] EXCEPT !.pc = pc], outbox', log')
    BY <1>1, <1>4, <2>2, HoldsOn DEF Holding
  <2> QED
    BY <1>4, <1>5, <2>1, <2>3, Moves
<1>7. CASE CreateFails(w)
  <2>1. Consistent([worker[w] EXCEPT !.pc = "fail"], outbox', log')
    BY <1>1, <1>4, HoldsOn DEF Holding
  <2> QED
    BY <1>4, <1>5, <1>7, <2>1, Moves DEF CreateFails
<1> QED
  BY <1>6, <1>7

LEMMA MarkMoves ==
  ASSUME IInv, NEW w \in Workers, MarkProcessed(w) \/ MarkFails(w)
  PROVE  IInv'
<1> DEFINE e == worker[w].e
<1>1. worker[w].pc \in {"mark", "duplicate"} /\ worker[w].pc \in Holding
  BY DEF MarkProcessed, MarkFails, At, Holding
<1>2. e \in Events /\ log[e] = 1
  BY <1>1, HeldFields DEF IInv, MarkedAreLogged
<1>3. Journal(outbox', log') /\ Grows(outbox', log')
  BY <1>2, MarkedJournal, JournalNow DEF MarkProcessed, MarkFails
<1>4. faults' \in 0..MaxFaults
  BY LimitsAssumption DEF MarkProcessed, MarkFails, Fails, IInv, TypeOK
<1>5. CASE MarkProcessed(w)
  BY <1>1, <1>3, <1>4, <1>5, LetsGo, Moves DEF MarkProcessed
<1>6. CASE MarkFails(w)
  <2>1. Consistent([worker[w] EXCEPT !.pc = "fail"], outbox', log')
    BY <1>1, <1>3, HoldsOn DEF Holding
  <2> QED
    BY <1>3, <1>4, <1>6, <2>1, Moves DEF MarkFails
<1> QED
  BY <1>5, <1>6

LEMMA RetryMoves ==
  ASSUME IInv, NEW w \in Workers, ScheduleRetry(w)
  PROVE  IInv'
<1> DEFINE e == worker[w].e
<1>1. worker[w].pc \in Holding
  BY DEF ScheduleRetry, At, Holding
<1>2. e \in Events
  BY <1>1, HeldFields DEF IInv
<1>3. PICK status \in {"dead", "pending"} :
        outbox' = IF Status(e) = "processing"
                    THEN [outbox EXCEPT ![e] = [outbox[e] EXCEPT
                            !.status = status, !.due = FALSE, !.stale = FALSE]]
                    ELSE outbox
  BY DEF ScheduleRetry
<1>4. Journal(outbox', log) /\ Grows(outbox', log)
  <2>1. CASE Status(e) = "processing"
    BY <1>2, <1>3, <2>1, ClaimedReplaced
  <2>2. CASE Status(e) # "processing"
    BY <1>3, <2>2, JournalNow
  <2> QED
    BY <2>1, <2>2
<1>5. Consistent(EventDone(w), outbox', log')
  BY <1>1, LetsGo
<1>6. faults' \in 0..MaxFaults
  BY DEF ScheduleRetry, IInv, TypeOK
<1> QED
  BY <1>4, <1>5, <1>6, Moves DEF ScheduleRetry

----
(* The rest: an event is queued, a claim ages, a back-off ends, a document expires. *)

LEMMA QueueMoves ==
  ASSUME IInv, NEW e \in Events,
         Enqueue(e) \/ LockAges(e) \/ HolderIsSlow(e) \/ BackoffEnds(e) \/ Expire(e)
  PROVE  IInv'
<1>1. CASE Enqueue(e)
  <2> DEFINE doc == [status |-> "pending", attempts |-> 0, due |-> TRUE, stale |-> FALSE]
  <2>1. doc \in Entry
    BY DEF Entry
  <2> QED
    BY <1>1, <2>1, Replaced, QueueChanges DEF Enqueue
<1>2. CASE BecomesStale(e) /\ (UNCHANGED faults \/ Fails)
  <2> DEFINE doc == [outbox[e] EXCEPT !.stale = TRUE]
  <2>1. outbox[e] \in Entry /\ outbox[e].status = "processing"
    BY <1>2, EntryFields DEF IInv, BecomesStale, Status
  <2>2. doc \in Entry /\ doc.status = "processing"
    BY <2>1 DEF Entry
  <2>3. outbox' = [outbox EXCEPT ![e] = doc]
    BY <1>2 DEF BecomesStale
  <2> QED
    BY <1>2, <2>2, <2>3, Replaced, QueueChanges DEF BecomesStale
<1>3. CASE BackoffEnds(e)
  <2> DEFINE doc == [outbox[e] EXCEPT !.due = TRUE]
  <2>1. outbox[e] \in Entry /\ outbox[e].status = "pending"
    BY <1>3, EntryFields DEF IInv, BackoffEnds, Status
  <2>2. doc \in Entry /\ doc.status = "pending"
    BY <2>1 DEF Entry
  <2>3. outbox' = [outbox EXCEPT ![e] = doc]
    BY <1>3 DEF BackoffEnds
  <2> QED
    BY <1>3, <2>2, <2>3, Replaced, QueueChanges DEF BackoffEnds
<1>4. CASE Expire(e)
  <2> DEFINE doc == [outbox[e] EXCEPT !.status = "expired"]
  <2>1. outbox[e] \in Entry /\ outbox[e].status = "processed"
    BY <1>4, EntryFields DEF IInv, Expire, Status
  <2>2. doc \in Entry /\ log[e] = 1
    BY <2>1 DEF Entry, IInv, ProcessedIsLogged, Status
  <2>3. outbox' = [outbox EXCEPT ![e] = doc]
    BY <1>4 DEF Expire
  <2> QED
    BY <1>4, <2>2, <2>3, Replaced, QueueChanges DEF Expire
<1> QED
  BY <1>1, <1>2, <1>3, <1>4 DEF LockAges, HolderIsSlow

----
(* The theorems. *)

\* IInv holds in every reachable state: initially, and after every action of Next.
THEOREM Inductive == Spec => []IInv
<1>1. Init => IInv
  BY LimitsAssumption
  DEF Init, IInv, TypeOK, LoggedOnce, ProcessedIsLogged, HeldAreQueued, MarkedAreLogged,
      Place, Down, Absent, Status, Holding
<1>2. IInv /\ [Next]_vars => IInv'
  <2> SUFFICES ASSUME IInv, [Next]_vars PROVE IInv'
    OBVIOUS
  <2>1. CASE UNCHANGED vars
    BY <2>1
    DEF vars, IInv, TypeOK, LoggedOnce, ProcessedIsLogged, HeldAreQueued, MarkedAreLogged,
        Status
  <2>2. ASSUME NEW w \in Workers, Step(w) PROVE IInv'
    BY <2>2, StartMoves, BatchEndsMoves, ReleaseMoves, ClaimMoves, CreateMoves, MarkMoves,
       RetryMoves DEF Step
  <2>3. ASSUME NEW w \in Workers,
               Shutdown(w) \/ CreateFails(w) \/ MarkFails(w) \/ Crash(w)
        PROVE IInv'
    BY <2>3, StartMoves, ShutdownMoves, CreateMoves, MarkMoves
  <2>4. ASSUME NEW e \in Events,
               Enqueue(e) \/ Time(e) \/ HolderIsSlow(e) \/ Expire(e)
        PROVE IInv'
    BY <2>4, QueueMoves DEF Time
  <2> QED
    BY <2>1, <2>2, <2>3, <2>4 DEF Next
<1> QED
  BY <1>1, <1>2, PTL DEF Spec

\* Documents and the processes' local state keep their shape.
THEOREM TypeCorrect == Spec => []TypeOK
<1>1. IInv => TypeOK
  BY DEF IInv
<1> QED
  BY <1>1, Inductive, PTL

\* No event is in the journal twice, and none that was not queued.
THEOREM NoDuplicates == Spec => []LoggedOnce
<1>1. IInv => LoggedOnce
  BY DEF IInv
<1> QED
  BY <1>1, Inductive, PTL

\* No event is taken for processed that is not in the journal.
THEOREM NothingLost == Spec => []ProcessedIsLogged
<1>1. IInv => ProcessedIsLogged
  BY DEF IInv
<1> QED
  BY <1>1, Inductive, PTL

----
(* Which documents a step may change. *)

Unsettled(e) == Status(e) \in {"absent", "pending", "processing"}

SettledKept ==
  \A e \in Events :
    \/ outbox'[e] = outbox[e]
    \/ Unsettled(e)
    \/ Status(e) = "processed" /\ outbox'[e].status = "expired"

LEMMA OneChanges ==
  ASSUME TypeOK, NEW e \in Events, NEW doc, outbox' = [outbox EXCEPT ![e] = doc],
         Unsettled(e) \/ (Status(e) = "processed" /\ doc.status = "expired")
  PROVE  SettledKept
<1>1. outbox'[e] = doc
  BY DEF TypeOK
<1>2. ASSUME NEW f \in Events, f # e PROVE outbox'[f] = outbox[f]
  BY <1>2 DEF TypeOK
<1> QED
  BY <1>1, <1>2 DEF SettledKept

LEMMA ProcessKeepsSettled ==
  ASSUME TypeOK, NEW w \in Workers,
         Step(w) \/ Shutdown(w) \/ CreateFails(w) \/ MarkFails(w) \/ Crash(w)
  PROVE  SettledKept
<1>1. CASE UNCHANGED outbox
  BY <1>1 DEF SettledKept
<1>2. CASE ReleaseStaleLocks(w)
  <2>1. ASSUME NEW e \in Events PROVE outbox'[e] = outbox[e] \/ Status(e) = "processing"
    BY <1>2 DEF ReleaseStaleLocks, IsStale
  <2> QED
    BY <2>1 DEF SettledKept, Unsettled
<1>3. CASE Claim(w)
  <2>1. PICK e \in Claimable :
          outbox' = [outbox EXCEPT ![e] = [status |-> "processing", due |-> TRUE,
                       stale |-> FALSE, attempts |-> outbox[e].attempts + 1]]
    BY <1>3 DEF Claim
  <2>2. e \in Events /\ Unsettled(e)
    BY DEF Claimable, Unsettled
  <2> QED
    BY <2>1, <2>2, OneChanges
<1>4. CASE MarkProcessed(w) \/ MarkFails(w)
  <2>1. worker[w].e \in Events
    BY <1>4, HeldFields DEF MarkProcessed, MarkFails, At, Holding
  <2>2. CASE outbox' = Processed(worker[w].e) /\ Status(worker[w].e) = "processing"
    <3>1. Unsettled(worker[w].e)
      BY <2>2 DEF Unsettled
    <3>2. outbox' = [outbox EXCEPT ![worker[w].e] =
                       [outbox[worker[w].e] EXCEPT !.status = "processed", !.stale = FALSE]]
      BY <2>2 DEF Processed
    <3> QED
      BY <2>1, <3>1, <3>2, OneChanges
  <2> QED
    BY <1>1, <1>4, <2>2 DEF MarkProcessed, MarkFails, Processed
<1>5. CASE ScheduleRetry(w)
  <2>1. worker[w].e \in Events
    BY <1>5, HeldFields DEF ScheduleRetry, At, Holding
  <2>2. CASE Status(worker[w].e) = "processing"
    <3>1. Unsettled(worker[w].e)
      BY <2>2 DEF Unsettled
    <3>2. PICK status \in {"dead", "pending"} :
            outbox' = [outbox EXCEPT ![worker[w].e] = [outbox[worker[w].e] EXCEPT
                         !.status = status, !.due = FALSE, !.stale = FALSE]]
      BY <1>5, <2>2 DEF ScheduleRetry
    <3> QED
      BY <2>1, <3>1, <3>2, OneChanges
  <2> QED
    BY <1>1, <1>5, <2>2 DEF ScheduleRetry
<1> QED
  BY <1>1, <1>2, <1>3, <1>4, <1>5
  DEF Step, Start, Tick, LastFlush, Exit, BatchEnds, Create, Shutdown, CreateFails, Crash

LEMMA QueueKeepsSettled ==
  ASSUME TypeOK, NEW e \in Events,
         Enqueue(e) \/ Time(e) \/ HolderIsSlow(e) \/ Expire(e)
  PROVE  SettledKept
<1>1. CASE Enqueue(e)
  BY <1>1, OneChanges DEF Enqueue, Unsettled
<1>2. CASE BecomesStale(e)
  <2>1. outbox' = [outbox EXCEPT ![e] = [outbox[e] EXCEPT !.stale = TRUE]]
    BY <1>2 DEF BecomesStale
  <2> QED
    BY <1>2, <2>1, OneChanges DEF BecomesStale, Unsettled
<1>3. CASE BackoffEnds(e)
  <2>1. outbox' = [outbox EXCEPT ![e] = [outbox[e] EXCEPT !.due = TRUE]]
    BY <1>3 DEF BackoffEnds
  <2> QED
    BY <1>3, <2>1, OneChanges DEF BackoffEnds, Unsettled
<1>4. CASE Expire(e)
  <2>1. outbox' = [outbox EXCEPT ![e] = [outbox[e] EXCEPT !.status = "expired"]]
    BY <1>4 DEF Expire
  <2>2. outbox[e] \in Entry
    BY <1>4, EntryFields DEF Expire
  <2>3. [outbox[e] EXCEPT !.status = "expired"].status = "expired"
    BY <2>2 DEF Entry
  <2> QED
    BY <1>4, <2>1, <2>3, OneChanges DEF Expire
<1> QED
  BY <1>1, <1>2, <1>3, <1>4 DEF Time, LockAges, HolderIsSlow

\* A processed event only expires, and a dead or expired one never changes.
THEOREM SettledIsFinal == Spec => SettledStays
<1>1. TypeOK /\ [Next]_vars =>
        [\A e \in Events :
           /\ Status(e) = "processed" => outbox'[e].status \in {"processed", "expired"}
           /\ Status(e) \in {"dead", "expired"} => outbox'[e].status = Status(e)]_vars
  <2> SUFFICES ASSUME TypeOK, Next
               PROVE  \A e \in Events :
                 /\ Status(e) = "processed" => outbox'[e].status \in {"processed", "expired"}
                 /\ Status(e) \in {"dead", "expired"} => outbox'[e].status = Status(e)
    OBVIOUS
  <2>1. SettledKept
    BY ProcessKeepsSettled, QueueKeepsSettled DEF Next
  <2> QED
    BY <2>1 DEF SettledKept, Unsettled, Status
<1> QED
  BY <1>1, TypeCorrect, PTL DEF Spec, SettledStays

----
(* The outbox implements the trail of its events.  A process that holds an event attempts it, and has  *)
(* counted this attempt: the event has at least as many, whoever claimed it since.                     *)

HeldAreAttempts ==
  \A w \in Workers : worker[w].pc \in Holding =>
    worker[w].attempt \in 1 .. outbox[worker[w].e].attempts

StageOf(doc) == IF doc.status \in {"pending", "processing"} THEN "open" ELSE doc.status
TriesOf(doc) == IF doc.status = "absent" THEN 0 ELSE doc.attempts

\* In document o no event has fewer attempts than it has now.
Counts(o) == \A e \in Events : Status(e) # "absent" => /\ o[e].status # "absent"
                                                       /\ o[e].attempts \in Nat
                                                       /\ o[e].attempts >= outbox[e].attempts

LEMMA HeldNow ==
  ASSUME IInv, HeldAreAttempts, NEW w \in Workers, worker[w].pc \in Holding
  PROVE  LET e == worker[w].e IN
         /\ e \in Events /\ Status(e) # "absent" /\ outbox[e] \in Entry
         /\ worker[w].attempt \in 1 .. outbox[e].attempts
         /\ log[e] \in {0, 1} /\ tries[e] = outbox[e].attempts /\ tries[e] > 0
<1> DEFINE e == worker[w].e
<1>1. e \in Events /\ Status(e) # "absent"
  BY HeldFields DEF IInv, HeldAreQueued
<1>2. outbox[e] \in Entry
  BY <1>1, EntryFields DEF IInv
<1>3. log[e] \in {0, 1}
  BY <1>1 DEF IInv, TypeOK, LoggedOnce
<1>4. worker[w].attempt \in 1 .. outbox[e].attempts /\ outbox[e].attempts \in Nat
  BY <1>2 DEF HeldAreAttempts, Entry
<1>5. tries[e] = outbox[e].attempts
  BY <1>1 DEF tries
<1>6. tries[e] > 0
  BY <1>4, <1>5
<1> QED
  BY <1>1, <1>2, <1>3, <1>4, <1>5, <1>6

\* One process moves: to hold an event it has just claimed, the event it held, or none.
LEMMA HeldMoves ==
  ASSUME IInv, HeldAreAttempts, NEW w \in Workers, NEW x, Goes(w, x), Counts(outbox'),
         x.pc \in Holding => x.attempt \in 1 .. outbox'[x.e].attempts
  PROVE  HeldAreAttempts'
<1> SUFFICES ASSUME NEW v \in Workers, worker'[v].pc \in Holding
             PROVE  worker'[v].attempt \in 1 .. outbox'[worker'[v].e].attempts
  BY DEF HeldAreAttempts
<1>1. CASE v = w
  BY <1>1 DEF Goes, IInv, TypeOK
<1>2. CASE v # w
  <2>1. worker'[v] = worker[v]
    BY <1>2 DEF Goes, IInv, TypeOK
  <2>2. /\ worker[v].e \in Events /\ Status(worker[v].e) # "absent"
        /\ worker[v].attempt \in 1 .. outbox[worker[v].e].attempts
        /\ outbox[worker[v].e].attempts \in Nat
    BY <2>1, HeldNow DEF Entry
  <2>3. /\ outbox'[worker[v].e].attempts \in Nat
        /\ outbox'[worker[v].e].attempts >= outbox[worker[v].e].attempts
    BY <2>2 DEF Counts
  <2> QED
    BY <2>1, <2>2, <2>3
<1> QED
  BY <1>1, <1>2

LEMMA SameCounts ==
  ASSUME IInv
  PROVE  /\ Counts(outbox)
         /\ UNCHANGED outbox => Counts(outbox') /\ UNCHANGED <<stage, tries>>
<1>1. Counts(outbox)
  BY EntryFields DEF IInv, Counts, Entry, Status
<1>2. UNCHANGED outbox => UNCHANGED <<stage, tries>>
  BY DEF stage, tries, Status
<1> QED
  BY <1>1, <1>2

LEMMA Updated ==
  ASSUME NEW S, NEW f, NEW g, f = [s \in S |-> f[s]], g = [s \in S |-> g[s]],
         NEW e \in S, \A s \in S : s # e => g[s] = f[s]
  PROVE  g = [f EXCEPT ![e] = g[e]]
OBVIOUS

\* An event's document is replaced by doc.
LEMMA TrailReplaced ==
  ASSUME IInv, NEW e \in Events, NEW doc \in Entry, outbox' = [outbox EXCEPT ![e] = doc],
         Status(e) # "absent" => doc.attempts >= outbox[e].attempts
  PROVE  /\ Counts(outbox')
         /\ stage' = [stage EXCEPT ![e] = StageOf(doc)]
         /\ tries' = [tries EXCEPT ![e] = doc.attempts]
<1>1. /\ outbox'[e] = doc /\ \A f \in Events : f # e => outbox'[f] = outbox[f]
      /\ doc.status # "absent" /\ doc.attempts \in Nat
  BY DEF IInv, TypeOK, Entry
<1>2. Counts(outbox')
  BY <1>1, SameCounts DEF Counts
<1>3. /\ stage = [f \in Events |-> stage[f]] /\ stage' = [f \in Events |-> stage'[f]]
      /\ tries = [f \in Events |-> tries[f]] /\ tries' = [f \in Events |-> tries'[f]]
  BY DEF stage, tries
<1>4. ASSUME NEW f \in Events
      PROVE  /\ stage[f] = StageOf(outbox[f]) /\ stage'[f] = StageOf(outbox'[f])
             /\ tries[f] = TriesOf(outbox[f]) /\ tries'[f] = TriesOf(outbox'[f])
  BY DEF stage, tries, Status, StageOf, TriesOf
<1>5. /\ stage'[e] = StageOf(doc) /\ tries'[e] = doc.attempts
      /\ \A f \in Events : f # e => stage'[f] = stage[f] /\ tries'[f] = tries[f]
  BY <1>1, <1>4 DEF TriesOf
<1>6. stage' = [stage EXCEPT ![e] = StageOf(doc)]
  BY <1>3, <1>5, Updated
<1>7. tries' = [tries EXCEPT ![e] = doc.attempts]
  BY <1>3, <1>5, Updated
<1> QED
  BY <1>2, <1>6, <1>7

LEMMA EntryStage ==
  ASSUME NEW e \in Events, outbox[e] \in Entry
  PROVE  stage[e] = StageOf(outbox[e]) /\ tries[e] = outbox[e].attempts /\ tries[e] \in Nat
BY DEF stage, tries, StageOf, Status, Entry

LEMMA TrailUnmoved ==
  ASSUME NEW e \in Events, IInv
  PROVE  /\ [stage EXCEPT ![e] = stage[e]] = stage
         /\ [tries EXCEPT ![e] = tries[e]] = tries
BY DEF stage, tries

\* An attempt of the held event is carried along with it.
LEMMA HeldAlong ==
  ASSUME IInv, HeldAreAttempts, NEW w \in Workers, NEW x, Goes(w, x), Counts(outbox'),
         x.pc \in Holding => /\ worker[w].pc \in Holding
                             /\ x.e = worker[w].e /\ x.attempt = worker[w].attempt
  PROVE  HeldAreAttempts'
<1>1. ASSUME x.pc \in Holding PROVE x.attempt \in 1 .. outbox'[x.e].attempts
  <2> DEFINE e == worker[w].e
  <2>1. /\ e \in Events /\ Status(e) # "absent" /\ outbox[e].attempts \in Nat
        /\ worker[w].attempt \in 1 .. outbox[e].attempts
    BY <1>1, HeldNow DEF Entry
  <2>2. outbox'[e].attempts \in Nat /\ outbox'[e].attempts >= outbox[e].attempts
    BY <2>1 DEF Counts
  <2> QED
    BY <1>1, <2>1, <2>2
<1> QED
  BY <1>1, HeldMoves

\* The place of a process that goes on with the event it holds.
LEMMA SameEvent ==
  ASSUME IInv, NEW w \in Workers, worker[w].pc \in Holding, NEW pc
  PROVE  LET x == [worker[w] EXCEPT !.pc = pc] IN
         x.pc = pc /\ x.e = worker[w].e /\ x.attempt = worker[w].attempt
BY HeldFields DEF IInv

LEMMA TrailIdles ==
  ASSUME IInv, HeldAreAttempts, NEW w \in Workers,
         \/ Start(w) \/ Tick(w) \/ LastFlush(w) \/ Exit(w) \/ BatchEnds(w)
         \/ Shutdown(w) \/ Crash(w)
  PROVE  HeldAreAttempts' /\ UNCHANGED <<stage, tries, log>>
<1>1. UNCHANGED <<outbox, log>> /\ Counts(outbox') /\ UNCHANGED <<stage, tries>>
  BY SameCounts DEF Start, Tick, LastFlush, Exit, BatchEnds, Shutdown, Crash
<1>2. CASE Shutdown(w)
  <2> DEFINE x == [worker[w] EXCEPT !.life = "closing"]
  <2>1. worker[w] \in Place
    BY DEF IInv, TypeOK
  <2>2. x.pc \in Holding => /\ worker[w].pc \in Holding
                            /\ x.e = worker[w].e /\ x.attempt = worker[w].attempt
    BY <2>1 DEF Place, Down, Holding
  <2> QED
    BY <1>1, <1>2, <2>2, HeldAlong DEF Shutdown
<1>3. ASSUME NEW x, Goes(w, x), x.pc \notin Holding PROVE HeldAreAttempts'
  BY <1>1, <1>3, HeldAlong
<1>4. CASE Start(w) \/ Tick(w) \/ LastFlush(w) \/ Exit(w) \/ Crash(w)
  BY <1>1, <1>3, <1>4, NotHolding DEF Start, Tick, LastFlush, Exit, Crash, Lives
<1>5. CASE BatchEnds(w)
  <2>1. [pc |-> "idle", life |-> worker[w].life].pc \notin Holding
    BY DEF Holding
  <2> QED
    BY <1>1, <1>3, <1>5, <2>1 DEF BatchEnds
<1> QED
  BY <1>1, <1>2, <1>4, <1>5

LEMMA TrailReleases ==
  ASSUME IInv, HeldAreAttempts, NEW w \in Workers, ReleaseStaleLocks(w)
  PROVE  HeldAreAttempts' /\ UNCHANGED <<stage, tries, log>>
<1>0. /\ outbox' = [e \in Events |->
            IF IsStale(e) THEN [outbox[e] EXCEPT !.status = "pending", !.due = TRUE, !.stale = FALSE]
                          ELSE outbox[e]]
      /\ Goes(w, [worker[w] EXCEPT !.pc = "claim"]) /\ log' = log
  BY DEF ReleaseStaleLocks
<1>1. ASSUME NEW e \in Events
      PROVE  /\ StageOf(outbox'[e]) = StageOf(outbox[e]) /\ TriesOf(outbox'[e]) = TriesOf(outbox[e])
             /\ Status(e) # "absent" => /\ outbox'[e].status # "absent"
                                        /\ outbox'[e].attempts = outbox[e].attempts
                                        /\ outbox[e].attempts \in Nat
  <2>1. CASE IsStale(e)
    <3>1. outbox[e] \in Entry /\ outbox[e].status = "processing"
      BY <2>1, EntryFields DEF IInv, IsStale, Status
    <3>2. outbox'[e] = [outbox[e] EXCEPT !.status = "pending", !.due = TRUE, !.stale = FALSE]
      BY <1>0, <2>1
    <3> QED
      BY <3>1, <3>2 DEF Entry, StageOf, TriesOf
  <2>2. CASE ~ IsStale(e)
    <3>1. outbox'[e] = outbox[e]
      BY <1>0, <2>2
    <3> QED
      BY <3>1, EntryFields DEF IInv, Entry, Status
  <2> QED
    BY <2>1, <2>2
<1>2. Counts(outbox')
  BY <1>1 DEF Counts, Status
<1>3. UNCHANGED <<stage, tries>>
  <2>1. /\ stage = [e \in Events |-> StageOf(outbox[e])]
        /\ tries = [e \in Events |-> TriesOf(outbox[e])]
    BY DEF stage, tries, Status, StageOf, TriesOf
  <2>2. /\ stage' = [e \in Events |-> StageOf(outbox'[e])]
        /\ tries' = [e \in Events |-> TriesOf(outbox'[e])]
    BY DEF stage, tries, Status, StageOf, TriesOf
  <2> QED
    BY <1>1, <2>1, <2>2
<1>4. worker[w] \in [pc : {"sweep", "claim"}, life : Lives, done : 0 .. BatchSize]
  <2>1. worker[w].pc = "sweep"
    BY DEF ReleaseStaleLocks, At
  <2> QED
    BY <2>1 DEF IInv, TypeOK, Place, Down
<1> DEFINE x == [worker[w] EXCEPT !.pc = "claim"]
<1>5. Goes(w, x)
  BY <1>0
<1>6. x.pc \notin Holding
  BY <1>4 DEF Holding
<1> HIDE DEF x
<1>7. HeldAreAttempts'
  BY <1>2, <1>5, <1>6, HeldAlong
<1> QED
  BY <1>0, <1>3, <1>7

LEMMA TrailClaims ==
  ASSUME IInv, HeldAreAttempts, NEW w \in Workers, Claim(w)
  PROVE  HeldAreAttempts' /\ \E e \in Events : Trail!Attempt(e)
<1>1. PICK e \in Claimable :
        /\ outbox' = [outbox EXCEPT ![e] = [status |-> "processing", due |-> TRUE,
                         stale |-> FALSE, attempts |-> outbox[e].attempts + 1]]
        /\ Goes(w, [pc |-> "create", life |-> worker[w].life, done |-> worker[w].done,
                    e |-> e, attempt |-> outbox[e].attempts + 1])
        /\ log' = log
  BY DEF Claim
<1> DEFINE doc == [status |-> "processing", due |-> TRUE,
                   stale |-> FALSE, attempts |-> outbox[e].attempts + 1]
<1>2. e \in Events /\ Status(e) = "pending" /\ outbox[e] \in Entry
  BY EntryFields DEF IInv, Claimable
<1>3. doc \in Entry /\ doc.attempts = outbox[e].attempts + 1 /\ outbox[e].attempts \in Nat
  BY <1>2 DEF Entry
<1>4. StageOf(doc) = "open" /\ stage[e] = "open" /\ tries[e] = outbox[e].attempts
  BY <1>2 DEF StageOf, stage, tries
<1> DEFINE x == [pc |-> "create", life |-> worker[w].life, done |-> worker[w].done,
                 e |-> e, attempt |-> outbox[e].attempts + 1]
<1>5. outbox' = [outbox EXCEPT ![e] = doc] /\ outbox'[e] = doc /\ Goes(w, x)
  BY <1>1, <1>2 DEF IInv, TypeOK
<1>6. x.e = e /\ x.attempt = doc.attempts /\ x.attempt \in 1 .. doc.attempts
  BY <1>3
<1> HIDE DEF doc, x
<1>7. doc.attempts >= outbox[e].attempts /\ doc.attempts = tries[e] + 1
  BY <1>3, <1>4
<1>8. /\ Counts(outbox') /\ stage' = [stage EXCEPT ![e] = StageOf(doc)]
      /\ tries' = [tries EXCEPT ![e] = doc.attempts]
  BY <1>2, <1>3, <1>5, <1>7, TrailReplaced
<1>9. stage' = stage /\ tries' = [tries EXCEPT ![e] = tries[e] + 1]
  BY <1>2, <1>4, <1>7, <1>8, TrailUnmoved
<1>10. HeldAreAttempts'
  BY <1>5, <1>6, <1>8, HeldMoves
<1>11. Trail!Attempt(e)
  BY <1>1, <1>4, <1>9 DEF Trail!Attempt
<1> QED
  BY <1>2, <1>10, <1>11

\* What Trail!Store asks, of the event a process is about to insert.
LEMMA TrailCreates ==
  ASSUME IInv, HeldAreAttempts, NEW w \in Workers, Create(w) \/ CreateFails(w)
  PROVE  /\ HeldAreAttempts'
         /\ (\E e \in Events : Trail!Store(e)) \/ UNCHANGED <<stage, tries, log>>
<1> DEFINE e == worker[w].e
<1>1. worker[w].pc \in Holding /\ UNCHANGED outbox
  BY DEF Create, CreateFails, At, Holding
<1>2. e \in Events /\ log[e] \in {0, 1} /\ tries[e] > 0
  BY <1>1, HeldNow
<1>3. Counts(outbox') /\ UNCHANGED <<stage, tries>>
  BY <1>1, SameCounts
<1>4. \E pc : Goes(w, [worker[w] EXCEPT !.pc = pc])
  BY DEF Create, CreateFails
<1>5. HeldAreAttempts'
  <2>1. PICK pc : Goes(w, [worker[w] EXCEPT !.pc = pc])
    BY <1>4
  <2> DEFINE x == [worker[w] EXCEPT !.pc = pc]
  <2>2. Goes(w, x) /\ x.e = worker[w].e /\ x.attempt = worker[w].attempt
    BY <1>1, <2>1, SameEvent
  <2> HIDE DEF x
  <2> QED
    BY <1>1, <1>3, <2>2, HeldAlong
<1>6. log' = log \/ (log[e] = 0 /\ log' = [log EXCEPT ![e] = 1])
  <2>1. log' = log \/ log' = [log EXCEPT ![e] = 1]
    BY DEF Create, CreateFails
  <2>2. log[e] = 1 => [log EXCEPT ![e] = 1] = log
    BY <1>2 DEF IInv, TypeOK
  <2> QED
    BY <1>2, <2>1, <2>2
<1>7. CASE log[e] = 0 /\ log' = [log EXCEPT ![e] = 1]
  BY <1>2, <1>3, <1>5, <1>7 DEF Trail!Store
<1> QED
  BY <1>3, <1>5, <1>6, <1>7

\* A claimed document is settled, or given back to the queue with its attempts.
LEMMA TrailSettles ==
  ASSUME IInv, NEW e \in Events, Status(e) = "processing", UNCHANGED log,
         NEW status \in {"processed", "dead", "pending"}, NEW due \in BOOLEAN,
         outbox' = [outbox EXCEPT ![e] = [outbox[e] EXCEPT !.status = status, !.due = due, !.stale = FALSE]],
         status = "processed" => log[e] = 1,
         status = "dead" => outbox[e].attempts >= MaxAttempts
  PROVE  /\ Counts(outbox')
         /\ Trail!Settle(e) \/ UNCHANGED <<stage, tries, log>>
<1> DEFINE doc == [outbox[e] EXCEPT !.status = status, !.due = due, !.stale = FALSE]
<1>1. outbox[e] \in Entry /\ outbox[e].attempts \in Nat
  BY EntryFields DEF IInv, Entry
<1>2. doc \in Entry /\ doc.status = status /\ doc.attempts = outbox[e].attempts
  BY <1>1 DEF Entry
<1>3. outbox' = [outbox EXCEPT ![e] = doc] /\ doc.attempts >= outbox[e].attempts
  BY <1>1, <1>2
<1>4. stage[e] = "open" /\ tries[e] = outbox[e].attempts
  BY DEF stage, tries
<1> HIDE DEF doc
<1>5. /\ Counts(outbox') /\ stage' = [stage EXCEPT ![e] = StageOf(doc)]
      /\ tries' = [tries EXCEPT ![e] = doc.attempts]
  BY <1>2, <1>3, TrailReplaced
<1>6. tries' = tries
  BY <1>2, <1>4, <1>5, TrailUnmoved
<1>7. CASE status = "pending"
  <2>1. StageOf(doc) = stage[e]
    BY <1>2, <1>4, <1>7 DEF StageOf
  <2> QED
    BY <1>5, <1>6, <2>1, TrailUnmoved
<1>8. CASE status # "pending"
  <2>1. StageOf(doc) = status
    BY <1>2, <1>8 DEF StageOf
  <2> QED
    BY <1>4, <1>5, <1>6, <1>8, <2>1 DEF Trail!Settle
<1> QED
  BY <1>7, <1>8

LEMMA TrailMarks ==
  ASSUME IInv, HeldAreAttempts, NEW w \in Workers, MarkProcessed(w) \/ MarkFails(w)
  PROVE  /\ HeldAreAttempts'
         /\ (\E e \in Events : Trail!Settle(e)) \/ UNCHANGED <<stage, tries, log>>
<1> DEFINE e == worker[w].e
<1>1. worker[w].pc \in {"mark", "duplicate"} /\ worker[w].pc \in Holding
  BY DEF MarkProcessed, MarkFails, At, Holding
<1>2. e \in Events /\ log[e] = 1 /\ outbox[e] \in Entry
  BY <1>1, HeldNow DEF IInv, MarkedAreLogged
<1>3. UNCHANGED log /\ (outbox' = Processed(e) \/ outbox' = outbox)
  BY DEF MarkProcessed, MarkFails
<1>4. Counts(outbox') /\ (Trail!Settle(e) \/ UNCHANGED <<stage, tries, log>>)
  <2>1. CASE outbox' = outbox
    BY <1>3, <2>1, SameCounts
  <2>2. CASE outbox' = Processed(e) /\ Status(e) = "processing"
    <3>1. [outbox[e] EXCEPT !.status = "processed", !.stale = FALSE]
            = [outbox[e] EXCEPT !.status = "processed", !.due = outbox[e].due, !.stale = FALSE]
      BY <1>2 DEF Entry
    <3>2. outbox[e].due \in BOOLEAN
      BY <1>2 DEF Entry
    <3>3. outbox' = [outbox EXCEPT ![e] = [outbox[e] EXCEPT !.status = "processed",
                                             !.due = outbox[e].due, !.stale = FALSE]]
      BY <2>2, <3>1 DEF Processed
    <3> QED
      BY <1>2, <1>3, <2>2, <3>2, <3>3, TrailSettles
  <2> QED
    BY <1>3, <2>1, <2>2 DEF Processed
<1>5. HeldAreAttempts'
  <2>1. CASE MarkProcessed(w)
    BY <1>4, <2>1, HeldAlong, NotHolding DEF MarkProcessed
  <2>2. CASE MarkFails(w)
    <3> DEFINE x == [worker[w] EXCEPT !.pc = "fail"]
    <3>1. Goes(w, x) /\ x.e = worker[w].e /\ x.attempt = worker[w].attempt
      BY <1>1, <2>2, SameEvent DEF MarkFails
    <3> HIDE DEF x
    <3> QED
      BY <1>1, <1>4, <3>1, HeldAlong
  <2> QED
    BY <2>1, <2>2
<1> QED
  BY <1>2, <1>4, <1>5

LEMMA TrailRetries ==
  ASSUME IInv, HeldAreAttempts, NEW w \in Workers, ScheduleRetry(w)
  PROVE  /\ HeldAreAttempts'
         /\ (\E e \in Events : Trail!Settle(e)) \/ UNCHANGED <<stage, tries, log>>
<1> DEFINE e == worker[w].e
           status == IF worker[w].attempt >= MaxAttempts THEN "dead" ELSE "pending"
<1>1. worker[w].pc \in Holding /\ UNCHANGED log
  BY DEF ScheduleRetry, At, Holding
<1>2. /\ e \in Events /\ outbox[e].attempts \in Nat
      /\ worker[w].attempt \in 1 .. outbox[e].attempts
  BY <1>1, HeldNow DEF Entry
<1>3. status = "dead" => outbox[e].attempts >= MaxAttempts
  BY <1>2, LimitsAssumption
<1>4. outbox' = IF Status(e) = "processing"
                  THEN [outbox EXCEPT ![e] = [outbox[e] EXCEPT
                          !.status = status, !.due = FALSE, !.stale = FALSE]]
                  ELSE outbox
  BY DEF ScheduleRetry
<1>5. status \in {"dead", "pending"}
  OBVIOUS
<1> HIDE DEF status
<1>6. Counts(outbox') /\ (Trail!Settle(e) \/ UNCHANGED <<stage, tries, log>>)
  <2>1. CASE Status(e) = "processing"
    BY <1>1, <1>2, <1>3, <1>4, <1>5, <2>1, TrailSettles
  <2>2. CASE Status(e) # "processing"
    BY <1>1, <1>4, <2>2, SameCounts
  <2> QED
    BY <2>1, <2>2
<1>7. HeldAreAttempts'
  BY <1>6, HeldAlong, NotHolding DEF ScheduleRetry
<1> QED
  BY <1>2, <1>6, <1>7

\* Time touches a document without moving its event.
LEMMA TrailTouched ==
  ASSUME IInv, NEW e \in Events, NEW doc \in Entry, outbox' = [outbox EXCEPT ![e] = doc],
         outbox[e] \in Entry, StageOf(doc) = StageOf(outbox[e]), doc.attempts = outbox[e].attempts
  PROVE  Counts(outbox') /\ UNCHANGED <<stage, tries>>
<1>1. stage[e] = StageOf(doc) /\ tries[e] = doc.attempts /\ doc.attempts >= outbox[e].attempts
  BY EntryStage
<1>2. /\ Counts(outbox') /\ stage' = [stage EXCEPT ![e] = stage[e]]
      /\ tries' = [tries EXCEPT ![e] = tries[e]]
  BY <1>1, TrailReplaced
<1> QED
  BY <1>2, TrailUnmoved

LEMMA TrailQueues ==
  ASSUME IInv, HeldAreAttempts, NEW e \in Events,
         Enqueue(e) \/ Time(e) \/ HolderIsSlow(e) \/ Expire(e)
  PROVE  HeldAreAttempts' /\ (Trail!Enqueue(e) \/ Trail!Forget(e) \/ UNCHANGED <<stage, tries, log>>)
<1>0. /\ UNCHANGED worker /\ UNCHANGED log
  BY DEF Enqueue, Time, LockAges, HolderIsSlow, BecomesStale, BackoffEnds, Expire
<1>1. ASSUME Counts(outbox') PROVE HeldAreAttempts'
  <2> SUFFICES ASSUME NEW v \in Workers, worker[v].pc \in Holding
               PROVE  worker[v].attempt \in 1 .. outbox'[worker[v].e].attempts
    BY <1>0 DEF HeldAreAttempts
  <2>1. /\ worker[v].e \in Events /\ Status(worker[v].e) # "absent"
        /\ outbox[worker[v].e].attempts \in Nat
        /\ worker[v].attempt \in 1 .. outbox[worker[v].e].attempts
    BY HeldNow DEF Entry
  <2>2. /\ outbox'[worker[v].e].attempts \in Nat
        /\ outbox'[worker[v].e].attempts >= outbox[worker[v].e].attempts
    BY <1>1, <2>1 DEF Counts
  <2> QED
    BY <2>1, <2>2
<1>2. CASE Enqueue(e)
  <2> DEFINE doc == [status |-> "pending", attempts |-> 0, due |-> TRUE, stale |-> FALSE]
  <2>1. doc \in Entry /\ doc.attempts = 0 /\ StageOf(doc) = "open"
    BY DEF Entry, StageOf
  <2>2. outbox' = [outbox EXCEPT ![e] = doc] /\ Status(e) = "absent"
    BY <1>2 DEF Enqueue
  <2>3. stage[e] = "absent" /\ tries[e] = 0
    BY <2>2 DEF stage, tries
  <2> HIDE DEF doc
  <2>4. /\ Counts(outbox') /\ stage' = [stage EXCEPT ![e] = "open"]
        /\ tries' = [tries EXCEPT ![e] = tries[e]]
    BY <2>1, <2>2, <2>3, TrailReplaced
  <2> QED
    BY <1>0, <1>1, <2>3, <2>4, TrailUnmoved DEF Trail!Enqueue
<1>3. CASE BecomesStale(e)
  <2> DEFINE doc == [outbox[e] EXCEPT !.stale = TRUE]
  <2>1. outbox[e] \in Entry /\ outbox[e].status = "processing"
    BY <1>3, EntryFields DEF IInv, BecomesStale, Status
  <2>2. doc \in Entry /\ doc.status = "processing" /\ doc.attempts = outbox[e].attempts
    BY <2>1 DEF Entry
  <2>3. outbox' = [outbox EXCEPT ![e] = doc]
    BY <1>3 DEF BecomesStale
  <2> HIDE DEF doc
  <2>4. StageOf(doc) = StageOf(outbox[e])
    BY <2>1, <2>2 DEF StageOf
  <2> QED
    BY <1>0, <1>1, <2>1, <2>2, <2>3, <2>4, TrailTouched
<1>4. CASE BackoffEnds(e)
  <2> DEFINE doc == [outbox[e] EXCEPT !.due = TRUE]
  <2>1. outbox[e] \in Entry /\ outbox[e].status = "pending"
    BY <1>4, EntryFields DEF IInv, BackoffEnds, Status
  <2>2. doc \in Entry /\ doc.status = "pending" /\ doc.attempts = outbox[e].attempts
    BY <2>1 DEF Entry
  <2>3. outbox' = [outbox EXCEPT ![e] = doc]
    BY <1>4 DEF BackoffEnds
  <2> HIDE DEF doc
  <2>4. StageOf(doc) = StageOf(outbox[e])
    BY <2>1, <2>2 DEF StageOf
  <2> QED
    BY <1>0, <1>1, <2>1, <2>2, <2>3, <2>4, TrailTouched
<1>5. CASE Expire(e)
  <2> DEFINE doc == [outbox[e] EXCEPT !.status = "expired"]
  <2>1. outbox[e] \in Entry /\ outbox[e].status = "processed" /\ outbox[e].attempts \in Nat
    BY <1>5, EntryFields DEF IInv, Expire, Status, Entry
  <2>2. doc \in Entry /\ doc.status = "expired" /\ doc.attempts = outbox[e].attempts
    BY <2>1 DEF Entry
  <2>3. outbox' = [outbox EXCEPT ![e] = doc]
    BY <1>5 DEF Expire
  <2> HIDE DEF doc
  <2>4. /\ stage[e] = "processed" /\ StageOf(doc) = "expired"
        /\ doc.attempts = tries[e] /\ doc.attempts >= outbox[e].attempts
    BY <2>1, <2>2, EntryStage DEF StageOf
  <2>5. /\ Counts(outbox') /\ stage' = [stage EXCEPT ![e] = "expired"]
        /\ tries' = [tries EXCEPT ![e] = tries[e]]
    BY <2>2, <2>3, <2>4, TrailReplaced
  <2> QED
    BY <1>0, <1>1, <2>4, <2>5, TrailUnmoved DEF Trail!Forget
<1> QED
  BY <1>2, <1>3, <1>4, <1>5 DEF Time, LockAges, HolderIsSlow

\* The outbox implements the trail: an event is stored once, after an attempt, and settled once, as
\* processed only when the journal has it, as dead only after all its attempts.
THEOREM OutboxIsATrail == Spec => TrailSpec
<1>1. Init => Trail!Init /\ HeldAreAttempts
  <2> SUFFICES ASSUME Init PROVE Trail!Init /\ HeldAreAttempts
    OBVIOUS
  <2>1. \A e \in Events : Status(e) = "absent"
    BY DEF Init, Status, Absent
  <2>2. stage = [e \in Events |-> "absent"] /\ tries = [e \in Events |-> 0]
    BY <2>1 DEF stage, tries
  <2>3. HeldAreAttempts
    BY DEF Init, HeldAreAttempts, Down, Holding
  <2> QED
    BY <2>2, <2>3 DEF Init, Trail!Init
<1>2. IInv /\ HeldAreAttempts /\ [Next]_vars => HeldAreAttempts' /\ [Trail!Next]_(Trail!trailVars)
  <2> SUFFICES ASSUME IInv, HeldAreAttempts, [Next]_vars
               PROVE  HeldAreAttempts' /\ (Trail!Next \/ UNCHANGED <<stage, tries, log>>)
    BY DEF Trail!trailVars
  <2>1. CASE UNCHANGED vars
    <3>1. UNCHANGED <<stage, tries, log>>
      BY <2>1, SameCounts DEF vars
    <3> QED
      BY <2>1, <3>1 DEF vars, HeldAreAttempts
  <2>2. ASSUME NEW w \in Workers, \/ Step(w) \/ Shutdown(w)
                                  \/ CreateFails(w) \/ MarkFails(w) \/ Crash(w)
        PROVE  HeldAreAttempts' /\ (Trail!Next \/ UNCHANGED <<stage, tries, log>>)
    BY <2>2, TrailIdles, TrailReleases, TrailClaims, TrailCreates, TrailMarks, TrailRetries
       DEF Step, Trail!Next
  <2>3. ASSUME NEW e \in Events, Enqueue(e) \/ Time(e) \/ HolderIsSlow(e) \/ Expire(e)
        PROVE  HeldAreAttempts' /\ (Trail!Next \/ UNCHANGED <<stage, tries, log>>)
    BY <2>3, TrailQueues DEF Trail!Next
  <2> QED
    BY <2>1, <2>2, <2>3 DEF Next
<1> QED
  BY <1>1, <1>2, Inductive, PTL DEF Spec, TrailSpec, Trail!Spec
====
