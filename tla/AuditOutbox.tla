---- MODULE AuditOutbox ----
(***************************************************************************)
(* The audit outbox: logAction puts an event into the collection           *)
(* audit_outbox, in the transaction of the change it reports, and every    *)
(* server process runs an AuditOutboxProcessor that moves the events to    *)
(* the append-only collection auditlogs.                                   *)
(*                                                                         *)
(* Nothing but the events' status keeps the processes apart: a claim has   *)
(* no owner, a claim older than 30 seconds is released by any process      *)
(* while its holder may only be slow, and every statement may fail before  *)
(* or after it took effect.  A failure outside processEvent's try block    *)
(* rejects the promise that the timer ignores, which ends the process, so  *)
(* Crash stands for it too.                                                *)
(*                                                                         *)
(* Abstracted: payloads, error codes, and the clock.  The moments that     *)
(* matter (a claim becomes stale, a back-off ends, the TTL index deletes)  *)
(* are actions that may come at any time.                                  *)
(***************************************************************************)
EXTENDS Integers, FiniteSets

CONSTANTS Events,       \* a number for each event: the order of createdAt, then _id
          Bad,          \* events that the auditlogs schema rejects
          Workers,      \* server processes
          MaxAttempts,  \* AUDIT_OUTBOX_MAX_ATTEMPTS
          BatchSize,    \* events per flush (100, and 1000 for the last)
          MaxFaults     \* bound on disturbances: a statement that fails or outlasts the
                        \* lock timeout, a process that shuts down or dies

ASSUME EventsAssumption == Events \subseteq Nat /\ Bad \subseteq Events
ASSUME LimitsAssumption == MaxAttempts \in Nat \ {0} /\ BatchSize \in Nat \ {0} /\ MaxFaults \in Nat

VARIABLES outbox,  \* the document of each event
          log,     \* how many documents auditlogs has of each event
          worker,  \* the place of each process in its flush
          faults

vars == <<outbox, log, worker, faults>>

Absent == [status |-> "absent"]
Down == [pc |-> "down"]

Status(e) == outbox[e].status

----
(* logAction, within a transaction that commits. *)

Enqueue(e) ==
  /\ Status(e) = "absent"
  /\ outbox' = [outbox EXCEPT ![e] = [status |-> "pending", attempts |-> 0,
                                      due |-> TRUE, stale |-> FALSE]]
  /\ UNCHANGED <<log, worker, faults>>

----
(* The processor. *)

At(w, pc) == worker[w].pc = pc
Goes(w, next) == worker' = [worker EXCEPT ![w] = next]

Flush(life) == [pc |-> "sweep", life |-> life, done |-> 0]
Fails == faults < MaxFaults /\ faults' = faults + 1

\* onApplicationBootstrap; Docker restarts a process that has died.
Start(w) ==
  /\ At(w, "down")
  /\ Goes(w, Flush("up"))
  /\ UNCHANGED <<outbox, log, faults>>

\* The interval timer; `processing` makes it a no-op while a flush runs.
Tick(w) ==
  /\ At(w, "idle") /\ worker[w].life = "up"
  /\ Goes(w, Flush("up"))
  /\ UNCHANGED <<outbox, log, faults>>

\* onApplicationShutdown: stop the timer, await the active flush, flush once more.
Shutdown(w) ==
  /\ ~ At(w, "down") /\ worker[w].life = "up"
  /\ Goes(w, [worker[w] EXCEPT !.life = "closing"])
  /\ Fails
  /\ UNCHANGED <<outbox, log>>

LastFlush(w) ==
  /\ At(w, "idle") /\ worker[w].life = "closing"
  /\ Goes(w, Flush("closed"))
  /\ UNCHANGED <<outbox, log, faults>>

Exit(w) ==
  /\ At(w, "idle") /\ worker[w].life = "closed"
  /\ Goes(w, Down)
  /\ UNCHANGED <<outbox, log, faults>>

IsStale(e) == Status(e) = "processing" /\ outbox[e].stale

\* Fault: claims of a process that died are never released.
ReleaseStaleLocksNever(w) ==
  /\ At(w, "sweep")
  /\ Goes(w, [worker[w] EXCEPT !.pc = "claim"])
  /\ UNCHANGED <<outbox, log, faults>>

ReleaseStaleLocks(w) ==
  /\ At(w, "sweep")
  /\ outbox' = [e \in Events |->
       IF IsStale(e) THEN [outbox[e] EXCEPT !.status = "pending", !.due = TRUE, !.stale = FALSE]
                     ELSE outbox[e]]
  /\ Goes(w, [worker[w] EXCEPT !.pc = "claim"])
  /\ UNCHANGED <<log, faults>>

Claimable == {e \in Events : Status(e) = "pending" /\ outbox[e].due}

\* Fault: the batch is one event too long.
ClaimPastBatch(w) ==
  \E e \in Claimable :
    /\ \A other \in Claimable : e <= other
    /\ At(w, "claim")
    /\ worker[w].done <= BatchSize
    /\ outbox' = [outbox EXCEPT ![e] = [status |-> "processing", due |-> TRUE, stale |-> FALSE,
                                        attempts |-> outbox[e].attempts + 1]]
    /\ Goes(w, [pc |-> "create", life |-> worker[w].life, done |-> worker[w].done,
                e |-> e, attempt |-> outbox[e].attempts + 1])
    /\ UNCHANGED <<log, faults>>

Claim(w) ==
  \E e \in Claimable :
    /\ \A other \in Claimable : e <= other
    /\ At(w, "claim")
    /\ worker[w].done < BatchSize
    /\ outbox' = [outbox EXCEPT ![e] = [status |-> "processing", due |-> TRUE, stale |-> FALSE,
                                        attempts |-> outbox[e].attempts + 1]]
    /\ Goes(w, [pc |-> "create", life |-> worker[w].life, done |-> worker[w].done,
                e |-> e, attempt |-> outbox[e].attempts + 1])
    /\ UNCHANGED <<log, faults>>

BatchEnds(w) ==
  /\ At(w, "claim")
  /\ worker[w].done = BatchSize \/ Claimable = {}
  /\ Goes(w, [pc |-> "idle", life |-> worker[w].life])
  /\ UNCHANGED <<outbox, log, faults>>

----
(* processEvent. *)

\* Fault: auditlogs has no unique index on eventId.
CreateWithoutIndex(w) ==
  LET e == worker[w].e
  IN  /\ At(w, "create")
      /\ log' = [log EXCEPT ![e] = @ + 1]
      /\ Goes(w, [worker[w] EXCEPT !.pc = "mark"])
      /\ UNCHANGED <<outbox, faults>>

\* Fault: every error of the insert passes for a duplicate.
CreateForgiving(w) ==
  LET e == worker[w].e
  IN  /\ At(w, "create")
      /\ log' = IF e \in Bad \/ log[e] > 0 THEN log ELSE [log EXCEPT ![e] = 1]
      /\ Goes(w, [worker[w] EXCEPT !.pc = IF e \in Bad \/ log[e] > 0 THEN "duplicate" ELSE "mark"])
      /\ UNCHANGED <<outbox, faults>>

\* auditModel.create: stored, refused as a duplicate of eventId, or rejected.
Create(w) ==
  LET e == worker[w].e
  IN  /\ At(w, "create")
      /\ log' = IF e \in Bad \/ log[e] > 0 THEN log ELSE [log EXCEPT ![e] = 1]
      /\ Goes(w, [worker[w] EXCEPT !.pc = IF e \in Bad THEN "fail"
                                          ELSE IF log[e] > 0 THEN "duplicate" ELSE "mark"])
      /\ UNCHANGED <<outbox, faults>>

\* The statement fails, and may have taken effect.
CreateFails(w) ==
  LET e == worker[w].e
  IN  /\ At(w, "create")
      /\ log' \in {log, IF e \in Bad THEN log ELSE [log EXCEPT ![e] = 1]}
      /\ Goes(w, [worker[w] EXCEPT !.pc = "fail"])
      /\ Fails
      /\ UNCHANGED outbox

Processed(e) ==
  IF Status(e) = "processing"
    THEN [outbox EXCEPT ![e] = [outbox[e] EXCEPT !.status = "processed", !.stale = FALSE]]
    ELSE outbox

EventDone(w) == [pc |-> "claim", life |-> worker[w].life, done |-> worker[w].done + 1]

\* markProcessed, by _id and status alone: the claim may be another process's by now.
MarkProcessed(w) ==
  /\ At(w, "mark") \/ At(w, "duplicate")
  /\ outbox' = Processed(worker[w].e)
  /\ Goes(w, EventDone(w))
  /\ UNCHANGED <<log, faults>>

\* Inside the try block a failure counts as a failure of the event.
MarkFails(w) ==
  /\ At(w, "mark")
  /\ outbox' \in {outbox, Processed(worker[w].e)}
  /\ Goes(w, [worker[w] EXCEPT !.pc = "fail"])
  /\ Fails
  /\ UNCHANGED log

\* Faults: the update does not look at the status; a retry starts the count again.
ScheduleRetryBlindly(w) ==
  LET e == worker[w].e
  IN  /\ At(w, "fail")
      /\ outbox' = [outbox EXCEPT ![e].status = IF worker[w].attempt >= MaxAttempts
                                                THEN "dead" ELSE "pending",
                                  ![e].due = FALSE, ![e].stale = FALSE]
      /\ Goes(w, EventDone(w))
      /\ UNCHANGED <<log, faults>>

ScheduleRetryResetting(w) ==
  LET e == worker[w].e
      next == IF worker[w].attempt >= MaxAttempts THEN "dead" ELSE "pending"
  IN  /\ At(w, "fail")
      /\ outbox' = IF Status(e) = "processing"
                     THEN [outbox EXCEPT ![e] = [outbox[e] EXCEPT
                             !.status = next, !.attempts = 0, !.due = FALSE, !.stale = FALSE]]
                     ELSE outbox
      /\ Goes(w, EventDone(w))
      /\ UNCHANGED <<log, faults>>

\* The limit is compared with the attempts this process saw when it claimed the event.
ScheduleRetry(w) ==
  LET e == worker[w].e
      next == IF worker[w].attempt >= MaxAttempts THEN "dead" ELSE "pending"
  IN  /\ At(w, "fail")
      /\ outbox' = IF Status(e) = "processing"
                     THEN [outbox EXCEPT ![e] = [outbox[e] EXCEPT
                             !.status = next, !.due = FALSE, !.stale = FALSE]]
                     ELSE outbox
      /\ Goes(w, EventDone(w))
      /\ UNCHANGED <<log, faults>>

Crash(w) ==
  /\ ~ At(w, "down")
  /\ Goes(w, Down)
  /\ Fails
  /\ UNCHANGED <<outbox, log>>

----
(* Time. *)

HasHolder(e) ==
  \E w \in Workers : /\ worker[w].pc \in {"create", "mark", "duplicate", "fail"}
                     /\ worker[w].e = e /\ worker[w].attempt = outbox[e].attempts

BecomesStale(e) ==
  /\ Status(e) = "processing" /\ ~ outbox[e].stale
  /\ outbox' = [outbox EXCEPT ![e].stale = TRUE]
  /\ UNCHANGED <<log, worker>>

LockAges(e) == BecomesStale(e) /\ ~ HasHolder(e) /\ UNCHANGED faults

\* The holder is alive but its statements take longer than the lock timeout.
HolderIsSlow(e) == BecomesStale(e) /\ HasHolder(e) /\ Fails

BackoffEnds(e) ==
  /\ Status(e) = "pending" /\ ~ outbox[e].due
  /\ outbox' = [outbox EXCEPT ![e].due = TRUE]
  /\ UNCHANGED <<log, worker, faults>>

\* The TTL index deletes a processed document after 7 days.
Expire(e) ==
  /\ Status(e) = "processed"
  /\ outbox' = [outbox EXCEPT ![e].status = "expired"]
  /\ UNCHANGED <<log, worker, faults>>

----
Init ==
  /\ outbox = [e \in Events |-> Absent]
  /\ log = [e \in Events |-> 0]
  /\ worker = [w \in Workers |-> Down]
  /\ faults = 0

\* What a live process does by itself.
Step(w) ==
  \/ Start(w) \/ Tick(w) \/ LastFlush(w) \/ Exit(w)
  \/ ReleaseStaleLocks(w) \/ Claim(w) \/ BatchEnds(w)
  \/ Create(w) \/ MarkProcessed(w) \/ ScheduleRetry(w)

Time(e) == LockAges(e) \/ BackoffEnds(e)

Next ==
  \/ \E w \in Workers : \/ Step(w) \/ Shutdown(w)
                        \/ CreateFails(w) \/ MarkFails(w) \/ Crash(w)
  \/ \E e \in Events : Enqueue(e) \/ Time(e) \/ HolderIsSlow(e) \/ Expire(e)

Spec == Init /\ [][Next]_vars

\* Timers fire, awaited statements return, dead processes are restarted, time passes.
FairSpec ==
  /\ Spec
  /\ \A w \in Workers : WF_vars(Step(w))
  /\ \A e \in Events : WF_vars(Time(e))

----
(* What the module promises. *)

Entry == [status : {"pending", "processing", "processed", "dead", "expired"},
          attempts : Nat, due : BOOLEAN, stale : BOOLEAN]
Lives == {"up", "closing", "closed"}
Place == {Down}
  \cup [pc : {"idle"}, life : Lives]
  \cup [pc : {"sweep", "claim"}, life : Lives, done : 0..BatchSize]
  \cup [pc : {"create", "mark", "duplicate", "fail"}, life : Lives, done : 0..(BatchSize - 1),
        e : Events, attempt : Nat]

TypeOK ==
  /\ outbox \in [Events -> Entry \cup {Absent}]
  /\ log \in [Events -> Nat]
  /\ worker \in [Workers -> Place]
  /\ faults \in 0..MaxFaults

\* The journal holds each event at most once, however many processes deliver it after
\* stale claims, lost replies and restarts, and holds nothing that was not queued.
LoggedOnce ==
  \A e \in Events : log[e] <= 1 /\ (log[e] = 1 => Status(e) # "absent")

\* No event is lost: a document leaves the queue as processed, and later expires, only
\* when the journal has the event, even if a process that lost its claim marked it.
ProcessedIsLogged ==
  \A e \in Events : Status(e) \in {"processed", "expired"} => log[e] = 1

\* Processed and dead events are never taken up again by a process with an old copy.
SettledStays ==
  [][\A e \in Events :
       /\ Status(e) = "processed" => outbox'[e].status \in {"processed", "expired"}
       /\ Status(e) \in {"dead", "expired"} => outbox'[e].status = Status(e)]_vars

\* The abstract events: claims and back-offs are of no concern to them.
stage == [e \in Events |-> IF Status(e) \in {"pending", "processing"} THEN "open" ELSE Status(e)]
tries == [e \in Events |-> IF Status(e) = "absent" THEN 0 ELSE outbox[e].attempts]

Trail == INSTANCE AuditTrail WITH journal <- log

\* However claims change hands, an event is stored once, after an attempt, and settled once: as
\* processed when the journal has it, as dead after all its attempts and not before.
TrailSpec == Trail!Spec

\* Every queued event leaves the queue: no claim stays forever with a process that died,
\* and an event that cannot be stored ends as dead and does not hold up the others.
EventsSettle ==
  \A e \in Events :
    Status(e) # "absent" ~> Status(e) \in {"processed", "dead", "expired"}

\* While fewer statements fail than an event has attempts, every event that can be
\* stored reaches the journal, even when slow processes use up its attempts.
GoodEventsLogged ==
  \A e \in Events \ Bad : Status(e) # "absent" ~> log[e] = 1
====
