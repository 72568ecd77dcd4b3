# Verification of the online campus

TLA+ models of the campus server (NestJS, MongoDB) and of the session and the notifications in the
browser (React, axios, TanStack Query): what the code does when requests, processes and timers interleave, and proofs of what that guarantees.
Paths are relative to the repository; `EL` stands for
`server/src/elective-disciplines/elective-disciplines.service.ts`.

- [The system](#the-system): its parts, their state, how they interact, what is hard
- [The modules](#the-modules): which part each models and how it corresponds to the code
- [What is checked](#what-is-checked): runs, bounds, fairness
- [What is proved](#what-is-proved)
- [What the models found](#what-the-models-found)
- [What is not modelled](#what-is-not-modelled) and [the plan](#the-plan)

## The system

A single MongoDB database behind one or more identical server processes
(`docker-compose.yml`, `restart: unless-stopped`); no scheduler and no queue besides
collections. Concurrency comes from HTTP requests that interleave at every `await`, from
server processes that share the database, from the audit timer in each process, and from
browser tabs that share cookies.

The central design decision is `AUDIT_TRANSACTIONAL_OUTBOX`. When it is on (the deployed
setting), `TransactionInterceptor` runs every POST/PUT/PATCH/DELETE handler in one MongoDB
transaction with snapshot reads. When it is off (all e2e suites, a MongoDB without a replica
set), each statement of a handler takes effect alone. The two differ in exactly the places
where things go wrong, so the elective module, the richest protocol of the system, is modelled
in both.

| Component | State | Operations | Hard behaviours | What makes it correct |
|---|---|---|---|---|
| Elective disciplines (`elective-disciplines/`) | disciplines with an `enrolledCount`, periods with a finalization lock, selections with slots, course assignments | select, withdraw, update / set status / cancel a discipline, update / publish / close / finalize a period, lazy closing | the counter against the selections, stale reads, write skew, a lock with a timeout, retries of a half-done finalization | seats exact, no overbooking, quota, whole sets enrolled, roll = enrolment, final states stay |
| Audit outbox (`audit-log/audit-outbox.processor.ts`) | `audit_outbox` (pending, processing, processed, dead), append-only `auditlogs` | enqueue, sweep stale claims, claim, insert, mark, retry | several processes, claims without an owner, lost replies, crashes | exactly once in the journal, nothing lost, every event settles |
| Request transactions (`audit-log/transaction*.ts`) | per-request callbacks | commit, rollback, afterCommit, afterRollback | crash between commit and callback, unknown commit outcome, driver retries | files on disk agree with committed documents |
| Uploaded files (`files/`) | file on disk and document | save (quarantine, scan, rename, insert), delete | two stores, one transaction | no document whose commit was acknowledged without its file |
| Authentication and users (`auth/`, `users/`) | refresh-token hashes, status, password, reset token, roles, profiles | login, refresh (rotation), logout, reset, block, change role, create and update a user | rotation by two tabs, block during login, two administrators blocking each other | what opens a session belongs to the present account; an active administrator remains |
| Student profile sync (`users/student-profile-sync.service.ts`) | profiles | read, call the university API, save | the read is old by the time of the save | the active profile is one the user has |
| Client session (`client/src/services/api.ts`, `store/authStore.ts`) | session generation, refresh promise, cookie queue, auth revision | request, refresh, login, logout, expiry, profile loading | late answers of an old session, lost answers, another tab | one identity in store, cache and cookies; a good session is not given up; loading ends |
| Surveys (`surveys/`) | surveys, questions, completions, responses | edit draft, publish, unpublish, respond, close, remove; every GET moves surveys along | two collections per answer, all questions replaced, life-cycle steps outside transactions | answers whole, a published survey frozen, announced once |
| Academic terms | terms, one of them `current` | create, update, activate, remove | close-then-activate, check-then-delete | the current term never disappears by activating another |
| Database migrations | lock document, applied records | acquire, renew, apply, record, release | lease expiry, crash between migration and record | an instance serves only when all are recorded; no two at once under a live lease |
| Schedule snapshots (`schedule/`) | a snapshot per group, a map of refreshes in flight | read, refresh, touch, replace, notify | single flight per process only | one notice per change |
| External data cache and API client (`external-data-cache/`, `integrations/maup-student-api/`, `gradebook/`) | rows per user, a circuit breaker and a map of names per process | read, load with retries, fall back, write, purge | overlapping loads, a half-open circuit, late answers | data no older than their label, a circuit that never waits for nobody |
| Notifications (`notifications/`, `NotificationsBell.tsx`, `NotificationsPage.tsx`) | documents, a signal channel, two cached queries | create, delete, read, dismiss, poll, optimistic updates | signal before commit, lost signals, a shared cache entry | the bell agrees with the server in the end |

Interactions: every handler writes its audit events through `logAction` into the outbox, inside
its own transaction; finalization of an elective period writes courses and course assignments,
which the courses module archives and restores; terms are referenced by periods, disciplines
and assignments; blocking a user and resetting a password remove the sessions that
authentication hands out; the client's refresh queue exists because the server rotates tokens;
uploaded files, surveys, terms and notifications all run in the request transaction, and the
gradebook, the timetable and the profile synchronisation all await the university's API.

The complete list of hazards, each at its line and with the properties that would catch it, is
in `PROJECT.json`.

## The modules

| Module | Models |
|---|---|
| `ElectiveStore` | the collections of the elective module and each single MongoDB statement, as a function from database to database; shared by the next two |
| `Electives` | the service with a transaction per handler |
| `SeatBook` | abstract: what the `enrolledCount` counter promises; `Electives` implements it |
| `ElectiveSteps` | the service without transactions, one action per awaited statement |
| `AuditOutbox` | the outbox and its processors |
| `AuditTrail` | abstract: what the outbox promises of each event; `AuditOutbox` implements it |
| `Accounts` | authentication, users and the profile synchronisation: overlapping transactions on user documents |
| `FileStore` | saving and deleting a file: the disk, the document, and the whole life of a request transaction |
| `Surveys` | one survey: transactions of POST/PATCH/DELETE and life-cycle passes of GET |
| `AcademicTerms` | the academic terms and the two unique indexes on them |
| `Migrations` | the distributed lock, its lease and heartbeat, and the records |
| `ScheduleSnapshot` | the stored timetable of one group and its change notice |
| `ExternalData` | the gradebook's cached row, the API client with its circuit breaker, the map of names |
| `ClientSession` | one tab with its requests, cookie queue and auth store, and the server's cookies and tokens |
| `Notifications` | one user's notifications: server, signal, the bell and the page with their query cache |
| `ElectivesProofs`, `ElectiveStepsProofs`, `AuditOutboxProofs`, `AccountsProofs`, `FileStoreProofs`, `ScheduleSnapshotProofs`, `ClientSessionProofs` | theorems about the module each is named for; the last also about `Notifications` |
| `ServicesProofs` | theorems about `AcademicTerms`, `Surveys`, `ExternalData`, `Migrations`, and about `MCPlatform` |
| `MCElectives`, `MCElectiveSteps`, `MCAuditOutbox`, `MCAccounts` | values, symmetry, constraints and initial states for TLC |
| `MCBrowser` | the two client modules, for TLC; `focus` says which of them a behaviour explores |
| `MCPlatform` | the six small server modules, for TLC, likewise |

**ElectiveStore.** A discipline is its status, capacity, `enrolledCount` and whether it is in the
term of the periods; a period its status, `requiredChoices` and finalization lock; a selection
its status, cancel reason, student, period, discipline and `choiceSlot`; a roll the period and
the enrolled students of the elective course assignment of a discipline and a group (the code
keys it by course, group and term; a discipline's course is found by its code, one per
discipline). `HasFreeSeat`/`TakeSeat` is the conditional `$inc`, `Less` the decrement guarded by
`$gt: 0`, `IndexesAdmit` the two partial unique indexes of the selection schema, and so on. Titles,
credits, teachers, audit events and notifications are abstracted; a student's group is fixed and a
target of every period; `endsAt < now` is the set `ended`.

**Electives.** A handler is one action that reads the snapshot `db` and opens a transaction holding
its write set (`Open`); `Commit` installs it. Two transactions conflict when they write the same
document or the same unique-index entry, and the later one is gone with the commit of the first
(the driver then runs its handler again, which is a new `Open`). Reads are not protected: this is
what makes the properties hard. `Abort` stands for every failure up to the commit. `ListPeriods` is
the GET request that closes expired periods outside any transaction. The lock of a finalization is
never visible here: the transaction that takes it clears it. A handler that throws leaves no trace
and is not an action; validations of teachers and courses, which only make finalization throw,
are left out.

**ElectiveSteps.** The same handlers, each statement a step of its own. A request carries its place in the
handler and the local variables that the rest reads (`req`), so that stale reads are explicit.
`stale` says whose finalization lock is older than 15 minutes; `Crash` ends a request anywhere;
`FinalizeFails` is every failure that leads to the handler's catch block. `FinalizeEnrol` updates by
`_id` whatever the status is by then, and stops half-way on a unique-index clash, as `updateMany` does.
An edit of a discipline or a period (`Manage`) reads the document and checks it, and later its `save()` writes the
changed fields whatever the document has become: `SavesInTime` says of a capacity that it is not below
the count by then, and of a status that it does not replace a cancellation. The code ensures neither
([what the models found](#what-the-models-found)); the runs and theorems that need it suppose it, by name.

**SeatBook.** Per discipline a set of holders that grows by one while there is room, and shrinks
freely. `Electives!Book` maps the holders to the active selections; that the counter, which is
incremented and decremented but never recounted, implements this is the property `SeatBookSpec`.

**AuditOutbox.** Each process (`worker`) goes through a flush: sweep, then claim / insert / mark or
retry for each event of the batch. An attempt remembers the `attempts` it saw at its claim, as
`scheduleRetry` does. Statements may fail before or after their effect; a failure outside
`processEvent`'s try block rejects a promise nobody handles (`void this.flushAvailable()`, and no
`unhandledRejection` handler in `main.ts`), which ends the process, so `Crash` covers it. `Bad` events
are those the journal's schema rejects. Time is an action: a claim grows stale, a back-off ends, the
TTL index deletes. Payloads are abstracted.

**AuditTrail.** Each event is absent, open, or settled as processed, dead or expired, with its attempts and its
place in the journal; claims, back-offs and processes do not exist. `AuditOutbox` maps pending and processing
documents to open events (`stage`, `tries`), and `TrailSpec` says that every step of it is then a step of
the trail or none.

**Accounts.** A handler reads its snapshot in one action and commits in another (`Open`, `Commit`), as in
`Electives`, and conflicts with whoever wrote the same user document. A session is a refresh token;
`issued` remembers the user, password and role it was given for. `Login` compares the password of its snapshot, `Refresh` replaces the presented token
(`RotateDoc`, a conditional update on the hash), `Logout` removes it, and a change or reset of the
password, a block or a change of role removes all. Profiles are the external identifiers a student
has, with one active; `SyncStudent` merges the university's answer into the profiles of its snapshot.
E-mail, rate limits and names are abstracted. The synchronisation a login starts without awaiting
it (`auth.service.ts:223`) is not modelled: it writes after the transaction has ended, with a session
object of its own fate.

**ClientSession.** A request is queued (cookie writers one after the other), sent, served, and its
promise continues (`Resume`); `Served` and `Serve` are the server's handlers, `ServeRolledBack` an answer
whose cookies were set although its transaction failed, `ServeOrphan` the handling of a request whose tab has gone on.
`jar` is the cookies all tabs share; `OtherTabRefreshes` is another tab's rotation. `kicked` records that
the session was given up unasked although the server would still refresh it: because a refresh was
refused or failed, or because the profile could not be loaded (`ProfileFailed`). A fault is what the
client cannot repair: an answer with cookies that is lost or belongs to a rolled-back transaction, the
failure of the profile request with which a page begins (`initializeAuth` gives up at any error), an
access token that expires between its refresh and the retry (a request is refreshed once), a
page left or a rotation in another tab while a cookie writer is under way, a revocation. `Disturb` records it, and `OneFault` bounds TLC's runs to one, which is
enough for every scenario of the hazards; the theorems hold of any number. The
interface disables the login form while a login is under way; the model does not, so overlaps that
only a slow render allows are included. Logins in other tabs are not modelled. A logout whose
request fails leaves the cookies: a reload signs the user in again, and this is not counted
against the session. A refresh of a blocked account is answered 403, not 401 (`Blocked`).

**Surveys.** The document, the number of the present question set, the answers with their true
author as history, and the completions. A transaction is its pending writes; one that touches a
document another has committed starts again (`Unaffected`). A GET first runs a pass of the life
cycle (`PassBegins` to `PassEnds`), each statement by itself with the time at which the pass began.
Two behaviours worth knowing: an edit of a draft that changes only questions writes nothing to the
survey document (`save()` of an unchanged document), so it can commit after the survey was
published (`late`, `surveys.service.ts:349`); and a survey closed by a GET may still gain an answer whose
transaction read it as active. Announcements and reminders are sent at most once and may be lost
when a process dies after claiming them.

**FileStore.** Each call is at a step of `saveFile` or `deleteFile`, then commits, is run again by the
driver, ends in an unknown outcome, or dies. Callbacks registered by an earlier run of the handler
are still there in the next (`RunAgain`). After a commit of unknown outcome a document may be left without
its file: the code takes it for a failure, and `afterRollback` removes the file
(`transaction.interceptor.ts:70`). Files of such a commit (`unsure`) are exempt from `FilesKept`. A partial write on the first run, a failed
unlink and a crash leave litter, which is allowed. With transactions off, an audit error after the
insert unlinks the file and leaves the document; that mode is not modelled here.

**AcademicTerms.** Transactions on term documents, with the two partial unique indexes as conflicts.
The overlap of dates and the count of references are free choices: both are write skews that the
code does not exclude, and nothing is claimed of them.

**Migrations.** `StartUp` to `ReleaseLock` follow `onModuleInit`; a lease may run out at any time, and
`lapsed` records that it did so under a living holder, the one case in which two instances run a
migration at once. A failed release is the same as dying before it.

**ScheduleSnapshot.** `Look`, `Share` and `Begin` are the read of the snapshot, the single-flight map of
the process, and a refresh of its own; `Touch`, `Replace` and `Beaten` the three outcomes of comparing
and conditionally writing. Two processes may both store the first snapshot. A snapshot older than
seven days counts as none. The readers in `Forced` are the administrator's POST: it asks whatever the
age of the snapshot, and what it writes is visible, and what it tells is told, only in `CommitForced`;
`AbortForced` is the rollback, and in between (`Locked`) no other request writes the document. A GET
of the same process may join that refresh and return a timetable that is then rolled back; no state
is left of it.

**ExternalData.** Times are ages in units of one attempt, so that no clock bounds a behaviour. `Load`
sends the call for marks and the one for the names at once, and a half-open circuit admits only the
first; `CallSucceeds`, `CallRetries` and `CallFails` are the ends of an attempt; a request is done with
the marks or without them, and the other call goes on. Three behaviours that contradict no
document but surprise: the probe's mark is cleared by the end of any call, so a second probe may
start beside the first; a loader that needs two calls (finance) always fails its first load after an
outage, because the second call finds the probe taken; and a payload stored while the names could
not be had keeps its bare codes, labelled fresh, for the whole TTL.

**Notifications.** A notification is `new`, `creating`, `there`, `deleting` or `gone`; the signal leaves in
the same action as the write, before `Commit` or `Abort`. The operations of TanStack Query (`Fetch`,
`Cancel`, `SetData`, `Invalidated`, `Mounted`) are modelled from how the page and the bell use them.
The user is not an administrator and sets no filters; editing a notification is left out. The tab
is visible (a hidden one does not poll). What the page writes into the count's cache entry is a
number in the field `plain`, which is not what the bell reads.

**MCBrowser, MCPlatform.** Modules that share no state with each other are explored in one run: the
variable `focus` is chosen at the start, and only the module in focus moves. The properties are
those of the modules; nothing is lost, as no action of one could enable an action of another.

## What is checked

| Run | Configuration | What it shows |
|---|---|---|
| `electives_students` | 2 students, 2 disciplines, 1 period, 3 selections, 2 concurrent transactions, capacity and choices up to 2 | seats within capacity also while the capacity is lowered (`NeverOverbooked`), quota and no duplicates (`QuotaRespected`), whole sets (`EnrolledSetsComplete`), refinement of `SeatBook` |
| `electives_managers` | 1 discipline, 2 periods, 2 selections, 1 choice, all statuses, change of term | the counter is exact (`SeatsExact`), commits on stale reads are harmless to it (`WritesSound`), roll = enrolment across two periods (`RollMatchesEnrolment`), settled selections stay |
| `electives_late` | 1 discipline, 1 period | violated: a late commit leaves a selection in a finalized period |
| `steps_students` | a request that selects, one that selects, publishes or edits, a third that selects, withdraws, cancels the discipline or edits it or the period; crashes anywhere; saves of a discipline in time (`StudentNext`) | no overbooking (`SeatsCoverSelections`), counter exact once all requests ended and none died (`CounterSettles`) |
| `steps_finalize` | two finalizations with lock takeover, one withdrawal, cancellation or late save of a period or a discipline, archiving, crashes | enrolled students are on the roll, a finalized period has nothing undecided, an enrolment is never revoked |
| `steps_retry` | one finalization after another | violated: a retry cancels the rest of a half-enrolled set |
| `audit_outbox` | 2 processes, 2 events, the older unstorable, 3 attempts, batches of 2, 2 disturbances | exactly once (`LoggedOnce`), nothing lost (`ProcessedIsLogged`), refinement of `AuditTrail`: settled events stay, and none is given up before its last attempt (`TrailSpec`), every event settles (`EventsSettle`), storable events arrive (`GoodEventsLogged`) |
| `accounts_sessions` | an administrator who acts and two accounts that are written, 2 overlapping requests, 3 tokens, 2 profiles, 1 new password, 1 reset; constraint `Facets` | what can open a session belongs to the present account (`CredentialsCurrent`), a token is rotated once (`OneTokenPerSession`), the active profile exists and no profile is given to both accounts (`ActiveProfileSelected`) |
| `accounts_admins` | two administrators | violated: they block each other |
| `client_session` | 2 users, 3 requests and their refreshes, 1 fault; 1 notification, 1 click, 1 loss | one identity (`OneIdentity`), no session given up (`SessionSurvives`), loading ends (`LoadingEnds`); the bell agrees with the server once the user stays off the page (`BellCatchesUp`) |
| `bell_on_page` | 2 notifications, 1 click, no loss | violated: on the page of notifications the bell counts none |
| `platform` | files: 2 files, 3 calls; migrations: 3 instances, 2 migrations; terms: 3 terms, 3 managers; timetable: 3 readers in 2 processes, one of them a forced refresh, 2 timetables, 4 answers; survey: 2 students, 2 transactions, 2 passes, 3 moments, 2 question sets; gradebook: 2 requests, threshold 2, 1 retry, all times 1 | a document keeps its file (`FilesKept`), no instance serves an old database (`DatabaseReady`), the current term is not lost (`CurrentTermKept`), one notice per change (`ChangesToldOnce`), answers whole (`ResponsesWhole`), publication frozen (`PublicationFrozen`), announced once (`AnnouncedOnce`), data as old as they say (`AnswersHonest`), the probe awaited (`ProbeAwaited`) |

**Bounds.** Every hazard of the elective module needs at most two concurrent writers and one
earlier or later request; two transactions in flight, each of which may be replaced by any other
after its commit, give all of these. Two students compete for one or two seats; two disciplines and
two required choices are the least where a set can be incomplete. `SelectionIds` bounds how many
selections are ever made, so a run cannot withdraw and choose again more often than it has
identifiers. Two periods are needed only where they meet, at the discipline and the roll. In
`ElectiveSteps` each request runs once; the finalization runs start from every set of choices that
the indexes, quota and seats admit (`ChosenInit`; with capacities at their largest, since nobody takes
a seat any more), because the student phase is covered by `steps_students`. There an edit overlaps with two
other requests, which is what a stale save needs. In the outbox, `MaxFaults` bounds what can go wrong; it is smaller than
`MaxAttempts`, which is what `GoodEventsLogged` needs and says, and equal to the number that lets a
holder be slow and a process die for the same event. In `Accounts` the `Facets` constraint admits a second
profile only while no token is signed and no link mailed, and a second account beside the
administrator's only while, besides, no password is changed: profiles are what two accounts compete
for, and sessions, links and passwords are tested and written per account. `ClientSession` needs three requests for a late answer, the refresh it causes
and a request of the next session. A file is saved or deleted by at most three calls at a time, so
that one that is run again meets two others. Two transactions and two passes are what an
interleaving of a survey needs; three moments put an instant before, between and after its dates;
three readers are two in one process, who share a refresh, and one in another. In the gradebook a
threshold of two needs failures of two calls, and every age stops growing where nothing depends on
it any more. One notification and one click suffice for the bell's promise, which compares counts.
Symmetry is used in safety runs only, over
values that no definition tells apart.

`CHECK_DEADLOCK FALSE` is set for the elective runs: the bounded selections and requests run out,
and a campus where nobody chooses any more is not an error; likewise where requests, files,
instances, clicks and notifications are bounded (`client_session`, `bell_on_page`, `platform`). The outbox
and the accounts runs check deadlock.

**Fairness.** The elective modules assume none: they claim safety only, since nothing forces a
user to act. `AuditOutbox!FairSpec` has weak fairness of each process's own steps (the interval
timer fires again and again, an awaited statement returns, Docker restarts a process that died) and
of time (claims age, back-offs end). Nothing is assumed of `Enqueue`, of the TTL index, or of
failures. A holder that is slow is one of the counted disturbances: were every attempt to outlast
the lock timeout, an unstorable event would be released and claimed forever, because `claimNext` does
not compare `attempts` with the limit.

`ClientSession!Fairness` is weak fairness of each request's own continuation (a settled promise runs its
callbacks) and of `Answered`: a request is answered, or fails after axios' timeout. Nothing is asked of
the user. `MCBrowser!BellFairness` asks that the bell's interval fires and its requests end, and that
transactions and clicks under way end; nothing is asked of signals, of posting, or of the page, and
`BellCatchesUp` says nothing of a user who keeps returning to the page. The other modules assume none.

## What is proved

Every safety property that a passing run checks of the server's modules and of the client's session is a
theorem, for every value of the constants; those of `ElectiveSteps` under the conditions stated below.
(`PartsBehave` says that each part of `MCPlatform` behaves as its own specification allows, so that what is
proved of the parts holds of the run's composition; `BrowserTypeCorrect` is about both modules of `MCBrowser`.) The
assumptions are those the modules name: nulls are no values (`NullAssumption`, `NoneAssumption`, `NothingAssumption`,
`OwnersAssumption`, `FilesAssumption`, `AbsentAssumption`, `RecordsAssumption`), bounds are natural
numbers (`BoundsAssumption`, `LimitsAssumption`, `NoticesAssumption`, `RegistryAssumption`, `AnswersAssumption`,
`DataAssumption`), inputs are of their types (`GroupAssumption`, `ChoiceAssumption`, `JobAssumption`,
`ArchivableAssumption`, `UsersAssumption`, `RolesAssumption`, `EventsAssumption`, `ServersAssumption`,
`ForcedAssumption`, `AccountsAssumption`, `RequestsAssumption`), and selections are finitely many (`FiniteAssumption`).

| Module | Theorems, and the property each states |
|---|---|
| `ElectivesProofs` | `TypeCorrect`: `TypeOK`; `CounterIsExact`: `SeatsExact`; `NoOverbooking`: `NeverOverbooked`; `WritesAreSound`: `WritesSound`; `ChoicesWithinQuota`: `QuotaRespected`; `SetsAreComplete`: `EnrolledSetsComplete`; `RollsMatchEnrolment`: `RollMatchesEnrolment`; `SettledStays`: `SettledSelectionsStay`; `CounterIsABook`: `SeatBookSpec`, the refinement |
| `ElectiveStepsProofs` | `StepsTypeCorrect`: `TypeOK`; `EnrolmentStays`: `EnrolmentIsFinal`; `PeriodsSettle`, `NobodyChoosingSettles`: `FinalizedPeriodSettled`; `EnrolmentsHaveEntries`, `SinglePeriodEnrolments`: `EnrolledAreOnRoll`; `SeatsStayCovered`, `ChoicesStayCovered`, `FinalizationStaysCovered`: `SeatsCoverSelections`; `CountersSettle`: `CounterSettles`; all but the first two under conditions, see below |
| `AuditOutboxProofs` | `TypeCorrect`: `TypeOK`; `NoDuplicates`: `LoggedOnce`; `NothingLost`: `ProcessedIsLogged`; `OutboxIsATrail`: `TrailSpec`, the refinement; `SettledIsFinal`, on the documents themselves |
| `AccountsProofs` | `AccountsTypeCorrect`: `TypeOK`; `CredentialsAreCurrent`: `CredentialsCurrent`; `SessionsHaveOneToken`: `OneTokenPerSession`; `SelectedProfileIsActive`: `ActiveProfileSelected` |
| `FileStoreProofs` | `FilesTypeCorrect`; `DocumentsKeepFiles`: `FilesKept` |
| `ScheduleSnapshotProofs` | `ScheduleTypeCorrect`; `ChangesAreToldOnce`: `ChangesToldOnce` |
| `ServicesProofs` | `CurrentTermIsKept`: `CurrentTermKept`; `ResponsesAreWhole`: `ResponsesWhole`; `AnnouncedAtMostOnce`: `AnnouncedOnce`; `PublicationIsFrozen`: `PublicationFrozen`; `AnswersAreHonest`: `AnswersHonest`; `ProbeIsAwaited`: `ProbeAwaited`; `MigrationsTypeCorrect`; `DatabaseIsReady`: `DatabaseReady`; `PlatformTypeCorrect`: `PlatformTypeOK` |
| `ClientSessionProofs` | `SessionTypeCorrect`; `StoreAndCookiesAgree`: `OneIdentity`; `SessionIsKept`: `SessionSurvives`; `BrowserTypeCorrect`: `BrowserTypeOK`, with the notifications |

None of these properties is inductive as it stands. Each module proves an invariant of its own
(`IInv` and the like, the theorem called `...Inductive`), which adds what the property leaves unsaid
of the requests under way. The arguments:

*Electives.* A commit installs writes computed on an old snapshot. The invariant therefore also says of
every open transaction that its writes, installed on whatever the database is now, keep the counters
exact and leave alone what is final (`WritesSound`), respect the capacity they carry (`WritesFit`), keep
choices, sets and rolls in order (`WritesFitting`) and take one step of the seat book
(`WritesBooked`). Three arguments carry the proof. A handler leads from a consistent snapshot to a
consistent database and changes a discipline's document whenever it changes the set of its seats
(`Sound`; one lemma per handler, `SelectSound` to `FinalizeSound`). A transaction that is opened on the
current database has sound writes because its write set is the difference of the two (`OpenSound`). And
a transaction that survives the commit of another wrote none of the same documents or index entries, so,
seats being tied to their discipline's document, choices to their slot, sets to their period and
rolls to theirs, the commit changed nothing its writes depend on (`InstallableAfter`, `InstallSound`).
That is why no seat is lost under snapshot isolation: the counter lives in the document that every
seat change must write. It is also why a quota counted on an old snapshot is safe: two choices with a
free slot each collide on the index of slots.

*ElectiveSteps.* The theorems are about `ChosenSpec`, which starts anywhere between publication and
finalization; `SpecIsChosen` says that `Spec` is a case of it. `Core` ties what each request remembers to
the documents it names; identities of selections and enrolments never change, however late a
statement is, and `EnrolmentStays` follows, from the conditions in the updates' filters.
The other properties are false of arbitrary overlaps (see
[what the models found](#what-the-models-found)), and their conditions say which overlaps:
`PeriodsSettle` assumes that a choice is inserted while its period is active (`ChoicesInTime`), and shows
that an attempt about to finalize leaves nothing undecided in its period, because it holds every
selection that is still `selected` among those to keep or has cancelled it (`Undecided`);
`EnrolmentsHaveEntries` assumes that an upsert finds no assignment another period has taken since
the check (`UpsertsInTurn`), and shows that whom an attempt is about to enrol is on the roll (`OnRoll`),
as rolls only grow. `SeatsStayCovered` assumes that an attempt at finalization acts on what it read
(`AttemptsActOnWhatTheyRead`: nobody else has cancelled a selection that it is about to drop or enrol, nor
enrolled one to drop) and that saves come in time (`SavesAreInTime`; `Edits` says what an edit may change, `EditsInTime` what one in time
keeps), and balances each discipline's counter: seats held, plus seats reserved and not
yet filled or returned, plus seats of dropped students that an attempt still owes (`Debts`), are at most
`enrolledCount`, and equal to it while nobody died and nobody finalizes (`Balance`; `Leaky`, because
an attempt that fails after it dropped somebody leaves the seat counted; `CascadesAfterFlip` excepts a
cancelled discipline, which no status saved in time revives). `CountersSettle`, which states that equality, therefore assumes that no request
finalizes. `FinalizationStaysCovered` derives the condition on attempts from two about time: withdrawals
cancel while their period is active (`WithdrawalsInTime`), and a lock is taken over only from an attempt
that has died (`OnlyTheDeadOvertaken`). Then an attempt past the lock still owns it and its period is not
active (`Owns`), nobody else changes a selection it remembers (`Remembers`), and the lock does
what it is for. In each case corollaries, or `Job` itself, give the conditions for what the runs check.

*AuditOutbox.* The invariant adds what a process knows: it holds only events that were queued
(`HeldAreQueued`), and one about to mark an event has seen it in the journal (`MarkedAreLogged`).
As the journal only grows, this stays true whoever owns the claim by then, which is why the
ownerless `markProcessed` is harmless. The lemma `Moves` reduces every process step to what it does to
one event and one process. The refinement needs one fact more: what a process compares with the limit is
an attempt of its event, so that the document has counted at least as many (`HeldAreAttempts`); whoever
takes the claim over counts on, and nobody gives an event up early.

*Accounts.* A document `Fits` when its sessions are live (issued to this user under the password and
role it has), of different families, and none for a blocked account; when its reset link is of its
password; and when the selected profile is an active one of its own. The invariant asks the same of the
document each open transaction would write. What was issued is never taken back (`Grows`), so a
document that fits keeps fitting, and a transaction that survives a commit is about another user.

*FileStore.* Until an upload has ended, no other call and no document has its file (`UploadAlone`), the file
is where its step says and its undo is registered (`UploadTracked`); a deletion that may commit
has the purge registered (`DeleteTracked`); whatever is on disk without document is litter or the
affair of a call (`DiskOwned`).

*Migrations.* What is not pending for an instance is recorded (`PendingCovers`), what it records has run
(`RecordingIsPerformed`), it releases without error only when all is recorded (`ReleasedIsDone`), and
until a lease has lapsed whoever is past the lock owns it (`HoldersOwn`). Records grow in order,
which needs that a set of migrations has a least one; the library's well-founded induction gives it.

*ScheduleSnapshot.* An answer is used by one refresh only (`AnswersUsedOnce`), a stored snapshot that
has been compared with never returns (`ComparedOnce`), and nothing comes between comparison and
write of a forced refresh (`OneForced`).

*AcademicTerms, Surveys, ExternalData.* An open activation writes every term that is current
(`WritesActivation`), since a term becomes current only by a commit that writes the same index entry; any
other open transaction writes planned terms (`WritesPlain`). The writes of an open transaction on a
survey still follow from the survey as it is (`WritesFollow`), and at most one pass is about to tell the
audience (`OneTells`). A row was read at most one load before its stamp (`RowsStamped`), because a load
does not outlast the attempts of its calls (`CallsInTime`); a raised probe flag has its call in flight.

*ClientSession.* The queue holds exactly the cookie writers that have not ended, and only its head is sent;
a login or logout that still counts is the last in it, and until it has ended nobody is signed in
(`Ordered`, `Nobody`). What a request carries or brings is of the user of the tab and of the cookies
(`Fits`): an answer that is not is refused, as `Invalidate` made its request old. From these `OneIdentity`
follows. For `SessionSurvives` the invariant says how a refresh ends and who learns of it: a
refresh that was answered has been granted, or refused for a reason the server has (`SoundAnswer`), and a
request that waits for it shares that outcome (`Awaits`). While nothing was disturbed the cookies
hold a token the server accepts or none, unless the writer in turn carries it or brings its successor
(`Kept`, `Accepted`); so a refusal that ends the session found none to give up. And what was refused for
want of an access token has one when it is made again, as its refresh brings one (`Renewed`, `Backed`), so
loading the profile does not end the session either. Most lemmas compare the
requests before and after a step: each is as it was, only older, or given up (`Near`, `Left`).

*Notifications.* A query that has been answered carries its answer (`Carries`), and a click that may fail
the list it was made on (`Undoable`).

Model-checked only: the liveness properties (`EventsSettle`, `GoodEventsLogged`, `BellCatchesUp`,
`LoadingEnds`), since the prover handles neither fairness nor ENABLED; and the properties a run
refutes. Induction over data and recursive operators are out of its reach too; the modules need none
beyond the minimum above.

## What the models found

1. **A selection in a finalized period** (`electives_late`). `selectDiscipline` checks that the
   period is open (`EL:1222`) on its snapshot but writes only the discipline and the selection.
   If the period is closed and finalized before it commits, no document is written by both, and
   the selection commits: `selected` in a `finalized` period, on no course, never to be decided. The
   README calls a finalized period immutable (`README.md:533`) and allows choices only in an active
   one (`README.md:534`). The seat counter stays exact, which is the theorem above.
2. **A retry that breaks a set** (`steps_retry`, transactions off). The comment at `EL:962` tells the
   administrator to restore the course and retry. Earlier buckets are already enrolled by then, and
   the retry counts only selections that are still `selected`: a student whose other choice was
   enrolled becomes "incomplete" and loses the rest. With transactions the failed attempt is rolled
   back and `EnrolledSetsComplete` holds.

3. **Two administrators block each other** (`accounts_admins`). `assertAnotherActiveAdminExists` counts on
   the snapshot of its transaction (`users.service.ts:1091`) and the handler writes only the user it
   blocks or demotes: a write skew that leaves no active administrator, which the service's own
   message (`users.service.ts:1101`) and `docs/PRE_SSO_READINESS_AUDIT.md:36` exclude.
4. **The bell forgets its count on the page** (`bell_on_page`). `NotificationsPage.tsx:211` writes a number
   under the key of the unread count, where `NotificationsBell.tsx:45` reads `.count` of an object. While
   the page of notifications is open the bell shows none unread; leaving the page fetches it anew,
   which is why `BellCatchesUp` holds.

`ElectiveSteps` and the proofs about it showed more overlaps, all without transactions, that the model (and
the code) allows and that the conditions of the runs and theorems exclude:

- *Two periods share a discipline and a group.* Both finalizations look for an assignment of another
  period and find none (`EL:2139`); then both upsert. The upsert's filter is course, group and term,
  so the second one overwrites `electivePeriod`, and the students of the first are enrolled through an
  assignment that names the other period.
- *A finalization returns a seat it does not own.* A withdrawal that began while the period was open cancels
  and returns its seat between the read of the finalization and its enrolment, which updates by `_id` and
  makes the withdrawn selection `enrolled` again, with no seat counted. Likewise two attempts whose lock
  was taken over after 15 minutes return the seats of the same dropped students twice. In both
  cases `enrolledCount` is too low, and another period with the discipline may admit one student too many.
- *A capacity is stale.* `updateDiscipline` compares the new capacity with the count it has read (`EL:340`) and
  saves (`EL:348`) after students have chosen: the discipline has more students than seats.
- *A cancelled discipline comes back.* `setDisciplineStatus` reads an active discipline (`EL:364`) and saves its new
  status (`EL:374`) after the flip of `cancelDiscipline` (`EL:439`): the discipline is open again with its count at
  zero, while the selections it had still wait for the cascade.

  `SeatsStayCovered` says that overbooking takes one of these overlaps: if both kinds of save come in time
  (`SavesInTime`) and attempts at finalization act on what they read, nobody is overbooked.
  `FinalizationStaysCovered` replaces the latter by withdrawals in time and no lock taken from an attempt that
  runs. This is said of the requests the module has, not of the edits listed under
  [what is not modelled](#what-is-not-modelled).
- *A published period changes.* `updatePeriod` checks that the period is a draft (`EL:640`) and saves (`EL:665`) after it
  was published, even finalized: students who chose the old number of disciplines are then incomplete, or
  were enrolled in fewer than it names. No property depends on it here; with transactions `EnrolledSetsComplete` excludes it.
- *A choice arrives late.* A request that read the period as open inserts its selection after the period
  is finalized: finding 1, with no transaction to widen the window.

Two things the outbox run makes visible without contradicting the documentation: an event may be
`dead` although the journal has it (marking failed at the last attempt), and an event may be tried
more often than `AUDIT_OUTBOX_MAX_ATTEMPTS` after crashes.

## What is not modelled

Creating drafts (they are the initial state), reminders and exports of the elective module; edits of a
discipline's code, department and teacher and of a period's dates, term and target groups; what `archiveCourse`
refuses for a course in use (the model archives more than the code would); the order
of delivery of audit events; teachers and credits; the login's un-awaited synchronisation; logins in
other tabs; the finance loader and the disabled integration; editing and filtering notifications.

No module, because no state of theirs changes in more than one step: the import of references
(validation and one transaction), CRUD of courses, topics, news and references; access scopes (pure
queries); reports, spreadsheets and exports; mappers of the university's data; configuration and
seed data. Most of the client is views, forms and translations (`i18n.ts`, the pages of surveys,
electives and reports): they show what queries return and hold form fields, and no protocol runs in
them besides the session and the notifications. This, and not the server's protocols, is the larger part of the
implementation's lines. `PROJECT.json` gives the reason for each component.

## The plan

What is left to model is the finance loader beside the gradebook's, with which it shares a
circuit breaker: `AnswersHonest` and `ProbeAwaited`, and their proofs, for callers of both.
