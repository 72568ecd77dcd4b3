---- MODULE ScheduleSnapshot ----
(***************************************************************************)
(* ScheduleSnapshotService: the stored timetable of one group and term,    *)
(* refreshed from the university's API when a request finds it old.  A     *)
(* process joins the refresh it has under way; between processes only the  *)
(* condition on fetchedAt decides.  Each successful write of a different   *)
(* timetable hands the old and the new one to the change notifier.         *)
(*                                                                         *)
(* A timetable is a value; its hash is itself.  fetchedAt is the number of *)
(* the answer it was taken from, since two answers never have the same     *)
(* millisecond here.  Whether a snapshot is old enough is left open: any   *)
(* request may find it so.  Readers are GETs, which run without a          *)
(* transaction, or, the ones in Forced, the administrator's POST, which    *)
(* asks whatever the age and writes in the transaction of its request:     *)
(* the snapshot and the notifications appear together when it commits, and *)
(* until then every other write of the document waits.                     *)
(***************************************************************************)
EXTENDS Naturals, FiniteSets

CONSTANTS Readers,       \* requests for the timetable
          Forced,        \* the ones of them that are an administrator's forced refresh
          Servers,       \* processes
          ServerOf,      \* the process that serves a request
          Timetables,
          MaxAnswers,    \* bound: answers of the university's API
          NoSnapshot, NoReader

ASSUME ServersAssumption == ServerOf \in [Readers -> Servers]
ASSUME ForcedAssumption == Forced \subseteq Readers
ASSUME AnswersAssumption == MaxAnswers \in Nat
ASSUME AbsentAssumption == /\ NoReader \notin Readers
                           /\ NoSnapshot \notin [entries : Timetables, fetchedAt : 1..MaxAnswers]

VARIABLES upstream,      \* the timetable the university publishes
          snapshot,      \* the document
          inFlight,      \* per process: the request whose refresh is under way
          reader,        \* the requests
          answers,       \* answers received so far
          told           \* history: what the notifier was given

scheduleVars == <<upstream, snapshot, inFlight, reader, answers, told>>

Snapshot == [entries : Timetables, fetchedAt : 1..MaxAnswers]
Unread == [at |-> "idle", existing |-> NoSnapshot, answer |-> NoSnapshot]

\* `from` and `of`: the timetable and fetchedAt of the snapshot read before; `over`: the one replaced.
Change == [of : 0..MaxAnswers, from : Timetables \cup {NoSnapshot},
           over : Timetables \cup {NoSnapshot}, by : 1..MaxAnswers, to : Timetables]

ScheduleTypeOK ==
  /\ upstream \in Timetables
  /\ snapshot \in Snapshot \cup {NoSnapshot}
  /\ answers \in 0..MaxAnswers
  /\ told \subseteq Change
  /\ reader \in [Readers -> [at : {"idle", "looked", "asking", "writing", "telling", "open"},
                             existing : Snapshot \cup {NoSnapshot},
                             answer : Snapshot \cup {NoSnapshot}]]
  /\ inFlight \in [Servers -> Readers \cup {NoReader}]
  \* The map holds exactly the refresh that is under way.
  /\ \A r \in Readers : reader[r].at \in {"asking", "writing", "telling"}
                          <=> inFlight[ServerOf[r]] = r

ScheduleInit ==
  /\ upstream \in Timetables /\ snapshot = NoSnapshot
  /\ inFlight = [p \in Servers |-> NoReader]
  /\ reader = [r \in Readers |-> Unread]
  /\ answers = 0 /\ told = {}

----
\* getOrRefresh: the stored snapshot is read first ...
Look(r) ==
  /\ reader[r].at = "idle"
  /\ reader' = [reader EXCEPT ![r] = [Unread EXCEPT !.at = "looked", !.existing = snapshot]]
  /\ UNCHANGED <<upstream, snapshot, inFlight, answers, told>>

\* ... and is new enough, or a refresh of this process is under way and its result is awaited,
Share(r) ==
  /\ reader[r].at = "looked"
  /\ (r \notin Forced /\ reader[r].existing # NoSnapshot) \/ inFlight[ServerOf[r]] # NoReader
  /\ reader' = [reader EXCEPT ![r] = Unread]
  /\ UNCHANGED <<upstream, snapshot, inFlight, answers, told>>

\* ... or a refresh begins, with the snapshot as it was when it was read.
Begin(r) ==
  /\ reader[r].at = "looked" /\ inFlight[ServerOf[r]] = NoReader
  /\ inFlight' = [inFlight EXCEPT ![ServerOf[r]] = r]
  /\ reader' = [reader EXCEPT ![r].at = "asking"]
  /\ UNCHANGED <<upstream, snapshot, answers, told>>

Answer(r) ==
  /\ reader[r].at = "asking" /\ answers < MaxAnswers
  /\ answers' = answers + 1
  /\ reader' = [reader EXCEPT ![r].at = "writing",
                              ![r].answer = [entries |-> upstream, fetchedAt |-> answers']]
  /\ UNCHANGED <<upstream, snapshot, inFlight, told>>

\* Mutant: a refresh that is over stays in the map.
DoneStaying(r) == reader' = [reader EXCEPT ![r] = Unread] /\ UNCHANGED inFlight

\* The refresh is over: finally deletes it from the map.
Done(r) ==
  /\ inFlight' = [inFlight EXCEPT ![ServerOf[r]] = NoReader]
  /\ reader' = [reader EXCEPT ![r] = Unread]

\* A transaction that wrote the document has not ended.
Locked == \E r \in Forced : reader[r].at \in {"telling", "open"}

\* Mutant: every refresh upserts.
MayWriteAlways(r) == TRUE

\* The filter of the update: without a snapshot an upsert, which also updates one that another
\* process has inserted meanwhile; otherwise only the snapshot that was read.
MayWrite(r) == /\ ~Locked
               /\ reader[r].existing \in {NoSnapshot, snapshot}

\* In a transaction a document that changed since it was read is a write conflict.
NoConflict(r) == r \in Forced => reader[r].existing = snapshot

\* existing.rawHash === rawHash
SameTimetable(r) ==
  /\ reader[r].existing # NoSnapshot
  /\ reader[r].existing.entries = reader[r].answer.entries

\* What the notifier is given.
ChangeOf(r) ==
  LET old == reader[r].existing
      new == reader[r].answer
  IN [of   |-> IF old = NoSnapshot THEN 0 ELSE old.fetchedAt,
      from |-> IF old = NoSnapshot THEN NoSnapshot ELSE old.entries,
      over |-> IF snapshot = NoSnapshot THEN NoSnapshot ELSE snapshot.entries,
      by   |-> new.fetchedAt, to |-> new.entries]

\* finally deletes the refresh from the map; the POST goes on to its commit.
DoneInTransaction(r) ==
  /\ inFlight' = [inFlight EXCEPT ![ServerOf[r]] = NoReader]
  /\ reader' = [reader EXCEPT ![r].at = "open"]

\* Only fetchedAt is written, and nobody is told.
Touch(r) ==
  /\ reader[r].at = "writing" /\ SameTimetable(r) /\ MayWrite(r) /\ NoConflict(r)
  /\ IF r \in Forced THEN DoneInTransaction(r) /\ UNCHANGED snapshot
                     ELSE Done(r) /\ snapshot' = reader[r].answer
  /\ UNCHANGED <<upstream, answers, told>>

Replace(r) ==
  /\ reader[r].at = "writing" /\ ~SameTimetable(r) /\ MayWrite(r) /\ NoConflict(r)
  /\ IF r \in Forced THEN UNCHANGED <<snapshot, told>>
                     ELSE snapshot' = reader[r].answer /\ told' = told \cup {ChangeOf(r)}
  /\ reader' = [reader EXCEPT ![r].at = "telling"]
  /\ UNCHANGED <<upstream, inFlight, answers>>

\* Another process was faster (no match, or a duplicate key on insert): its snapshot is returned.
Beaten(r) ==
  /\ reader[r].at = "writing"
  /\ r \notin Forced /\ reader[r].existing # snapshot
  /\ Done(r) /\ UNCHANGED <<upstream, snapshot, answers, told>>

\* The notifier has written its notifications, or failed and is logged.
Told(r) ==
  /\ reader[r].at = "telling"
  /\ IF r \in Forced THEN DoneInTransaction(r) ELSE Done(r)
  /\ UNCHANGED <<upstream, snapshot, answers, told>>

\* The request of the administrator commits the snapshot and, if there is a change, what it told,
CommitForced(r) ==
  /\ reader[r].at = "open"
  /\ snapshot' = reader[r].answer
  /\ told' = IF SameTimetable(r) THEN told ELSE told \cup {ChangeOf(r)}
  /\ reader' = [reader EXCEPT ![r] = Unread]
  /\ UNCHANGED <<upstream, inFlight, answers>>

\* ... or is rolled back, both of them, and may be run again.
AbortForced(r) ==
  /\ reader[r].at = "open"
  /\ reader' = [reader EXCEPT ![r] = Unread]
  /\ UNCHANGED <<upstream, snapshot, inFlight, answers, told>>

\* The API, the mapper or the write fails: the snapshot that was read is returned as stale.
RefreshFails(r) ==
  /\ reader[r].at \in {"asking", "writing"}
  /\ Done(r) /\ UNCHANGED <<upstream, snapshot, answers, told>>

\* The university changes the timetable, possibly back.
UniversityChanges ==
  /\ answers < MaxAnswers
  /\ upstream' \in Timetables \ {upstream}
  /\ UNCHANGED <<snapshot, inFlight, reader, answers, told>>

ScheduleNext ==
  \/ \E r \in Readers : \/ Look(r) \/ Share(r) \/ Begin(r) \/ Answer(r) \/ Touch(r) \/ Replace(r)
                        \/ Beaten(r) \/ Told(r) \/ CommitForced(r) \/ AbortForced(r)
                        \/ RefreshFails(r)
  \/ UniversityChanges

ScheduleSpec == ScheduleInit /\ [][ScheduleNext]_scheduleVars

----
(* Students hear of a change of the stored timetable once, and of the change that was made:   *)
(* no two comparisons start from the same stored snapshot, whatever requests and processes    *)
(* refresh at once, and each starts from the timetable it replaced.  First snapshots, which   *)
(* are compared with nothing, are the exception: two processes may each store one.            *)
ChangesToldOnce ==
  \A c, d \in told : c.of # 0 => /\ c.from = c.over /\ c.from # c.to
                                 /\ c.of = d.of => c = d
====
