---- MODULE ScheduleSnapshotProofs ----
(***************************************************************************)
(* Students hear of a change of the timetable once, for any number of      *)
(* requests, processes and answers of the university's API.                *)
(*                                                                         *)
(* fetchedAt does not grow from one stored snapshot to the next: two first *)
(* snapshots may be stored in either order.  What holds is that every      *)
(* answer is used once: an answer that a request still holds is not the    *)
(* stored one, nor another request's, nor one that a change was counted    *)
(* from (AnswersUsedOnce), and a stored snapshot that has been compared    *)
(* with never returns (ComparedOnce).  In a transaction the comparison and *)
(* the write are apart; OneForced says that nothing comes between them.    *)
(***************************************************************************)
EXTENDS ScheduleSnapshot, TLAPS

Places == [at : {"idle", "looked", "asking", "writing", "telling", "open"},
           existing : Snapshot \cup {NoSnapshot}, answer : Snapshot \cup {NoSnapshot}]

\* The refresh at the place x holds an answer that is not stored, or not visibly.
Holds(r, x) == x.at \in {"writing", "open"} \/ (r \in Forced /\ x.at = "telling")

\* A transaction at the place x has written the document.
HasWritten(r, x) == r \in Forced /\ x.at \in {"telling", "open"}

AnswersUsedOnce ==
  /\ snapshot # NoSnapshot => snapshot.fetchedAt <= answers
  /\ \A c \in told : c.of <= answers
  /\ \A r \in Readers : Holds(r, reader[r]) =>
       /\ reader[r].answer \in Snapshot /\ reader[r].answer.fetchedAt <= answers
       /\ snapshot # NoSnapshot => reader[r].answer.fetchedAt # snapshot.fetchedAt
       /\ \A c \in told : reader[r].answer.fetchedAt # c.of
       /\ \A q \in Readers \ {r} : Holds(q, reader[q]) =>
            reader[q].answer.fetchedAt # reader[r].answer.fetchedAt

ComparedOnce == snapshot # NoSnapshot => \A c \in told : c.of # snapshot.fetchedAt

OneForced ==
  /\ \A r \in Readers : reader[r].at = "open" => r \in Forced
  /\ \A r \in Readers : HasWritten(r, reader[r]) =>
       /\ reader[r].existing = snapshot
       /\ \A q \in Readers \ {r} : ~HasWritten(q, reader[q])

ScheduleIInv == /\ ScheduleTypeOK /\ AnswersUsedOnce /\ ComparedOnce /\ OneForced /\ ChangesToldOnce

----
(* The map of refreshes. *)

Refreshing(x) == x.at \in {"asking", "writing", "telling"}

MapOK == /\ inFlight \in [Servers -> Readers \cup {NoReader}]
         /\ \A r \in Readers : Refreshing(reader[r]) <=> inFlight[ServerOf[r]] = r

LEMMA TypeParts ==
  ScheduleTypeOK <=> /\ upstream \in Timetables /\ snapshot \in Snapshot \cup {NoSnapshot}
                     /\ answers \in 0..MaxAnswers /\ told \subseteq Change
                     /\ reader \in [Readers -> Places] /\ MapOK
BY DEF ScheduleTypeOK, Places, MapOK, Refreshing

\* A request that neither begins nor ends a refresh leaves the map alone.
LEMMA MapKept ==
  ASSUME MapOK, reader \in [Readers -> Places], NEW r \in Readers, NEW x,
         reader' = [reader EXCEPT ![r] = x], UNCHANGED inFlight,
         Refreshing(x) <=> Refreshing(reader[r])
  PROVE  MapOK'
BY DEF MapOK

\* A refresh that ends leaves the map.
LEMMA MapDone ==
  ASSUME MapOK, reader \in [Readers -> Places], NEW r \in Readers, NEW x,
         reader' = [reader EXCEPT ![r] = x], ~Refreshing(x), Refreshing(reader[r]),
         inFlight' = [inFlight EXCEPT ![ServerOf[r]] = NoReader]
  PROVE  MapOK'
<1>1. ServerOf[r] \in Servers /\ inFlight[ServerOf[r]] = r /\ \A q \in Readers : ServerOf[q] \in Servers
  BY ServersAssumption DEF MapOK
<1>2. ASSUME NEW q \in Readers
      PROVE  Refreshing(reader'[q]) <=> inFlight'[ServerOf[q]] = q
  <2>1. CASE q = r
    BY <1>1, <2>1, AbsentAssumption DEF MapOK
  <2>2. CASE q # r
    BY <1>1, <2>2, AbsentAssumption DEF MapOK
  <2> QED
    BY <2>1, <2>2
<1> QED
  BY <1>1, <1>2 DEF MapOK

----
(* A request moves and nothing is stored. *)

LEMMA ReaderMoves ==
  ASSUME ScheduleIInv, NEW r \in Readers, NEW x \in Places, reader' = [reader EXCEPT ![r] = x],
         MapOK', UNCHANGED <<upstream, snapshot, answers, told>>, x.at = "open" => r \in Forced,
         Holds(r, x) => Holds(r, reader[r]) /\ x.answer = reader[r].answer,
         HasWritten(r, x) => /\ HasWritten(r, reader[r]) \/ ~Locked
                             /\ x.existing = snapshot
  PROVE  ScheduleIInv'
<1>1. /\ reader \in [Readers -> Places] /\ reader' \in [Readers -> Places] /\ reader'[r] = x
      /\ \A q \in Readers \ {r} : reader'[q] = reader[q]
  BY TypeParts DEF ScheduleIInv
<1>2. \A q \in Readers : Holds(q, reader'[q]) =>
        Holds(q, reader[q]) /\ reader'[q].answer = reader[q].answer
  BY <1>1
<1>3. ScheduleTypeOK'
  BY <1>1, TypeParts DEF ScheduleIInv, ScheduleTypeOK, Places, MapOK, Refreshing
<1>4. AnswersUsedOnce'
  BY <1>2 DEF ScheduleIInv, AnswersUsedOnce
<1>5. ComparedOnce' /\ ChangesToldOnce'
  BY DEF ScheduleIInv, ComparedOnce, ChangesToldOnce
<1>6. ~Locked => \A q \in Readers : ~HasWritten(q, reader[q])
  BY ForcedAssumption DEF Locked, HasWritten
<1>7. OneForced'
  BY <1>1, <1>6 DEF ScheduleIInv, OneForced
<1> QED
  BY <1>3, <1>4, <1>5, <1>7 DEF ScheduleIInv

\* What is read off a request at any place.
LEMMA PlaceTyped ==
  ASSUME ScheduleIInv, NEW r \in Readers
  PROVE  /\ reader[r] \in Places /\ reader \in [Readers -> Places] /\ MapOK
         /\ NoSnapshot \notin Snapshot /\ snapshot \in Snapshot \cup {NoSnapshot}
         /\ Unread \in Places /\ Unread.at = "idle"
BY TypeParts, AbsentAssumption DEF ScheduleIInv, Places, Unread, Snapshot

\* The refresh is over.
LEMMA DoneStep ==
  ASSUME ScheduleIInv, NEW r \in Readers, Refreshing(reader[r]), Done(r),
         UNCHANGED <<upstream, snapshot, answers, told>>
  PROVE  ScheduleIInv'
<1> PICK x : x = Unread
  OBVIOUS
<1>1. x \in Places /\ x.at = "idle" /\ MapOK /\ reader \in [Readers -> Places]
  BY PlaceTyped
<1>2. MapOK'
  BY <1>1, MapDone DEF Done, Refreshing
<1> QED
  BY <1>1, <1>2, ReaderMoves DEF Done, Holds, HasWritten

\* The refresh is over, and its transaction goes on.
LEMMA DoneInTransactionStep ==
  ASSUME ScheduleIInv, NEW r \in Forced, Refreshing(reader[r]), DoneInTransaction(r),
         reader[r].at \in {"writing", "telling"},
         reader[r].at = "writing" => ~Locked /\ reader[r].existing = snapshot,
         UNCHANGED <<upstream, snapshot, answers, told>>
  PROVE  ScheduleIInv'
<1> PICK x : x = [reader[r] EXCEPT !.at = "open"]
  OBVIOUS
<1>1. r \in Readers
  BY ForcedAssumption
<1>2. reader[r] \in Places /\ MapOK /\ reader \in [Readers -> Places]
  BY <1>1, PlaceTyped
<1>3. /\ x \in Places /\ x.at = "open" /\ reader' = [reader EXCEPT ![r] = x]
      /\ x.answer = reader[r].answer /\ x.existing = reader[r].existing
  BY <1>1, <1>2 DEF Places, DoneInTransaction
<1>4. MapOK'
  BY <1>1, <1>2, <1>3, MapDone DEF DoneInTransaction, Refreshing
<1>5. HasWritten(r, reader[r]) => reader[r].existing = snapshot
  BY <1>1 DEF ScheduleIInv, OneForced
<1> QED
  BY <1>1, <1>3, <1>4, <1>5, ReaderMoves DEF Holds, HasWritten

LEMMA LookStep ==
  ASSUME ScheduleIInv, NEW r \in Readers, Look(r)
  PROVE  ScheduleIInv'
<1> PICK x : x = [Unread EXCEPT !.at = "looked", !.existing = snapshot]
  OBVIOUS
<1>1. x \in Places /\ x.at = "looked"
  BY PlaceTyped DEF Unread, Places
<1>2. MapOK'
  BY <1>1, MapKept, PlaceTyped DEF Look, Refreshing
<1> QED
  BY <1>1, <1>2, ReaderMoves DEF Look, Holds, HasWritten

LEMMA ShareStep ==
  ASSUME ScheduleIInv, NEW r \in Readers, Share(r)
  PROVE  ScheduleIInv'
<1> PICK x : x = Unread
  OBVIOUS
<1>1. x \in Places /\ x.at = "idle"
  BY PlaceTyped
<1>2. MapOK'
  BY <1>1, MapKept, PlaceTyped DEF Share, Refreshing
<1> QED
  BY <1>1, <1>2, ReaderMoves DEF Share, Holds, HasWritten

LEMMA BeginStep ==
  ASSUME ScheduleIInv, NEW r \in Readers, Begin(r)
  PROVE  ScheduleIInv'
<1> PICK x : x = [reader[r] EXCEPT !.at = "asking"]
  OBVIOUS
<1>1. x \in Places /\ x.at = "asking" /\ reader' = [reader EXCEPT ![r] = x]
  BY PlaceTyped DEF Places, Begin
<1>2. /\ reader \in [Readers -> Places] /\ MapOK /\ ServerOf[r] \in Servers
      /\ inFlight[ServerOf[r]] = NoReader
  BY PlaceTyped, ServersAssumption DEF Begin
<1>3. ASSUME NEW q \in Readers
      PROVE  Refreshing(reader'[q]) <=> inFlight'[ServerOf[q]] = q
  <2>1. CASE q = r
    BY <1>1, <1>2, <2>1 DEF Begin, MapOK, Refreshing
  <2>2. CASE q # r
    BY <1>1, <1>2, <2>2, ServersAssumption, AbsentAssumption DEF Begin, MapOK
  <2> QED
    BY <2>1, <2>2
<1>4. MapOK'
  BY <1>2, <1>3 DEF Begin, MapOK
<1> QED
  BY <1>1, <1>4, ReaderMoves DEF Begin, Holds, HasWritten

LEMMA AbortForcedStep ==
  ASSUME ScheduleIInv, NEW r \in Readers, AbortForced(r)
  PROVE  ScheduleIInv'
<1> PICK x : x = Unread
  OBVIOUS
<1>1. x \in Places /\ x.at = "idle"
  BY PlaceTyped
<1>2. MapOK'
  BY <1>1, MapKept, PlaceTyped DEF AbortForced, Refreshing
<1> QED
  BY <1>1, <1>2, ReaderMoves DEF AbortForced, Holds, HasWritten

\* No match, or an error: the snapshot that was read is returned.
LEMMA GivenUpStep ==
  ASSUME ScheduleIInv, NEW r \in Readers, Beaten(r) \/ RefreshFails(r)
  PROVE  ScheduleIInv'
BY DoneStep DEF Beaten, RefreshFails, Refreshing

LEMMA ToldStep ==
  ASSUME ScheduleIInv, NEW r \in Readers, Told(r)
  PROVE  ScheduleIInv'
BY DoneStep, DoneInTransactionStep DEF Told, Refreshing

----
(* An answer arrives. *)

LEMMA AnswerStep ==
  ASSUME ScheduleIInv, NEW r \in Readers, Answer(r)
  PROVE  ScheduleIInv'
<1> PICK x : x = [reader[r] EXCEPT !.at = "writing",
                                   !.answer = [entries |-> upstream, fetchedAt |-> answers + 1]]
  OBVIOUS
<1>1. /\ reader[r] \in Places /\ reader \in [Readers -> Places] /\ MapOK
      /\ answers \in Nat /\ answers + 1 \in 1..MaxAnswers /\ upstream \in Timetables
  BY PlaceTyped, TypeParts, AnswersAssumption DEF ScheduleIInv, Answer
<1>2. /\ x \in Places /\ x.at = "writing" /\ x.answer \in Snapshot
      /\ x.answer.fetchedAt = answers + 1 /\ x.existing = reader[r].existing
  BY <1>1 DEF Places, Snapshot
<1>3. /\ reader' = [reader EXCEPT ![r] = x] /\ answers' = answers + 1
      /\ UNCHANGED <<upstream, snapshot, inFlight, told>>
  BY <1>1 DEF Answer
<1>4. reader'[r] = x /\ reader' \in [Readers -> Places] /\ \A q \in Readers \ {r} : reader'[q] = reader[q]
  BY <1>1, <1>2, <1>3
<1>5. MapOK'
  BY <1>1, <1>2, <1>3, MapKept DEF Answer, Refreshing
<1>6. ScheduleTypeOK'
  BY <1>1, <1>3, <1>4, <1>5, TypeParts DEF ScheduleIInv, ScheduleTypeOK, Places, MapOK, Refreshing
<1>7. AnswersUsedOnce'
  <2>1. snapshot # NoSnapshot => snapshot.fetchedAt \in Nat /\ snapshot.fetchedAt <= answers
    BY PlaceTyped DEF ScheduleIInv, AnswersUsedOnce, Snapshot
  <2>2. \A c \in told : c.of \in Nat /\ c.of <= answers
    BY TypeParts DEF ScheduleIInv, AnswersUsedOnce, Change
  <2>3. \A q \in Readers \ {r} : Holds(q, reader[q]) =>
          reader[q].answer.fetchedAt \in Nat /\ reader[q].answer.fetchedAt <= answers
    BY DEF ScheduleIInv, AnswersUsedOnce, Snapshot
  <2>4. snapshot' # NoSnapshot => snapshot'.fetchedAt <= answers'
    BY <1>1, <1>3, <2>1
  <2>5. \A c \in told' : c.of <= answers'
    BY <1>1, <1>3, <2>2
  <2>6. ASSUME NEW q \in Readers, Holds(q, reader'[q])
        PROVE  /\ reader'[q].answer \in Snapshot /\ reader'[q].answer.fetchedAt <= answers'
               /\ snapshot' # NoSnapshot => reader'[q].answer.fetchedAt # snapshot'.fetchedAt
               /\ \A c \in told' : reader'[q].answer.fetchedAt # c.of
               /\ \A p \in Readers \ {q} : Holds(p, reader'[p]) =>
                    reader'[p].answer.fetchedAt # reader'[q].answer.fetchedAt
    <3>1. CASE q = r
      BY <1>1, <1>2, <1>3, <1>4, <2>1, <2>2, <2>3, <3>1
    <3>2. CASE q # r
      <4>1. reader'[q] = reader[q] /\ Holds(q, reader[q])
        BY <1>4, <2>6, <3>2
      <4>2. reader[q].answer.fetchedAt < answers + 1 /\ reader[q].answer.fetchedAt <= answers'
        BY <1>1, <1>3, <2>3, <3>2, <4>1
      <4>3. \A p \in Readers \ {q} : Holds(p, reader'[p]) =>
              reader'[p].answer.fetchedAt # reader'[q].answer.fetchedAt
        <5>1. reader'[r].answer.fetchedAt # reader[q].answer.fetchedAt
          BY <1>1, <1>2, <1>4, <2>3, <3>2, <4>1, <4>2
        <5>2. \A p \in Readers \ {q, r} : Holds(p, reader[p]) =>
                reader[p].answer.fetchedAt # reader[q].answer.fetchedAt
          BY <4>1 DEF ScheduleIInv, AnswersUsedOnce
        <5> QED
          BY <1>4, <3>2, <4>1, <5>1, <5>2
      <4> QED
        BY <1>3, <4>1, <4>2, <4>3 DEF ScheduleIInv, AnswersUsedOnce
    <3> QED
      BY <3>1, <3>2
  <2> QED
    BY <2>4, <2>5, <2>6 DEF AnswersUsedOnce
<1>8. ComparedOnce' /\ ChangesToldOnce'
  BY <1>3 DEF ScheduleIInv, ComparedOnce, ChangesToldOnce
<1>9. OneForced'
  BY <1>2, <1>3, <1>4 DEF ScheduleIInv, OneForced, HasWritten
<1> QED
  BY <1>6, <1>7, <1>8, <1>9 DEF ScheduleIInv

----
(* An answer is stored, and a change of the timetable is told. *)

\* The change is counted from the stored snapshot, or from none.
LEMMA ChangeCounted ==
  ASSUME ScheduleIInv, NEW r \in Readers, Holds(r, reader[r]), ~SameTimetable(r),
         reader[r].existing \in {NoSnapshot, snapshot}
  PROVE  LET c == ChangeOf(r) IN
         /\ c \in Change /\ c.of <= answers /\ c.of # reader[r].answer.fetchedAt
         /\ c.of # 0 => /\ snapshot # NoSnapshot /\ c.of = snapshot.fetchedAt
                        /\ c.from = c.over /\ c.from # c.to
<1> PICK c : c = ChangeOf(r)
  OBVIOUS
<1> SUFFICES /\ c \in Change /\ c.of <= answers /\ c.of # reader[r].answer.fetchedAt
             /\ c.of # 0 => /\ snapshot # NoSnapshot /\ c.of = snapshot.fetchedAt
                            /\ c.from = c.over /\ c.from # c.to
  OBVIOUS
<1>1. /\ reader[r].answer \in Snapshot /\ snapshot \in Snapshot \cup {NoSnapshot}
      /\ reader[r].existing \in Snapshot \cup {NoSnapshot}
      /\ answers \in Nat
  BY TypeParts, AnswersAssumption DEF ScheduleIInv, AnswersUsedOnce, Places
<1>2. CASE reader[r].existing = NoSnapshot
  <2>1. c.of = 0
    BY <1>2 DEF ChangeOf
  <2>2. c \in Change
    BY <1>1, <1>2, AnswersAssumption DEF ChangeOf, Change, Snapshot
  <2> QED
    BY <1>1, <2>1, <2>2 DEF Snapshot
<1>3. CASE reader[r].existing # NoSnapshot
  <2>1. reader[r].existing = snapshot /\ snapshot \in Snapshot
    BY <1>1, <1>3
  <2>2. /\ c.of = snapshot.fetchedAt /\ c.from = snapshot.entries /\ c.over = snapshot.entries
        /\ c.to = reader[r].answer.entries
    BY <1>3, <2>1 DEF ChangeOf
  <2>3. c \in Change
    BY <1>1, <1>3, <2>1, AnswersAssumption DEF ChangeOf, Change, Snapshot
  <2>4. snapshot.entries # reader[r].answer.entries
    BY <1>3, <2>1 DEF SameTimetable
  <2> QED
    BY <1>3, <2>1, <2>2, <2>3, <2>4 DEF ScheduleIInv, AnswersUsedOnce
<1> QED
  BY <1>2, <1>3

LEMMA Stores ==
  ASSUME ScheduleIInv, NEW r \in Readers, NEW x \in Places, reader' = [reader EXCEPT ![r] = x],
         MapOK', UNCHANGED <<upstream, answers>>, snapshot' = reader[r].answer,
         Holds(r, reader[r]), ~Holds(r, x), ~HasWritten(r, x),
         \A q \in Readers \ {r} : ~HasWritten(q, reader[q]),
         \/ told' = told
         \/ /\ told' = told \cup {ChangeOf(r)} /\ ~SameTimetable(r)
            /\ reader[r].existing \in {NoSnapshot, snapshot}
  PROVE  ScheduleIInv'
<1>1. /\ reader \in [Readers -> Places] /\ reader' \in [Readers -> Places] /\ reader'[r] = x
      /\ \A q \in Readers \ {r} : reader'[q] = reader[q]
  BY TypeParts DEF ScheduleIInv
<1>2. PICK n : n = reader[r].answer
  OBVIOUS
<1>3. /\ n \in Snapshot /\ n # NoSnapshot /\ snapshot' = n /\ n.fetchedAt <= answers
      /\ n.fetchedAt # 0
  BY <1>2, PlaceTyped DEF ScheduleIInv, AnswersUsedOnce, Snapshot
<1>4. /\ told' \subseteq Change
      /\ \A c \in told' : c.of <= answers /\ c.of # n.fetchedAt
      /\ \A c \in told' \ told : c.of # 0 =>
           /\ snapshot # NoSnapshot /\ c.of = snapshot.fetchedAt
           /\ c.from = c.over /\ c.from # c.to
      /\ \A c, d \in told' \ told : c = d
  <2>1. told \subseteq Change /\ \A c \in told : c.of <= answers /\ c.of # n.fetchedAt
    BY <1>2, TypeParts DEF ScheduleIInv, AnswersUsedOnce
  <2>2. CASE told' = told
    BY <2>1, <2>2
  <2>3. CASE told' # told
    <3>1. PICK e : e = ChangeOf(r)
      OBVIOUS
    <3>2. /\ e \in Change /\ e.of <= answers /\ e.of # n.fetchedAt
          /\ e.of # 0 => /\ snapshot # NoSnapshot /\ e.of = snapshot.fetchedAt
                         /\ e.from = e.over /\ e.from # e.to
      BY <1>2, <2>3, <3>1, ChangeCounted
    <3> QED
      BY <2>1, <2>3, <3>1, <3>2
  <2> QED
    BY <2>2, <2>3
<1>5. ScheduleTypeOK'
  BY <1>1, <1>3, <1>4, TypeParts DEF ScheduleIInv, ScheduleTypeOK, Places, MapOK, Refreshing
<1>6. AnswersUsedOnce'
  <2> SUFFICES ASSUME NEW q \in Readers, Holds(q, reader'[q])
               PROVE  /\ reader'[q].answer \in Snapshot /\ reader'[q].answer.fetchedAt <= answers
                      /\ reader'[q].answer.fetchedAt # n.fetchedAt
                      /\ \A c \in told' : reader'[q].answer.fetchedAt # c.of
                      /\ \A p \in Readers \ {q} : Holds(p, reader'[p]) =>
                           reader'[p].answer.fetchedAt # reader'[q].answer.fetchedAt
    BY <1>3, <1>4 DEF AnswersUsedOnce
  <2>1. q # r /\ Holds(q, reader[q]) /\ reader'[q] = reader[q]
    BY <1>1
  <2>2. /\ reader[q].answer \in Snapshot /\ reader[q].answer.fetchedAt <= answers
        /\ reader[q].answer.fetchedAt # n.fetchedAt
        /\ \A c \in told : reader[q].answer.fetchedAt # c.of
        /\ snapshot # NoSnapshot => reader[q].answer.fetchedAt # snapshot.fetchedAt
    BY <1>2, <2>1 DEF ScheduleIInv, AnswersUsedOnce
  <2>3. reader[q].answer.fetchedAt # 0
    BY <2>2 DEF Snapshot
  <2>4. \A p \in Readers \ {q} : Holds(p, reader'[p]) =>
          reader'[p].answer.fetchedAt # reader'[q].answer.fetchedAt
    BY <1>1, <2>1 DEF ScheduleIInv, AnswersUsedOnce
  <2> QED
    BY <1>4, <2>1, <2>2, <2>3, <2>4
<1>7. ComparedOnce'
  BY <1>3, <1>4 DEF ComparedOnce
<1>8. OneForced'
  BY <1>1 DEF ScheduleIInv, OneForced, Holds
<1>9. ChangesToldOnce'
  <2> SUFFICES ASSUME NEW c \in told', NEW d \in told', c.of # 0
               PROVE  c.from = c.over /\ c.from # c.to /\ (c.of = d.of => c = d)
    BY DEF ChangesToldOnce
  <2>1. CASE c \in told /\ d \in told
    BY <2>1 DEF ScheduleIInv, ChangesToldOnce
  <2>2. CASE c \in told /\ d \notin told
    BY <1>4, <2>2 DEF ScheduleIInv, ChangesToldOnce, ComparedOnce
  <2>3. CASE c \notin told /\ d \in told
    BY <1>4, <2>3 DEF ScheduleIInv, ComparedOnce
  <2>4. CASE c \notin told /\ d \notin told
    BY <1>4, <2>4
  <2> QED
    BY <2>1, <2>2, <2>3, <2>4
<1> QED
  BY <1>5, <1>6, <1>7, <1>8, <1>9 DEF ScheduleIInv

\* While nobody holds the lock, no transaction has written.
LEMMA NoneHasWritten ==
  ASSUME ~Locked, NEW q \in Readers
  PROVE  ~HasWritten(q, reader[q])
BY DEF Locked, HasWritten

LEMMA TouchStep ==
  ASSUME ScheduleIInv, NEW r \in Readers, Touch(r)
  PROVE  ScheduleIInv'
<1>1. CASE r \in Forced
  BY <1>1, DoneInTransactionStep DEF Touch, MayWrite, NoConflict, Refreshing
<1>2. CASE r \notin Forced
  <2> PICK x : x = Unread
    OBVIOUS
  <2>1. x \in Places /\ x.at = "idle" /\ MapOK /\ reader \in [Readers -> Places]
    BY PlaceTyped
  <2>2. MapOK'
    BY <1>2, <2>1, MapDone DEF Touch, Done, Refreshing
  <2> QED
    BY <1>2, <2>1, <2>2, NoneHasWritten, Stores DEF Touch, Done, MayWrite, Holds, HasWritten
<1> QED
  BY <1>1, <1>2

LEMMA ReplaceStep ==
  ASSUME ScheduleIInv, NEW r \in Readers, Replace(r)
  PROVE  ScheduleIInv'
<1> PICK x : x = [reader[r] EXCEPT !.at = "telling"]
  OBVIOUS
<1>1. /\ x \in Places /\ x.at = "telling" /\ reader' = [reader EXCEPT ![r] = x]
      /\ x.answer = reader[r].answer /\ x.existing = reader[r].existing
  BY PlaceTyped DEF Places, Replace
<1>2. MapOK'
  BY <1>1, MapKept, PlaceTyped DEF Replace, Refreshing
<1>3. CASE r \in Forced
  BY <1>1, <1>2, <1>3, ReaderMoves DEF Replace, MayWrite, NoConflict, Holds, HasWritten
<1>4. CASE r \notin Forced
  BY <1>1, <1>2, <1>4, NoneHasWritten, Stores DEF Replace, MayWrite, Holds, HasWritten
<1> QED
  BY <1>3, <1>4

LEMMA CommitForcedStep ==
  ASSUME ScheduleIInv, NEW r \in Readers, CommitForced(r)
  PROVE  ScheduleIInv'
<1>1. CASE r \in Forced
  <2> PICK x : x = Unread
    OBVIOUS
  <2>1. x \in Places /\ x.at = "idle"
    BY PlaceTyped
  <2>2. MapOK'
    BY <2>1, MapKept, PlaceTyped DEF CommitForced, Refreshing
  <2>3. /\ reader[r].existing = snapshot
        /\ \A q \in Readers \ {r} : ~HasWritten(q, reader[q])
    BY <1>1 DEF ScheduleIInv, OneForced, HasWritten, CommitForced
  <2> QED
    BY <2>1, <2>2, <2>3, Stores DEF CommitForced, Holds, HasWritten
<1>2. r \in Forced
  BY DEF ScheduleIInv, OneForced, CommitForced
<1> QED
  BY <1>1, <1>2

----
(* The theorems. *)

\* The invariant is inductive, for requests of any number of processes and forced refreshes in
\* their transactions.
THEOREM ScheduleInductive == ScheduleSpec => []ScheduleIInv
<1>1. ScheduleInit => ScheduleIInv
  <2> SUFFICES ASSUME ScheduleInit PROVE ScheduleIInv
    OBVIOUS
  <2> USE DEF ScheduleInit
  <2>1. /\ Unread \in Places /\ Unread.at = "idle"
        /\ \A r \in Readers : reader[r] = Unread
    BY DEF Places, Unread
  <2>2. MapOK
    BY <2>1, AbsentAssumption, ServersAssumption DEF MapOK, Refreshing
  <2>3. ScheduleTypeOK
    BY <2>1, <2>2, AnswersAssumption, TypeParts
  <2> QED
    BY <2>1, <2>3 DEF ScheduleIInv, AnswersUsedOnce, ComparedOnce, OneForced, ChangesToldOnce, Holds, HasWritten
<1>2. ScheduleIInv /\ [ScheduleNext]_scheduleVars => ScheduleIInv'
  <2> SUFFICES ASSUME ScheduleIInv, [ScheduleNext]_scheduleVars PROVE ScheduleIInv'
    OBVIOUS
  <2>1. ASSUME NEW r \in Readers, Look(r) \/ Share(r) \/ Begin(r) \/ Answer(r)
        PROVE  ScheduleIInv'
    BY <2>1, LookStep, ShareStep, BeginStep, AnswerStep
  <2>2. ASSUME NEW r \in Readers, Touch(r) \/ Replace(r) \/ Beaten(r) \/ RefreshFails(r)
        PROVE  ScheduleIInv'
    BY <2>2, TouchStep, ReplaceStep, GivenUpStep
  <2>3. ASSUME NEW r \in Readers, Told(r) \/ CommitForced(r) \/ AbortForced(r)
        PROVE  ScheduleIInv'
    BY <2>3, ToldStep, CommitForcedStep, AbortForcedStep
  <2>4. CASE UniversityChanges \/ UNCHANGED scheduleVars
    <3>1. upstream' \in Timetables /\ UNCHANGED <<snapshot, inFlight, reader, answers, told>>
      BY <2>4 DEF ScheduleIInv, ScheduleTypeOK, UniversityChanges, scheduleVars
    <3>2. ScheduleTypeOK'
      BY <3>1 DEF ScheduleIInv, ScheduleTypeOK
    <3> QED
      BY <3>1, <3>2 DEF ScheduleIInv, AnswersUsedOnce, ComparedOnce, OneForced, ChangesToldOnce
  <2> QED
    BY <2>1, <2>2, <2>3, <2>4 DEF ScheduleNext
<1> QED
  BY <1>1, <1>2, PTL DEF ScheduleSpec

\* The map of a process holds exactly the refresh that is under way in it, and snapshots, requests
\* and changes are well formed.
THEOREM ScheduleTypeCorrect == ScheduleSpec => []ScheduleTypeOK
<1>1. ScheduleIInv => ScheduleTypeOK
  BY DEF ScheduleIInv
<1> QED
  BY <1>1, ScheduleInductive, PTL

\* No two comparisons start from the same stored timetable, and each starts from the one it
\* replaced: the condition on fetchedAt in the update is enough, although fetchedAt may go back
\* (refresh and write of ScheduleSnapshotService, and what they hand to the refresh listener).
THEOREM ChangesAreToldOnce == ScheduleSpec => []ChangesToldOnce
<1>1. ScheduleIInv => ChangesToldOnce
  BY DEF ScheduleIInv
<1> QED
  BY <1>1, ScheduleInductive, PTL
====
