---- MODULE Surveys ----
(***************************************************************************)
(* The life of one survey: SurveysService and SurveyAudienceService.       *)
(*                                                                         *)
(* POST, PATCH and DELETE run in a transaction: the handler reads a        *)
(* snapshot, and its writes are installed together when it commits, unless *)
(* a document they touch has been written by someone else since (MongoDB   *)
(* then makes one of the two start again).  Every GET first moves surveys  *)
(* along (refreshSurveyLifecycle: there is no scheduler), outside of any   *)
(* transaction: statement by statement, with the time at which it began.   *)
(*                                                                         *)
(* Abstracted: the questions are the number of the edit that inserted them *)
(* (0: there are none), as every edit deletes them all and inserts others; *)
(* an answer is the questions it was validated against, its user as stored *)
(* and, as history, its author.  Who is in the audience is left open; that *)
(* it is empty only refuses a publication.                                 *)
(***************************************************************************)
EXTENDS Integers, FiniteSets

CONSTANTS Students,    \* users who answer
          Requests,    \* transactions under way at one time
          Passes,      \* life-cycle passes of GET requests under way at one time
          EndOfTime,   \* bound: the clock stops
          ReminderLead,\* SURVEY_REMINDER_HOURS
          MaxEdits,    \* bound on the sets of questions
          None

ASSUME NoneAssumption == None \notin Students \cup Int
ASSUME BoundsAssumption == EndOfTime \in Nat /\ ReminderLead \in Nat /\ MaxEdits \in Nat

VARIABLES clock,
          survey,     \* the document
          questions,  \* the set of questions in the collection
          responses,    \* the responses
          completed,  \* the users with a completion
          txn,        \* the transactions under way
          pass,       \* the life-cycle passes under way
          edits,      \* history: sets of questions inserted
          sent,       \* history: notifications sent about the survey
          late        \* history: a draft's questions were replaced after its publication

surveyVars == <<clock, survey, questions, responses, completed, txn, pass, edits, sent, late>>

Moments == 0 .. EndOfTime

\* SurveyStatus, and what is left of a survey that does not exist (any more).
NoSurvey == [status |-> "absent", start |-> 0, end |-> 0, anonymous |-> FALSE,
             reminded |-> FALSE, reason |-> None]
Removed == [NoSurvey EXCEPT !.status = "removed"]

NoTxn == [phase |-> "idle"]
NoPass == [phase |-> "idle", now |-> 0]

----
(* refreshSurveyLifecycle on a survey document. *)

\* closeExpiredSurveys
Expired(s, now) == \/ s.status = "active" /\ s.end < now
                   \/ s.status = "scheduled" /\ s.end <= now
\* Mutant: a reason that is not in the schema, which updateMany does not validate.
CloseExpiredOtherwise(s, now) ==
  IF Expired(s, now) THEN [s EXCEPT !.status = "closed", !.reason = "expired"] ELSE s

CloseExpired(s, now) ==
  IF Expired(s, now) THEN [s EXCEPT !.status = "closed", !.reason = "deadline"] ELSE s

\* Mutant: the filter does not ask for the status, so that a survey that is open is opened again.
DueAnyStatus(s, now) == s.status \in {"scheduled", "active"} /\ s.start <= now /\ s.end > now

\* activateDueSurveys: the filter of its conditional update.
Due(s, now) == s.status = "scheduled" /\ s.start <= now /\ s.end > now
Activate(s, now) == IF Due(s, now) THEN [s EXCEPT !.status = "active"] ELSE s

\* remindDueSurveys: the filter of its conditional update.
RemindDue(s, now) ==
  s.status = "active" /\ ~ s.reminded /\ s.end > now /\ s.end <= now + ReminderLead

----
(* Transactions. *)

\* What a transaction that changes nothing will write.
NoWrites == [survey |-> None, questions |-> None, answer |-> None, clears |-> FALSE,
             announces |-> FALSE]

\* The handler has run on the snapshot and will commit the writes `w`.
Open(r, w) == txn' = [txn EXCEPT ![r] = [phase |-> "open", w |-> w]]

\* The documents that writes touch: two transactions that touch the same one do not both commit.
Touched(w) ==
  (IF w.survey = None THEN {} ELSE {"survey"})
  \cup (IF w.questions = None THEN {} ELSE {"questions"})
  \cup (IF w.answer = None THEN {} ELSE {w.answer.who})

\* The requests that are still under way when the documents `docs` have been written.
Unaffected(docs) ==
  [r \in Requests |-> IF txn[r].phase = "open" /\ Touched(txn[r].w) \cap docs # {}
                      THEN NoTxn ELSE txn[r]]

\* Mutant: no unique index on survey and user.
IndexAdmitsAll(u) == TRUE

\* The unique index on survey and user of SurveyCompletion.
IndexAdmits(u) == u \notin completed

CommitRequest(r) ==
  /\ txn[r].phase = "open"
  /\ LET w == txn[r].w IN
     /\ w.answer # None => IndexAdmits(w.answer.who)
     /\ survey' = IF w.survey = None THEN survey ELSE w.survey
     /\ questions' = IF w.questions = None THEN questions ELSE w.questions
     /\ responses' = (IF w.clears THEN {} ELSE responses)
                   \cup (IF w.answer = None THEN {} ELSE {w.answer})
     /\ completed' = (IF w.clears THEN {} ELSE completed)
                     \cup (IF w.answer = None THEN {} ELSE {w.answer.who})
     /\ sent' = IF w.announces THEN [sent EXCEPT !.new = @ + 1] ELSE sent
     /\ late' = (late \/ (w.questions # None /\ survey.status \notin {"absent", "draft"}))
     /\ txn' = [Unaffected(Touched(w)) EXCEPT ![r] = NoTxn]
  /\ UNCHANGED <<clock, pass, edits>>

\* A statement fails, the handler refuses, the process dies.
Abort(r) ==
  /\ txn[r].phase = "open"
  /\ txn' = [txn EXCEPT ![r] = NoTxn]
  /\ UNCHANGED <<clock, survey, questions, responses, completed, pass, edits, sent, late>>

----
(* The handlers. *)

Handles(r) ==
  /\ txn[r].phase = "idle"
  /\ UNCHANGED <<clock, survey, questions, responses, completed, pass, sent, late>>

\* create; CreateSurveyDto asks for a question at least.
Create(r) ==
  /\ Handles(r)
  /\ survey.status = "absent" /\ edits < MaxEdits
  /\ edits' = edits + 1
  /\ \E start \in Moments, end \in Moments, anonymous \in BOOLEAN :
       /\ start < end
       /\ Open(r, [NoWrites EXCEPT !.questions = edits + 1,
                     !.survey = [NoSurvey EXCEPT !.status = "draft", !.start = start, !.end = end,
                                                 !.anonymous = anonymous]])

\* Mutant: a published survey may be edited until it is closed.
EditableUntilClosed(s) == s.status \in {"draft", "scheduled", "active"}

\* ensureDraftSurvey
Editable(s) == s.status = "draft"

\* update: save() sends nothing when no field of the document changed, and the questions are
\* documents of their own.
Update(r) ==
  /\ Handles(r)
  /\ Editable(survey)
  /\ \E start \in Moments, end \in Moments, anonymous \in BOOLEAN, newQuestions \in BOOLEAN :
       LET s == [survey EXCEPT !.start = start, !.end = end, !.anonymous = anonymous] IN
       /\ start < end
       /\ newQuestions => edits < MaxEdits
       /\ edits' = IF newQuestions THEN edits + 1 ELSE edits
       /\ Open(r, [NoWrites EXCEPT !.survey = IF s = survey THEN None ELSE s,
                                   !.questions = IF newQuestions THEN edits + 1 ELSE None])

Publish(r) ==
  /\ Handles(r)
  /\ survey.status = "draft"
  /\ questions # 0
  /\ survey.end > clock
  /\ LET next == IF survey.start > clock THEN "scheduled" ELSE "active" IN
     Open(r, [NoWrites EXCEPT !.survey = [survey EXCEPT !.status = next, !.reason = None],
                              !.announces = next = "active"])
  /\ UNCHANGED edits

Unpublish(r) ==
  /\ Handles(r)
  /\ survey.status = "scheduled"
  /\ Open(r, [NoWrites EXCEPT !.survey = [survey EXCEPT !.status = "draft"]])
  /\ UNCHANGED edits

Close(r) ==
  /\ Handles(r)
  /\ survey.status = "active"
  /\ Open(r, [NoWrites EXCEPT !.survey = [survey EXCEPT !.status = "closed", !.reason = "manual"]])
  /\ UNCHANGED edits

\* remove, with the questions, the responses and the completions.
Remove(r) ==
  /\ Handles(r)
  /\ Editable(survey)
  /\ Open(r, [NoWrites EXCEPT !.survey = Removed, !.questions = 0, !.clears = TRUE])
  /\ UNCHANGED edits

\* respond, which moves the survey along first, in its own transaction.
Respond(r, u) ==
  /\ Handles(r)
  /\ LET closed == CloseExpired(survey, clock)
         s == Activate(closed, clock)
     IN /\ s.status = "active" /\ s.start <= clock /\ s.end >= clock
        /\ IndexAdmits(u)
        /\ Open(r, [NoWrites EXCEPT
                      !.survey = IF s = survey THEN None ELSE s,
                      !.announces = s # survey,
                      !.answer = [user |-> IF s.anonymous THEN None ELSE u, who |-> u,
                                  edit |-> questions]])
  /\ UNCHANGED edits

----
(* The life-cycle pass of a GET. *)

InPass(p, phase) ==
  /\ pass[p].phase = phase
  /\ UNCHANGED <<clock, questions, responses, completed, edits, late>>

GoOn(p, phase) == pass' = [pass EXCEPT ![p].phase = phase]
Rest(p) == pass' = [pass EXCEPT ![p] = NoPass]

\* A statement that changes the survey; transactions that are to write it start again.
WriteSurvey(s) ==
  /\ survey' = s
  /\ txn' = IF s = survey THEN txn ELSE Unaffected({"survey"})

PassBegins(p) ==
  /\ InPass(p, "idle")
  /\ pass' = [pass EXCEPT ![p] = [phase |-> "close", now |-> clock]]
  /\ UNCHANGED <<survey, txn, sent>>

PassCloses(p) ==
  /\ InPass(p, "close")
  /\ WriteSurvey(CloseExpired(survey, pass[p].now))
  /\ GoOn(p, "activate")
  /\ UNCHANGED sent

PassActivates(p) ==
  /\ InPass(p, "activate")
  /\ WriteSurvey(Activate(survey, pass[p].now))
  /\ GoOn(p, IF Due(survey, pass[p].now) THEN "announce" ELSE "remind")
  /\ UNCHANGED sent

\* notifyPublished; an error is logged, and the pass goes on.
PassAnnounces(p) ==
  /\ InPass(p, "announce")
  /\ sent' \in {[sent EXCEPT !.new = @ + 1], sent}
  /\ GoOn(p, "activate")
  /\ UNCHANGED <<survey, txn>>

\* Only findActiveForUser reminds; any other GET is done.
PassReminds(p) ==
  /\ InPass(p, "remind")
  /\ IF RemindDue(survey, pass[p].now)
     THEN WriteSurvey([survey EXCEPT !.reminded = TRUE]) /\ GoOn(p, "send")
     ELSE Rest(p) /\ UNCHANGED <<survey, txn>>
  /\ UNCHANGED sent

\* createMany for those who have not completed the survey; an error is logged.
PassSends(p) ==
  /\ InPass(p, "send")
  /\ sent' \in {[sent EXCEPT !.reminders = @ + 1], sent}
  /\ GoOn(p, "remind")
  /\ UNCHANGED <<survey, txn>>

\* A GET that does not remind, a failed statement, or the end of the process.
PassEnds(p) ==
  /\ pass[p].phase # "idle"
  /\ Rest(p)
  /\ UNCHANGED <<clock, survey, questions, responses, completed, txn, edits, sent, late>>

----

TimePasses ==
  /\ clock < EndOfTime
  /\ clock' = clock + 1
  /\ UNCHANGED <<survey, questions, responses, completed, txn, pass, edits, sent, late>>

SurveysInit ==
  /\ clock = 0
  /\ survey = NoSurvey
  /\ questions = 0
  /\ responses = {}
  /\ completed = {}
  /\ txn = [r \in Requests |-> NoTxn]
  /\ pass = [p \in Passes |-> NoPass]
  /\ edits = 0
  /\ sent = [new |-> 0, reminders |-> 0]
  /\ late = FALSE

SurveysNext ==
  \/ TimePasses
  \/ \E r \in Requests :
       \/ CommitRequest(r) \/ Abort(r)
       \/ Create(r) \/ Update(r) \/ Publish(r) \/ Unpublish(r) \/ Close(r) \/ Remove(r)
       \/ \E u \in Students : Respond(r, u)
  \/ \E p \in Passes :
       \/ PassBegins(p) \/ PassCloses(p) \/ PassActivates(p) \/ PassAnnounces(p)
       \/ PassReminds(p) \/ PassSends(p) \/ PassEnds(p)

SurveysSpec == SurveysInit /\ [][SurveysNext]_surveyVars

----
(* Properties. *)

SurveyType == [status : {"absent", "draft", "scheduled", "active", "closed", "removed"},
               start : Moments, end : Moments, anonymous : BOOLEAN, reminded : BOOLEAN,
               reason : {None, "manual", "deadline"}]
AnswerType == [user : Students \cup {None}, who : Students, edit : 1 .. MaxEdits]
WritesType == [survey : SurveyType \cup {None}, questions : (0 .. MaxEdits) \cup {None},
               answer : AnswerType \cup {None}, clears : BOOLEAN, announces : BOOLEAN]

ASSUME RecordsAssumption == None \notin SurveyType /\ None \notin AnswerType

\* The shape of the state; every answer, stored or about to be, was validated against questions.
SurveysTypeOK ==
  /\ clock \in Moments
  /\ survey \in SurveyType
  /\ questions \in 0 .. MaxEdits
  /\ responses \subseteq AnswerType
  /\ completed \subseteq Students
  /\ txn \in [Requests -> {NoTxn} \cup [phase : {"open"}, w : WritesType]]
  /\ pass \in [Passes -> [phase : {"idle", "close", "activate", "announce", "remind", "send"},
                          now : Moments]]
  /\ edits \in 0 .. MaxEdits
  /\ sent \in [new : Nat, reminders : Nat]
  /\ late \in BOOLEAN

\* Completions and responses match one to one; the answers to an anonymous survey carry no user
\* and all others do; a survey that is a draft, scheduled or removed has no answers, one that
\* exists has questions, and one that was removed has left none; and unless an edit of a draft
\* committed late, every answer is to the present questions.  Edits, publications, removals and
\* answers must not slip between each other's reads and writes.
ResponsesWhole ==
  /\ completed = {a.who : a \in responses}
  /\ \A a, b \in responses : a # b => a.who # b.who
  /\ \A a \in responses : a.user = IF survey.anonymous THEN None ELSE a.who
  /\ survey.status \notin {"active", "closed"} => responses = {}
  /\ questions = 0 <=> survey.status \in {"absent", "removed"}
  /\ ~ late => \A a \in responses : a.edit = questions

\* Once a survey has opened, its dates and its anonymity are settled and it can only be closed;
\* closed it stays.  One that waits for its start may still return to draft, and only a draft is
\* removed.  An edit that began before the publication must not be installed after it.
PublicationFrozen ==
  [][/\ survey.status \in {"active", "closed"} =>
          /\ survey'.start = survey.start /\ survey'.end = survey.end
          /\ survey'.anonymous = survey.anonymous
          /\ survey'.status \in {survey.status, "closed"}
     /\ survey.status = "closed" => survey'.reason = survey.reason
     /\ survey'.status = "removed" => survey.status \in {"draft", "removed"}]_survey

\* The audience hears of a survey at most once, and of one that never opened not at all; the
\* reminder is sent at most once too, however many requests move the survey along at once, and
\* whether a publication, an answer or a read opens it.
AnnouncedOnce ==
  /\ sent.new <= 1 /\ sent.reminders <= 1
  /\ sent.new > 0 => survey.status \in {"active", "closed"}
  /\ sent.reminders > 0 => survey.reminded
====
