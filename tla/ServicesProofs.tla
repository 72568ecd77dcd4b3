---- MODULE ServicesProofs ----
(***************************************************************************)
(* Four services that share nothing but the way they are proved: what a    *)
(* request, a transaction or a call under way holds must already respect   *)
(* the property, as if it were installed now.  At the end they are put     *)
(* beside the files and the timetable, as the platform's run explores      *)
(* them.                                                                   *)
(***************************************************************************)
EXTENDS MCPlatform, FileStoreProofs, ScheduleSnapshotProofs, FiniteSetTheorems, WellFoundedInduction

(* Academic terms.  An open activation writes every term that is current at any time until it  *)
(* ends: a term becomes current only by a commit that writes the same index entry.             *)

Writing(m) == writes[m] # NoWrite
Activates(m, t) == t \in DOMAIN writes[m] /\ writes[m][t] = "current"

OneCurrent == \A s, t \in CurrentTerms : s = t

\* No activation: the terms written are not, and have not been, current.
WritesPlain(m) ==
  \A t \in DOMAIN writes[m] : writes[m][t] \in {"planned", "absent"} /\ term[t] \in {"planned", "absent"}

\* An activation: one term becomes current, and whatever is current is written too.
WritesActivation(m) ==
  \E t \in Terms : /\ Activates(m, t) /\ CurrentTerms \subseteq DOMAIN writes[m]
                   /\ \A s \in DOMAIN writes[m] \ {t} : writes[m][s] = "closed"

WritesFit == \A m \in Managers : Writing(m) => WritesPlain(m) \/ WritesActivation(m)

TermsIInv == TermsTypeOK /\ DOMAIN writes = Managers /\ OneCurrent /\ WritesFit

LEMMA WritesTyped ==
  ASSUME TermsTypeOK, NEW m \in Managers, Writing(m)
  PROVE  /\ DOMAIN writes[m] \subseteq Terms /\ DOMAIN writes[m] # {}
         /\ \A t \in DOMAIN writes[m] : writes[m][t] \in Status
BY DEF TermsTypeOK, Writing

\* A handler has run.
LEMMA TermsOpen ==
  ASSUME TermsIInv, NEW m \in Managers, NEW t \in Terms,
         CreateTerm(m, t) \/ UpdateTerm(m, t) \/ ActivateTerm(m, t) \/ RemoveTerm(m, t)
  PROVE  TermsIInv' /\ UNCHANGED term
<1> USE DEF Writing
<1>1. PICK w : /\ OpenTerms(m, w) /\ DOMAIN w \subseteq Terms /\ w \in [DOMAIN w -> Status] /\ t \in DOMAIN w
               /\ \/ /\ \A s \in DOMAIN w : w[s] \in {"planned", "absent"} /\ term[s] \in {"planned", "absent"}
                  \/ /\ w[t] = "current" /\ CurrentTerms \subseteq DOMAIN w
                     /\ \A s \in DOMAIN w \ {t} : w[s] = "closed"
  <2>1. CASE ActivateTerm(m, t)
    <3> PICK w : w = [x \in CurrentTerms \cup {t} |-> IF x = t THEN "current" ELSE "closed"]
      OBVIOUS
    <3>1. OpenTerms(m, w) /\ DOMAIN w = CurrentTerms \cup {t} /\ CurrentTerms \subseteq Terms
      BY <2>1 DEF ActivateTerm, CurrentTerms
    <3>2. w \in [DOMAIN w -> Status] /\ w[t] = "current" /\ \A s \in DOMAIN w \ {t} : w[s] = "closed"
      BY DEF Status
    <3> QED
      BY <3>1, <3>2
  <2>2. CASE ~ActivateTerm(m, t)
    <3>1. PICK status \in {"planned", "absent"} : /\ OpenTerms(m, Write(t, status))
                                                  /\ term[t] \in {"planned", "absent"}
      BY <2>2 DEF CreateTerm, UpdateTerm, RemoveTerm
    <3> PICK w : w = Write(t, status)
      OBVIOUS
    <3>2. DOMAIN w = {t} /\ w[t] = status /\ w \in [DOMAIN w -> Status]
      BY DEF Write, Status
    <3> QED
      BY <3>1, <3>2
  <2> QED
    BY <2>1, <2>2
<1>2. term' = term /\ CurrentTerms' = CurrentTerms /\ DOMAIN writes' = Managers /\ writes'[m] = w
      /\ \A n \in Managers \ {m} : writes'[n] = writes[n]
  BY <1>1 DEF OpenTerms, CurrentTerms, TermsIInv
<1>3. TermsTypeOK'
  <2>1. w \in [DOMAIN w -> Status] /\ DOMAIN w \in SUBSET Terms /\ DOMAIN w # {}
    BY <1>1
  <2> QED
    BY <1>2, <2>1 DEF TermsIInv, TermsTypeOK
<1>4. WritesFit'
  <2> SUFFICES ASSUME NEW n \in Managers, Writing(n)' PROVE (WritesPlain(n) \/ WritesActivation(n))'
    BY DEF WritesFit
  <2>1. CASE n # m
    BY <1>2, <2>1 DEF TermsIInv, WritesFit, WritesPlain, WritesActivation, Activates
  <2>2. CASE n = m
    BY <1>1, <1>2, <2>2 DEF WritesPlain, WritesActivation, Activates
  <2> QED
    BY <2>1, <2>2
<1> QED
  BY <1>2, <1>3, <1>4 DEF TermsIInv, OneCurrent

\* What the commit of m makes of the terms.
LEMMA TermsCommitted ==
  ASSUME TermsIInv, NEW m \in Managers, CommitTerms(m)
  PROVE  /\ CurrentTerms = {} \/ CurrentTerms' # {}
         /\ OneCurrent'
         /\ \A t \in Terms : term[t] \in {"current", "closed"} => term'[t] \in {"current", "closed"}
         /\ WritesPlain(m) => CurrentTerms' = CurrentTerms
<1>1. /\ DOMAIN writes[m] \subseteq Terms
      /\ \A t \in Terms : term'[t] = IF t \in DOMAIN writes[m] THEN writes[m][t] ELSE term[t]
  BY WritesTyped DEF CommitTerms, Writing, TermsIInv
<1>2. CASE WritesPlain(m)
  <2>1. \A t \in Terms : term'[t] = "current" <=> term[t] = "current"
    BY <1>1, <1>2 DEF WritesPlain
  <2>2. CurrentTerms' = CurrentTerms
    BY <2>1 DEF CurrentTerms
  <2>3. \A t \in Terms : term[t] \in {"current", "closed"} => term'[t] = term[t]
    BY <1>1, <1>2 DEF WritesPlain
  <2> QED
    BY <2>2, <2>3 DEF TermsIInv, OneCurrent
<1>3. CASE WritesActivation(m)
  <2>1. PICK t \in Terms : /\ Activates(m, t) /\ CurrentTerms \subseteq DOMAIN writes[m]
                           /\ \A s \in DOMAIN writes[m] \ {t} : writes[m][s] = "closed"
    BY <1>3 DEF WritesActivation
  <2>2. \A s \in Terms : term'[s] = "current" <=> s = t
    BY <1>1, <2>1 DEF Activates, CurrentTerms
  <2>3. CurrentTerms' = {t}
    BY <2>2 DEF CurrentTerms
  <2>4. \A s \in DOMAIN writes[m] : writes[m][s] \in {"current", "closed"}
    BY <2>1 DEF Activates
  <2>5. ~WritesPlain(m)
    BY <2>1 DEF WritesPlain, Activates
  <2> QED
    BY <1>1, <2>3, <2>4, <2>5 DEF OneCurrent
<1> QED
  BY <1>2, <1>3 DEF TermsIInv, WritesFit, CommitTerms, Writing

LEMMA TermsCommitStep ==
  ASSUME TermsIInv, NEW m \in Managers, CommitTerms(m)
  PROVE  TermsIInv'
<1>1. \A n \in Managers : Writing(n)' =>
        /\ Writing(n) /\ n # m /\ writes'[n] = writes[n] /\ Entries(n) \cap Entries(m) = {}
  BY DEF CommitTerms, Writing
<1>2. /\ DOMAIN writes[m] \subseteq Terms /\ term' \in [Terms -> Status]
      /\ \A t \in Terms : term'[t] = IF t \in DOMAIN writes[m] THEN writes[m][t] ELSE term[t]
      /\ DOMAIN writes' = Managers
  BY WritesTyped DEF CommitTerms, Writing, TermsIInv, TermsTypeOK
<1>3. TermsTypeOK'
  BY <1>1, <1>2 DEF TermsIInv, TermsTypeOK, Writing
<1>4. ASSUME NEW n \in Managers, Writing(n)'
      PROVE  (WritesPlain(n) \/ WritesActivation(n))'
  <2>1. /\ writes'[n] = writes[n] /\ DOMAIN writes[n] \subseteq Terms
        /\ DOMAIN writes[n] \cap DOMAIN writes[m] = {}
    BY <1>1, <1>4, WritesTyped DEF Entries, TermsIInv
  <2>2. CASE WritesPlain(n)
    BY <1>2, <2>1, <2>2 DEF WritesPlain
  <2>3. CASE WritesActivation(n)
    <3>1. PICK t \in Terms : /\ Activates(n, t) /\ CurrentTerms \subseteq DOMAIN writes[n]
                             /\ \A s \in DOMAIN writes[n] \ {t} : writes[n][s] = "closed"
      BY <2>3 DEF WritesActivation
    <3>2. "current" \in Entries(n)
      BY <3>1 DEF Entries, Activates
    <3>3. ~WritesActivation(m)
      BY <1>1, <1>4, <3>2 DEF WritesActivation, Entries, Activates
    <3>4. CurrentTerms' = CurrentTerms
      BY <3>3, TermsCommitted DEF TermsIInv, WritesFit, CommitTerms, Writing
    <3> QED
      BY <2>1, <3>1, <3>4 DEF WritesActivation, Activates
  <2> QED
    BY <1>1, <1>4, <2>2, <2>3 DEF TermsIInv, WritesFit
<1> QED
  BY <1>2, <1>3, <1>4, TermsCommitted DEF TermsIInv, WritesFit

\* The invariant is inductive, and every step respects the action property.
THEOREM TermsInductive == TermsSpec => []TermsIInv
<1>1. TermsInit => TermsIInv
  BY DEF TermsInit, TermsIInv, TermsTypeOK, Status, OneCurrent, CurrentTerms, WritesFit, Writing
<1>2. TermsIInv /\ [TermsNext]_termVars => TermsIInv'
  <2> SUFFICES ASSUME TermsIInv, [TermsNext]_termVars PROVE TermsIInv'
    OBVIOUS
  <2>1. ASSUME NEW m \in Managers, NEW t \in Terms,
               CreateTerm(m, t) \/ UpdateTerm(m, t) \/ ActivateTerm(m, t) \/ RemoveTerm(m, t)
        PROVE  TermsIInv'
    BY <2>1, TermsOpen
  <2>2. ASSUME NEW m \in Managers, CommitTerms(m)
        PROVE  TermsIInv'
    BY <2>2, TermsCommitStep
  <2>3. ASSUME NEW m \in Managers, AbortTerms(m)
        PROVE  TermsIInv'
    BY <2>3 DEF AbortTerms, TermsIInv, TermsTypeOK, OneCurrent, CurrentTerms, WritesFit, WritesPlain,
       WritesActivation, Activates, Writing
  <2>4. CASE UNCHANGED termVars
    BY <2>4 DEF termVars, TermsIInv, TermsTypeOK, OneCurrent, CurrentTerms, WritesFit, WritesPlain,
       WritesActivation, Activates, Writing
  <2> QED
    BY <2>1, <2>2, <2>3, <2>4 DEF TermsNext
<1> QED
  BY <1>1, <1>2, PTL DEF TermsSpec

LEMMA AtMostOne ==
  ASSUME NEW S, \A s, t \in S : s = t
  PROVE  Cardinality(S) <= 1
<1>1. CASE S = {}
  BY <1>1, FS_EmptySet
<1>2. CASE S # {}
  <2>1. PICK t : S = {t}
    BY <1>2
  <2>2. Cardinality({t}) = 1
    BY FS_Singleton
  <2> QED
    BY <2>1, <2>2
<1> QED
  BY <1>1, <1>2

\* There is never a second current term and, once there is one, never none; a term that has been
\* current is not removed or planned again (activate, update and remove of AcademicTermsService,
\* whichever of them overlap).
THEOREM CurrentTermIsKept == TermsSpec => CurrentTermKept
<1>1. TermsIInv /\ TermsIInv' /\ [TermsNext]_termVars =>
        [/\ Cardinality(CurrentTerms') <= 1
         /\ CurrentTerms # {} => CurrentTerms' # {}
         /\ \A t \in Terms : term[t] \in {"current", "closed"} => term'[t] \in {"current", "closed"}
        ]_termVars
  <2> SUFFICES ASSUME TermsIInv, TermsIInv', TermsNext
               PROVE  /\ Cardinality(CurrentTerms') <= 1
                      /\ CurrentTerms # {} => CurrentTerms' # {}
                      /\ \A t \in Terms : term[t] \in {"current", "closed"} => term'[t] \in {"current", "closed"}
    OBVIOUS
  <2>1. Cardinality(CurrentTerms') <= 1
    BY AtMostOne DEF TermsIInv, OneCurrent
  <2>2. PICK m \in Managers :
          \/ \E t \in Terms : CreateTerm(m, t) \/ UpdateTerm(m, t) \/ ActivateTerm(m, t) \/ RemoveTerm(m, t)
          \/ CommitTerms(m) \/ AbortTerms(m)
    BY DEF TermsNext
  <2>3. CASE CommitTerms(m)
    BY <2>1, <2>3, TermsCommitted
  <2>4. CASE ~CommitTerms(m)
    <3>1. term' = term
      BY <2>2, <2>4, TermsOpen DEF AbortTerms
    <3> QED
      BY <2>1, <3>1 DEF CurrentTerms
  <2> QED
    BY <2>3, <2>4
<1> QED
  BY <1>1, TermsInductive, PTL DEF TermsSpec, CurrentTermKept

----
(* Surveys.  What a transaction will write still follows from the survey as it is: its         *)
(* document from the present document, its questions and its answer from a survey in which     *)
(* they make sense.  A pass that has opened the survey, or marked it as reminded, is the only  *)
(* one that may still tell the audience so.                                                    *)

HasOpened == {"active", "closed"}
Gone == {"absent", "removed"}

\* Nothing but the document and, for an edit, the questions.
OnlyDocument(w) == w.answer = None /\ ~w.announces /\ ~w.clears

\* w replaces the document s: by create, update, publish, unpublish, close, remove or respond.
Replaces(w, s) ==
  LET n == w.survey IN
  /\ n.reminded <=> s.reminded
  /\ \/ /\ s.status = "absent" /\ n.status = "draft"
        /\ w.questions \in 1 .. MaxEdits /\ OnlyDocument(w)
     \/ /\ s.status = "draft" /\ n.status = "draft"
        /\ w.questions \in (1 .. MaxEdits) \cup {None} /\ OnlyDocument(w)
     \/ /\ s.status = "draft" /\ n.status \in {"scheduled", "active"}
        /\ w.questions = None /\ w.answer = None /\ ~w.clears /\ (w.announces <=> n.status = "active")
     \/ s.status = "scheduled" /\ n.status = "draft" /\ w.questions = None /\ OnlyDocument(w)
     \/ /\ s.status = "active" /\ n.status = "closed" /\ w.questions = None /\ OnlyDocument(w)
        /\ n.start = s.start /\ n.end = s.end /\ n.anonymous = s.anonymous
     \/ /\ s.status = "draft" /\ n.status = "removed" /\ w.questions = 0 /\ w.clears
        /\ w.answer = None /\ ~w.announces
     \/ /\ s.status = "scheduled" /\ n.status = "active" /\ n.anonymous = s.anonymous
        /\ w.questions = None /\ w.announces /\ ~w.clears

\* w leaves the document alone.
LeavesAlone(w, s) ==
  /\ ~w.announces /\ ~w.clears
  /\ w.questions # None => w.questions \in 1 .. MaxEdits /\ s.status \notin Gone
  /\ w.answer # None => w.questions = None /\ s.status \in HasOpened

Follows(w, s, q, l) ==
  /\ IF w.survey = None THEN LeavesAlone(w, s) ELSE Replaces(w, s)
  /\ w.answer # None => /\ w.answer.user = IF s.anonymous THEN None ELSE w.answer.who
                        /\ ~l => w.answer.edit = q

Underway(r) == txn[r].phase = "open"

WritesFollow == \A r \in Requests : Underway(r) => Follows(txn[r].w, survey, questions, late)

RemindedOpened == survey.reminded => survey.status \in HasOpened

OneTells ==
  \A p \in Passes :
    /\ pass[p].phase = "announce" =>
         /\ survey.status \in HasOpened /\ sent.new = 0
         /\ \A q \in Passes \ {p} : pass[q].phase # "announce"
    /\ pass[p].phase = "send" =>
         /\ survey.reminded /\ sent.reminders = 0
         /\ \A q \in Passes \ {p} : pass[q].phase # "send"

SurveysIInv == /\ SurveysTypeOK /\ ResponsesWhole /\ AnnouncedOnce
               /\ WritesFollow /\ RemindedOpened /\ OneTells

LEMMA FollowsStays ==
  ASSUME NEW w \in WritesType, NEW s, NEW t, NEW q, NEW p, NEW l \in BOOLEAN, NEW m \in BOOLEAN,
         Follows(w, s, q, l), t # s => w.survey = None,
         s.status \in HasOpened => t.status \in HasOpened /\ t.anonymous = s.anonymous,
         t.status \in Gone => s.status \in Gone \/ w.questions = None,
         l => m, w.answer # None => m \/ p = q
  PROVE  Follows(w, t, p, m)
<1>1. CASE w.survey = None
  BY <1>1 DEF Follows, LeavesAlone, HasOpened, Gone
<1>2. CASE w.survey # None
  BY <1>2 DEF Follows
<1> QED
  BY <1>1, <1>2

LEMMA TxnTyped ==
  ASSUME SurveysTypeOK, NEW r \in Requests
  PROVE  /\ txn[r] \in {NoTxn} \cup [phase : {"open"}, w : WritesType]
         /\ Underway(r) => txn[r] = [phase |-> "open", w |-> txn[r].w] /\ txn[r].w \in WritesType
         /\ NoTxn.phase = "idle"
BY DEF SurveysTypeOK, NoTxn, Underway

\* A handler has run.
LEMMA HandlerRuns ==
  ASSUME SurveysIInv, NEW r \in Requests, NEW w \in WritesType, Handles(r), Open(r, w),
         edits' \in 0 .. MaxEdits, Follows(w, survey, questions, late)
  PROVE  SurveysIInv'
<1>1. /\ txn' \in [Requests -> {NoTxn} \cup [phase : {"open"}, w : WritesType]]
      /\ txn'[r] = [phase |-> "open", w |-> w] /\ \A q \in Requests \ {r} : txn'[q] = txn[q]
  BY DEF SurveysIInv, SurveysTypeOK, Open
<1>2. SurveysTypeOK'
  BY <1>1 DEF SurveysIInv, SurveysTypeOK, Handles
<1>3. WritesFollow'
  BY <1>1 DEF SurveysIInv, WritesFollow, Underway, Handles
<1> QED
  BY <1>2, <1>3 DEF SurveysIInv, ResponsesWhole, AnnouncedOnce, RemindedOpened, OneTells, Handles

\* What a handler reads.
LEMMA SurveyRead ==
  ASSUME SurveysIInv
  PROVE  /\ survey \in SurveyType /\ questions \in 0 .. MaxEdits /\ edits \in 0 .. MaxEdits
         /\ clock \in Moments /\ late \in BOOLEAN /\ MaxEdits \in Nat
         /\ NoWrites \in WritesType /\ NoSurvey \in SurveyType
         /\ NoWrites.survey = None /\ NoWrites.questions = None /\ OnlyDocument(NoWrites)
         /\ survey.reminded => survey.status \in HasOpened
         /\ questions = 0 <=> survey.status \in Gone
BY BoundsAssumption
DEF SurveysIInv, SurveysTypeOK, ResponsesWhole, RemindedOpened, NoWrites, NoSurvey, WritesType, SurveyType,
    OnlyDocument, Moments, Gone

LEMMA CreateStep ==
  ASSUME SurveysIInv, NEW r \in Requests, Create(r)
  PROVE  SurveysIInv'
<1>1. PICK start \in Moments, end \in Moments, anonymous \in BOOLEAN :
        Open(r, [NoWrites EXCEPT !.questions = edits + 1,
                   !.survey = [NoSurvey EXCEPT !.status = "draft", !.start = start, !.end = end,
                                               !.anonymous = anonymous]])
  BY DEF Create
<1> PICK n : n = [NoSurvey EXCEPT !.status = "draft", !.start = start, !.end = end, !.anonymous = anonymous]
  OBVIOUS
<1> PICK w : w = [NoWrites EXCEPT !.questions = edits + 1, !.survey = n]
  OBVIOUS
<1>2. n \in SurveyType /\ n.status = "draft" /\ ~n.reminded
  BY SurveyRead DEF NoSurvey, SurveyType
<1>3. /\ survey.status = "absent" /\ edits' = edits + 1
      /\ edits + 1 \in 1 .. MaxEdits /\ edits + 1 \in 0 .. MaxEdits
  BY SurveyRead DEF Create
<1>4. /\ w \in WritesType /\ w.survey = n /\ n # None /\ w.questions = edits + 1 /\ w.answer = None
      /\ ~w.clears /\ ~w.announces
  BY <1>2, <1>3, RecordsAssumption DEF NoWrites, WritesType
<1>5. Follows(w, survey, questions, late)
  <2>1. ~survey.reminded
    BY <1>3, SurveyRead DEF HasOpened
  <2>2. Replaces(w, survey)
    BY <1>2, <1>3, <1>4, <2>1 DEF Replaces, OnlyDocument
  <2> QED
    BY <1>4, <2>2 DEF Follows
<1>6. Open(r, w)
  BY <1>1 DEF Open
<1>7. Handles(r) /\ edits' \in 0 .. MaxEdits
  BY <1>3 DEF Create
<1> QED
  BY <1>4, <1>5, <1>6, <1>7, HandlerRuns

LEMMA UpdateStep ==
  ASSUME SurveysIInv, NEW r \in Requests, Update(r)
  PROVE  SurveysIInv'
<1>1. PICK start \in Moments, end \in Moments, anonymous \in BOOLEAN, newQuestions \in BOOLEAN :
        LET s == [survey EXCEPT !.start = start, !.end = end, !.anonymous = anonymous] IN
        /\ newQuestions => edits < MaxEdits
        /\ edits' = IF newQuestions THEN edits + 1 ELSE edits
        /\ Open(r, [NoWrites EXCEPT !.survey = IF s = survey THEN None ELSE s,
                                    !.questions = IF newQuestions THEN edits + 1 ELSE None])
  BY DEF Update
<1> PICK s : s = [survey EXCEPT !.start = start, !.end = end, !.anonymous = anonymous]
  OBVIOUS
<1> PICK n, q : n = (IF s = survey THEN None ELSE s) /\ q = IF newQuestions THEN edits + 1 ELSE None
  OBVIOUS
<1> PICK w : w = [NoWrites EXCEPT !.survey = n, !.questions = q]
  OBVIOUS
<1>2. /\ survey.status = "draft" /\ s \in SurveyType /\ s.status = "draft" /\ s.reminded = survey.reminded
      /\ n \in {s, None}
  BY SurveyRead DEF Update, Editable, SurveyType
<1>3. /\ edits' \in 0 .. MaxEdits
      /\ q \in (1 .. MaxEdits) \cup {None} /\ q \in (0 .. MaxEdits) \cup {None}
  BY <1>1, SurveyRead
<1>4. /\ w \in WritesType /\ w.survey = n /\ w.questions = q /\ w.answer = None
      /\ ~w.clears /\ ~w.announces
  BY <1>2, <1>3, RecordsAssumption DEF NoWrites, WritesType
<1>5. Follows(w, survey, questions, late)
  <2>1. CASE n = None
    BY <1>2, <1>3, <1>4, <2>1 DEF Follows, LeavesAlone, Gone
  <2>2. CASE n # None
    <3>1. Replaces(w, survey)
      BY <1>2, <1>3, <1>4, <2>2 DEF Replaces, OnlyDocument
    <3> QED
      BY <1>4, <2>2, <3>1 DEF Follows
  <2> QED
    BY <2>1, <2>2
<1>6. Open(r, w)
  BY <1>1 DEF Open
<1>7. Handles(r)
  BY DEF Update
<1> QED
  BY <1>3, <1>4, <1>5, <1>6, <1>7, HandlerRuns

LEMMA PublishStep ==
  ASSUME SurveysIInv, NEW r \in Requests, Publish(r)
  PROVE  SurveysIInv'
<1> PICK next : next = IF survey.start > clock THEN "scheduled" ELSE "active"
  OBVIOUS
<1> PICK n : n = [survey EXCEPT !.status = next, !.reason = None]
  OBVIOUS
<1> PICK a : a = (next = "active")
  OBVIOUS
<1> PICK w : w = [NoWrites EXCEPT !.survey = n, !.announces = a]
  OBVIOUS
<1>1. survey.status = "draft" /\ edits' = edits /\ Handles(r) /\ edits' \in 0 .. MaxEdits
  BY SurveyRead DEF Publish
<1>2. n \in SurveyType /\ n.status = next /\ n.reminded = survey.reminded /\ next \in {"scheduled", "active"}
  BY SurveyRead DEF SurveyType
<1>3. /\ w \in WritesType /\ w.survey = n /\ n # None /\ w.questions = None /\ w.answer = None
      /\ ~w.clears /\ w.announces = (n.status = "active")
  BY <1>2, RecordsAssumption DEF NoWrites, WritesType
<1>4. Follows(w, survey, questions, late)
  <2>1. Replaces(w, survey)
    BY <1>1, <1>2, <1>3 DEF Replaces
  <2> QED
    BY <1>3, <2>1 DEF Follows
<1>6. Open(r, w)
  BY DEF Publish, Open
<1> QED
  BY <1>1, <1>3, <1>4, <1>6, HandlerRuns

LEMMA UnpublishOrCloseStep ==
  ASSUME SurveysIInv, NEW r \in Requests, Unpublish(r) \/ Close(r)
  PROVE  SurveysIInv'
<1>1. PICK n : /\ Open(r, [NoWrites EXCEPT !.survey = n])
               /\ \/ survey.status = "scheduled" /\ n = [survey EXCEPT !.status = "draft"]
                  \/ survey.status = "active" /\ n = [survey EXCEPT !.status = "closed", !.reason = "manual"]
  BY DEF Unpublish, Close
<1> PICK w : w = [NoWrites EXCEPT !.survey = n]
  OBVIOUS
<1>2. /\ n \in SurveyType /\ n.reminded = survey.reminded /\ n.start = survey.start /\ n.end = survey.end
      /\ n.anonymous = survey.anonymous
      /\ \/ survey.status = "scheduled" /\ n.status = "draft"
         \/ survey.status = "active" /\ n.status = "closed"
  BY <1>1, SurveyRead DEF SurveyType
<1>3. /\ w \in WritesType /\ w.survey = n /\ n # None /\ w.questions = None /\ w.answer = None
      /\ ~w.clears /\ ~w.announces
  BY <1>2, RecordsAssumption DEF NoWrites, WritesType
<1>4. Follows(w, survey, questions, late)
  <2>1. Replaces(w, survey)
    BY <1>2, <1>3 DEF Replaces, OnlyDocument
  <2> QED
    BY <1>3, <2>1 DEF Follows
<1>6. Open(r, w)
  BY <1>1 DEF Open
<1>7. Handles(r) /\ edits' \in 0 .. MaxEdits
  BY SurveyRead DEF Unpublish, Close
<1> QED
  BY <1>3, <1>4, <1>6, <1>7, HandlerRuns

LEMMA RemoveStep ==
  ASSUME SurveysIInv, NEW r \in Requests, Remove(r)
  PROVE  SurveysIInv'
<1> PICK w : w = [NoWrites EXCEPT !.survey = Removed, !.questions = 0, !.clears = TRUE]
  OBVIOUS
<1>1. survey.status = "draft" /\ Handles(r) /\ edits' \in 0 .. MaxEdits
  BY SurveyRead DEF Remove, Editable
<1>2. Removed \in SurveyType /\ Removed.status = "removed" /\ ~Removed.reminded
  BY SurveyRead DEF Removed, NoSurvey, SurveyType
<1>3. /\ w \in WritesType /\ w.survey = Removed /\ Removed # None /\ w.questions = 0 /\ w.answer = None
      /\ w.clears /\ ~w.announces
  <2>1. 0 \in 0 .. MaxEdits
    BY BoundsAssumption
  <2> QED
    BY <1>2, <2>1, RecordsAssumption DEF NoWrites, WritesType
<1>4. Follows(w, survey, questions, late)
  <2>1. ~survey.reminded
    BY <1>1, SurveyRead DEF HasOpened
  <2>2. Replaces(w, survey)
    BY <1>1, <1>2, <1>3, <2>1 DEF Replaces
  <2> QED
    BY <1>3, <2>2 DEF Follows
<1>6. Open(r, w)
  BY DEF Remove, Open
<1> QED
  BY <1>1, <1>3, <1>4, <1>6, HandlerRuns

LEMMA RespondStep ==
  ASSUME SurveysIInv, NEW r \in Requests, NEW u \in Students, Respond(r, u)
  PROVE  SurveysIInv'
<1> PICK s : s = Activate(CloseExpired(survey, clock), clock)
  OBVIOUS
<1> PICK n, a : n = (IF s = survey THEN None ELSE s) /\ a = (s # survey)
  OBVIOUS
<1> PICK x : x = [user |-> IF s.anonymous THEN None ELSE u, who |-> u, edit |-> questions]
  OBVIOUS
<1> PICK w : w = [NoWrites EXCEPT !.survey = n, !.announces = a, !.answer = x]
  OBVIOUS
<1>1. s.status = "active" /\ Handles(r) /\ edits' \in 0 .. MaxEdits
  BY SurveyRead DEF Respond
<1>2. /\ s \in SurveyType /\ s # None /\ s.reminded = survey.reminded /\ s.anonymous = survey.anonymous
      /\ IF s = survey THEN survey.status = "active" ELSE survey.status = "scheduled"
  BY <1>1, SurveyRead, RecordsAssumption DEF SurveyType, Activate, CloseExpired, Due
<1>3. x \in AnswerType /\ x # None /\ x.who = u /\ x.user = (IF s.anonymous THEN None ELSE u) /\ x.edit = questions
  BY <1>2, SurveyRead, RecordsAssumption DEF AnswerType, Gone
<1>4. /\ w \in WritesType /\ w.survey = n /\ w.questions = None /\ w.answer = x
      /\ ~w.clears /\ w.announces = a
  BY <1>2, <1>3 DEF NoWrites, WritesType
<1>5. Follows(w, survey, questions, late)
  <2>1. w.answer.user = (IF survey.anonymous THEN None ELSE w.answer.who) /\ w.answer.edit = questions
    BY <1>2, <1>3, <1>4
  <2>2. CASE s = survey
    BY <1>1, <1>2, <1>4, <2>1, <2>2 DEF Follows, LeavesAlone, HasOpened
  <2>3. CASE s # survey
    <3>1. Replaces(w, survey)
      BY <1>1, <1>2, <1>4, <2>3 DEF Replaces
    <3> QED
      BY <1>2, <1>4, <2>1, <2>3, <3>1 DEF Follows
  <2> QED
    BY <2>2, <2>3
<1>7. Open(r, w)
  BY DEF Respond, Open
<1> QED
  BY <1>1, <1>4, <1>5, <1>7, HandlerRuns


\* What the commit of writes that follow from the survey does to it.
LEMMA SurveyCommitted ==
  ASSUME NEW w \in WritesType, NEW s \in SurveyType, NEW t, NEW q \in 0 .. MaxEdits, NEW p, NEW l \in BOOLEAN,
         Follows(w, s, q, l), q = 0 <=> s.status \in Gone,
         t = IF w.survey = None THEN s ELSE w.survey, p = IF w.questions = None THEN q ELSE w.questions
  PROVE  /\ w.answer # None => /\ w.questions = None /\ ~w.clears /\ t.status \in HasOpened
                               /\ t.anonymous = s.anonymous /\ s.status \notin {"absent", "draft"}
         /\ s.status \in HasOpened => t.status \in HasOpened /\ t.anonymous = s.anonymous
         /\ s.status = "closed" => t = s
         /\ s.status \in HasOpened => t.start = s.start /\ t.end = s.end /\ t.status \in {s.status, "closed"}
         /\ t.status = "removed" => s.status \in {"draft", "removed"}
         /\ w.clears => t.status \in Gone
         /\ p = 0 <=> t.status \in Gone
         /\ t.reminded <=> s.reminded
         /\ w.announces => s.status \notin HasOpened /\ t.status \in HasOpened
         /\ t.status \in Gone => s.status \in Gone \/ w.questions # None
<1>1. \A x \in 1 .. MaxEdits : x # None /\ x # 0
  BY NoneAssumption
<1>2. MaxEdits \in Nat /\ 0 # None
  BY NoneAssumption, BoundsAssumption
<1>3. CASE w.survey = None
  BY <1>1, <1>2, <1>3 DEF Follows, LeavesAlone, HasOpened, Gone
<1>4. CASE w.survey # None
  BY <1>1, <1>2, <1>4 DEF Follows, Replaces, OnlyDocument, HasOpened, Gone
<1> QED
  BY <1>3, <1>4

LEMMA CommitRequestStep ==
  ASSUME SurveysIInv, NEW r \in Requests, CommitRequest(r)
  PROVE  SurveysIInv'
<1> PICK w : w = txn[r].w
  OBVIOUS
<1>1. w \in WritesType /\ Follows(w, survey, questions, late)
  BY TxnTyped DEF SurveysIInv, WritesFollow, CommitRequest, Underway
<1>2. /\ w.answer # None => w.answer \in AnswerType /\ w.answer.who \notin completed
      /\ survey' = IF w.survey = None THEN survey ELSE w.survey
      /\ questions' = IF w.questions = None THEN questions ELSE w.questions
      /\ responses' = (IF w.clears THEN {} ELSE responses) \cup (IF w.answer = None THEN {} ELSE {w.answer})
      /\ completed' = (IF w.clears THEN {} ELSE completed)
                      \cup (IF w.answer = None THEN {} ELSE {w.answer.who})
      /\ sent' = IF w.announces THEN [sent EXCEPT !.new = @ + 1] ELSE sent
      /\ late' = (late \/ (w.questions # None /\ survey.status \notin {"absent", "draft"}))
      /\ UNCHANGED <<clock, pass, edits>>
  BY <1>1 DEF CommitRequest, IndexAdmits, WritesType
<1>3. txn' = [Unaffected(Touched(w)) EXCEPT ![r] = NoTxn]
  BY DEF CommitRequest
<1>4. /\ w.answer # None => /\ w.questions = None /\ ~w.clears /\ survey'.status \in HasOpened
                            /\ survey'.anonymous = survey.anonymous /\ survey.status \notin {"absent", "draft"}
      /\ survey.status \in HasOpened => survey'.status \in HasOpened /\ survey'.anonymous = survey.anonymous
      /\ w.clears => survey'.status \in Gone
      /\ questions' = 0 <=> survey'.status \in Gone
      /\ survey'.reminded <=> survey.reminded
      /\ w.announces => survey.status \notin HasOpened /\ survey'.status \in HasOpened
      /\ survey'.status \in Gone => survey.status \in Gone \/ w.questions # None
  BY <1>1, <1>2, SurveyRead, SurveyCommitted
<1>5. SurveysTypeOK'
  <2>1. /\ survey' \in SurveyType /\ questions' \in 0 .. MaxEdits
        /\ responses' \subseteq AnswerType /\ completed' \subseteq Students
        /\ late' \in BOOLEAN /\ sent' \in [new : Nat, reminders : Nat]
    BY <1>1, <1>2 DEF SurveysIInv, SurveysTypeOK, WritesType, AnswerType
  <2>2. txn' \in [Requests -> {NoTxn} \cup [phase : {"open"}, w : WritesType]]
    BY <1>3 DEF SurveysIInv, SurveysTypeOK, Unaffected
  <2> QED
    BY <1>2, <2>1, <2>2 DEF SurveysIInv, SurveysTypeOK, Moments
<1>6. ResponsesWhole'
  <2>1. survey.status \notin HasOpened => responses = {}
    BY DEF SurveysIInv, ResponsesWhole, HasOpened
  <2>2. completed' = {a.who : a \in responses'}
    <3>1. completed = {a.who : a \in responses}
      BY DEF SurveysIInv, ResponsesWhole
    <3>2. CASE w.clears
      BY <1>2, <1>4, <3>2
    <3>3. CASE ~w.clears
      BY <1>2, <3>1, <3>3
    <3> QED
      BY <3>2, <3>3
  <2>3. \A a, b \in responses' : a # b => a.who # b.who
    BY <1>2 DEF SurveysIInv, ResponsesWhole
  <2>4. w.answer # None => w.answer.user = IF survey'.anonymous THEN None ELSE w.answer.who
    BY <1>1, <1>4 DEF Follows
  <2>5. \A a \in responses' : a.user = IF survey'.anonymous THEN None ELSE a.who
    BY <1>2, <1>4, <2>1, <2>4 DEF SurveysIInv, ResponsesWhole
  <2>6. survey'.status \notin HasOpened => responses' = {}
    BY <1>2, <1>4, <2>1
  <2>7. ~late' => \A a \in responses' : a.edit = questions'
    <3> SUFFICES ASSUME ~late', NEW a \in responses' PROVE a.edit = questions'
      OBVIOUS
    <3>1. ~late /\ (w.questions = None \/ survey.status \in {"absent", "draft"})
      BY <1>2, SurveyRead
    <3>2. CASE a \in responses
      BY <1>2, <2>1, <3>1, <3>2 DEF SurveysIInv, ResponsesWhole, HasOpened
    <3>3. CASE a \notin responses
      BY <1>1, <1>2, <1>4, <3>1, <3>3 DEF Follows
    <3> QED
      BY <3>2, <3>3
  <2> QED
    BY <1>4, <2>2, <2>3, <2>5, <2>6, <2>7 DEF ResponsesWhole, HasOpened, Gone
<1>7. WritesFollow'
  <2> SUFFICES ASSUME NEW p \in Requests, Underway(p)'
               PROVE  Follows(txn'[p].w, survey', questions', late')
    BY DEF WritesFollow
  <2> PICK v : v = txn[p].w
    OBVIOUS
  <2>1. p # r /\ txn'[p] = txn[p] /\ Underway(p) /\ Touched(v) \cap Touched(w) = {}
    BY <1>3, TxnTyped DEF Underway, Unaffected, SurveysIInv, SurveysTypeOK
  <2>2. v \in WritesType /\ Follows(v, survey, questions, late)
    BY <2>1, TxnTyped DEF SurveysIInv, WritesFollow
  <2>3. survey' # survey => v.survey = None
    BY <1>2, <2>1 DEF Touched
  <2>4. w.questions # None => v.questions = None
    BY <2>1 DEF Touched
  <2>5. v.answer # None => survey.status \notin {"absent", "draft"}
    BY <2>2, SurveyRead, SurveyCommitted
  <2>6. /\ late => late'
        /\ v.answer # None => late' \/ questions' = questions
        /\ survey'.status \in Gone => survey.status \in Gone \/ v.questions = None
    BY <1>2, <1>4, <2>4, <2>5
  <2>7. late' \in BOOLEAN
    BY <1>5 DEF SurveysTypeOK
  <2>8. Follows(v, survey', questions', late')
    BY <1>4, <2>2, <2>3, <2>6, <2>7, SurveyRead, FollowsStays
  <2> QED
    BY <2>1, <2>8
<1>8. AnnouncedOnce' /\ RemindedOpened' /\ OneTells'
  <2>1. /\ sent'.reminders = sent.reminders
        /\ sent'.new = IF w.announces THEN sent.new + 1 ELSE sent.new
        /\ sent.new \in Nat
    BY <1>2 DEF SurveysIInv, SurveysTypeOK
  <2>2. w.announces => sent.new = 0 /\ \A p \in Passes : pass[p].phase # "announce"
    BY <1>4, <2>1 DEF SurveysIInv, AnnouncedOnce, OneTells, HasOpened
  <2>3. AnnouncedOnce'
    BY <1>4, <2>1, <2>2 DEF SurveysIInv, AnnouncedOnce, HasOpened
  <2>4. RemindedOpened'
    BY <1>4 DEF SurveysIInv, RemindedOpened
  <2> QED
    BY <1>2, <1>4, <2>1, <2>2, <2>3, <2>4 DEF SurveysIInv, OneTells
<1> QED
  BY <1>5, <1>6, <1>7, <1>8 DEF SurveysIInv


\* A pass moves the survey along.
LEMMA SurveyMoves ==
  ASSUME SurveysIInv, NEW t \in SurveyType, WriteSurvey(t),
         UNCHANGED <<clock, questions, responses, completed, edits, late>>,
         t.anonymous = survey.anonymous, t.status \in Gone <=> survey.status \in Gone,
         survey.status \in HasOpened => t.status \in HasOpened
  PROVE  /\ survey' = t /\ ResponsesWhole' /\ WritesFollow'
         /\ txn' \in [Requests -> {NoTxn} \cup [phase : {"open"}, w : WritesType]]
<1>1. survey' = t /\ txn' = IF t = survey THEN txn ELSE Unaffected({"survey"})
  BY DEF WriteSurvey
<1>2. ResponsesWhole'
  BY <1>1 DEF SurveysIInv, ResponsesWhole, HasOpened, Gone
<1>3. WritesFollow'
  <2> SUFFICES ASSUME NEW p \in Requests, Underway(p)'
               PROVE  Follows(txn'[p].w, survey', questions', late')
    BY DEF WritesFollow
  <2> PICK v : v = txn[p].w
    OBVIOUS
  <2>1. txn'[p] = txn[p] /\ Underway(p) /\ (t # survey => Touched(v) \cap {"survey"} = {})
    BY <1>1, TxnTyped DEF Underway, Unaffected, SurveysIInv, SurveysTypeOK
  <2>2. v \in WritesType /\ Follows(v, survey, questions, late)
    BY <2>1, TxnTyped DEF SurveysIInv, WritesFollow
  <2>3. t # survey => v.survey = None
    BY <2>1 DEF Touched
  <2>4. Follows(v, t, questions, late)
    BY <2>2, <2>3, SurveyRead, FollowsStays
  <2> QED
    BY <1>1, <2>1, <2>4
<1>4. txn' \in [Requests -> {NoTxn} \cup [phase : {"open"}, w : WritesType]]
  BY <1>1 DEF SurveysIInv, SurveysTypeOK, Unaffected
<1> QED
  BY <1>1, <1>2, <1>3, <1>4

PassType == [phase : {"idle", "close", "activate", "announce", "remind", "send"}, now : Moments]

\* The step of a pass: it alone goes on, the clock's reading it began with in hand.
LEMMA PassGoes ==
  ASSUME SurveysIInv, NEW p \in Passes
  PROVE  /\ pass[p] \in PassType /\ pass[p].now \in Moments /\ NoPass \in PassType
         /\ \A f \in {"idle", "close", "activate", "announce", "remind", "send"} :
              GoOn(p, f) => /\ pass' \in [Passes -> PassType] /\ pass'[p].phase = f
                            /\ \A o \in Passes \ {p} : pass'[o] = pass[o]
         /\ Rest(p) => /\ pass' \in [Passes -> PassType] /\ pass'[p].phase = "idle"
                       /\ \A o \in Passes \ {p} : pass'[o] = pass[o]
BY BoundsAssumption DEF SurveysIInv, SurveysTypeOK, PassType, NoPass, Moments, GoOn, Rest

LEMMA PassBeginsStep ==
  ASSUME SurveysIInv, NEW p \in Passes, PassBegins(p)
  PROVE  SurveysIInv'
<1>1. /\ pass' \in [Passes -> PassType] /\ pass'[p].phase = "close"
      /\ \A o \in Passes \ {p} : pass'[o] = pass[o]
  BY PassGoes, SurveyRead DEF PassBegins, SurveysIInv, SurveysTypeOK, PassType
<1>2. SurveysTypeOK' /\ OneTells'
  BY <1>1 DEF SurveysIInv, SurveysTypeOK, OneTells, PassBegins, InPass, PassType
<1> QED
  BY <1>2 DEF SurveysIInv, ResponsesWhole, AnnouncedOnce, WritesFollow, RemindedOpened, Underway,
     PassBegins, InPass

LEMMA PassClosesStep ==
  ASSUME SurveysIInv, NEW p \in Passes, PassCloses(p)
  PROVE  SurveysIInv'
<1> PICK t : t = CloseExpired(survey, pass[p].now)
  OBVIOUS
<1>1. WriteSurvey(t) /\ UNCHANGED <<clock, questions, responses, completed, edits, late, sent>>
  BY DEF PassCloses, InPass
<1>2. /\ t \in SurveyType /\ t.anonymous = survey.anonymous /\ t.reminded = survey.reminded
      /\ t.status \in Gone <=> survey.status \in Gone
      /\ survey.status \in HasOpened => t.status \in HasOpened
  BY SurveyRead DEF CloseExpired, Expired, SurveyType, HasOpened, Gone
<1>3. /\ survey' = t /\ ResponsesWhole' /\ WritesFollow'
      /\ txn' \in [Requests -> {NoTxn} \cup [phase : {"open"}, w : WritesType]]
  BY <1>1, <1>2, SurveyMoves
<1>4. /\ pass' \in [Passes -> PassType] /\ pass'[p].phase = "activate"
      /\ \A o \in Passes \ {p} : pass'[o] = pass[o]
  BY PassGoes DEF PassCloses
<1>5. SurveysTypeOK'
  BY <1>1, <1>2, <1>3, <1>4 DEF SurveysIInv, SurveysTypeOK, PassType, Moments
<1>6. AnnouncedOnce' /\ RemindedOpened'
  BY <1>1, <1>2, <1>3 DEF SurveysIInv, AnnouncedOnce, RemindedOpened, HasOpened
<1>7. OneTells'
  BY <1>1, <1>2, <1>3, <1>4 DEF SurveysIInv, OneTells
<1> QED
  BY <1>3, <1>5, <1>6, <1>7 DEF SurveysIInv

LEMMA PassActivatesStep ==
  ASSUME SurveysIInv, NEW p \in Passes, PassActivates(p)
  PROVE  SurveysIInv'
<1> PICK t : t = Activate(survey, pass[p].now)
  OBVIOUS
<1>1. WriteSurvey(t) /\ UNCHANGED <<clock, questions, responses, completed, edits, late, sent>>
  BY DEF PassActivates, InPass
<1>2. /\ t \in SurveyType /\ t.anonymous = survey.anonymous /\ t.reminded = survey.reminded
      /\ t.status \in Gone <=> survey.status \in Gone
      /\ survey.status \in HasOpened => t.status \in HasOpened
  BY SurveyRead DEF Activate, Due, SurveyType, HasOpened, Gone
<1>3. /\ survey' = t /\ ResponsesWhole' /\ WritesFollow'
      /\ txn' \in [Requests -> {NoTxn} \cup [phase : {"open"}, w : WritesType]]
  BY <1>1, <1>2, SurveyMoves
<1>4. Due(survey, pass[p].now) => survey.status = "scheduled" /\ t.status = "active"
  BY SurveyRead DEF Due, Activate, SurveyType
<1>5. /\ pass' \in [Passes -> PassType]
      /\ pass'[p].phase = (IF Due(survey, pass[p].now) THEN "announce" ELSE "remind")
      /\ \A o \in Passes \ {p} : pass'[o] = pass[o]
  BY PassGoes DEF PassActivates
<1>6. SurveysTypeOK'
  BY <1>1, <1>2, <1>3, <1>5 DEF SurveysIInv, SurveysTypeOK, PassType, Moments
<1>7. AnnouncedOnce' /\ RemindedOpened'
  BY <1>1, <1>2, <1>3 DEF SurveysIInv, AnnouncedOnce, RemindedOpened, HasOpened
<1>8. survey.status = "scheduled" => sent.new = 0 /\ \A o \in Passes : pass[o].phase # "announce"
  BY DEF SurveysIInv, SurveysTypeOK, AnnouncedOnce, OneTells, HasOpened
<1>9. OneTells'
  BY <1>1, <1>2, <1>3, <1>4, <1>5, <1>8 DEF SurveysIInv, OneTells, HasOpened
<1> QED
  BY <1>3, <1>6, <1>7, <1>9 DEF SurveysIInv

LEMMA PassRemindsStep ==
  ASSUME SurveysIInv, NEW p \in Passes, PassReminds(p)
  PROVE  SurveysIInv'
<1>1. CASE ~RemindDue(survey, pass[p].now)
  <2>1. /\ pass' \in [Passes -> PassType] /\ pass'[p].phase = "idle"
        /\ \A o \in Passes \ {p} : pass'[o] = pass[o]
    BY <1>1, PassGoes DEF PassReminds
  <2>2. UNCHANGED <<clock, survey, questions, responses, completed, txn, edits, sent, late>>
    BY <1>1 DEF PassReminds, InPass
  <2>3. SurveysTypeOK' /\ OneTells'
    BY <2>1, <2>2 DEF SurveysIInv, SurveysTypeOK, OneTells, PassType
  <2> QED
    BY <2>2, <2>3 DEF SurveysIInv, ResponsesWhole, AnnouncedOnce, WritesFollow, RemindedOpened, Underway
<1>2. CASE RemindDue(survey, pass[p].now)
  <2> PICK t : t = [survey EXCEPT !.reminded = TRUE]
    OBVIOUS
  <2>1. WriteSurvey(t) /\ UNCHANGED <<clock, questions, responses, completed, edits, late, sent>>
    BY <1>2 DEF PassReminds, InPass
  <2>2. /\ t \in SurveyType /\ t.anonymous = survey.anonymous /\ t.reminded
        /\ t.status = "active" /\ survey.status = "active" /\ ~survey.reminded
    BY <1>2, SurveyRead DEF RemindDue, SurveyType
  <2>3. /\ survey' = t /\ ResponsesWhole' /\ WritesFollow'
        /\ txn' \in [Requests -> {NoTxn} \cup [phase : {"open"}, w : WritesType]]
    BY <2>1, <2>2, SurveyMoves DEF HasOpened, Gone
  <2>4. /\ pass' \in [Passes -> PassType] /\ pass'[p].phase = "send"
        /\ \A o \in Passes \ {p} : pass'[o] = pass[o]
    BY <1>2, PassGoes DEF PassReminds
  <2>5. SurveysTypeOK'
    BY <2>1, <2>2, <2>3, <2>4 DEF SurveysIInv, SurveysTypeOK, PassType, Moments
  <2>6. AnnouncedOnce' /\ RemindedOpened'
    BY <2>1, <2>2, <2>3 DEF SurveysIInv, AnnouncedOnce, RemindedOpened, HasOpened
  <2>7. sent.reminders = 0 /\ \A o \in Passes : pass[o].phase # "send"
    BY <2>2 DEF SurveysIInv, SurveysTypeOK, AnnouncedOnce, OneTells
  <2>8. OneTells'
    BY <2>1, <2>2, <2>3, <2>4, <2>7 DEF SurveysIInv, OneTells, HasOpened
  <2> QED
    BY <2>3, <2>5, <2>6, <2>8 DEF SurveysIInv
<1> QED
  BY <1>1, <1>2

LEMMA PassTellsStep ==
  ASSUME SurveysIInv, NEW p \in Passes, PassAnnounces(p) \/ PassSends(p)
  PROVE  SurveysIInv'
<1>1. UNCHANGED <<clock, survey, questions, responses, completed, txn, edits, late>>
  BY DEF PassAnnounces, PassSends, InPass
<1>2. /\ pass' \in [Passes -> PassType] /\ pass'[p].phase \in {"activate", "remind"}
      /\ \A o \in Passes \ {p} : pass'[o] = pass[o]
  BY PassGoes DEF PassAnnounces, PassSends
<1>3. sent \in [new : Nat, reminders : Nat]
  BY DEF SurveysIInv, SurveysTypeOK
<1>4. \/ pass[p].phase = "announce" /\ sent' \in {[sent EXCEPT !.new = @ + 1], sent}
      \/ pass[p].phase = "send" /\ sent' \in {[sent EXCEPT !.reminders = @ + 1], sent}
  BY DEF PassAnnounces, PassSends, InPass
<1>5. /\ sent' \in [new : Nat, reminders : Nat]
      /\ sent' = sent \/ (pass[p].phase = "announce" /\ sent'.new = sent.new + 1 /\ sent'.reminders = sent.reminders)
                      \/ (pass[p].phase = "send" /\ sent'.new = sent.new /\ sent'.reminders = sent.reminders + 1)
  BY <1>3, <1>4
<1>6. SurveysTypeOK'
  BY <1>1, <1>2, <1>5 DEF SurveysIInv, SurveysTypeOK, PassType, Moments
<1>7. /\ pass[p].phase = "announce" => /\ survey.status \in HasOpened /\ sent.new = 0
                                       /\ \A o \in Passes \ {p} : pass[o].phase # "announce"
      /\ pass[p].phase = "send" => /\ survey.reminded /\ sent.reminders = 0
                                   /\ \A o \in Passes \ {p} : pass[o].phase # "send"
  BY DEF SurveysIInv, OneTells
<1>8. AnnouncedOnce'
  BY <1>1, <1>3, <1>5, <1>7 DEF SurveysIInv, AnnouncedOnce, HasOpened
<1>9. OneTells'
  BY <1>1, <1>2, <1>3, <1>5, <1>7 DEF SurveysIInv, OneTells
<1> QED
  BY <1>1, <1>6, <1>8, <1>9 DEF SurveysIInv, ResponsesWhole, WritesFollow, RemindedOpened, Underway

\* A pass that ends, a request that aborts, the clock.
LEMMA QuietStep ==
  ASSUME SurveysIInv,
         \/ \E p \in Passes : PassEnds(p)
         \/ \E r \in Requests : Abort(r)
         \/ TimePasses
         \/ UNCHANGED surveyVars
  PROVE  SurveysIInv'
<1>1. UNCHANGED <<survey, questions, responses, completed, edits, sent, late>>
  BY DEF PassEnds, Abort, TimePasses, surveyVars
<1>2. pass' \in [Passes -> PassType] /\ \A p \in Passes : pass'[p].phase \in {pass[p].phase, "idle"}
  <2>1. ASSUME NEW p \in Passes, PassEnds(p)
        PROVE  pass' \in [Passes -> PassType] /\ \A o \in Passes : pass'[o].phase \in {pass[o].phase, "idle"}
    BY <2>1, PassGoes DEF PassEnds
  <2>2. CASE pass' = pass
    BY <2>2 DEF SurveysIInv, SurveysTypeOK, PassType
  <2> QED
    BY <2>1, <2>2 DEF Abort, TimePasses, surveyVars
<1>3. /\ txn' \in [Requests -> {NoTxn} \cup [phase : {"open"}, w : WritesType]]
      /\ \A r \in Requests : txn'[r] \in {txn[r], NoTxn}
  BY DEF PassEnds, Abort, TimePasses, surveyVars, SurveysIInv, SurveysTypeOK
<1>4. clock' \in Moments
  BY BoundsAssumption DEF PassEnds, Abort, TimePasses, surveyVars, SurveysIInv, SurveysTypeOK, Moments
<1>5. SurveysTypeOK'
  BY <1>1, <1>2, <1>3, <1>4 DEF SurveysIInv, SurveysTypeOK, PassType, Moments
<1>6. WritesFollow'
  BY <1>1, <1>3 DEF SurveysIInv, WritesFollow, Underway, NoTxn
<1>7. OneTells'
  BY <1>1, <1>2 DEF SurveysIInv, OneTells
<1> QED
  BY <1>1, <1>5, <1>6, <1>7 DEF SurveysIInv, ResponsesWhole, AnnouncedOnce, RemindedOpened

\* The invariant is inductive.
THEOREM SurveysInductive == SurveysSpec => []SurveysIInv
<1>1. SurveysInit => SurveysIInv
  <2> SUFFICES ASSUME SurveysInit PROVE SurveysIInv
    OBVIOUS
  <2>1. SurveysTypeOK
    <3>1. 0 \in Moments /\ 0 \in 0 .. MaxEdits
      BY BoundsAssumption DEF Moments
    <3>2. NoSurvey \in SurveyType
      BY <3>1 DEF NoSurvey, SurveyType
    <3>3. NoPass \in PassType
      BY <3>1 DEF NoPass, PassType
    <3> QED
      BY <3>1, <3>2, <3>3 DEF SurveysInit, SurveysTypeOK, PassType
  <2> QED
    BY <2>1 DEF SurveysInit, SurveysIInv, ResponsesWhole, AnnouncedOnce, WritesFollow, RemindedOpened, OneTells,
       NoSurvey, NoPass, NoTxn, Underway, HasOpened
<1>2. SurveysIInv /\ [SurveysNext]_surveyVars => SurveysIInv'
  <2> SUFFICES ASSUME SurveysIInv, [SurveysNext]_surveyVars PROVE SurveysIInv'
    OBVIOUS
  <2>1. ASSUME NEW r \in Requests,
               \/ CommitRequest(r)
               \/ Create(r) \/ Update(r) \/ Publish(r) \/ Unpublish(r) \/ Close(r) \/ Remove(r)
               \/ \E u \in Students : Respond(r, u)
        PROVE  SurveysIInv'
    BY <2>1, CommitRequestStep, CreateStep, UpdateStep, PublishStep, UnpublishOrCloseStep, RemoveStep, RespondStep
  <2>2. ASSUME NEW p \in Passes,
               \/ PassBegins(p) \/ PassCloses(p) \/ PassActivates(p) \/ PassAnnounces(p)
               \/ PassReminds(p) \/ PassSends(p)
        PROVE  SurveysIInv'
    BY <2>2, PassBeginsStep, PassClosesStep, PassActivatesStep, PassTellsStep, PassRemindsStep
  <2> QED
    BY <2>1, <2>2, QuietStep DEF SurveysNext
<1> QED
  BY <1>1, <1>2, PTL DEF SurveysSpec

\* Responses and completions match one to one, carry a user unless the survey is anonymous, are
\* answers to its present questions unless an edit came late, and exist only once it has opened:
\* create, update, publish, remove and respond of SurveysService, however they overlap.
THEOREM ResponsesAreWhole == SurveysSpec => []ResponsesWhole
<1>1. SurveysIInv => ResponsesWhole
  BY DEF SurveysIInv
<1> QED
  BY <1>1, SurveysInductive, PTL

\* The audience is told of a survey once at most, and reminded once at most, however many passes
\* of refreshSurveyLifecycle, publications and answers move the survey along at once.
THEOREM AnnouncedAtMostOnce == SurveysSpec => []AnnouncedOnce
<1>1. SurveysIInv => AnnouncedOnce
  BY DEF SurveysIInv
<1> QED
  BY <1>1, SurveysInductive, PTL

\* What a survey that has opened asked and promised stays: no edit, unpublication or removal that
\* began before is installed after (the write conflicts of SurveysService's transactions).
THEOREM PublicationIsFrozen == SurveysSpec => PublicationFrozen
<1>1. SurveysIInv /\ [SurveysNext]_surveyVars =>
        [/\ survey.status \in {"active", "closed"} =>
              /\ survey'.start = survey.start /\ survey'.end = survey.end
              /\ survey'.anonymous = survey.anonymous
              /\ survey'.status \in {survey.status, "closed"}
         /\ survey.status = "closed" => survey'.reason = survey.reason
         /\ survey'.status = "removed" => survey.status \in {"draft", "removed"}]_survey
  <2> SUFFICES ASSUME SurveysIInv, SurveysNext, survey' # survey
               PROVE  /\ survey.status \in {"active", "closed"} =>
                            /\ survey'.start = survey.start /\ survey'.end = survey.end
                            /\ survey'.anonymous = survey.anonymous
                            /\ survey'.status \in {survey.status, "closed"}
                      /\ survey.status = "closed" => survey'.reason = survey.reason
                      /\ survey'.status = "removed" => survey.status \in {"draft", "removed"}
    BY DEF surveyVars
  <2>1. ASSUME NEW r \in Requests, CommitRequest(r)
        PROVE  /\ survey.status \in HasOpened =>
                    /\ survey'.start = survey.start /\ survey'.end = survey.end
                    /\ survey'.anonymous = survey.anonymous /\ survey'.status \in {survey.status, "closed"}
               /\ survey.status = "closed" => survey' = survey
               /\ survey'.status = "removed" => survey.status \in {"draft", "removed"}
    <3> PICK w : w = txn[r].w
      OBVIOUS
    <3>1. w \in WritesType /\ Follows(w, survey, questions, late)
      BY <2>1, TxnTyped DEF SurveysIInv, WritesFollow, CommitRequest, Underway
    <3>2. survey' = IF w.survey = None THEN survey ELSE w.survey
      BY <2>1 DEF CommitRequest
    <3> PICK q : q = IF w.questions = None THEN questions ELSE w.questions
      OBVIOUS
    <3> QED
      BY <3>1, <3>2, SurveyRead, SurveyCommitted
  <2>2. ASSUME NEW p \in Passes, PassCloses(p) \/ PassActivates(p) \/ PassReminds(p)
        PROVE  \/ survey' = [survey EXCEPT !.status = "closed", !.reason = "deadline"]
                  /\ survey.status \in {"active", "scheduled"}
               \/ survey' = [survey EXCEPT !.status = "active"] /\ survey.status = "scheduled"
               \/ survey' = [survey EXCEPT !.reminded = TRUE] /\ survey.status = "active"
    BY <2>2 DEF PassCloses, PassActivates, PassReminds, WriteSurvey, CloseExpired, Expired, Activate, Due, RemindDue
  <2>3. \/ \E r \in Requests : CommitRequest(r)
        \/ \E p \in Passes : PassCloses(p) \/ PassActivates(p) \/ PassReminds(p)
    BY DEF SurveysNext, TimePasses, Abort, Create, Update, Publish, Unpublish, Close, Remove, Respond, Handles,
       PassBegins, PassAnnounces, PassSends, PassEnds
  <2>4. CASE \E r \in Requests : CommitRequest(r)
    BY <2>1, <2>4 DEF HasOpened
  <2>5. CASE \E p \in Passes : PassCloses(p) \/ PassActivates(p) \/ PassReminds(p)
    BY <2>2, <2>5, SurveyRead DEF SurveyType
  <2> QED
    BY <2>3, <2>4, <2>5
<1> QED
  BY <1>1, SurveysInductive, PTL DEF SurveysSpec, PublicationFrozen

----
(* External data.  A row was read upstream at most one load before its stamp, since a load is  *)
(* over LoadTime after its last call for the marks began: while the names are awaited, the     *)
(* marks are no older than the attempts at them.                                               *)

CallType == [at : {"off", "sent", "ok", "failed"}, tries : 0..Retries, since : 0..LoadTime + 1, probe : BOOLEAN]
AskerType == [at : {"idle", "loading", "storing"}, cached : 0..AgeAllowed.stale \cup {Never},
              loaded : Row \cup {Never}, overdue : BOOLEAN]

StampedInTime(r) == r # Never => r.read <= r.fetched + LoadTime

RowsStamped == /\ StampedInTime(row)
               /\ \A q \in Askers : /\ StampedInTime(asker[q].loaded)
                                    /\ asker[q].cached # Never => asker[q].cached < AgeAllowed.stale

\* What a request's two calls hold while it waits for them.
InTime(marks, names) ==
  /\ names.at # "off"
  /\ marks.at \in {"sent", "ok"} =>
       /\ marks.since <= LoadTime
       /\ names.at = "sent" => marks.since <= names.tries + names.since

CallsInTime == \A q \in Askers :
                 /\ asker[q].at = "loading" => InTime(calls[q].marks, calls[q].names)
                 /\ \A e \in Endpoints : Awaited(q, e) => calls[q][e].since <= 1

DataIInv == DataTypeOK /\ ProbeAwaited /\ AnswersHonest /\ RowsStamped /\ CallsInTime

LEMMA AgesAre ==
  /\ LoadTime \in Nat /\ LoadTime = Retries + 1 /\ Retries \in Nat /\ Ttl \in Nat \ {0} /\ StaleFor \in Nat
  /\ Threshold \in Nat \ {0} /\ ResetAfter \in Nat
  /\ AgeAllowed.fresh = Ttl + LoadTime /\ AgeAllowed.stale = Ttl + StaleFor + LoadTime
  /\ AgeAllowed.stale \in Nat /\ LoadTime + 1 <= AgeAllowed.stale
BY DataAssumption DEF LoadTime, AgeAllowed

LEMMA DataRead ==
  ASSUME DataIInv, NEW q \in Askers
  PROVE  /\ asker[q] \in AskerType
         /\ \A e \in Endpoints : calls[q][e] \in CallType
         /\ calls[q].marks \in CallType /\ calls[q].names \in CallType
         /\ calls \in [Askers -> [Endpoints -> CallType]] /\ asker \in [Askers -> AskerType]
         /\ Off \in CallType /\ Resting \in AskerType
BY AgesAre DEF DataIInv, DataTypeOK, AskerType, CallType, Endpoints, Off, Resting

LEMMA RowRead ==
  ASSUME NEW r \in Row, StampedInTime(r), r # Never
  PROVE  /\ r.read \in 0..AgeAllowed.stale /\ r.fetched \in 0..Ttl + StaleFor
         /\ IsFresh(r) => r.read < AgeAllowed.fresh
         /\ Usable(r) => r.read < AgeAllowed.stale
BY AgesAre DEF Row, StampedInTime, IsFresh, Usable

\* An answer leaves, with data no older than its label allows.
LEMMA Answered ==
  ASSUME DataIInv, NEW q \in Askers, AnswerWith(q, FALSE), UNCHANGED <<breakerVars, named>>,
         row' \in Row \cup {Never}, StampedInTime(row')
  PROVE  DataIInv'
<1>1. /\ asker' \in [Askers -> AskerType] /\ asker'[q] = Resting
      /\ \A o \in Askers \ {q} : asker'[o] = asker[o]
  BY DataRead DEF AnswerWith, DataIInv, AnswersHonest, Resting
<1>2. /\ calls' \in [Askers -> [Endpoints -> CallType]]
      /\ \A o \in Askers \ {q} : calls'[o] = calls[o]
      /\ \A e \in Endpoints : calls'[q][e] = IF Awaited(q, e) THEN calls[q][e] ELSE Off
  BY DataRead DEF AnswerWith
<1>3. DataTypeOK'
  BY <1>1, <1>2 DEF DataIInv, DataTypeOK, CallType, AskerType, breakerVars
<1>4. ProbeAwaited'
  BY <1>2 DEF DataIInv, ProbeAwaited, Awaited, breakerVars
<1>5. AnswersHonest'
  BY <1>1 DEF DataIInv, AnswersHonest, Resting
<1>6. RowsStamped'
  BY <1>1 DEF DataIInv, RowsStamped, StampedInTime, Resting
<1>7. CallsInTime'
  BY <1>1, <1>2 DEF DataIInv, CallsInTime, Awaited, Resting, Off, Endpoints
<1> QED
  BY <1>3, <1>4, <1>5, <1>6, <1>7 DEF DataIInv

LEMMA AskerStep ==
  ASSUME DataIInv, NEW q \in Askers, AnswerFromCache(q) \/ FallBack(q) \/ Store(q)
  PROVE  DataIInv'
<1>1. CASE AnswerFromCache(q)
  <2>1. row \in Row /\ StampedInTime(row) /\ row # Never /\ IsFresh(row)
    BY <1>1 DEF AnswerFromCache, DataIInv, DataTypeOK, RowsStamped
  <2>2. ~(row.read >= AgeAllowed.fresh)
    BY <2>1, RowRead, AgesAre
  <2>3. AnswerWith(q, FALSE) /\ UNCHANGED <<breakerVars, named, row>>
    BY <1>1, <2>2 DEF AnswerFromCache, AnswerWith
  <2> QED
    BY <2>1, <2>3, Answered
<1>2. CASE FallBack(q)
  <2>1. ~(asker[q].cached # Never /\ asker[q].cached >= AgeAllowed.stale)
    BY DataRead, AgesAre DEF AskerType, DataIInv, RowsStamped
  <2>2. AnswerWith(q, FALSE) /\ UNCHANGED <<breakerVars, named, row>>
    BY <1>2, <2>1 DEF FallBack, AnswerWith
  <2>3. row \in Row \cup {Never} /\ StampedInTime(row)
    BY DEF DataIInv, DataTypeOK, RowsStamped
  <2> QED
    BY <2>2, <2>3, Answered
<1>3. CASE Store(q)
  <2>1. AnswerWith(q, FALSE) /\ UNCHANGED <<breakerVars, named>> /\ row' \in {row, asker[q].loaded}
    BY <1>3 DEF Store
  <2>2. row' \in Row \cup {Never} /\ StampedInTime(row')
    BY <2>1, DataRead DEF DataIInv, DataTypeOK, RowsStamped, AskerType
  <2> QED
    BY <2>1, <2>2, Answered
<1> QED
  BY <1>1, <1>2, <1>3

LEMMA SentIs ==
  ASSUME NEW admitted \in BOOLEAN
  PROVE  /\ Sent(admitted) \in CallType /\ Sent(admitted).since = 0 /\ Sent(admitted).tries = 0
         /\ Sent(admitted).at \in {"sent", "failed"}
         /\ admitted => Sent(admitted).at = "sent" /\ (CircuitState = "half-open" => Sent(admitted).probe)
<1>1. 0 \in 0..Retries /\ 0 \in 0..LoadTime + 1
  BY AgesAre
<1>2. CASE admitted
  <2> PICK half \in BOOLEAN : half = (CircuitState = "half-open")
    OBVIOUS
  <2> PICK c : c = [at |-> "sent", tries |-> 0, since |-> 0, probe |-> half]
    OBVIOUS
  <2>1. Sent(admitted) = c
    BY <1>2 DEF Sent
  <2>2. /\ c \in CallType /\ c.since = 0 /\ c.tries = 0 /\ c.at = "sent"
        /\ CircuitState = "half-open" => c.probe
    BY <1>1 DEF CallType
  <2> QED
    BY <2>1, <2>2
<1>3. CASE ~admitted
  <2>1. Sent(admitted) = [Off EXCEPT !.at = "failed"]
    BY <1>3 DEF Sent
  <2> QED
    BY <1>1, <1>3, <2>1 DEF Off, CallType
<1> QED
  BY <1>2, <1>3

LEMMA LoadStep ==
  ASSUME DataIInv, NEW q \in Askers, Load(q)
  PROVE  DataIInv'
<1> PICK marks, names, taken :
      /\ taken = (probing \/ (Admitted(probing) /\ CircuitState = "half-open"))
      /\ marks = Sent(Admitted(probing))
      /\ names = IF named THEN [Off EXCEPT !.at = "ok"] ELSE Sent(Admitted(taken))
  OBVIOUS
<1>1. /\ marks \in CallType /\ names \in CallType /\ marks.since = 0 /\ names.since = 0
      /\ marks.tries = 0 /\ names.tries = 0 /\ names.at # "off"
      /\ (Admitted(probing) /\ CircuitState = "half-open") => marks.at = "sent" /\ marks.probe
  <2>1. Admitted(probing) \in BOOLEAN /\ Admitted(taken) \in BOOLEAN
    BY DEF Admitted
  <2>2. [Off EXCEPT !.at = "ok"] \in CallType
    BY DataRead DEF Off, CallType
  <2>3. CASE named
    BY <2>1, <2>2, <2>3, SentIs DEF Off
  <2>4. CASE ~named
    BY <2>1, <2>4, SentIs
  <2> QED
    BY <2>3, <2>4
<1>2. /\ calls' = [calls EXCEPT ![q] = [marks |-> marks, names |-> names]] /\ probing' = taken
      /\ UNCHANGED <<failures, openFor, named, row>>
      /\ \A e \in Endpoints : ~Awaited(q, e)
  BY DEF Load
<1>3. /\ calls' \in [Askers -> [Endpoints -> CallType]]
      /\ \A o \in Askers \ {q} : calls'[o] = calls[o]
      /\ calls'[q].marks = marks /\ calls'[q].names = names
  BY <1>1, <1>2, DataRead DEF Endpoints
<1> PICK kept : kept = IF row # Never /\ Usable(row) THEN row.read ELSE Never
  OBVIOUS
<1>4. kept \in 0..AgeAllowed.stale \cup {Never} /\ (kept # Never => kept < AgeAllowed.stale)
  BY RowRead DEF DataIInv, DataTypeOK, RowsStamped
<1>5. asker' = [asker EXCEPT ![q] = [Resting EXCEPT !.at = "loading", !.cached = kept]]
  BY DEF Load
<1>6. /\ asker' \in [Askers -> AskerType] /\ \A o \in Askers \ {q} : asker'[o] = asker[o]
      /\ asker'[q].cached = kept /\ asker'[q].loaded = Never /\ asker'[q].overdue = FALSE
  BY <1>4, <1>5, DataRead DEF AskerType, Resting
<1>7. taken \in BOOLEAN
  BY DEF DataIInv, DataTypeOK
<1>8. DataTypeOK'
  BY <1>2, <1>3, <1>6, <1>7 DEF DataIInv, DataTypeOK, CallType, AskerType
<1>9. ProbeAwaited'
  <2> SUFFICES ASSUME probing' PROVE \E o \in Askers, e \in Endpoints : Awaited(o, e)' /\ calls'[o][e].probe
    BY DEF ProbeAwaited
  <2>1. CASE probing
    <3>1. PICK o \in Askers, e \in Endpoints : Awaited(o, e) /\ calls[o][e].probe
      BY <2>1 DEF DataIInv, ProbeAwaited
    <3>2. o # q
      BY <1>2, <3>1
    <3> QED
      BY <1>3, <3>1, <3>2 DEF Awaited
  <2>2. CASE ~probing
    BY <1>1, <1>2, <1>3, <2>2 DEF Awaited, Endpoints
  <2> QED
    BY <2>1, <2>2
<1>10. AnswersHonest' /\ RowsStamped'
  BY <1>2, <1>4, <1>6 DEF DataIInv, AnswersHonest, RowsStamped, StampedInTime
<1>11. CallsInTime'
  <2>1. InTime(marks, names)
    BY <1>1, AgesAre DEF InTime
  <2>2. \A e \in Endpoints : calls'[q][e].since = 0
    BY <1>1, <1>3 DEF Endpoints
  <2> QED
    BY <1>3, <1>6, <2>1, <2>2 DEF DataIInv, CallsInTime, Awaited
<1> QED
  BY <1>8, <1>9, <1>10, <1>11 DEF DataIInv


\* One call has another state; what the request holds may use it.
LEMMA CallChanges ==
  ASSUME DataIInv, NEW q \in Askers, NEW e \in Endpoints, NEW c \in CallType,
         calls' = [calls EXCEPT ![q][e] = c]
  PROVE  /\ calls' \in [Askers -> [Endpoints -> CallType]] /\ calls'[q][e] = c
         /\ \A o \in Askers \ {q} : calls'[o] = calls[o]
         /\ \A f \in Endpoints \ {e} : calls'[q][f] = calls[q][f]
BY DataRead

\* A call that is awaited is answered, refused, or tried once more.
LEMMA CallStep ==
  ASSUME DataIInv, NEW q \in Askers, NEW e \in Endpoints,
         CallSucceeds(q, e) \/ CallRetries(q, e) \/ \E retryable \in BOOLEAN : CallFails(q, e, retryable)
  PROVE  DataIInv'
<1> PICK old : old = calls[q][e]
  OBVIOUS
<1>1. /\ old \in CallType /\ old.at = "sent" /\ old.since <= 1
      /\ UNCHANGED <<row, asker>>
  BY DataRead DEF CallSucceeds, CallRetries, CallFails, Awaited, DataIInv, CallsInTime
<1>2. PICK new \in CallType :
        /\ calls' = [calls EXCEPT ![q][e] = new]
        /\ \/ new.at = "ok" /\ new.since = old.since /\ ~probing'
           \/ /\ new.at = "sent" /\ new.since = 0 /\ new.tries = old.tries + 1 /\ new.probe = old.probe
              /\ probing' = probing
           \/ new.at = "failed" /\ ~probing'
  <2>1. CASE CallSucceeds(q, e)
    <3>1. [Off EXCEPT !.at = "ok", !.since = old.since] \in CallType
      BY <1>1, DataRead DEF Off, CallType
    <3> QED
      BY <2>1, <3>1 DEF CallSucceeds, Off
  <2>2. CASE CallRetries(q, e)
    <3>1. old.tries + 1 \in 0..Retries /\ 0 \in 0..LoadTime + 1
      BY <1>1, <2>2, AgesAre DEF CallRetries, CallType
    <3>2. [old EXCEPT !.tries = @ + 1, !.since = 0] \in CallType
      BY <1>1, <3>1 DEF CallType
    <3>3. calls' = [calls EXCEPT ![q][e] = [old EXCEPT !.tries = @ + 1, !.since = 0]]
      BY <2>2, DataRead DEF CallRetries
    <3> QED
      BY <1>1, <2>2, <3>2, <3>3 DEF CallRetries, CallType, breakerVars
  <2>3. ASSUME NEW retryable \in BOOLEAN, CallFails(q, e, retryable)
        PROVE  ~probing' /\ calls' = [calls EXCEPT ![q][e] = [Off EXCEPT !.at = "failed"]]
    BY <2>3 DEF CallFails, RecordFailure
  <2>4. [Off EXCEPT !.at = "failed"] \in CallType /\ [Off EXCEPT !.at = "failed"].at = "failed"
    BY DataRead DEF Off, CallType
  <2> QED
    BY <2>1, <2>2, <2>3, <2>4
<1>3. /\ calls' \in [Askers -> [Endpoints -> CallType]] /\ calls'[q][e] = new
      /\ \A o \in Askers \ {q} : calls'[o] = calls[o]
      /\ \A f \in Endpoints \ {e} : calls'[q][f] = calls[q][f]
  BY <1>2, CallChanges
<1>4. DataTypeOK'
  <2>1. /\ failures \in 0..Threshold /\ openFor \in 0..ResetAfter \cup {Never}
        /\ probing \in BOOLEAN /\ named \in BOOLEAN
    BY DEF DataIInv, DataTypeOK
  <2>2. probing' \in BOOLEAN /\ named' \in BOOLEAN
    BY <2>1 DEF CallSucceeds, CallRetries, CallFails, RecordFailure, breakerVars
  <2>3. failures' \in 0..Threshold
    BY <2>1, AgesAre DEF CallSucceeds, CallRetries, CallFails, RecordFailure, breakerVars
  <2>4. openFor' \in 0..ResetAfter \cup {Never}
    BY <2>1, AgesAre DEF CallSucceeds, CallRetries, CallFails, RecordFailure, breakerVars
  <2> QED
    BY <1>1, <1>3, <2>2, <2>3, <2>4 DEF DataIInv, DataTypeOK, CallType
<1>5. ProbeAwaited'
  <2> SUFFICES ASSUME probing' PROVE \E o \in Askers, f \in Endpoints : Awaited(o, f)' /\ calls'[o][f].probe
    BY DEF ProbeAwaited
  <2>1. new.at = "sent" /\ new.probe = old.probe /\ probing
    BY <1>2
  <2>2. PICK o \in Askers, f \in Endpoints : Awaited(o, f) /\ calls[o][f].probe
    BY <2>1 DEF DataIInv, ProbeAwaited
  <2>3. CASE o = q /\ f = e
    BY <1>3, <2>1, <2>2, <2>3 DEF Awaited
  <2>4. CASE ~(o = q /\ f = e)
    BY <1>3, <2>2, <2>4 DEF Awaited
  <2> QED
    BY <2>3, <2>4
<1>6. CallsInTime'
  <2>1. ASSUME asker[q].at = "loading"
        PROVE  InTime(calls'[q].marks, calls'[q].names)
    <3> PICK marks, names : marks = calls[q].marks /\ names = calls[q].names
      OBVIOUS
    <3>1. InTime(marks, names) /\ marks \in CallType /\ names \in CallType
      BY <2>1, DataRead DEF DataIInv, CallsInTime
    <3>2. CASE e = "marks"
      <4>1. calls'[q].marks = new /\ calls'[q].names = names /\ old = marks
        BY <1>3, <3>2 DEF Endpoints
      <4>2. InTime(new, names)
        BY <1>1, <1>2, <3>1, <4>1, AgesAre DEF InTime, CallType
      <4> QED
        BY <4>1, <4>2
    <3>3. CASE e = "names"
      <4>1. calls'[q].marks = marks /\ calls'[q].names = new /\ old = names
        BY <1>3, <3>3 DEF Endpoints
      <4>2. InTime(marks, new)
        BY <1>1, <1>2, <3>1, <4>1, AgesAre DEF InTime, CallType
      <4> QED
        BY <4>1, <4>2
    <3> QED
      BY <3>2, <3>3 DEF Endpoints
  <2>2. ASSUME NEW o \in Askers, NEW f \in Endpoints, Awaited(o, f)'
        PROVE  calls'[o][f].since <= 1
    <3>1. CASE o = q /\ f = e
      BY <1>2, <1>3, <2>2, <3>1 DEF Awaited
    <3>2. CASE ~(o = q /\ f = e)
      BY <1>3, <2>2, <3>2 DEF Awaited, DataIInv, CallsInTime
    <3> QED
      BY <3>1, <3>2
  <2> QED
    BY <1>1, <1>3, <2>1, <2>2 DEF DataIInv, CallsInTime
<1> QED
  BY <1>1, <1>4, <1>5, <1>6 DEF DataIInv, AnswersHonest, RowsStamped

\* The payload is stamped: it was read upstream within the time of one load.
LEMMA StampStep ==
  ASSUME DataIInv, NEW q \in Askers, Stamp(q)
  PROVE  DataIInv'
<1> PICK since : since = calls[q].marks.since
  OBVIOUS
<1>1. since \in 0..LoadTime
  BY DataRead, AgesAre DEF Stamp, Settled, CallType, DataIInv, CallsInTime, InTime
<1> PICK stamped : stamped = [read |-> since, fetched |-> 0]
  OBVIOUS
<1>2. stamped \in Row /\ StampedInTime(stamped)
  BY <1>1, AgesAre DEF Row, StampedInTime
<1>3. /\ asker' = [asker EXCEPT ![q].at = "storing", ![q].cached = Never, ![q].loaded = stamped]
      /\ calls' = [calls EXCEPT ![q]["marks"] = [Off EXCEPT !.at = "ok"]]
      /\ UNCHANGED <<breakerVars, named, row>> /\ calls[q].marks.at = "ok"
  BY DEF Stamp
<1>4. /\ asker' \in [Askers -> AskerType] /\ \A o \in Askers \ {q} : asker'[o] = asker[o]
      /\ asker'[q].at = "storing" /\ asker'[q].cached = Never /\ asker'[q].loaded = stamped
      /\ asker'[q].overdue = asker[q].overdue
  BY <1>2, <1>3, DataRead DEF AskerType
<1>5. /\ calls' \in [Askers -> [Endpoints -> CallType]] /\ calls'[q].marks.at = "ok"
      /\ \A o \in Askers \ {q} : calls'[o] = calls[o]
      /\ calls'[q].names = calls[q].names
  <2>1. [Off EXCEPT !.at = "ok"] \in CallType /\ [Off EXCEPT !.at = "ok"].at = "ok"
    BY DataRead DEF Off, CallType
  <2> QED
    BY <1>3, <2>1, CallChanges DEF Endpoints
<1>6. \A o \in Askers, e \in Endpoints : /\ Awaited(o, e) => calls'[o][e] = calls[o][e]
                                         /\ Awaited(o, e)' => calls'[o][e] = calls[o][e]
  BY <1>3, <1>5 DEF Awaited, Endpoints
<1>7. DataTypeOK'
  BY <1>3, <1>4, <1>5 DEF DataIInv, DataTypeOK, CallType, AskerType, breakerVars
<1>8. ProbeAwaited'
  BY <1>3, <1>6 DEF DataIInv, ProbeAwaited, Awaited, breakerVars
<1>9. AnswersHonest' /\ RowsStamped'
  BY <1>2, <1>3, <1>4 DEF DataIInv, AnswersHonest, RowsStamped, StampedInTime
<1>10. CallsInTime'
  BY <1>4, <1>5, <1>6 DEF DataIInv, CallsInTime, Awaited
<1> QED
  BY <1>7, <1>8, <1>9, <1>10 DEF DataIInv


LEMMA RowsAge ==
  ASSUME NEW r \in Row, StampedInTime(r), r # Never
  PROVE  Older(r) \in Row /\ StampedInTime(Older(r))
<1>1. r.read \in 0..AgeAllowed.stale /\ r.fetched \in 0..Ttl + StaleFor /\ r.read <= r.fetched + LoadTime
  BY DEF Row, StampedInTime
<1> PICK read, fetched : read = UpTo(AgeAllowed.stale, r.read) /\ fetched = UpTo(Ttl + StaleFor, r.fetched)
  OBVIOUS
<1>2. read \in 0..AgeAllowed.stale /\ fetched \in 0..Ttl + StaleFor /\ read <= fetched + LoadTime
  BY <1>1, AgesAre DEF UpTo
<1>3. Older(r) = [read |-> read, fetched |-> fetched]
  BY DEF Older
<1> QED
  BY <1>2, <1>3 DEF Row, StampedInTime

LEMMA CallsAge ==
  ASSUME NEW c \in CallType
  PROVE  /\ OlderCall(c) \in CallType /\ OlderCall(c).at = c.at /\ OlderCall(c).tries = c.tries
         /\ OlderCall(c).probe = c.probe
         /\ c.at \in {"sent", "ok"} /\ c.since <= LoadTime => OlderCall(c).since = c.since + 1
<1>1. UpTo(LoadTime + 1, c.since) \in 0..LoadTime + 1
  BY AgesAre DEF UpTo, CallType
<1>2. c.since <= LoadTime => UpTo(LoadTime + 1, c.since) = c.since + 1
  BY AgesAre DEF UpTo, CallType
<1> QED
  BY <1>1, <1>2 DEF OlderCall, CallType

\* Time passes: no attempt is older than its timeout, and no settled promise waits.
LEMMA TimeStep ==
  ASSUME DataIInv, TimeoutsPass
  PROVE  DataIInv'
<1>1. /\ calls' \in [Askers -> [Endpoints -> CallType]]
      /\ \A q \in Askers, e \in Endpoints : calls'[q][e] = OlderCall(calls[q][e])
  BY DataRead, CallsAge DEF TimeoutsPass
<1>2. /\ \A q \in Askers : ~Settled(q) /\ \A e \in Endpoints : Awaited(q, e) => calls[q][e].since < 1
      /\ UNCHANGED <<failures, probing, named>>
  BY DEF TimeoutsPass
<1>3. \A q \in Askers : asker'[q] = IF asker[q].loaded = Never THEN asker[q]
                                    ELSE [asker[q] EXCEPT !.loaded = Older(@)]
  BY DEF TimeoutsPass
<1>4. \A q \in Askers : /\ asker'[q] \in AskerType /\ asker'[q].at = asker[q].at
                        /\ asker'[q].cached = asker[q].cached /\ asker'[q].overdue = asker[q].overdue
                        /\ StampedInTime(asker'[q].loaded)
  <2> SUFFICES ASSUME NEW q \in Askers
               PROVE  /\ asker'[q] \in AskerType /\ asker'[q].at = asker[q].at
                      /\ asker'[q].cached = asker[q].cached /\ asker'[q].overdue = asker[q].overdue
                      /\ StampedInTime(asker'[q].loaded)
    OBVIOUS
  <2>1. asker[q] \in AskerType /\ StampedInTime(asker[q].loaded)
    BY DataRead DEF DataIInv, RowsStamped
  <2>2. CASE asker[q].loaded = Never
    BY <1>3, <2>1, <2>2
  <2>3. CASE asker[q].loaded # Never
    <3> PICK r : r = Older(asker[q].loaded)
      OBVIOUS
    <3>1. r \in Row /\ StampedInTime(r)
      BY <2>1, <2>3, RowsAge DEF AskerType
    <3>2. asker'[q] = [asker[q] EXCEPT !.loaded = r]
      BY <1>3, <2>3
    <3> QED
      BY <2>1, <3>1, <3>2 DEF AskerType
  <2> QED
    BY <2>2, <2>3
<1>5. row' \in Row \cup {Never} /\ StampedInTime(row')
  BY RowsAge DEF TimeoutsPass, DataIInv, DataTypeOK, RowsStamped, StampedInTime
<1>6. openFor' \in 0..ResetAfter \cup {Never}
  BY AgesAre DEF TimeoutsPass, UpTo, DataIInv, DataTypeOK
<1>7. asker' \in [Askers -> AskerType]
  BY <1>4 DEF TimeoutsPass
<1>8. DataTypeOK'
  BY <1>1, <1>2, <1>5, <1>6, <1>7 DEF DataIInv, DataTypeOK, CallType, AskerType
<1>9. \A q \in Askers, e \in Endpoints :
        /\ Awaited(q, e)' <=> Awaited(q, e)
        /\ calls'[q][e].probe = calls[q][e].probe
        /\ Awaited(q, e) => calls[q][e].since = 0 /\ calls'[q][e].since = 1
  <2> SUFFICES ASSUME NEW q \in Askers, NEW e \in Endpoints
               PROVE  /\ Awaited(q, e)' <=> Awaited(q, e)
                      /\ calls'[q][e].probe = calls[q][e].probe
                      /\ Awaited(q, e) => calls[q][e].since = 0 /\ calls'[q][e].since = 1
    OBVIOUS
  <2> PICK c : c = calls[q][e]
    OBVIOUS
  <2>1. c \in CallType /\ calls'[q][e] = OlderCall(c)
    BY <1>1, DataRead
  <2>2. c.at = "sent" => c.since = 0
    BY <1>2, <2>1, AgesAre DEF Awaited, CallType
  <2> QED
    BY <2>1, <2>2, CallsAge, AgesAre DEF Awaited
<1>10. ProbeAwaited'
  BY <1>2, <1>9 DEF DataIInv, ProbeAwaited
<1>11. AnswersHonest' /\ RowsStamped'
  BY <1>4, <1>5 DEF DataIInv, AnswersHonest, RowsStamped
<1>12. ASSUME NEW q \in Askers, asker'[q].at = "loading"
       PROVE  InTime(calls'[q].marks, calls'[q].names)
  <2> PICK marks, names : marks = calls[q].marks /\ names = calls[q].names
    OBVIOUS
  <2>1. asker[q].at = "loading" /\ InTime(marks, names) /\ marks \in CallType /\ names \in CallType
    BY <1>4, <1>12, DataRead DEF DataIInv, CallsInTime
  <2>2. calls'[q].marks = OlderCall(marks) /\ calls'[q].names = OlderCall(names)
    BY <1>1 DEF Endpoints
  <2>3. /\ marks.at = "sent" => marks.since = 0
        /\ names.at = "sent" => names.since = 0
        /\ ~(marks.at = "ok" /\ names.at \in {"ok", "failed"})
    BY <1>2, <1>9, <2>1 DEF Awaited, Endpoints, Settled
  <2>4. names.at \in {"sent", "ok", "failed"} /\ names.tries \in 0..Retries /\ marks.since \in Nat
    BY <2>1 DEF InTime, CallType
  <2>5. InTime(OlderCall(marks), OlderCall(names))
    BY <2>1, <2>3, <2>4, CallsAge, AgesAre DEF InTime
  <2> QED
    BY <2>2, <2>5
<1>13. CallsInTime'
  BY <1>9, <1>12 DEF CallsInTime
<1> QED
  BY <1>8, <1>10, <1>11, <1>13 DEF DataIInv

\* The invariant is inductive.
THEOREM DataInductive == DataSpec => []DataIInv
<1>1. DataInit => DataIInv
  <2> SUFFICES ASSUME DataInit PROVE DataIInv
    OBVIOUS
  <2>1. Off \in CallType /\ Resting \in AskerType
    BY AgesAre DEF Off, CallType, Resting, AskerType
  <2>2. DataTypeOK
    <3>1. calls \in [Askers -> [Endpoints -> CallType]] /\ asker \in [Askers -> AskerType]
      BY <2>1 DEF DataInit
    <3>2. probing \in BOOLEAN /\ named \in BOOLEAN /\ openFor = Never /\ row = Never
      BY DEF DataInit
    <3>3. failures \in 0..Threshold
      BY AgesAre DEF DataInit
    <3> QED
      BY <3>1, <3>2, <3>3 DEF DataTypeOK, CallType, AskerType
  <2> QED
    BY <2>2 DEF DataInit, DataIInv, ProbeAwaited, AnswersHonest, RowsStamped, StampedInTime, CallsInTime,
       Awaited, Off, Resting, Endpoints
<1>2. DataIInv /\ [DataNext]_dataVars => DataIInv'
  <2> SUFFICES ASSUME DataIInv, [DataNext]_dataVars PROVE DataIInv'
    OBVIOUS
  <2>1. ASSUME NEW q \in Askers,
               \/ AnswerFromCache(q) \/ Load(q) \/ FallBack(q) \/ Stamp(q) \/ Store(q)
               \/ \E e \in Endpoints : \/ CallSucceeds(q, e) \/ CallRetries(q, e)
                                       \/ \E retryable \in BOOLEAN : CallFails(q, e, retryable)
        PROVE  DataIInv'
    BY <2>1, AskerStep, LoadStep, StampStep, CallStep
  <2>2. CASE Purge
    BY <2>2 DEF Purge, breakerVars, DataIInv, DataTypeOK, ProbeAwaited, AnswersHonest, RowsStamped, StampedInTime,
       CallsInTime, Awaited
  <2>3. CASE RestartServer
    <3>1. Off \in CallType /\ Resting \in AskerType
      BY AgesAre DEF Off, CallType, Resting, AskerType
    <3>2. DataTypeOK'
      <4>1. calls' \in [Askers -> [Endpoints -> CallType]] /\ asker' \in [Askers -> AskerType]
        BY <2>3, <3>1 DEF RestartServer
      <4>2. probing' \in BOOLEAN /\ named' \in BOOLEAN /\ openFor' = Never /\ row' = row
        BY <2>3 DEF RestartServer
      <4>3. failures' \in 0..Threshold
        BY <2>3, AgesAre DEF RestartServer
      <4> QED
        BY <4>1, <4>2, <4>3 DEF DataIInv, DataTypeOK, CallType, AskerType
    <3> QED
      BY <2>3, <3>2 DEF RestartServer, DataIInv, ProbeAwaited, AnswersHonest, RowsStamped, StampedInTime,
         CallsInTime, Awaited, Off, Resting, Endpoints
  <2>4. CASE UNCHANGED dataVars
    BY <2>4 DEF dataVars, breakerVars, DataIInv, DataTypeOK, ProbeAwaited, AnswersHonest, RowsStamped, StampedInTime,
       CallsInTime, Awaited
  <2> QED
    BY <2>1, <2>2, <2>3, <2>4, TimeStep DEF DataNext
<1> QED
  BY <1>1, <1>2, PTL DEF DataSpec

\* Data shown as current or as stale are no older than the label says, whichever requests overlap,
\* fall back, store late or find what another stored (ExternalDataCacheService.getOrLoad).
THEOREM AnswersAreHonest == DataSpec => []AnswersHonest
<1>1. DataIInv => AnswersHonest
  BY DEF DataIInv
<1> QED
  BY <1>1, DataInductive, PTL

\* A half-open circuit that turns calls away has its probe in flight: a call that ends in any way,
\* late or out of order, leaves no flag behind (the circuit breaker of MaupStudentApiClient).
THEOREM ProbeIsAwaited == DataSpec => []ProbeAwaited
<1>1. DataIInv => ProbeAwaited
  BY DEF DataIInv
<1> QED
  BY <1>1, DataInductive, PTL

----
(* Migrations.  The migration lock protects the database for any number of instances, migrations, *)
(* crashes and expired leases.  The invariant adds what an instance knows: whatever is not pending *)
(* for it any more is recorded (PendingCovers), so that its current migration comes right after   *)
(* recorded ones; what it is about to record has run (RecordingIsPerformed); it releases the lock *)
(* without an error only when nothing is left (ReleasedIsDone); and until a lease has lapsed,     *)
(* whoever is past the lock owns it (HoldersOwn).                                                 *)

Applying == {"renewing", "running", "recording"}
Holding == {"locked", "renewing", "running", "recording", "releasing"}

RecordsSound == /\ records \subseteq performed
                /\ \A m \in records : 1..m \subseteq records

UpIsCurrent == \A i \in Instances : instance[i].at = "up" => records = Registry

PendingCovers ==
  \A i \in Instances : instance[i].at \in Applying => Registry \ instance[i].pending \subseteq records

RecordingIsPerformed ==
  \A i \in Instances : instance[i].at = "recording" => Current(i) \in performed

ReleasedIsDone ==
  \A i \in Instances : instance[i].at = "releasing" /\ ~instance[i].error => records = Registry

HoldersOwn ==
  ~lapsed => \A i \in Instances : instance[i].at \in Holding => lock.owner = i /\ lock.valid

MigrationsIInv == /\ MigrationsTypeOK /\ RecordsSound /\ UpIsCurrent /\ PendingCovers
        /\ RecordingIsPerformed /\ ReleasedIsDone /\ HoldersOwn
----
(* The current migration. *)

Least(S) == CHOOSE m \in S : \A n \in S : m <= n

Place == [at : {"down", "waiting", "locked", "renewing", "running", "recording", "releasing", "up"},
          pending : SUBSET Registry, heartbeatError : BOOLEAN, error : BOOLEAN]

\* A set of migrations that is not empty has a first one.
LEMMA LeastExists ==
  ASSUME NEW S \in SUBSET Registry, S # {}
  PROVE  /\ Least(S) \in S
         /\ \A n \in S : Least(S) <= n
<1>1. S \subseteq Nat
  BY RegistryAssumption DEF Registry
<1>2. PICK m \in S : \A n \in S : ~(<<n, m>> \in OpToRel(<, Nat))
  BY <1>1, NatLessThanWellFounded, WFMin
<1>3. \A n \in S : m <= n
  <2> SUFFICES ASSUME NEW n \in S PROVE m <= n
    OBVIOUS
  <2>1. ~(n < m)
    BY <1>1, <1>2 DEF OpToRel
  <2> QED
    BY <1>1, <2>1
<1> QED
  BY <1>3 DEF Least

LEMMA CurrentIsLeast == \A i \in Instances : Current(i) = Least(instance[i].pending)
BY DEF Current, Least

\* An instance that has the lock and applies migrations is at one that comes right after
\* recorded ones.
LEMMA CurrentFollowsRecords ==
  ASSUME MigrationsIInv, NEW i \in Instances, instance[i].at \in Applying
  PROVE  /\ Current(i) \in instance[i].pending
         /\ Current(i) \in Registry
         /\ 1..(Current(i) - 1) \subseteq records
<1>1. instance[i].pending \in SUBSET Registry /\ instance[i].pending # {}
  BY DEF MigrationsIInv, MigrationsTypeOK, Applying
<1>2. Current(i) \in instance[i].pending /\ \A n \in instance[i].pending : Current(i) <= n
  BY <1>1, LeastExists, CurrentIsLeast
<1>3. ASSUME NEW n \in 1..(Current(i) - 1) PROVE n \in records
  <2>1. n \in Registry /\ ~(Current(i) <= n)
    BY <1>1, <1>2, RegistryAssumption DEF Registry
  <2> QED
    BY <1>2, <2>1 DEF MigrationsIInv, PendingCovers
<1> QED
  BY <1>1, <1>2, <1>3

----
(* What a step of one instance has to respect. *)

\* The instance i goes to the place x: MigrationsIInv is kept if x agrees with what is recorded and
\* performed after the step, and the lock is respected.
LEMMA InstanceMoves ==
  ASSUME MigrationsIInv, NEW i \in Instances, NEW x \in Place,
         instance' = [instance EXCEPT ![i] = x],
         lock' \in [owner : Instances \cup {Nobody, Departed}, valid : BOOLEAN],
         lapsed' \in BOOLEAN,
         records \subseteq records', records' \subseteq Registry,
         performed \subseteq performed', performed' \subseteq Registry,
         RecordsSound', HoldersOwn',
         x.at \in Applying => x.pending # {} /\ Registry \ x.pending \subseteq records',
         x.at = "recording" => Least(x.pending) \in performed',
         x.at = "up" \/ (x.at = "releasing" /\ ~x.error) => records' = Registry
  PROVE  MigrationsIInv'
<1>1. instance \in [Instances -> Place]
  BY DEF MigrationsIInv, MigrationsTypeOK, Place
<1>2. /\ instance' \in [Instances -> Place]
      /\ instance'[i] = x
      /\ \A j \in Instances : j # i => instance'[j] = instance[j]
  BY <1>1
<1>3. MigrationsTypeOK'
  BY <1>2 DEF MigrationsIInv, MigrationsTypeOK, Place, Applying
<1>4. UpIsCurrent'
  BY <1>2 DEF MigrationsIInv, UpIsCurrent, Registry
<1>5. PendingCovers'
  BY <1>2 DEF MigrationsIInv, PendingCovers, Registry
<1>6. RecordingIsPerformed'
  <2> SUFFICES ASSUME NEW j \in Instances, instance'[j].at = "recording"
               PROVE  Least(instance'[j].pending) \in performed'
    BY DEF RecordingIsPerformed, Current, Least
  <2>1. CASE j = i
    BY <1>2, <2>1
  <2>2. CASE j # i
    BY <1>2, <2>2, CurrentIsLeast DEF MigrationsIInv, RecordingIsPerformed
  <2> QED
    BY <2>1, <2>2
<1>7. ReleasedIsDone'
  BY <1>2 DEF MigrationsIInv, ReleasedIsDone, Registry
<1> QED
  BY <1>3, <1>4, <1>5, <1>6, <1>7 DEF MigrationsIInv

\* A step that leaves the lock alone, unless it is the lock of i itself, and by which i does not
\* come to hold it.
LEMMA LockRespected ==
  ASSUME MigrationsIInv, NEW i \in Instances, NEW x \in Place,
         instance' = [instance EXCEPT ![i] = x], lapsed' = lapsed,
         lock' = lock \/ lock.owner = i,
         x.at \in Holding => /\ instance[i].at \in Holding
                             /\ lock'.owner = lock.owner /\ (lock.valid => lock'.valid)
  PROVE  HoldersOwn'
<1>1. instance \in [Instances -> Place]
  BY DEF MigrationsIInv, MigrationsTypeOK, Place
<1>2. ASSUME ~lapsed', NEW j \in Instances, instance'[j].at \in Holding
      PROVE  lock'.owner = j /\ lock'.valid
  <2>1. CASE j = i
    BY <1>1, <1>2, <2>1 DEF MigrationsIInv, HoldersOwn
  <2>2. CASE j # i
    BY <1>1, <1>2, <2>2 DEF MigrationsIInv, HoldersOwn
  <2> QED
    BY <2>1, <2>2
<1> QED
  BY <1>2 DEF HoldersOwn

----
(* One lemma for the actions of each part of onModuleInit. *)

LEMMA StartSteps ==
  ASSUME MigrationsIInv, NEW i \in Instances, StartUp(i) \/ GiveUpWaiting(i) \/ ReadRecords(i)
  PROVE  MigrationsIInv'
<1>1. instance \in [Instances -> Place] /\ instance[i] \in Place
  BY DEF MigrationsIInv, MigrationsTypeOK, Place
<1>2. CASE StartUp(i)
  <2> DEFINE x == [instance[i] EXCEPT !.at = "waiting"]
  <2>1. x \in Place /\ x.at = "waiting" /\ instance' = [instance EXCEPT ![i] = x]
    BY <1>1, <1>2 DEF StartUp, MoveTo, Place
  <2>2. HoldersOwn' /\ RecordsSound'
    BY <1>2, <2>1, LockRespected DEF StartUp, Holding, MigrationsIInv, RecordsSound
  <2> QED
    BY <1>2, <2>1, <2>2, InstanceMoves DEF StartUp, MigrationsIInv, MigrationsTypeOK, Applying
<1>3. CASE GiveUpWaiting(i)
  <2> DEFINE x == [instance[i] EXCEPT !.at = IF Pending = {} THEN "up" ELSE "down"]
  <2>1. x \in Place /\ instance' = [instance EXCEPT ![i] = x]
    BY <1>1, <1>3 DEF GiveUpWaiting, MoveTo, Place
  <2>2. x.at \in {"up", "down"} /\ (x.at = "up" => Pending = {})
    BY <1>1 DEF Place
  <2>3. HoldersOwn' /\ RecordsSound'
    BY <1>3, <2>1, <2>2, LockRespected DEF GiveUpWaiting, Holding, MigrationsIInv, RecordsSound
  <2>4. x.at = "up" => records' = Registry
    BY <1>3, <2>2 DEF GiveUpWaiting, Pending, MigrationsIInv, MigrationsTypeOK
  <2> QED
    BY <1>3, <2>1, <2>2, <2>3, <2>4, InstanceMoves DEF GiveUpWaiting, MigrationsIInv, MigrationsTypeOK, Applying
<1>4. CASE ReadRecords(i)
  <2> DEFINE x == [instance[i] EXCEPT !.pending = Pending,
                                      !.at = IF Pending = {} THEN "releasing" ELSE "renewing"]
  <2>1. x \in Place /\ instance' = [instance EXCEPT ![i] = x]
    BY <1>1, <1>4 DEF ReadRecords, Place, Pending
  <2>2. /\ x.pending = Pending /\ x.at \in {"releasing", "renewing"}
        /\ x.at = "releasing" <=> Pending = {}
    BY <1>1 DEF Place
  <2>3. HoldersOwn' /\ RecordsSound'
    BY <1>4, <2>1, <2>2, LockRespected DEF ReadRecords, Holding, MigrationsIInv, RecordsSound
  <2>4. /\ x.at = "releasing" => records' = Registry
        /\ x.at \in Applying => x.pending # {} /\ Registry \ x.pending \subseteq records'
    BY <1>4, <2>2 DEF ReadRecords, Pending, MigrationsIInv, MigrationsTypeOK, Applying
  <2>5. x.at \notin {"recording", "up"}
    BY <2>2
  <2>6. /\ UNCHANGED <<lock, records, performed, lapsed>>
        /\ lock \in [owner : Instances \cup {Nobody, Departed}, valid : BOOLEAN]
        /\ lapsed \in BOOLEAN /\ records \subseteq Registry /\ performed \subseteq Registry
    BY <1>4 DEF ReadRecords, MigrationsIInv, MigrationsTypeOK
  <2> HIDE DEF x
  <2> QED
    BY <2>1, <2>3, <2>4, <2>5, <2>6, InstanceMoves
<1> QED
  BY <1>2, <1>3, <1>4

\* The lock is free: before a lease has lapsed, nobody is past it.
LEMMA AcquireStep ==
  ASSUME MigrationsIInv, NEW i \in Instances, TryAcquireLock(i)
  PROVE  MigrationsIInv'
<1>1. instance \in [Instances -> Place] /\ instance[i] \in Place
  BY DEF MigrationsIInv, MigrationsTypeOK, Place
<1> DEFINE x == [instance[i] EXCEPT !.at = "locked"]
<1>2. x \in Place /\ x.at = "locked" /\ instance' = [instance EXCEPT ![i] = x]
  BY <1>1 DEF TryAcquireLock, MoveTo, Place
<1>3. ~lapsed => \A j \in Instances : instance[j].at \notin Holding
  BY OwnersAssumption DEF TryAcquireLock, LockFree, Holding, MigrationsIInv, HoldersOwn
<1>4. HoldersOwn'
  <2> SUFFICES ASSUME ~lapsed', NEW j \in Instances, instance'[j].at \in Holding
               PROVE  lock'.owner = j /\ lock'.valid
    BY DEF HoldersOwn
  <2>1. j = i
    BY <1>1, <1>2, <1>3 DEF TryAcquireLock
  <2> QED
    BY <2>1 DEF TryAcquireLock
<1>5. RecordsSound'
  BY DEF TryAcquireLock, MigrationsIInv, RecordsSound
<1> QED
  BY <1>2, <1>4, <1>5, InstanceMoves DEF TryAcquireLock, MigrationsIInv, MigrationsTypeOK, Applying

\* Renewals and failures leave the set of pending migrations and all that is recorded alone.
LEMMA RenewalSteps ==
  ASSUME MigrationsIInv, NEW i \in Instances,
         RenewLock(i) \/ Heartbeat(i) \/ HeartbeatFails(i) \/ StatementFails(i)
  PROVE  MigrationsIInv'
<1>1. instance \in [Instances -> Place] /\ instance[i] \in Place
  BY DEF MigrationsIInv, MigrationsTypeOK, Place
<1>2. /\ instance[i].at \in {"locked", "renewing", "running", "recording"}
      /\ UNCHANGED <<records, performed, lapsed>>
      /\ lock' = lock \/ (lock.owner = i /\ lock' = [lock EXCEPT !.valid = TRUE])
  BY DEF RenewLock, Heartbeat, HeartbeatFails, StatementFails
<1>3. ASSUME NEW x \in Place, instance' = [instance EXCEPT ![i] = x],
             x.pending = instance[i].pending,
             \/ x.at = "running" /\ instance[i].at \in {"renewing", "running"}
             \/ x.at = "releasing" /\ x.error
      PROVE  MigrationsIInv'
  <2>1. lock' \in [owner : Instances \cup {Nobody, Departed}, valid : BOOLEAN]
    BY <1>2 DEF MigrationsIInv, MigrationsTypeOK
  <2>2. lock'.owner = lock.owner /\ (lock.valid => lock'.valid)
    BY <1>2 DEF MigrationsIInv, MigrationsTypeOK
  <2>3. HoldersOwn' /\ RecordsSound'
    BY <1>2, <1>3, <2>2, LockRespected DEF Holding, MigrationsIInv, RecordsSound
  <2>4. x.at \in Applying => x.pending # {} /\ Registry \ x.pending \subseteq records'
    BY <1>2, <1>3 DEF MigrationsIInv, MigrationsTypeOK, PendingCovers, Applying
  <2> QED
    BY <1>2, <1>3, <2>1, <2>3, <2>4, InstanceMoves DEF MigrationsIInv, MigrationsTypeOK
<1> DEFINE runs == [instance[i] EXCEPT !.at = "running"]
           stops == [instance[i] EXCEPT !.at = "releasing", !.error = TRUE]
           warned == [instance[i] EXCEPT !.heartbeatError = TRUE]
<1>4. /\ runs \in Place /\ runs.pending = instance[i].pending /\ runs.at = "running"
      /\ stops \in Place /\ stops.pending = instance[i].pending
      /\ stops.at = "releasing" /\ stops.error
      /\ warned \in Place /\ warned.pending = instance[i].pending /\ warned.at = instance[i].at
  BY <1>1 DEF Place
<1>5. CASE RenewLock(i)
  <2>1. instance' = [instance EXCEPT ![i] = runs] \/ instance' = [instance EXCEPT ![i] = stops]
    BY <1>1, <1>5 DEF RenewLock, MoveTo, Fail
  <2> QED
    BY <1>3, <1>4, <1>5, <2>1 DEF RenewLock
<1>6. CASE Heartbeat(i) \/ HeartbeatFails(i)
  <2>1. \/ instance' = [instance EXCEPT ![i] = instance[i]]
        \/ instance' = [instance EXCEPT ![i] = warned]
    BY <1>1, <1>6 DEF Heartbeat, HeartbeatFails
  <2> QED
    BY <1>1, <1>3, <1>4, <1>6, <2>1 DEF Heartbeat, HeartbeatFails
<1>7. CASE StatementFails(i)
  <2>1. instance' = [instance EXCEPT ![i] = stops]
    BY <1>1, <1>7 DEF StatementFails, Fail
  <2> QED
    BY <1>3, <1>4, <2>1
<1> QED
  BY <1>5, <1>6, <1>7

\* The migration has run: it is performed, and still the current one.
LEMMA UpEndsStep ==
  ASSUME MigrationsIInv, NEW i \in Instances, UpEnds(i)
  PROVE  MigrationsIInv'
<1>1. instance \in [Instances -> Place] /\ instance[i] \in Place
  BY DEF MigrationsIInv, MigrationsTypeOK, Place
<1> DEFINE records_ == [instance[i] EXCEPT !.at = "recording"]
           stops == [instance[i] EXCEPT !.at = "releasing", !.error = TRUE]
<1>2. Current(i) \in Registry
  BY CurrentFollowsRecords DEF UpEnds, Applying
<1>3. /\ UNCHANGED <<lock, records, lapsed>> /\ instance[i].at = "running"
      /\ performed' = performed \cup {Current(i)}
  BY DEF UpEnds
<1>4. performed' \subseteq Registry /\ RecordsSound'
  BY <1>2, <1>3 DEF MigrationsIInv, MigrationsTypeOK, RecordsSound
<1>5. CASE instance' = [instance EXCEPT ![i] = records_]
  <2>1. records_ \in Place /\ records_.at = "recording" /\ records_.pending = instance[i].pending
    BY <1>1 DEF Place
  <2>2. HoldersOwn'
    BY <1>3, <1>5, <2>1, LockRespected DEF Holding
  <2>3. records_.pending # {} /\ Registry \ records_.pending \subseteq records'
    BY <1>3, <2>1 DEF MigrationsIInv, MigrationsTypeOK, PendingCovers, Applying
  <2>4. Least(records_.pending) \in performed'
    BY <1>3, <2>1, CurrentIsLeast
  <2> QED
    BY <1>3, <1>4, <1>5, <2>1, <2>2, <2>3, <2>4, InstanceMoves DEF MigrationsIInv, MigrationsTypeOK
<1>6. CASE instance' = [instance EXCEPT ![i] = stops]
  <2>1. stops \in Place /\ stops.at = "releasing" /\ stops.error
    BY <1>1 DEF Place
  <2>2. HoldersOwn'
    BY <1>3, <1>6, <2>1, LockRespected DEF Holding
  <2> QED
    BY <1>3, <1>4, <1>6, <2>1, <2>2, InstanceMoves DEF MigrationsIInv, MigrationsTypeOK, Applying
<1> QED
  BY <1>1, <1>5, <1>6 DEF UpEnds, MoveTo, Fail

\* The current migration is recorded, unless somebody else has recorded it.
LEMMA InsertRecordStep ==
  ASSUME MigrationsIInv, NEW i \in Instances, InsertRecord(i)
  PROVE  MigrationsIInv'
<1>1. instance \in [Instances -> Place] /\ instance[i] \in Place
  BY DEF MigrationsIInv, MigrationsTypeOK, Place
<1> DEFINE m == Current(i)
           rest == instance[i].pending \ {m}
           goes == [instance[i] EXCEPT !.pending = rest,
                                       !.at = IF rest = {} THEN "releasing" ELSE "renewing"]
           stops == [instance[i] EXCEPT !.at = "releasing", !.error = TRUE]
<1>2. UNCHANGED <<lock, performed, lapsed>> /\ instance[i].at = "recording"
  BY DEF InsertRecord
<1>3. m \in Registry /\ 1..(m - 1) \subseteq records /\ m \in performed
  BY <1>2, CurrentFollowsRecords DEF Applying, MigrationsIInv, RecordingIsPerformed
<1>4. CASE m \in records
  <2>1. UNCHANGED records /\ instance' = [instance EXCEPT ![i] = stops]
    BY <1>1, <1>4 DEF InsertRecord, Fail
  <2>2. stops \in Place /\ stops.at = "releasing" /\ stops.error
    BY <1>1 DEF Place
  <2>3. HoldersOwn' /\ RecordsSound'
    BY <1>2, <2>1, <2>2, LockRespected DEF Holding, MigrationsIInv, RecordsSound
  <2> QED
    BY <1>2, <2>1, <2>2, <2>3, InstanceMoves DEF MigrationsIInv, MigrationsTypeOK, Applying
<1>5. CASE m \notin records
  <2>1. records' = records \cup {m} /\ instance' = [instance EXCEPT ![i] = goes]
    BY <1>1, <1>5 DEF InsertRecord
  <2>2. /\ goes \in Place /\ goes.pending = rest /\ goes.at \in {"releasing", "renewing"}
        /\ goes.at = "releasing" <=> rest = {}
    BY <1>1 DEF Place
  <2>3. RecordsSound'
    <3>1. 1..m \subseteq (1..(m - 1)) \cup {m}
      BY <1>3, RegistryAssumption DEF Registry
    <3>2. 1..m \subseteq records'
      BY <1>3, <2>1, <3>1
    <3>3. records' \subseteq performed'
      BY <1>2, <1>3, <2>1 DEF MigrationsIInv, RecordsSound
    <3> HIDE DEF m
    <3> QED
      BY <2>1, <3>2, <3>3 DEF MigrationsIInv, RecordsSound
  <2>4. HoldersOwn'
    BY <1>2, <2>1, <2>2, LockRespected DEF Holding
  <2>5. Registry \ rest \subseteq records' /\ records' \subseteq Registry
    BY <1>2, <1>3, <2>1 DEF MigrationsIInv, MigrationsTypeOK, PendingCovers, Applying
  <2>6. goes.at = "releasing" => records' = Registry
    BY <2>2, <2>5
  <2> QED
    BY <1>2, <2>1, <2>2, <2>3, <2>4, <2>5, <2>6, InstanceMoves DEF MigrationsIInv, MigrationsTypeOK, Applying
<1> QED
  BY <1>4, <1>5

LEMMA ReleaseSteps ==
  ASSUME MigrationsIInv, NEW i \in Instances, ReleaseLock(i) \/ Die(i)
  PROVE  MigrationsIInv'
<1>1. instance \in [Instances -> Place] /\ instance[i] \in Place
  BY DEF MigrationsIInv, MigrationsTypeOK, Place
<1>2. UNCHANGED <<records, performed, lapsed>>
  BY DEF ReleaseLock, Die
<1>3. PICK x \in Place :
        /\ instance' = [instance EXCEPT ![i] = x] /\ x.at \in {"down", "up"}
        /\ x.at = "up" => instance[i].at = "releasing" /\ ~instance[i].error
  <2>1. Down \in Place /\ [Down EXCEPT !.at = "up"] \in Place /\ [Down EXCEPT !.at = "down"] \in Place
    BY DEF Down, Place
  <2>2. /\ Down.at = "down"
        /\ [Down EXCEPT !.at = "up"].at = "up" /\ [Down EXCEPT !.at = "down"].at = "down"
    BY DEF Down
  <2> QED
    BY <2>1, <2>2 DEF ReleaseLock, Die
<1>4. /\ lock' \in [owner : Instances \cup {Nobody, Departed}, valid : BOOLEAN]
      /\ lock' = lock \/ lock.owner = i
  <2>1. lock \in [owner : Instances \cup {Nobody, Departed}, valid : BOOLEAN]
    BY DEF MigrationsIInv, MigrationsTypeOK
  <2>2. /\ [owner |-> Nobody, valid |-> FALSE]
             \in [owner : Instances \cup {Nobody, Departed}, valid : BOOLEAN]
        /\ [lock EXCEPT !.owner = Departed]
             \in [owner : Instances \cup {Nobody, Departed}, valid : BOOLEAN]
    BY <2>1
  <2> QED
    BY <2>1, <2>2 DEF ReleaseLock, Die
<1>5. HoldersOwn' /\ RecordsSound'
  BY <1>2, <1>3, <1>4, LockRespected DEF Holding, MigrationsIInv, RecordsSound
<1>6. x.at = "up" => records' = Registry
  BY <1>2, <1>3 DEF MigrationsIInv, ReleasedIsDone
<1> QED
  BY <1>2, <1>3, <1>4, <1>5, <1>6, InstanceMoves DEF MigrationsIInv, MigrationsTypeOK, Applying

\* The lease of a dead process is nobody's; any other one lapses.
LEMMA LeaseStep ==
  ASSUME MigrationsIInv, LeaseRunsOut
  PROVE  MigrationsIInv'
<1>1. /\ UNCHANGED <<records, instance, performed>> /\ lapsed' = (lapsed \/ lock.owner # Departed)
      /\ lock' = [lock EXCEPT !.valid = FALSE]
  BY DEF LeaseRunsOut
<1>2. HoldersOwn'
  BY <1>1, OwnersAssumption DEF MigrationsIInv, HoldersOwn
<1>3. MigrationsTypeOK'
  BY <1>1 DEF MigrationsIInv, MigrationsTypeOK, Registry
<1>4. RecordsSound' /\ UpIsCurrent' /\ PendingCovers' /\ ReleasedIsDone'
  BY <1>1 DEF MigrationsIInv, RecordsSound, UpIsCurrent, PendingCovers, ReleasedIsDone, Registry
<1>5. RecordingIsPerformed'
  BY <1>1 DEF MigrationsIInv, RecordingIsPerformed, Current
<1> QED
  BY <1>2, <1>3, <1>4, <1>5 DEF MigrationsIInv

----
(* The theorems. *)

\* MigrationsIInv holds in every reachable state.
THEOREM MigrationsInductive == MigrationsSpec => []MigrationsIInv
<1>1. MigrationsInit => MigrationsIInv
  <2> SUFFICES ASSUME MigrationsInit PROVE MigrationsIInv
    OBVIOUS
  <2>1. \A i \in Instances : instance[i] = Down /\ instance[i].at = "down"
    BY DEF MigrationsInit, Down
  <2>2. MigrationsTypeOK
    <3>1. lock \in [owner : Instances \cup {Nobody, Departed}, valid : BOOLEAN]
      BY DEF MigrationsInit
    <3>2. instance \in [Instances -> Place]
      BY DEF MigrationsInit, Down, Place
    <3> QED
      BY <2>1, <3>1, <3>2 DEF MigrationsTypeOK, MigrationsInit, Place
  <2> QED
    BY <2>1, <2>2
    DEF MigrationsInit, MigrationsIInv, RecordsSound, UpIsCurrent, PendingCovers, RecordingIsPerformed,
        ReleasedIsDone, HoldersOwn, Applying, Holding
<1>2. MigrationsIInv /\ [MigrationsNext]_migrationVars => MigrationsIInv'
  <2> SUFFICES ASSUME MigrationsIInv, [MigrationsNext]_migrationVars PROVE MigrationsIInv'
    OBVIOUS
  <2>1. CASE UNCHANGED migrationVars
    <3>1. RecordingIsPerformed'
      BY <2>1 DEF migrationVars, MigrationsIInv, RecordingIsPerformed, Current
    <3> QED
      BY <2>1, <3>1
      DEF migrationVars, MigrationsIInv, MigrationsTypeOK, RecordsSound, UpIsCurrent, PendingCovers,
          ReleasedIsDone, HoldersOwn, Registry
  <2>2. CASE LeaseRunsOut
    BY <2>2, LeaseStep
  <2>3. ASSUME NEW i \in Instances,
               \/ StartUp(i) \/ TryAcquireLock(i) \/ GiveUpWaiting(i) \/ ReadRecords(i)
               \/ RenewLock(i) \/ Heartbeat(i) \/ HeartbeatFails(i) \/ UpEnds(i) \/ InsertRecord(i)
               \/ StatementFails(i) \/ ReleaseLock(i) \/ Die(i)
        PROVE  MigrationsIInv'
    BY <2>3, StartSteps, AcquireStep, RenewalSteps, UpEndsStep, InsertRecordStep, ReleaseSteps
  <2> QED
    BY <2>1, <2>2, <2>3 DEF MigrationsNext
<1> QED
  BY <1>1, <1>2, PTL DEF MigrationsSpec

\* The lock, the records and the places of the instances keep their types.
THEOREM MigrationsTypeCorrect == MigrationsSpec => []MigrationsTypeOK
<1>1. MigrationsIInv => MigrationsTypeOK
  BY DEF MigrationsIInv
<1> QED
  BY <1>1, MigrationsInductive, PTL

\* onModuleInit: whoever serves requests finds every migration recorded and run to its end; they
\* are recorded in order, and unless a lease has lapsed never two run at a time.
THEOREM DatabaseIsReady == MigrationsSpec => []DatabaseReady
<1>1. MigrationsIInv => DatabaseReady
  <2> SUFFICES ASSUME MigrationsIInv PROVE DatabaseReady
    OBVIOUS
  <2>1. \A i \in Running : 1..(Current(i) - 1) \subseteq records
    BY CurrentFollowsRecords DEF Running, Applying
  <2>2. \A i, j \in Running : i # j => lapsed
    BY DEF Running, MigrationsIInv, HoldersOwn, Holding
  <2> QED
    BY <2>1, <2>2 DEF DatabaseReady, MigrationsIInv, RecordsSound, UpIsCurrent
<1> QED
  BY <1>1, MigrationsInductive, PTL

----
(* The platform.  Each part of it behaves as it does alone. *)

Focused == focus \in {"files", "migrations", "terms", "schedule", "surveys", "gradebook"}

LEMMA PartsBehave ==
  Spec => /\ FilesSpec /\ MigrationsSpec /\ TermsSpec /\ ScheduleSpec /\ SurveysSpec /\ DataSpec
          /\ []Focused
<1>1. Init => /\ FilesInit /\ MigrationsInit /\ TermsInit /\ ScheduleInit /\ SurveysInit /\ DataInit
              /\ Focused
  BY DEF Init, Focused
<1>2. [Next]_vars =>
        /\ [FilesNext]_fileVars /\ [MigrationsNext]_migrationVars /\ [TermsNext]_termVars
        /\ [ScheduleNext]_scheduleVars /\ [SurveysNext]_surveyVars /\ [DataNext]_dataVars
  BY DEF Next, vars
<1>3. Focused /\ [Next]_vars => Focused'
  BY DEF Next, vars, Focused
<1> QED
  BY <1>1, <1>2, <1>3, PTL
     DEF Spec, FilesSpec, MigrationsSpec, TermsSpec, ScheduleSpec, SurveysSpec, DataSpec

\* Every document, lock, file, request and call keeps its type, whichever of the six parts runs: no
\* statement of theirs writes into what another request has removed, and no counter leaves its range.
THEOREM PlatformTypeCorrect == Spec => []PlatformTypeOK
<1>1. /\ TermsIInv => TermsTypeOK
      /\ SurveysIInv => SurveysTypeOK
      /\ DataIInv => DataTypeOK
  BY DEF TermsIInv, SurveysIInv, DataIInv
<1>2. /\ Focused
      /\ FilesTypeOK /\ MigrationsTypeOK /\ TermsTypeOK /\ ScheduleTypeOK /\ SurveysTypeOK /\ DataTypeOK
      => PlatformTypeOK
  BY DEF PlatformTypeOK, Focused
<1> QED
  BY <1>1, <1>2, PartsBehave, FilesTypeCorrect, MigrationsTypeCorrect, TermsInductive, ScheduleTypeCorrect,
     SurveysInductive, DataInductive, PTL
====
