---- MODULE MCPlatform ----
(* Six parts that share no state, each explored on its own: a behaviour has one of them in *)
(* its focus, and the others stay as they began.                                           *)
EXTENDS FileStore, Migrations, AcademicTerms, ScheduleSnapshot, Surveys, ExternalData, TLC

CONSTANTS r1, r2, r3, web1, web2

\* Two requests share a process, the third has its own.
Serving == (r1 :> web1) @@ (r2 :> web1) @@ (r3 :> web2)

VARIABLE focus

vars == <<focus, fileVars, migrationVars, termVars, scheduleVars, surveyVars, dataVars>>

Init == /\ focus \in {"files", "migrations", "terms", "schedule", "surveys", "gradebook"}
        /\ FilesInit /\ MigrationsInit /\ TermsInit /\ ScheduleInit /\ SurveysInit /\ DataInit
        /\ focus # "schedule" => upstream = CHOOSE x \in Timetables : TRUE

Next ==
  /\ UNCHANGED focus
  /\ \/ focus = "files" /\ FilesNext
        /\ UNCHANGED <<migrationVars, termVars, scheduleVars, surveyVars, dataVars>>
     \/ focus = "migrations" /\ MigrationsNext
        /\ UNCHANGED <<fileVars, termVars, scheduleVars, surveyVars, dataVars>>
     \/ focus = "terms" /\ TermsNext
        /\ UNCHANGED <<fileVars, migrationVars, scheduleVars, surveyVars, dataVars>>
     \/ focus = "schedule" /\ ScheduleNext
        /\ UNCHANGED <<fileVars, migrationVars, termVars, surveyVars, dataVars>>
     \/ focus = "surveys" /\ SurveysNext
        /\ UNCHANGED <<fileVars, migrationVars, termVars, scheduleVars, dataVars>>
     \/ focus = "gradebook" /\ DataNext
        /\ UNCHANGED <<fileVars, migrationVars, termVars, scheduleVars, surveyVars>>

Spec == Init /\ [][Next]_vars

\* Every document, lock, file, request and call of the part in focus has its declared type.
PlatformTypeOK ==
  \/ focus = "files" /\ FilesTypeOK
  \/ focus = "migrations" /\ MigrationsTypeOK
  \/ focus = "terms" /\ TermsTypeOK
  \/ focus = "schedule" /\ ScheduleTypeOK
  \/ focus = "surveys" /\ SurveysTypeOK
  \/ focus = "gradebook" /\ DataTypeOK
====
