---- MODULE AcademicTerms ----
(***************************************************************************)
(* AcademicTermsService: the terms, at most one of which is current.  Each *)
(* handler runs in a transaction with snapshot reads, so it is one action  *)
(* that reads the committed collection and opens a transaction holding its *)
(* writes; Commit installs them, and ends the transactions that wrote the  *)
(* same document or the same entry of the unique index on the current      *)
(* status (the driver runs their handlers again).                          *)
(*                                                                         *)
(* A term is its year and number, which a unique index makes an identity.  *)
(* Its dates are abstracted: that two terms of a year do not overlap is    *)
(* read before the write and protected by nothing, and not claimed here.   *)
(***************************************************************************)
EXTENDS Naturals, FiniteSets

CONSTANTS Terms,       \* pairs of an academic year and a number
          Managers,    \* transactions under way at a time
          NoWrite

VARIABLES term,        \* status of the document of each term, or "absent"
          writes       \* per transaction: the terms it writes and their new status

termVars == <<term, writes>>

Status == {"absent", "planned", "current", "closed"}

TermsTypeOK ==
  /\ term \in [Terms -> Status]
  /\ \A m \in Managers : \/ writes[m] = NoWrite
                         \/ \E W \in SUBSET Terms : W # {} /\ writes[m] \in [W -> Status]

TermsInit ==
  /\ term = [t \in Terms |-> "absent"]
  /\ writes = [m \in Managers |-> NoWrite]

----
CurrentTerms == {t \in Terms : term[t] = "current"}

OpenTerms(m, w) ==
  /\ writes[m] = NoWrite
  /\ writes' = [writes EXCEPT ![m] = w]
  /\ UNCHANGED term

Write(t, status) == [x \in {t} |-> status]

CreateTerm(m, t) == term[t] = "absent" /\ OpenTerms(m, Write(t, "planned"))

\* Only dates and university keys change.
UpdateTerm(m, t) == term[t] = "planned" /\ OpenTerms(m, Write(t, "planned"))

\* getCurrent: findOne, one document at most.
ActivateTerm(m, t) ==
  /\ term[t] \in {"planned", "closed"}
  /\ OpenTerms(m, [x \in CurrentTerms \cup {t} |-> IF x = t THEN "current" ELSE "closed"])

\* The counts of referring documents only make it refuse.
RemoveTerm(m, t) == term[t] = "planned" /\ OpenTerms(m, Write(t, "absent"))

\* Mutant: no unique index on the current status.
EntriesOfDocuments(m) == DOMAIN writes[m]

\* What MongoDB locks: the documents, and the index entry of a term that becomes current.
Entries(m) ==
  DOMAIN writes[m] \cup {"current" : t \in {x \in DOMAIN writes[m] : writes[m][x] = "current"}}

CommitTerms(m) ==
  /\ writes[m] # NoWrite
  /\ term' = [t \in Terms |-> IF t \in DOMAIN writes[m] THEN writes[m][t] ELSE term[t]]
  /\ writes' = [n \in Managers |->
                  IF n = m \/ (writes[n] # NoWrite /\ Entries(n) \cap Entries(m) # {})
                  THEN NoWrite ELSE writes[n]]

AbortTerms(m) ==
  /\ writes[m] # NoWrite
  /\ writes' = [writes EXCEPT ![m] = NoWrite]
  /\ UNCHANGED term

TermsNext ==
  \E m \in Managers :
    \/ \E t \in Terms : CreateTerm(m, t) \/ UpdateTerm(m, t) \/ ActivateTerm(m, t) \/ RemoveTerm(m, t)
    \/ CommitTerms(m) \/ AbortTerms(m)

TermsSpec == TermsInit /\ [][TermsNext]_termVars

----
(* From the first activation on there is exactly one current term, which only another one     *)
(* replaces, whichever activations, edits and removals overlap; and a term that has been      *)
(* current is never removed (activate and remove of AcademicTermsService, unique index of the *)
(* schema).                                                                                   *)
CurrentTermKept ==
  [][/\ Cardinality(CurrentTerms') <= 1
     /\ CurrentTerms # {} => CurrentTerms' # {}
     /\ \A t \in Terms : term[t] \in {"current", "closed"} => term'[t] \in {"current", "closed"}
    ]_termVars
====
