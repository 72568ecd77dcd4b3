---- MODULE FileStore ----
(***************************************************************************)
(* Uploaded files: a document in MongoDB and a file on disk, written by    *)
(* one request whose transaction covers only the first.  FilesService does *)
(* the work; TransactionInterceptor opens the transaction, the driver runs *)
(* the handler again after a transient error, and                          *)
(* TransactionLifecycleService calls what the handler registered, after    *)
(* the commit or after the failure.                                        *)
(*                                                                         *)
(* A file is the random name drawn for it, kept across the driver's runs   *)
(* (getOrCreate).  All callbacks of a request act on that one name and are *)
(* idempotent, so the lists are two flags.  Abstracted: contents, types,   *)
(* owners, audit events.  Transactions are on (the deployed setting).      *)
(***************************************************************************)
EXTENDS FiniteSets

CONSTANTS Files,      \* storage names
          Calls,      \* HTTP requests under way at a time
          NoFile

ASSUME FilesAssumption == NoFile \notin Files

VARIABLES documents,   \* files with a committed document
          quarantine,  \* names in uploads/quarantine
          clean,       \* names in uploads/clean
          call,        \* the requests
          unsure,      \* history: files whose commit had an unknown outcome
          litter       \* history: files left behind by a crash or an I/O error

fileVars == <<documents, quarantine, clean, call, unsure, litter>>

Steps == {"idle", "write", "scan", "rename", "insert", "delete", "commit",
          "committed", "failed"}

Ended == [step |-> "idle", file |-> NoFile, deletes |-> FALSE,
          undo |-> FALSE, purge |-> FALSE]

FilesTypeOK ==
  /\ documents \subseteq Files /\ quarantine \subseteq Files /\ clean \subseteq Files
  /\ unsure \subseteq Files /\ litter \subseteq Files
  /\ call \in [Calls -> [step : Steps, file : Files \cup {NoFile}, deletes : BOOLEAN,
                         undo : BOOLEAN, purge : BOOLEAN]]
  /\ \A c \in Calls : /\ call[c].undo => ~call[c].deletes
                      /\ call[c].purge => call[c].deletes

----
OnDisk == quarantine \cup clean
InFlight == {call[c].file : c \in Calls} \ {NoFile}

Goto(c, step) == call' = [call EXCEPT ![c].step = step]

\* The request leaves the file where it is, and nobody comes back for it.
Abandon(f) == litter' = litter \cup (({f} \cap (quarantine' \cup clean')) \ documents)

FilesInit ==
  /\ documents = {} /\ quarantine = {} /\ clean = {} /\ unsure = {} /\ litter = {}
  /\ call = [c \in Calls |-> Ended]

----
(* saveFile *)

\* A name is drawn once per request: a UUID, so never one still known anywhere.
Upload(c, f) ==
  /\ call[c].step = "idle"
  /\ f \notin documents \cup OnDisk \cup InFlight
  /\ call' = [call EXCEPT ![c] = [Ended EXCEPT !.step = "write", !.file = f]]
  /\ litter' = litter \ {f} /\ unsure' = unsure \ {f}
  /\ UNCHANGED <<documents, quarantine, clean>>

\* The undo callback is registered only once the file is written.
WriteQuarantine(c) ==
  /\ call[c].step = "write"
  /\ quarantine' = quarantine \cup {call[c].file}
  /\ call' = [call EXCEPT ![c].step = "scan", ![c].undo = TRUE]
  /\ UNCHANGED <<documents, clean, unsure, litter>>

\* A write that fails half-way may leave a part of the file, which the catch does not unlink
\* and, in the first run of the handler, no callback removes.
WriteFails(c) ==
  /\ call[c].step = "write"
  /\ \/ UNCHANGED <<quarantine, litter>>
     \/ /\ quarantine' = quarantine \cup {call[c].file}
        /\ litter' = IF call[c].undo THEN litter ELSE litter \cup {call[c].file}
  /\ Goto(c, "failed")
  /\ UNCHANGED <<documents, clean, unsure>>

ScanAccepts(c) ==
  /\ call[c].step = "scan" /\ Goto(c, "rename")
  /\ UNCHANGED <<documents, quarantine, clean, unsure, litter>>

Rename(c) ==
  /\ call[c].step = "rename"
  /\ quarantine' = quarantine \ {call[c].file}
  /\ clean' = clean \cup {call[c].file}
  /\ Goto(c, "insert")
  /\ UNCHANGED <<documents, unsure, litter>>

\* The scanner rejects or fails, or the rename does: the catch unlinks what was written, and
\* ignores an error of the unlink.
QuarantineFails(c) ==
  /\ call[c].step \in {"scan", "rename"}
  /\ quarantine' \in {quarantine, quarantine \ {call[c].file}}
  /\ Goto(c, "failed")
  /\ UNCHANGED <<documents, clean, unsure, litter>>

\* The document and its audit event become part of the transaction.
Insert(c) ==
  /\ call[c].step = "insert" /\ Goto(c, "commit")
  /\ UNCHANGED <<documents, quarantine, clean, unsure, litter>>

InsertFails(c) ==
  /\ call[c].step = "insert"
  /\ clean' \in {clean, clean \ {call[c].file}}
  /\ Goto(c, "failed")
  /\ UNCHANGED <<documents, quarantine, unsure, litter>>

----
(* deleteFile *)

Deleting(f) == \E c \in Calls : /\ call[c].deletes /\ call[c].file = f
                                /\ call[c].step = "commit"

Delete(c, f) ==
  /\ call[c].step = "idle" /\ f \in documents
  /\ call' = [call EXCEPT ![c] = [Ended EXCEPT !.step = "delete", !.file = f, !.deletes = TRUE]]
  /\ UNCHANGED <<documents, quarantine, clean, unsure, litter>>

\* findByIdAndDelete; the removal of the file is left to the commit.
DeleteDocument(c) ==
  /\ call[c].step = "delete"
  /\ call[c].file \in documents /\ ~Deleting(call[c].file)
  /\ call' = [call EXCEPT ![c].step = "commit", ![c].purge = TRUE]
  /\ UNCHANGED <<documents, quarantine, clean, unsure, litter>>

\* Not found, a write conflict with another deletion, or any other error.
DeleteFails(c) ==
  /\ call[c].step = "delete" /\ Goto(c, "failed")
  /\ UNCHANGED <<documents, quarantine, clean, unsure, litter>>

----
(* The transaction around the handler. *)

Committed(c) == IF call[c].deletes THEN documents \ {call[c].file}
                                   ELSE documents \cup {call[c].file}

Commit(c) ==
  /\ call[c].step = "commit"
  /\ documents' = Committed(c)
  /\ Goto(c, "committed")
  /\ UNCHANGED <<quarantine, clean, unsure, litter>>

\* Mutant: callbacks of one run of the handler only.
RunAgainForgetting(c) ==
  /\ call[c].step = "commit"
  /\ call' = [call EXCEPT ![c].step = IF call[c].deletes THEN "delete" ELSE "write",
                          ![c].undo = FALSE, ![c].purge = FALSE]
  /\ UNCHANGED <<documents, quarantine, clean, unsure, litter>>

\* TransientTransactionError: the driver runs the handler again; what the first run
\* registered stays registered, and the name stays the same.
RunAgain(c) ==
  /\ call[c].step = "commit"
  /\ Goto(c, IF call[c].deletes THEN "delete" ELSE "write")
  /\ UNCHANGED <<documents, quarantine, clean, unsure, litter>>

\* The reply to the commit is lost or late (maxCommitTimeMS): it may have taken effect, and
\* the interceptor treats it as a failure.
CommitUnknown(c) ==
  /\ call[c].step = "commit"
  /\ documents' \in {documents, Committed(c)}
  /\ unsure' = unsure \cup {call[c].file}
  /\ Goto(c, "failed")
  /\ UNCHANGED <<quarantine, clean, litter>>

\* executeCallbacks(afterCommit): an error of the removal is logged.
AfterCommit(c) ==
  LET f == call[c].file IN
  /\ call[c].step = "committed"
  /\ \/ /\ clean' = IF call[c].purge THEN clean \ {f} ELSE clean
        /\ UNCHANGED <<quarantine, litter>>
     \/ /\ call[c].purge
        /\ UNCHANGED <<quarantine, clean>> /\ Abandon(f)
  /\ call' = [call EXCEPT ![c] = Ended]
  /\ UNCHANGED <<documents, unsure>>

\* executeCallbacks(afterRollback): first the quarantined file, then the clean one; an error
\* of either removal ends the callback and is logged.
AfterRollback(c) ==
  LET f == call[c].file IN
  /\ call[c].step = "failed"
  /\ \/ /\ ~call[c].undo
        /\ UNCHANGED <<quarantine, clean, litter>>
     \/ /\ call[c].undo
        /\ quarantine' = quarantine \ {f} /\ clean' = clean \ {f}
        /\ UNCHANGED litter
     \/ /\ call[c].undo
        /\ quarantine' \in {quarantine, quarantine \ {f}} /\ UNCHANGED clean
        /\ Abandon(f)
  /\ call' = [call EXCEPT ![c] = Ended]
  /\ UNCHANGED <<documents, unsure>>

\* The process dies: an open transaction is aborted, no callback runs.
ProcessDies(c) ==
  /\ call[c].step # "idle"
  /\ call' = [call EXCEPT ![c] = Ended]
  /\ UNCHANGED <<documents, quarantine, clean, unsure>>
  /\ Abandon(call[c].file)

FilesNext ==
  \/ \E c \in Calls, f \in Files : Upload(c, f) \/ Delete(c, f)
  \/ \E c \in Calls :
        \/ WriteQuarantine(c) \/ WriteFails(c) \/ ScanAccepts(c) \/ Rename(c)
        \/ QuarantineFails(c) \/ Insert(c) \/ InsertFails(c)
        \/ DeleteDocument(c) \/ DeleteFails(c)
        \/ Commit(c) \/ RunAgain(c) \/ CommitUnknown(c)
        \/ AfterCommit(c) \/ AfterRollback(c) \/ ProcessDies(c)

FilesSpec == FilesInit /\ [][FilesNext]_fileVars

----
(* A document whose commit was acknowledged has its file, whatever failed, died or was run    *)
(* again around it: no callback of another request removes it.  And what is on disk without a *)
(* document belongs to a request under way, or was left behind by a crash, an I/O error or a  *)
(* commit of unknown outcome; a failed or repeated upload alone leaves nothing (onRollback    *)
(* and onCommit of FilesService).  Nothing is said of the files whose own commit had an       *)
(* unknown outcome: the code takes it for a failure, and afterRollback may remove the file of *)
(* a document that is there.                                                                  *)
FilesKept ==
  /\ documents \ unsure \subseteq clean
  /\ OnDisk \subseteq documents \cup InFlight \cup litter \cup unsure
====
