---- MODULE FileStoreProofs ----
(***************************************************************************)
(* A document whose commit was acknowledged keeps its file, for any number *)
(* of files and overlapping requests, whatever fails, dies or is run again *)
(* around it.                                                              *)
(*                                                                         *)
(* The inductive invariant says who answers for a file: an upload that has *)
(* not committed is alone with its file, which has no document             *)
(* (UploadAlone), knows where it is and has registered its removal as soon *)
(* as there is something to remove (UploadTracked); a deletion that has    *)
(* committed will remove a file that has no document any more              *)
(* (DeleteTracked); and a file on disk that has no document is one of      *)
(* theirs (DiskOwned).  Only files whose commit had an unknown outcome are *)
(* exempt.                                                                 *)
(***************************************************************************)
EXTENDS FileStore, TLAPS

FilePlace == [step : Steps, file : Files \cup {NoFile}, deletes : BOOLEAN,
              undo : BOOLEAN, purge : BOOLEAN]

Uploading(x) == ~x.deletes /\ x.step \notin {"idle", "committed"}
Owner(x) == Uploading(x) \/ (x.deletes /\ x.step = "committed")

PlaceOK(x) ==
  /\ x \in FilePlace
  /\ x.undo => ~x.deletes
  /\ x.purge => x.deletes
  /\ x.step = "idle" <=> x.file = NoFile
  /\ x.step \in {"write", "scan", "rename", "insert"} => ~x.deletes
  /\ x.step = "delete" => x.deletes

PlacesOK == \A c \in Calls : PlaceOK(call[c])

UploadAlone ==
  \A c \in Calls :
    Uploading(call[c]) /\ call[c].file \notin unsure =>
      /\ call[c].file \notin documents
      /\ \A d \in Calls \ {c} : call[d].file # call[c].file

UploadTracked ==
  \A c \in Calls :
    LET f == call[c].file IN
    Uploading(call[c]) /\ f \notin unsure =>
      /\ call[c].step \in {"insert", "commit"} => f \in clean /\ f \notin quarantine
      /\ call[c].step \in {"scan", "rename", "insert", "commit"} => call[c].undo
      /\ ~call[c].undo => f \notin OnDisk \/ (call[c].step = "failed" /\ f \in litter)

DeleteTracked ==
  \A c \in Calls :
    LET f == call[c].file IN
    call[c].deletes =>
      /\ call[c].step \in {"commit", "committed"} =>
           call[c].purge /\ (f \notin unsure => f \notin quarantine)
      /\ call[c].step = "committed" /\ f \notin unsure => f \notin documents

DocumentsStored == documents \ unsure \subseteq clean \ quarantine

DiskOwned ==
  \A f \in OnDisk \ (documents \cup litter \cup unsure) :
    \E c \in Calls : Owner(call[c]) /\ call[c].file = f

FilesIInv == /\ FilesTypeOK /\ PlacesOK /\ UploadAlone /\ UploadTracked /\ DeleteTracked
        /\ DocumentsStored /\ DiskOwned
----
(* What a step of one request has to respect. *)

\* The sets differ at most at f.
SameBut(f, S, T) == \A g \in Files : g # f => (g \in S <=> g \in T)

OnlyAt(f) == /\ SameBut(f, documents, documents') /\ SameBut(f, quarantine, quarantine')
             /\ SameBut(f, clean, clean') /\ SameBut(f, unsure, unsure')
             /\ SameBut(f, litter, litter')

SetsTyped == /\ documents \subseteq Files /\ quarantine \subseteq Files /\ clean \subseteq Files
             /\ unsure \subseteq Files /\ litter \subseteq Files

\* An upload at the place x, whose file nobody is unsure of, knows where the file is.
TracksUpload(x) ==
  /\ x.file \notin documents
  /\ x.step \in {"insert", "commit"} => x.file \in clean /\ x.file \notin quarantine
  /\ x.step \in {"scan", "rename", "insert", "commit"} => x.undo
  /\ ~x.undo => x.file \notin OnDisk \/ (x.step = "failed" /\ x.file \in litter)

\* A deletion at the place x.
TracksDeletion(x) ==
  /\ x.step \in {"commit", "committed"} =>
       x.purge /\ (x.file \notin unsure => x.file \notin quarantine)
  /\ x.step = "committed" /\ x.file \notin unsure => x.file \notin documents

\* The request c, which works on f, goes to the place x, and only f is touched.
LEMMA CallMoves ==
  ASSUME FilesIInv, NEW c \in Calls, NEW f \in Files, call[c].file = f,
         NEW x, PlaceOK(x), x.file \in {f, NoFile}, call' = [call EXCEPT ![c] = x],
         SetsTyped', OnlyAt(f),
         unsure \subseteq unsure', litter \subseteq litter',
         Uploading(x) => Uploading(call[c]),
         Uploading(x) /\ f \notin unsure' => TracksUpload(x)',
         x.deletes => TracksDeletion(x)',
         f \in documents' => f \in documents \cup unsure' \/ Uploading(call[c]),
         f \in quarantine' => f \in quarantine \cup unsure' \/ Uploading(call[c]),
         f \in documents' /\ f \notin unsure' => f \in clean' /\ f \notin quarantine',
         f \in OnDisk' => \/ f \in documents' \cup litter' \cup unsure'
                          \/ Owner(x) /\ x.file = f
                          \/ ~Owner(call[c]) /\ f \in OnDisk \ documents
  PROVE  FilesIInv'
<1>1. call \in [Calls -> FilePlace] /\ PlacesOK /\ f # NoFile
  BY FilesAssumption DEF FilesIInv, FilesTypeOK, FilePlace
<1>2. /\ call' \in [Calls -> FilePlace] /\ call'[c] = x
      /\ \A d \in Calls : d # c => call'[d] = call[d]
  BY <1>1 DEF PlaceOK
<1>3. PlacesOK'
  BY <1>1, <1>2 DEF PlacesOK
<1>4. FilesTypeOK'
  BY <1>2, <1>3 DEF FilesTypeOK, SetsTyped, PlacesOK, PlaceOK, FilePlace
<1>5. ASSUME NEW d \in Calls, d # c, Uploading(call[d]), call[d].file \notin unsure
      PROVE  call[d].file # f
  BY <1>5 DEF FilesIInv, UploadAlone
<1>6. UploadAlone'
  <2> SUFFICES ASSUME NEW d \in Calls, Uploading(call'[d]), call'[d].file \notin unsure'
               PROVE  /\ call'[d].file \notin documents'
                      /\ \A e \in Calls \ {d} : call'[e].file # call'[d].file
    BY DEF UploadAlone
  <2>1. CASE d = c
    <3>1. x.file = f
      BY <1>1, <1>2, <2>1 DEF PlaceOK, Uploading
    <3>2. f \notin documents'
      BY <1>2, <2>1, <3>1 DEF TracksUpload
    <3>3. Uploading(call[c]) /\ f \notin unsure
      BY <1>2, <2>1, <3>1
    <3> QED
      BY <1>2, <2>1, <3>1, <3>2, <3>3 DEF FilesIInv, UploadAlone
  <2>2. CASE d # c
    <3>1. Uploading(call[d]) /\ call'[d] = call[d] /\ call[d].file \notin unsure
      BY <1>2, <2>2
    <3>2. call[d].file # f /\ call[d].file \in Files
      BY <1>1, <1>5, <2>2, <3>1 DEF PlacesOK, PlaceOK, FilePlace, Uploading
    <3> QED
      BY <1>1, <1>2, <2>2, <3>1, <3>2 DEF FilesIInv, UploadAlone, OnlyAt, SameBut, PlacesOK, PlaceOK, Uploading
  <2> QED
    BY <2>1, <2>2
<1>7. UploadTracked'
  <2> SUFFICES ASSUME NEW d \in Calls, NEW y, y = call'[d],
                      Uploading(y), y.file \notin unsure'
               PROVE  TracksUpload(y)'
    BY DEF UploadTracked, TracksUpload
  <2>1. CASE d = c
    BY <1>1, <1>2, <2>1 DEF PlaceOK, Uploading
  <2>2. CASE d # c
    <3>1. y = call[d] /\ y.file \notin unsure
      BY <1>2, <2>2
    <3>2. y.file # f /\ y.file \in Files
      BY <1>1, <1>5, <2>2, <3>1 DEF PlacesOK, PlaceOK, FilePlace, Uploading
    <3>3. TracksUpload(y)
      BY <3>1 DEF FilesIInv, UploadTracked, UploadAlone, TracksUpload
    <3> QED
      BY <3>2, <3>3 DEF TracksUpload, OnlyAt, SameBut, OnDisk
  <2> QED
    BY <2>1, <2>2
<1>8. DeleteTracked'
  <2> SUFFICES ASSUME NEW d \in Calls, NEW y, y = call'[d], y.deletes PROVE TracksDeletion(y)'
    BY DEF DeleteTracked, TracksDeletion
  <2>1. CASE d = c
    BY <1>2, <2>1
  <2>2. CASE d # c
    <3>1. y = call[d] /\ TracksDeletion(y)
      BY <1>2, <2>2 DEF FilesIInv, DeleteTracked, TracksDeletion
    <3>2. CASE y.file = f
      <4>1. Uploading(call[c]) => f \in unsure
        BY <2>2, <3>1, <3>2 DEF FilesIInv, UploadAlone
      <4> QED
        BY <3>1, <3>2, <4>1 DEF TracksDeletion
    <3>3. CASE y.file # f
      BY <1>1, <3>1, <3>3 DEF TracksDeletion, OnlyAt, SameBut, PlacesOK, PlaceOK, FilePlace, SetsTyped
    <3> QED
      BY <3>2, <3>3
  <2> QED
    BY <2>1, <2>2
<1>9. DocumentsStored'
  BY DEF FilesIInv, DocumentsStored, OnlyAt, SameBut, SetsTyped
<1>10. DiskOwned'
  <2> SUFFICES ASSUME NEW g \in Files, g \in OnDisk', g \notin documents' \cup litter' \cup unsure'
               PROVE  \E d \in Calls : Owner(call'[d]) /\ call'[d].file = g
    BY DEF DiskOwned, SetsTyped, OnDisk
  <2>1. CASE g # f
    <3>1. PICK d \in Calls : Owner(call[d]) /\ call[d].file = g
      BY <2>1 DEF FilesIInv, DiskOwned, OnlyAt, SameBut, OnDisk
    <3> QED
      BY <1>2, <2>1, <3>1
  <2>2. CASE g = f /\ Owner(x) /\ x.file = f
    BY <1>2, <2>2
  <2>3. CASE g = f /\ ~Owner(call[c]) /\ f \in OnDisk \ documents
    <3>1. PICK d \in Calls : Owner(call[d]) /\ call[d].file = f
      BY <2>3 DEF FilesIInv, DiskOwned
    <3> QED
      BY <1>2, <2>3, <3>1
  <2> QED
    BY <2>1, <2>2, <2>3
<1> QED
  BY <1>3, <1>4, <1>6, <1>7, <1>8, <1>9, <1>10 DEF FilesIInv
----
(* The requests begin. *)

\* What is known of a request under way.
LEMMA Known ==
  ASSUME FilesIInv, NEW c \in Calls, call[c].step # "idle"
  PROVE  /\ PlaceOK(call[c]) /\ call[c].file \in Files
         /\ Uploading(call[c]) /\ call[c].file \notin unsure => TracksUpload(call[c])
         /\ call[c].deletes => TracksDeletion(call[c])
         /\ call[c].file \in documents /\ call[c].file \notin unsure =>
              call[c].file \in clean /\ call[c].file \notin quarantine
BY DEF FilesIInv, PlacesOK, PlaceOK, FilePlace, UploadAlone, UploadTracked, DeleteTracked, DocumentsStored,
       TracksUpload, TracksDeletion

LEMMA UploadStep ==
  ASSUME FilesIInv, NEW c \in Calls, NEW f \in Files, Upload(c, f)
  PROVE  FilesIInv'
<1> DEFINE x == [Ended EXCEPT !.step = "write", !.file = f]
<1>1. /\ f \notin documents \cup OnDisk /\ \A d \in Calls : call[d].file # f
      /\ call' = [call EXCEPT ![c] = x] /\ UNCHANGED <<documents, quarantine, clean>>
      /\ litter' = litter \ {f} /\ unsure' = unsure \ {f}
  BY FilesAssumption DEF Upload, InFlight
<1>2. /\ x.step = "write" /\ x.file = f /\ ~x.deletes /\ ~x.undo /\ ~x.purge
      /\ x \in FilePlace
  BY DEF Ended, FilePlace, Steps
<1> HIDE DEF x
<1>3. call \in [Calls -> FilePlace]
  BY DEF FilesIInv, FilesTypeOK, FilePlace
<1>4. call'[c] = x /\ \A d \in Calls : d # c => call'[d] = call[d]
  BY <1>1, <1>3
<1>5. FilesTypeOK'
  BY <1>1, <1>2, <1>3, <1>4 DEF FilesIInv, FilesTypeOK, FilePlace
<1>6. PlacesOK'
  BY <1>2, <1>4, FilesAssumption DEF FilesIInv, PlacesOK, PlaceOK
<1>7. UploadAlone'
  BY <1>1, <1>2, <1>4 DEF FilesIInv, UploadAlone
<1>8. UploadTracked'
  BY <1>1, <1>2, <1>4 DEF FilesIInv, UploadTracked, OnDisk
<1>9. DeleteTracked'
  BY <1>1, <1>2, <1>4 DEF FilesIInv, DeleteTracked
<1>10. DocumentsStored'
  BY <1>1 DEF FilesIInv, DocumentsStored
<1>11. DiskOwned'
  <2> SUFFICES ASSUME NEW g \in OnDisk' \ (documents' \cup litter' \cup unsure')
               PROVE  \E d \in Calls : Owner(call'[d]) /\ call'[d].file = g
    BY DEF DiskOwned
  <2>1. g # f /\ g \in OnDisk \ (documents \cup litter \cup unsure)
    BY <1>1 DEF OnDisk
  <2>2. PICK d \in Calls : Owner(call[d]) /\ call[d].file = g
    BY <2>1 DEF FilesIInv, DiskOwned
  <2>3. d # c
    BY <2>2 DEF Upload, Owner, Uploading, FilesIInv, PlacesOK, PlaceOK
  <2> QED
    BY <1>4, <2>2, <2>3
<1> QED
  BY <1>5, <1>6, <1>7, <1>8, <1>9, <1>10, <1>11 DEF FilesIInv

LEMMA DeleteStep ==
  ASSUME FilesIInv, NEW c \in Calls, NEW f \in Files, Delete(c, f)
  PROVE  FilesIInv'
<1> DEFINE x == [Ended EXCEPT !.step = "delete", !.file = f, !.deletes = TRUE]
<1>1. /\ f \in documents /\ call[c].step = "idle" /\ call' = [call EXCEPT ![c] = x]
      /\ UNCHANGED <<documents, quarantine, clean, unsure, litter>>
  BY DEF Delete
<1>2. /\ x.step = "delete" /\ x.file = f /\ x.deletes /\ ~x.undo /\ ~x.purge
      /\ x \in FilePlace
  BY DEF Ended, FilePlace, Steps
<1> HIDE DEF x
<1>3. call \in [Calls -> FilePlace]
  BY DEF FilesIInv, FilesTypeOK, FilePlace
<1>4. call'[c] = x /\ \A d \in Calls : d # c => call'[d] = call[d]
  BY <1>1, <1>3
<1>5. FilesTypeOK'
  BY <1>1, <1>2, <1>3, <1>4 DEF FilesIInv, FilesTypeOK, FilePlace
<1>6. PlacesOK'
  BY <1>2, <1>4, FilesAssumption DEF FilesIInv, PlacesOK, PlaceOK
<1>7. UploadAlone'
  BY <1>1, <1>2, <1>4 DEF FilesIInv, UploadAlone, Uploading
<1>8. UploadTracked'
  BY <1>1, <1>2, <1>4 DEF FilesIInv, UploadTracked, OnDisk, Uploading
<1>9. DeleteTracked'
  BY <1>1, <1>2, <1>4 DEF FilesIInv, DeleteTracked
<1>10. DocumentsStored'
  BY <1>1 DEF FilesIInv, DocumentsStored
<1>11. DiskOwned'
  BY <1>1, <1>4 DEF FilesIInv, DiskOwned, Owner, Uploading, OnDisk
<1> QED
  BY <1>5, <1>6, <1>7, <1>8, <1>9, <1>10, <1>11 DEF FilesIInv

----
(* The handler of an upload. *)

LEMMA WriteStep ==
  ASSUME FilesIInv, NEW c \in Calls, WriteQuarantine(c)
  PROVE  FilesIInv'
<1> DEFINE f == call[c].file
<1> PICK x : x = [call[c] EXCEPT !.step = "scan", !.undo = TRUE]
  OBVIOUS
<1>1. PlaceOK(call[c]) /\ f \in Files /\ call \in [Calls -> FilePlace]
  BY Known DEF WriteQuarantine, FilesIInv, FilesTypeOK, FilePlace
<1>2. /\ x \in FilePlace /\ x.file = f
      /\ x.step = "scan" /\ x.deletes = call[c].deletes /\ x.undo /\ x.purge = call[c].purge
  BY <1>1 DEF PlaceOK, FilePlace, Steps
<1>3. call' = [call EXCEPT ![c] = x]
  BY <1>1 DEF WriteQuarantine, Goto
<1>4. PlaceOK(x) /\ ~x.deletes
  BY <1>1, <1>2, FilesAssumption DEF PlaceOK, WriteQuarantine
<1>5. /\ OnlyAt(f) /\ SetsTyped' /\ UNCHANGED <<documents, clean, unsure, litter>>
      /\ quarantine' = quarantine \cup {f}
  BY <1>1 DEF OnlyAt, SameBut, SetsTyped, FilesIInv, FilesTypeOK, WriteQuarantine
<1>6. Uploading(call[c]) /\ Owner(x)
  BY <1>1, <1>2, <1>4 DEF PlaceOK, Uploading, Owner, WriteQuarantine
<1>7. f \notin unsure => f \notin documents
  BY <1>6 DEF FilesIInv, UploadAlone
<1>8. f \notin unsure' => TracksUpload(x)'
  BY <1>2, <1>5, <1>7 DEF TracksUpload
<1> QED
  BY <1>1, <1>2, <1>3, <1>4, <1>5, <1>6, <1>7, <1>8, CallMoves

LEMMA WriteFailsStep ==
  ASSUME FilesIInv, NEW c \in Calls, WriteFails(c)
  PROVE  FilesIInv'
<1> DEFINE f == call[c].file
           x == [call[c] EXCEPT !.step = "failed"]
<1>1. PlaceOK(call[c]) /\ f \in Files /\ call \in [Calls -> FilePlace]
  BY Known DEF WriteFails, FilesIInv, FilesTypeOK, FilePlace
<1>2. /\ x \in FilePlace /\ x.file = f
      /\ x.step = "failed" /\ x.deletes = call[c].deletes /\ x.undo = call[c].undo /\ x.purge = call[c].purge
  BY <1>1 DEF PlaceOK, FilePlace, Steps
<1>3. call' = [call EXCEPT ![c] = x]
  BY <1>1 DEF WriteFails, Goto
<1> HIDE DEF x
<1> QED
  BY <1>1, <1>2, <1>3, Known, CallMoves
  DEF OnlyAt, SameBut, SetsTyped, PlaceOK, Uploading, Owner, TracksUpload, TracksDeletion,
      OnDisk, FilesIInv, FilesTypeOK, WriteFails

LEMMA ScanStep ==
  ASSUME FilesIInv, NEW c \in Calls, ScanAccepts(c)
  PROVE  FilesIInv'
<1> DEFINE f == call[c].file
           x == [call[c] EXCEPT !.step = "rename"]
<1>1. PlaceOK(call[c]) /\ f \in Files /\ call \in [Calls -> FilePlace]
  BY Known DEF ScanAccepts, FilesIInv, FilesTypeOK, FilePlace
<1>2. /\ x \in FilePlace /\ x.file = f
      /\ x.step = "rename" /\ x.deletes = call[c].deletes /\ x.undo = call[c].undo /\ x.purge = call[c].purge
  BY <1>1 DEF PlaceOK, FilePlace, Steps
<1>3. call' = [call EXCEPT ![c] = x]
  BY <1>1 DEF ScanAccepts, Goto
<1> HIDE DEF x
<1> QED
  BY <1>1, <1>2, <1>3, Known, CallMoves
  DEF OnlyAt, SameBut, SetsTyped, PlaceOK, Uploading, Owner, TracksUpload, TracksDeletion,
      OnDisk, FilesIInv, FilesTypeOK, ScanAccepts

LEMMA RenameStep ==
  ASSUME FilesIInv, NEW c \in Calls, Rename(c)
  PROVE  FilesIInv'
<1> DEFINE f == call[c].file
           x == [call[c] EXCEPT !.step = "insert"]
<1>1. PlaceOK(call[c]) /\ f \in Files /\ call \in [Calls -> FilePlace]
  BY Known DEF Rename, FilesIInv, FilesTypeOK, FilePlace
<1>2. /\ x \in FilePlace /\ x.file = f
      /\ x.step = "insert" /\ x.deletes = call[c].deletes /\ x.undo = call[c].undo /\ x.purge = call[c].purge
  BY <1>1 DEF PlaceOK, FilePlace, Steps
<1>3. call' = [call EXCEPT ![c] = x]
  BY <1>1 DEF Rename, Goto
<1> HIDE DEF x
<1> QED
  BY <1>1, <1>2, <1>3, Known, CallMoves
  DEF OnlyAt, SameBut, SetsTyped, PlaceOK, Uploading, Owner, TracksUpload, TracksDeletion,
      OnDisk, FilesIInv, FilesTypeOK, Rename

LEMMA QuarantineFailsStep ==
  ASSUME FilesIInv, NEW c \in Calls, QuarantineFails(c)
  PROVE  FilesIInv'
<1> DEFINE f == call[c].file
           x == [call[c] EXCEPT !.step = "failed"]
<1>1. PlaceOK(call[c]) /\ f \in Files /\ call \in [Calls -> FilePlace]
  BY Known DEF QuarantineFails, FilesIInv, FilesTypeOK, FilePlace
<1>2. /\ x \in FilePlace /\ x.file = f
      /\ x.step = "failed" /\ x.deletes = call[c].deletes /\ x.undo = call[c].undo /\ x.purge = call[c].purge
  BY <1>1 DEF PlaceOK, FilePlace, Steps
<1>3. call' = [call EXCEPT ![c] = x]
  BY <1>1 DEF QuarantineFails, Goto
<1> HIDE DEF x
<1> QED
  BY <1>1, <1>2, <1>3, Known, CallMoves
  DEF OnlyAt, SameBut, SetsTyped, PlaceOK, Uploading, Owner, TracksUpload, TracksDeletion,
      OnDisk, FilesIInv, FilesTypeOK, QuarantineFails

LEMMA InsertStep ==
  ASSUME FilesIInv, NEW c \in Calls, Insert(c)
  PROVE  FilesIInv'
<1> DEFINE f == call[c].file
           x == [call[c] EXCEPT !.step = "commit"]
<1>1. PlaceOK(call[c]) /\ f \in Files /\ call \in [Calls -> FilePlace]
  BY Known DEF Insert, FilesIInv, FilesTypeOK, FilePlace
<1>2. /\ x \in FilePlace /\ x.file = f
      /\ x.step = "commit" /\ x.deletes = call[c].deletes /\ x.undo = call[c].undo /\ x.purge = call[c].purge
  BY <1>1 DEF PlaceOK, FilePlace, Steps
<1>3. call' = [call EXCEPT ![c] = x]
  BY <1>1 DEF Insert, Goto
<1> HIDE DEF x
<1> QED
  BY <1>1, <1>2, <1>3, Known, CallMoves
  DEF OnlyAt, SameBut, SetsTyped, PlaceOK, Uploading, Owner, TracksUpload, TracksDeletion,
      OnDisk, FilesIInv, FilesTypeOK, Insert

LEMMA InsertFailsStep ==
  ASSUME FilesIInv, NEW c \in Calls, InsertFails(c)
  PROVE  FilesIInv'
<1> DEFINE f == call[c].file
           x == [call[c] EXCEPT !.step = "failed"]
<1>1. PlaceOK(call[c]) /\ f \in Files /\ call \in [Calls -> FilePlace]
  BY Known DEF InsertFails, FilesIInv, FilesTypeOK, FilePlace
<1>2. /\ x \in FilePlace /\ x.file = f
      /\ x.step = "failed" /\ x.deletes = call[c].deletes /\ x.undo = call[c].undo /\ x.purge = call[c].purge
  BY <1>1 DEF PlaceOK, FilePlace, Steps
<1>3. call' = [call EXCEPT ![c] = x]
  BY <1>1 DEF InsertFails, Goto
<1> HIDE DEF x
<1> QED
  BY <1>1, <1>2, <1>3, Known, CallMoves
  DEF OnlyAt, SameBut, SetsTyped, PlaceOK, Uploading, Owner, TracksUpload, TracksDeletion,
      OnDisk, FilesIInv, FilesTypeOK, InsertFails

----
(* The handler of a deletion. *)

LEMMA DeleteDocumentStep ==
  ASSUME FilesIInv, NEW c \in Calls, DeleteDocument(c)
  PROVE  FilesIInv'
<1> DEFINE f == call[c].file
<1> PICK x : x = [call[c] EXCEPT !.step = "commit", !.purge = TRUE]
  OBVIOUS
<1>1. PlaceOK(call[c]) /\ f \in Files /\ call \in [Calls -> FilePlace]
  BY Known DEF DeleteDocument, FilesIInv, FilesTypeOK, FilePlace
<1>2. /\ x \in FilePlace /\ x.file = f
      /\ x.step = "commit" /\ x.deletes = call[c].deletes /\ x.undo = call[c].undo /\ x.purge
  BY <1>1 DEF PlaceOK, FilePlace, Steps
<1>3. call' = [call EXCEPT ![c] = x]
  BY <1>1 DEF DeleteDocument, Goto
<1>4. PlaceOK(x) /\ x.deletes
  BY <1>1, <1>2, FilesAssumption DEF PlaceOK, DeleteDocument
<1>5. /\ OnlyAt(f) /\ SetsTyped'
      /\ UNCHANGED <<documents, quarantine, clean, unsure, litter>> /\ f \in documents
  BY <1>1 DEF OnlyAt, SameBut, SetsTyped, FilesIInv, FilesTypeOK, DeleteDocument
<1>6. ~Uploading(x) /\ (f \notin unsure => f \in clean /\ f \notin quarantine)
  BY <1>1, <1>4, <1>5, Known DEF Uploading, DeleteDocument
<1>7. TracksDeletion(x)'
  BY <1>2, <1>5, <1>6 DEF TracksDeletion
<1> QED
  BY <1>1, <1>2, <1>3, <1>4, <1>5, <1>6, <1>7, Known, CallMoves DEF Uploading

LEMMA DeleteFailsStep ==
  ASSUME FilesIInv, NEW c \in Calls, DeleteFails(c)
  PROVE  FilesIInv'
<1> DEFINE f == call[c].file
           x == [call[c] EXCEPT !.step = "failed"]
<1>1. PlaceOK(call[c]) /\ f \in Files /\ call \in [Calls -> FilePlace]
  BY Known DEF DeleteFails, FilesIInv, FilesTypeOK, FilePlace
<1>2. /\ x \in FilePlace /\ x.file = f
      /\ x.step = "failed" /\ x.deletes = call[c].deletes /\ x.undo = call[c].undo /\ x.purge = call[c].purge
  BY <1>1 DEF PlaceOK, FilePlace, Steps
<1>3. call' = [call EXCEPT ![c] = x]
  BY <1>1 DEF DeleteFails, Goto
<1> HIDE DEF x
<1> QED
  BY <1>1, <1>2, <1>3, Known, CallMoves
  DEF OnlyAt, SameBut, SetsTyped, PlaceOK, Uploading, Owner, TracksUpload, TracksDeletion,
      OnDisk, FilesIInv, FilesTypeOK, DeleteFails

----
(* The transaction and its callbacks. *)

LEMMA CommitStep ==
  ASSUME FilesIInv, NEW c \in Calls, Commit(c)
  PROVE  FilesIInv'
<1> DEFINE f == call[c].file
           x == [call[c] EXCEPT !.step = "committed"]
<1>1. PlaceOK(call[c]) /\ f \in Files /\ call \in [Calls -> FilePlace]
  BY Known DEF Commit, FilesIInv, FilesTypeOK, FilePlace
<1>2. /\ x \in FilePlace /\ x.file = f
      /\ x.step = "committed" /\ x.deletes = call[c].deletes /\ x.undo = call[c].undo /\ x.purge = call[c].purge
  BY <1>1 DEF PlaceOK, FilePlace, Steps
<1>3. call' = [call EXCEPT ![c] = x]
  BY <1>1 DEF Commit, Goto
<1> HIDE DEF x
<1> QED
  BY <1>1, <1>2, <1>3, Known, CallMoves
  DEF OnlyAt, SameBut, SetsTyped, PlaceOK, Uploading, Owner, TracksUpload, TracksDeletion,
      OnDisk, FilesIInv, FilesTypeOK, Commit, Committed

LEMMA CommitUnknownStep ==
  ASSUME FilesIInv, NEW c \in Calls, CommitUnknown(c)
  PROVE  FilesIInv'
<1> DEFINE f == call[c].file
           x == [call[c] EXCEPT !.step = "failed"]
<1>1. PlaceOK(call[c]) /\ f \in Files /\ call \in [Calls -> FilePlace]
  BY Known DEF CommitUnknown, FilesIInv, FilesTypeOK, FilePlace
<1>2. /\ x \in FilePlace /\ x.file = f
      /\ x.step = "failed" /\ x.deletes = call[c].deletes /\ x.undo = call[c].undo /\ x.purge = call[c].purge
  BY <1>1 DEF PlaceOK, FilePlace, Steps
<1>3. call' = [call EXCEPT ![c] = x]
  BY <1>1 DEF CommitUnknown, Goto
<1> HIDE DEF x
<1> QED
  BY <1>1, <1>2, <1>3, Known, CallMoves
  DEF OnlyAt, SameBut, SetsTyped, PlaceOK, Uploading, Owner, TracksUpload, TracksDeletion,
      OnDisk, FilesIInv, FilesTypeOK, CommitUnknown, Committed

LEMMA RunAgainStep ==
  ASSUME FilesIInv, NEW c \in Calls, RunAgain(c)
  PROVE  FilesIInv'
<1> DEFINE f == call[c].file
           x == [call[c] EXCEPT !.step = IF call[c].deletes THEN "delete" ELSE "write"]
<1>1. PlaceOK(call[c]) /\ f \in Files /\ call \in [Calls -> FilePlace]
  BY Known DEF RunAgain, FilesIInv, FilesTypeOK, FilePlace
<1>2. /\ x \in FilePlace /\ x.file = f
      /\ x.step = (IF call[c].deletes THEN "delete" ELSE "write") /\ x.deletes = call[c].deletes /\ x.undo = call[c].undo /\ x.purge = call[c].purge
  BY <1>1 DEF PlaceOK, FilePlace, Steps
<1>3. call' = [call EXCEPT ![c] = x]
  BY <1>1 DEF RunAgain, Goto
<1> HIDE DEF x
<1> QED
  BY <1>1, <1>2, <1>3, Known, CallMoves
  DEF OnlyAt, SameBut, SetsTyped, PlaceOK, Uploading, Owner, TracksUpload, TracksDeletion,
      OnDisk, FilesIInv, FilesTypeOK, RunAgain

LEMMA AfterCommitStep ==
  ASSUME FilesIInv, NEW c \in Calls, AfterCommit(c)
  PROVE  FilesIInv'
<1> DEFINE f == call[c].file
<1>1. PlaceOK(call[c]) /\ f \in Files
  BY Known DEF AfterCommit
<1>2. /\ Ended \in FilePlace /\ Ended.file = NoFile /\ Ended.step = "idle"
      /\ ~Ended.deletes /\ ~Ended.undo /\ ~Ended.purge
  BY DEF Ended, FilePlace, Steps
<1>3. PlaceOK(Ended) /\ ~Uploading(Ended) /\ ~Owner(Ended) /\ ~Uploading(call[c])
  BY <1>2 DEF PlaceOK, Uploading, Owner, AfterCommit
<1>4. /\ UNCHANGED <<documents, unsure, quarantine>> /\ clean' \in {clean, clean \ {f}}
      /\ litter' \in {litter, litter \cup {f}} /\ call' = [call EXCEPT ![c] = Ended]
  BY DEF AfterCommit, Abandon, OnDisk
<1>5. OnlyAt(f) /\ SetsTyped' /\ litter \subseteq litter'
  BY <1>1, <1>4 DEF OnlyAt, SameBut, SetsTyped, FilesIInv, FilesTypeOK
<1>6. CASE call[c].deletes
  <2>1. call[c].purge /\ (f \notin unsure => f \notin documents \cup quarantine)
    BY <1>6, Known DEF TracksDeletion, AfterCommit
  <2>2. f \in OnDisk' => f \in litter' \cup unsure'
    BY <1>4, <2>1 DEF AfterCommit, Abandon, OnDisk
  <2> QED
    BY <1>1, <1>2, <1>3, <1>4, <1>5, <2>1, <2>2, CallMoves
<1>7. CASE ~call[c].deletes
  <2>1. ~Owner(call[c]) /\ clean' = clean /\ litter' = litter
    BY <1>1, <1>7 DEF Owner, Uploading, AfterCommit, PlaceOK
  <2>2. f \in documents' /\ f \notin unsure' => f \in clean' /\ f \notin quarantine'
    BY <1>4, <2>1, Known DEF AfterCommit
  <2> QED
    BY <1>1, <1>2, <1>3, <1>4, <1>5, <2>1, <2>2, CallMoves DEF OnDisk
<1> QED
  BY <1>6, <1>7

LEMMA AfterRollbackStep ==
  ASSUME FilesIInv, NEW c \in Calls, AfterRollback(c)
  PROVE  FilesIInv'
<1> DEFINE f == call[c].file
<1>1. PlaceOK(call[c]) /\ f \in Files
  BY Known DEF AfterRollback
<1>2. /\ Ended \in FilePlace /\ Ended.file = NoFile /\ Ended.step = "idle"
      /\ ~Ended.deletes /\ ~Ended.undo /\ ~Ended.purge
  BY DEF Ended, FilePlace, Steps
<1> QED
  BY <1>1, <1>2, Known, CallMoves
  DEF OnlyAt, SameBut, SetsTyped, PlaceOK, Uploading, Owner, TracksUpload, TracksDeletion,
      OnDisk, FilesIInv, FilesTypeOK, AfterRollback, Abandon

LEMMA ProcessDiesStep ==
  ASSUME FilesIInv, NEW c \in Calls, ProcessDies(c)
  PROVE  FilesIInv'
<1> DEFINE f == call[c].file
<1>1. PlaceOK(call[c]) /\ f \in Files
  BY Known DEF ProcessDies
<1>2. /\ Ended \in FilePlace /\ Ended.file = NoFile /\ Ended.step = "idle"
      /\ ~Ended.deletes /\ ~Ended.undo /\ ~Ended.purge
  BY DEF Ended, FilePlace, Steps
<1> QED
  BY <1>1, <1>2, Known, CallMoves
  DEF OnlyAt, SameBut, SetsTyped, PlaceOK, Uploading, Owner, TracksUpload, TracksDeletion,
      OnDisk, FilesIInv, FilesTypeOK, ProcessDies, Abandon
----
(* The theorems. *)

\* The invariant is inductive: every step of every request, its failures and the death of the
\* process in between included, keeps the file answered for.
THEOREM FilesInductive == FilesSpec => []FilesIInv
<1>1. FilesInit => FilesIInv
  <2> SUFFICES ASSUME FilesInit PROVE FilesIInv
    OBVIOUS
  <2>1. /\ \A c \in Calls : call[c] = Ended /\ call \in [Calls -> {Ended}]
        /\ Ended.step = "idle" /\ Ended.file = NoFile /\ ~Ended.deletes
        /\ ~Ended.undo /\ ~Ended.purge /\ Ended \in FilePlace
    BY DEF FilesInit, Ended, FilePlace, Steps
  <2>2. FilesTypeOK
    BY <2>1 DEF FilesInit, FilesTypeOK, FilePlace
  <2> QED
    BY <2>1, <2>2 DEF FilesInit, FilesIInv, PlacesOK, PlaceOK, UploadAlone, UploadTracked, Uploading,
       DeleteTracked, DocumentsStored, DiskOwned, OnDisk
<1>2. FilesIInv /\ [FilesNext]_fileVars => FilesIInv'
  <2> SUFFICES ASSUME FilesIInv, [FilesNext]_fileVars PROVE FilesIInv'
    OBVIOUS
  <2>1. CASE \E c \in Calls, f \in Files : Upload(c, f) \/ Delete(c, f)
    BY <2>1, UploadStep, DeleteStep
  <2>2. ASSUME NEW c \in Calls,
               \/ WriteQuarantine(c) \/ WriteFails(c) \/ ScanAccepts(c) \/ Rename(c)
               \/ QuarantineFails(c) \/ Insert(c) \/ InsertFails(c)
        PROVE  FilesIInv'
    BY <2>2, WriteStep, WriteFailsStep, ScanStep, RenameStep, QuarantineFailsStep, InsertStep,
       InsertFailsStep
  <2>3. ASSUME NEW c \in Calls, DeleteDocument(c) \/ DeleteFails(c)
        PROVE  FilesIInv'
    BY <2>3, DeleteDocumentStep, DeleteFailsStep
  <2>4. ASSUME NEW c \in Calls,
               \/ Commit(c) \/ RunAgain(c) \/ CommitUnknown(c)
               \/ AfterCommit(c) \/ AfterRollback(c) \/ ProcessDies(c)
        PROVE  FilesIInv'
    BY <2>4, CommitStep, RunAgainStep, CommitUnknownStep, AfterCommitStep, AfterRollbackStep,
       ProcessDiesStep
  <2>5. CASE UNCHANGED fileVars
    BY <2>5 DEF fileVars, FilesIInv, FilesTypeOK, PlacesOK, PlaceOK, UploadAlone, UploadTracked,
       Uploading, DeleteTracked, DocumentsStored, DiskOwned, OnDisk, Owner
  <2> QED
    BY <2>1, <2>2, <2>3, <2>4, <2>5 DEF FilesNext
<1> QED
  BY <1>1, <1>2, PTL DEF FilesSpec

\* The requests, their callbacks and the two directories stay what they are declared to be: a
\* removal is registered only by the kind of request it belongs to.
THEOREM FilesTypeCorrect == FilesSpec => []FilesTypeOK
<1>1. FilesIInv => FilesTypeOK
  BY DEF FilesIInv
<1> QED
  BY <1>1, FilesInductive, PTL

\* A document whose commit was acknowledged has its file in uploads/clean, and a file on disk
\* without a document belongs to a request under way, or was left by a crash, an I/O error or a
\* commit of unknown outcome: no callback of a repeated, failed or overlapping request removes the
\* file of such a document (saveFile, deleteFile and the lifecycle callbacks).  Files whose own
\* commit had an unknown outcome are exempt: their document may be there and their file be gone.
THEOREM DocumentsKeepFiles == FilesSpec => []FilesKept
<1>1. FilesIInv => FilesKept
  <2> SUFFICES ASSUME FilesIInv PROVE FilesKept
    OBVIOUS
  <2>1. documents \ unsure \subseteq clean
    BY DEF FilesIInv, DocumentsStored
  <2>2. ASSUME NEW f \in OnDisk \ (documents \cup litter \cup unsure)
        PROVE  f \in InFlight
    <3>1. PICK c \in Calls : Owner(call[c]) /\ call[c].file = f
      BY <2>2 DEF FilesIInv, DiskOwned
    <3>2. f # NoFile
      BY <2>2, FilesAssumption DEF FilesIInv, FilesTypeOK, OnDisk
    <3> QED
      BY <3>1, <3>2 DEF InFlight
  <2> QED
    BY <2>1, <2>2 DEF FilesKept
<1> QED
  BY <1>1, FilesInductive, PTL
====
