------------------------ MODULE AttachmentFilesProofs ------------------------
(***************************************************************************)
(* Proofs about AttachmentFiles, for any attachments, copies, mailboxes,   *)
(* objects and faults.                                                     *)
(***************************************************************************)
EXTENDS AttachmentFiles, TLAPS

(* An object a worker has in hand is there, and nobody else's: no row, no  *)
(* deletion, no cleanup and no other worker knows of it.                   *)
InHandOnly ==
  \A r \in Row : hand[r].object # NoObject =>
    /\ hand[r].object \in stored \ (cleanup \cup checked)
    /\ \A x \in Row : /\ hand[r].object # file[x]
                      /\ hand[r].object # deleting[x].file
                      /\ x # r => hand[r].object # hand[x].object

(* An object that a cleanup has found without a row stays without one.     *)
KeptIsNotChecked ==
  \A r \in Row : file[r] # NoObject => file[r] \in stored \ checked

(* A row that is not there has no file, so none when it comes back.        *)
BareUnlessThere == \A r \in Row : ~ Exists(r) => file[r] = NoObject

(* Whatever row, deletion or cleanup names has been uploaded once, so that *)
(* an upload under a new name meets none of them.                          *)
KnownIsNamed ==
  /\ \A r \in Row : {file[r], deleting[r].file} \subseteq named \cup {NoObject}
  /\ cleanup \cup checked \subseteq named

FilesInv ==
  TypeOK /\ InHandOnly /\ KeptIsNotChecked /\ BareUnlessThere /\ KnownIsNamed

USE DEF Exists, Unwritten, Idle, ToUpload, Uploaded, NotLoaded, Loaded, Fault, Lose

LEMMA FilesInit == Init => FilesInv
BY FilesAssumption
   DEF Init, FilesInv, TypeOK, InHandOnly, KeptIsNotChecked, BareUnlessThere, KnownIsNamed, Row

LEMMA FilesStep == FilesInv /\ [Next]_vars => FilesInv'
<1> SUFFICES ASSUME FilesInv, [Next]_vars PROVE FilesInv'
  OBVIOUS
<1> USE FilesAssumption
<1>0. CASE UNCHANGED vars
  BY <1>0 DEF vars, FilesInv, TypeOK, InHandOnly, KeptIsNotChecked, BareUnlessThere, KnownIsNamed
<1>1. ASSUME NEW r \in Row, Upload(r) PROVE FilesInv'
  BY <1>1 DEF Upload, FilesInv, TypeOK, InHandOnly, KeptIsNotChecked, BareUnlessThere, KnownIsNamed
<1>2. ASSUME NEW r \in Row, UploadFails(r) PROVE FilesInv'
  BY <1>2 DEF UploadFails, FilesInv, TypeOK, InHandOnly, KeptIsNotChecked, BareUnlessThere, KnownIsNamed
<1>3. ASSUME NEW r \in Row, Abort(r) PROVE FilesInv'
  BY <1>3 DEF Abort, FilesInv, TypeOK, InHandOnly, KeptIsNotChecked, BareUnlessThere, KnownIsNamed
<1>4. ASSUME NEW r \in Row, Receive(r) PROVE FilesInv'
  BY <1>4 DEF Receive, FilesInv, TypeOK, InHandOnly, KeptIsNotChecked, BareUnlessThere, KnownIsNamed
<1>5. ASSUME NEW r \in Row, CommitReceived(r) PROVE FilesInv'
  BY <1>5 DEF CommitReceived, FilesInv, TypeOK, InHandOnly, KeptIsNotChecked, BareUnlessThere, KnownIsNamed
<1>6. ASSUME NEW r \in Row, Draft(r) PROVE FilesInv'
  <2>1. CASE CreateDraft(r)
    BY <2>1 DEF CreateDraft, FilesInv, TypeOK, InHandOnly, KeptIsNotChecked, BareUnlessThere, KnownIsNamed
  <2>2. CASE Restage(r)
    BY <2>2 DEF Restage, FilesInv, TypeOK, InHandOnly, KeptIsNotChecked, BareUnlessThere, KnownIsNamed
  <2>3. CASE Promote(r)
    BY <2>3 DEF Promote, FilesInv, TypeOK, InHandOnly, KeptIsNotChecked, BareUnlessThere, KnownIsNamed
  <2>4. CASE Cancel(r)
    BY <2>4 DEF Cancel, FilesInv, TypeOK, InHandOnly, KeptIsNotChecked, BareUnlessThere, KnownIsNamed
  <2>5. CASE RefuseDraft(r)
    BY <2>5 DEF RefuseDraft, FilesInv, TypeOK, InHandOnly, KeptIsNotChecked, BareUnlessThere, KnownIsNamed
  <2> QED
    BY <1>6, <2>1, <2>2, <2>3, <2>4, <2>5 DEF Draft
<1>7. ASSUME NEW r \in Row, Compose(r) PROVE FilesInv'
  BY <1>7 DEF Compose, FilesInv, TypeOK, InHandOnly, KeptIsNotChecked, BareUnlessThere, KnownIsNamed
<1>8. ASSUME NEW r \in Row, Materialize(r) PROVE FilesInv'
  BY <1>8 DEF Materialize, FilesInv, TypeOK, InHandOnly, KeptIsNotChecked, BareUnlessThere, KnownIsNamed
<1>9. ASSUME NEW r \in Row, SaveFile(r) PROVE FilesInv'
  <2>1. CASE Exists(r)
    <3>1. /\ hand[r].step = "save"
          /\ row' = [row EXCEPT ![r] = "kept"]
          /\ file' = [file EXCEPT ![r] = hand[r].object]
          /\ hand' = [hand EXCEPT ![r] = Idle]
          /\ UNCHANGED <<blank, stored, named, deleting, cleanup, checked, lost, faults>>
      BY <1>9, <2>1 DEF SaveFile
    <3>2. /\ hand[r].object \in Object \cup {NoObject}
          /\ hand[r].object # NoObject => hand[r].object \in stored \ checked
      BY DEF FilesInv, TypeOK, InHandOnly
    <3>3. TypeOK'
      BY <3>1, <3>2 DEF FilesInv, TypeOK
    <3>4. InHandOnly'
      BY <3>1, <3>2 DEF FilesInv, TypeOK, InHandOnly
    <3>5. KeptIsNotChecked' /\ BareUnlessThere' /\ KnownIsNamed'
      BY <3>1, <3>2 DEF FilesInv, TypeOK, KeptIsNotChecked, BareUnlessThere, KnownIsNamed
    <3> QED
      BY <3>3, <3>4, <3>5 DEF FilesInv
  <2>2. CASE ~ Exists(r)
    BY <1>9, <2>2 DEF SaveFile, FilesInv, TypeOK, InHandOnly, KeptIsNotChecked, BareUnlessThere, KnownIsNamed
  <2> QED
    BY <2>1, <2>2
<1>10. ASSUME NEW r \in Row, Load(r) PROVE FilesInv'
  BY <1>10 DEF Load, FilesInv, TypeOK, InHandOnly, KeptIsNotChecked, BareUnlessThere, KnownIsNamed
<1>11. ASSUME NEW r \in Row, Delete(r) PROVE FilesInv'
  BY <1>11 DEF Delete, CleanupOf, FilesInv, TypeOK, InHandOnly, KeptIsNotChecked, BareUnlessThere, KnownIsNamed
<1>12. ASSUME NEW r \in Row, DeleteUnpublished(r) PROVE FilesInv'
  BY <1>12 DEF DeleteUnpublished, FilesInv, TypeOK, InHandOnly, KeptIsNotChecked, BareUnlessThere, KnownIsNamed
<1>13. ASSUME NEW o \in Object, Check(o) PROVE FilesInv'
  BY <1>13 DEF Check, Referenced, FilesInv, TypeOK, InHandOnly, KeptIsNotChecked, BareUnlessThere, KnownIsNamed
<1>14. ASSUME NEW o \in Object, Collect(o) PROVE FilesInv'
  BY <1>14 DEF Collect, FilesInv, TypeOK, InHandOnly, KeptIsNotChecked, BareUnlessThere, KnownIsNamed
<1>15. ASSUME NEW o \in Object, CollectFails(o) PROVE FilesInv'
  BY <1>15 DEF CollectFails, FilesInv, TypeOK, InHandOnly, KeptIsNotChecked, BareUnlessThere, KnownIsNamed
<1>16. ASSUME NEW o \in Object, Redeliver(o) PROVE FilesInv'
  BY <1>16 DEF Redeliver, FilesInv, TypeOK, InHandOnly, KeptIsNotChecked, BareUnlessThere, KnownIsNamed
<1> QED
  BY <1>0, <1>1, <1>2, <1>3, <1>4, <1>5, <1>6, <1>7, <1>8, <1>9, <1>10, <1>11, <1>12,
     <1>13, <1>14, <1>15, <1>16
     DEF Next, Inbound, Send, Storage, Deletion, Cleanup

(* The types of AttachmentFiles.                                           *)
THEOREM FilesTypeCorrect == Spec => []TypeOK
<1>1. FilesInv => TypeOK
  BY DEF FilesInv
<1> QED
  BY FilesInit, FilesStep, <1>1, PTL DEF Spec

(* Whatever is uploaded, forwarded, deleted and cleaned up, in whatever    *)
(* order and with whatever faults, a row that names a file has it          *)
(* (delete_unreferenced_attachment_file_task).                             *)
THEOREM NoRowLosesItsObject == Spec => []RowsHaveObjects
<1>1. FilesInv => RowsHaveObjects
  BY DEF FilesInv, KeptIsNotChecked, RowsHaveObjects
<1> QED
  BY FilesInit, FilesStep, <1>1, PTL DEF Spec
=============================================================================
