--------------------------- MODULE AttachmentFiles ---------------------------
(***************************************************************************)
(* Attachment rows and the objects in S3 behind them: inbound mail that    *)
(* stores its attachments and forwards them (store_attachment_content,     *)
(* utils/attachments.py; _copy_attachments, hedwig/rules.py), drafts that  *)
(* stage theirs in the row until they are sent (hedwig/manager.py;         *)
(* materialize_attachments, providers/sending.py), and the cleanup of what *)
(* no row names any more (hedwig/signals.py, hedwig/tasks.py).             *)
(*                                                                         *)
(* S3 takes no part in transactions: an object is there as soon as it is   *)
(* uploaded, and only a cleanup task takes it away.                        *)
(*                                                                         *)
(* One attachment a message stands for several: nothing relates two of one *)
(* message.  The task that sends a message runs once at a time             *)
(* (OutboundSend).                                                         *)
(***************************************************************************)
EXTENDS Naturals, FiniteSets

CONSTANTS
  Received,   \* attachments of inbound mail ...
  Copy,       \* ... and of the message it is forwarded as, of which
  CopyOf,     \* each is the copy
  Staged,     \* attachments of drafts
  Mailbox,    \* mailboxes, and the one of each draft
  MailboxOf,
  Object,     \* names of objects, new for each upload
  MaxFaults,  \* bound on failures of workers, S3 and the broker
  NoObject

ASSUME FilesAssumption ==
  /\ Received \cap Copy = {} /\ Received \cap Staged = {} /\ Copy \cap Staged = {}
  /\ CopyOf \in [Copy -> Received]
  /\ MailboxOf \in [Staged -> Mailbox]
  /\ MaxFaults \in Nat
  /\ NoObject \notin Object

Row == Received \cup Copy \cup Staged

VARIABLES
  row,       \* new, or refused; draft, queued and sending while the bytes are staged; kept; gone
  file,      \* EmailAttachment.file
  blank,     \* drafts without an rfc_message_id
  stored,    \* the objects in S3
  named,     \* the objects there have ever been
  hand,      \* per row, the upload a worker has in hand
  deleting,  \* per row, the file a deletion has loaded it with
  cleanup,   \* objects with a cleanup task
  checked,   \* objects whose cleanup task has found no row
  lost,      \* history: objects a fault has left without row and task
  faults     \* history: faults so far

vars == <<row, file, blank, stored, named, hand, deleting, cleanup, checked, lost, faults>>

Exists(r) == row[r] \in {"draft", "queued", "sending", "kept"}

(* Not stored so far, even if it was tried.                                *)
Unwritten(r) == row[r] \in {"new", "refused"}

(* The steps in which a worker or a request may be: a worker is to upload, *)
(* or has uploaded, an object.                                             *)
Idle == [step |-> "idle", object |-> NoObject]

ToUpload == [step |-> "upload", object |-> NoObject]

Uploaded(o) == [step |-> "save", object |-> o]

NotLoaded == [step |-> "idle", file |-> NoObject]

Loaded(o) == [step |-> "loaded", file |-> o]

TypeOK ==
  /\ row \in [Row -> {"new", "refused", "draft", "queued", "sending", "kept", "gone"}]
  /\ file \in [Row -> Object \cup {NoObject}]
  /\ blank \subseteq Staged
  /\ stored \subseteq named /\ named \subseteq Object
  /\ hand \in [Row -> [step : {"idle", "upload", "save"}, object : Object \cup {NoObject}]]
  /\ deleting \in [Row -> [step : {"idle", "loaded"}, file : Object \cup {NoObject}]]
  /\ cleanup \subseteq Object /\ checked \subseteq Object /\ lost \subseteq Object
  /\ faults \in 0 .. MaxFaults

Init ==
  /\ row = [r \in Row |-> "new"]
  /\ file = [r \in Row |-> NoObject]
  /\ blank = {}
  /\ stored = {}
  /\ named = {}
  /\ hand = [r \in Row |-> Idle]
  /\ deleting = [r \in Row |-> NotLoaded]
  /\ cleanup = {}
  /\ checked = {}
  /\ lost = {}
  /\ faults = 0

Fault ==
  /\ faults < MaxFaults
  /\ faults' = faults + 1

Lose(o) == lost' = lost \cup ({o} \ {NoObject})

-----------------------------------------------------------------------------
(* store_attachment_content puts the bytes under a new name.               *)
Upload(r) ==
  /\ hand[r].step = "upload"
  /\ \E o \in Object \ named :
       /\ stored' = stored \cup {o}
       /\ named' = named \cup {o}
       /\ hand' = [hand EXCEPT ![r] = Uploaded(o)]
  /\ UNCHANGED <<row, file, blank, deleting, cleanup, checked, lost, faults>>

(* An upload fails: an inbound mail is stored without the file; a send     *)
(* raises TransientSendError and leaves its attempt SENDING, where no retry*)
(* takes it up.                                                            *)
UploadFails(r) ==
  /\ hand[r].step = "upload"
  /\ Fault
  /\ hand' = [hand EXCEPT ![r] = IF r \in Received THEN Uploaded(NoObject) ELSE Idle]
  /\ UNCHANGED <<row, file, blank, stored, named, deleting, cleanup, checked, lost>>

(* A worker dies, or its transaction rolls back; the object stays.         *)
Abort(r) ==
  /\ hand[r] # Idle
  /\ Fault
  /\ hand' = [hand EXCEPT ![r] = Idle]
  /\ Lose(hand[r].object)
  /\ UNCHANGED <<row, file, blank, stored, named, deleting, cleanup, checked>>

(* create_inbound_message comes to an attachment ...                       *)
Receive(r) ==
  /\ r \in Received
  /\ row[r] = "new"
  /\ hand[r] = Idle
  /\ hand' = [hand EXCEPT ![r] = ToUpload]
  /\ UNCHANGED <<row, file, blank, stored, named, deleting, cleanup, checked, lost, faults>>

(* ... and commits it, together with the copies in forwarded messages,     *)
(* which name the same object.                                             *)
CommitReceived(r) ==
  LET rows == {r} \cup {c \in Copy : CopyOf[c] = r} IN
    /\ r \in Received
    /\ hand[r].step = "save"
    /\ row' = [x \in Row |-> IF x \in rows THEN "kept" ELSE row[x]]
    /\ file' = [x \in Row |-> IF x \in rows THEN hand[r].object ELSE file[x]]
    /\ hand' = [hand EXCEPT ![r] = Idle]
    /\ UNCHANGED <<blank, stored, named, deleting, cleanup, checked, lost, faults>>

-----------------------------------------------------------------------------
(* create_draft_message: the row holds the bytes.  The message has the     *)
(* empty rfc_message_id, which unique_rfc_message_per_mailbox allows once  *)
(* per mailbox ...                                                         *)
CreateDraft(r) ==
  /\ r \in Staged
  /\ Unwritten(r)
  /\ \A d \in blank : MailboxOf[d] # MailboxOf[r]
  /\ row' = [row EXCEPT ![r] = "draft"]
  /\ blank' = blank \cup {r}
  /\ UNCHANGED <<file, stored, named, hand, deleting, cleanup, checked, lost, faults>>

(* ... and the insert of another fails: the request stores nothing.        *)
RefuseDraft(r) ==
  /\ r \in Staged
  /\ row[r] = "new"
  /\ \E d \in blank : MailboxOf[d] = MailboxOf[r]
  /\ row' = [row EXCEPT ![r] = "refused"]
  /\ UNCHANGED <<file, blank, stored, named, hand, deleting, cleanup, checked, lost, faults>>

(* update_draft_message stages an attachment where one was taken out.      *)
Restage(r) ==
  /\ r \in blank
  /\ row[r] = "gone"
  /\ row' = [row EXCEPT ![r] = "draft"]
  /\ UNCHANGED <<file, blank, stored, named, hand, deleting, cleanup, checked, lost, faults>>

(* create_outbound_message stages the attachment of a mail that is sent at *)
(* once.                                                                   *)
Compose(r) ==
  /\ r \in Staged
  /\ Unwritten(r)
  /\ row' = [row EXCEPT ![r] = "queued"]
  /\ UNCHANGED <<file, blank, stored, named, hand, deleting, cleanup, checked, lost, faults>>

(* promote_draft_to_send gives the message its id.  A draft that has been  *)
(* promoted before is refused (OutboundSend).                              *)
Promote(r) ==
  /\ r \in blank
  /\ row' = [row EXCEPT ![r] = IF @ = "draft" THEN "queued" ELSE @]
  /\ blank' = blank \ {r}
  /\ UNCHANGED <<file, stored, named, hand, deleting, cleanup, checked, lost, faults>>

(* cancel_scheduled_send makes it a draft again, with its id.              *)
Cancel(r) ==
  /\ row[r] = "queued"
  /\ row' = [row EXCEPT ![r] = "draft"]
  /\ UNCHANGED <<file, blank, stored, named, hand, deleting, cleanup, checked, lost, faults>>

(* The attempt is reserved, which happens once, and materialize_attachments*)
(* reads the staged row ...                                                *)
Materialize(r) ==
  /\ row[r] = "queued"
  /\ row' = [row EXCEPT ![r] = "sending"]
  /\ hand' = [hand EXCEPT ![r] = ToUpload]
  /\ UNCHANGED <<file, blank, stored, named, deleting, cleanup, checked, lost, faults>>

(* ... and saves it with the uploaded object, if it is still there.        *)
SaveFile(r) ==
  /\ r \in Staged
  /\ hand[r].step = "save"
  /\ IF Exists(r)
     THEN /\ row' = [row EXCEPT ![r] = "kept"]
          /\ file' = [file EXCEPT ![r] = hand[r].object]
          /\ UNCHANGED lost
     ELSE /\ Lose(hand[r].object)
          /\ UNCHANGED <<row, file>>
  /\ hand' = [hand EXCEPT ![r] = Idle]
  /\ UNCHANGED <<blank, stored, named, deleting, cleanup, checked, faults>>

-----------------------------------------------------------------------------
(* A message is deleted, or an attachment taken out of a draft: the request*)
(* loads the row ...                                                       *)
Load(r) ==
  /\ Exists(r)
  /\ deleting[r] = NotLoaded
  /\ deleting' = [deleting EXCEPT ![r] = Loaded(file[r])]
  /\ UNCHANGED <<row, file, blank, stored, named, hand, cleanup, checked, lost, faults>>

(* A deletion that sends no signal.                                        *)
NoCleanup(o) == {}

(* A signal that does not ask whether there is a file.                     *)
CleanupOfAny(o) == {o}

(* delete_attachment_file: the file to clean up, if there is one.          *)
CleanupOf(o) == {o} \ {NoObject}

(* ... and commits its deletion, after which delete_attachment_file queues *)
(* the cleanup of the file it was loaded with.                             *)
Delete(r) ==
  LET o == deleting[r].file IN
    /\ deleting[r].step = "loaded"
    /\ row' = [row EXCEPT ![r] = "gone"]
    /\ blank' \in {blank, blank \ {r}}
    /\ file' = [file EXCEPT ![r] = NoObject]
    /\ cleanup' = cleanup \cup CleanupOf(o)
    /\ Lose(IF file[r] = o THEN NoObject ELSE file[r])
    /\ deleting' = [deleting EXCEPT ![r] = NotLoaded]
    /\ UNCHANGED <<stored, named, hand, checked, faults>>

(* The process dies after the commit, or the broker is away.               *)
DeleteUnpublished(r) ==
  /\ deleting[r].step = "loaded"
  /\ Fault
  /\ row' = [row EXCEPT ![r] = "gone"]
  /\ blank' \in {blank, blank \ {r}}
  /\ file' = [file EXCEPT ![r] = NoObject]
  /\ lost' = lost \cup ({deleting[r].file, file[r]} \ {NoObject})
  /\ deleting' = [deleting EXCEPT ![r] = NotLoaded]
  /\ UNCHANGED <<stored, named, hand, cleanup, checked>>

(* A lookup that misses forwarded copies.                                  *)
ReferencedBySource(o) == \E r \in Row \ Copy : Exists(r) /\ file[r] = o

(* delete_unreferenced_attachment_file_task looks for a row with the file  *)
(* ...                                                                     *)
Referenced(o) == \E r \in Row : Exists(r) /\ file[r] = o

Check(o) ==
  /\ o \in cleanup
  /\ cleanup' = cleanup \ {o}
  /\ checked' = IF Referenced(o) THEN checked ELSE checked \cup {o}
  /\ UNCHANGED <<row, file, blank, stored, named, hand, deleting, lost, faults>>

(* ... and deletes the object.                                             *)
Collect(o) ==
  /\ o \in checked
  /\ checked' = checked \ {o}
  /\ stored' = stored \ {o}
  /\ UNCHANGED <<row, file, blank, named, hand, deleting, cleanup, lost, faults>>

(* S3 refuses; the task reports it and is not tried again.                 *)
CollectFails(o) ==
  /\ o \in checked
  /\ Fault
  /\ checked' = checked \ {o}
  /\ Lose(o)
  /\ UNCHANGED <<row, file, blank, stored, named, hand, deleting, cleanup>>

(* The worker dies, and the broker delivers the task again.                *)
Redeliver(o) ==
  /\ o \in checked
  /\ Fault
  /\ checked' = checked \ {o}
  /\ cleanup' = cleanup \cup {o}
  /\ UNCHANGED <<row, file, blank, stored, named, hand, deleting, lost>>

-----------------------------------------------------------------------------
Inbound(r) == Receive(r) \/ CommitReceived(r)

Draft(r) == CreateDraft(r) \/ RefuseDraft(r) \/ Restage(r) \/ Promote(r) \/ Cancel(r)

Send(r) == Compose(r) \/ Materialize(r) \/ SaveFile(r)

Storage(r) == Upload(r) \/ UploadFails(r) \/ Abort(r)

Deletion(r) == Load(r) \/ Delete(r) \/ DeleteUnpublished(r)

Cleanup(o) == Check(o) \/ Collect(o)

Next ==
  \/ \E r \in Row : Inbound(r) \/ Draft(r) \/ Send(r) \/ Storage(r) \/ Deletion(r)
  \/ \E o \in Object : Cleanup(o) \/ CollectFails(o) \/ Redeliver(o)

(* Celery works its queue off.                                             *)
Spec == Init /\ [][Next]_vars /\ \A o \in Object : WF_vars(Cleanup(o))

-----------------------------------------------------------------------------
(* The file of an attachment is there as long as any row names it, a       *)
(* forwarded copy as much as its original, whoever deletes what meanwhile. *)
RowsHaveObjects == \A r \in Row : Exists(r) /\ file[r] # NoObject => file[r] \in stored

(* An object no row names is collected, unless a fault has come between: an*)
(* upload whose row was never saved, a deletion that loaded its row before *)
(* the upload was saved or was never published, a refused delete.  Nothing *)
(* else looks for such objects.                                            *)
OrphansCollected ==
  \A o \in Object :
    (o \in stored /\ ~ Referenced(o) /\ \A r \in Row : hand[r].object # o)
      ~> (o \notin stored \/ o \in lost)

=============================================================================
