---------------------------- MODULE OutboundSend ----------------------------
(***************************************************************************)
(* The outbound send pipeline: messages composed, scheduled, cancelled and *)
(* deleted through the API (hedwig/views.py, hedwig/manager.py), dispatched*)
(* through the Celery broker (hedwig/tasks.py) and posted to the provider  *)
(* (providers/sending.py, providers/postmark.py).                          *)
(*                                                                         *)
(* Every transaction, autocommitted save and network call is a step of its *)
(* own, for workers and web requests interleave between them.  A worker    *)
(* acknowledges a task when it ends (acks_late, reject_on_worker_lost), so *)
(* the task of a worker that dies is delivered again.                      *)
(*                                                                         *)
(* A message has at most one attempt row: both creators number it 1 and    *)
(* unique_send_attempt_number refuses a second.  The daily limit is the    *)
(* DailySendLog this module extends.                                       *)
(***************************************************************************)
EXTENDS DailySendLog

CONSTANTS
  Message,       \* outbound messages
  DomainOf,      \* the domain of each message's mailbox
  MaxRetries,    \* max_retries of send_email_message_task
  MaxCopies,     \* bound on the undelivered copies of one task
  MaxCrashes,    \* bound on the worker crashes
  Events,        \* what may happen besides the plain course of a send
  NoTask         \* the task of an idle worker

Task == Message \X (0 .. MaxRetries)

ASSUME SendAssumption ==
  /\ DomainOf \in [Message -> Domain]
  /\ MaxRetries \in Nat
  /\ MaxCopies \in Nat
  /\ MaxCrashes \in Nat
  /\ NoTask \notin Task
  /\ Events \subseteq {"schedule", "draft", "edit", "cancel", "delete",
                       "web_crash", "storage_fails", "misconfigured",
                       "answer_lost", "midnight"}

VARIABLES
  status,      \* EmailMessage.status
  attempt,     \* OutboundSendAttempt.status of the message's one attempt
  schedule,    \* EmailMessage.scheduled_at, against the clock
  publishing,  \* messages whose request has committed and not yet enqueued
  broker,      \* undelivered copies of each task (message, retries so far)
  pc,          \* where a worker is in send_email_message_task
  task,        \* the task a worker has in hand
  verdict,     \* the kind of error a worker's call is failing with
  editing,     \* messages whose draft edit has read them as a draft
  promoting,   \* per message, the schedule a send-draft request has read with the draft
  cancelling,  \* messages whose cancel request has read a pending attempt
  cancelled,   \* history: how a cancel that reported success found the attempt
  posted,      \* history: how often the provider accepted the message
  crashes      \* history: worker crashes so far

rows == <<status, attempt, schedule>>
web == <<publishing, editing, promoting, cancelling, cancelled>>
work == <<pc, task, verdict>>
sendVars == <<rows, web, broker, work, posted, crashes>>
vars == <<sendVars, logVars>>

MessageStatus == {"absent", "draft", "queued", "sent", "failed", "deleted"}
AttemptStatus == {"none", "pending", "sending", "sent", "failed", "cancelled"}
Schedule == {"unset", "future", "past"}

(* Where a worker's task is, in the order of the code.                     *)
Location ==
  {"idle", "reserved", "holding", "calling",   \* on the way to the provider
   "store_message", "store_attempt",           \* the provider said yes
   "reject_message", "reject_attempt",         \* the provider said no
   "fail_attempt", "fail_message",             \* mark_send_failed
   "releasing", "retrying", "acking", "closing"}

SendTypeOK ==
  /\ status \in [Message -> MessageStatus]
  /\ attempt \in [Message -> AttemptStatus]
  /\ schedule \in [Message -> Schedule]
  /\ publishing \subseteq Message
  /\ broker \in [Task -> Nat]
  /\ pc \in [Worker -> Location]
  /\ task \in [Worker -> Task \cup {NoTask}]
  /\ verdict \in [Worker -> {"transient", "permanent"}]
  /\ editing \subseteq Message
  /\ promoting \in [Message -> Schedule \cup {"none", "edited"}]
  /\ cancelling \subseteq Message
  /\ cancelled \in [Message -> {"no", "in_time", "too_late"}]
  /\ posted \in [Message -> Nat]
  /\ crashes \in Nat

TypeOK == LogTypeOK /\ SendTypeOK

Init ==
  /\ LogInit
  /\ status = [m \in Message |-> "absent"]
  /\ attempt = [m \in Message |-> "none"]
  /\ schedule = [m \in Message |-> "unset"]
  /\ publishing = {}
  /\ broker = [t \in Task |-> 0]
  /\ pc = [w \in Worker |-> "idle"]
  /\ task = [w \in Worker |-> NoTask]
  /\ verdict = [w \in Worker |-> "permanent"]
  /\ editing = {}
  /\ promoting = [m \in Message |-> "none"]
  /\ cancelling = {}
  /\ cancelled = [m \in Message |-> "no"]
  /\ posted = [m \in Message |-> 0]
  /\ crashes = 0

-----------------------------------------------------------------------------
(* The web API.                                                            *)

SetRow(m, s, a, at) ==
  /\ status' = [status EXCEPT ![m] = s]
  /\ attempt' = [attempt EXCEPT ![m] = a]
  /\ schedule' = [schedule EXCEPT ![m] = at]

(* What a user may put in scheduled_at: nothing, or a future time.         *)
ChosenSchedule == {"unset"} \cup (IF "schedule" \in Events THEN {"future"} ELSE {})

(* _enqueue_send: a future send is left to the sweeper.                    *)
PublishUnlessFuture(m, at) ==
  publishing' = IF at = "future" THEN publishing ELSE publishing \cup {m}

(* POST send/: create_outbound_message commits message and attempt.        *)
ComposeSend(m, at) ==
  /\ status[m] = "absent"
  /\ at \in ChosenSchedule
  /\ SetRow(m, "queued", "pending", at)
  /\ PublishUnlessFuture(m, at)
  /\ UNCHANGED <<editing, promoting, cancelling, cancelled, broker, work, posted, crashes, logVars>>

(* POST draft/: a draft has no attempt yet.                                *)
SaveDraft(m, at) ==
  /\ "draft" \in Events
  /\ status[m] = "absent"
  /\ at \in ChosenSchedule
  /\ SetRow(m, "draft", "none", at)
  /\ UNCHANGED <<web, broker, work, posted, crashes, logVars>>

(* PATCH draft/: _get_editable_draft finds a draft ...                     *)
EditRead(m) ==
  /\ "edit" \in Events
  /\ status[m] = "draft"
  /\ editing' = editing \cup {m}
  /\ UNCHANGED <<rows, publishing, promoting, cancelling, cancelled, broker, work, posted,
                 crashes, logVars>>

(* ... and update_draft_message saves the fields of the request, here      *)
(* scheduled_at, into whatever the row has become meanwhile.               *)
EditWrite(m, at) ==
  /\ m \in editing
  /\ at \in ChosenSchedule
  /\ editing' = editing \ {m}
  /\ schedule' = [schedule EXCEPT ![m] = IF status[m] = "deleted" THEN @ ELSE at]
  /\ promoting' = [promoting EXCEPT ![m] = IF @ = "future" THEN "edited" ELSE @]
  /\ UNCHANGED <<status, attempt, publishing, cancelling, cancelled, broker, work,
                 posted, crashes, logVars>>

(* POST send-draft/: _get_editable_draft finds a draft.  A second request, *)
(* or one for a draft with an attempt, only fails ...                      *)
SendDraftRead(m) ==
  /\ status[m] = "draft"
  /\ attempt[m] = "none"
  /\ promoting[m] = "none"
  /\ promoting' = [promoting EXCEPT ![m] = schedule[m]]
  /\ UNCHANGED <<rows, publishing, editing, cancelling, cancelled, broker, work, posted,
                 crashes, logVars>>

(* Mutant of SendDraft: only the send endpoint enqueues.                   *)
SendDraftUnpublished(m, at) ==
  /\ at = promoting[m] /\ at # "none"
  /\ promoting' = [promoting EXCEPT ![m] = "none"]
  /\ IF status[m] = "draft" /\ attempt[m] = "none"
     THEN SetRow(m, "queued", "pending", schedule[m])
     ELSE UNCHANGED rows
  /\ UNCHANGED <<publishing, editing, cancelling, cancelled, broker, work, posted, crashes, logVars>>

(* ... and promote_draft_to_send inserts attempt number 1, which the unique*)
(* constraint refuses when the draft has an attempt already.  The row keeps*)
(* its schedule, and _enqueue_send goes by the one that was read: of one   *)
(* that an edit has replaced the time may have come since, or not.         *)
SendDraft(m, at) ==
  /\ IF promoting[m] = "edited" THEN at \in {"future", "past"} ELSE at = promoting[m] /\ at # "none"
  /\ promoting' = [promoting EXCEPT ![m] = "none"]
  /\ IF status[m] = "draft" /\ attempt[m] = "none"
     THEN /\ SetRow(m, "queued", "pending", schedule[m])
          /\ PublishUnlessFuture(m, at)
     ELSE UNCHANGED <<rows, publishing>>   \* the request fails
  /\ UNCHANGED <<editing, cancelling, cancelled, broker, work, posted, crashes, logVars>>

(* The request's on_commit hook hands the task to the broker ...           *)
Enqueue(m) ==
  /\ m \in publishing
  /\ publishing' = publishing \ {m}
  /\ broker' = [broker EXCEPT ![<<m, 0>>] = @ + 1]
  /\ UNCHANGED <<rows, editing, promoting, cancelling, cancelled, work, posted, crashes, logVars>>

(* ... unless the web process dies between the commit and the hook.        *)
WebCrash(m) ==
  /\ "web_crash" \in Events
  /\ m \in publishing
  /\ publishing' = publishing \ {m}
  /\ UNCHANGED <<rows, editing, promoting, cancelling, cancelled, broker, work, posted, crashes, logVars>>

(* cancel_scheduled_send, from POST cancel/ or from trashing the message:  *)
(* it reads a queued message and its pending attempt without a lock ...    *)
CancelRead(m) ==
  /\ "cancel" \in Events
  /\ status[m] = "queued"
  /\ attempt[m] = "pending"
  /\ cancelling' = cancelling \cup {m}
  /\ UNCHANGED <<rows, publishing, editing, promoting, cancelled, broker, work, posted, crashes, logVars>>

(* Mutant of CancelWrite: the message stays queued.                        *)
CancelAttemptOnly(m) ==
  /\ m \in cancelling
  /\ cancelling' = cancelling \ {m}
  /\ IF status[m] = "deleted"
     THEN UNCHANGED <<rows, cancelled>>
     ELSE /\ SetRow(m, status[m], "cancelled", "unset")
          /\ cancelled' = [cancelled EXCEPT ![m] =
                             IF attempt[m] = "pending" THEN "in_time" ELSE "too_late"]
  /\ UNCHANGED <<publishing, editing, promoting, broker, work, posted, crashes, logVars>>

(* ... and then writes both rows, whatever they have become meanwhile.     *)
CancelWrite(m) ==
  /\ m \in cancelling
  /\ cancelling' = cancelling \ {m}
  /\ IF status[m] = "deleted"
     THEN UNCHANGED <<rows, cancelled>>   \* the save fails, the request too
     ELSE /\ SetRow(m, "draft", "cancelled", "unset")
          /\ cancelled' = [cancelled EXCEPT ![m] =
                             IF attempt[m] = "pending" THEN "in_time" ELSE "too_late"]
  /\ UNCHANGED <<publishing, editing, promoting, broker, work, posted, crashes, logVars>>

(* Permanent delete: the attempt row goes with the message, the tasks stay.*)
Delete(m) ==
  /\ "delete" \in Events
  /\ status[m] \notin {"absent", "deleted"}
  /\ SetRow(m, "deleted", "none", "unset")
  /\ UNCHANGED <<web, broker, work, posted, crashes, logVars>>

(* The scheduled time of a message arrives.                                *)
FallDue(m) ==
  /\ schedule[m] = "future"
  /\ schedule' = [schedule EXCEPT ![m] = "past"]
  /\ promoting' = [promoting EXCEPT ![m] = IF @ = "future" THEN "past" ELSE @]
  /\ UNCHANGED <<status, attempt, publishing, editing, cancelling, cancelled, broker, work, posted, crashes, logVars>>

(* Mutant of DueSends: the time comparison is turned round.                *)
SendsNotDue ==
  {m \in Message : attempt[m] = "pending" /\ status[m] = "queued" /\ schedule[m] = "future"}

(* What dispatch_due_scheduled_sends_task selects.                         *)
DueSends ==
  {m \in Message : attempt[m] = "pending" /\ status[m] = "queued" /\ schedule[m] = "past"}

(* The minutely sweep enqueues every due send, one already enqueued too.   *)
DispatchDueScheduledSends ==
  /\ DueSends # {}
  /\ \A m \in DueSends : broker[<<m, 0>>] < MaxCopies
  /\ broker' = [t \in Task |-> IF t[1] \in DueSends /\ t[2] = 0
                               THEN broker[t] + 1 ELSE broker[t]]
  /\ UNCHANGED <<rows, web, work, posted, crashes, logVars>>

-----------------------------------------------------------------------------
(* The worker: send_email_message_task.                                    *)

MessageOf(w) == task[w][1]

Goto(w, l) == pc' = [pc EXCEPT ![w] = l]

Idle(w) ==
  /\ Goto(w, "idle")
  /\ task' = [task EXCEPT ![w] = NoTask]
  /\ UNCHANGED verdict

Fail(w, v, l) ==
  /\ verdict' = [verdict EXCEPT ![w] = v]
  /\ Goto(w, l)
  /\ UNCHANGED task

SaveStatus(w, s) ==
  /\ status[MessageOf(w)] # "deleted"
  /\ status' = [status EXCEPT ![MessageOf(w)] = s]
  /\ UNCHANGED <<attempt, schedule>>

SaveAttempt(w, a) ==
  /\ status[MessageOf(w)] # "deleted"
  /\ attempt' = [attempt EXCEPT ![MessageOf(w)] = a]
  /\ UNCHANGED <<status, schedule>>

Deliver(t) ==
  /\ broker[t] > 0
  /\ broker' = [broker EXCEPT ![t] = @ - 1]

(* Mutants of ReserveAttempt: it skips only attempts that are sent or in   *)
(* flight, or only those that are settled.                                 *)
ReserveCancelled(w, t) ==
  /\ pc[w] = "idle"
  /\ Deliver(t)
  /\ attempt[t[1]] \in {"pending", "failed", "cancelled"}
  /\ attempt' = [attempt EXCEPT ![t[1]] = "sending"]
  /\ Goto(w, "reserved")
  /\ task' = [task EXCEPT ![w] = t]
  /\ UNCHANGED <<status, schedule, web, verdict, posted, crashes, logVars>>

ReserveInFlight(w, t) ==
  /\ pc[w] = "idle"
  /\ Deliver(t)
  /\ attempt[t[1]] \in {"pending", "failed", "sending"}
  /\ attempt' = [attempt EXCEPT ![t[1]] = "sending"]
  /\ Goto(w, "reserved")
  /\ task' = [task EXCEPT ![w] = t]
  /\ UNCHANGED <<status, schedule, web, verdict, posted, crashes, logVars>>

(* reserve_attempt_for_sending takes a pending or failed attempt under the *)
(* row lock.                                                               *)
ReserveAttempt(w, t) ==
  /\ pc[w] = "idle"
  /\ Deliver(t)
  /\ attempt[t[1]] \in {"pending", "failed"}
  /\ attempt' = [attempt EXCEPT ![t[1]] = "sending"]
  /\ Goto(w, "reserved")
  /\ task' = [task EXCEPT ![w] = t]
  /\ UNCHANGED <<status, schedule, web, verdict, posted, crashes, logVars>>

(* An attempt in flight, sent or cancelled is skipped; a deleted one makes *)
(* the task fail.  Either way the task is acknowledged.                    *)
SkipTask(w, t) ==
  /\ pc[w] = "idle"
  /\ Deliver(t)
  /\ attempt[t[1]] \notin {"pending", "failed"}
  /\ UNCHANGED <<rows, web, work, posted, crashes, logVars>>

(* send_with_provider: sending has been disabled, or a recipient           *)
(* suppressed, since the message was composed.                             *)
CheckRefuses(w) ==
  /\ pc[w] = "reserved"
  /\ Fail(w, "permanent", "fail_attempt")
  /\ UNCHANGED <<rows, web, broker, posted, crashes, logVars>>

LimitRefuses(w) ==
  /\ pc[w] = "reserved"
  /\ RefuseSendSlot(w, DomainOf[MessageOf(w)])
  /\ Fail(w, "permanent", "fail_attempt")
  /\ UNCHANGED <<rows, web, broker, posted, crashes>>

(* Mutant of TakeSlot: the slot is counted without asking for room.        *)
TakeSlotUnchecked(w) ==
  LET row == TodaysRow(DomainOf[MessageOf(w)]) IN
    /\ pc[w] = "reserved"
    /\ sentCount' = Increment(sentCount, row)
    /\ slot' = [slot EXCEPT ![w] = row]
    /\ Goto(w, "holding")
    /\ UNCHANGED <<rows, web, broker, task, verdict, posted, crashes,
                   today, failedCount, delivered, ghosts>>

TakeSlot(w) ==
  /\ pc[w] = "reserved"
  /\ ReserveSendSlot(w, DomainOf[MessageOf(w)])
  /\ Goto(w, "holding")
  /\ UNCHANGED <<rows, web, broker, task, verdict, posted, crashes>>

(* materialize_attachments raises TransientSendError: nothing is marked.   *)
StorageFails(w) ==
  /\ "storage_fails" \in Events
  /\ pc[w] = "holding"
  /\ Fail(w, "transient", "releasing")
  /\ UNCHANGED <<rows, web, broker, posted, crashes, logVars>>

(* The provider has no token (PostmarkClient), or get_provider knows no    *)
(* such provider: neither handler of send_with_provider sees the error.    *)
ProviderUnusable(w) ==
  /\ "misconfigured" \in Events
  /\ pc[w] = "holding"
  /\ AbandonSlot(w)
  /\ Fail(w, "permanent", "closing")
  /\ UNCHANGED <<rows, web, broker, posted, crashes>>

(* send_message saves the attempt as sending once more and posts the mail. *)
StartCall(w) ==
  /\ pc[w] = "holding"
  /\ SaveAttempt(w, "sending")
  /\ Goto(w, "calling")
  /\ UNCHANGED <<web, broker, task, verdict, posted, crashes, logVars>>

(* The provider accepts the mail ...                                       *)
Accept(w) ==
  /\ pc[w] = "calling"
  /\ ProviderAccepts(w)
  /\ posted' = [posted EXCEPT ![MessageOf(w)] = @ + 1]
  /\ UNCHANGED <<rows, web, broker, work, crashes>>

(* Mutant of AnswerArrives: any answer counts as a success.                *)
AnyAnswerArrives(w) ==
  /\ pc[w] = "calling"
  /\ Goto(w, "store_message")
  /\ UNCHANGED <<rows, web, broker, task, verdict, posted, crashes, logVars>>

(* ... and the worker reads its answer.                                    *)
AnswerArrives(w) ==
  /\ pc[w] = "calling"
  /\ delivered[w]
  /\ Goto(w, "store_message")
  /\ UNCHANGED <<rows, web, broker, task, verdict, posted, crashes, logVars>>

(* The request fails or times out, or the answer is no JSON: the mail may  *)
(* have been accepted all the same.                                        *)
CallFails(w) ==
  /\ pc[w] = "calling"
  /\ delivered[w] => "answer_lost" \in Events
  /\ Fail(w, "transient", "fail_attempt")
  /\ UNCHANGED <<rows, web, broker, posted, crashes, logVars>>

(* The provider refuses: 5xx is transient, anything else permanent.        *)
CallRejected(w, v) ==
  /\ pc[w] = "calling"
  /\ ~ delivered[w]
  /\ Fail(w, v, "reject_message")
  /\ UNCHANGED <<rows, web, broker, posted, crashes, logVars>>

(* Accepted: the message is saved as sent, then the attempt.               *)
StoreMessage(w) ==
  /\ pc[w] = "store_message"
  /\ SaveStatus(w, "sent")
  /\ Goto(w, "store_attempt")
  /\ UNCHANGED <<web, broker, task, verdict, posted, crashes, logVars>>

StoreAttempt(w) ==
  /\ pc[w] = "store_attempt"
  /\ SaveAttempt(w, "sent")
  /\ ConfirmSend(w)
  /\ Idle(w)
  /\ UNCHANGED <<web, broker, posted, crashes>>

(* Rejected: the message is saved as failed, then the attempt.             *)
RejectMessage(w) ==
  /\ pc[w] = "reject_message"
  /\ SaveStatus(w, "failed")
  /\ Goto(w, "reject_attempt")
  /\ UNCHANGED <<web, broker, task, verdict, posted, crashes, logVars>>

RejectAttempt(w) ==
  /\ pc[w] = "reject_attempt"
  /\ SaveAttempt(w, "failed")
  /\ Goto(w, "releasing")
  /\ UNCHANGED <<web, broker, task, verdict, posted, crashes, logVars>>

(* mark_send_failed: the attempt is saved as failed, then the message.     *)
FailAttempt(w) ==
  /\ pc[w] = "fail_attempt"
  /\ SaveAttempt(w, "failed")
  /\ Goto(w, "fail_message")
  /\ UNCHANGED <<web, broker, task, verdict, posted, crashes, logVars>>

FailMessage(w) ==
  /\ pc[w] = "fail_message"
  /\ SaveStatus(w, "failed")
  /\ Goto(w, IF slot[w] = NoRow THEN "closing" ELSE "releasing")
  /\ UNCHANGED <<web, broker, task, verdict, posted, crashes, logVars>>

DropSlot(w) == IF slot[w] = NoRow THEN UNCHANGED logVars ELSE AbandonSlot(w)

(* A save whose row is deleted raises DatabaseError, which no handler but  *)
(* the task's last one expects.                                            *)
RowGone(w) ==
  /\ pc[w] \in {"holding", "store_message", "store_attempt", "reject_message",
                "reject_attempt", "fail_attempt", "fail_message"}
  /\ status[MessageOf(w)] = "deleted"
  /\ DropSlot(w)
  /\ Fail(w, "permanent", "closing")
  /\ UNCHANGED <<rows, web, broker, posted, crashes>>

(* The handlers of send_with_provider give the slot back.                  *)
ReleaseAfterTransient(w) ==
  /\ pc[w] = "releasing"
  /\ verdict[w] = "transient"
  /\ TransientFailure(w)
  /\ Goto(w, "retrying")
  /\ UNCHANGED <<rows, web, broker, task, verdict, posted, crashes>>

ReleaseAfterPermanent(w) ==
  /\ pc[w] = "releasing"
  /\ verdict[w] = "permanent"
  /\ PermanentFailure(w)
  /\ Goto(w, "closing")
  /\ UNCHANGED <<rows, web, broker, task, verdict, posted, crashes>>

(* self.retry publishes the task again ...                                 *)
Retry(w) ==
  LET m == MessageOf(w)
      retries == task[w][2]
  IN
    /\ pc[w] = "retrying"
    /\ retries < MaxRetries
    /\ broker' = [broker EXCEPT ![<<m, retries + 1>>] = @ + 1]
    /\ Goto(w, "acking")
    /\ UNCHANGED <<rows, web, task, verdict, posted, crashes, logVars>>

(* ... until max_retries is reached, and the error is raised as it is.     *)
GiveUp(w) ==
  /\ pc[w] = "retrying"
  /\ task[w][2] = MaxRetries
  /\ Idle(w)
  /\ UNCHANGED <<rows, web, broker, posted, crashes, logVars>>

Acknowledge(w) ==
  /\ pc[w] = "acking"
  /\ Idle(w)
  /\ UNCHANGED <<rows, web, broker, posted, crashes, logVars>>

(* mark_attempt_failed, under the attempt's lock: an attempt that is gone  *)
(* or sent is left alone.                                                  *)
MarkAttemptFailed(w) ==
  LET m == MessageOf(w) IN
    /\ pc[w] = "closing"
    /\ IF status[m] = "deleted" \/ attempt[m] = "sent"
       THEN UNCHANGED rows
       ELSE SetRow(m, "failed", "failed", schedule[m])
    /\ Idle(w)
    /\ UNCHANGED <<web, broker, posted, crashes, logVars>>

(* The worker dies: the broker delivers its unacknowledged task again.     *)
WorkerCrash(w) ==
  /\ pc[w] # "idle"
  /\ crashes < MaxCrashes
  /\ crashes' = crashes + 1
  /\ broker' = [broker EXCEPT ![task[w]] = @ + 1]
  /\ DropSlot(w)
  /\ Idle(w)
  /\ UNCHANGED <<rows, web, posted>>

NextDay ==
  /\ "midnight" \in Events
  /\ Midnight
  /\ UNCHANGED sendVars

-----------------------------------------------------------------------------
User(m) ==
  \/ \E at \in Schedule : ComposeSend(m, at)
  \/ \E at \in Schedule : SaveDraft(m, at)
  \/ EditRead(m)
  \/ \E at \in Schedule : EditWrite(m, at)
  \/ SendDraftRead(m)
  \/ \E at \in Schedule : SendDraft(m, at)
  \/ CancelRead(m)
  \/ CancelWrite(m)
  \/ Delete(m)

(* The steps a worker takes with the task it has in hand.                  *)
WorkOnTask(w) ==
  \/ CheckRefuses(w) \/ LimitRefuses(w) \/ TakeSlot(w)
  \/ StorageFails(w) \/ ProviderUnusable(w) \/ StartCall(w)
  \/ Accept(w) \/ AnswerArrives(w) \/ CallFails(w)
  \/ \E v \in {"transient", "permanent"} : CallRejected(w, v)
  \/ StoreMessage(w) \/ StoreAttempt(w)
  \/ RejectMessage(w) \/ RejectAttempt(w)
  \/ FailAttempt(w) \/ FailMessage(w) \/ RowGone(w)
  \/ ReleaseAfterTransient(w) \/ ReleaseAfterPermanent(w)
  \/ Retry(w) \/ GiveUp(w) \/ Acknowledge(w) \/ MarkAttemptFailed(w)

TakeTask(w) == \E t \in Task : ReserveAttempt(w, t) \/ SkipTask(w, t)

Next ==
  \/ \E m \in Message : User(m) \/ Enqueue(m) \/ WebCrash(m) \/ FallDue(m)
  \/ DispatchDueScheduledSends
  \/ \E w \in Worker : TakeTask(w) \/ WorkOnTask(w) \/ WorkerCrash(w)
  \/ NextDay

Spec == Init /\ [][Next]_vars

(* Processes that are up keep running: a web request reaches its on_commit *)
(* hook, the clock and the beat scheduler go on, workers drain the queue   *)
(* and carry on with the task they have.                                   *)
Fairness ==
  /\ \A m \in Message : WF_vars(Enqueue(m)) /\ WF_vars(FallDue(m))
  /\ WF_vars(DispatchDueScheduledSends)
  /\ \A w \in Worker : WF_vars(TakeTask(w)) /\ WF_vars(WorkOnTask(w))

FairSpec == Spec /\ Fairness

-----------------------------------------------------------------------------
WorksOn(w, m) == task[w] # NoTask /\ MessageOf(w) = m

Workers(m) == {w \in Worker : WorksOn(w, m)}

(* A cancel that found its attempt still pending is final: the mail never  *)
(* leaves, whatever copies of the task the broker still delivers ("Undo    *)
(* send", _enqueue_send and cancel_scheduled_send).                        *)
CancelInTimeHolds ==
  \A m \in Message : cancelled[m] = "in_time" =>
    /\ posted[m] = 0
    /\ attempt[m] = "cancelled" \/ status[m] = "deleted"

(* Nothing is reported as sent that the provider has not accepted, on      *)
(* either row, after any failures, retries and crashes.                    *)
SentMeansPosted ==
  \A m \in Message :
    status[m] = "sent" \/ attempt[m] = "sent" => posted[m] > 0

(* A mail leaves once: with no more copies of the task than retries and    *)
(* the redelivery after one crash make, the reservation keeps other workers*)
(* out, and a worker that dies after the call leaves the attempt in a state*)
(* nobody reserves.                                                        *)
PostedAtMostOnce == \A m \in Message : posted[m] <= 1

(* Message and attempt are saved apart, in either order, by workers and    *)
(* web requests; once nobody has the message in hand they tell the same,   *)
(* as long as no worker has died.                                          *)
RowsAgreeAtRest ==
  \A m \in Message :
    crashes = 0 /\ Workers(m) = {} /\ m \notin cancelling /\ cancelled[m] # "too_late" =>
      <<status[m], attempt[m]>> \in
        {<<"absent", "none">>, <<"draft", "none">>, <<"draft", "cancelled">>,
         <<"queued", "pending">>, <<"sent", "sent">>, <<"failed", "failed">>,
         <<"deleted", "none">>}

(* Somebody is going to handle an attempt that is not settled: the request *)
(* that commits it, a copy of its task, the sweeper, or a worker; a worker *)
(* that dies with a reserved attempt leaves it to nobody.                  *)
NoAttemptStranded ==
  \A m \in Message :
    /\ attempt[m] = "pending" => \/ m \in publishing
                                 \/ schedule[m] # "unset"
                                 \/ broker[<<m, 0>>] > 0
    /\ attempt[m] = "sending" /\ crashes = 0 => Workers(m) # {}

(* Every attempt is settled in the end: sent, failed, cancelled or gone    *)
(* with its message.                                                       *)
EveryAttemptSettles ==
  \A m \in Message :
    attempt[m] \in {"pending", "sending"} ~> attempt[m] \notin {"pending", "sending"}
=============================================================================
