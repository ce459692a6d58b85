------------------------- MODULE OutboundSendProofs -------------------------
(***************************************************************************)
(* The send pipeline, for any messages, workers, limits and retries.       *)
(*                                                                         *)
(* With any number of crashes and everything in Events allowed: its types, *)
(* that every step of it is a step of the send log or leaves the log alone,*)
(* and that cancels in time hold and nothing is reported as sent that was  *)
(* not.  With hypotheses on Events and MaxCrashes, each of which the code  *)
(* needs: that a mail leaves once, that a message and its attempt tell the *)
(* same at rest, and that no attempt is left without a handler.            *)
(***************************************************************************)
EXTENDS OutboundSend, DailySendLogProofs

(* No worker has the message in hand and the provider has never seen it.   *)
Untouched(m) ==
  /\ posted[m] = 0
  /\ \A w \in Worker : task[w] # NoTask => MessageOf(w) # m

(* Where a worker may hold a slot: from TakeSlot to the end of the call.   *)
SlotLocation ==
  {"holding", "calling", "store_message", "store_attempt", "reject_message",
   "reject_attempt", "fail_attempt", "fail_message", "releasing"}

IdleHasNoTask == \A w \in Worker : pc[w] = "idle" <=> task[w] = NoTask

NewRows ==
  \A m \in Message :
    /\ status[m] \in {"absent", "deleted"} => attempt[m] = "none"
    /\ attempt[m] = "pending" => Untouched(m)
    /\ attempt[m] = "none" /\ status[m] # "deleted" => Untouched(m)

CancelledRows ==
  \A m \in Message : cancelled[m] = "in_time" =>
    Untouched(m) /\ (attempt[m] = "cancelled" \/ status[m] = "deleted")

SlotsWhereHeld ==
  \A w \in Worker : /\ delivered[w] => slot[w] # NoRow
                    /\ slot[w] # NoRow => pc[w] \in SlotLocation

PostedBehind ==
  \A w \in Worker :
    delivered[w] \/ pc[w] \in {"store_message", "store_attempt"} =>
      posted[MessageOf(w)] > 0

CancelInv == IdleHasNoTask /\ NewRows /\ CancelledRows
SentInv == SlotsWhereHeld /\ PostedBehind /\ SentMeansPosted

-----------------------------------------------------------------------------
LEMMA SendInitTypeOK == Init => SendTypeOK /\ IdleHasNoTask
BY SendAssumption
DEF Init, SendTypeOK, IdleHasNoTask, MessageStatus, AttemptStatus, Schedule, Location

(* The types of the rows, the broker and the workers, step by step; only a *)
(* worker with a task in hand is busy.                                     *)
LEMMA SendNextTypeOK ==
  SendTypeOK /\ IdleHasNoTask /\ [Next]_vars => SendTypeOK' /\ IdleHasNoTask'
<1> SUFFICES ASSUME SendTypeOK, IdleHasNoTask, [Next]_vars
             PROVE  SendTypeOK' /\ IdleHasNoTask'
  OBVIOUS
<1> USE SendAssumption
    DEF SendTypeOK, IdleHasNoTask, MessageStatus, AttemptStatus, Schedule,
        rows, web, work
<1>1. ASSUME NEW m \in Message, User(m)
      PROVE  SendTypeOK' /\ IdleHasNoTask'
  <2>1. ASSUME NEW at \in Schedule, ComposeSend(m, at) \/ SaveDraft(m, at)
        PROVE  SendTypeOK' /\ IdleHasNoTask'
    BY <2>1 DEF ComposeSend, SaveDraft, SetRow, PublishUnlessFuture
  <2>2. ASSUME NEW at \in Schedule, EditWrite(m, at)
        PROVE  SendTypeOK' /\ IdleHasNoTask'
    BY <2>2 DEF EditWrite
  <2>3. CASE EditRead(m) \/ SendDraftRead(m) \/ CancelRead(m)
    BY <2>3 DEF EditRead, SendDraftRead, CancelRead
  <2>4. ASSUME NEW at \in Schedule, SendDraft(m, at)
        PROVE  SendTypeOK' /\ IdleHasNoTask'
    <3>1. schedule[m] \in Schedule
      OBVIOUS
    <3> QED BY <2>4, <3>1 DEF SendDraft, SetRow, PublishUnlessFuture
  <2>5. CASE CancelWrite(m) \/ Delete(m)
    BY <2>5 DEF CancelWrite, Delete, SetRow
  <2> QED BY <1>1, <2>1, <2>2, <2>3, <2>4, <2>5 DEF User
<1>2. ASSUME NEW m \in Message, Enqueue(m) \/ WebCrash(m) \/ FallDue(m)
      PROVE  SendTypeOK' /\ IdleHasNoTask'
  BY <1>2 DEF Enqueue, WebCrash, FallDue
<1>3. CASE DispatchDueScheduledSends
  BY <1>3 DEF DispatchDueScheduledSends
<1>4. ASSUME NEW w \in Worker, NEW t \in Task, ReserveAttempt(w, t) \/ SkipTask(w, t)
      PROVE  SendTypeOK' /\ IdleHasNoTask'
  <2>1. t[1] \in Message /\ t # NoTask
    BY DEF Task
  <2> QED BY <1>4, <2>1 DEF ReserveAttempt, SkipTask, Deliver, Goto, Location
<1>5. ASSUME NEW w \in Worker, WorkOnTask(w)
      PROVE  SendTypeOK' /\ IdleHasNoTask'
  <2> USE DEF Location, Goto, Fail, Idle
  <2>1. CASE \/ CheckRefuses(w) \/ LimitRefuses(w) \/ TakeSlot(w) \/ StorageFails(w)
             \/ ProviderUnusable(w) \/ RowGone(w) \/ AnswerArrives(w) \/ CallFails(w)
             \/ ReleaseAfterTransient(w) \/ ReleaseAfterPermanent(w)
             \/ \E v \in {"transient", "permanent"} : CallRejected(w, v)
    BY <2>1 DEF CheckRefuses, LimitRefuses, TakeSlot, StorageFails, ProviderUnusable,
                RowGone, AnswerArrives, CallFails, CallRejected,
                ReleaseAfterTransient, ReleaseAfterPermanent
  <2>2. CASE Accept(w)
    <3>1. MessageOf(w) \in Message
      BY <2>2 DEF Accept, MessageOf, Task
    <3> QED BY <2>2, <3>1 DEF Accept
  <2>3. CASE \/ StoreMessage(w) \/ RejectMessage(w) \/ FailMessage(w)
    BY <2>3 DEF StoreMessage, RejectMessage, FailMessage, SaveStatus
  <2>4. CASE \/ StartCall(w) \/ RejectAttempt(w) \/ FailAttempt(w) \/ StoreAttempt(w)
    BY <2>4 DEF StartCall, RejectAttempt, FailAttempt, StoreAttempt, SaveAttempt
  <2>5. CASE Retry(w)
    <3>1. <<MessageOf(w), task[w][2] + 1>> \in Task /\ pc[w] # "idle"
      BY <2>5 DEF Retry, MessageOf, Task
    <3> DEFINE again == <<MessageOf(w), task[w][2] + 1>>
    <3> HIDE DEF again
    <3>2. broker' = [broker EXCEPT ![again] = @ + 1] /\ again \in Task
      BY <2>5, <3>1 DEF Retry, again
    <3>3. broker' \in [Task -> Nat]
      BY <3>2
    <3> QED BY <2>5, <3>1, <3>3 DEF Retry
  <2>6. CASE GiveUp(w) \/ Acknowledge(w)
    BY <2>6 DEF GiveUp, Acknowledge
  <2>7. CASE MarkAttemptFailed(w)
    <3>1. schedule[MessageOf(w)] \in Schedule
      BY <2>7 DEF MarkAttemptFailed, MessageOf, Task
    <3> QED BY <2>7, <3>1 DEF MarkAttemptFailed, SetRow
  <2> QED BY <1>5, <2>1, <2>2, <2>3, <2>4, <2>5, <2>6, <2>7 DEF WorkOnTask
<1>6. ASSUME NEW w \in Worker, WorkerCrash(w)
      PROVE  SendTypeOK' /\ IdleHasNoTask'
  BY <1>6 DEF WorkerCrash, Idle, Goto, Location
<1>7. CASE NextDay
  BY <1>7 DEF NextDay, sendVars
<1>8. CASE UNCHANGED vars
  BY <1>8 DEF vars, sendVars
<1> QED BY <1>1, <1>2, <1>3, <1>4, <1>5, <1>6, <1>7, <1>8 DEF Next, TakeTask

LEMMA SendTypes == Spec => [](SendTypeOK /\ IdleHasNoTask)
BY SendInitTypeOK, SendNextTypeOK, PTL DEF Spec

-----------------------------------------------------------------------------
(* The pipeline implements the send log.                                   *)

LEMMA SendStepIsLogStep ==
  SendTypeOK /\ IdleHasNoTask /\ [Next]_vars => [LogNext]_logVars
<1> SUFFICES ASSUME SendTypeOK, IdleHasNoTask, [Next]_vars PROVE [LogNext]_logVars
  OBVIOUS
<1>1. ASSUME NEW m \in Message, User(m) \/ Enqueue(m) \/ WebCrash(m) \/ FallDue(m)
      PROVE  UNCHANGED logVars
  BY <1>1 DEF User, ComposeSend, SaveDraft, EditRead, EditWrite, SendDraftRead, SendDraft, CancelRead,
              CancelWrite, Delete, Enqueue, WebCrash, FallDue
<1>2. CASE DispatchDueScheduledSends
  BY <1>2 DEF DispatchDueScheduledSends
<1>3. ASSUME NEW w \in Worker, TakeTask(w)
      PROVE  UNCHANGED logVars
  BY <1>3 DEF TakeTask, ReserveAttempt, SkipTask
<1>4. ASSUME NEW w \in Worker, WorkOnTask(w)
      PROVE  [LogNext]_logVars
  <2> USE SendAssumption DEF LogNext, SendCall
  <2>1. CASE LimitRefuses(w) \/ TakeSlot(w)
    <3>1. DomainOf[MessageOf(w)] \in Domain
      BY <2>1, <1>4 DEF LimitRefuses, TakeSlot, SendTypeOK, IdleHasNoTask, MessageOf, Task
    <3> QED BY <2>1, <3>1 DEF LimitRefuses, TakeSlot
  <2>2. CASE \/ CheckRefuses(w) \/ StorageFails(w) \/ StartCall(w) \/ AnswerArrives(w)
             \/ CallFails(w) \/ StoreMessage(w) \/ RejectMessage(w) \/ RejectAttempt(w)
             \/ FailAttempt(w) \/ FailMessage(w) \/ Retry(w) \/ GiveUp(w)
             \/ Acknowledge(w) \/ MarkAttemptFailed(w)
             \/ \E v \in {"transient", "permanent"} : CallRejected(w, v)
    BY <2>2 DEF CheckRefuses, StorageFails, StartCall, AnswerArrives, CallFails,
                StoreMessage, RejectMessage, RejectAttempt, FailAttempt, FailMessage,
                Retry, GiveUp, Acknowledge, MarkAttemptFailed, CallRejected
  <2>3. CASE RowGone(w)
    BY <2>3 DEF RowGone, DropSlot
  <2>4. CASE \/ ProviderUnusable(w) \/ Accept(w) \/ StoreAttempt(w)
             \/ ReleaseAfterTransient(w) \/ ReleaseAfterPermanent(w)
    BY <2>4 DEF ProviderUnusable, Accept, StoreAttempt, ReleaseAfterTransient,
                ReleaseAfterPermanent
  <2> QED BY <1>4, <2>1, <2>2, <2>3, <2>4 DEF WorkOnTask
<1>5. ASSUME NEW w \in Worker, WorkerCrash(w)
      PROVE  [LogNext]_logVars
  BY <1>5 DEF WorkerCrash, DropSlot, LogNext, SendCall
<1>6. CASE NextDay
  BY <1>6 DEF NextDay, LogNext
<1>7. CASE UNCHANGED vars
  BY <1>7 DEF vars
<1> QED BY <1>1, <1>2, <1>3, <1>4, <1>5, <1>6, <1>7 DEF Next

(* Every step of the send pipeline is a step of the send log, or leaves it *)
(* alone: a worker reserves, confirms, releases or abandons slots in no    *)
(* other way than send_with_provider does.                                 *)
THEOREM SendImplementsLog == Spec => LogSpec
<1>1. Init => LogInit
  BY DEF Init
<1> QED BY <1>1, SendTypes, SendStepIsLogStep, PTL DEF Spec, LogSpec

(* The types of the whole pipeline, the log's own from LogTypeCorrect.     *)
THEOREM SendTypeCorrect == Spec => []TypeOK
BY SendTypes, SendImplementsLog, LogTypeCorrect, PTL DEF TypeOK

(* The daily limit as the whole pipeline keeps it, with all its retries,   *)
(* crashes, lost answers and deletions.                                    *)
THEOREM PipelineMailWithinLimit == Spec => []MailWithinLimit
BY SendImplementsLog, MailNeverPassesLimit, PTL

-----------------------------------------------------------------------------
(* A worker with a message in hand finds its rows as a reservation left    *)
(* them or as somebody else changed them since: never absent or pending,   *)
(* and without an attempt only when the message is deleted.                *)
LEMMA WorkedOnRows ==
  ASSUME SendTypeOK, NewRows, CancelledRows, NEW w \in Worker, task[w] # NoTask
  PROVE  LET m == MessageOf(w) IN
           /\ m \in Message
           /\ ~ Untouched(m)
           /\ status[m] # "absent" /\ attempt[m] # "pending"
           /\ attempt[m] = "none" <=> status[m] = "deleted"
<1>1. MessageOf(w) \in Message
  BY DEF SendTypeOK, MessageOf, Task
<1>2. ~ Untouched(MessageOf(w))
  BY DEF Untouched
<1> QED BY <1>1, <1>2 DEF NewRows

(* What a worker does with its message leaves the messages nobody has      *)
(* touched alone.                                                          *)
LEMMA WorkerKeepsCancelInv ==
  ASSUME SendTypeOK, NewRows, CancelledRows, NEW w \in Worker, task[w] # NoTask,
         cancelled' = cancelled,
         \A v \in Worker : task'[v] \in {task[v], NoTask},
         \A m \in Message \ {MessageOf(w)} :
           status'[m] = status[m] /\ attempt'[m] = attempt[m] /\ posted'[m] = posted[m],
         status'[MessageOf(w)] # "absent",
         attempt'[MessageOf(w)] # "pending",
         attempt'[MessageOf(w)] = "none" <=> status'[MessageOf(w)] = "deleted"
  PROVE  NewRows' /\ CancelledRows'
<1> DEFINE own == MessageOf(w)
<1>1. own \in Message /\ ~ Untouched(own)
  BY WorkedOnRows
<1>2. \A m \in Message \ {own} : Untouched(m) => Untouched(m)'
  BY DEF Untouched, MessageOf
<1>3. cancelled'[own] # "in_time"
  BY <1>1 DEF CancelledRows
<1>4. ASSUME NEW m \in Message
      PROVE  /\ status'[m] \in {"absent", "deleted"} => attempt'[m] = "none"
             /\ attempt'[m] = "pending" => Untouched(m)'
             /\ attempt'[m] = "none" /\ status'[m] # "deleted" => Untouched(m)'
  <2>1. CASE m = own
    BY <2>1
  <2>2. CASE m # own
    BY <1>2, <2>2 DEF NewRows
  <2> QED BY <2>1, <2>2
<1>5. ASSUME NEW m \in Message, cancelled'[m] = "in_time"
      PROVE  Untouched(m)' /\ (attempt'[m] = "cancelled" \/ status'[m] = "deleted")
  BY <1>2, <1>3, <1>5 DEF CancelledRows
<1> QED BY <1>4, <1>5 DEF NewRows, CancelledRows

(* A web request changes the rows of one message and touches no mail.      *)
LEMMA WebKeepsCancelInv ==
  ASSUME SendTypeOK, NewRows, CancelledRows,
         NEW m \in Message, User(m) \/ Enqueue(m) \/ WebCrash(m) \/ FallDue(m)
  PROVE  NewRows' /\ CancelledRows'
<1>1. UNCHANGED <<task, posted>>
  BY DEF User, ComposeSend, SaveDraft, EditRead, EditWrite, SendDraftRead, SendDraft, CancelRead,
         CancelWrite, Delete, Enqueue, WebCrash, FallDue, work
<1>2. \A x : Untouched(x) <=> Untouched(x)'
  BY <1>1 DEF Untouched, MessageOf
<1> USE DEF SendTypeOK, NewRows, CancelledRows
<1>3. CASE \/ \E at \in Schedule : EditWrite(m, at)
           \/ EditRead(m) \/ SendDraftRead(m) \/ CancelRead(m)
           \/ Enqueue(m) \/ WebCrash(m) \/ FallDue(m)
  <2>1. UNCHANGED <<status, attempt, cancelled>>
    BY <1>3 DEF EditWrite, EditRead, SendDraftRead, CancelRead, Enqueue, WebCrash, FallDue, rows, web
  <2> QED BY <1>2, <2>1
<1>4. ASSUME NEW at \in Schedule, ComposeSend(m, at) \/ SaveDraft(m, at)
      PROVE  NewRows' /\ CancelledRows'
  BY <1>2, <1>4 DEF ComposeSend, SaveDraft, SetRow, web
<1>5. ASSUME NEW at \in Schedule, SendDraft(m, at)
      PROVE  NewRows' /\ CancelledRows'
  BY <1>2, <1>5 DEF SendDraft, SetRow, rows
<1>6. CASE Delete(m)
  BY <1>2, <1>6 DEF Delete, SetRow, web
<1>7. CASE CancelWrite(m)
  BY <1>2, <1>7 DEF CancelWrite, SetRow, rows
<1> QED BY <1>3, <1>4, <1>5, <1>6, <1>7 DEF User

LEMMA NextCancelInv ==
  SendTypeOK /\ CancelInv /\ [Next]_vars => NewRows' /\ CancelledRows'
<1> SUFFICES ASSUME SendTypeOK, IdleHasNoTask, NewRows, CancelledRows, [Next]_vars
             PROVE  NewRows' /\ CancelledRows'
  BY DEF CancelInv
<1>1. ASSUME NEW m \in Message, User(m) \/ Enqueue(m) \/ WebCrash(m) \/ FallDue(m)
      PROVE  NewRows' /\ CancelledRows'
  BY <1>1, WebKeepsCancelInv
<1>2. ASSUME UNCHANGED <<status, attempt, cancelled, task, posted>>
      PROVE  NewRows' /\ CancelledRows'
  BY <1>2 DEF NewRows, CancelledRows, Untouched, MessageOf
<1>3. CASE DispatchDueScheduledSends \/ NextDay \/ UNCHANGED vars
  BY <1>2, <1>3 DEF DispatchDueScheduledSends, NextDay, vars, sendVars, rows, web, work
<1>4. ASSUME NEW w \in Worker, NEW t \in Task, ReserveAttempt(w, t)
      PROVE  NewRows' /\ CancelledRows'
  <2>1. t[1] \in Message
    BY DEF Task
  <2>2. \A m \in Message \ {t[1]} : Untouched(m) => Untouched(m)'
    BY <1>4 DEF ReserveAttempt, Untouched, MessageOf, SendTypeOK
  <2> QED BY <1>4, <2>1, <2>2
          DEF ReserveAttempt, NewRows, CancelledRows, SendTypeOK, web
<1>5. ASSUME NEW w \in Worker, NEW t \in Task, SkipTask(w, t)
      PROVE  NewRows' /\ CancelledRows'
  BY <1>2, <1>5 DEF SkipTask, rows, web, work
<1>6. ASSUME NEW w \in Worker, WorkOnTask(w) \/ WorkerCrash(w)
      PROVE  NewRows' /\ CancelledRows'
  <2> DEFINE own == MessageOf(w)
  <2>1. pc[w] # "idle"
    BY <1>6
    DEF WorkOnTask, WorkerCrash, CheckRefuses, LimitRefuses, TakeSlot, StorageFails,
        ProviderUnusable, StartCall, Accept, AnswerArrives, CallFails, CallRejected,
        StoreMessage, StoreAttempt, RejectMessage, RejectAttempt, FailAttempt,
        FailMessage, RowGone, ReleaseAfterTransient, ReleaseAfterPermanent, Retry,
        GiveUp, Acknowledge, MarkAttemptFailed
  <2>2. task[w] # NoTask
    BY <2>1 DEF IdleHasNoTask
  <2>3. /\ own \in Message
        /\ status[own] # "absent" /\ attempt[own] # "pending"
        /\ attempt[own] = "none" <=> status[own] = "deleted"
    BY <2>2, WorkedOnRows
  <2>4. cancelled' = cancelled
    BY <1>6
    DEF WorkOnTask, WorkerCrash, CheckRefuses, LimitRefuses, TakeSlot, StorageFails,
        ProviderUnusable, StartCall, Accept, AnswerArrives, CallFails, CallRejected,
        StoreMessage, StoreAttempt, RejectMessage, RejectAttempt, FailAttempt,
        FailMessage, RowGone, ReleaseAfterTransient, ReleaseAfterPermanent, Retry,
        GiveUp, Acknowledge, MarkAttemptFailed, web
  <2>5. \A v \in Worker : task'[v] \in {task[v], NoTask}
    BY <1>6
    DEF WorkOnTask, WorkerCrash, CheckRefuses, LimitRefuses, TakeSlot, StorageFails,
        ProviderUnusable, StartCall, Accept, AnswerArrives, CallFails, CallRejected,
        StoreMessage, StoreAttempt, RejectMessage, RejectAttempt, FailAttempt,
        FailMessage, RowGone, ReleaseAfterTransient, ReleaseAfterPermanent, Retry,
        GiveUp, Acknowledge, MarkAttemptFailed, Idle, Fail, work, SendTypeOK
  <2> HIDE DEF own
  <2>6. ASSUME UNCHANGED <<rows, posted>>  PROVE NewRows' /\ CancelledRows'
    BY <2>2, <2>3, <2>4, <2>5, <2>6, WorkerKeepsCancelInv DEF rows, own
  <2>7. CASE \/ CheckRefuses(w) \/ LimitRefuses(w) \/ TakeSlot(w) \/ StorageFails(w)
             \/ ProviderUnusable(w) \/ AnswerArrives(w) \/ CallFails(w) \/ RowGone(w)
             \/ ReleaseAfterTransient(w) \/ ReleaseAfterPermanent(w)
             \/ Retry(w) \/ GiveUp(w) \/ Acknowledge(w) \/ WorkerCrash(w)
             \/ \E v \in {"transient", "permanent"} : CallRejected(w, v)
    BY <2>6, <2>7
    DEF CheckRefuses, LimitRefuses, TakeSlot, StorageFails, ProviderUnusable,
        AnswerArrives, CallFails, CallRejected, RowGone, ReleaseAfterTransient,
        ReleaseAfterPermanent, Retry, GiveUp, Acknowledge, WorkerCrash
  <2>8. ASSUME \A m \in Message \ {own} :
                 /\ status'[m] = status[m] /\ attempt'[m] = attempt[m]
                 /\ posted'[m] = posted[m],
               status'[own] # "absent", attempt'[own] # "pending",
               attempt'[own] = "none" <=> status'[own] = "deleted"
        PROVE  NewRows' /\ CancelledRows'
    BY <2>2, <2>4, <2>5, <2>8, WorkerKeepsCancelInv DEF own
  <2>9. CASE Accept(w)
    BY <2>3, <2>8, <2>9 DEF Accept, rows, own, SendTypeOK
  <2>10. CASE StoreMessage(w) \/ RejectMessage(w) \/ FailMessage(w)
    BY <2>3, <2>8, <2>10
    DEF StoreMessage, RejectMessage, FailMessage, SaveStatus, own, SendTypeOK
  <2>11. CASE StartCall(w) \/ StoreAttempt(w) \/ RejectAttempt(w) \/ FailAttempt(w)
    BY <2>3, <2>8, <2>11
    DEF StartCall, StoreAttempt, RejectAttempt, FailAttempt, SaveAttempt, own, SendTypeOK
  <2>12. CASE MarkAttemptFailed(w)
    BY <2>3, <2>6, <2>8, <2>12 DEF MarkAttemptFailed, SetRow, own, SendTypeOK
  <2> QED BY <1>6, <2>7, <2>9, <2>10, <2>11, <2>12 DEF WorkOnTask
<1> QED BY <1>1, <1>3, <1>4, <1>5, <1>6 DEF Next, TakeTask

LEMMA CancelInvariant == Spec => []CancelInv
<1>1. Init => CancelInv
  <2>1. Init => IdleHasNoTask
    BY SendInitTypeOK
  <2>2. Init => NewRows /\ CancelledRows
    BY DEF Init, NewRows, CancelledRows, Untouched
  <2> QED BY <2>1, <2>2 DEF CancelInv
<1>2. SendTypeOK /\ CancelInv /\ [Next]_vars => CancelInv'
  BY SendNextTypeOK, NextCancelInv DEF CancelInv
<1> QED BY <1>1, <1>2, SendTypes, PTL DEF Spec

(* A cancel that found its attempt pending is final, for any number of     *)
(* workers, task copies, retries and crashes: the message has never been   *)
(* in a worker's hands, and no step puts it there again.                   *)
THEOREM CancelInTimeIsFinal == Spec => []CancelInTimeHolds
<1>1. CancelInv => CancelInTimeHolds
  BY DEF CancelInv, CancelledRows, CancelInTimeHolds, Untouched
<1> QED BY <1>1, CancelInvariant, PTL

-----------------------------------------------------------------------------
(* A worker's slot and mail, and what its message's rows say of them.      *)

LEMMA InitSentInv == Init => SentInv
BY DEF Init, LogInit, SentInv, SlotsWhereHeld, PostedBehind, SentMeansPosted

(* Steps that move no worker, post nothing and report nothing as sent.     *)
LEMMA AsideKeepsSentInv ==
  ASSUME SentInv, UNCHANGED <<slot, delivered, pc, task, posted>>,
         \A m \in Message : /\ status'[m] = "sent" => status[m] = "sent"
                            /\ attempt'[m] = "sent" => attempt[m] = "sent"
  PROVE  SentInv'
BY DEF SentInv, SlotsWhereHeld, PostedBehind, SentMeansPosted, MessageOf

LEMMA WebKeepsSentInv ==
  ASSUME SendTypeOK, SentInv, NEW m \in Message,
         User(m) \/ Enqueue(m) \/ WebCrash(m) \/ FallDue(m)
  PROVE  SentInv'
<1>1. UNCHANGED <<slot, delivered, pc, task, posted>>
  BY DEF User, ComposeSend, SaveDraft, EditRead, EditWrite, SendDraftRead, SendDraft, CancelRead,
         CancelWrite, Delete, Enqueue, WebCrash, FallDue, work, logVars
<1>2. \A x \in Message : /\ status'[x] = "sent" => status[x] = "sent"
                         /\ attempt'[x] = "sent" => attempt[x] = "sent"
  BY DEF User, ComposeSend, SaveDraft, EditRead, EditWrite, SendDraftRead, SendDraft, CancelRead,
         CancelWrite, Delete, Enqueue, WebCrash, FallDue, SetRow, rows, SendTypeOK
<1> QED BY <1>1, <1>2, AsideKeepsSentInv

(* Steps of one worker that post nothing: where the worker goes, its slot  *)
(* and its mail fit together again, and a row it reports as sent is of a   *)
(* message the provider has.                                               *)
LEMMA WorkerKeepsSentInv ==
  ASSUME SentInv, NEW w \in Worker,
         \A v \in Worker \ {w} : /\ slot'[v] = slot[v] /\ delivered'[v] = delivered[v]
                                 /\ pc'[v] = pc[v] /\ task'[v] = task[v],
         delivered'[w] => slot'[w] # NoRow,
         slot'[w] # NoRow => pc'[w] \in SlotLocation,
         delivered'[w] \/ pc'[w] \in {"store_message", "store_attempt"} =>
           task'[w] = task[w] /\ posted[MessageOf(w)] > 0,
         posted' = posted,
         \A m \in Message : status'[m] = "sent" \/ attempt'[m] = "sent" => posted[m] > 0
  PROVE  SentInv'
<1>1. SlotsWhereHeld'
  BY DEF SentInv, SlotsWhereHeld
<1>2. PostedBehind'
  BY DEF SentInv, PostedBehind, MessageOf
<1>3. SentMeansPosted'
  BY DEF SentMeansPosted
<1> QED BY <1>1, <1>2, <1>3 DEF SentInv

LEMMA NextSentInv ==
  TypeOK /\ IdleHasNoTask /\ SentInv /\ [Next]_vars => SentInv'
<1> SUFFICES ASSUME TypeOK, IdleHasNoTask, SentInv, [Next]_vars
             PROVE  SentInv'
  OBVIOUS
<1> USE DEF TypeOK
<1>1. ASSUME NEW m \in Message, User(m) \/ Enqueue(m) \/ WebCrash(m) \/ FallDue(m)
      PROVE  SentInv'
  BY <1>1, WebKeepsSentInv
<1>2. CASE DispatchDueScheduledSends \/ NextDay \/ UNCHANGED vars
  BY <1>2, AsideKeepsSentInv
  DEF DispatchDueScheduledSends, NextDay, Midnight, vars, sendVars, logVars, rows, work
<1>3. \A m \in Message : status[m] = "sent" \/ attempt[m] = "sent" => posted[m] > 0
  BY DEF SentInv, SentMeansPosted
<1>4. ASSUME NEW w \in Worker, TakeTask(w)
      PROVE  SentInv'
  <2>1. PICK t \in Task : ReserveAttempt(w, t) \/ SkipTask(w, t)
    BY <1>4 DEF TakeTask
  <2>2. CASE SkipTask(w, t)
    BY <2>2, AsideKeepsSentInv DEF SkipTask, logVars, rows, work
  <2>3. CASE ReserveAttempt(w, t)
    <3>1. pc[w] = "idle" /\ slot[w] = NoRow /\ ~ delivered[w]
      BY <2>3 DEF ReserveAttempt, SentInv, SlotsWhereHeld, SlotLocation
    <3>2. \A m \in Message : status'[m] = "sent" \/ attempt'[m] = "sent" => posted[m] > 0
      BY <1>3, <2>3 DEF ReserveAttempt, SendTypeOK
    <3> QED BY <2>3, <3>1, <3>2, WorkerKeepsSentInv
            DEF ReserveAttempt, Goto, SendTypeOK, logVars
  <2> QED BY <2>1, <2>2, <2>3
<1>5. ASSUME NEW w \in Worker, WorkOnTask(w)
      PROVE  SentInv'
  <2> DEFINE own == MessageOf(w)
  <2>1. /\ delivered[w] => slot[w] # NoRow
        /\ slot[w] # NoRow => pc[w] \in SlotLocation
        /\ delivered[w] \/ pc[w] \in {"store_message", "store_attempt"} => posted[own] > 0
    BY DEF SentInv, SlotsWhereHeld, PostedBehind
  <2> USE DEF SendTypeOK, LogTypeOK
  \* Steps that leave the log, the rows and the mails alone: only pc moves.
  <2>2. CASE \/ CheckRefuses(w) \/ StorageFails(w) \/ AnswerArrives(w) \/ CallFails(w)
             \/ \E v \in {"transient", "permanent"} : CallRejected(w, v)
    BY <1>3, <2>1, <2>2, WorkerKeepsSentInv
    DEF CheckRefuses, StorageFails, AnswerArrives, CallFails, CallRejected, Fail, Goto,
        SlotLocation, logVars, rows
  <2>3. CASE Retry(w) \/ GiveUp(w) \/ Acknowledge(w)
    BY <1>3, <2>1, <2>3, WorkerKeepsSentInv
    DEF Retry, GiveUp, Acknowledge, Idle, Goto, SlotLocation, logVars, rows
  \* Steps of the log.
  <2>4. CASE LimitRefuses(w) \/ TakeSlot(w)
    <3>1. slot[w] = NoRow /\ ~ delivered[w]
      BY <2>1, <2>4 DEF LimitRefuses, TakeSlot, SlotLocation
    <3> QED BY <1>3, <2>4, <3>1, WorkerKeepsSentInv
            DEF LimitRefuses, TakeSlot, RefuseSendSlot, ReserveSendSlot, Fail, Goto,
                SlotLocation, rows, ghosts
  <2>5. CASE ProviderUnusable(w) \/ RowGone(w)
    BY <1>3, <2>1, <2>5, WorkerKeepsSentInv
    DEF ProviderUnusable, RowGone, DropSlot, AbandonSlot, LetGo, Fail, Goto, rows, logVars
  <2>6. CASE ReleaseAfterTransient(w) \/ ReleaseAfterPermanent(w)
    BY <1>3, <2>1, <2>6, WorkerKeepsSentInv
    DEF ReleaseAfterTransient, ReleaseAfterPermanent, TransientFailure, PermanentFailure,
        ReleaseSendSlot, LetGo, Goto, rows
  <2>7. CASE Accept(w)
    <3>1. own \in Message
      BY <2>7 DEF Accept, MessageOf, IdleHasNoTask, Task
    <3>2. \A m \in Message : posted'[m] = IF m = own THEN posted[m] + 1 ELSE posted[m]
      BY <2>7, <3>1 DEF Accept
    <3>3. SlotsWhereHeld'
      BY <2>7 DEF Accept, ProviderAccepts, SentInv, SlotsWhereHeld, work, SlotLocation
    <3>4. SentMeansPosted'
      BY <2>7, <3>2 DEF Accept, SentInv, SentMeansPosted, rows
    <3>5. ASSUME NEW v \in Worker,
                 delivered'[v] \/ pc'[v] \in {"store_message", "store_attempt"}
          PROVE  posted'[MessageOf(v)'] > 0
      <4>1. pc' = pc /\ task' = task /\ MessageOf(v)' = MessageOf(v)
        BY <2>7 DEF Accept, work, MessageOf
      <4>2. MessageOf(v) \in Message
        <5>1. CASE task[v] # NoTask
          BY <5>1 DEF MessageOf, Task
        <5>2. CASE task[v] = NoTask
          BY <2>7, <3>5, <4>1, <5>2
          DEF IdleHasNoTask, Accept, ProviderAccepts, SentInv, SlotsWhereHeld, SlotLocation
        <5> QED BY <5>1, <5>2
      <4>3. v # w => posted[MessageOf(v)] > 0
        BY <2>7, <3>5, <4>1 DEF Accept, ProviderAccepts, SentInv, PostedBehind
      <4> QED BY <3>2, <4>1, <4>2, <4>3
    <3> QED BY <3>3, <3>4, <3>5 DEF SentInv, PostedBehind
  \* Steps that save a row.
  <2>8. CASE StartCall(w) \/ RejectAttempt(w) \/ FailAttempt(w)
    <3>1. \A m \in Message : attempt'[m] = "sent" => attempt[m] = "sent"
      BY <2>8 DEF StartCall, RejectAttempt, FailAttempt, SaveAttempt
    <3> QED BY <1>3, <2>1, <2>8, <3>1, WorkerKeepsSentInv
            DEF StartCall, RejectAttempt, FailAttempt, SaveAttempt, Goto, SlotLocation, logVars
  <2>9. CASE RejectMessage(w) \/ FailMessage(w)
    <3>1. \A m \in Message : status'[m] = "sent" => status[m] = "sent"
      BY <2>9 DEF RejectMessage, FailMessage, SaveStatus
    <3> QED BY <1>3, <2>1, <2>9, <3>1, WorkerKeepsSentInv
            DEF RejectMessage, FailMessage, SaveStatus, Goto, SlotLocation, logVars
  <2>10. CASE StoreMessage(w)
    <3>1. \A m \in Message : status'[m] = "sent" => status[m] = "sent" \/ m = own
      BY <2>10 DEF StoreMessage, SaveStatus
    <3> QED BY <1>3, <2>1, <2>10, <3>1, WorkerKeepsSentInv
            DEF StoreMessage, SaveStatus, Goto, SlotLocation, logVars
  <2>11. CASE StoreAttempt(w)
    <3>1. \A m \in Message : attempt'[m] = "sent" => attempt[m] = "sent" \/ m = own
      BY <2>11 DEF StoreAttempt, SaveAttempt
    <3> QED BY <1>3, <2>1, <2>11, <3>1, WorkerKeepsSentInv
            DEF StoreAttempt, SaveAttempt, ConfirmSend, LetGo, Idle, Goto
  <2>12. CASE MarkAttemptFailed(w)
    <3>1. \A m \in Message : /\ status'[m] = "sent" => status[m] = "sent"
                             /\ attempt'[m] = "sent" => attempt[m] = "sent"
      BY <2>12 DEF MarkAttemptFailed, SetRow, rows
    <3>2. slot[w] = NoRow /\ ~ delivered[w]
      BY <2>1, <2>12 DEF MarkAttemptFailed, SlotLocation
    <3> QED BY <1>3, <2>12, <3>1, <3>2, WorkerKeepsSentInv
            DEF MarkAttemptFailed, Idle, Goto, logVars
  <2> QED BY <1>5, <2>2, <2>3, <2>4, <2>5, <2>6, <2>7, <2>8, <2>9, <2>10, <2>11, <2>12
          DEF WorkOnTask
<1>6. ASSUME NEW w \in Worker, WorkerCrash(w)
      PROVE  SentInv'
  <2>1. delivered[w] => slot[w] # NoRow
    BY DEF SentInv, SlotsWhereHeld
  <2> QED BY <1>3, <1>6, <2>1, WorkerKeepsSentInv
          DEF WorkerCrash, DropSlot, AbandonSlot, LetGo, Idle, Goto, SendTypeOK, LogTypeOK,
              logVars, rows
<1> QED BY <1>1, <1>2, <1>4, <1>5, <1>6 DEF Next

(* No row says "sent" of a mail the provider has not accepted, for any     *)
(* number of workers, retries, crashes, cancels and deletions.             *)
THEOREM SentOnlyIfPosted == Spec => []SentMeansPosted
<1>1. SentInv => SentMeansPosted
  BY DEF SentInv
<1> QED BY <1>1, InitSentInv, NextSentInv, SendTypes, SendTypeCorrect, PTL DEF Spec

-----------------------------------------------------------------------------
(* Who looks after an attempt.                                             *)

(* Between the reservation and the save that ends it: reject_attempt,      *)
(* fail_attempt and store_attempt are the saves still to come.             *)
BusyLocation ==
  {"reserved", "holding", "calling", "store_message", "store_attempt",
   "reject_message", "reject_attempt", "fail_attempt"}

Busy(w, m) == WorksOn(w, m) /\ pc[w] \in BusyLocation

(* The last handler of the task settles what no other handler did.         *)
Settles(w, m) == WorksOn(w, m) /\ pc[w] \in BusyLocation \cup {"closing"}

PendingAwaited ==
  \A m \in Message :
    attempt[m] = "pending" => \/ m \in publishing
                              \/ schedule[m] # "unset"
                              \/ broker[<<m, 0>>] > 0

SendingSettled ==
  crashes = 0 =>
    \A m \in Message : attempt[m] = "sending" => \E w \in Worker : Settles(w, m)

(* Nobody edits a draft: a send-draft request knows its schedule.          *)
PromotionFresh ==
  \A m \in Message :
    /\ status[m] = "absent" => promoting[m] = "none"
    /\ promoting[m] # "edited"
    /\ status[m] = "draft" /\ attempt[m] = "none" /\ promoting[m] # "none" =>
         promoting[m] = schedule[m]

StrandInv == editing = {} /\ PromotionFresh /\ PendingAwaited /\ SendingSettled

LEMMA PromotionKept ==
  ASSUME PromotionFresh, UNCHANGED <<promoting, schedule>>,
         \A m \in Message : /\ status'[m] \in {"absent", "draft"} => status'[m] = status[m]
                            /\ attempt'[m] = "none" => attempt[m] = "none" \/ status'[m] # "draft"
  PROVE  PromotionFresh'
BY DEF PromotionFresh

(* Only the worker at work moves, and it has a task in hand.               *)
LEMMA WorkerHasTask ==
  ASSUME NEW w \in Worker, WorkOnTask(w) \/ WorkerCrash(w)
  PROVE  pc[w] # "idle"
BY DEF WorkOnTask, WorkerCrash, CheckRefuses, LimitRefuses, TakeSlot, StorageFails,
       ProviderUnusable, StartCall, Accept, AnswerArrives, CallFails, CallRejected,
       StoreMessage, StoreAttempt, RejectMessage, RejectAttempt, FailAttempt,
       FailMessage, RowGone, ReleaseAfterTransient, ReleaseAfterPermanent, Retry,
       GiveUp, Acknowledge, MarkAttemptFailed

LEMMA OneWorkerMoves ==
  ASSUME SendTypeOK, NEW w \in Worker, WorkOnTask(w) \/ WorkerCrash(w)
  PROVE  /\ \A v \in Worker \ {w} : pc'[v] = pc[v] /\ task'[v] = task[v]
         /\ task'[w] = task[w] \/ (task'[w] = NoTask /\ pc'[w] = "idle")
BY DEF WorkOnTask, WorkerCrash, CheckRefuses, LimitRefuses, TakeSlot, StorageFails,
       ProviderUnusable, StartCall, Accept, AnswerArrives, CallFails, CallRejected,
       StoreMessage, StoreAttempt, RejectMessage, RejectAttempt, FailAttempt,
       FailMessage, RowGone, ReleaseAfterTransient, ReleaseAfterPermanent, Retry,
       GiveUp, Acknowledge, MarkAttemptFailed, Idle, Fail, Goto, work, SendTypeOK

LEMMA AsideKeepsSettled ==
  ASSUME SendingSettled, UNCHANGED <<pc, task, crashes>>,
         \A m \in Message : attempt'[m] = "sending" => attempt[m] = "sending"
  PROVE  SendingSettled'
BY DEF SendingSettled, Settles, WorksOn, MessageOf

(* A worker that stops looking after a message leaves no attempt of it in  *)
(* flight.                                                                 *)
LEMMA WorkerKeepsSettled ==
  ASSUME SendingSettled, NEW w \in Worker, crashes' = crashes,
         \A v \in Worker \ {w} : pc'[v] = pc[v] /\ task'[v] = task[v],
         \A m \in Message : attempt'[m] = "sending" =>
           Settles(w, m)' \/ (attempt[m] = "sending" /\ ~ Settles(w, m))
  PROVE  SendingSettled'
<1> SUFFICES ASSUME crashes = 0, NEW m \in Message, attempt'[m] = "sending",
                    ~ Settles(w, m)'
             PROVE  \E v \in Worker : Settles(v, m)'
  BY DEF SendingSettled
<1>1. PICK v \in Worker : Settles(v, m)
  BY DEF SendingSettled
<1>2. v # w
  BY <1>1
<1>3. Settles(v, m)'
  BY <1>1, <1>2 DEF Settles, WorksOn, MessageOf
<1> QED BY <1>3

(* The broker keeps the first copy of a task until a worker reserves it.   *)
LEMMA WorkerKeepsAwaited ==
  ASSUME PendingAwaited, UNCHANGED <<publishing, schedule>>,
         \A m \in Message : attempt'[m] = "pending" =>
           attempt[m] = "pending" /\ broker'[<<m, 0>>] >= broker[<<m, 0>>],
         broker \in [Task -> Nat], broker' \in [Task -> Nat]
  PROVE  PendingAwaited'
<1> SUFFICES ASSUME NEW m \in Message, attempt'[m] = "pending",
                    m \notin publishing, schedule[m] = "unset"
             PROVE  broker'[<<m, 0>>] > 0
  BY DEF PendingAwaited
<1>1. <<m, 0>> \in Task
  BY SendAssumption DEF Task
<1>2. broker[<<m, 0>>] > 0 /\ broker'[<<m, 0>>] >= broker[<<m, 0>>]
  BY DEF PendingAwaited
<1>3. broker[<<m, 0>>] \in Nat /\ broker'[<<m, 0>>] \in Nat
  BY <1>1
<1> QED BY <1>2, <1>3

LEMMA WebKeepsStrandInv ==
  ASSUME SendTypeOK, StrandInv, "edit" \notin Events, "web_crash" \notin Events,
         NEW m \in Message, User(m) \/ Enqueue(m) \/ WebCrash(m) \/ FallDue(m)
  PROVE  StrandInv'
<1> USE DEF SendTypeOK
<1>1. UNCHANGED <<pc, task, crashes>>
  BY DEF User, ComposeSend, SaveDraft, EditRead, EditWrite, SendDraftRead, SendDraft, CancelRead,
         CancelWrite, Delete, Enqueue, WebCrash, FallDue, work
<1>2. \A x \in Message : attempt'[x] = "sending" => attempt[x] = "sending"
  BY DEF User, ComposeSend, SaveDraft, EditRead, EditWrite, SendDraftRead, SendDraft, CancelRead,
         CancelWrite, Delete, Enqueue, WebCrash, FallDue, SetRow, rows
<1>3. SendingSettled'
  BY <1>1, <1>2, AsideKeepsSettled DEF StrandInv
<1>4. editing' = {}
  BY DEF StrandInv, User, ComposeSend, SaveDraft, EditRead, EditWrite, SendDraftRead, SendDraft,
         CancelRead, CancelWrite, Delete, Enqueue, WebCrash, FallDue, web
<1>5. \A t \in Task : t = <<m, 0>> \/ broker'[t] = broker[t]
  BY DEF User, ComposeSend, SaveDraft, EditRead, EditWrite, SendDraftRead, SendDraft, CancelRead,
         CancelWrite, Delete, Enqueue, WebCrash, FallDue
<1>6. \A x \in Message : <<x, 0>> \in Task
  BY SendAssumption DEF Task
<1>7. ASSUME NEW x \in Message \ {m}, attempt'[x] = "pending"
      PROVE  x \in publishing' \/ schedule'[x] # "unset" \/ broker'[<<x, 0>>] > 0
  <2>1. attempt'[x] = attempt[x] /\ schedule'[x] = schedule[x]
    BY DEF User, ComposeSend, SaveDraft, EditRead, EditWrite, SendDraftRead, SendDraft, CancelRead,
           CancelWrite, Delete, Enqueue, WebCrash, FallDue, SetRow, rows
  <2>2. x \in publishing => x \in publishing'
    BY DEF User, ComposeSend, SaveDraft, EditRead, EditWrite, SendDraftRead, SendDraft, CancelRead,
           CancelWrite, Delete, Enqueue, WebCrash, FallDue, PublishUnlessFuture, web
  <2> QED BY <1>5, <1>6, <1>7, <2>1, <2>2 DEF StrandInv, PendingAwaited
<1>8. ASSUME attempt'[m] = "pending"
      PROVE  m \in publishing' \/ schedule'[m] # "unset" \/ broker'[<<m, 0>>] > 0
  <2> USE <1>6, <1>8
  <2>1. ASSUME NEW at \in Schedule, ComposeSend(m, at)
        PROVE  m \in publishing' \/ schedule'[m] # "unset"
    BY <2>1 DEF ComposeSend, SetRow, PublishUnlessFuture
  <2>2. ASSUME NEW at \in Schedule, SendDraft(m, at)
        PROVE  m \in publishing' \/ schedule'[m] # "unset" \/ broker'[<<m, 0>>] > 0
    <3>1. CASE status[m] = "draft" /\ attempt[m] = "none"
      <4>1. at = schedule[m]
        BY <2>2, <3>1 DEF SendDraft, StrandInv, PromotionFresh
      <4> QED BY <2>2, <3>1, <4>1 DEF SendDraft, SetRow, PublishUnlessFuture
    <3>2. CASE ~ (status[m] = "draft" /\ attempt[m] = "none")
      BY <2>2, <3>2 DEF SendDraft, rows, StrandInv, PendingAwaited
    <3> QED BY <3>1, <3>2
  <2>3. CASE CancelRead(m) \/ SendDraftRead(m)
    BY <2>3 DEF CancelRead, SendDraftRead, rows, StrandInv, PendingAwaited
  <2>4. CASE CancelWrite(m)
    BY <2>4 DEF CancelWrite, SetRow, rows, StrandInv, PendingAwaited
  <2>5. CASE Enqueue(m)
    BY <2>5 DEF Enqueue
  <2>6. CASE FallDue(m)
    BY <2>6 DEF FallDue
  <2>7. ASSUME NEW at \in Schedule, SaveDraft(m, at)  PROVE FALSE
    BY <2>7 DEF SaveDraft, SetRow
  <2>8. ASSUME NEW at \in Schedule, EditWrite(m, at)  PROVE FALSE
    BY <2>8 DEF EditWrite, StrandInv
  <2>9. ~ EditRead(m) /\ ~ WebCrash(m) /\ ~ Delete(m)
    BY DEF EditRead, WebCrash, Delete, SetRow
  <2> QED BY <2>1, <2>2, <2>3, <2>4, <2>5, <2>6, <2>7, <2>8, <2>9 DEF User
<1>9. PendingAwaited'
  BY <1>7, <1>8 DEF PendingAwaited
<1>10. PromotionFresh'
  <2> USE DEF StrandInv, PromotionFresh
  <2>1. CASE \E at \in Schedule : ComposeSend(m, at) \/ SaveDraft(m, at) \/ SendDraft(m, at)
    BY <2>1 DEF ComposeSend, SaveDraft, SendDraft, SetRow, rows, web
  <2>2. CASE SendDraftRead(m)
    <3>1. UNCHANGED <<status, attempt, schedule>>
      BY <2>2 DEF SendDraftRead, rows
    <3>2. \A x \in Message : promoting'[x] = IF x = m THEN schedule[m] ELSE promoting[x]
      BY <2>2 DEF SendDraftRead
    <3>3. status[m] = "draft" /\ schedule[m] # "edited"
      BY <2>2 DEF SendDraftRead, Schedule
    <3> QED BY <3>1, <3>2, <3>3
  <2>3. CASE FallDue(m)
    <3>1. UNCHANGED <<status, attempt>>
      BY <2>3 DEF FallDue
    <3>2. \A x \in Message \ {m} : promoting'[x] = promoting[x] /\ schedule'[x] = schedule[x]
      BY <2>3 DEF FallDue
    <3>3. /\ schedule[m] = "future" /\ schedule'[m] = "past"
          /\ promoting'[m] = IF promoting[m] = "future" THEN "past" ELSE promoting[m]
      BY <2>3 DEF FallDue
    <3> QED BY <3>1, <3>2, <3>3
  <2>4. CASE CancelRead(m) \/ CancelWrite(m) \/ Delete(m) \/ Enqueue(m)
    BY <2>4 DEF CancelRead, CancelWrite, Delete, Enqueue, SetRow, rows, web
  <2>5. ~ EditRead(m) /\ ~ WebCrash(m) /\ \A at \in Schedule : ~ EditWrite(m, at)
    BY DEF EditRead, EditWrite, WebCrash
  <2> QED BY <2>1, <2>2, <2>3, <2>4, <2>5 DEF User
<1> QED BY <1>3, <1>4, <1>9, <1>10 DEF StrandInv

LEMMA NextStrandInv ==
  ASSUME TypeOK, IdleHasNoTask, CancelInv, StrandInv, [Next]_vars,
         "edit" \notin Events, "web_crash" \notin Events, "storage_fails" \notin Events
  PROVE  StrandInv'
<1>1. SendTypeOK /\ SendTypeOK'
  BY SendNextTypeOK DEF TypeOK
<1>2. broker \in [Task -> Nat] /\ broker' \in [Task -> Nat]
  BY <1>1 DEF SendTypeOK
<1>3. \A x \in Message : <<x, 0>> \in Task
  BY SendAssumption DEF Task
<1>4. editing = {} /\ PromotionFresh /\ PendingAwaited /\ SendingSettled
  BY DEF StrandInv
<1>5. ASSUME NEW m \in Message, User(m) \/ Enqueue(m) \/ WebCrash(m) \/ FallDue(m)
      PROVE  StrandInv'
  BY <1>1, <1>5, WebKeepsStrandInv
<1>6. CASE DispatchDueScheduledSends
  <2>1. UNCHANGED <<pc, task, crashes, status, attempt, publishing, schedule, editing, promoting>>
    BY <1>6 DEF DispatchDueScheduledSends, rows, web, work
  <2>2. \A x \in Message : broker'[<<x, 0>>] >= broker[<<x, 0>>]
    <3> SUFFICES ASSUME NEW t \in Task  PROVE broker'[t] >= broker[t]
      BY <1>3
    <3>1. broker[t] \in Nat /\ broker'[t] \in {broker[t], broker[t] + 1}
      BY <1>2, <1>6 DEF DispatchDueScheduledSends
    <3> QED BY <3>1
  <2>3. PendingAwaited'
    BY <1>2, <1>4, <2>1, <2>2, WorkerKeepsAwaited
  <2>4. SendingSettled'
    BY <1>4, <2>1, AsideKeepsSettled
  <2> QED BY <1>4, <2>1, <2>3, <2>4, PromotionKept DEF StrandInv
<1>7. CASE NextDay \/ UNCHANGED vars
  <2>1. UNCHANGED <<pc, task, crashes, status, attempt, publishing, schedule, editing,
                    promoting, broker>>
    BY <1>7 DEF NextDay, vars, sendVars, rows, web, work
  <2>2. PendingAwaited'
    BY <1>4, <2>1 DEF PendingAwaited
  <2> QED BY <1>4, <2>1, <2>2, AsideKeepsSettled, PromotionKept DEF StrandInv
<1>8. ASSUME NEW w \in Worker, NEW t \in Task, ReserveAttempt(w, t)
      PROVE  StrandInv'
  <2>1. t[1] \in Message
    BY DEF Task
  <2>2. UNCHANGED <<status, publishing, schedule, editing, promoting, crashes>>
    BY <1>8 DEF ReserveAttempt, web
  <2>3. \A x \in Message : attempt'[x] = IF x = t[1] THEN "sending" ELSE attempt[x]
    BY <1>1, <1>8, <2>1 DEF ReserveAttempt, SendTypeOK
  <2>4. \A x \in Message : x # t[1] => broker'[<<x, 0>>] = broker[<<x, 0>>]
    BY <1>2, <1>3, <1>8 DEF ReserveAttempt, Deliver
  <2>5. PendingAwaited'
    BY <1>4, <2>2, <2>3, <2>4 DEF PendingAwaited
  <2>6. \A v \in Worker \ {w} : pc'[v] = pc[v] /\ task'[v] = task[v]
    BY <1>1, <1>8 DEF ReserveAttempt, Goto, SendTypeOK
  <2>7. Settles(w, t[1])' /\ \A x \in Message : ~ Settles(w, x)
    BY <1>1, <1>8, SendAssumption
    DEF ReserveAttempt, Goto, SendTypeOK, Settles, WorksOn, MessageOf, BusyLocation
  <2>8. SendingSettled'
    BY <1>4, <2>2, <2>3, <2>6, <2>7, WorkerKeepsSettled
  <2>9. PromotionFresh'
    BY <1>4, <2>2, <2>3, PromotionKept
  <2> QED BY <1>4, <2>2, <2>5, <2>8, <2>9 DEF StrandInv
<1>9. ASSUME NEW w \in Worker, NEW t \in Task, SkipTask(w, t)
      PROVE  StrandInv'
  <2>1. UNCHANGED <<pc, task, crashes, status, attempt, publishing, schedule, editing, promoting>>
    BY <1>9 DEF SkipTask, rows, web, work
  <2>2. \A x \in Message : attempt[x] = "pending" => broker'[<<x, 0>>] = broker[<<x, 0>>]
    BY <1>2, <1>3, <1>9 DEF SkipTask, Deliver
  <2>3. PendingAwaited'
    BY <1>4, <2>1, <2>2 DEF PendingAwaited
  <2> QED BY <1>4, <2>1, <2>3, AsideKeepsSettled, PromotionKept DEF StrandInv
<1>10. ASSUME NEW w \in Worker, WorkOnTask(w)
       PROVE  StrandInv'
  <2> DEFINE own == MessageOf(w)
  <2>1. pc[w] # "idle"
    BY <1>10, WorkerHasTask
  <2>2. task[w] \in Task /\ task[w] # NoTask /\ own \in Message
    BY <1>1, <2>1 DEF IdleHasNoTask, SendTypeOK, MessageOf, Task
  <2>3. \A v \in Worker \ {w} : pc'[v] = pc[v] /\ task'[v] = task[v]
    BY <1>1, <1>10, OneWorkerMoves DEF SendTypeOK
  <2>4. UNCHANGED <<publishing, schedule, editing, promoting, crashes>>
    BY <1>1, <1>10, <2>2
    DEF WorkOnTask, CheckRefuses, LimitRefuses, TakeSlot, StorageFails,
        ProviderUnusable, StartCall, Accept, AnswerArrives, CallFails, CallRejected,
        StoreMessage, StoreAttempt, RejectMessage, RejectAttempt, FailAttempt,
        FailMessage, RowGone, ReleaseAfterTransient, ReleaseAfterPermanent, Retry,
        GiveUp, Acknowledge, MarkAttemptFailed, SaveStatus, SaveAttempt, SetRow, web, rows,
        SendTypeOK
  <2>5. \A x \in Message : attempt'[x] = "pending" =>
          attempt[x] = "pending" /\ broker'[<<x, 0>>] >= broker[<<x, 0>>]
    <3>1. \A x \in Message : attempt'[x] = "pending" => attempt[x] = "pending"
      BY <1>1, <1>10, <2>2
      DEF WorkOnTask, CheckRefuses, LimitRefuses, TakeSlot, StorageFails,
          ProviderUnusable, StartCall, Accept, AnswerArrives, CallFails, CallRejected,
          StoreMessage, StoreAttempt, RejectMessage, RejectAttempt, FailAttempt,
          FailMessage, RowGone, ReleaseAfterTransient, ReleaseAfterPermanent, Retry,
          GiveUp, Acknowledge, MarkAttemptFailed, SaveStatus, SaveAttempt, SetRow, rows,
          SendTypeOK
    <3>2. broker' = broker \/ \E t : broker' = [broker EXCEPT ![t] = @ + 1]
      <4>1. CASE Retry(w)
        BY <4>1 DEF Retry
      <4>2. CASE ~ Retry(w)
        BY <1>10, <4>2
        DEF WorkOnTask, CheckRefuses, LimitRefuses, TakeSlot, StorageFails,
            ProviderUnusable, StartCall, Accept, AnswerArrives, CallFails, CallRejected,
            StoreMessage, StoreAttempt, RejectMessage, RejectAttempt, FailAttempt,
            FailMessage, RowGone, ReleaseAfterTransient, ReleaseAfterPermanent,
            GiveUp, Acknowledge, MarkAttemptFailed
      <4> QED BY <4>1, <4>2
    <3>3. \A t \in Task : broker[t] \in Nat /\ broker'[t] \in {broker[t], broker[t] + 1}
      BY <1>2, <3>2
    <3>4. \A t \in Task : broker'[t] >= broker[t]
      BY <3>3
    <3> QED BY <1>3, <3>1, <3>4
  <2>6. PendingAwaited'
    BY <1>2, <1>4, <2>4, <2>5, WorkerKeepsAwaited
  <2>7. \A x \in Message : attempt'[x] = "sending" =>
          Settles(w, x)' \/ (attempt[x] = "sending" /\ ~ Settles(w, x))
    <3>1. \A x \in Message : Settles(w, x) <=> x = own /\ pc[w] \in BusyLocation \cup {"closing"}
      BY <2>2 DEF Settles, WorksOn
    <3>2. \A x \in Message :
            Settles(w, x)' <=> /\ task'[w] = task[w] /\ x = own
                               /\ pc'[w] \in BusyLocation \cup {"closing"}
      BY <1>1, <1>10, <2>2, OneWorkerMoves DEF Settles, WorksOn, MessageOf, TypeOK
    <3>3. \A x \in Message \ {own} : attempt'[x] = attempt[x]
      BY <1>1, <1>10, <2>2
      DEF WorkOnTask, CheckRefuses, LimitRefuses, TakeSlot, StorageFails,
          ProviderUnusable, StartCall, Accept, AnswerArrives, CallFails, CallRejected,
          StoreMessage, StoreAttempt, RejectMessage, RejectAttempt, FailAttempt,
          FailMessage, RowGone, ReleaseAfterTransient, ReleaseAfterPermanent, Retry,
          GiveUp, Acknowledge, MarkAttemptFailed, SaveStatus, SaveAttempt, SetRow, rows,
          SendTypeOK
    <3> SUFFICES ASSUME attempt'[own] = "sending"
                 PROVE  \/ task'[w] = task[w] /\ pc'[w] \in BusyLocation \cup {"closing"}
                        \/ attempt[own] = "sending" /\ pc[w] \notin BusyLocation \cup {"closing"}
      BY <3>1, <3>2, <3>3
    <3> HIDE DEF own
    <3> USE <1>1, <2>2 DEF BusyLocation, SendTypeOK, Fail, Goto, own
    <3>4. CASE \/ CheckRefuses(w) \/ LimitRefuses(w) \/ TakeSlot(w) \/ StartCall(w)
               \/ ProviderUnusable(w) \/ RowGone(w)
      BY <3>4 DEF CheckRefuses, LimitRefuses, TakeSlot, StartCall, ProviderUnusable, RowGone
    <3>5. CASE \/ Accept(w) \/ AnswerArrives(w) \/ CallFails(w)
               \/ StoreMessage(w) \/ RejectMessage(w) \/ FailMessage(w)
               \/ \E v \in {"transient", "permanent"} : CallRejected(w, v)
      BY <3>5 DEF Accept, AnswerArrives, CallFails, CallRejected, StoreMessage,
                  RejectMessage, FailMessage, SaveStatus, work, rows
    <3>6. ~ StoreAttempt(w) /\ ~ RejectAttempt(w) /\ ~ FailAttempt(w)
      BY DEF StoreAttempt, RejectAttempt, FailAttempt, SaveAttempt
    <3>7. CASE \/ ReleaseAfterTransient(w) \/ ReleaseAfterPermanent(w) \/ Retry(w)
               \/ GiveUp(w) \/ Acknowledge(w)
      BY <3>7 DEF ReleaseAfterTransient, ReleaseAfterPermanent, Retry, GiveUp,
                  Acknowledge, rows
    <3>8. ~ StorageFails(w)
      BY DEF StorageFails
    <3>9. ~ MarkAttemptFailed(w)
      <4>1. status[own] = "deleted" => attempt[own] = "none"
        BY DEF CancelInv, NewRows
      <4> QED BY <4>1 DEF MarkAttemptFailed, SetRow, rows
    <3> QED BY <1>10, <3>4, <3>5, <3>6, <3>7, <3>8, <3>9 DEF WorkOnTask
  <2>8. SendingSettled'
    BY <1>4, <2>3, <2>4, <2>7, WorkerKeepsSettled
  <2>9. PromotionFresh'
    <3>1. \A x \in Message : /\ status'[x] \in {"absent", "draft"} => status'[x] = status[x]
                             /\ attempt'[x] = "none" => attempt[x] = "none"
      BY <1>1, <1>10, <2>2
      DEF WorkOnTask, CheckRefuses, LimitRefuses, TakeSlot, StorageFails,
          ProviderUnusable, StartCall, Accept, AnswerArrives, CallFails, CallRejected,
          StoreMessage, StoreAttempt, RejectMessage, RejectAttempt, FailAttempt,
          FailMessage, RowGone, ReleaseAfterTransient, ReleaseAfterPermanent, Retry,
          GiveUp, Acknowledge, MarkAttemptFailed, SaveStatus, SaveAttempt, SetRow, rows,
          SendTypeOK
    <3> QED BY <1>4, <2>4, <3>1, PromotionKept
  <2> QED BY <1>4, <2>4, <2>6, <2>8, <2>9 DEF StrandInv
<1>11. ASSUME NEW w \in Worker, WorkerCrash(w)
       PROVE  StrandInv'
  <2>1. UNCHANGED <<status, attempt, publishing, schedule, editing, promoting>> /\ crashes' > 0
    BY <1>1, <1>11 DEF WorkerCrash, rows, web, SendTypeOK
  <2>2. pc[w] # "idle" /\ task[w] \in Task
    BY <1>1, <1>11 DEF WorkerCrash, IdleHasNoTask, SendTypeOK
  <2>3. \A t \in Task : broker'[t] >= broker[t]
    BY <1>2, <1>11, <2>2 DEF WorkerCrash
  <2>4. PendingAwaited'
    BY <1>2, <1>3, <1>4, <2>1, <2>3, WorkerKeepsAwaited
  <2>5. SendingSettled'
    BY <2>1 DEF SendingSettled
  <2> QED BY <1>4, <2>1, <2>4, <2>5, PromotionKept DEF StrandInv
<1> QED BY <1>5, <1>6, <1>7, <1>8, <1>9, <1>10, <1>11 DEF Next, TakeTask

(* The invariants of the pipeline proved above, under one name.            *)
LEMMA SendInvariants ==
  Spec => [](TypeOK /\ IdleHasNoTask /\ CancelInv /\ SentInv)
BY CancelInvariant, InitSentInv, NextSentInv, SendTypes, SendTypeCorrect, PTL DEF Spec

(* Somebody is going to handle every attempt that is not settled: a        *)
(* pending one has its request, a copy of its first task or a schedule,    *)
(* one in flight a worker that has yet to settle it, for any number of     *)
(* workers and copies, with schedules, cancels, deletions, lost answers    *)
(* and rejections.  The hypothesis names the three ways the code does lose *)
(* one: the web process dies before its on_commit hook, the storage fails  *)
(* after the reservation, or a draft's edit unsets the schedule of a       *)
(* message that has become a send.                                         *)
THEOREM NoAttemptIsStranded ==
  Events \cap {"web_crash", "storage_fails", "edit"} = {} =>
    (Spec => []NoAttemptStranded)
<1> SUFFICES ASSUME Events \cap {"web_crash", "storage_fails", "edit"} = {}
             PROVE  Spec => []NoAttemptStranded
  OBVIOUS
<1>1. "edit" \notin Events /\ "web_crash" \notin Events /\ "storage_fails" \notin Events
  OBVIOUS
<1>2. Init => StrandInv
  BY DEF Init, StrandInv, PromotionFresh, PendingAwaited, SendingSettled
<1>3. TypeOK /\ IdleHasNoTask /\ CancelInv /\ StrandInv /\ [Next]_vars => StrandInv'
  BY <1>1, NextStrandInv
<1>4. StrandInv => NoAttemptStranded
  BY DEF StrandInv, PendingAwaited, SendingSettled, NoAttemptStranded, Settles, Workers
<1> QED BY <1>2, <1>3, <1>4, SendInvariants, PTL DEF Spec

-----------------------------------------------------------------------------
(* The load of a message: the requests, copies and workers that may still  *)
(* do something with it.  A worker that has published its retry and only   *)
(* has to acknowledge is not counted, its successor is.                    *)

Requests(m) == publishing \cap {m}
CopiesIn(queue, m) == UNION {{k} \X (1 .. queue[<<m, k>>]) : k \in 0 .. MaxRetries}
Copies(m) == CopiesIn(broker, m)
Active(m) == {w \in Worker : WorksOn(w, m) /\ pc[w] # "acking"}

Load(m) == Cardinality(Requests(m)) + Cardinality(Copies(m)) + Cardinality(Active(m))

LEMMA CopiesMember ==
  ASSUME NEW queue, NEW m, NEW c
  PROVE  c \in CopiesIn(queue, m) <=>
           \E k \in 0 .. MaxRetries : \E i \in 1 .. queue[<<m, k>>] : c = <<k, i>>
<1>1. c \in CopiesIn(queue, m) <=>
        \E k \in 0 .. MaxRetries : c \in {k} \X (1 .. queue[<<m, k>>])
  BY DEF CopiesIn
<1>2. \A k, n : c \in {k} \X (1 .. n) <=> \E i \in 1 .. n : c = <<k, i>>
  OBVIOUS
<1> QED BY <1>1, <1>2

(* Two sets that differ in at most one element.                            *)
LEMMA OneApart ==
  ASSUME NEW S, NEW T, NEW x, IsFiniteSet(S), S \ {x} = T \ {x}
  PROVE  /\ IsFiniteSet(T)
         /\ Cardinality(S) \in Nat /\ Cardinality(T) \in Nat
         /\ (x \in S <=> x \in T) => Cardinality(T) = Cardinality(S)
         /\ x \in S /\ x \notin T => Cardinality(T) = Cardinality(S) - 1
         /\ x \notin S /\ x \in T => Cardinality(T) = Cardinality(S) + 1
<1>1. CASE (x \in S <=> x \in T)
  <2>1. S = T
    BY <1>1
  <2> QED BY <1>1, <2>1, FS_CardinalityType
<1>2. CASE x \in S /\ x \notin T
  <2>1. T = S \ {x}
    BY <1>2
  <2> QED BY <1>2, <2>1, FS_RemoveElement, FS_CardinalityType
<1>3. CASE x \notin S /\ x \in T
  <2>1. T = S \cup {x}
    BY <1>3
  <2> QED BY <1>3, <2>1, FS_AddElement, FS_CardinalityType
<1> QED BY <1>1, <1>2, <1>3

(* One copy more of a task is one element more of its message's copies.    *)
LEMMA OneCopyMore ==
  ASSUME NEW before \in [Task -> Nat], NEW after \in [Task -> Nat], NEW t \in Task,
         after[t] = before[t] + 1, \A x \in Task \ {t} : after[x] = before[x],
         NEW m \in Message
  PROVE  /\ m # t[1] => CopiesIn(after, m) = CopiesIn(before, m)
         /\ m = t[1] => \E added : /\ added \notin CopiesIn(before, m)
                                  /\ CopiesIn(after, m) = CopiesIn(before, m) \cup {added}
<1> DEFINE added == <<t[2], before[t] + 1>>
<1>1. /\ t[1] \in Message /\ t[2] \in 0 .. MaxRetries /\ t = <<t[1], t[2]>>
      /\ before[t] \in Nat
  BY DEF Task
<1>2. \A k \in 0 .. MaxRetries : <<m, k>> \in Task
  BY DEF Task
<1>3. \A k \in 0 .. MaxRetries :
        after[<<m, k>>] = IF <<m, k>> = t THEN before[t] + 1 ELSE before[<<m, k>>]
  BY <1>2
<1>4. CASE m # t[1]
  <2>1. \A k \in 0 .. MaxRetries : after[<<m, k>>] = before[<<m, k>>]
    BY <1>1, <1>3, <1>4
  <2>2. CopiesIn(after, m) = CopiesIn(before, m)
    BY <2>1 DEF CopiesIn
  <2> QED BY <1>4, <2>2
<1>5. CASE m = t[1]
  <2>1. \A k \in 0 .. MaxRetries : <<m, k>> = t <=> k = t[2]
    BY <1>1, <1>5
  <2>2. \A k \in 0 .. MaxRetries \ {t[2]} : after[<<m, k>>] = before[<<m, k>>]
    BY <1>3, <2>1
  <2>3. before[<<m, t[2]>>] = before[t] /\ after[<<m, t[2]>>] = before[t] + 1
    BY <1>1, <1>3, <1>5
  <2> HIDE DEF added
  <2>4. ASSUME NEW c
        PROVE  c \in CopiesIn(after, m) <=> c \in CopiesIn(before, m) \/ c = added
    <3> DEFINE In(queue, k) == \E i \in 1 .. queue[<<m, k>>] : c = <<k, i>>
    <3>1. c \in CopiesIn(after, m) <=> \E k \in 0 .. MaxRetries : In(after, k)
      BY CopiesMember
    <3>2. c \in CopiesIn(before, m) <=> \E k \in 0 .. MaxRetries : In(before, k)
      BY CopiesMember
    <3>3. \A k \in 0 .. MaxRetries \ {t[2]} : In(after, k) <=> In(before, k)
      BY <2>2
    <3>4. In(after, t[2]) <=> In(before, t[2]) \/ c = added
      BY <1>1, <2>3 DEF added
    <3> HIDE DEF In
    <3> QED BY <1>1, <3>1, <3>2, <3>3, <3>4
  <2>5. added \notin CopiesIn(before, m)
    <3> SUFFICES ASSUME added \in CopiesIn(before, m)  PROVE FALSE
      OBVIOUS
    <3>1. PICK k \in 0 .. MaxRetries : \E i \in 1 .. before[<<m, k>>] : added = <<k, i>>
      BY CopiesMember
    <3> PICK i \in 1 .. before[<<m, k>>] : added = <<k, i>>
      BY <3>1
    <3>2. k = t[2] /\ i = before[t] + 1
      BY <3>1 DEF added
    <3> QED BY <1>1, <2>3, <3>1, <3>2
  <2>6. CopiesIn(after, m) = CopiesIn(before, m) \cup {added}
    BY <2>4
  <2> QED BY <1>5, <2>5, <2>6
<1> QED BY <1>4, <1>5

Published(t) == broker' = [broker EXCEPT ![t] = @ + 1]

(* A task published adds one copy, a delivery takes one.                   *)
LEMMA CopiesPublished ==
  ASSUME broker \in [Task -> Nat], NEW t \in Task, Published(t),
         NEW m \in Message, IsFiniteSet(Copies(m))
  PROVE  /\ IsFiniteSet(Copies(m)')
         /\ m = t[1] => Cardinality(Copies(m)') = Cardinality(Copies(m)) + 1
         /\ m # t[1] => Copies(m)' = Copies(m)
<1> DEFINE after == broker'
           old == Copies(m)
           new == Copies(m)'
<1>1. old = CopiesIn(broker, m) /\ new = CopiesIn(after, m) /\ IsFiniteSet(old)
  BY DEF Copies, CopiesIn
<1>2. /\ after \in [Task -> Nat] /\ after[t] = broker[t] + 1
      /\ \A x \in Task \ {t} : after[x] = broker[x]
  BY DEF Published
<1> SUFFICES /\ IsFiniteSet(new)
             /\ m = t[1] => Cardinality(new) = Cardinality(old) + 1
             /\ m # t[1] => new = old
  OBVIOUS
<1> HIDE DEF after, old, new
<1>3. CASE m # t[1]
  <2>1. new = old
    BY <1>1, <1>2, <1>3, OneCopyMore
  <2> QED BY <1>1, <1>3, <2>1
<1>4. CASE m = t[1]
  <2>1. \E added : added \notin old /\ new = old \cup {added}
    BY <1>1, <1>2, <1>4, OneCopyMore
  <2>2. PICK added : added \notin old /\ new = old \cup {added}
    BY <2>1
  <2> QED BY <1>1, <1>4, <2>2, FS_AddElement
<1> QED BY <1>3, <1>4

LEMMA CopiesDelivered ==
  ASSUME broker \in [Task -> Nat], NEW t \in Task, Deliver(t),
         NEW m \in Message, IsFiniteSet(Copies(m))
  PROVE  /\ IsFiniteSet(Copies(m)')
         /\ m = t[1] => /\ Cardinality(Copies(m)) \in Nat \ {0}
                        /\ Cardinality(Copies(m)') = Cardinality(Copies(m)) - 1
         /\ m # t[1] => Copies(m)' = Copies(m)
<1> DEFINE after == broker'
           old == Copies(m)
           new == Copies(m)'
<1>1. old = CopiesIn(broker, m) /\ new = CopiesIn(after, m) /\ IsFiniteSet(old)
  BY DEF Copies, CopiesIn
<1>2. /\ after \in [Task -> Nat] /\ broker[t] = after[t] + 1
      /\ \A x \in Task \ {t} : broker[x] = after[x]
  BY DEF Deliver
<1> SUFFICES /\ IsFiniteSet(new)
             /\ m = t[1] => /\ Cardinality(old) \in Nat \ {0}
                            /\ Cardinality(new) = Cardinality(old) - 1
             /\ m # t[1] => new = old
  OBVIOUS
<1> HIDE DEF after, old, new
<1>3. CASE m # t[1]
  <2>1. new = old
    BY <1>1, <1>2, <1>3, OneCopyMore
  <2> QED BY <1>1, <1>3, <2>1
<1>4. CASE m = t[1]
  <2>1. \E taken : taken \notin new /\ old = new \cup {taken}
    BY <1>1, <1>2, <1>4, OneCopyMore
  <2>2. PICK taken : taken \notin new /\ old = new \cup {taken}
    BY <2>1
  <2>3. taken \in old /\ old \ {taken} = new \ {taken}
    BY <2>2
  <2>4. /\ IsFiniteSet(new)
        /\ Cardinality(old) \in Nat /\ Cardinality(new) \in Nat
        /\ Cardinality(new) = Cardinality(old) - 1
    BY <1>1, <2>2, <2>3, OneApart
  <2> QED BY <1>4, <2>4
<1> QED BY <1>3, <1>4

LEMMA LoadParts ==
  ASSUME NEW m \in Message, IsFiniteSet(Copies(m))
  PROVE  /\ IsFiniteSet(Requests(m)) /\ Cardinality(Requests(m)) \in Nat
         /\ Cardinality(Copies(m)) \in Nat
         /\ IsFiniteSet(Active(m)) /\ Cardinality(Active(m)) \in Nat
         /\ Load(m) \in Nat
<1>1. IsFiniteSet(Requests(m))
  <2>1. Requests(m) \in SUBSET {m} /\ IsFiniteSet({m})
    BY FS_Singleton DEF Requests
  <2> QED BY <2>1, FS_Subset
<1>2. IsFiniteSet(Active(m))
  <2>1. Active(m) \in SUBSET Worker
    BY DEF Active
  <2> QED BY <2>1, FS_Subset, LogAssumption
<1>3. /\ Cardinality(Requests(m)) \in Nat /\ Cardinality(Copies(m)) \in Nat
      /\ Cardinality(Active(m)) \in Nat
  BY <1>1, <1>2, FS_CardinalityType
<1> QED BY <1>1, <1>2, <1>3 DEF Load

(* A step of one worker, or of one request, changes each set of the load   *)
(* by that one alone.                                                      *)
LEMMA ActiveMoves ==
  ASSUME NEW w \in Worker, \A v \in Worker \ {w} : pc'[v] = pc[v] /\ task'[v] = task[v],
         NEW m \in Message
  PROVE  /\ Cardinality(Active(m)) \in Nat /\ Cardinality(Active(m)') \in Nat
         /\ (w \in Active(m) <=> w \in Active(m)') =>
              Cardinality(Active(m)') = Cardinality(Active(m))
         /\ w \in Active(m) /\ w \notin Active(m)' =>
              Cardinality(Active(m)') = Cardinality(Active(m)) - 1
         /\ w \notin Active(m) /\ w \in Active(m)' =>
              Cardinality(Active(m)') = Cardinality(Active(m)) + 1
<1> DEFINE old == Active(m)
           new == Active(m)'
<1>1. old \ {w} = new \ {w}
  BY DEF Active, WorksOn, MessageOf
<1>2. IsFiniteSet(old)
  <2>1. old \in SUBSET Worker
    BY DEF Active
  <2> QED BY <2>1, FS_Subset, LogAssumption
<1> HIDE DEF old, new
<1>3. /\ Cardinality(old) \in Nat /\ Cardinality(new) \in Nat
      /\ (w \in old <=> w \in new) => Cardinality(new) = Cardinality(old)
      /\ w \in old /\ w \notin new => Cardinality(new) = Cardinality(old) - 1
      /\ w \notin old /\ w \in new => Cardinality(new) = Cardinality(old) + 1
  BY <1>1, <1>2, OneApart
<1> QED BY <1>3 DEF old, new

LEMMA RequestMoves ==
  ASSUME NEW x \in Message, publishing' \ {x} = publishing \ {x}, NEW m \in Message
  PROVE  /\ Cardinality(Requests(m)) \in Nat /\ Cardinality(Requests(m)') \in Nat
         /\ m # x \/ publishing' = publishing =>
              Cardinality(Requests(m)') = Cardinality(Requests(m))
         /\ m = x /\ x \in publishing /\ x \notin publishing' =>
              Cardinality(Requests(m)') = Cardinality(Requests(m)) - 1
         /\ m = x /\ x \notin publishing /\ x \in publishing' =>
              Cardinality(Requests(m)') = Cardinality(Requests(m)) + 1
<1> DEFINE old == Requests(m)
           new == Requests(m)'
<1>1. old \ {m} = new \ {m}
  BY DEF Requests
<1>2. IsFiniteSet(old)
  <2>1. old \in SUBSET {m} /\ IsFiniteSet({m})
    BY FS_Singleton DEF Requests
  <2> QED BY <2>1, FS_Subset
<1>3. (m \in old <=> m \in publishing) /\ (m \in new <=> m \in publishing')
  BY DEF Requests
<1> HIDE DEF old, new
<1>4. /\ Cardinality(old) \in Nat /\ Cardinality(new) \in Nat
      /\ (m \in old <=> m \in new) => Cardinality(new) = Cardinality(old)
      /\ m \in old /\ m \notin new => Cardinality(new) = Cardinality(old) - 1
      /\ m \notin old /\ m \in new => Cardinality(new) = Cardinality(old) + 1
  BY <1>1, <1>2, OneApart
<1>5. m # x => (m \in publishing <=> m \in publishing')
  OBVIOUS
<1> QED BY <1>3, <1>4, <1>5 DEF old, new

(* The load after a step of a worker at its task: one less when the worker *)
(* is done with it and has published no retry.                             *)
Ends(w) == StoreAttempt(w) \/ GiveUp(w) \/ MarkAttemptFailed(w)

LEMMA WorkLoad ==
  ASSUME SendTypeOK, IdleHasNoTask, NEW w \in Worker, WorkOnTask(w),
         NEW m \in Message, IsFiniteSet(Copies(m))
  PROVE  /\ IsFiniteSet(Copies(m)')
         /\ Load(m)' = IF m = MessageOf(w) /\ Ends(w) THEN Load(m) - 1 ELSE Load(m)
<1> DEFINE own == MessageOf(w)
<1>1. pc[w] # "idle" /\ task[w] # NoTask /\ task[w] \in Task /\ own \in Message
  BY WorkerHasTask DEF SendTypeOK, IdleHasNoTask, MessageOf, Task
<1>2. /\ \A v \in Worker \ {w} : pc'[v] = pc[v] /\ task'[v] = task[v]
      /\ task'[w] = task[w] \/ (task'[w] = NoTask /\ pc'[w] = "idle")
  BY OneWorkerMoves
<1>3. publishing' = publishing
  BY DEF WorkOnTask, CheckRefuses, LimitRefuses, TakeSlot, StorageFails,
         ProviderUnusable, StartCall, Accept, AnswerArrives, CallFails, CallRejected,
         StoreMessage, StoreAttempt, RejectMessage, RejectAttempt, FailAttempt,
         FailMessage, RowGone, ReleaseAfterTransient, ReleaseAfterPermanent, Retry,
         GiveUp, Acknowledge, MarkAttemptFailed, web
<1>4. Requests(m)' = Requests(m)
  BY <1>3 DEF Requests
<1>5. /\ w \in Active(m) <=> m = own /\ pc[w] # "acking"
      /\ w \in Active(m)' <=> m = own /\ task'[w] # NoTask /\ pc'[w] # "acking"
  BY <1>1, <1>2 DEF Active, WorksOn, MessageOf
<1>6. /\ Cardinality(Requests(m)) \in Nat /\ Cardinality(Copies(m)) \in Nat
  BY LoadParts
<1>7. CASE Retry(w)
  <2> DEFINE again == <<own, task[w][2] + 1>>
  <2>1. again \in Task /\ again[1] = own
    BY <1>1, <1>7, SendAssumption DEF Retry, Task, MessageOf
  <2>2. Published(again)
    BY <1>7 DEF Retry, Published
  <2>3. pc[w] = "retrying" /\ pc'[w] = "acking" /\ ~ Ends(w)
    <3>1. pc[w] = "retrying" /\ pc'[w] = "acking"
      BY <1>7 DEF Retry, Goto, SendTypeOK
    <3>2. Ends(w) => pc'[w] = "idle"
      BY DEF Ends, StoreAttempt, GiveUp, MarkAttemptFailed, Idle, Goto, SendTypeOK
    <3> QED BY <3>1, <3>2
  <2> HIDE DEF again
  <2>4. /\ IsFiniteSet(Copies(m)')
        /\ m = own => Cardinality(Copies(m)') = Cardinality(Copies(m)) + 1
        /\ m # own => Copies(m)' = Copies(m)
    BY <2>1, <2>2, CopiesPublished DEF SendTypeOK
  <2>5. Load(m)' = Load(m)
    BY <1>2, <1>4, <1>5, <1>6, <2>3, <2>4, ActiveMoves DEF Load
  <2> QED BY <2>3, <2>4, <2>5
<1>8. CASE ~ Retry(w)
  <2>1. broker' = broker
    BY <1>8
    DEF WorkOnTask, CheckRefuses, LimitRefuses, TakeSlot, StorageFails,
        ProviderUnusable, StartCall, Accept, AnswerArrives, CallFails, CallRejected,
        StoreMessage, StoreAttempt, RejectMessage, RejectAttempt, FailAttempt,
        FailMessage, RowGone, ReleaseAfterTransient, ReleaseAfterPermanent,
        GiveUp, Acknowledge, MarkAttemptFailed
  <2>2. Copies(m)' = Copies(m)
    BY <2>1 DEF Copies, CopiesIn
  <2>3. CASE Ends(w)
    <3>1. pc[w] # "acking" /\ task'[w] = NoTask
      BY <2>3 DEF Ends, StoreAttempt, GiveUp, MarkAttemptFailed, Idle, SendTypeOK
    <3> QED BY <1>2, <1>4, <1>5, <1>6, <2>2, <2>3, <3>1, ActiveMoves DEF Load
  <2>4. CASE ~ Ends(w)
    <3>1. CASE Acknowledge(w)
      BY <1>2, <1>4, <1>5, <1>6, <2>2, <2>4, <3>1, ActiveMoves
      DEF Load, Acknowledge, Idle, SendTypeOK
    <3>2. CASE ~ Acknowledge(w)
      <4>1. pc[w] # "acking" /\ pc'[w] # "acking" /\ task'[w] = task[w]
        BY <1>8, <2>4, <3>2
        DEF WorkOnTask, CheckRefuses, LimitRefuses, TakeSlot, StorageFails,
            ProviderUnusable, StartCall, Accept, AnswerArrives, CallFails, CallRejected,
            StoreMessage, RejectMessage, RejectAttempt, FailAttempt,
            FailMessage, RowGone, ReleaseAfterTransient, ReleaseAfterPermanent,
            Ends, Goto, Fail, work, SendTypeOK
      <4> QED BY <1>1, <1>2, <1>4, <1>5, <1>6, <2>2, <2>4, <4>1, ActiveMoves DEF Load
    <3> QED BY <3>1, <3>2
  <2> QED BY <2>3, <2>4
<1> QED BY <1>7, <1>8

(* A crash hands the task over to the broker; the copy of a worker that    *)
(* had only to acknowledge comes in addition to the retry it published.    *)
LEMMA CrashLoad ==
  ASSUME SendTypeOK, IdleHasNoTask, NEW w \in Worker, WorkerCrash(w),
         NEW m \in Message, IsFiniteSet(Copies(m))
  PROVE  /\ IsFiniteSet(Copies(m)')
         /\ Load(m)' = IF m = MessageOf(w) /\ pc[w] = "acking" THEN Load(m) + 1 ELSE Load(m)
<1> DEFINE own == MessageOf(w)
<1>1. pc[w] # "idle" /\ task[w] # NoTask /\ task[w] \in Task /\ own \in Message
  BY WorkerHasTask DEF SendTypeOK, IdleHasNoTask, MessageOf, Task
<1>2. /\ \A v \in Worker \ {w} : pc'[v] = pc[v] /\ task'[v] = task[v]
      /\ task'[w] = NoTask
  BY DEF WorkerCrash, Idle, Goto, SendTypeOK
<1>3. Requests(m)' = Requests(m)
  BY DEF WorkerCrash, web, Requests
<1>4. /\ w \in Active(m) <=> m = own /\ pc[w] # "acking"
      /\ w \notin Active(m)'
  BY <1>1, <1>2 DEF Active, WorksOn, MessageOf
<1>5. Cardinality(Requests(m)) \in Nat /\ Cardinality(Copies(m)) \in Nat
  BY LoadParts
<1>6. Published(task[w])
  BY DEF WorkerCrash, Published
<1>7. /\ IsFiniteSet(Copies(m)')
      /\ m = own => Cardinality(Copies(m)') = Cardinality(Copies(m)) + 1
      /\ m # own => Copies(m)' = Copies(m)
  BY <1>1, <1>6, CopiesPublished DEF SendTypeOK, MessageOf
<1> QED BY <1>2, <1>3, <1>4, <1>5, <1>7, ActiveMoves DEF Load

(* A worker that reserves takes the place of the copy it received.         *)
LEMMA TakeLoad ==
  ASSUME SendTypeOK, IdleHasNoTask, NEW w \in Worker, NEW t \in Task,
         ReserveAttempt(w, t) \/ SkipTask(w, t),
         NEW m \in Message, IsFiniteSet(Copies(m))
  PROVE  /\ IsFiniteSet(Copies(m)')
         /\ m = t[1] => Cardinality(Copies(m)) >= 1
         /\ Load(m)' = IF m = t[1] /\ SkipTask(w, t) THEN Load(m) - 1 ELSE Load(m)
<1>1. Deliver(t) /\ Requests(m)' = Requests(m)
  BY DEF ReserveAttempt, SkipTask, web, Requests
<1>2. /\ IsFiniteSet(Copies(m)')
      /\ m = t[1] => /\ Cardinality(Copies(m)) \in Nat \ {0}
                     /\ Cardinality(Copies(m)') = Cardinality(Copies(m)) - 1
      /\ m # t[1] => Copies(m)' = Copies(m)
  BY <1>1, CopiesDelivered DEF SendTypeOK
<1>3. m = t[1] => Cardinality(Copies(m)) >= 1
  BY <1>2
<1>4. Cardinality(Requests(m)) \in Nat /\ Cardinality(Copies(m)) \in Nat
  BY LoadParts
<1>5. pc[w] = "idle" /\ task[w] = NoTask /\ w \notin Active(m)
  BY DEF ReserveAttempt, SkipTask, IdleHasNoTask, Active, WorksOn
<1>6. CASE ReserveAttempt(w, t)
  <2>1. \A v \in Worker \ {w} : pc'[v] = pc[v] /\ task'[v] = task[v]
    BY <1>6 DEF ReserveAttempt, Goto, SendTypeOK
  <2>2. pc'[w] = "reserved" /\ task'[w] = t /\ t # NoTask
    BY <1>6, SendAssumption DEF ReserveAttempt, Goto, SendTypeOK
  <2>3. w \in Active(m)' <=> m = t[1]
    BY <2>2 DEF Active, WorksOn, MessageOf
  <2>4. ~ SkipTask(w, t)
    BY <1>6 DEF ReserveAttempt, SkipTask
  <2> QED BY <1>1, <1>2, <1>3, <1>4, <1>5, <2>1, <2>3, <2>4, ActiveMoves DEF Load
<1>7. CASE SkipTask(w, t)
  <2>1. UNCHANGED <<pc, task>>
    BY <1>7 DEF SkipTask, work
  <2>2. w \notin Active(m)'
    BY <1>5, <2>1 DEF Active, WorksOn, MessageOf
  <2> QED BY <1>1, <1>2, <1>3, <1>4, <1>5, <1>7, <2>1, <2>2, ActiveMoves DEF Load
<1> QED BY <1>6, <1>7

(* A request changes the load of its own message, and only a send adds to  *)
(* it.                                                                     *)
LEMMA WebLoad ==
  ASSUME SendTypeOK, NEW x \in Message,
         User(x) \/ Enqueue(x) \/ WebCrash(x) \/ FallDue(x),
         NEW m \in Message, IsFiniteSet(Copies(m))
  PROVE  /\ IsFiniteSet(Copies(m)')
         /\ Load(m)' \in Nat
         /\ m # x => Load(m)' = Load(m)
         /\ Load(m)' <= Load(m) \/ (publishing' # publishing /\ User(x) /\ Load(m)' <= Load(m) + 1)
<1>1. UNCHANGED <<pc, task>>
  BY DEF User, ComposeSend, SaveDraft, EditRead, EditWrite, SendDraftRead, SendDraft, CancelRead,
         CancelWrite, Delete, Enqueue, WebCrash, FallDue, work
<1>2. Active(m)' = Active(m)
  BY <1>1 DEF Active, WorksOn, MessageOf
<1>3. publishing' \ {x} = publishing \ {x}
  BY DEF User, ComposeSend, SaveDraft, EditRead, EditWrite, SendDraftRead, SendDraft, CancelRead,
         CancelWrite, Delete, Enqueue, WebCrash, FallDue, PublishUnlessFuture, web
<1>4. /\ Cardinality(Requests(m)) \in Nat /\ Cardinality(Requests(m)') \in Nat
      /\ m # x \/ publishing' = publishing =>
           Cardinality(Requests(m)') = Cardinality(Requests(m))
      /\ m = x /\ x \in publishing /\ x \notin publishing' =>
           Cardinality(Requests(m)') = Cardinality(Requests(m)) - 1
      /\ m = x /\ x \notin publishing /\ x \in publishing' =>
           Cardinality(Requests(m)') = Cardinality(Requests(m)) + 1
  BY <1>3, RequestMoves
<1>5. Cardinality(Copies(m)) \in Nat /\ Cardinality(Active(m)) \in Nat
  BY LoadParts
<1>6. CASE Enqueue(x)
  <2> DEFINE first == <<x, 0>>
  <2>1. first \in Task /\ first[1] = x
    BY SendAssumption DEF Task
  <2>2. Published(first) /\ x \in publishing /\ x \notin publishing'
    BY <1>6 DEF Enqueue, Published
  <2> HIDE DEF first
  <2>3. /\ IsFiniteSet(Copies(m)')
        /\ m = x => Cardinality(Copies(m)') = Cardinality(Copies(m)) + 1
        /\ m # x => Copies(m)' = Copies(m)
    BY <2>1, <2>2, CopiesPublished DEF SendTypeOK
  <2>4. Load(m)' = Load(m) /\ Load(m) \in Nat
    BY <1>2, <1>4, <1>5, <2>2, <2>3 DEF Load
  <2> QED BY <2>3, <2>4
<1>7. CASE ~ Enqueue(x)
  <2>1. broker' = broker
    BY <1>7
    DEF User, ComposeSend, SaveDraft, EditRead, EditWrite, SendDraftRead, SendDraft, CancelRead,
        CancelWrite, Delete, WebCrash, FallDue
  <2>2. Copies(m)' = Copies(m)
    BY <2>1 DEF Copies, CopiesIn
  <2>3. publishing' = publishing \/ User(x) \/ (x \in publishing /\ x \notin publishing')
    BY <1>7 DEF WebCrash, FallDue, web
  <2>4. x \in publishing => x \in publishing' \/ ~ User(x)
    BY DEF User, ComposeSend, SaveDraft, EditRead, EditWrite, SendDraftRead, SendDraft, CancelRead,
           CancelWrite, Delete, PublishUnlessFuture, web
  <2>5. (x \in publishing <=> x \in publishing') => publishing' = publishing
    BY <1>3
  <2> QED BY <1>2, <1>4, <1>5, <2>2, <2>3, <2>4, <2>5 DEF Load
<1> QED BY <1>6, <1>7

(* Without scheduled sends every crash adds at most one to the load of a   *)
(* message, which starts at one; a message without an attempt has none.    *)
LoadInv ==
  \A m \in Message :
    /\ schedule[m] = "unset"
    /\ IsFiniteSet(Copies(m))
    /\ Load(m) <= 1 + crashes
    /\ attempt[m] = "none" /\ status[m] # "deleted" => Load(m) = 0

(* No step but a send takes a message out of the state in which it has     *)
(* neither an attempt nor load.                                            *)
LEMMA StaysWithoutAttempt ==
  ASSUME SendTypeOK, NewRows,
         \/ \E x \in Message : User(x) \/ Enqueue(x) \/ WebCrash(x) \/ FallDue(x)
         \/ \E w \in Worker : WorkOnTask(w) \/ WorkerCrash(w),
         NEW m \in Message, attempt'[m] = "none", status'[m] # "deleted"
  PROVE  attempt[m] = "none" /\ status[m] # "deleted"
<1> USE DEF SendTypeOK
<1>1. ASSUME NEW x \in Message, User(x) \/ Enqueue(x) \/ WebCrash(x) \/ FallDue(x)
      PROVE  attempt[m] = "none" /\ status[m] # "deleted"
  BY <1>1
  DEF NewRows, User, ComposeSend, SaveDraft, EditRead, EditWrite, SendDraftRead, SendDraft, CancelRead,
      CancelWrite, Delete, Enqueue, WebCrash, FallDue, SetRow, rows
<1>2. ASSUME NEW w \in Worker, WorkOnTask(w) \/ WorkerCrash(w)
      PROVE  attempt[m] = "none" /\ status[m] # "deleted"
  BY <1>2
  DEF WorkOnTask, WorkerCrash, CheckRefuses, LimitRefuses, TakeSlot, StorageFails,
      ProviderUnusable, StartCall, Accept, AnswerArrives, CallFails, CallRejected,
      StoreMessage, StoreAttempt, RejectMessage, RejectAttempt, FailAttempt,
      FailMessage, RowGone, ReleaseAfterTransient, ReleaseAfterPermanent, Retry,
      GiveUp, Acknowledge, MarkAttemptFailed, SaveStatus, SaveAttempt, SetRow, rows
<1> QED BY <1>1, <1>2

LEMMA StaysUnscheduled ==
  ASSUME SendTypeOK, \A m \in Message : schedule[m] = "unset", "schedule" \notin Events,
         [Next]_vars
  PROVE  /\ \A m \in Message : schedule'[m] = "unset"
         /\ ~ DispatchDueScheduledSends
<1> USE DEF SendTypeOK
<1>1. ASSUME NEW x \in Message, User(x) \/ Enqueue(x) \/ WebCrash(x) \/ FallDue(x)
      PROVE  \A m \in Message : schedule'[m] = "unset"
  BY <1>1
  DEF User, ComposeSend, SaveDraft, EditRead, EditWrite, SendDraftRead, SendDraft, CancelRead,
      CancelWrite, Delete, Enqueue, WebCrash, FallDue, SetRow, rows, ChosenSchedule
<1>2. ASSUME NEW w \in Worker, TakeTask(w)
      PROVE  \A m \in Message : schedule'[m] = "unset"
  BY <1>2 DEF TakeTask, ReserveAttempt, SkipTask, rows
<1>3. ASSUME NEW w \in Worker, WorkOnTask(w) \/ WorkerCrash(w)
      PROVE  \A m \in Message : schedule'[m] = "unset"
  <2>1. CASE MarkAttemptFailed(w)
    BY <2>1 DEF MarkAttemptFailed, SetRow, rows
  <2>2. CASE ~ MarkAttemptFailed(w)
    <3>1. schedule' = schedule
      BY <1>3, <2>2
      DEF WorkOnTask, WorkerCrash, CheckRefuses, LimitRefuses, TakeSlot, StorageFails,
          ProviderUnusable, StartCall, Accept, AnswerArrives, CallFails, CallRejected,
          StoreMessage, StoreAttempt, RejectMessage, RejectAttempt, FailAttempt,
          FailMessage, RowGone, ReleaseAfterTransient, ReleaseAfterPermanent, Retry,
          GiveUp, Acknowledge, SaveStatus, SaveAttempt, rows
    <3> QED BY <3>1
  <2> QED BY <2>1, <2>2
<1>4. ~ DispatchDueScheduledSends
  BY DEF DispatchDueScheduledSends, DueSends
<1>5. CASE NextDay \/ UNCHANGED vars
  BY <1>4, <1>5 DEF NextDay, vars, sendVars, rows
<1> QED BY <1>1, <1>2, <1>3, <1>4, <1>5 DEF Next

LEMMA NextLoadInv ==
  ASSUME SendTypeOK, IdleHasNoTask, NewRows, LoadInv, [Next]_vars, "schedule" \notin Events
  PROVE  LoadInv'
<1>1. /\ \A m \in Message : schedule'[m] = "unset"
      /\ ~ DispatchDueScheduledSends
  <2>1. \A m \in Message : schedule[m] = "unset"
    BY DEF LoadInv
  <2> QED BY <2>1, StaysUnscheduled
<1>2. ASSUME NEW m \in Message
      PROVE  /\ IsFiniteSet(Copies(m)) /\ Load(m) \in Nat
             /\ Load(m) <= 1 + crashes
             /\ attempt[m] = "none" /\ status[m] # "deleted" => Load(m) = 0
  BY LoadParts DEF LoadInv
<1> SUFFICES ASSUME NEW m \in Message
             PROVE  /\ IsFiniteSet(Copies(m)')
                    /\ Load(m)' <= 1 + crashes'
                    /\ attempt'[m] = "none" /\ status'[m] # "deleted" => Load(m)' = 0
  BY <1>1 DEF LoadInv
<1>3. crashes \in Nat
  BY DEF SendTypeOK
<1>4. ASSUME NEW x \in Message, User(x) \/ Enqueue(x) \/ WebCrash(x) \/ FallDue(x)
      PROVE  /\ IsFiniteSet(Copies(m)')
             /\ Load(m)' <= 1 + crashes'
             /\ attempt'[m] = "none" /\ status'[m] # "deleted" => Load(m)' = 0
  <2>1. crashes' = crashes
    BY <1>4 DEF User, ComposeSend, SaveDraft, EditRead, EditWrite, SendDraftRead, SendDraft, CancelRead,
                CancelWrite, Delete, Enqueue, WebCrash, FallDue
  <2>2. /\ IsFiniteSet(Copies(m)') /\ Load(m)' \in Nat
        /\ m # x => Load(m)' = Load(m)
        /\ Load(m)' <= Load(m) \/ (publishing' # publishing /\ User(x) /\ Load(m)' <= Load(m) + 1)
    BY <1>2, <1>4, WebLoad
  <2>3. CASE m = x /\ publishing' # publishing /\ User(x)
    <3>1. /\ attempt[m] = "none" /\ status[m] # "deleted"
          /\ attempt'[m] = "pending"
      BY <2>3 DEF SendTypeOK, NewRows, User, ComposeSend, SaveDraft, EditRead, EditWrite,
                  SendDraftRead, SendDraft, CancelRead, CancelWrite, Delete, SetRow, web
    <3> QED BY <1>2, <1>3, <2>1, <2>2, <3>1
  <2>4. CASE ~ (m = x /\ publishing' # publishing /\ User(x))
    <3>1. Load(m)' <= Load(m)
      BY <1>2, <2>2, <2>4
    <3>2. attempt'[m] = "none" /\ status'[m] # "deleted" =>
            attempt[m] = "none" /\ status[m] # "deleted"
      BY <1>4, StaysWithoutAttempt
    <3> QED BY <1>2, <1>3, <2>1, <2>2, <3>1, <3>2
  <2> QED BY <2>3, <2>4
<1>5. ASSUME NEW w \in Worker, NEW t \in Task, ReserveAttempt(w, t) \/ SkipTask(w, t)
      PROVE  /\ IsFiniteSet(Copies(m)')
             /\ Load(m)' <= 1 + crashes'
             /\ attempt'[m] = "none" /\ status'[m] # "deleted" => Load(m)' = 0
  <2>1. crashes' = crashes
    BY <1>5 DEF ReserveAttempt, SkipTask
  <2>2. /\ IsFiniteSet(Copies(m)')
        /\ m = t[1] => Cardinality(Copies(m)) >= 1
        /\ Load(m)' = IF m = t[1] /\ SkipTask(w, t) THEN Load(m) - 1 ELSE Load(m)
    BY <1>2, <1>5, TakeLoad
  <2>3. m = t[1] => Load(m) >= 1
    BY <1>2, <2>2, LoadParts DEF Load
  <2>4. attempt'[m] = "none" /\ status'[m] # "deleted" =>
          attempt[m] = "none" /\ status[m] # "deleted"
    BY <1>5 DEF ReserveAttempt, SkipTask, rows, SendTypeOK, Task
  <2> QED BY <1>2, <1>3, <2>1, <2>2, <2>3, <2>4
<1>6. ASSUME NEW w \in Worker, WorkOnTask(w)
      PROVE  /\ IsFiniteSet(Copies(m)')
             /\ Load(m)' <= 1 + crashes'
             /\ attempt'[m] = "none" /\ status'[m] # "deleted" => Load(m)' = 0
  <2>1. crashes' = crashes
    BY <1>6
    DEF WorkOnTask, CheckRefuses, LimitRefuses, TakeSlot, StorageFails,
        ProviderUnusable, StartCall, Accept, AnswerArrives, CallFails, CallRejected,
        StoreMessage, StoreAttempt, RejectMessage, RejectAttempt, FailAttempt,
        FailMessage, RowGone, ReleaseAfterTransient, ReleaseAfterPermanent, Retry,
        GiveUp, Acknowledge, MarkAttemptFailed
  <2>2. /\ IsFiniteSet(Copies(m)')
        /\ Load(m)' = IF m = MessageOf(w) /\ Ends(w) THEN Load(m) - 1 ELSE Load(m)
    BY <1>2, <1>6, WorkLoad
  <2>3. attempt'[m] = "none" /\ status'[m] # "deleted" =>
          attempt[m] = "none" /\ status[m] # "deleted"
    BY <1>6, StaysWithoutAttempt
  <2>4. attempt[m] = "none" /\ status[m] # "deleted" => m # MessageOf(w)
    <3>1. task[w] # NoTask
      BY <1>6, WorkerHasTask DEF IdleHasNoTask
    <3> QED BY <3>1 DEF NewRows, Untouched
  <2> QED BY <1>2, <1>3, <2>1, <2>2, <2>3, <2>4
<1>7. ASSUME NEW w \in Worker, WorkerCrash(w)
      PROVE  /\ IsFiniteSet(Copies(m)')
             /\ Load(m)' <= 1 + crashes'
             /\ attempt'[m] = "none" /\ status'[m] # "deleted" => Load(m)' = 0
  <2>1. crashes' = crashes + 1
    BY <1>7 DEF WorkerCrash
  <2>2. /\ IsFiniteSet(Copies(m)')
        /\ Load(m)' = IF m = MessageOf(w) /\ pc[w] = "acking" THEN Load(m) + 1 ELSE Load(m)
    BY <1>2, <1>7, CrashLoad
  <2>3. attempt'[m] = "none" /\ status'[m] # "deleted" =>
          attempt[m] = "none" /\ status[m] # "deleted"
    BY <1>7, StaysWithoutAttempt
  <2>4. attempt[m] = "none" /\ status[m] # "deleted" => m # MessageOf(w)
    <3>1. task[w] # NoTask
      BY <1>7, WorkerHasTask DEF IdleHasNoTask
    <3> QED BY <3>1 DEF NewRows, Untouched
  <2> QED BY <1>2, <1>3, <2>1, <2>2, <2>3, <2>4
<1>8. CASE NextDay \/ UNCHANGED vars
  <2>1. UNCHANGED <<status, attempt, publishing, broker, pc, task, crashes>>
    BY <1>8 DEF NextDay, vars, sendVars, rows, web, work
  <2>2. Copies(m)' = Copies(m) /\ Load(m)' = Load(m)
    BY <2>1 DEF Load, Requests, Copies, CopiesIn, Active, WorksOn, MessageOf
  <2> QED BY <1>2, <2>1, <2>2
<1> QED BY <1>1, <1>4, <1>5, <1>6, <1>7, <1>8 DEF Next, TakeTask

-----------------------------------------------------------------------------
(* A mail leaves once.                                                     *)

Reservable(m) == attempt[m] \in {"pending", "failed"}
NoBusy(m) == \A w \in Worker : ~ Busy(w, m)

(* One worker at most is between a reservation and the save that ends it.  *)
(* If another one's failure has made the attempt reservable meanwhile, or  *)
(* once the mail has been posted and the worker is gone, too little load   *)
(* is left for a second reservation: a load of crashes is one more than a  *)
(* message has without them, less the one that is spent.                   *)
PostOK(m) ==
  /\ posted[m] <= 1
  /\ \A v, w \in Worker : Busy(v, m) /\ Busy(w, m) => v = w
  /\ \A w \in Worker : Busy(w, m) => /\ Reservable(m) => Load(m) <= crashes
                                     /\ posted[m] > 0 => delivered[w]
  /\ NoBusy(m) /\ posted[m] > 0 /\ status[m] # "deleted" =>
       /\ Load(m) <= crashes
       /\ Reservable(m) => Load(m) < crashes

DeliveredAtCall ==
  \A w \in Worker :
    delivered[w] => pc[w] \in {"calling", "store_message", "store_attempt"}

PostInv ==
  /\ crashes <= 1
  /\ DeliveredAtCall
  /\ \A m \in Message : PostOK(m)

(* Steps that leave the busy workers of a message where they are.          *)
LEMMA PostKept ==
  ASSUME NEW m \in Message, PostOK(m), posted'[m] = posted[m],
         \A w \in Worker : Busy(w, m)' <=> Busy(w, m),
         \A w \in Worker : Busy(w, m) /\ delivered[w] => delivered'[w],
         status'[m] # "deleted" => status[m] # "deleted",
         Reservable(m)' => Reservable(m),
         Load(m) \in Nat, Load(m)' \in Nat, crashes \in Nat, crashes' \in Nat,
         Load(m)' + crashes <= Load(m) + crashes'
  PROVE  PostOK(m)'
<1> DEFINE old == Load(m)
           new == Load(m)'
<1>1. old \in Nat /\ new \in Nat /\ new + crashes <= old + crashes'
  OBVIOUS
<1>2. \A w \in Worker : Busy(w, m) =>
        (Reservable(m) => old <= crashes) /\ (posted[m] > 0 => delivered[w])
  BY DEF PostOK
<1>3. NoBusy(m) /\ posted[m] > 0 /\ status[m] # "deleted" =>
        old <= crashes /\ (Reservable(m) => old < crashes)
  BY DEF PostOK
<1>4. NoBusy(m)' <=> NoBusy(m)
  BY DEF NoBusy
<1> HIDE DEF old, new
<1>5. (old <= crashes => new <= crashes') /\ (old < crashes => new < crashes')
  <2>1. \A a, b, c, d \in Nat : b + c <= a + d => (a <= c => b <= d) /\ (a < c => b < d)
    OBVIOUS
  <2> QED BY <1>1, <2>1
<1>6. ASSUME NEW w \in Worker, Busy(w, m)'
      PROVE  (Reservable(m)' => new <= crashes') /\ (posted'[m] > 0 => delivered'[w])
  <2>1. Busy(w, m)
    BY <1>6
  <2> QED BY <1>2, <1>5, <2>1
<1>7. NoBusy(m)' /\ posted'[m] > 0 /\ status'[m] # "deleted" =>
        new <= crashes' /\ (Reservable(m)' => new < crashes')
  BY <1>3, <1>4, <1>5
<1>8. posted'[m] <= 1 /\ \A v, w \in Worker : Busy(v, m)' /\ Busy(w, m)' => v = w
  BY DEF PostOK
<1> QED BY <1>6, <1>7, <1>8 DEF PostOK, new

(* Steps by which the busy worker of a message stops being busy.           *)
LEMMA PostLeft ==
  ASSUME NEW m \in Message, PostOK(m), posted'[m] = posted[m],
         NEW w \in Worker, Busy(w, m), ~ Busy(w, m)',
         \A v \in Worker \ {w} : Busy(v, m)' <=> Busy(v, m),
         \/ status'[m] = "deleted"
         \/ ~ (posted[m] > 0)
         \/ Load(m)' <= crashes' /\ (Reservable(m)' => Load(m)' < crashes')
  PROVE  PostOK(m)'
<1>1. NoBusy(m)'
  BY DEF PostOK, NoBusy
<1> QED BY <1>1 DEF PostOK, NoBusy

LEMMA WebKeepsPost ==
  ASSUME SendTypeOK, SendTypeOK', NewRows, LoadInv, NEW x \in Message,
         User(x) \/ Enqueue(x) \/ WebCrash(x) \/ FallDue(x),
         NEW m \in Message, PostOK(m)
  PROVE  PostOK(m)'
<1>1. UNCHANGED <<pc, task, posted, delivered, crashes>>
  BY DEF User, ComposeSend, SaveDraft, EditRead, EditWrite, SendDraftRead, SendDraft, CancelRead,
         CancelWrite, Delete, Enqueue, WebCrash, FallDue, work, logVars
<1>2. \A w \in Worker : Busy(w, m)' <=> Busy(w, m)
  BY <1>1 DEF Busy, WorksOn, MessageOf
<1>3. /\ Load(m) \in Nat /\ Load(m)' \in Nat
      /\ m # x => Load(m)' = Load(m)
      /\ Load(m)' <= Load(m) \/ (publishing' # publishing /\ User(x) /\ Load(m)' <= Load(m) + 1)
  BY WebLoad, LoadParts DEF LoadInv
<1> DEFINE Send == \E at \in Schedule :
                     \/ ComposeSend(x, at)
                     \/ SendDraft(x, at) /\ status[x] = "draft" /\ attempt[x] = "none"
<1>4. CASE m = x /\ Send
  <2>1. attempt[m] = "none" /\ status[m] # "deleted"
    BY <1>4 DEF NewRows, ComposeSend, SendDraft
  <2>2. Untouched(m)
    BY <2>1 DEF NewRows
  <2>3. posted'[m] = 0 /\ \A w \in Worker : ~ Busy(w, m)'
    BY <1>1, <1>2, <2>2 DEF Untouched, Busy, WorksOn
  <2> QED BY <2>3 DEF PostOK
<1>5. CASE ~ (m = x /\ Send)
  <2>1. User(x) /\ ~ Send => publishing' = publishing
    BY DEF User, SaveDraft, EditRead, EditWrite, SendDraftRead, SendDraft, CancelRead,
           CancelWrite, Delete, web
  <2>2. Load(m)' <= Load(m)
    BY <1>3, <1>5, <2>1
  <2>3. status'[m] # "deleted" => status[m] # "deleted"
    BY <1>5 DEF User, ComposeSend, SaveDraft, EditRead, EditWrite, SendDraftRead, SendDraft, CancelRead,
                CancelWrite, Delete, Enqueue, WebCrash, FallDue, SetRow, rows, SendTypeOK
  <2>4. Reservable(m)' => Reservable(m)
    <3>1. CASE m # x
      <4>1. attempt'[m] = attempt[m]
        BY <3>1 DEF User, ComposeSend, SaveDraft, EditRead, EditWrite, SendDraftRead, SendDraft, CancelRead,
                    CancelWrite, Delete, Enqueue, WebCrash, FallDue, SetRow, rows, SendTypeOK
      <4> QED BY <4>1 DEF Reservable
    <3>2. CASE m = x /\ ~ Send
      BY <3>2 DEF User, SaveDraft, EditRead, EditWrite, SendDraftRead, SendDraft,
                  CancelRead, CancelWrite, Delete, Enqueue, WebCrash, FallDue, SetRow, rows, SendTypeOK,
                  Reservable
    <3> QED BY <1>5, <3>1, <3>2
  <2>5. Load(m)' + crashes <= Load(m) + crashes'
    BY <1>1, <1>3, <2>2 DEF SendTypeOK
  <2> QED BY <1>1, <1>2, <1>3, <2>3, <2>4, <2>5, PostKept DEF SendTypeOK
<1> QED BY <1>4, <1>5

(* A reservation finds the attempt reservable and a copy in the broker:    *)
(* with one crash at most there is then no busy worker, and no mail.       *)
LEMMA TakeKeepsPost ==
  ASSUME SendTypeOK, SendTypeOK', IdleHasNoTask, NewRows, LoadInv, crashes <= 1,
         NEW w \in Worker, NEW t \in Task, ReserveAttempt(w, t) \/ SkipTask(w, t),
         NEW m \in Message, PostOK(m)
  PROVE  PostOK(m)'
<1>1. UNCHANGED <<posted, delivered, crashes, status>> /\ t[1] \in Message
  BY DEF ReserveAttempt, SkipTask, logVars, rows, Task
<1>2. /\ IsFiniteSet(Copies(m)) /\ IsFiniteSet(Copies(m)')
      /\ m = t[1] => Cardinality(Copies(m)) >= 1
      /\ Load(m)' = IF m = t[1] /\ SkipTask(w, t) THEN Load(m) - 1 ELSE Load(m)
  BY TakeLoad DEF LoadInv
<1>3. /\ Load(m) \in Nat /\ Load(m)' \in Nat
      /\ Cardinality(Requests(m)) \in Nat /\ Cardinality(Copies(m)) \in Nat
      /\ IsFiniteSet(Active(m)) /\ Cardinality(Active(m)) \in Nat
      /\ m = t[1] => Load(m) >= 1
  BY <1>2, LoadParts DEF Load
<1>4. CASE SkipTask(w, t)
  <2>1. \A v \in Worker : Busy(v, m)' <=> Busy(v, m)
    BY <1>4 DEF SkipTask, work, Busy, WorksOn, MessageOf
  <2>2. Reservable(m)' => Reservable(m)
    BY <1>4 DEF SkipTask, rows, Reservable
  <2> QED BY <1>1, <1>2, <1>3, <2>1, <2>2, PostKept DEF SendTypeOK
<1>5. CASE ReserveAttempt(w, t) /\ m # t[1]
  <2>1. \A v \in Worker : Busy(v, m)' <=> Busy(v, m)
    BY <1>5, SendAssumption
    DEF ReserveAttempt, Goto, SendTypeOK, IdleHasNoTask, Busy, WorksOn, MessageOf
  <2>2. Reservable(m)' => Reservable(m)
    BY <1>1, <1>5 DEF ReserveAttempt, SendTypeOK, Reservable
  <2> QED BY <1>1, <1>2, <1>3, <1>5, <2>1, <2>2, PostKept DEF SendTypeOK
<1>6. CASE ReserveAttempt(w, t) /\ m = t[1]
  <2>1. Reservable(m) /\ status[m] # "deleted"
    BY <1>6 DEF ReserveAttempt, Reservable, NewRows
  <2>2. ASSUME NEW v \in Worker, Busy(v, m)  PROVE FALSE
    <3>1. Load(m) <= crashes
      BY <2>1, <2>2 DEF PostOK
    <3>2. v \in Active(m)
      BY <2>2 DEF Busy, Active, BusyLocation
    <3>3. Cardinality(Active(m)) # 0
      BY <1>3, <3>2, FS_EmptySet
    <3> QED BY <1>2, <1>3, <1>6, <3>1, <3>3 DEF Load, SendTypeOK
  <2>3. posted[m] = 0
    <3> SUFFICES ASSUME posted[m] > 0  PROVE FALSE
      BY DEF SendTypeOK
    <3>1. Load(m) < crashes
      BY <2>1, <2>2 DEF PostOK, NoBusy
    <3> QED BY <1>3, <1>6, <3>1 DEF SendTypeOK
  <2>4. ~ Reservable(m)' /\ posted'[m] = 0
    BY <1>1, <1>6, <2>3 DEF ReserveAttempt, SendTypeOK, Reservable
  <2>5. \A v \in Worker : Busy(v, m)' => v = w
    BY <1>6, <2>2 DEF ReserveAttempt, Goto, SendTypeOK, Busy, WorksOn, MessageOf
  <2> QED BY <2>4, <2>5 DEF PostOK
<1> QED BY <1>4, <1>5, <1>6

LEMMA CrashKeepsPost ==
  ASSUME SendTypeOK, SendTypeOK', LogTypeOK, IdleHasNoTask, LoadInv,
         NEW w \in Worker, WorkerCrash(w), NEW m \in Message, PostOK(m)
  PROVE  PostOK(m)'
<1>1. /\ UNCHANGED <<posted, status, attempt>> /\ crashes' = crashes + 1
      /\ pc'[w] = "idle" /\ task'[w] = NoTask
      /\ \A v \in Worker \ {w} : pc'[v] = pc[v] /\ task'[v] = task[v]
  BY DEF WorkerCrash, rows, Idle, Goto, SendTypeOK
<1>2. \A v \in Worker \ {w} : delivered[v] => delivered'[v]
  BY DEF WorkerCrash, DropSlot, AbandonSlot, LetGo, logVars, LogTypeOK
<1>3. /\ IsFiniteSet(Copies(m)) /\ IsFiniteSet(Copies(m)')
      /\ Load(m)' = IF m = MessageOf(w) /\ pc[w] = "acking" THEN Load(m) + 1 ELSE Load(m)
      /\ Load(m) <= 1 + crashes
  BY CrashLoad DEF LoadInv
<1>4. Load(m) \in Nat /\ crashes \in Nat
  BY <1>3, LoadParts DEF SendTypeOK
<1>5. \A v \in Worker \ {w} : Busy(v, m)' <=> Busy(v, m)
  BY <1>1 DEF Busy, WorksOn, MessageOf
<1>6. ~ Busy(w, m)'
  BY <1>1 DEF Busy, WorksOn
<1>7. Reservable(m)' <=> Reservable(m)
  BY <1>1 DEF Reservable
<1>8. CASE Busy(w, m)
  <2>1. pc[w] # "acking"
    BY <1>8 DEF Busy, BusyLocation
  <2>2. Load(m)' <= crashes'
    BY <1>1, <1>3, <1>4, <2>1
  <2>3. Reservable(m) => Load(m)' < crashes'
    BY <1>1, <1>3, <1>4, <1>8, <2>1 DEF PostOK
  <2> QED BY <1>1, <1>5, <1>6, <1>7, <1>8, <2>2, <2>3, PostLeft
<1>9. CASE ~ Busy(w, m)
  <2>1. Load(m)' \in Nat /\ Load(m)' + crashes <= Load(m) + crashes'
    BY <1>1, <1>3, <1>4
  <2>2. \A v \in Worker : Busy(v, m)' <=> Busy(v, m)
    BY <1>5, <1>6, <1>9
  <2>3. \A v \in Worker : Busy(v, m) /\ delivered[v] => delivered'[v]
    BY <1>2, <1>9
  <2> QED BY <1>1, <1>4, <1>7, <2>1, <2>2, <2>3, PostKept
<1> QED BY <1>8, <1>9

LEMMA WorkKeepsPost ==
  ASSUME TypeOK, SendTypeOK', IdleHasNoTask, NewRows, LoadInv, DeliveredAtCall,
         NEW w \in Worker, WorkOnTask(w), NEW m \in Message, PostOK(m)
  PROVE  PostOK(m)'
<1> DEFINE own == MessageOf(w)
<1>1. pc[w] # "idle" /\ task[w] # NoTask /\ task[w] \in Task /\ own \in Message
  BY WorkerHasTask DEF TypeOK, SendTypeOK, IdleHasNoTask, MessageOf, Task
<1>2. /\ \A v \in Worker \ {w} : pc'[v] = pc[v] /\ task'[v] = task[v]
      /\ task'[w] = task[w] \/ (task'[w] = NoTask /\ pc'[w] = "idle")
  BY OneWorkerMoves DEF TypeOK
<1>3. \A v \in Worker \ {w} : delivered'[v] = delivered[v]
  BY DEF WorkOnTask, CheckRefuses, LimitRefuses, TakeSlot, StorageFails,
         ProviderUnusable, StartCall, Accept, AnswerArrives, CallFails, CallRejected,
         StoreMessage, StoreAttempt, RejectMessage, RejectAttempt, FailAttempt,
         FailMessage, RowGone, ReleaseAfterTransient, ReleaseAfterPermanent, Retry,
         GiveUp, Acknowledge, MarkAttemptFailed, RefuseSendSlot, ReserveSendSlot,
         AbandonSlot, ProviderAccepts, ConfirmSend, DropSlot, TransientFailure,
         PermanentFailure, ReleaseSendSlot, LetGo, logVars, TypeOK, LogTypeOK
<1>4. crashes' = crashes
  BY DEF WorkOnTask, CheckRefuses, LimitRefuses, TakeSlot, StorageFails,
         ProviderUnusable, StartCall, Accept, AnswerArrives, CallFails, CallRejected,
         StoreMessage, StoreAttempt, RejectMessage, RejectAttempt, FailAttempt,
         FailMessage, RowGone, ReleaseAfterTransient, ReleaseAfterPermanent, Retry,
         GiveUp, Acknowledge, MarkAttemptFailed
<1>5. /\ Load(m)' = IF m = own /\ Ends(w) THEN Load(m) - 1 ELSE Load(m)
      /\ Load(m) \in Nat /\ Load(m)' \in Nat /\ crashes \in Nat
      /\ Load(m) <= 1 + crashes
  <2>1. /\ IsFiniteSet(Copies(m)) /\ IsFiniteSet(Copies(m)')
        /\ Load(m)' = IF m = own /\ Ends(w) THEN Load(m) - 1 ELSE Load(m)
    BY WorkLoad DEF LoadInv, TypeOK
  <2>2. Load(m) \in Nat /\ (Cardinality(Requests(m)) \in Nat /\ Cardinality(Copies(m)) \in Nat)
        /\ IsFiniteSet(Active(m)) /\ Cardinality(Active(m)) \in Nat
    BY <2>1, LoadParts
  <2>3. m = own /\ Ends(w) => Load(m) >= 1
    <3> SUFFICES ASSUME m = own, Ends(w)  PROVE Load(m) >= 1
      OBVIOUS
    <3>1. pc[w] # "acking"
      BY DEF Ends, StoreAttempt, GiveUp, MarkAttemptFailed
    <3>2. w \in Active(m)
      BY <1>1, <3>1 DEF Active, WorksOn
    <3>3. Cardinality(Active(m)) # 0
      BY <2>2, <3>2, FS_EmptySet
    <3> QED BY <2>2, <3>3 DEF Load
  <2> QED BY <2>1, <2>2, <2>3 DEF LoadInv, TypeOK, SendTypeOK
<1>6. \A v \in Worker \ {w} : Busy(v, m)' <=> Busy(v, m)
  BY <1>2 DEF Busy, WorksOn, MessageOf
<1>7. /\ Busy(w, m) <=> m = own /\ pc[w] \in BusyLocation
      /\ Busy(w, m)' <=> m = own /\ pc'[w] \in BusyLocation
  BY <1>1, <1>2 DEF Busy, WorksOn, MessageOf, BusyLocation
<1>8. delivered[w] => pc[w] \in {"calling", "store_message", "store_attempt"}
  BY DEF DeliveredAtCall
<1>9. Load(m)' + crashes <= Load(m) + crashes'
  BY <1>4, <1>5
<1>10. CASE m # own
  <2>1. posted'[m] = posted[m] /\ status'[m] = status[m] /\ attempt'[m] = attempt[m]
    BY <1>1, <1>10
    DEF WorkOnTask, CheckRefuses, LimitRefuses, TakeSlot, StorageFails,
        ProviderUnusable, StartCall, Accept, AnswerArrives, CallFails, CallRejected,
        StoreMessage, StoreAttempt, RejectMessage, RejectAttempt, FailAttempt,
        FailMessage, RowGone, ReleaseAfterTransient, ReleaseAfterPermanent, Retry,
        GiveUp, Acknowledge, MarkAttemptFailed, SaveStatus, SaveAttempt, SetRow, rows,
        TypeOK, SendTypeOK
  <2>2. \A v \in Worker : Busy(v, m)' <=> Busy(v, m)
    BY <1>6, <1>7, <1>10
  <2>3. \A v \in Worker : Busy(v, m) /\ delivered[v] => delivered'[v]
    BY <1>3, <1>7, <1>10
  <2>4. Reservable(m)' => Reservable(m)
    BY <2>1 DEF Reservable
  <2> QED BY <1>4, <1>5, <1>9, <2>1, <2>2, <2>3, <2>4, PostKept
<1>11. CASE m = own
  <2> USE DEF TypeOK, SendTypeOK
  \* Steps between two places of the same kind.
  <2>1. ASSUME posted'[m] = posted[m],
               pc[w] \in BusyLocation <=> pc'[w] \in BusyLocation,
               pc[w] \in BusyLocation /\ delivered[w] => delivered'[w],
               status'[m] # "deleted" => status[m] # "deleted",
               Reservable(m)' => Reservable(m)
        PROVE  PostOK(m)'
    <3>1. \A v \in Worker : Busy(v, m)' <=> Busy(v, m)
      BY <1>6, <1>7, <1>11, <2>1
    <3>2. \A v \in Worker : Busy(v, m) /\ delivered[v] => delivered'[v]
      BY <1>3, <1>7, <1>11, <2>1
    <3> QED BY <1>4, <1>5, <1>9, <2>1, <3>1, <3>2, PostKept
  <2>2. CASE \/ CheckRefuses(w) \/ AnswerArrives(w) \/ CallFails(w)
             \/ \E v \in {"transient", "permanent"} : CallRejected(w, v)
    BY <2>1, <2>2
    DEF CheckRefuses, AnswerArrives, CallFails, CallRejected, Fail, Goto, logVars, rows,
        Reservable, BusyLocation
  <2>3. CASE LimitRefuses(w) \/ TakeSlot(w)
    BY <2>1, <2>3
    DEF LimitRefuses, TakeSlot, RefuseSendSlot, ReserveSendSlot, Fail, Goto, rows,
        Reservable, BusyLocation
  <2>4. CASE StartCall(w)
    BY <1>11, <2>1, <2>4 DEF StartCall, SaveAttempt, Goto, logVars, Reservable, BusyLocation
  <2>5. CASE StoreMessage(w) \/ RejectMessage(w) \/ FailMessage(w)
    BY <1>11, <2>1, <2>5
    DEF StoreMessage, RejectMessage, FailMessage, SaveStatus, Goto, logVars, Reservable,
        BusyLocation
  <2>6. CASE ReleaseAfterTransient(w) \/ ReleaseAfterPermanent(w)
    BY <2>1, <2>6
    DEF ReleaseAfterTransient, ReleaseAfterPermanent, Goto, rows, Reservable, BusyLocation
  <2>7. CASE Retry(w) \/ GiveUp(w) \/ Acknowledge(w)
    BY <2>1, <2>7
    DEF Retry, GiveUp, Acknowledge, Idle, Goto, rows, Reservable, BusyLocation
  \* The provider accepts the mail of the only busy worker.
  <2>8. CASE Accept(w)
    <3>1. /\ ~ delivered[w] /\ delivered'[w] /\ posted'[m] = posted[m] + 1
          /\ UNCHANGED <<pc, task, status, attempt>> /\ pc[w] = "calling"
      BY <1>1, <1>11, <2>8 DEF Accept, ProviderAccepts, rows, work, LogTypeOK
    <3>2. Busy(w, m)
      BY <1>7, <1>11, <3>1 DEF BusyLocation
    <3>3. posted[m] = 0
      BY <3>1, <3>2 DEF PostOK
    <3>4. \A v \in Worker : Busy(v, m)' <=> Busy(v, m)
      BY <3>1 DEF Busy, WorksOn, MessageOf
    <3>5. \A v \in Worker : Busy(v, m)' => v = w
      BY <3>2, <3>4 DEF PostOK
    <3>6. Reservable(m)' => Load(m)' <= crashes'
      <4>1. Reservable(m)' => Reservable(m)
        BY <3>1 DEF Reservable
      <4>2. ~ Ends(w)
        BY <3>1 DEF Ends, StoreAttempt, GiveUp, MarkAttemptFailed
      <4>3. Reservable(m) => Load(m) <= crashes
        BY <3>2 DEF PostOK
      <4> QED BY <1>4, <1>5, <4>1, <4>2, <4>3
    <3>7. posted'[m] = 1 /\ ~ NoBusy(m)'
      BY <3>1, <3>2, <3>3, <3>4 DEF NoBusy
    <3> QED BY <3>1, <3>5, <3>6, <3>7 DEF PostOK
  \* The busy worker stops being busy.
  <2>9. ASSUME posted'[m] = posted[m], pc[w] \in BusyLocation, pc'[w] \notin BusyLocation,
               \/ status'[m] = "deleted"
               \/ ~ (posted[m] > 0)
               \/ Load(m)' <= crashes' /\ ~ Reservable(m)'
        PROVE  PostOK(m)'
    <3>1. Busy(w, m) /\ ~ Busy(w, m)'
      BY <1>7, <1>11, <2>9
    <3> QED BY <1>6, <2>9, <3>1, PostLeft
  <2>10. pc[w] \in BusyLocation /\ ~ delivered[w] => ~ (posted[m] > 0)
    BY <1>7, <1>11 DEF PostOK
  <2>11. CASE StorageFails(w) \/ ProviderUnusable(w)
    BY <1>8, <2>9, <2>10, <2>11
    DEF StorageFails, ProviderUnusable, Fail, Goto, BusyLocation
  <2>12. CASE RejectAttempt(w) \/ FailAttempt(w)
    BY <1>8, <2>9, <2>10, <2>12
    DEF RejectAttempt, FailAttempt, Goto, BusyLocation
  <2>13. CASE RowGone(w)
    <3>1. /\ posted' = posted /\ status' = status /\ attempt' = attempt
          /\ pc'[w] = "closing" /\ status[m] = "deleted"
      BY <1>11, <2>13 DEF RowGone, Fail, Goto, rows
    <3>2. CASE pc[w] \in BusyLocation
      BY <2>9, <3>1, <3>2 DEF BusyLocation
    <3>3. CASE pc[w] \notin BusyLocation
      BY <2>1, <3>1, <3>3 DEF BusyLocation, Reservable
    <3> QED BY <3>2, <3>3
  <2>14. CASE StoreAttempt(w)
    <3>1. Load(m)' <= crashes'
      BY <1>4, <1>5, <1>11, <2>14 DEF Ends
    <3>2. ~ Reservable(m)' /\ posted' = posted
      BY <1>1, <1>11, <2>14 DEF StoreAttempt, SaveAttempt, Reservable
    <3>3. pc[w] \in BusyLocation /\ pc'[w] \notin BusyLocation
      BY <2>14 DEF StoreAttempt, Idle, Goto, BusyLocation
    <3> QED BY <2>9, <3>1, <3>2, <3>3
  \* The last handler makes the attempt reservable and ends its own task.
  <2>15. CASE MarkAttemptFailed(w)
    <3>1. /\ posted' = posted /\ pc[w] = "closing" /\ pc'[w] = "idle"
          /\ status'[m] = "deleted" <=> status[m] = "deleted"
      BY <1>1, <1>11, <2>15 DEF MarkAttemptFailed, Idle, Goto, SetRow, rows
    <3>2. Load(m)' = Load(m) - 1
      BY <1>5, <1>11, <2>15 DEF Ends
    <3>3. \A v \in Worker : Busy(v, m)' <=> Busy(v, m)
      BY <1>6, <1>7, <3>1 DEF BusyLocation
    <3>4. NoBusy(m)' <=> NoBusy(m)
      BY <3>3 DEF NoBusy
    <3>5. \A v \in Worker : Busy(v, m) => delivered'[v] = delivered[v]
      BY <1>3, <1>7, <3>1 DEF BusyLocation
    <3>6. \A v \in Worker : Busy(v, m)' /\ posted'[m] > 0 => delivered'[v]
      BY <3>1, <3>3, <3>5 DEF PostOK
    <3>7. Load(m)' <= crashes'
      BY <1>4, <1>5, <3>2
    <3>8. NoBusy(m)' /\ posted'[m] > 0 /\ status'[m] # "deleted" => Load(m)' < crashes'
      <4>1. NoBusy(m) /\ posted[m] > 0 /\ status[m] # "deleted" => Load(m) <= crashes
        BY DEF PostOK
      <4>2. Load(m) <= crashes => Load(m)' < crashes'
        BY <1>4, <1>5, <3>2
      <4> QED BY <3>1, <3>4, <4>1, <4>2
    <3>9. posted'[m] <= 1 /\ \A u, v \in Worker : Busy(u, m)' /\ Busy(v, m)' => u = v
      BY <3>1, <3>3 DEF PostOK
    <3> QED BY <3>6, <3>7, <3>8, <3>9 DEF PostOK
  <2> QED BY <2>2, <2>3, <2>4, <2>5, <2>6, <2>7, <2>8, <2>11, <2>12, <2>13, <2>14, <2>15
          DEF WorkOnTask
<1> QED BY <1>10, <1>11

(* Without lost answers a call that fails after all carried no mail, and   *)
(* the slot of one that did is let go when its answer is stored.           *)
LEMMA NextDeliveredAtCall ==
  ASSUME TypeOK, SlotsWhereHeld, DeliveredAtCall, "answer_lost" \notin Events, [Next]_vars
  PROVE  DeliveredAtCall'
<1> USE DEF TypeOK, SendTypeOK, LogTypeOK
<1> DEFINE Place == {"calling", "store_message", "store_attempt"}
<1>1. ASSUME UNCHANGED <<pc, delivered>>  PROVE DeliveredAtCall'
  BY <1>1 DEF DeliveredAtCall
<1>2. CASE \/ \E m \in Message : User(m) \/ Enqueue(m) \/ WebCrash(m) \/ FallDue(m)
           \/ DispatchDueScheduledSends \/ NextDay \/ UNCHANGED vars
  BY <1>1, <1>2
  DEF User, ComposeSend, SaveDraft, EditRead, EditWrite, SendDraftRead, SendDraft, CancelRead,
      CancelWrite, Delete, Enqueue, WebCrash, FallDue, DispatchDueScheduledSends,
      NextDay, Midnight, vars, sendVars, logVars, work
<1>3. ASSUME NEW w \in Worker, TakeTask(w)
      PROVE  DeliveredAtCall'
  <2>1. PICK t \in Task : ReserveAttempt(w, t) \/ SkipTask(w, t)
    BY <1>3 DEF TakeTask
  <2>2. CASE SkipTask(w, t)
    BY <1>1, <2>2 DEF SkipTask, work, logVars
  <2>3. CASE ReserveAttempt(w, t)
    <3>1. delivered' = delivered /\ ~ delivered[w]
      BY <2>3 DEF ReserveAttempt, logVars, DeliveredAtCall
    <3>2. \A v \in Worker \ {w} : pc'[v] = pc[v]
      BY <2>3 DEF ReserveAttempt, Goto
    <3> QED BY <3>1, <3>2 DEF DeliveredAtCall
  <2> QED BY <2>1, <2>2, <2>3
<1>4. ASSUME NEW w \in Worker, WorkOnTask(w) \/ WorkerCrash(w)
      PROVE  DeliveredAtCall'
  <2>1. \A v \in Worker \ {w} : pc'[v] = pc[v]
    BY <1>4, OneWorkerMoves
  <2>2. \A v \in Worker \ {w} : delivered'[v] = delivered[v]
    BY <1>4
    DEF WorkOnTask, WorkerCrash, CheckRefuses, LimitRefuses, TakeSlot, StorageFails,
        ProviderUnusable, StartCall, Accept, AnswerArrives, CallFails, CallRejected,
        StoreMessage, StoreAttempt, RejectMessage, RejectAttempt, FailAttempt,
        FailMessage, RowGone, ReleaseAfterTransient, ReleaseAfterPermanent, Retry,
        GiveUp, Acknowledge, MarkAttemptFailed, RefuseSendSlot, ReserveSendSlot,
        AbandonSlot, ProviderAccepts, ConfirmSend, DropSlot, TransientFailure,
        PermanentFailure, ReleaseSendSlot, LetGo, logVars
  <2> SUFFICES delivered'[w] => pc'[w] \in Place
    BY <2>1, <2>2 DEF DeliveredAtCall
  <2>3. delivered[w] => pc[w] \in Place /\ slot[w] # NoRow
    BY DEF DeliveredAtCall, SlotsWhereHeld
  <2>4. CASE \/ CheckRefuses(w) \/ StorageFails(w) \/ StartCall(w) \/ AnswerArrives(w)
             \/ CallFails(w) \/ \E v \in {"transient", "permanent"} : CallRejected(w, v)
             \/ StoreMessage(w) \/ RejectMessage(w) \/ RejectAttempt(w)
             \/ FailAttempt(w) \/ FailMessage(w) \/ Retry(w) \/ GiveUp(w)
             \/ Acknowledge(w) \/ MarkAttemptFailed(w)
    <3>1. delivered' = delivered
      BY <2>4
      DEF CheckRefuses, StorageFails, StartCall, AnswerArrives, CallFails, CallRejected,
          StoreMessage, RejectMessage, RejectAttempt, FailAttempt, FailMessage, Retry,
          GiveUp, Acknowledge, MarkAttemptFailed, logVars
    <3>2. delivered[w] => pc'[w] \in Place
      BY <2>3, <2>4
      DEF CheckRefuses, StorageFails, StartCall, AnswerArrives, CallFails, CallRejected,
          StoreMessage, RejectMessage, RejectAttempt, FailAttempt, FailMessage, Retry,
          GiveUp, Acknowledge, MarkAttemptFailed, Fail, Goto
    <3> QED BY <3>1, <3>2
  <2>5. CASE LimitRefuses(w) \/ TakeSlot(w)
    BY <2>3, <2>5 DEF LimitRefuses, TakeSlot, RefuseSendSlot, ReserveSendSlot
  <2>6. CASE Accept(w)
    BY <2>6 DEF Accept, work
  <2>7. CASE \/ ProviderUnusable(w) \/ StoreAttempt(w)
             \/ ReleaseAfterTransient(w) \/ ReleaseAfterPermanent(w)
    <3>1. LetGo(w)
      BY <2>7
      DEF ProviderUnusable, StoreAttempt, ReleaseAfterTransient, ReleaseAfterPermanent,
          AbandonSlot, ConfirmSend, TransientFailure, PermanentFailure, ReleaseSendSlot
    <3> QED BY <3>1 DEF LetGo
  <2>8. CASE RowGone(w) \/ WorkerCrash(w)
    <3>1. CASE slot[w] = NoRow
      BY <2>3, <2>8, <3>1 DEF RowGone, WorkerCrash, DropSlot, logVars
    <3>2. CASE slot[w] # NoRow
      BY <2>8, <3>2 DEF RowGone, WorkerCrash, DropSlot, AbandonSlot, LetGo
    <3> QED BY <3>1, <3>2
  <2> QED BY <1>4, <2>4, <2>5, <2>6, <2>7, <2>8 DEF WorkOnTask
<1> QED BY <1>2, <1>3, <1>4 DEF Next

LEMMA NextPostInv ==
  ASSUME TypeOK, TypeOK', IdleHasNoTask, NewRows, SlotsWhereHeld, LoadInv, PostInv,
         MaxCrashes <= 1, "schedule" \notin Events, "answer_lost" \notin Events, [Next]_vars
  PROVE  PostInv'
<1>1. DeliveredAtCall'
  BY NextDeliveredAtCall DEF PostInv
<1>2. crashes' <= 1
  <2>1. crashes \in Nat /\ crashes <= 1 /\ MaxCrashes \in Nat
    BY SendAssumption DEF PostInv, TypeOK, SendTypeOK
  <2>2. crashes' = crashes \/ (crashes < MaxCrashes /\ crashes' = crashes + 1)
    BY DEF Next, User, ComposeSend, SaveDraft, EditRead, EditWrite, SendDraftRead, SendDraft, CancelRead,
        CancelWrite, Delete, Enqueue, WebCrash, FallDue, DispatchDueScheduledSends,
        NextDay, vars, sendVars, TakeTask, ReserveAttempt, SkipTask,
        WorkOnTask, WorkerCrash, CheckRefuses, LimitRefuses, TakeSlot, StorageFails,
        ProviderUnusable, StartCall, Accept, AnswerArrives, CallFails, CallRejected,
        StoreMessage, StoreAttempt, RejectMessage, RejectAttempt, FailAttempt,
        FailMessage, RowGone, ReleaseAfterTransient, ReleaseAfterPermanent, Retry,
        GiveUp, Acknowledge, MarkAttemptFailed
  <2> QED BY <2>1, <2>2
<1> SUFFICES ASSUME NEW m \in Message, PostOK(m)
             PROVE  PostOK(m)'
  BY <1>1, <1>2 DEF PostInv
<1>3. SendTypeOK /\ SendTypeOK' /\ LogTypeOK /\ DeliveredAtCall /\ crashes <= 1
  BY DEF TypeOK, PostInv
<1>4. ASSUME NEW x \in Message, User(x) \/ Enqueue(x) \/ WebCrash(x) \/ FallDue(x)
      PROVE  PostOK(m)'
  BY <1>3, <1>4, WebKeepsPost
<1>5. ASSUME NEW w \in Worker, TakeTask(w)
      PROVE  PostOK(m)'
  BY <1>3, <1>5, TakeKeepsPost DEF TakeTask
<1>6. ASSUME NEW w \in Worker, WorkOnTask(w)
      PROVE  PostOK(m)'
  BY <1>3, <1>6, WorkKeepsPost
<1>7. ASSUME NEW w \in Worker, WorkerCrash(w)
      PROVE  PostOK(m)'
  BY <1>3, <1>7, CrashKeepsPost
<1>8. ~ DispatchDueScheduledSends
  BY <1>3, StaysUnscheduled DEF LoadInv
<1>9. CASE NextDay \/ UNCHANGED vars
  <2>1. UNCHANGED <<status, attempt, publishing, broker, pc, task, posted, delivered, crashes>>
    BY <1>9 DEF NextDay, Midnight, vars, sendVars, logVars, rows, web, work
  <2>2. Load(m)' = Load(m) /\ (Reservable(m)' <=> Reservable(m))
    BY <2>1 DEF Load, Requests, Copies, CopiesIn, Active, WorksOn, MessageOf, Reservable
  <2>3. \A w \in Worker : Busy(w, m)' <=> Busy(w, m)
    BY <2>1 DEF Busy, WorksOn, MessageOf
  <2>4. NoBusy(m)' <=> NoBusy(m)
    BY <2>3 DEF NoBusy
  <2> QED BY <2>1, <2>2, <2>3, <2>4 DEF PostOK
<1> QED BY <1>4, <1>5, <1>6, <1>7, <1>8, <1>9 DEF Next

LEMMA InitLoadInv == Init => LoadInv /\ PostInv
<1> SUFFICES ASSUME Init  PROVE LoadInv /\ PostInv
  OBVIOUS
<1>1. /\ status = [m \in Message |-> "absent"] /\ schedule = [m \in Message |-> "unset"]
      /\ publishing = {} /\ broker = [t \in Task |-> 0]
      /\ task = [w \in Worker |-> NoTask]
      /\ posted = [m \in Message |-> 0] /\ crashes = 0
      /\ delivered = [w \in Worker |-> FALSE]
  BY DEF Init, LogInit
<1>2. ASSUME NEW m \in Message
      PROVE  Copies(m) = {} /\ Requests(m) = {} /\ Active(m) = {}
  <2>1. \A k \in 0 .. MaxRetries : broker[<<m, k>>] = 0
    BY <1>1 DEF Task
  <2>2. \A k \in 0 .. MaxRetries : {k} \X (1 .. broker[<<m, k>>]) = {}
    BY <2>1
  <2>3. Copies(m) = {}
    BY <2>2 DEF Copies, CopiesIn
  <2> QED BY <1>1, <2>3 DEF Requests, Active, WorksOn
<1>3. ASSUME NEW m \in Message
      PROVE  IsFiniteSet(Copies(m)) /\ Load(m) = 0
  <2>1. IsFiniteSet({}) /\ Cardinality({}) = 0
    BY FS_EmptySet
  <2> QED BY <1>2, <2>1 DEF Load
<1>4. LoadInv
  BY <1>1, <1>3 DEF LoadInv
<1>5. ASSUME NEW m \in Message  PROVE PostOK(m)
  BY <1>1 DEF PostOK, Busy, WorksOn
<1>6. DeliveredAtCall
  BY <1>1 DEF DeliveredAtCall
<1> QED BY <1>1, <1>4, <1>5, <1>6 DEF PostInv

(* A mail leaves once, for any number of messages, workers and retries,    *)
(* whatever the provider answers, with one worker crash at any moment: the *)
(* reservation keeps other workers out while one is busy, and the copy     *)
(* that a crash puts back finds an attempt nobody reserves.  A second      *)
(* crash, a sweep (which enqueues what is enqueued already) and an answer  *)
(* lost on the way back are each enough for a second mail.                 *)
THEOREM MailLeavesOnce ==
  MaxCrashes <= 1 /\ Events \cap {"schedule", "answer_lost"} = {} =>
    (Spec => []PostedAtMostOnce)
<1> SUFFICES ASSUME MaxCrashes <= 1, Events \cap {"schedule", "answer_lost"} = {}
             PROVE  Spec => []PostedAtMostOnce
  OBVIOUS
<1>1. "schedule" \notin Events /\ "answer_lost" \notin Events
  OBVIOUS
<1>2. TypeOK /\ IdleHasNoTask /\ CancelInv /\ LoadInv /\ [Next]_vars => LoadInv'
  BY <1>1, NextLoadInv DEF TypeOK, CancelInv
<1>3. TypeOK /\ TypeOK' /\ IdleHasNoTask /\ CancelInv /\ SentInv /\ LoadInv /\ PostInv
        /\ [Next]_vars => PostInv'
  BY <1>1, NextPostInv DEF CancelInv, SentInv
<1>4. PostInv => PostedAtMostOnce
  BY DEF PostInv, PostOK, PostedAtMostOnce
<1> QED BY <1>2, <1>3, <1>4, InitLoadInv, SendInvariants, PTL DEF Spec

-----------------------------------------------------------------------------
(* Message and attempt tell the same.                                      *)

Agreed ==
  {<<"absent", "none">>, <<"draft", "none">>, <<"draft", "cancelled">>,
   <<"queued", "pending">>, <<"sent", "sent">>, <<"failed", "failed">>,
   <<"deleted", "none">>}

(* What the two rows of a message are while a worker has it in hand: one   *)
(* of them may be ahead of the other by the save that comes next.          *)
InHand(w, m) ==
  \/ status[m] = "deleted" /\ attempt[m] = "none"
  \/ /\ pc[w] \in {"reserved", "holding", "calling", "store_message",
                   "reject_message", "fail_attempt", "closing"}
     /\ status[m] \in {"queued", "failed"}
     /\ attempt[m] = "sending"
  \/ pc[w] = "store_attempt" /\ status[m] = "sent" /\ attempt[m] = "sending"
  \/ pc[w] = "reject_attempt" /\ status[m] = "failed" /\ attempt[m] = "sending"
  \/ pc[w] = "fail_message" /\ status[m] \in {"queued", "failed"} /\ attempt[m] = "failed"
  \/ /\ pc[w] \in {"releasing", "retrying", "closing"}
     /\ status[m] = "failed"
     /\ attempt[m] = "failed"

RowsOK(m) ==
  /\ Active(m) = {} => <<status[m], attempt[m]>> \in Agreed
  /\ \A w \in Active(m) : InHand(w, m)

RowsInv == \A m \in Message : crashes = 0 /\ cancelled[m] # "too_late" => RowsOK(m)

(* Without crashes one worker at most has a message in hand, and then the  *)
(* broker has no copy of its task.                                         *)
LEMMA LoneActive ==
  ASSUME SendTypeOK, LoadInv, crashes = 0, NEW m \in Message
  PROVE  /\ \A v, w \in Active(m) : v = w
         /\ Cardinality(Copies(m)) >= 1 => Active(m) = {}
<1> DEFINE active == Active(m)
           c == Cardinality(Copies(m))
           r == Cardinality(Requests(m))
<1>1. /\ IsFiniteSet(active) /\ Cardinality(active) \in Nat /\ c \in Nat /\ r \in Nat
      /\ r + c + Cardinality(active) <= 1
  BY LoadParts DEF LoadInv, Load
<1> HIDE DEF active, c, r
<1>2. Cardinality(active) <= 1 /\ (c >= 1 => Cardinality(active) = 0)
  BY <1>1
<1>3. \A v, w \in active : v = w
  <2> SUFFICES ASSUME NEW v \in active, NEW w \in active, v # w  PROVE FALSE
    OBVIOUS
  <2>1. IsFiniteSet(active \ {w}) /\ Cardinality(active \ {w}) = Cardinality(active) - 1
    BY <1>1, FS_RemoveElement
  <2>2. Cardinality(active \ {w}) = 0
    <3>1. Cardinality(active \ {w}) \in Nat
      BY <2>1, FS_CardinalityType
    <3> QED BY <1>1, <1>2, <2>1, <3>1
  <2>3. v \in active \ {w}
    OBVIOUS
  <2> QED BY <2>1, <2>2, <2>3, FS_EmptySet
<1>4. c >= 1 => active = {}
  BY <1>1, <1>2, FS_EmptySet
<1> QED BY <1>3, <1>4 DEF active, c

LEMMA RowsKept ==
  ASSUME NEW m \in Message, RowsOK(m), status'[m] = status[m], attempt'[m] = attempt[m],
         Active(m)' = Active(m), \A w \in Active(m) : pc'[w] = pc[w]
  PROVE  RowsOK(m)'
<1>1. \A w \in Active(m)' : InHand(w, m)'
  BY DEF RowsOK, InHand
<1> QED BY <1>1 DEF RowsOK

LEMMA WebKeepsRows ==
  ASSUME SendTypeOK, NewRows, NEW x \in Message,
         User(x) \/ Enqueue(x) \/ WebCrash(x) \/ FallDue(x),
         NEW m \in Message, cancelled'[m] # "too_late",
         cancelled[m] # "too_late" => RowsOK(m)
  PROVE  RowsOK(m)'
<1> USE DEF SendTypeOK
<1>1. UNCHANGED <<pc, task>>
  BY DEF User, ComposeSend, SaveDraft, EditRead, EditWrite, SendDraftRead, SendDraft, CancelRead,
         CancelWrite, Delete, Enqueue, WebCrash, FallDue, work
<1>2. Active(m)' = Active(m)
  BY <1>1 DEF Active, WorksOn, MessageOf
<1>3. ASSUME cancelled'[m] = cancelled[m], status'[m] = status[m], attempt'[m] = attempt[m]
      PROVE  RowsOK(m)'
  BY <1>1, <1>2, <1>3, RowsKept
<1>4. ASSUME Untouched(m), <<status'[m], attempt'[m]>> \in Agreed
      PROVE  RowsOK(m)'
  <2>1. Active(m) = {}
    BY <1>4 DEF Untouched, Active, WorksOn
  <2> QED BY <1>2, <1>4, <2>1 DEF RowsOK
<1>5. CASE m # x
  <2>1. cancelled'[m] = cancelled[m] /\ status'[m] = status[m] /\ attempt'[m] = attempt[m]
    BY <1>5 DEF User, ComposeSend, SaveDraft, EditRead, EditWrite, SendDraftRead, SendDraft, CancelRead,
                CancelWrite, Delete, Enqueue, WebCrash, FallDue, SetRow, rows, web
  <2> QED BY <1>3, <2>1
<1>6. CASE m = x /\ (\E at \in Schedule : ComposeSend(m, at) \/ SaveDraft(m, at))
  <2>1. attempt[m] = "none" /\ status[m] # "deleted"
    BY <1>6 DEF ComposeSend, SaveDraft, NewRows
  <2>2. Untouched(m)
    BY <2>1 DEF NewRows
  <2>3. <<status'[m], attempt'[m]>> \in Agreed
    BY <1>6 DEF ComposeSend, SaveDraft, SetRow, Agreed
  <2> QED BY <1>4, <2>2, <2>3
<1>7. ASSUME m = x, NEW at \in Schedule, SendDraft(m, at)
      PROVE  RowsOK(m)'
  <2>1. CASE status[m] = "draft" /\ attempt[m] = "none"
    <3>1. Untouched(m)
      BY <2>1 DEF NewRows
    <3>2. <<status'[m], attempt'[m]>> \in Agreed
      BY <1>7, <2>1 DEF SendDraft, SetRow, Agreed
    <3> QED BY <1>4, <3>1, <3>2
  <2>2. CASE ~ (status[m] = "draft" /\ attempt[m] = "none")
    BY <1>3, <1>7, <2>2 DEF SendDraft, rows
  <2> QED BY <2>1, <2>2
<1>8. CASE m = x /\ CancelWrite(m)
  <2>1. CASE status[m] = "deleted"
    BY <1>3, <1>8, <2>1 DEF CancelWrite, rows
  <2>2. CASE status[m] # "deleted"
    <3>1. attempt[m] = "pending"
      BY <1>8, <2>2 DEF CancelWrite
    <3>2. Untouched(m)
      BY <3>1 DEF NewRows
    <3>3. <<status'[m], attempt'[m]>> \in Agreed
      BY <1>8, <2>2 DEF CancelWrite, SetRow, Agreed
    <3> QED BY <1>4, <3>2, <3>3
  <2> QED BY <2>1, <2>2
<1>9. CASE m = x /\ Delete(m)
  <2>1. status'[m] = "deleted" /\ attempt'[m] = "none"
    BY <1>9 DEF Delete, SetRow
  <2>2. \A w \in Active(m)' : InHand(w, m)'
    BY <2>1 DEF InHand
  <2> QED BY <2>1, <2>2 DEF RowsOK, Agreed
<1>10. CASE m = x /\ ( \/ EditRead(m) \/ \E at \in Schedule : EditWrite(m, at)
                       \/ SendDraftRead(m) \/ CancelRead(m)
                       \/ Enqueue(m) \/ WebCrash(m) \/ FallDue(m))
  BY <1>3, <1>10 DEF EditRead, EditWrite, SendDraftRead, CancelRead, Enqueue, WebCrash, FallDue, rows, web
<1> QED BY <1>5, <1>6, <1>7, <1>8, <1>9, <1>10 DEF User

(* The worker that reserves a message finds it at rest.                    *)
LEMMA TakeKeepsRows ==
  ASSUME SendTypeOK, IdleHasNoTask, LoadInv, crashes = 0,
         NEW w \in Worker, NEW t \in Task, ReserveAttempt(w, t) \/ SkipTask(w, t),
         NEW m \in Message, RowsOK(m)
  PROVE  RowsOK(m)'
<1> USE DEF SendTypeOK
<1>1. CASE SkipTask(w, t)
  <2>1. UNCHANGED <<status, attempt, pc, task>>
    BY <1>1 DEF SkipTask, rows, work
  <2>2. Active(m)' = Active(m)
    BY <2>1 DEF Active, WorksOn, MessageOf
  <2> QED BY <2>1, <2>2, RowsKept
<1>2. CASE ReserveAttempt(w, t)
  <2>1. /\ task[w] = NoTask /\ task'[w] = t /\ t # NoTask /\ pc'[w] = "reserved"
        /\ \A v \in Worker \ {w} : pc'[v] = pc[v] /\ task'[v] = task[v]
        /\ status' = status
    BY <1>2, SendAssumption DEF ReserveAttempt, Goto, IdleHasNoTask
  <2>2. w \notin Active(m) /\ (w \in Active(m)' <=> m = t[1])
    BY <2>1 DEF Active, WorksOn, MessageOf
  <2>3. \A v \in Worker \ {w} : v \in Active(m)' <=> v \in Active(m)
    BY <2>1 DEF Active, WorksOn, MessageOf
  <2>4. Active(m) \subseteq Worker /\ Active(m)' \subseteq Worker
    BY DEF Active
  <2>5. CASE m # t[1]
    <3>1. attempt'[m] = attempt[m]
      BY <1>2, <2>5 DEF ReserveAttempt
    <3>2. Active(m)' = Active(m)
      <4>1. \A v \in Worker : v \in Active(m)' <=> v \in Active(m)
        BY <2>2, <2>3, <2>5
      <4> QED BY <2>4, <4>1
    <3>3. \A v \in Active(m) : pc'[v] = pc[v]
      BY <2>1, <2>2, <2>4
    <3> QED BY <2>1, <3>1, <3>2, <3>3, RowsKept
  <2>6. CASE m = t[1]
    <3>1. Cardinality(Copies(m)) >= 1
      BY <1>2, <2>6, TakeLoad DEF LoadInv
    <3>2. Active(m) = {}
      BY <3>1, LoneActive
    <3>3. Active(m)' = {w}
      BY <2>2, <2>3, <2>4, <2>6, <3>2
    <3>4. <<status[m], attempt[m]>> \in Agreed
      BY <3>2 DEF RowsOK
    <3>5. attempt[m] \in {"pending", "failed"} /\ attempt'[m] = "sending"
      BY <1>2, <2>6 DEF ReserveAttempt
    <3>6. status'[m] \in {"queued", "failed"}
      BY <2>1, <3>4, <3>5 DEF Agreed
    <3>7. InHand(w, m)'
      BY <2>1, <3>5, <3>6 DEF InHand
    <3> QED BY <3>3, <3>7 DEF RowsOK
  <2> QED BY <2>5, <2>6
<1> QED BY <1>1, <1>2

(* A worker with a message in hand is the only one, and each of its saves  *)
(* finds the two rows as its earlier ones left them.                       *)
LEMMA WorkKeepsRows ==
  ASSUME SendTypeOK, IdleHasNoTask, LoadInv, crashes = 0, "storage_fails" \notin Events,
         NEW w \in Worker, WorkOnTask(w), NEW m \in Message, RowsOK(m)
  PROVE  RowsOK(m)'
<1> USE DEF SendTypeOK
<1> DEFINE own == MessageOf(w)
<1>1. pc[w] # "idle" /\ task[w] # NoTask /\ own \in Message
  BY WorkerHasTask DEF IdleHasNoTask, MessageOf, Task
<1>2. /\ \A v \in Worker \ {w} : pc'[v] = pc[v] /\ task'[v] = task[v]
      /\ task'[w] = task[w] \/ (task'[w] = NoTask /\ pc'[w] = "idle")
  BY OneWorkerMoves
<1>3. \A v \in Worker \ {w} : v \in Active(m)' <=> v \in Active(m)
  BY <1>2 DEF Active, WorksOn, MessageOf
<1>4. /\ w \in Active(m) <=> m = own /\ pc[w] # "acking"
      /\ w \in Active(m)' <=> m = own /\ task'[w] # NoTask /\ pc'[w] # "acking"
  BY <1>1, <1>2 DEF Active, WorksOn, MessageOf
<1>5. Active(m) \subseteq Worker /\ Active(m)' \subseteq Worker
  BY DEF Active
<1>6. ASSUME status'[m] = status[m], attempt'[m] = attempt[m],
             w \notin Active(m), w \notin Active(m)'
      PROVE  RowsOK(m)'
  <2>1. Active(m)' = Active(m)
    <3>1. \A v \in Worker : v \in Active(m)' <=> v \in Active(m)
      BY <1>3, <1>6
    <3> QED BY <1>5, <3>1
  <2>2. \A v \in Active(m) : pc'[v] = pc[v]
    BY <1>2, <1>5, <1>6
  <2> QED BY <1>6, <2>1, <2>2, RowsKept
<1>7. CASE m # own
  <2>1. status'[m] = status[m] /\ attempt'[m] = attempt[m]
    BY <1>1, <1>7
    DEF WorkOnTask, CheckRefuses, LimitRefuses, TakeSlot, StorageFails,
        ProviderUnusable, StartCall, Accept, AnswerArrives, CallFails, CallRejected,
        StoreMessage, StoreAttempt, RejectMessage, RejectAttempt, FailAttempt,
        FailMessage, RowGone, ReleaseAfterTransient, ReleaseAfterPermanent, Retry,
        GiveUp, Acknowledge, MarkAttemptFailed, SaveStatus, SaveAttempt, SetRow, rows
  <2> QED BY <1>4, <1>6, <1>7, <2>1
<1>8. CASE m = own /\ Acknowledge(w)
  <2>1. status'[m] = status[m] /\ attempt'[m] = attempt[m] /\ pc[w] = "acking"
        /\ task'[w] = NoTask
    BY <1>8 DEF Acknowledge, Idle, rows
  <2> QED BY <1>4, <1>6, <2>1
<1>9. CASE m = own /\ ~ Acknowledge(w)
  <2>1. w \in Active(m)
    <3>1. pc[w] # "acking"
      BY <1>9
      DEF WorkOnTask, CheckRefuses, LimitRefuses, TakeSlot, StorageFails,
          ProviderUnusable, StartCall, Accept, AnswerArrives, CallFails, CallRejected,
          StoreMessage, StoreAttempt, RejectMessage, RejectAttempt, FailAttempt,
          FailMessage, RowGone, ReleaseAfterTransient, ReleaseAfterPermanent, Retry,
          GiveUp, MarkAttemptFailed
    <3> QED BY <1>4, <1>9, <3>1
  <2>2. InHand(w, m)
    BY <2>1 DEF RowsOK
  <2>3. \A v \in Active(m)' : v = w
    BY <1>3, <1>5, <2>1, LoneActive
  <2>4. ASSUME InHand(w, m)', pc'[w] \notin {"idle", "acking"}
        PROVE  RowsOK(m)'
    <3>1. w \in Active(m)'
      BY <1>1, <1>2, <1>4, <1>9, <2>4
    <3> QED BY <2>3, <2>4, <3>1 DEF RowsOK
  <2>5. ASSUME <<status'[m], attempt'[m]>> \in Agreed, task'[w] = NoTask \/ pc'[w] = "acking"
        PROVE  RowsOK(m)'
    <3>1. Active(m)' = {}
      BY <1>4, <2>3, <2>5
    <3> QED BY <2>5, <3>1 DEF RowsOK
  \* The worker goes on.
  <2>6. CASE CheckRefuses(w) \/ LimitRefuses(w) \/ TakeSlot(w)
    <3>1. pc[w] = "reserved" /\ pc'[w] \in {"fail_attempt", "holding"}
          /\ status' = status /\ attempt' = attempt
      BY <2>6 DEF CheckRefuses, LimitRefuses, TakeSlot, Fail, Goto, rows
    <3>2. InHand(w, m)'
      BY <2>2, <3>1 DEF InHand
    <3> QED BY <2>4, <3>1, <3>2
  <2>7. CASE ProviderUnusable(w) \/ StartCall(w)
    <3>1. pc[w] = "holding" /\ pc'[w] \in {"closing", "calling"} /\ status' = status
      BY <2>7 DEF ProviderUnusable, StartCall, SaveAttempt, Fail, Goto, rows
    <3>2. attempt' = attempt \/ (attempt'[m] = "sending" /\ status[m] # "deleted")
      BY <1>9, <2>7 DEF ProviderUnusable, StartCall, SaveAttempt, rows
    <3>3. InHand(w, m)'
      BY <2>2, <3>1, <3>2 DEF InHand
    <3> QED BY <2>4, <3>1, <3>3
  <2>8. CASE \/ Accept(w) \/ AnswerArrives(w) \/ CallFails(w)
             \/ \E v \in {"transient", "permanent"} : CallRejected(w, v)
    <3>1. pc[w] = "calling" /\ status' = status /\ attempt' = attempt
          /\ pc'[w] \in {"calling", "store_message", "fail_attempt", "reject_message"}
      BY <2>8 DEF Accept, AnswerArrives, CallFails, CallRejected, Fail, Goto, rows, work
    <3>2. InHand(w, m)'
      BY <2>2, <3>1 DEF InHand
    <3> QED BY <2>4, <3>1, <3>2
  <2>9. CASE StoreMessage(w) \/ RejectMessage(w)
    <3>1. /\ status[m] # "deleted" /\ attempt' = attempt
          /\ \/ pc[w] = "store_message" /\ pc'[w] = "store_attempt" /\ status'[m] = "sent"
             \/ pc[w] = "reject_message" /\ pc'[w] = "reject_attempt" /\ status'[m] = "failed"
      BY <1>9, <2>9 DEF StoreMessage, RejectMessage, SaveStatus, Goto
    <3>2. InHand(w, m)'
      BY <2>2, <3>1 DEF InHand
    <3> QED BY <2>4, <3>1, <3>2
  <2>10. CASE RejectAttempt(w) \/ FailAttempt(w)
    <3>1. /\ status[m] # "deleted" /\ status' = status /\ attempt'[m] = "failed"
          /\ \/ pc[w] = "reject_attempt" /\ pc'[w] = "releasing"
             \/ pc[w] = "fail_attempt" /\ pc'[w] = "fail_message"
      BY <1>9, <2>10 DEF RejectAttempt, FailAttempt, SaveAttempt, Goto
    <3>2. InHand(w, m)'
      BY <2>2, <3>1 DEF InHand
    <3> QED BY <2>4, <3>1, <3>2
  <2>11. CASE FailMessage(w)
    <3>1. /\ status[m] # "deleted" /\ attempt' = attempt /\ status'[m] = "failed"
          /\ pc[w] = "fail_message" /\ pc'[w] \in {"closing", "releasing"}
      BY <1>9, <2>11 DEF FailMessage, SaveStatus, Goto
    <3>2. InHand(w, m)'
      BY <2>2, <3>1 DEF InHand
    <3> QED BY <2>4, <3>1, <3>2
  <2>12. CASE RowGone(w)
    <3>1. status' = status /\ attempt' = attempt /\ status[m] = "deleted" /\ pc'[w] = "closing"
      BY <1>9, <2>12 DEF RowGone, Fail, Goto, rows
    <3>2. InHand(w, m)'
      BY <2>2, <3>1 DEF InHand
    <3> QED BY <2>4, <3>1, <3>2
  <2>13. CASE ReleaseAfterTransient(w) \/ ReleaseAfterPermanent(w)
    <3>1. pc[w] = "releasing" /\ pc'[w] \in {"retrying", "closing"}
          /\ status' = status /\ attempt' = attempt
      BY <2>13 DEF ReleaseAfterTransient, ReleaseAfterPermanent, Goto, rows
    <3>2. InHand(w, m)'
      BY <2>2, <3>1 DEF InHand
    <3> QED BY <2>4, <3>1, <3>2
  \* The worker is done with the message.
  <2>14. CASE StoreAttempt(w)
    <3>1. /\ status[m] # "deleted" /\ status' = status /\ attempt'[m] = "sent"
          /\ pc[w] = "store_attempt" /\ task'[w] = NoTask
      BY <1>9, <2>14 DEF StoreAttempt, SaveAttempt, Idle
    <3>2. <<status'[m], attempt'[m]>> \in Agreed
      BY <2>2, <3>1 DEF InHand, Agreed
    <3> QED BY <2>5, <3>1, <3>2
  <2>15. CASE Retry(w) \/ GiveUp(w)
    <3>1. /\ status' = status /\ attempt' = attempt /\ pc[w] = "retrying"
          /\ task'[w] = NoTask \/ pc'[w] = "acking"
      BY <2>15 DEF Retry, GiveUp, Idle, Goto, rows
    <3>2. <<status'[m], attempt'[m]>> \in Agreed
      BY <2>2, <3>1 DEF InHand, Agreed
    <3> QED BY <2>5, <3>1, <3>2
  <2>16. CASE MarkAttemptFailed(w)
    <3>1. /\ \/ status[m] = "deleted" /\ status' = status /\ attempt' = attempt
             \/ attempt[m] = "sent"
             \/ status'[m] = "failed" /\ attempt'[m] = "failed"
          /\ pc[w] = "closing" /\ task'[w] = NoTask
      BY <1>9, <2>16 DEF MarkAttemptFailed, SetRow, Idle, rows
    <3>2. <<status'[m], attempt'[m]>> \in Agreed
      BY <2>2, <3>1 DEF InHand, Agreed
    <3> QED BY <2>5, <3>1, <3>2
  <2> QED BY <1>9, <2>6, <2>7, <2>8, <2>9, <2>10, <2>11, <2>12, <2>13, <2>14, <2>15, <2>16
          DEF WorkOnTask, StorageFails
<1> QED BY <1>7, <1>8, <1>9

LEMMA NextRowsInv ==
  ASSUME SendTypeOK, SendTypeOK', IdleHasNoTask, NewRows, LoadInv, RowsInv,
         "schedule" \notin Events, "storage_fails" \notin Events, [Next]_vars
  PROVE  RowsInv'
<1> SUFFICES ASSUME NEW m \in Message, crashes' = 0, cancelled'[m] # "too_late"
             PROVE  RowsOK(m)'
  BY DEF RowsInv
<1>1. ASSUME NEW x \in Message, User(x) \/ Enqueue(x) \/ WebCrash(x) \/ FallDue(x)
      PROVE  RowsOK(m)'
  <2>1. crashes = 0
    BY <1>1 DEF User, ComposeSend, SaveDraft, EditRead, EditWrite, SendDraftRead, SendDraft, CancelRead,
                CancelWrite, Delete, Enqueue, WebCrash, FallDue
  <2> QED BY <1>1, <2>1, WebKeepsRows DEF RowsInv
<1>2. ASSUME NEW w \in Worker, TakeTask(w)
      PROVE  RowsOK(m)'
  <2>1. crashes = 0 /\ cancelled' = cancelled
    BY <1>2 DEF TakeTask, ReserveAttempt, SkipTask, web
  <2> QED BY <1>2, <2>1, TakeKeepsRows DEF RowsInv, TakeTask
<1>3. ASSUME NEW w \in Worker, WorkOnTask(w)
      PROVE  RowsOK(m)'
  <2>1. crashes = 0 /\ cancelled' = cancelled
    BY <1>3
    DEF WorkOnTask, CheckRefuses, LimitRefuses, TakeSlot, StorageFails,
        ProviderUnusable, StartCall, Accept, AnswerArrives, CallFails, CallRejected,
        StoreMessage, StoreAttempt, RejectMessage, RejectAttempt, FailAttempt,
        FailMessage, RowGone, ReleaseAfterTransient, ReleaseAfterPermanent, Retry,
        GiveUp, Acknowledge, MarkAttemptFailed, web
  <2> QED BY <1>3, <2>1, WorkKeepsRows DEF RowsInv
<1>4. ASSUME NEW w \in Worker, WorkerCrash(w)
      PROVE  FALSE
  BY <1>4 DEF WorkerCrash, SendTypeOK
<1>5. ~ DispatchDueScheduledSends
  BY StaysUnscheduled DEF LoadInv
<1>6. CASE NextDay \/ UNCHANGED vars
  <2>1. UNCHANGED <<status, attempt, pc, task, crashes, cancelled>>
    BY <1>6 DEF NextDay, vars, sendVars, rows, web, work
  <2>2. Active(m)' = Active(m) /\ RowsOK(m)
    BY <2>1 DEF Active, WorksOn, MessageOf, RowsInv
  <2> QED BY <2>1, <2>2, RowsKept
<1> QED BY <1>1, <1>2, <1>3, <1>4, <1>5, <1>6 DEF Next

(* Once nobody has a message in hand its row and its attempt's tell the    *)
(* same, whatever the order in which requests and workers saved them, as   *)
(* long as no worker has died and no cancel came too late.  A sweep can    *)
(* put a second worker on a message, and a failure of the storage leaves   *)
(* the attempt in flight when the retries run out: both are excluded.      *)
THEOREM RowsAgree ==
  Events \cap {"schedule", "storage_fails"} = {} => (Spec => []RowsAgreeAtRest)
<1> SUFFICES ASSUME Events \cap {"schedule", "storage_fails"} = {}
             PROVE  Spec => []RowsAgreeAtRest
  OBVIOUS
<1>1. "schedule" \notin Events /\ "storage_fails" \notin Events
  OBVIOUS
<1>2. TypeOK /\ IdleHasNoTask /\ CancelInv /\ LoadInv /\ [Next]_vars => LoadInv'
  BY <1>1, NextLoadInv DEF TypeOK, CancelInv
<1>3. TypeOK /\ TypeOK' /\ IdleHasNoTask /\ CancelInv /\ LoadInv /\ RowsInv
        /\ [Next]_vars => RowsInv'
  BY <1>1, NextRowsInv DEF TypeOK, CancelInv
<1>4. Init => RowsInv
  BY DEF Init, RowsInv, RowsOK, Agreed, Active, WorksOn
<1>5. RowsInv => RowsAgreeAtRest
  BY DEF RowsInv, RowsOK, RowsAgreeAtRest, Agreed, Active, Workers
<1> QED BY <1>2, <1>3, <1>4, <1>5, InitLoadInv, SendInvariants, PTL DEF Spec
=============================================================================
