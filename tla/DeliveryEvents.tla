--------------------------- MODULE DeliveryEvents ---------------------------
(***************************************************************************)
(* What a provider reports about outbound mail (delivered, opened,         *)
(* bounced, ...) and what Hedwig makes of it: the status of the message and*)
(* of its recipients, and the list of suppressed addresses that later sends*)
(* are checked against (providers/ingest.py, providers/postmark.py,        *)
(* providers/sending.py, hedwig/tasks.py).                                 *)
(*                                                                         *)
(* A report is stored once per event id and then processed by a worker; how*)
(* a stored row reaches one worker at a time is the subject of WebhookLog. *)
(* create_delivery_event takes no lock and runs in no transaction: every   *)
(* query of it is a step.                                                  *)
(***************************************************************************)
EXTENDS Naturals, FiniteSets, FiniteSetsExt

CONSTANTS
  Message,       \* outbound messages
  Address,       \* recipient addresses
  Domain,        \* domains mail is sent from
  To,            \* the recipients of each message
  DomainOf,      \* the domain of each message's mailbox
  InboundDomain, \* the one domain its provider receives mail for, or NoDomain
  Report,        \* what the provider may report
  About,         \* the message of each report
  Kind,          \* its event type
  Rcpt,          \* the recipient it names
  HasId,         \* the reports that carry an id of their own
  Worker,        \* Celery workers
  MaxCrashes,    \* bound on the worker crashes
  Managed,       \* bound on the suppressions staff adds, limits or removes
  NoDomain, NoReport

EventType ==
  {"delivered", "bounced", "opened", "clicked", "complained", "failed", "unsubscribed"}

ASSUME EventAssumption ==
  /\ To \in [Message -> SUBSET Address]
  /\ DomainOf \in [Message -> Domain]
  /\ InboundDomain \in [Message -> Domain \cup {NoDomain}]
  /\ About \in [Report -> Message]
  /\ Kind \in [Report -> EventType]
  /\ Rcpt \in [Report -> Address]
  /\ \A r \in Report : Rcpt[r] \in To[About[r]]
  /\ HasId \subseteq Report
  /\ MaxCrashes \in Nat
  /\ Managed \subseteq Domain \X Address
  /\ NoDomain \notin Domain
  /\ NoReport \notin Report

VARIABLES
  stage,       \* how far the send of a message has come
  status,      \* EmailMessage.status
  rcptStatus,  \* EmailRecipient.status
  row,         \* ProviderWebhookLog.status of each report, "none" if not stored
  event,       \* the reports that have their DeliveryEvent
  listed,      \* SuppressedAddress rows: who may not be mailed from a domain
  pc,          \* where a worker is in create_delivery_event
  hand,        \* the report it works on
  seen,        \* the message status it has read
  met,         \* history: messages two workers had in hand at once
  lost,        \* history: reports whose worker died after creating the event
  waived,      \* history: reports whose suppression another row stood in for
  crashes      \* history: worker crashes so far

sending == <<stage, status, rcptStatus>>
work == <<pc, hand, seen>>
history == <<met, lost, waived, crashes>>
vars == <<sending, row, event, listed, work, history>>

MessageStatus ==
  {"queued", "sent", "delivered", "opened", "clicked", "bounced", "spam", "failed"}

(* DELIVERY_EVENT_STATUS_MAP; an unsubscription has no status.             *)
StatusOf ==
  [delivered |-> "delivered", bounced |-> "bounced", opened |-> "opened",
   clicked |-> "clicked", complained |-> "spam", failed |-> "failed",
   unsubscribed |-> "none"]

(* EMAIL_STATUS_RANK, and 0 for what it does not list.                     *)
StatusRank ==
  [queued |-> 0, sent |-> 2, delivered |-> 3, opened |-> 4, clicked |-> 5,
   bounced |-> 6, spam |-> 6, failed |-> 6, none |-> 0]

RankOf(r) == StatusRank[StatusOf[Kind[r]]]

(* SUPPRESSING_EVENT_TYPES                                                 *)
Suppressing == {r \in Report : Kind[r] \in {"bounced", "complained", "unsubscribed"}}

(* Two reports have one event id if neither has an id of its own and they  *)
(* tell the same kind of event of the same message.                        *)
SameEventId(r, s) ==
  \/ r = s
  \/ {r, s} \cap HasId = {} /\ Kind[r] = Kind[s] /\ About[r] = About[s]

(* The domain a report's suppression is for: an event names no To address  *)
(* that would tell it, so it is the only domain its provider receives mail *)
(* for, and the message's own domain if there is no such one.              *)
SuppressionDomain(r) ==
  LET d == InboundDomain[About[r]] IN
    IF d = NoDomain THEN DomainOf[About[r]] ELSE d

(* The states of a SuppressedAddress row: none, one with an end, one whose *)
(* end has passed, one without.                                            *)
SuppressionState == {"no", "timed", "expired", "forever"}

(* The EmailRecipient rows.                                                *)
Recipients == {ma \in Message \X Address : ma[2] \in To[ma[1]]}

TypeOK ==
  /\ stage \in [Message -> {"new", "cleared", "accepted", "stored", "refused"}]
  /\ status \in [Message -> MessageStatus]
  /\ rcptStatus \in [Recipients -> MessageStatus]
  /\ row \in [Report -> {"none", "received", "processing", "processed", "ignored"}]
  /\ event \subseteq Report
  /\ listed \in [Domain \X Address -> SuppressionState]
  /\ pc \in [Worker -> {"idle", "record", "message", "recipient", "suppress", "save"}]
  /\ hand \in [Worker -> Report \cup {NoReport}]
  /\ seen \in [Worker -> MessageStatus]
  /\ met \subseteq Message
  /\ lost \subseteq Report
  /\ waived \subseteq Report
  /\ crashes \in Nat

Init ==
  /\ stage = [m \in Message |-> "new"]
  /\ status = [m \in Message |-> "queued"]
  /\ rcptStatus = [ma \in Recipients |-> "queued"]
  /\ row = [r \in Report |-> "none"]
  /\ event = {}
  /\ listed = [da \in Domain \X Address |-> "no"]
  /\ pc = [w \in Worker |-> "idle"]
  /\ hand = [w \in Worker |-> NoReport]
  /\ seen = [w \in Worker |-> "queued"]
  /\ met = {}
  /\ lost = {}
  /\ waived = {}
  /\ crashes = 0

-----------------------------------------------------------------------------
(* The send of a message, as far as reports and suppressions touch it.     *)

(* active() with the test for a suppression without an end left out.       *)
ActiveIfDated(d, a) == listed[<<d, a>>] = "timed"

Active(d, a) == listed[<<d, a>>] \in {"timed", "forever"}

(* suppressed_emails, for rows that hold for the whole domain.             *)
SuppressedRecipients(m) == {a \in To[m] : Active(DomainOf[m], a)}

(* recheck_suppressed_recipients finds nobody: the mail may leave ...      *)
Clear(m) ==
  /\ stage[m] = "new"
  /\ SuppressedRecipients(m) = {}
  /\ stage' = [stage EXCEPT ![m] = "cleared"]
  /\ UNCHANGED <<status, rcptStatus, row, event, listed, work, history>>

(* ... or somebody: the send fails for good.                               *)
Refuse(m) ==
  /\ stage[m] = "new"
  /\ SuppressedRecipients(m) # {}
  /\ stage' = [stage EXCEPT ![m] = "refused"]
  /\ status' = [status EXCEPT ![m] = "failed"]
  /\ UNCHANGED <<rcptStatus, row, event, listed, work, history>>

(* The provider takes the mail and may report on it from here on ...       *)
Accept(m) ==
  /\ stage[m] = "cleared"
  /\ stage' = [stage EXCEPT ![m] = "accepted"]
  /\ UNCHANGED <<status, rcptStatus, row, event, listed, work, history>>

(* ... and only then is its answer saved: status and provider_message_id.  *)
StoreMessage(m) ==
  /\ stage[m] = "accepted"
  /\ stage' = [stage EXCEPT ![m] = "stored"]
  /\ status' = [status EXCEPT ![m] = "sent"]
  /\ UNCHANGED <<rcptStatus, row, event, listed, work, history>>

-----------------------------------------------------------------------------
(* Reports and the workers that process them.                              *)

(* A report is stored unless one with its event id has been; the provider  *)
(* repeats itself in any order, which changes nothing.                     *)
Post(r) ==
  /\ stage[About[r]] \in {"accepted", "stored"}
  /\ \A s \in Report : SameEventId(r, s) => row[s] = "none"
  /\ row' = [row EXCEPT ![r] = "received"]
  /\ UNCHANGED <<sending, event, listed, work, history>>

WorkersOn(m) == {w \in Worker : hand[w] # NoReport /\ About[hand[w]] = m}

(* create_delivery_event looks for the message by its provider id ...      *)
FindMessage(w, r) ==
  LET m == About[r] IN
    /\ pc[w] = "idle"
    /\ row[r] = "received"
    /\ stage[m] = "stored"
    /\ row' = [row EXCEPT ![r] = "processing"]
    /\ pc' = [pc EXCEPT ![w] = "record"]
    /\ hand' = [hand EXCEPT ![w] = r]
    /\ seen' = [seen EXCEPT ![w] = status[m]]
    /\ met' = IF WorkersOn(m) = {} THEN met ELSE met \cup {m}
    /\ UNCHANGED <<sending, event, listed, lost, waived, crashes>>

(* ... and a report that comes before the id is saved is ignored for good. *)
FindNothing(w, r) ==
  /\ pc[w] = "idle"
  /\ row[r] = "received"
  /\ stage[About[r]] # "stored"
  /\ row' = [row EXCEPT ![r] = "ignored"]
  /\ UNCHANGED <<sending, event, listed, work, history>>

Go(w, where) == pc' = [pc EXCEPT ![w] = where]

(* The DeliveryEvent is created; an event that exists already ends the     *)
(* processing at once, for it was left by a worker that died.              *)
RecordEvent(w) ==
  /\ pc[w] = "record"
  /\ event' = event \cup {hand[w]}
  /\ Go(w, IF hand[w] \in event THEN "save" ELSE "message")
  /\ UNCHANGED <<sending, row, listed, hand, seen, history>>

(* RaiseMessage without the comparison of ranks.                           *)
RaiseMessageUnchecked(w) ==
  /\ pc[w] = "message"
  /\ status' = [status EXCEPT ![About[hand[w]]] = StatusOf[Kind[hand[w]]]]
  /\ Go(w, "recipient")
  /\ UNCHANGED <<stage, rcptStatus, row, event, listed, hand, seen, history>>

(* The message's status rises over the one that was read.                  *)
RaiseMessage(w) ==
  LET r == hand[w] IN
    /\ pc[w] = "message"
    /\ status' = IF RankOf(r) > StatusRank[seen[w]]
                 THEN [status EXCEPT ![About[r]] = StatusOf[Kind[r]]]
                 ELSE status
    /\ Go(w, "recipient")
    /\ UNCHANGED <<stage, rcptStatus, row, event, listed, hand, seen, history>>

(* RaiseRecipient by the rank of the message status read at the start.     *)
RaiseRecipientFromSeen(w) ==
  LET r == hand[w] IN
    /\ pc[w] = "recipient"
    /\ rcptStatus' = IF RankOf(r) > StatusRank[seen[w]]
                     THEN [rcptStatus EXCEPT ![<<About[r], Rcpt[r]>>] = StatusOf[Kind[r]]]
                     ELSE rcptStatus
    /\ Go(w, IF r \in Suppressing THEN "suppress" ELSE "save")
    /\ UNCHANGED <<stage, status, row, event, listed, hand, seen, history>>

(* The recipient's status rises by one UPDATE that checks the rank itself. *)
RaiseRecipient(w) ==
  LET r == hand[w]
      ma == <<About[r], Rcpt[r]>>
  IN
    /\ pc[w] = "recipient"
    /\ rcptStatus' = IF RankOf(r) > StatusRank[rcptStatus[ma]]
                     THEN [rcptStatus EXCEPT ![ma] = StatusOf[Kind[r]]]
                     ELSE rcptStatus
    /\ Go(w, IF r \in Suppressing THEN "suppress" ELSE "save")
    /\ UNCHANGED <<stage, status, row, event, listed, hand, seen, history>>

(* get_or_create of the suppression: a row that is there, even one that    *)
(* has expired or is about to, is taken for the new one.                   *)
Suppress(w) ==
  LET r == hand[w]
      da == <<SuppressionDomain(r), Rcpt[r]>>
  IN
    /\ pc[w] = "suppress"
    /\ listed' = IF listed[da] = "no" THEN [listed EXCEPT ![da] = "forever"] ELSE listed
    /\ waived' = IF listed[da] \in {"timed", "expired"} THEN waived \cup {r} ELSE waived
    /\ Go(w, "save")
    /\ UNCHANGED <<sending, row, event, hand, seen, met, lost, crashes>>

LetGo(w) ==
  /\ pc' = [pc EXCEPT ![w] = "idle"]
  /\ hand' = [hand EXCEPT ![w] = NoReport]
  /\ seen' = [seen EXCEPT ![w] = "queued"]

SaveLog(w) ==
  /\ pc[w] = "save"
  /\ row' = [row EXCEPT ![hand[w]] = "processed"]
  /\ LetGo(w)
  /\ UNCHANGED <<sending, event, listed, history>>

(* WorkerCrash with a row that nobody hands out again.                     *)
WorkerCrashForgets(w) ==
  /\ pc[w] # "idle"
  /\ crashes < MaxCrashes
  /\ crashes' = crashes + 1
  /\ LetGo(w)
  /\ UNCHANGED <<sending, row, event, listed, met, lost, waived>>

(* The worker dies: its row is handed out again, from the start.           *)
WorkerCrash(w) ==
  /\ pc[w] # "idle"
  /\ crashes < MaxCrashes
  /\ crashes' = crashes + 1
  /\ row' = [row EXCEPT ![hand[w]] = "received"]
  /\ lost' = IF pc[w] \in {"message", "recipient", "suppress"}
             THEN lost \cup {hand[w]} ELSE lost
  /\ LetGo(w)
  /\ UNCHANGED <<sending, event, listed, met, waived>>

-----------------------------------------------------------------------------
(* The suppression list.  Staff may suppress an address for some time, and *)
(* take back any suppression; a suppression with an end expires, and some  *)
(* time later the sweep deletes it.                                        *)

Relist(da, to) ==
  /\ listed' = [listed EXCEPT ![da] = to]
  /\ UNCHANGED <<sending, row, event, work, met, lost, crashes>>

AddSuppression(da) ==
  /\ listed[da] = "no"
  /\ Relist(da, "timed")
  /\ UNCHANGED waived

Age(da) ==
  /\ listed[da] = "timed"
  /\ Relist(da, "expired")
  /\ UNCHANGED waived

ExpireSuppressedAddresses ==
  /\ \E da \in Domain \X Address : listed[da] = "expired"
  /\ listed' = [da \in Domain \X Address |->
                  IF listed[da] = "expired" THEN "no" ELSE listed[da]]
  /\ UNCHANGED <<sending, row, event, work, history>>

RemoveSuppression(da) ==
  /\ listed[da] # "no"
  /\ Relist(da, "no")
  /\ waived' = waived \cup {r \in event \cap Suppressing : <<SuppressionDomain(r), Rcpt[r]>> = da}

-----------------------------------------------------------------------------
Work(w) ==
  \/ \E r \in Report : FindMessage(w, r) \/ FindNothing(w, r)
  \/ RecordEvent(w) \/ RaiseMessage(w) \/ RaiseRecipient(w) \/ Suppress(w) \/ SaveLog(w)

Next ==
  \/ \E m \in Message : Clear(m) \/ Refuse(m) \/ Accept(m) \/ StoreMessage(m)
  \/ \E r \in Report : Post(r)
  \/ \E w \in Worker : Work(w) \/ WorkerCrash(w)
  \/ \E da \in Managed : AddSuppression(da) \/ Age(da) \/ RemoveSuppression(da)
  \/ ExpireSuppressedAddresses

(* Workers carry on with what they have and take what there is.            *)
Spec == Init /\ [][Next]_vars /\ \A w \in Worker : WF_vars(Work(w))

-----------------------------------------------------------------------------
(* The highest rank among the status at the start and these reports.       *)
Highest(start, reports) == Max({StatusRank[start]} \cup {RankOf(r) : r \in reports})

Recorded(m) == {r \in event : About[r] = m}

(* "A status can only move forward": in whatever order the reports of a    *)
(* message are processed, it ends with the highest of their statuses, but  *)
(* for messages two workers had in hand at once, for the status is read    *)
(* and written back without a lock, and for workers that died.             *)
MessageShowsHighest ==
  \A m \in Message :
    stage[m] = "stored" /\ m \notin met /\ WorkersOn(m) = {}
    /\ (\A r \in lost : About[r] # m)
      => StatusRank[status[m]] = Highest("sent", Recorded(m))

(* A recipient's status ends with the highest reported one even where the  *)
(* workers race.                                                           *)
RecipientShowsHighest ==
  \A ma \in Recipients :
    WorkersOn(ma[1]) = {} /\ (\A r \in lost : About[r] # ma[1]) =>
      StatusRank[rcptStatus[ma]] =
        Highest("queued", {r \in Recorded(ma[1]) : Rcpt[r] = ma[2]})

(* An address is not mailed once its bounce, complaint or unsubscription   *)
(* has been processed, except where the report's worker died, another      *)
(* suppression stood in for it, staff took it back, or its provider        *)
(* receives mail for another domain.                                       *)
NoMailAfterBounce ==
  [][\A m \in Message : stage[m] = "new" /\ stage'[m] = "cleared" =>
       \A r \in Suppressing :
         row[r] = "processed" /\ Rcpt[r] \in To[m]
         /\ DomainOf[About[r]] = DomainOf[m] /\ InboundDomain[About[r]] \in {NoDomain, DomainOf[m]}
           => r \in lost \cup waived]_vars

(* A stored bounce, complaint or unsubscription suppresses its address in  *)
(* the end, with the same exceptions, or is ignored because it came before *)
(* the message's id was saved.                                             *)
BounceEndsSuppressed ==
  \A r \in Suppressing :
    row[r] = "received" ~>
      \/ row[r] = "ignored"
      \/ r \in lost \cup waived
      \/ listed[SuppressionDomain(r), Rcpt[r]] = "forever"
=============================================================================
