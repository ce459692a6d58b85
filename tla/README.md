# A TLA+ model of Hedwig

Hedwig is a shared e-mail inbox: a Django REST API in front of PostgreSQL, Celery
workers behind RabbitMQ, and a mail provider (Postmark) that sends the outbound
mail and delivers inbound mail and delivery events as webhooks. This directory
holds TLA+ modules of the parts whose correctness depends on the order of steps,
TLC configurations that check them on small instances, and TLAPS proofs of the
most important invariants for every instance.

Source paths below are relative to `src/`.

## Inventory

| Part | State | Operations | What is hard | What makes it correct | Module |
|---|---|---|---|---|---|
| **Send log** (`providers/manager.py`, `providers/sending.py`) | `DailyDomainSendLog` row per domain and day | reserve, release, record failure | workers race near the cap; a call outlives the lock and even the day | the counter never passes the limit, and counts every mail | `DailySendLog` |
| **Send pipeline** (`hedwig/tasks.py`, `providers/sending.py`, `providers/postmark.py`, `hedwig/manager.py`, `hedwig/views.py`) | `EmailMessage.status`, `.scheduled_at`, `OutboundSendAttempt.status`, broker queue | compose, draft, edit, send draft, cancel, delete, sweep, send task | at-least-once tasks, retries, crashes, lost answers, unlocked reads | a mail leaves once, cancels hold, every attempt settles, rows agree | `OutboundSend` |
| **Webhook log** (`providers/tasks.py`, `providers/views.py`) | `ProviderWebhookLog.status`, `attempt_count`, `payload` | receive, claim, process, retry, stale sweep, reprocess, redact | redelivery, stale claims, manual reprocessing of a log in work | each webhook takes effect once and none is forgotten | `WebhookLog` |
| **Delivery events** (`providers/ingest.py:355-464`) | `EmailMessage.status`, recipient status, `DeliveryEvent`, `SuppressedAddress` | one event applied at a time, in any order | out-of-order, collapsing and early events; unlocked read-modify-write; crash between two queries | status ends with its highest report; a bounced address is not mailed again | `DeliveryEvents` |
| **Inbound ingest** (`providers/ingest.py:71-352`) | mailbox `used_bytes`, messages | resolve mailbox, dedup, quota, store | duplicate deliveries, unlocked lookup, quota races, stale reconciliation | one message per Message-ID and mailbox; quota holds | `InboundMail`, `MailRouting`, `MailboxStore` |
| **Threads** (`providers/ingest.py:129-207`, `hedwig/manager.py`) | `EmailThread` | lookup by headers or subject, update on every message; drafts open their own | the outbound path holds no lock; several threads of one subject | replies join what they continue; ingest splits no subject and loses no participant | `MailThreads`, `InboundMail` |
| **Mailbox rules** (`hedwig/rules.py`) | folder, labels, forward depth | match, act, forward | forwarding loops through the provider | forwarding ends; actions apply in order | `MailRouting`, `InboundMail` |
| **Drafts and attachments** (`hedwig/manager.py:281-610`, `hedwig/signals.py`, `utils/s3.py`) | draft rows, staged bytes, S3 objects | create, edit, promote, materialise, copy, delete, clean up | S3 takes no part in transactions; forwarded copies share an object | no row loses its object; no object is left behind | `AttachmentFiles` |
| **User state** (`hedwig/manager.py:636-664`, `hedwig/views.py:411-626`) | `EmailMessageUserState` | state, bulk state, restore, edit | several endpoints, loaded copies | no change is undone by another field's | `SharedMailbox` |
| **Sweeps** (`hedwig/tasks.py:122-172`) | objects, `used_bytes`, access and suppression expiry | periodic | sums read before they are written | no live row loses by a sweep | in the module of the state swept |
| **Domains and DNS** (`providers/postmark.py:377-481`, `providers/tasks.py`) | `Domain.status`, DNS records | register, check, sweep, edit | overlapping checks and edits, each saving what it read | rows and status agree; right DNS is verified in the end | `DomainDns` |
| **Access** (`hedwig/manager.py:22-90`, `utils/permissions.py`) | grants with expiry | give, change, revoke, expire | expiry before the sweep | no write without a live grant | `SharedMailbox` |
| **Accounts** (`accounts/`) | users | register, create, remove | the first registration makes an administrator | one bootstrap administrator | `SharedMailbox` |
| Adapters, health checks, filters, serializers' presentation, exception formatting, deployment | none of their own | | | | not modelled |

The parts meet in the database and in the broker. A request of the API commits
rows and hands a task to the broker in an `on_commit` hook; a beat process
hands out periodic tasks; workers run tasks, each autocommitted save a
transaction of its own, and call the provider without holding any lock. The
provider calls the webhook endpoint, which stores a log row and hands out a
task.

How the modules compose: `OutboundSend` extends `DailySendLog` and implements it.
`WebhookLog` says how often, and by whom, a stored webhook is processed;
`DeliveryEvents` and `InboundMail` describe the processing itself and take over
from it that a row reaches one worker at a time unless a worker dies or outlives
its lock. `InboundMail` extends `MailRouting` and `MailThreads`, closes the loop from a
forwarded or composed mail back to the webhook, and implements `MailboxStore`.
`AttachmentFiles` takes over from `OutboundSend` that an attempt is reserved once.

## Plan

Done, in this order: the send log; the send pipeline as its implementation; the
webhook log; delivery events; inbound mail with its abstract store; attachments;
domains; accounts, grants and user state; then a proof module for each of these,
so that every safety property the runs check is a theorem too; then threads as
the headers, named threads and drafts make them. What could follow:
suppressions of one mailbox, labels by hand, and edits of an account beside its
registration.

## DailySendLog

One `DailyDomainSendLog` row per domain and day, and for every worker the row
its current call holds a slot in (`slot`) and whether the provider has taken its
mail (`delivered`). `ReserveSendSlot` is the locked check and increment,
`RefuseSendSlot` its `False` branch together with the `record_send_failure` that
follows it, `ReleaseSendSlot` the locked decrement of *today's* row.
`TransientFailure`, `PermanentFailure`, `ConfirmSend` and `AbandonSlot` are the
four ways out of `send_with_provider`: its two handlers, the normal return, and
any other exception or the death of the worker. `Midnight` may happen at any time.
The history variables `mailed`, `lost` (accepted mail whose answer never
arrived), `leaked` (slots counted for nothing) and `strayed` (slots taken from a
row by another day's release) name every way in which the counter may be wrong;
the invariants say there is no other.

Run `send_log` checks the invariants with two workers, a domain with a limit
of 1 and a domain capped only by its provider's limit of 2, two days, and calls
bounded by `MaxMail` and `MaxFailures`: a limit must be reached by a race of two
workers, and one midnight is enough for a slot to stray, which happens in both
domains. What is lost: after a call across midnight the day's mail may exceed the
limit by one (`MailWithinLimit` allows one for each stray release and lost answer).

## OutboundSend

| Variable | Code |
|---|---|
| `status`, `attempt`, `schedule` | `EmailMessage.status`, the status of its one `OutboundSendAttempt`, `scheduled_at` compared with the clock |
| `publishing` | requests between their commit and their `on_commit` hook |
| `broker` | copies of `send_email_message_task` not yet delivered, by retry count |
| `pc`, `task`, `verdict` | where a worker is in the task, which task, and the error it is failing with |
| `editing`, `cancelling` | requests between their unlocked read and their write |
| `promoting` | send-draft requests between theirs, with the `scheduled_at` they have read |
| `cancelled`, `posted`, `crashes` | history |

Every save, every locked block and the provider call is a step of its own. A
save of a deleted row raises (`RowGone`). The worker's path is `ReserveAttempt`,
`CheckRefuses`/`LimitRefuses`/`TakeSlot`, `StorageFails`/`ProviderUnusable`/
`StartCall`, `Accept` and the answer, the two saves, then release, retry or
`MarkAttemptFailed`. `WorkerCrash` puts the unacknowledged task back, as
`acks_late` and `reject_on_worker_lost` make the broker do.

`SendDraftRead` and `SendDraft` are the two halves of `send_draft`: the draft is read
without a lock, promoted to whatever its row then is, and enqueued or left to the
sweep by the `scheduled_at` that was read. What was in the future when it was read
may be past by then: `FallDue` ages both values while they are one, and once an edit
has replaced the row's (`"edited"`) either is possible.

Simplifications: the rechecks of `send_enabled` and suppression are one
nondeterministic refusal; the undo window (`countdown`) is an arbitrary delay;
`CancelRead` joins the view's read of the status with the manager's read of the
attempt, and each message has at most one cancel and one send-draft under way; recipients,
contacts and threads written with a message are left out; limits do not change
while the system runs.

| Run | Question | Bounds and why they are enough |
|---|---|---|
| `send_faults` | Do cancels in time hold, is nothing reported as sent that was not, and does the pipeline implement the log? | one message, two workers, all faults, one crash, two days, limit 1; messages share nothing but the log, whose sharing `send_log` covers |
| `send_order` | Is a message mailed at most once? Do message and attempt rows agree at rest, and does every attempt have a handler? | two messages, one retry and one crash at any point, copies of a task from retry and redelivery; no lost answer, no storage outage, no scheduled sends: with those the answer is no (below). No daily limit, so that none hides a second mail |
| `send_liveness` | Does every attempt settle? | two fair workers, one retry, no crash |
| `storage_outage` | ... and when S3 is down? | the smallest instance in which storing an attachment fails once: it ends in a counterexample |

Fairness: an `on_commit` hook runs when its request's process is up, the clock
goes on, the beat process sweeps every minute, and a worker that is up takes
tasks and goes on with the one it has (`WF` of each). No fairness is assumed of
users, of the provider's answer (a call may fail, be rejected or be answered;
one of them happens, for the request has a timeout) or of faults.

## WebhookLog

| Variable | Code |
|---|---|
| `status`, `attempts`, `payload` | the columns of `ProviderWebhookLog`; a payload is there or redacted |
| `lock`, `old` | `locked_at` and `received_at`, compared with `WEBHOOK_LOG_RETRY_STALE_MINUTES` |
| `publishing`, `ignoring` | requests that have stored a row and not yet enqueued or ignored it: two commits |
| `broker` | copies of `process_webhook_log_task` not yet delivered, by retry count |
| `pc`, `task`, `outcome` | where a worker is in the task, which task, what it is about to save |
| `applied`, `undone`, `requeued`, `takeovers`, `done`, `late`, `posts`, `crashes` | history |

`Claim` is the conditional UPDATE, one step; between it and `Save` a worker holds
no lock, and both `Save` and `Fail` write the row whatever it has become. `Apply`
is the transaction in which a webhook takes effect, `Drop` every way it has none
(no domain, mailbox or message, a full mailbox, an unknown event, a redacted
payload). `Fail` is any exception, before the effect or after it. A failed row
keeps its `locked_at`, an orphaned one too. Time passes in `GrowOld` and
`LockAges`, whoever is still at work on the row; the history variable `late`
remembers the rows a request or a worker has outlived the threshold for.

| Run | Question | Bounds and why they are enough |
|---|---|---|
| `webhook_faults` | How often does a webhook take effect? Does one worker at a time have a row, is a settled row final, is the payload there until then? | one webhook posted twice, two workers, a retry, a worker crash, a reprocess request; the sweep hands out a row that was never attempted. Rows share nothing, and the theorems lift the bounds |
| `webhook_liveness` | Does every stored webhook settle? | two webhooks, one of them unknown, one worker, a web and a worker crash, two attempts; no retries, so that the sweep must do; a second row shows that none starves |

Fairness: requests, workers, the clock and the beat process go on, as for the
send pipeline; exceptions and crashes are never forced. Every row then settles
or has had `WEBHOOK_LOG_MAX_ATTEMPTS` attempts, after which the sweep leaves it
as it is, by intention.

`EffectsAccounted` is what the code promises of the effect, no more: a task that
dies between the effect and its save does it again. That is harmless only
because the effects are themselves guarded by event ids (`DeliveryEvents`) and
Message-IDs (`InboundMail`, `StoreSpec`). A reprocess request for a redacted row
ends ignored, not processed: `RetryableHasPayload` leaves such rows out.

## DeliveryEvents

| Variable | Code |
|---|---|
| `stage` | how far `send_with_provider` is with a message: rechecked, accepted by the provider, saved |
| `status`, `rcptStatus` | `EmailMessage.status`, `EmailRecipient.status` |
| `row`, `event` | the status of a report's webhook log row, and whether its `DeliveryEvent` exists |
| `listed` | `SuppressedAddress` rows: none, with an end, past their end, without one |
| `pc`, `hand`, `seen` | where a worker is in `create_delivery_event`, its report, and the status it has read |
| `met`, `lost`, `waived`, `crashes` | history |

`create_delivery_event` takes no lock and runs in no transaction, so each of its
queries is a step: `FindMessage` (or `FindNothing`), `RecordEvent`,
`RaiseMessage`, `RaiseRecipient`, `Suppress`, `SaveLog`. A crash in between puts the
row back, and `RecordEvent` then finds the event and skips the rest, as the code
does. `SameEventId` makes two reports collapse where `provider_event_id_for` gives
them one id; `SuppressionDomain` is the domain the webhook view resolves when the
payload names no recipient domain. `lost` holds the reports whose worker died
after `RecordEvent`, `waived` those for which an expiring row stood in or whose
suppression staff took back, `met` the messages two workers had in hand at once:
the three ways in which the code loses a status or a suppression. The properties
say there is no other.

Run `delivery`: two messages from one domain, the second with another inbound
domain, a shared address, four reports (two deliveries that collapse, a bounce
with an id, an unsubscription), two workers, a crash, and one suppression staff
adds, lets expire and removes. Two reports of one message are needed for a race,
two messages for a bounce of one to stop the other. Fairness (`BounceEndsSuppressed`):
a worker goes on with its report and takes stored ones. `TypeOK` is a theorem and
is left out of the run.

## InboundMail, MailThreads, MailRouting, MailboxStore

`MailRouting` holds two pure decisions, `Resolve` (`resolve_mailbox`) and
`EvaluateRules` (`evaluate_rules`), and what they promise in words other than their
own: `ResolvesAsPromised` and `RulesAsPromised`. The run evaluates them over every
list of up to three of four addresses with every set of open mailboxes, and over
every pair of rules of 32 kinds beside an inactive one; `ResolutionHolds` and
`RulesHold` of `InboundMail` say besides that workers and forwards keep to them.
A `Rule` has a priority of its own, which stands for `order_by("priority", "name")`
with `unique_rule_name_per_mailbox`. What text a condition looks for is abstracted
to the set of facts a mail meets.

| Variable of `InboundMail` | Code |
|---|---|
| `open` | mailboxes that are active and receive |
| `queue`, `failed`, `ignored` | webhook log rows by what becomes of them; a mail Hedwig sends to one of its own mailboxes comes back as one |
| `held`, `sent` | `EmailMessage` rows, inbound and outbound |
| `used` | `Mailbox.used_bytes` |
| `threads` | the `EmailThread` rows of each mailbox: normalised subject, `root_message_id`, messages (`joined`), the messages whose addresses are among the participants (`known`) |
| `pc`, `hand`, `target`, `reading` | where a worker is in `create_inbound_message`, the mail, its mailbox, the thread it has read |
| `composing`, `draft` | a request in `create_outbound_message` and the thread it has read; a draft before it is sent |
| `totals`, `toFix` | the reconciliation between its read and its writes |
| `drifted`, `disturbances` | history |

The lookup before the transaction (`Find`) is one step, the transaction two:
`Enter` takes the mailbox row with `select_for_update`, checks quota and constraints
and reads the thread; `Commit` writes message, counter, thread, the rules' result and
the forwarded copies. Foreign keys are deferred constraints in PostgreSQL, so the
commit of a composed message waits for the holder of the mailbox row although it
takes no lock itself, and the two may deadlock: `ComposeFails` and `WorkerFails` are
the database's choice of a victim. An outbound message counts its attachments only
and is not added to `used_bytes`, so a mailbox that sends attachments has `drifted`
until the next reconciliation.

`MailThreads` is `update_thread_for_message` on the list of a mailbox's threads.
`Lookup` takes the references of a mail to a thread by its root, else by a message
of its own, and only then its subject to one, unless that is empty. `File` opens a
thread or writes the one that was read, participants and a missing root from what
was read of it. A composing request goes by a thread it names, by its headers or by
its subject (`ComposeFind`, `ComposeCommit`); a draft opens a thread of its own
without a root, or goes into a named one, which learns nothing of it (`CreateDraft`),
and is sent without another look at the thread (`PromoteDraft`). What a rule forwards
refers to nothing (`FileCopies`).

Of the threads, which of several matches is found (the code takes the one with the
latest `last_message_at`, or any) is left open; `message_count`, `has_unread` and dates
are left out; later edits of a draft, here as in the code, do not reach its thread.
Every mail has a Message-ID, the world answers a composed mail once it has left, and
a user here who replies to a draft that was sent names its thread.

`MailboxStore` is the abstract specification: a mail arrives in one step together
with its forwarded copies and never where it is already. `StoreSpec` instantiates
it with `held` and `sent` as they are, which makes the unlocked lookup, the retries,
both unique constraints and the crashes implementation detail.

Run `inbound`: two mailboxes with an alias each, A forwarding to B's alias by
`forward_to` and B to A's by a rule; a letter from outside with an undeclared
attachment, a note from A to B, a draft of the same subject in B with a copy to
itself, and a reply to it that has lost its subject; two workers; B may be closed and
opened; one disturbance (deletion, closing, a crashed or outlived worker,
a reconciliation) at any moment. The ring makes three hops, which is where the depth
stops it. The letter's copies and the note reach B in any order with the draft, whose
thread has no root and a subject that others have, so that the reply's headers and
the subject pull in different directions; the note is composed while mail of its
subject arrives. Two disturbances beside four mails are out of reach; the theorems
lift the bound. Symmetry in the workers only.

`IngestOpensNoSecondThread` and `IngestKeepsParticipants` say what the mailbox lock
gives the workers whatever requests do beside them; `RepliesJoin` that the headers go
before the subject.

Seen here, and kept by the model: an alias delivers to a mailbox that is closed
(`ResolutionHolds` states it); a mail to oneself violates
`unique_rfc_message_per_mailbox` when it comes back, because the lookup only
considers inbound messages, and its row fails for good. That a subject may have
several threads, and a thread may miss participants, is under "What the code does not
keep".

## AttachmentFiles

| Variable | Code |
|---|---|
| `row`, `file` | `EmailAttachment` and the message it belongs to; `EmailAttachment.file` |
| `blank` | drafts whose `rfc_message_id` is still empty |
| `stored`, `named` | objects in S3, and every name ever used (`_generate_file_key` takes a new one) |
| `hand`, `deleting` | a worker's upload, a request's loaded row |
| `cleanup`, `checked` | cleanup tasks before and after their query |
| `lost`, `faults` | history |

S3 takes no part in transactions: `Upload` takes effect at once, the row is saved by
a later step (`CommitReceived`, `SaveFile`) or never (`Abort`). A deletion loads the
row, commits, and queues the cleanup of the file it had loaded. The cleanup checks
for rows and deletes the object, in two steps.

Run `attachments`: a received attachment with the copy it is forwarded as, two
drafts of one mailbox, three object names (as many as there may be uploads) and one
fault. Fairness: Celery works off cleanup tasks. `OrphansCollected` names the
objects nobody ever collects (`lost`).

`create_draft_message` stores `rfc_message_id=""` (`hedwig/manager.py:355`), and the
unique constraint exempts only NULL (`hedwig/models.py:590`), so a mailbox's second
never-sent draft is refused: `RefuseDraft`.

## DomainDns

| Variable | Code |
|---|---|
| `domain`, `records` | the `Domain` row (status, provider id, stored answer) and its `DomainDnsRecord` rows |
| `task` | checks: where each is in `check_domain_dns_task`, its retries, Postmark's answer, the rows still to write |
| `edit` | the whole row an editing request has loaded |
| `registered`, `value`, `zone`, `seen` | outside: Postmark's account of the domain and the DNS itself |
| `agreed`, `faults` | history |

A check holds no lock and no transaction: `Start`, `Register` or `Recheck` and
`RecheckReturnPath`, one `WriteRecord` for each record, `PruneRecords`, `SaveDomain`.
`Fail` is any exception (the domain is marked failed, whatever it was, and the task
retried), `Crash` the death of the worker. Run `domains`: two checks at once, one
fault or edit, one retry, and a DKIM key that is renewed once. `RightDnsIsVerified`
needs the beat sweep, workers that go on and requests that end (`Fairness`). It has
the sweep check a suspended domain as well, which puts its suspension to an end:
`check_pending_domains_dns_task` excludes verified domains only. `TypeOK` holds on
this instance and is left out of the run.

## SharedMailbox

| Variable | Code |
|---|---|
| `account`, `passed`, `open` | users, registrations between the view's check and the lock, `REGISTRATION_OPEN` |
| `grants` | active `UserMailboxAccess` rows |
| `send` | the send attempt of the message, which trashing it cancels |
| `rows`, `request` | `EmailMessageUserState` rows, and requests between their queries |
| `bootstrapped`, `registered`, `wanted`, `overwritten`, `left` | history |

`wanted` is built from the changes as they are saved, field by field;
`ChangesAreKept` compares the row with it. Only an edit of the whole row
(`EmailMessageUserStateViewSet`) that was loaded before another change saves the
other field back, and `overwritten` names those rows. Run `accounts`: two people, two
requests, one grant, one removal of an account, changes that mark the message read
or trash it; symmetry in people and requests. `TypeOK` holds on this instance and
is left out of the run.

## What the code does not keep

Run `storage_outage` ends in a counterexample: `materialize_attachments` raises with
the attempt `SENDING`, the retry skips it, and it stays so (`PROJECT.json` quotes the
lines it contradicts). The others are in the model, left out of the properties by
name or contradicted by no property, and have no run of their own:

- **Midnight.** `release_send_slot` decrements today's row, not the one the slot came
  from (`providers/manager.py:114`): the new day may mail one more than its limit.
- **Late cancel.** `cancel_scheduled_send` reads the attempt unlocked
  (`hedwig/manager.py:560`): a cancel may report success for a mail a worker has
  just taken. `CancelInTimeHolds` is about the others.
- **Cancelled draft.** A cancelled send keeps attempt number 1, so sending the draft
  again violates `unique_send_attempt_number` (`hedwig/manager.py:536`).
- **Second mail.** `reserve_attempt_for_sending` lets a `FAILED` attempt through
  (`hedwig/tasks.py:60`): a retry mails again what was accepted with its answer lost,
  and so does a second copy of the task, queued by the sweep or by a second worker
  crash, once another worker's last handler has marked the attempt as failed.
- **Late edit.** An edit that read the draft before it was queued clears
  `scheduled_at` afterwards, or clears it after send-draft has read a future one
  (`hedwig/views.py:99`, `349`), and the sweep never finds the attempt
  (`NoAttemptStranded` with `"edit"` among the `Events`).
- **Late failure.** A worker that has outlived its lock on a webhook row saves
  `FAILED` over another's result (`providers/tasks.py:83`; `late`).
- **Attempt rows.** A retry calls the provider on the attempt row of the first call,
  where `hedwig/models.py:727` asks for a new row for every call.
- **Lost statuses and suppressions.** `met`, `lost` and `waived` of `DeliveryEvents`.
- **Stale reconciliation, uncounted attachments.** `drifted` of `InboundMail`.
- **Split subjects.** The docstring of `update_thread_for_message` calls
  `create_inbound_message` its sole caller and concludes that two messages of a new
  conversation cannot each create a thread (`providers/ingest.py:132`), but
  `hedwig/manager.py:249` calls it without the lock: a composed mail and a letter of
  one subject, both before the other's commit, open two threads. Drafts open more.
- **Lost participants.** Such a request also writes the participants it has read over
  those of a letter that came meanwhile, where `hedwig/models.py:411` has their union.
  A draft in a thread its request names never adds its addresses, not even when it is
  sent (`FileDraftAt`).
- **Second draft.** A mailbox refuses a draft while it has one that was never sent
  (`RefuseDraft`), where `hedwig/manager.py:301` and `hedwig/views.py:447` speak of many.
- **Orphans.** `lost` of `AttachmentFiles`.
- **Suspension.** A check or the sweep overwrites an administrator's suspension.
- **Stale edit.** `overwritten` of `SharedMailbox`; `UserSerializer.update` saves whole
  rows the same way (`accounts/serializers.py:67`) and is not modelled.
- **Expired grant.** A grant that has expired and not been swept refuses a new one for
  the same target (`GiveAccess`).

## Not modelled

Provider adapters and registry, provider health and catch-all checks (reports
nobody reads), filters, presentation, error formatting, headers, deployment: they
keep no state whose order of changes matters. Within the modelled parts: contacts,
labels by hand, sender identities, passwords and profile edits, suppressions of a
single mailbox, the deletion of old send log rows, `verified_at` and
`last_seen_at`. Message text, addresses and sizes are abstracted to what decisions
depend on.

## Proofs

`DailySendLogProofs`: for any finite set of workers, any domains, days and
limits (`LogAssumption`). The inductive invariant `LogInv` adds to the checked
invariants that a mail is only under way on a slot (`DeliveredHoldsSlot`). Each
step moves at most one worker among the holders of one row (`HoldersGain`,
`HoldersLose`, from the library's facts on cardinality), and the two accounts
(`EveryMailCounted`, `NoSlotLeaksOtherwise`) are preserved because every step
changes both sides alike. `MailNeverPassesLimit` combines the first account with
`CountNeverPassesLimit`: neither suffices alone, for a limit on the counter says
nothing of the mail until the counter is known to count it.

`OutboundSendProofs`: for any messages, workers, retries and copies
(`SendAssumption`); five theorems with any crashes and any `Events`, three with
hypotheses on them. `SendStepIsLogStep` maps each step of the pipeline to
a step of the log or a stutter, so that `SendImplementsLog` carries the log's
theorems over. `CancelInTimeIsFinal` needs `CancelInv`: a pending attempt, or a
message without one, has never been in a worker's hands. `SentOnlyIfPosted` needs
`SentInv`: where in the task a worker may hold a slot, and that an accepted mail
stands behind a worker that is about to save it as sent.

`NoAttemptIsStranded` excludes `web_crash`, `storage_fails` and `edit`. Its
`StrandInv` says which worker will settle an attempt in flight: one that is before
the save that ends the reservation, or has its last handler still to come; and that
without edits a send-draft request knows the schedule of its row (`PromotionFresh`).

`MailLeavesOnce` and `RowsAgree` rest on a count, `Load`: the requests, the copies
in the broker and the workers that may still do something with a message. Without
scheduled sends it is at most one more than the crashes (`LoadInv`), because a
request becomes a copy, a copy a worker and a worker its retry; a crash puts a copy
back for its worker, and adds one only where the worker had already published its
retry. With no crash, then, one worker at most has a message in hand, which gives
`RowsInv`: what the two rows are at each place in the task, one of them ahead of
the other by the save that comes next. With one crash there may be two. `PostInv`
shows that one of them at most is between a reservation and the save that ends it,
and that after the mail has left too little load remains for a second reservation:
none if the attempt can be reserved, one if it cannot.

The hypotheses are those the code needs. Without them TLC finds a second mail with
two crashes (26 states), with a scheduled send and one crash (19) and with a lost
answer (14), and rows that disagree with a scheduled send (17) or a storage outage;
"Late edit", "Second mail" and `storage_outage` above are the same facts.

`WebhookLogProofs`: for any webhooks, workers, retries, attempts and posts
(`WebhookAssumption`). `EveryEffectAccounted` allows every event. Its invariant
`Accounted` counts, beside the effects a row has had, the workers that may still
apply it (`Unspent`) and whether it may be claimed without a takeover (`Avail`);
each step of a worker moves one unit from one of these to another or to the
right-hand side (`OwnRow`, by `UnspentStep`). The other three theorems are about the rows that nobody has outlived
the threshold for (`late`) and staff has not reprocessed. They rest on
`RowsInOrder`: a row in a worker's hands is that worker's alone, `processing` and
freshly locked, and a row whose request is about to ignore it has never been
handed out, which holds because it is too young for the sweep.

`AttachmentFilesProofs`: for any attachments, copies, objects and faults
(`FilesAssumption`). `RowsHaveObjects` is not inductive, for a cleanup that has
found no row deletes the object later. `FilesInv` adds what makes that safe: an
object that was checked has no row (`KeptIsNotChecked`) and gets none, because a
row takes its file only from a worker's hand, and what a worker has in hand
nobody else knows of (`InHandOnly`); names are never used again (`KnownIsNamed`),
and a row that comes back comes without its file (`BareUnlessThere`).

`SharedMailboxProofs`: for any people, requests, changes and bounds.
`OneFirstAdmin` rests on `RegistrationInv`: whoever became staff by registering
has an account, so that nobody else finds none under the lock. `NoChangeUndone`
rests on `RowsInv`: what was asked for and what there is are rows together, and a
row that a request has loaded is there until a deletion tells the request so;
each save then changes both sides alike (`SavedAsAsked`).

`DeliveryEventsProofs`: for any messages, addresses, reports, workers, crashes and
suppressions. A status shows the highest report only once the workers are through
with it, so `DeliveryInv` states it of the reports that are recorded and no longer
in the hand of a worker that has yet to write them (`Unapplied`), separately for the
message (`MessageFollows`) and the recipient (`RecipientFollows`): the message's
needs that its one worker still has the right view of the status (`OneHand`), which
is where `met` comes in, while the recipient's does not, for its UPDATE checks the
rank itself. `SuppressionFollows` does the same for suppressions; from it
`BouncedAddressSpared` follows for the step that clears a mail.

`DomainDnsProofs`: for any number of checks, retries, records and faults.
`LoneCheckAgrees` needs that a check that is alone has been alone since it started
(`AloneIsAlone`), how far its rows are (`AloneProgress`), and that neither the rows
nor an answer have two values for one row (`RowsDistinct`), without which writing
the answer row by row would not make the rows equal to it.

`InboundMailProofs`: for any mailboxes, addresses, rules, mails, workers and
disturbances (`RoutingAssumption`, `InboundAssumption`). Three parts:

- The decisions. `ResolutionCorrect` and `RulesCorrect` are `ResolvesAsPromised` and
  `RulesAsPromised` for every list of recipients and every finite set of rules; the
  run can only evaluate small ones. The evaluation of the rules is a fold over a
  finite set, and so is a sum of sizes: what is said of either needs an induction
  over finite sets. The library's theorem for it takes an operator, so
  `SetOfSubsets` states it of the set of those subsets for which a fact holds, and
  proves it from the least of the others, which the library's `WFMin` provides.
- The inductive invariant `InboundInv`. `OneInside` (the row lock: one worker in a
  mailbox's transaction), `Admitted` (what that worker has checked is still so) and
  `UsedCounted` (`used_bytes` is the sum over the messages, which a commit and
  a deletion change by the size of one mail) give `UsedBytesExact` and
  `NeverOverQuota`. `FreshlyRead` says that the thread in a worker's
  hands is as it was read, and that there still is none if it found none: the row
  lock keeps every commit to the mailbox's threads away until its own. What one
  commit does to the list (`FileOpens`, `FileJoins`: it opens one row or joins one
  and leaves the others; `Grows`: no row loses a message, a participant or its
  subject) then gives `SubjectsNotSplitByIngest`, `ParticipantsKeptByIngest` and
  `RepliesJoinTheirThread`, for any headers, drafts and requests.
  `TargetsAddressed` and `ForwardedAsRuled` are inductive
  beside them, given the two decisions.
- `InboundImplementsStore`: `Commit` maps to an arrival in `MailboxStore` with its
  forwarded copies, `ComposeCommit` to a write, deletions to a removal, every other
  step to a stutter. That a mail arrives only where it is not yet rests on
  `Admitted` and `OneInside`: the unlocked lookup alone would not give it.

Only model-checked: what is liveness (`EveryAttemptSettles`, `EveryWebhookSettles`,
`BounceEndsSuppressed`, `OrphansCollected`, `RightDnsIsVerified`), which is out of
the prover's reach. Every other property of a passing run is the subject of a
theorem; `DnsTypeCorrect`, `DeliveryTypeCorrect`, `ResolutionCorrect` and
`RulesCorrect` go beyond them.
