----------------------------- MODULE WebhookLog -----------------------------
(***************************************************************************)
(* Webhook logs: every webhook the provider posts is stored as a           *)
(* ProviderWebhookLog row, and a Celery task claims and processes the row  *)
(* (providers/views.py, providers/tasks.py, process_webhook_log).          *)
(*                                                                         *)
(* A claim is one conditional UPDATE; a row already being processed may be *)
(* claimed again once its lock is stale.  A worker holds no database lock  *)
(* while it processes, and saves what became of the row unconditionally.   *)
(* What a webhook does (inbound mail, delivery events) is its effect here, *)
(* counted and not described.                                              *)
(***************************************************************************)
EXTENDS Integers, FiniteSets

CONSTANTS
  Webhook,      \* webhooks the provider has to report
  Keyed,        \* those that carry a provider event id
  Unknown,      \* those whose event type nobody recognizes
  Worker,       \* Celery worker processes
  MaxRetries,   \* max_retries of process_webhook_log_task
  MaxAttempts,  \* WEBHOOK_LOG_MAX_ATTEMPTS
  MaxPosts,     \* bound on the posts of one webhook
  MaxCopies,    \* bound on the undelivered copies of one task
  MaxCrashes,   \* bound on the worker crashes
  MaxRequeues,  \* bound on the staff's reprocess requests for one row
  Events,       \* what may happen besides the plain course of a webhook
  NoTask        \* the task of an idle worker

(* Webhooks with an event id share one row (unique_provider_webhook_event);*)
(* without one every post makes a row of its own.                          *)
Row == Webhook \X (1 .. MaxPosts)
Task == Row \X (0 .. MaxRetries)

ASSUME WebhookAssumption ==
  /\ Keyed \subseteq Webhook
  /\ Unknown \subseteq Webhook
  /\ IsFiniteSet(Worker)
  /\ {MaxRetries, MaxCopies, MaxCrashes, MaxRequeues} \subseteq Nat
  /\ {MaxAttempts, MaxPosts} \subseteq Nat \ {0}
  /\ NoTask \notin Task
  /\ Events \subseteq {"exception", "redact", "web_crash", "orphan"}

VARIABLES
  status,      \* ProviderWebhookLog.status
  lock,        \* locked_at, against the stale threshold
  old,         \* rows received longer ago than that threshold
  attempts,    \* attempt_count
  payload,     \* rows whose payload has not been redacted
  posts,       \* posts of each webhook so far
  publishing,  \* rows whose request is about to enqueue them
  ignoring,    \* rows whose request is about to mark them ignored
  broker,      \* undelivered copies of each task (row, retries so far)
  pc,          \* where a worker is in process_webhook_log_task
  task,        \* the task a worker has in hand
  outcome,     \* what process_webhook_log is going to save
  applied,     \* history: effects of each row
  undone,      \* history: effects whose task failed or died before its save
  requeued,    \* history: reprocess requests for each row
  takeovers,   \* history: claims of a row another worker was still processing
  done,        \* history: rows a worker has saved as settled
  late,        \* history: rows that a worker or a request outlived the threshold for
  crashes      \* history: worker crashes so far

logRows == <<status, lock, old, attempts, payload>>
web == <<posts, publishing, ignoring>>
work == <<pc, task, outcome>>
ghosts == <<applied, undone, requeued, takeovers, done, late, crashes>>
vars == <<logRows, web, broker, work, ghosts>>

Retryable == {"pending", "processing", "failed"}
Settled == {"processed", "ignored"}

TypeOK ==
  /\ status \in [Row -> Retryable \cup Settled \cup {"absent"}]
  /\ lock \in [Row -> {"none", "fresh", "stale"}]
  /\ old \subseteq Row
  /\ attempts \in [Row -> Nat]
  /\ payload \subseteq Row
  /\ posts \in [Webhook -> 0 .. MaxPosts]
  /\ publishing \subseteq Row
  /\ ignoring \subseteq Row
  /\ broker \in [Task -> Nat]
  /\ pc \in [Worker -> {"idle", "claimed", "saving", "retrying", "acking"}]
  /\ task \in [Worker -> Task \cup {NoTask}]
  /\ outcome \in [Worker -> Settled]
  /\ applied \in [Row -> Nat]
  /\ undone \in [Row -> Nat]
  /\ requeued \in [Row -> Nat]
  /\ takeovers \in [Row -> Nat]
  /\ done \subseteq Row
  /\ late \subseteq Row
  /\ crashes \in Nat

Init ==
  /\ status = [r \in Row |-> "absent"]
  /\ lock = [r \in Row |-> "none"]
  /\ old = {}
  /\ attempts = [r \in Row |-> 0]
  /\ payload = {}
  /\ posts = [h \in Webhook |-> 0]
  /\ publishing = {}
  /\ ignoring = {}
  /\ broker = [t \in Task |-> 0]
  /\ pc = [w \in Worker |-> "idle"]
  /\ task = [w \in Worker |-> NoTask]
  /\ outcome = [w \in Worker |-> "ignored"]
  /\ applied = [r \in Row |-> 0]
  /\ undone = [r \in Row |-> 0]
  /\ requeued = [r \in Row |-> 0]
  /\ takeovers = [r \in Row |-> 0]
  /\ done = {}
  /\ late = {}
  /\ crashes = 0

Increment(f, r) == [f EXCEPT ![r] = @ + 1]

RowOf(w) == task[w][1]

(* Workers between the claim of a row and what they save of it.            *)
Processing(r) ==
  {w \in Worker : pc[w] \in {"claimed", "saving"} /\ RowOf(w) = r}

-----------------------------------------------------------------------------
(* ProviderWebhookViewSet.create: the provider posts a webhook, again when *)
(* it got no answer.  A known event id is answered as a duplicate, and     *)
(* nothing is enqueued for it.                                             *)
Post(h) ==
  LET n == IF h \in Keyed THEN 1 ELSE posts[h] + 1
      r == <<h, n>>
  IN
    /\ posts[h] < MaxPosts
    /\ posts' = Increment(posts, h)
    /\ IF status[r] # "absent"
       THEN UNCHANGED <<status, payload, publishing, ignoring>>
       ELSE /\ status' = [status EXCEPT ![r] = "pending"]
            /\ payload' = payload \cup {r}
            /\ publishing' = IF h \in Unknown THEN publishing ELSE publishing \cup {r}
            /\ ignoring' = IF h \in Unknown THEN ignoring \cup {r} ELSE ignoring
    /\ UNCHANGED <<lock, old, attempts, broker, work, ghosts>>

(* The on_commit hook hands the task to the broker ...                     *)
Enqueue(r) ==
  /\ r \in publishing
  /\ publishing' = publishing \ {r}
  /\ broker' = Increment(broker, <<r, 0>>)
  /\ UNCHANGED <<logRows, posts, ignoring, work, ghosts>>

(* ... or the request itself settles an event nobody recognizes ...        *)
IgnoreUnknown(r) ==
  /\ r \in ignoring
  /\ ignoring' = ignoring \ {r}
  /\ status' = [status EXCEPT ![r] = "ignored"]
  /\ UNCHANGED <<lock, old, attempts, payload, posts, publishing, broker, work, ghosts>>

(* ... unless the web process dies before either.                          *)
WebCrash(r) ==
  /\ "web_crash" \in Events
  /\ r \in publishing \cup ignoring
  /\ publishing' = publishing \ {r}
  /\ ignoring' = ignoring \ {r}
  /\ UNCHANGED <<logRows, posts, broker, work, ghosts>>

(* Staff: ProviderWebhookLogViewSet.process resets a row, whatever it is.  *)
Reprocess(r) ==
  /\ status[r] # "absent"
  /\ requeued[r] < MaxRequeues
  /\ requeued' = Increment(requeued, r)
  /\ status' = [status EXCEPT ![r] = "pending"]
  /\ lock' = [lock EXCEPT ![r] = "none"]
  /\ publishing' = publishing \cup {r}
  /\ UNCHANGED <<old, attempts, payload, posts, ignoring, broker, work,
                 applied, undone, takeovers, done, late, crashes>>

-----------------------------------------------------------------------------
(* Time.  A row counts as stale a threshold after it was received, and its *)
(* lock a threshold after its claim, whoever is still at work on it.       *)
OutlivedBy(r, busy) == late' = IF busy THEN late \cup {r} ELSE late

GrowOld(r) ==
  /\ status[r] # "absent"
  /\ r \notin old
  /\ old' = old \cup {r}
  /\ OutlivedBy(r, r \in publishing \cup ignoring)
  /\ UNCHANGED <<status, lock, attempts, payload, web, broker, work,
                 applied, undone, requeued, takeovers, done, crashes>>

LockAges(r) ==
  /\ lock[r] = "fresh"
  /\ lock' = [lock EXCEPT ![r] = "stale"]
  /\ OutlivedBy(r, Processing(r) # {})
  /\ UNCHANGED <<status, old, attempts, payload, web, broker, work,
                 applied, undone, requeued, takeovers, done, crashes>>

(* Mutant of StaleLogs: a row that was never locked is not swept.          *)
LockedStaleLogs ==
  {r \in Row : status[r] \in Retryable /\ attempts[r] < MaxAttempts /\ lock[r] = "stale"}

(* What retry_stale_webhook_logs_task selects.                             *)
StaleLogs ==
  {r \in Row :
    /\ status[r] \in Retryable
    /\ attempts[r] < MaxAttempts
    /\ (lock[r] = "none" /\ r \in old) \/ lock[r] = "stale"}

RetryStaleWebhookLogs ==
  /\ StaleLogs # {}
  /\ \A r \in StaleLogs : broker[<<r, 0>>] < MaxCopies
  /\ broker' = [t \in Task |-> IF t[1] \in StaleLogs /\ t[2] = 0
                               THEN broker[t] + 1 ELSE broker[t]]
  /\ UNCHANGED <<logRows, web, work, ghosts>>

(* Mutant of RedactOldPayload: failed rows are redacted too.               *)
RedactFailed(r) ==
  /\ "redact" \in Events
  /\ r \in payload \cap old
  /\ status[r] \in Settled \cup {"failed"}
  /\ payload' = payload \ {r}
  /\ UNCHANGED <<status, lock, old, attempts, web, broker, work, ghosts>>

(* redact_old_webhook_payloads_task: rows that are past retrying, and older*)
(* than the retention, which is far longer than the stale threshold.       *)
RedactOldPayload(r) ==
  /\ "redact" \in Events
  /\ r \in payload \cap old
  /\ status[r] \in Settled
  /\ payload' = payload \ {r}
  /\ UNCHANGED <<status, lock, old, attempts, web, broker, work, ghosts>>

-----------------------------------------------------------------------------
(* The worker: process_webhook_log_task.                                   *)

Goto(w, l) == pc' = [pc EXCEPT ![w] = l]

(* Mutant of Deliver: a task may be delivered more often than it was sent. *)
DeliverTwice(t) == broker' = [broker EXCEPT ![t] = @ - 1]

Deliver(t) ==
  /\ broker[t] > 0
  /\ broker' = [broker EXCEPT ![t] = @ - 1]

(* Mutant of Claimable: every retryable row may be claimed.                *)
ClaimableAtAnyTime(r) == status[r] \in Retryable

(* Mutant of Claimable: a row is locked while it is processed, and that is *)
(* all that keeps it from being claimed.                                   *)
ClaimableUnlessLocked(r) == status[r] # "absent" /\ lock[r] # "fresh"

Claimable(r) ==
  \/ status[r] \in {"pending", "failed"}
  \/ status[r] = "processing" /\ lock[r] = "stale"

Claim(w, t) ==
  LET r == t[1] IN
    /\ pc[w] = "idle"
    /\ Deliver(t)
    /\ Claimable(r)
    /\ status' = [status EXCEPT ![r] = "processing"]
    /\ lock' = [lock EXCEPT ![r] = "fresh"]
    /\ attempts' = Increment(attempts, r)
    /\ takeovers' = IF status[r] = "processing" /\ Processing(r) # {}
                    THEN Increment(takeovers, r) ELSE takeovers
    /\ Goto(w, "claimed")
    /\ task' = [task EXCEPT ![w] = t]
    /\ UNCHANGED <<old, payload, web, outcome, applied, undone,
                   requeued, done, late, crashes>>

SkipClaim(w, t) ==
  /\ pc[w] = "idle"
  /\ Deliver(t)
  /\ ~ Claimable(t[1])
  /\ UNCHANGED <<logRows, web, work, ghosts>>

(* process_webhook_log: the effect takes place, ...                        *)
Apply(w) ==
  LET r == RowOf(w) IN
    /\ pc[w] = "claimed"
    /\ r \in payload
    /\ r[1] \notin Unknown
    /\ applied' = Increment(applied, r)
    /\ outcome' = [outcome EXCEPT ![w] = "processed"]
    /\ Goto(w, "saving")
    /\ UNCHANGED <<logRows, web, broker, task, undone, requeued, takeovers, done, late, crashes>>

(* ... or there is nothing to apply: no domain, mailbox, quota or message  *)
(* for it, an unknown event, or a redacted payload, which is one.          *)
Drop(w) ==
  /\ pc[w] = "claimed"
  /\ outcome' = [outcome EXCEPT ![w] = "ignored"]
  /\ Goto(w, "saving")
  /\ UNCHANGED <<logRows, web, broker, task, ghosts>>

Save(w) ==
  LET r == RowOf(w) IN
    /\ pc[w] = "saving"
    /\ status' = [status EXCEPT ![r] = outcome[w]]
    /\ lock' = [lock EXCEPT ![r] = "none"]
    /\ done' = done \cup {r}
    /\ Goto(w, "acking")
    /\ UNCHANGED <<old, attempts, payload, web, broker, task, outcome,
                   applied, undone, requeued, takeovers, late, crashes>>

(* The log's provider has been deleted: the row is settled, its lock left. *)
IgnoreOrphan(w) ==
  LET r == RowOf(w) IN
    /\ "orphan" \in Events
    /\ pc[w] = "claimed"
    /\ status' = [status EXCEPT ![r] = "ignored"]
    /\ done' = done \cup {r}
    /\ Goto(w, "acking")
    /\ UNCHANGED <<lock, old, attempts, payload, web, broker, task, outcome,
                   applied, undone, requeued, takeovers, late, crashes>>

(* The effect of a worker that will not save it.                           *)
LoseEffect(w) ==
  undone' = IF pc[w] = "saving" /\ outcome[w] = "processed"
            THEN Increment(undone, RowOf(w)) ELSE undone

(* Any exception: the row is saved as failed, whatever it has become.      *)
Fail(w) ==
  LET r == RowOf(w) IN
    /\ "exception" \in Events
    /\ pc[w] \in {"claimed", "saving"}
    /\ status' = [status EXCEPT ![r] = "failed"]
    /\ LoseEffect(w)
    /\ Goto(w, "retrying")
    /\ UNCHANGED <<lock, old, attempts, payload, web, broker, task, outcome,
                   applied, requeued, takeovers, done, late, crashes>>

(* self.retry, until max_retries is reached and the error is raised.       *)
Retry(w) ==
  LET retries == task[w][2] IN
    /\ pc[w] = "retrying"
    /\ broker' = IF retries < MaxRetries
                 THEN Increment(broker, <<RowOf(w), retries + 1>>) ELSE broker
    /\ Goto(w, "acking")
    /\ UNCHANGED <<logRows, web, task, outcome, ghosts>>

PutDown(w) ==
  /\ Goto(w, "idle")
  /\ task' = [task EXCEPT ![w] = NoTask]
  /\ outcome' = [outcome EXCEPT ![w] = "ignored"]

Acknowledge(w) ==
  /\ pc[w] = "acking"
  /\ PutDown(w)
  /\ UNCHANGED <<logRows, web, broker, ghosts>>

(* The worker dies: the broker delivers its unacknowledged task again.     *)
WorkerCrash(w) ==
  /\ pc[w] # "idle"
  /\ crashes < MaxCrashes
  /\ crashes' = crashes + 1
  /\ broker' = Increment(broker, task[w])
  /\ LoseEffect(w)
  /\ PutDown(w)
  /\ UNCHANGED <<logRows, web, applied, requeued, takeovers, done, late>>

-----------------------------------------------------------------------------
TakeTask(w) == \E t \in Task : Claim(w, t) \/ SkipClaim(w, t)

WorkOnTask(w) ==
  Apply(w) \/ Drop(w) \/ Save(w) \/ IgnoreOrphan(w) \/ Fail(w) \/ Retry(w) \/ Acknowledge(w)

Request(r) == Enqueue(r) \/ IgnoreUnknown(r)

Passage(r) == GrowOld(r) \/ LockAges(r)

Next ==
  \/ \E h \in Webhook : Post(h)
  \/ \E r \in Row : \/ Request(r) \/ WebCrash(r) \/ Reprocess(r)
                    \/ Passage(r) \/ RedactOldPayload(r)
  \/ RetryStaleWebhookLogs
  \/ \E w \in Worker : TakeTask(w) \/ WorkOnTask(w) \/ WorkerCrash(w)

Spec == Init /\ [][Next]_vars

(* Requests, workers, the clock and the beat scheduler go on.              *)
Fairness ==
  /\ \A r \in Row : WF_vars(Request(r)) /\ WF_vars(GrowOld(r)) /\ WF_vars(LockAges(r))
  /\ WF_vars(RetryStaleWebhookLogs)
  /\ \A w \in Worker : WF_vars(TakeTask(w)) /\ WF_vars(WorkOnTask(w))

FairSpec == Spec /\ Fairness

-----------------------------------------------------------------------------
(* "two concurrent deliveries of this task for the same webhook_log_id ... *)
(* can't both ... process it" (providers/tasks.py:37-40), across retries,  *)
(* crashes and the sweep, until one outlives its lock or staff hands the   *)
(* row out again.                                                          *)
OneWorkerPerRow ==
  \A r \in Row \ late : requeued[r] = 0 => Cardinality(Processing(r)) <= 1

(* A webhook takes effect once: again only for an effect whose task failed *)
(* or died before it saved the row, for each request to reprocess it, and  *)
(* for each takeover from a worker that outlived its lock.                 *)
EffectsAccounted ==
  \A r \in Row : applied[r] <= 1 + undone[r] + requeued[r] + takeovers[r]

(* "a row already marked processed/ignored by a previous delivery of this  *)
(* task is not reprocessed" (providers/tasks.py:33), with the same two     *)
(* exceptions: copies of the task that retries, crashes, sweeps and        *)
(* requests left behind do not claim a settled row.                        *)
SettledNotReprocessed ==
  [][\A r \in done \ late : requeued[r] = 0 => attempts'[r] = attempts[r]]_vars

(* "nothing still eligible for the stale-retry sweep loses the payload it  *)
(* needs to be reprocessed" (providers/tasks.py:198), again but for rows   *)
(* outlived or handed out by staff: such a row may end ignored.            *)
RetryableHasPayload ==
  \A r \in Row \ late :
    status[r] \in Retryable /\ requeued[r] = 0 => r \in payload

(* "Stored before processing so nothing is lost if a handler crashes"      *)
(* (providers/models.py:317): every stored webhook is settled in the end,  *)
(* or has been attempted as often as the sweep allows.                     *)
EveryWebhookSettles ==
  \A r \in Row :
    status[r] \in Retryable ~> status[r] \in Settled \/ attempts[r] >= MaxAttempts
=============================================================================
