-------------------------- MODULE WebhookLogProofs --------------------------
(***************************************************************************)
(* Webhook logs, for any webhooks, workers, retries, attempts and posts:   *)
(* that the effects of a row are accounted for whatever happens, and that, *)
(* until somebody outlives the stale threshold or staff reprocesses it, a  *)
(* row is in the hands of one worker, final once settled, and keeps its    *)
(* payload until then.                                                     *)
(***************************************************************************)
EXTENDS WebhookLog, TLAPS, FiniteSetTheorems

BusyHaveTasks == \A w \in Worker : pc[w] # "idle" => task[w] \in Task

(* Workers that may still apply the webhook of a row, or have dropped it   *)
(* and not said so yet.                                                    *)
Unspent(r) ==
  {w \in Worker : /\ \/ pc[w] = "claimed"
                     \/ pc[w] = "saving" /\ outcome[w] = "ignored"
                  /\ RowOf(w) = r}

Spend(w, r) == IF w \in Unspent(r) THEN 1 ELSE 0

(* Whether a row may be claimed without taking it over from a worker.      *)
Unclaimed(r) ==
  \/ status[r] \in {"absent", "pending", "failed"}
  \/ status[r] = "processing" /\ Processing(r) = {}

Avail(r) == IF Unclaimed(r) THEN 1 ELSE 0

(* The effects a row has had and those it may still have.                  *)
Accounted(r) ==
  applied[r] + Cardinality(Unspent(r)) + Avail(r)
    <= 1 + undone[r] + requeued[r] + takeovers[r]

EffectsInv == \A r \in Row : Accounted(r)

(* No task of the row has ever been handed out.                            *)
NeverHandedOut(r) ==
  /\ lock[r] = "none"
  /\ r \notin old \cup publishing
  /\ \A t \in Task : t[1] = r => broker[t] = 0
  /\ \A w \in Worker : pc[w] # "idle" => RowOf(w) # r

(* The row as the tasks treat it, until a worker or a request outlives the *)
(* threshold or staff reprocesses it.                                      *)
RowInOrder(r) ==
  /\ status[r] = "absent" \/ r \in ignoring => NeverHandedOut(r)
  /\ status[r] = "absent" => r \notin ignoring
  /\ r \in done => status[r] \in Settled
  /\ status[r] \in Retryable => r \in payload
  /\ \A w \in Processing(r) : /\ status[r] = "processing"
                              /\ lock[r] = "fresh"
                              /\ Processing(r) = {w}

RowsInOrder == \A r \in Row \ late : requeued[r] = 0 => RowInOrder(r)

-----------------------------------------------------------------------------
LEMMA WebhookInitTypeOK == Init => TypeOK /\ BusyHaveTasks
BY WebhookAssumption DEF Init, TypeOK, BusyHaveTasks, Retryable, Settled

(* A post reaches a row of its webhook.                                    *)
LEMMA PostedRow ==
  ASSUME TypeOK, NEW h \in Webhook, posts[h] < MaxPosts
  PROVE  <<h, IF h \in Keyed THEN 1 ELSE posts[h] + 1>> \in Row
BY WebhookAssumption DEF TypeOK, Row

LEMMA TaskRow ==
  /\ \A t \in Task : t[1] \in Row /\ t[2] \in 0 .. MaxRetries
  /\ \A r \in Row : <<r, 0>> \in Task
BY WebhookAssumption DEF Task

LEMMA WebhookNextTypeOK ==
  TypeOK /\ BusyHaveTasks /\ [Next]_vars => TypeOK' /\ BusyHaveTasks'
<1> SUFFICES ASSUME TypeOK, BusyHaveTasks, [Next]_vars
             PROVE  TypeOK' /\ BusyHaveTasks'
  OBVIOUS
<1> USE WebhookAssumption
    DEF TypeOK, BusyHaveTasks, Retryable, Settled, logRows, web, work, ghosts,
        Increment, Goto, RowOf, OutlivedBy, PutDown
<1>1. ASSUME NEW h \in Webhook, Post(h)
      PROVE  TypeOK' /\ BusyHaveTasks'
  <2> DEFINE r == <<h, IF h \in Keyed THEN 1 ELSE posts[h] + 1>>
  <2>1. r \in Row
    BY <1>1, PostedRow DEF Post
  <2> HIDE DEF r
  <2>2. /\ posts' = [posts EXCEPT ![h] = @ + 1]
        /\ posts[h] < MaxPosts
        /\ IF status[r] # "absent"
           THEN UNCHANGED <<status, payload, publishing, ignoring>>
           ELSE /\ status' = [status EXCEPT ![r] = "pending"]
                /\ payload' = payload \cup {r}
                /\ publishing' = IF h \in Unknown THEN publishing ELSE publishing \cup {r}
                /\ ignoring' = IF h \in Unknown THEN ignoring \cup {r} ELSE ignoring
        /\ UNCHANGED <<lock, old, attempts, broker, work, ghosts>>
    BY <1>1 DEF Post, r
  <2>3. posts' \in [Webhook -> 0 .. MaxPosts]
    BY <2>2
  <2>4. /\ status' \in [Row -> Retryable \cup Settled \cup {"absent"}]
        /\ payload' \subseteq Row /\ publishing' \subseteq Row /\ ignoring' \subseteq Row
    BY <2>1, <2>2
  <2> QED BY <2>2, <2>3, <2>4
<1>2. ASSUME NEW r \in Row, Request(r) \/ WebCrash(r) \/ Reprocess(r)
      PROVE  TypeOK' /\ BusyHaveTasks'
  BY <1>2, TaskRow DEF Request, Enqueue, IgnoreUnknown, WebCrash, Reprocess
<1>3. ASSUME NEW r \in Row, Passage(r) \/ RedactOldPayload(r)
      PROVE  TypeOK' /\ BusyHaveTasks'
  <2>1. CASE GrowOld(r)
    BY <2>1 DEF GrowOld
  <2>2. CASE LockAges(r)
    BY <2>2 DEF LockAges
  <2>3. CASE RedactOldPayload(r)
    BY <2>3 DEF RedactOldPayload
  <2> QED BY <1>3, <2>1, <2>2, <2>3 DEF Passage
<1>4. CASE RetryStaleWebhookLogs
  BY <1>4 DEF RetryStaleWebhookLogs
<1>5. ASSUME NEW w \in Worker, NEW t \in Task, Claim(w, t) \/ SkipClaim(w, t)
      PROVE  TypeOK' /\ BusyHaveTasks'
  <2>1. CASE Claim(w, t)
    <3>1. t[1] \in Row
      BY TaskRow
    <3>2. takeovers' = takeovers \/ takeovers' = [takeovers EXCEPT ![t[1]] = @ + 1]
      BY <2>1 DEF Claim
    <3>3. takeovers' \in [Row -> Nat] /\ broker' \in [Task -> Nat]
      BY <2>1, <3>1, <3>2 DEF Claim, Deliver
    <3>4. /\ status' = [status EXCEPT ![t[1]] = "processing"]
          /\ lock' = [lock EXCEPT ![t[1]] = "fresh"]
          /\ attempts' = [attempts EXCEPT ![t[1]] = @ + 1]
          /\ pc' = [pc EXCEPT ![w] = "claimed"]
          /\ task' = [task EXCEPT ![w] = t]
          /\ UNCHANGED <<old, payload, web, outcome, applied, undone, requeued,
                         done, late, crashes>>
      BY <2>1 DEF Claim
    <3> QED BY <3>1, <3>3, <3>4
  <2>2. CASE SkipClaim(w, t)
    BY <2>2 DEF SkipClaim, Deliver
  <2> QED BY <1>5, <2>1, <2>2
<1>6. ASSUME NEW w \in Worker, WorkOnTask(w)
      PROVE  TypeOK' /\ BusyHaveTasks'
  <2>1. pc[w] # "idle" => RowOf(w) \in Row
    BY TaskRow
  <2>2. CASE Apply(w) \/ Drop(w) \/ Save(w) \/ IgnoreOrphan(w) \/ Acknowledge(w)
    BY <2>1, <2>2 DEF Apply, Drop, Save, IgnoreOrphan, Acknowledge
  <2>3. CASE Fail(w)
    BY <2>1, <2>3 DEF Fail, LoseEffect
  <2>4. CASE Retry(w)
    <3>1. pc[w] # "idle" /\ task[w] \in Task
      BY <2>4 DEF Retry
    <3>2. task[w][2] < MaxRetries => <<RowOf(w), task[w][2] + 1>> \in Task
      BY <3>1 DEF Task
    <3> DEFINE again == <<RowOf(w), task[w][2] + 1>>
    <3> HIDE DEF again
    <3>3. \/ broker' = broker
          \/ again \in Task /\ broker' = [broker EXCEPT ![again] = @ + 1]
      BY <2>4, <3>2 DEF Retry, again
    <3>4. broker' \in [Task -> Nat]
      BY <3>3
    <3> QED BY <2>4, <3>1, <3>4 DEF Retry
  <2> QED BY <1>6, <2>2, <2>3, <2>4 DEF WorkOnTask
<1>7. ASSUME NEW w \in Worker, WorkerCrash(w)
      PROVE  TypeOK' /\ BusyHaveTasks'
  <2>1. RowOf(w) \in Row /\ task[w] \in Task
    BY <1>7, TaskRow DEF WorkerCrash
  <2> QED BY <1>7, <2>1 DEF WorkerCrash, LoseEffect
<1>8. CASE UNCHANGED vars
  BY <1>8 DEF vars
<1> QED BY <1>1, <1>2, <1>3, <1>4, <1>5, <1>6, <1>7, <1>8 DEF Next, TakeTask

(* The types of the rows, the broker and the workers.                      *)
THEOREM WebhookTypeCorrect == Spec => []TypeOK
BY WebhookInitTypeOK, WebhookNextTypeOK, PTL DEF Spec

-----------------------------------------------------------------------------
(* Counting the effects a row may still have.                              *)

LEMMA UnspentFinite ==
  \A r : IsFiniteSet(Unspent(r)) /\ Cardinality(Unspent(r)) \in Nat
<1> TAKE r
<1>1. Unspent(r) \subseteq Worker
  BY DEF Unspent
<1>2. IsFiniteSet(Unspent(r))
  BY <1>1, WebhookAssumption, FS_Subset
<1> QED BY <1>2, FS_CardinalityType

(* Two sets that differ in one element at most.                            *)
LEMMA CountOne ==
  ASSUME NEW S, NEW T, NEW x, IsFiniteSet(S), IsFiniteSet(T), S \ {x} = T \ {x}
  PROVE  Cardinality(T) =
           Cardinality(S) - (IF x \in S THEN 1 ELSE 0) + (IF x \in T THEN 1 ELSE 0)
<1>1. Cardinality(S) \in Nat /\ Cardinality(T) \in Nat
  BY FS_CardinalityType
<1>2. Cardinality(S \ {x}) = IF x \in S THEN Cardinality(S) - 1 ELSE Cardinality(S)
  BY FS_RemoveElement
<1>3. Cardinality(T \ {x}) = IF x \in T THEN Cardinality(T) - 1 ELSE Cardinality(T)
  BY FS_RemoveElement
<1> QED BY <1>1, <1>2, <1>3

(* A step of one worker changes the count by what it did to that worker.   *)
LEMMA UnspentStep ==
  ASSUME NEW r \in Row, NEW w \in Worker,
         \A v \in Worker \ {w} :
           pc'[v] = pc[v] /\ task'[v] = task[v] /\ outcome'[v] = outcome[v]
  PROVE  /\ Cardinality(Unspent(r))' = Cardinality(Unspent(r)) - Spend(w, r) + Spend(w, r)'
         /\ Cardinality(Unspent(r)) \in Nat
         /\ Cardinality(Unspent(r))' \in Nat
<1> DEFINE before == Unspent(r)
           after ==
             {v \in Worker : /\ \/ pc'[v] = "claimed"
                                \/ pc'[v] = "saving" /\ outcome'[v] = "ignored"
                             /\ task'[v][1] = r}
<1>1. after = Unspent(r)'
  BY DEF Unspent, RowOf
<1>2. IsFiniteSet(before) /\ IsFiniteSet(after)
  BY UnspentFinite, WebhookAssumption, FS_Subset
<1>3. before \ {w} = after \ {w}
  BY DEF Unspent, RowOf
<1>4. Spend(w, r) = (IF w \in before THEN 1 ELSE 0) /\ Spend(w, r)' = (IF w \in after THEN 1 ELSE 0)
  BY <1>1 DEF Spend
<1>5. Cardinality(Unspent(r))' = Cardinality(after)
  BY <1>1
<1> HIDE DEF before, after
<1>6. Cardinality(after) =
        Cardinality(before) - (IF w \in before THEN 1 ELSE 0) + (IF w \in after THEN 1 ELSE 0)
  BY <1>2, <1>3, CountOne
<1>7. Cardinality(before) \in Nat /\ Cardinality(after) \in Nat
  BY <1>2, FS_CardinalityType
<1> QED BY <1>4, <1>5, <1>6, <1>7 DEF before

LEMMA AvailBit == \A r : Avail(r) \in {0, 1} /\ (Avail(r) = 1 <=> Unclaimed(r))
BY DEF Avail

(* A worker leaves every row alone but the one it works on.                *)
LEMMA OtherRow ==
  ASSUME NEW r \in Row, NEW w \in Worker, EffectsInv,
         \A v \in Worker \ {w} :
           pc'[v] = pc[v] /\ task'[v] = task[v] /\ outcome'[v] = outcome[v],
         pc[w] \in {"claimed", "saving"} => RowOf(w) # r,
         pc'[w] \in {"claimed", "saving"} => RowOf(w)' # r,
         status'[r] = status[r], applied'[r] = applied[r], undone'[r] = undone[r],
         requeued'[r] = requeued[r], takeovers'[r] = takeovers[r]
  PROVE  Accounted(r)'
<1>1. Unspent(r)' = Unspent(r)
  BY DEF Unspent, RowOf
<1>2. Processing(r)' = Processing(r)
  BY DEF Processing, RowOf
<1>3. Avail(r)' = Avail(r)
  BY <1>2 DEF Avail, Unclaimed
<1> QED BY <1>1, <1>3 DEF EffectsInv, Accounted

(* A step of the row's worker w, by what it does to the terms.             *)
LEMMA OwnRow ==
  ASSUME NEW r \in Row, NEW w \in Worker, TypeOK, TypeOK', EffectsInv,
         \A v \in Worker \ {w} :
           pc'[v] = pc[v] /\ task'[v] = task[v] /\ outcome'[v] = outcome[v],
         applied'[r] + Spend(w, r)' + Avail(r)' + undone[r] + requeued[r] + takeovers[r]
           <= applied[r] + Spend(w, r) + Avail(r) + undone'[r] + requeued'[r] + takeovers'[r]
  PROVE  Accounted(r)'
<1>1. /\ Cardinality(Unspent(r))' = Cardinality(Unspent(r)) - Spend(w, r) + Spend(w, r)'
      /\ Cardinality(Unspent(r)) \in Nat
      /\ Cardinality(Unspent(r))' \in Nat
  BY UnspentStep
<1>2. Spend(w, r) \in {0, 1} /\ Spend(w, r)' \in {0, 1}
  BY DEF Spend
<1>3. Avail(r) \in {0, 1} /\ Avail(r)' \in {0, 1}
  BY DEF Avail
<1>4. /\ applied[r] \in Nat /\ undone[r] \in Nat /\ requeued[r] \in Nat /\ takeovers[r] \in Nat
      /\ applied'[r] \in Nat /\ undone'[r] \in Nat /\ requeued'[r] \in Nat /\ takeovers'[r] \in Nat
  BY DEF TypeOK
<1>5. applied[r] + Cardinality(Unspent(r)) + Avail(r)
        <= 1 + undone[r] + requeued[r] + takeovers[r]
  BY DEF EffectsInv, Accounted
<1>6. applied'[r] + Cardinality(Unspent(r))' + Avail(r)'
        <= 1 + undone'[r] + requeued'[r] + takeovers'[r]
  <2> DEFINE c == Cardinality(Unspent(r))
             d == Cardinality(Unspent(r))'
             m == Spend(w, r)
             n == Spend(w, r)'
             a == Avail(r)
             b == Avail(r)'
  <2>1. /\ d = c - m + n /\ c \in Nat /\ d \in Nat
        /\ m \in Nat /\ n \in Nat /\ a \in Nat /\ b \in Nat
        /\ applied[r] + c + a <= 1 + undone[r] + requeued[r] + takeovers[r]
        /\ applied'[r] + n + b + undone[r] + requeued[r] + takeovers[r]
             <= applied[r] + m + a + undone'[r] + requeued'[r] + takeovers'[r]
    BY <1>1, <1>2, <1>3, <1>5
  <2> HIDE DEF c, d, m, n, a, b
  <2>2. applied'[r] + d + b <= 1 + undone'[r] + requeued'[r] + takeovers'[r]
    BY <2>1, <1>4
  <2> QED BY <2>2 DEF d, b
<1> QED BY <1>6 DEF Accounted

(* A step without a worker frees a row for one more claim only when staff  *)
(* asks for it.                                                            *)
LEMMA RowStep ==
  ASSUME NEW r \in Row, TypeOK, TypeOK', EffectsInv, UNCHANGED work,
         applied' = applied, undone' = undone, takeovers' = takeovers,
         \/ requeued'[r] = requeued[r] /\ (Unclaimed(r)' => Unclaimed(r))
         \/ requeued'[r] = requeued[r] + 1
  PROVE  Accounted(r)'
<1>1. Unspent(r)' = Unspent(r)
  BY DEF Unspent, RowOf, work
<1>2. Avail(r) \in {0, 1} /\ Avail(r)' \in {0, 1}
      /\ Avail(r)' + requeued[r] <= Avail(r) + requeued'[r]
  BY DEF Avail, TypeOK
<1>3. Cardinality(Unspent(r)) \in Nat
  BY UnspentFinite
<1>4. /\ applied[r] \in Nat /\ undone[r] \in Nat /\ requeued[r] \in Nat /\ takeovers[r] \in Nat
      /\ requeued'[r] \in Nat
  BY DEF TypeOK
<1>5. applied[r] + Cardinality(Unspent(r)) + Avail(r)
        <= 1 + undone[r] + requeued[r] + takeovers[r]
  BY DEF EffectsInv, Accounted
<1>6. Accounted(r)' <=>
        applied[r] + Cardinality(Unspent(r)) + Avail(r)'
          <= 1 + undone[r] + requeued'[r] + takeovers[r]
  BY <1>1 DEF Accounted
<1> QED BY <1>2, <1>3, <1>4, <1>5, <1>6

LEMMA EffectsNext ==
  TypeOK /\ BusyHaveTasks /\ EffectsInv /\ TypeOK' /\ [Next]_vars => EffectsInv'
<1> SUFFICES ASSUME TypeOK, BusyHaveTasks, EffectsInv, TypeOK', [Next]_vars,
                    NEW r \in Row
             PROVE  Accounted(r)'
  BY DEF EffectsInv
<1> USE DEF logRows, web, work, ghosts, Increment, Goto, OutlivedBy, PutDown
<1>1. ASSUME NEW h \in Webhook, Post(h)
      PROVE  Accounted(r)'
  <2> DEFINE n == IF h \in Keyed THEN 1 ELSE posts[h] + 1
  <2>1. \A q \in Row : status'[q] = status[q] \/ (status[q] = "absent" /\ status'[q] = "pending")
    BY <1>1 DEF Post, TypeOK
  <2>2. Unclaimed(r)' => Unclaimed(r)
    BY <1>1, <2>1 DEF Post, Unclaimed, Processing, RowOf
  <2> QED BY <1>1, <2>2, RowStep DEF Post
<1>2. ASSUME NEW q \in Row, Request(q) \/ WebCrash(q) \/ Passage(q) \/ RedactOldPayload(q)
      PROVE  Accounted(r)'
  <2>1. UNCHANGED <<work, applied, undone, requeued, takeovers>>
        /\ (status'[r] = status[r] \/ status'[r] = "ignored")
    BY <1>2 DEF Request, Enqueue, IgnoreUnknown, WebCrash, Passage, GrowOld, LockAges,
                RedactOldPayload, TypeOK
  <2>2. Unclaimed(r)' => Unclaimed(r)
    BY <2>1 DEF Unclaimed, Processing, RowOf
  <2> QED BY <2>1, <2>2, RowStep
<1>3. ASSUME NEW q \in Row, Reprocess(q)
      PROVE  Accounted(r)'
  <2>1. CASE q = r
    BY <1>3, <2>1, RowStep DEF Reprocess, TypeOK
  <2>2. CASE q # r
    <3>1. status'[r] = status[r] /\ requeued'[r] = requeued[r]
      BY <1>3, <2>2 DEF Reprocess, TypeOK
    <3>2. Unclaimed(r)' => Unclaimed(r)
      BY <1>3, <3>1 DEF Reprocess, Unclaimed, Processing, RowOf
    <3> QED BY <1>3, <3>1, <3>2, RowStep DEF Reprocess
  <2> QED BY <2>1, <2>2
<1>4. CASE RetryStaleWebhookLogs \/ UNCHANGED vars
  <2>1. UNCHANGED <<status, work, applied, undone, requeued, takeovers>>
    BY <1>4 DEF RetryStaleWebhookLogs, vars
  <2>2. Unclaimed(r)' => Unclaimed(r)
    BY <2>1 DEF Unclaimed, Processing, RowOf
  <2> QED BY <2>1, <2>2, RowStep
<1>5. ASSUME NEW w \in Worker, NEW t \in Task, SkipClaim(w, t)
      PROVE  Accounted(r)'
  <2>1. UNCHANGED <<status, work, applied, undone, requeued, takeovers>>
    BY <1>5 DEF SkipClaim
  <2>2. Unclaimed(r)' => Unclaimed(r)
    BY <2>1 DEF Unclaimed, Processing, RowOf
  <2> QED BY <2>1, <2>2, RowStep
<1>6. ASSUME NEW w \in Worker, NEW t \in Task, Claim(w, t)
      PROVE  Accounted(r)'
  <2>1. /\ \A v \in Worker \ {w} :
             pc'[v] = pc[v] /\ task'[v] = task[v] /\ outcome'[v] = outcome[v]
        /\ pc[w] = "idle" /\ pc'[w] = "claimed" /\ RowOf(w)' = t[1]
        /\ applied' = applied /\ undone' = undone /\ requeued' = requeued
    BY <1>6 DEF Claim, TypeOK, RowOf
  <2>2. CASE t[1] # r
    <3>1. status'[r] = status[r] /\ takeovers'[r] = takeovers[r]
      BY <1>6, <2>2, TaskRow DEF Claim, TypeOK
    <3> QED BY <2>1, <2>2, <3>1, OtherRow
  <2>3. CASE t[1] = r
    <3> /\ applied[r] \in Nat /\ undone[r] \in Nat
        /\ requeued[r] \in Nat /\ takeovers[r] \in Nat
      BY DEF TypeOK
    <3>1. w \in Processing(r)' /\ Spend(w, r) = 0 /\ Spend(w, r)' = 1
      BY <2>1, <2>3 DEF Processing, Spend, Unspent
    <3>2. status'[r] = "processing" /\ Claimable(r)
      BY <1>6, <2>3, TaskRow DEF Claim, TypeOK
    <3>3. Avail(r)' = 0
      BY <3>1, <3>2 DEF Avail, Unclaimed
    <3>4. CASE Unclaimed(r)
      <4>1. takeovers'[r] = takeovers[r] /\ Avail(r) = 1
        BY <1>6, <2>3, <3>4 DEF Claim, Unclaimed, Avail
      <4> QED BY <2>1, <3>1, <3>3, <4>1, OwnRow
    <3>5. CASE ~ Unclaimed(r)
      <4>1. status[r] = "processing" /\ Processing(r) # {}
        BY <3>2, <3>5 DEF Unclaimed, Claimable
      <4>2. takeovers'[r] = takeovers[r] + 1 /\ Avail(r) = 0
        BY <1>6, <2>3, <3>5, <4>1 DEF Claim, Avail, TypeOK
      <4> QED BY <2>1, <3>1, <3>3, <4>2, OwnRow
    <3> QED BY <3>4, <3>5
  <2> QED BY <2>2, <2>3
<1>7. ASSUME NEW w \in Worker, WorkOnTask(w) \/ WorkerCrash(w)
      PROVE  Accounted(r)'
  <2> DEFINE s == RowOf(w)
  <2>1. /\ \A v \in Worker \ {w} :
             pc'[v] = pc[v] /\ task'[v] = task[v] /\ outcome'[v] = outcome[v]
        /\ pc[w] # "idle" /\ UNCHANGED <<requeued, takeovers>>
        /\ \A q \in Row \ {s} :
             status'[q] = status[q] /\ applied'[q] = applied[q] /\ undone'[q] = undone[q]
        /\ pc'[w] \in {"claimed", "saving"} => RowOf(w)' = s
    BY <1>7, TaskRow
    DEF WorkOnTask, Apply, Drop, Save, IgnoreOrphan, Fail, LoseEffect, Retry, Acknowledge,
        WorkerCrash, TypeOK, BusyHaveTasks, RowOf
  <2>2. CASE s # r
    BY <2>1, <2>2, OtherRow
  <2>3. CASE s = r
    <3>1. s \in Row
      BY <2>3
    <3>2. /\ applied[r] \in Nat /\ undone[r] \in Nat /\ requeued[r] \in Nat /\ takeovers[r] \in Nat
          /\ Spend(w, r) = (IF pc[w] = "claimed" \/ (pc[w] = "saving" /\ outcome[w] = "ignored")
                            THEN 1 ELSE 0)
          /\ Avail(r) \in {0, 1} /\ Avail(r)' \in {0, 1}
      BY <2>3 DEF TypeOK, Spend, Unspent, Avail
    <3>3. CASE Apply(w)
      <4>1. applied'[r] = applied[r] + 1 /\ undone' = undone /\ status' = status
            /\ Spend(w, r) = 1 /\ Spend(w, r)' = 0
        BY <2>3, <3>2, <3>3 DEF Apply, TypeOK, Spend, Unspent
      <4>2. Avail(r)' = Avail(r)
        BY <2>1, <2>3, <3>3 DEF Apply, Avail, Unclaimed, Processing, RowOf, TypeOK
      <4> QED BY <2>1, <3>2, <4>1, <4>2, OwnRow
    <3>4. CASE Drop(w)
      <4>1. applied' = applied /\ undone' = undone /\ status' = status
            /\ Spend(w, r) = 1 /\ Spend(w, r)' \in {0, 1}
        BY <3>2, <3>4 DEF Drop, Spend
      <4>2. Avail(r)' = Avail(r)
        BY <2>1, <2>3, <3>4 DEF Drop, Avail, Unclaimed, Processing, RowOf, TypeOK
      <4> QED BY <2>1, <3>2, <4>1, <4>2, OwnRow
    <3>5. CASE Save(w) \/ IgnoreOrphan(w)
      <4>1. applied' = applied /\ undone' = undone /\ status'[r] \in Settled
            /\ Spend(w, r)' = 0 /\ Spend(w, r) \in {0, 1}
        BY <2>3, <3>2, <3>5 DEF Save, IgnoreOrphan, TypeOK, Spend, Unspent, Settled
      <4>2. Avail(r)' = 0
        BY <4>1 DEF Avail, Unclaimed, Settled
      <4> QED BY <2>1, <3>2, <4>1, <4>2, OwnRow
    <3>6. CASE Fail(w) \/ (WorkerCrash(w) /\ pc[w] \in {"claimed", "saving"})
      <4>1. applied' = applied /\ Spend(w, r)' = 0
        BY <2>3, <3>6 DEF Fail, WorkerCrash, TypeOK, Spend, Unspent
      <4>2. CASE Spend(w, r) = 1
        <5>1. undone' = undone
          BY <3>2, <3>6, <4>2 DEF Fail, WorkerCrash, LoseEffect
        <5>2. Avail(r)' <= Avail(r) + 1
          BY <3>2
        <5> QED BY <2>1, <3>2, <4>1, <4>2, <5>1, <5>2, OwnRow
      <4>3. CASE Spend(w, r) = 0
        <5>1. pc[w] = "saving" /\ outcome[w] = "processed"
          BY <3>2, <3>6, <4>3 DEF Fail, WorkerCrash, TypeOK, Settled
        <5>2. undone'[r] = undone[r] + 1
          BY <2>3, <3>6, <5>1 DEF Fail, WorkerCrash, LoseEffect, TypeOK
        <5> QED BY <2>1, <3>2, <4>1, <4>3, <5>2, OwnRow
      <4> QED BY <3>2, <4>2, <4>3
    <3>7. CASE \/ Retry(w) \/ Acknowledge(w)
               \/ WorkerCrash(w) /\ pc[w] \notin {"claimed", "saving"}
      <4>1. /\ UNCHANGED <<status, applied, undone>>
            /\ pc[w] \notin {"claimed", "saving"} /\ pc'[w] \notin {"claimed", "saving"}
        BY <3>7 DEF Retry, Acknowledge, WorkerCrash, LoseEffect, TypeOK
      <4>2. Spend(w, r) = 0 /\ Spend(w, r)' = 0
        BY <4>1 DEF Spend, Unspent
      <4>3. Avail(r)' = Avail(r)
        BY <2>1, <4>1 DEF Avail, Unclaimed, Processing, RowOf
      <4> QED BY <2>1, <3>2, <4>1, <4>2, <4>3, OwnRow
    <3> QED BY <1>7, <3>3, <3>4, <3>5, <3>6, <3>7 DEF WorkOnTask
  <2> QED BY <2>2, <2>3
<1> QED BY <1>1, <1>2, <1>3, <1>4, <1>5, <1>6, <1>7 DEF Next, TakeTask, Request, Passage

(* The accounting invariant: the effects a row has had, those its workers  *)
(* may still apply and the claim it may still get are one, and one for     *)
(* each effect forgotten, reprocess request and takeover.                  *)
LEMMA EffectsAlways == Spec => [](TypeOK /\ BusyHaveTasks /\ EffectsInv)
<1>1. Init => EffectsInv
  <2> SUFFICES ASSUME Init, NEW r \in Row PROVE Accounted(r)
    BY DEF EffectsInv
  <2>1. Unspent(r) = {}
    BY DEF Init, Unspent
  <2>2. Cardinality(Unspent(r)) = 0
    BY <2>1, FS_EmptySet
  <2>3. Avail(r) \in {0, 1}
    BY DEF Avail
  <2> QED BY <2>2, <2>3 DEF Init, Accounted
<1> QED BY <1>1, WebhookInitTypeOK, WebhookNextTypeOK, EffectsNext, PTL DEF Spec

(* A webhook takes effect once, and again only for an effect whose task    *)
(* failed or died, a reprocess request or a takeover: with any number of   *)
(* deliveries, sweeps, workers and crashes, and locks that run out.        *)
THEOREM EveryEffectAccounted == Spec => []EffectsAccounted
<1>1. TypeOK /\ EffectsInv => EffectsAccounted
  <2> SUFFICES ASSUME TypeOK, EffectsInv, NEW r \in Row
               PROVE  applied[r] <= 1 + undone[r] + requeued[r] + takeovers[r]
    BY DEF EffectsAccounted
  <2>1. Avail(r) \in {0, 1} /\ Cardinality(Unspent(r)) \in Nat
    BY UnspentFinite DEF Avail
  <2>2. /\ applied[r] \in Nat /\ undone[r] \in Nat
        /\ requeued[r] \in Nat /\ takeovers[r] \in Nat
    BY DEF TypeOK
  <2> QED BY <2>1, <2>2 DEF EffectsInv, Accounted
<1> QED BY <1>1, EffectsAlways, PTL

-----------------------------------------------------------------------------
(* Rows in order.                                                          *)

(* A step that leaves the row and its tasks alone leaves it in order.      *)
LEMMA UntouchedInOrder ==
  ASSUME NEW r \in Row, RowInOrder(r),
         status'[r] = status[r], lock'[r] = lock[r],
         r \in old' => r \in old, r \in publishing' => r \in publishing,
         r \in ignoring' => r \in ignoring, r \in payload => r \in payload',
         r \in done' => r \in done,
         \A t \in Task : t[1] = r => broker'[t] = broker[t],
         \A w \in Worker :
           /\ pc'[w] # "idle" /\ RowOf(w)' = r => pc[w] # "idle" /\ RowOf(w) = r
           /\ w \in Processing(r)' <=> w \in Processing(r)
  PROVE  RowInOrder(r)'
<1>1. Processing(r)' = Processing(r)
  BY DEF Processing
<1>2. NeverHandedOut(r) => NeverHandedOut(r)'
  BY DEF NeverHandedOut
<1> QED BY <1>1, <1>2 DEF RowInOrder

LEMMA RowsNext ==
  ASSUME TypeOK, BusyHaveTasks, RowsInOrder, TypeOK', [Next]_vars
  PROVE  RowsInOrder'
<1> USE DEF logRows, web, work, ghosts, Increment, Goto, OutlivedBy, PutDown
<1>0. /\ \A r \in Row : requeued'[r] = 0 => requeued[r] = 0
      /\ late \subseteq late'
  <2>1. CASE requeued' = requeued /\ late' = late
    BY <2>1
  <2>2. CASE \E q \in Row : Reprocess(q)
    BY <2>2 DEF Reprocess, TypeOK
  <2>3. CASE \E q \in Row : Passage(q)
    BY <2>3 DEF Passage, GrowOld, LockAges
  <2> QED BY <2>1, <2>2, <2>3
    DEF Next, vars, Request, TakeTask, WorkOnTask, Post, Enqueue, IgnoreUnknown,
        WebCrash, RedactOldPayload, RetryStaleWebhookLogs, Claim, SkipClaim, Apply, Drop,
        Save, IgnoreOrphan, Fail, Retry, Acknowledge, WorkerCrash
<1> SUFFICES ASSUME NEW r \in Row, r \notin late', requeued'[r] = 0, requeued[r] = 0, RowInOrder(r)
             PROVE  RowInOrder(r)'
  BY <1>0 DEF RowsInOrder
<1>1. ASSUME NEW h \in Webhook, Post(h)
      PROVE  RowInOrder(r)'
  <2> DEFINE q == <<h, IF h \in Keyed THEN 1 ELSE posts[h] + 1>>
  <2>1. q \in Row
    BY <1>1, PostedRow DEF Post
  <2>2. UNCHANGED <<lock, old, broker, work, done>>
    BY <1>1 DEF Post
  <2>3. IF status[q] # "absent"
        THEN UNCHANGED <<status, payload, publishing, ignoring>>
        ELSE /\ status' = [status EXCEPT ![q] = "pending"]
             /\ payload' = payload \cup {q}
             /\ publishing' = IF h \in Unknown THEN publishing ELSE publishing \cup {q}
             /\ ignoring' = IF h \in Unknown THEN ignoring \cup {q} ELSE ignoring
    BY <1>1 DEF Post
  <2> HIDE DEF q
  <2>4. CASE status[q] # "absent" \/ q # r
    <3>1. status'[r] = status[r] /\ (r \in publishing' => r \in publishing)
          /\ (r \in ignoring' => r \in ignoring) /\ (r \in payload => r \in payload')
      BY <2>1, <2>3, <2>4 DEF TypeOK
    <3> QED BY <2>2, <3>1, UntouchedInOrder DEF Processing, RowOf
  <2>5. CASE status[q] = "absent" /\ q = r
    <3>1. NeverHandedOut(r) /\ r \notin ignoring /\ r \notin done
      BY <2>5 DEF RowInOrder, Settled
    <3>2. Processing(r) = {} /\ Processing(r)' = {}
      BY <2>2, <3>1 DEF Processing, NeverHandedOut, RowOf
    <3>3. status'[r] = "pending" /\ r \in payload'
      BY <2>3, <2>5 DEF TypeOK
    <3>4. r \in ignoring' => NeverHandedOut(r)'
      BY <2>2, <2>3, <2>5, <3>1 DEF NeverHandedOut, RowOf
    <3> QED BY <2>2, <3>1, <3>2, <3>3, <3>4 DEF RowInOrder
  <2> QED BY <2>4, <2>5
<1>2. ASSUME NEW q \in Row, Enqueue(q) \/ WebCrash(q)
      PROVE  RowInOrder(r)'
  <2>1. UNCHANGED <<logRows, work, done>> /\ publishing' \subseteq publishing
        /\ ignoring' \subseteq ignoring
    BY <1>2 DEF Enqueue, WebCrash
  <2>2. CASE WebCrash(q) \/ q # r
    <3>1. \A t \in Task : t[1] = r => broker'[t] = broker[t]
      BY <1>2, <2>2, TaskRow DEF Enqueue, WebCrash, TypeOK
    <3> QED BY <2>1, <3>1, UntouchedInOrder DEF Processing, RowOf
  <2>3. CASE Enqueue(q) /\ q = r
    <3>1. ~ NeverHandedOut(r)
      BY <2>3 DEF Enqueue, NeverHandedOut
    <3>2. Processing(r)' = Processing(r)
      BY <2>1 DEF Processing, RowOf
    <3> QED BY <2>1, <3>1, <3>2 DEF RowInOrder
  <2> QED BY <1>2, <2>2, <2>3
<1>3. ASSUME NEW q \in Row, IgnoreUnknown(q)
      PROVE  RowInOrder(r)'
  <2>1. UNCHANGED <<lock, old, payload, publishing, broker, work, done>>
        /\ ignoring' = ignoring \ {q} /\ status' = [status EXCEPT ![q] = "ignored"]
        /\ q \in ignoring
    BY <1>3 DEF IgnoreUnknown
  <2>2. CASE q # r
    BY <2>1, <2>2, UntouchedInOrder DEF Processing, RowOf, TypeOK
  <2>3. CASE q = r
    <3>1. Processing(r) = {} /\ Processing(r)' = {}
      BY <2>1, <2>3 DEF RowInOrder, NeverHandedOut, Processing, RowOf
    <3>2. status'[r] = "ignored"
      BY <2>1, <2>3 DEF TypeOK
    <3> QED BY <2>1, <2>3, <3>1, <3>2 DEF RowInOrder, Settled, Retryable
  <2> QED BY <2>2, <2>3
<1>4. ASSUME NEW q \in Row, Reprocess(q)
      PROVE  RowInOrder(r)'
  <2>1. q # r
    BY <1>4 DEF Reprocess, TypeOK
  <2> QED BY <1>4, <2>1, UntouchedInOrder DEF Reprocess, Processing, RowOf, TypeOK
<1>5. ASSUME NEW q \in Row, GrowOld(q)
      PROVE  RowInOrder(r)'
  <2>1. CASE q # r
    BY <1>5, <2>1, UntouchedInOrder DEF GrowOld, Processing, RowOf
  <2>2. CASE q = r
    <3>1. status[r] # "absent" /\ r \notin ignoring
      BY <1>5, <2>2 DEF GrowOld
    <3>2. Processing(r)' = Processing(r)
      BY <1>5 DEF GrowOld, Processing, RowOf
    <3> QED BY <1>5, <3>1, <3>2 DEF GrowOld, RowInOrder
  <2> QED BY <2>1, <2>2
<1>6. ASSUME NEW q \in Row, LockAges(q)
      PROVE  RowInOrder(r)'
  <2>1. CASE q # r
    BY <1>6, <2>1, UntouchedInOrder DEF LockAges, Processing, RowOf, TypeOK
  <2>2. CASE q = r
    <3>1. Processing(r) = {} /\ Processing(r)' = {} /\ ~ NeverHandedOut(r)
      BY <1>6, <2>2 DEF LockAges, NeverHandedOut, Processing, RowOf
    <3> QED BY <1>6, <3>1 DEF LockAges, RowInOrder
  <2> QED BY <2>1, <2>2
<1>7. ASSUME NEW q \in Row, RedactOldPayload(q)
      PROVE  RowInOrder(r)'
  <2>1. CASE q # r
    BY <1>7, <2>1, UntouchedInOrder DEF RedactOldPayload, Processing, RowOf
  <2>2. CASE q = r
    <3>1. status[r] \in Settled /\ status'[r] \notin Retryable
      BY <1>7, <2>2 DEF RedactOldPayload, Settled, Retryable
    <3>2. Processing(r)' = Processing(r) /\ (NeverHandedOut(r) => NeverHandedOut(r)')
      BY <1>7 DEF RedactOldPayload, Processing, RowOf, NeverHandedOut
    <3> QED BY <1>7, <3>1, <3>2 DEF RedactOldPayload, RowInOrder
  <2> QED BY <2>1, <2>2
<1>8. CASE RetryStaleWebhookLogs
  <2>1. UNCHANGED <<logRows, web, work, done>>
    BY <1>8 DEF RetryStaleWebhookLogs
  <2>2. CASE r \notin StaleLogs
    <3>1. \A t \in Task : t[1] = r => broker'[t] = broker[t]
      BY <1>8, <2>2 DEF RetryStaleWebhookLogs
    <3> QED BY <2>1, <3>1, UntouchedInOrder DEF Processing, RowOf
  <2>3. CASE r \in StaleLogs
    <3>1. ~ NeverHandedOut(r)
      BY <2>3 DEF StaleLogs, NeverHandedOut
    <3>2. Processing(r)' = Processing(r)
      BY <2>1 DEF Processing, RowOf
    <3> QED BY <2>1, <3>1, <3>2 DEF RowInOrder
  <2> QED BY <2>2, <2>3
<1>9. CASE UNCHANGED vars
  BY <1>9, UntouchedInOrder DEF vars, Processing, RowOf
<1>10. ASSUME NEW w \in Worker, NEW t \in Task, Claim(w, t)
      PROVE  RowInOrder(r)'
  <2>1. /\ pc[w] = "idle" /\ pc' = [pc EXCEPT ![w] = "claimed"]
        /\ task' = [task EXCEPT ![w] = t]
        /\ broker[t] > 0 /\ broker' = [broker EXCEPT ![t] = @ - 1]
        /\ status' = [status EXCEPT ![t[1]] = "processing"]
        /\ lock' = [lock EXCEPT ![t[1]] = "fresh"]
        /\ UNCHANGED <<old, payload, web, done>> /\ Claimable(t[1]) /\ t[1] \in Row
    BY <1>10, TaskRow DEF Claim, Deliver
  <2>2. CASE t[1] # r
    <3>1. status'[r] = status[r] /\ lock'[r] = lock[r]
          /\ \A u \in Task : u[1] = r => broker'[u] = broker[u]
      BY <2>1, <2>2 DEF TypeOK
    <3>2. \A v \in Worker :
            /\ pc'[v] # "idle" /\ RowOf(v)' = r => pc[v] # "idle" /\ RowOf(v) = r
            /\ v \in Processing(r)' <=> v \in Processing(r)
      BY <2>1, <2>2 DEF Processing, RowOf, TypeOK
    <3> QED BY <2>1, <3>1, <3>2, UntouchedInOrder
  <2>3. CASE t[1] = r
    <3>1. ~ NeverHandedOut(r)
      BY <2>1, <2>3 DEF NeverHandedOut
    <3>2. status[r] \in Retryable /\ status'[r] = "processing" /\ lock'[r] = "fresh"
      BY <2>1, <2>3 DEF Claimable, TypeOK, Retryable
    <3>3. Processing(r) = {}
      BY <2>1, <2>3 DEF Claimable, RowInOrder
    <3>4. Processing(r)' = {w}
      BY <2>1, <2>3, <3>3 DEF Processing, RowOf, TypeOK
    <3>5. r \notin done /\ r \in payload /\ r \notin ignoring
      BY <3>1, <3>2 DEF RowInOrder, Retryable, Settled
    <3> QED BY <2>1, <3>2, <3>4, <3>5 DEF RowInOrder
  <2> QED BY <2>2, <2>3
<1>11. ASSUME NEW w \in Worker, NEW t \in Task, SkipClaim(w, t)
      PROVE  RowInOrder(r)'
  <2>1. UNCHANGED <<logRows, web, work, done>>
        /\ broker[t] > 0 /\ broker' = [broker EXCEPT ![t] = @ - 1]
    BY <1>11 DEF SkipClaim, Deliver
  <2>2. Processing(r)' = Processing(r)
    BY <2>1 DEF Processing, RowOf
  <2>3. CASE t[1] # r
    BY <2>1, <2>2, <2>3, UntouchedInOrder DEF TypeOK, RowOf
  <2>4. CASE t[1] = r
    <3>1. ~ NeverHandedOut(r)
      BY <2>1, <2>4 DEF NeverHandedOut
    <3> QED BY <2>1, <2>2, <3>1 DEF RowInOrder
  <2> QED BY <2>3, <2>4
<1>12. ASSUME NEW w \in Worker, WorkOnTask(w) \/ WorkerCrash(w)
      PROVE  RowInOrder(r)'
  <2> DEFINE s == RowOf(w)
  <2>1. /\ pc[w] # "idle" /\ task[w] \in Task /\ s \in Row
        /\ UNCHANGED <<old, payload, web>>
        /\ \A q \in Row \ {s} :
             /\ status'[q] = status[q] /\ lock'[q] = lock[q]
             /\ q \in done' => q \in done
        /\ \A v \in Worker \ {w} : pc'[v] = pc[v] /\ task'[v] = task[v]
        /\ pc'[w] # "idle" => RowOf(w)' = s
    BY <1>12, TaskRow
    DEF WorkOnTask, Apply, Drop, Save, IgnoreOrphan, Fail, Retry, Acknowledge,
        WorkerCrash, TypeOK, BusyHaveTasks, RowOf
  <2>2. \A t \in Task : t[1] # s => broker'[t] = broker[t]
    <3>1. CASE Retry(w)
      <4>1. \A t \in Task : t # <<s, task[w][2] + 1>> => broker'[t] = broker[t]
        BY <3>1 DEF Retry, TypeOK
      <4> QED BY <4>1
    <3>2. CASE WorkerCrash(w)
      BY <3>2 DEF WorkerCrash, TypeOK, RowOf
    <3> QED BY <1>12, <3>1, <3>2
      DEF WorkOnTask, Apply, Drop, Save, IgnoreOrphan, Fail, Acknowledge
  <2>3. CASE s # r
    <3>1. Processing(r)' = Processing(r)
      BY <2>1, <2>3 DEF Processing, RowOf, TypeOK
    <3>2. \A v \in Worker : pc'[v] # "idle" /\ RowOf(v)' = r => pc[v] # "idle" /\ RowOf(v) = r
      BY <2>1, <2>3 DEF RowOf
    <3> QED BY <2>1, <2>2, <2>3, <3>1, <3>2, UntouchedInOrder
  <2>4. CASE s = r
    <3>1. status[r] # "absent" /\ r \notin ignoring
      BY <2>1, <2>4 DEF RowInOrder, NeverHandedOut
    <3>2. CASE Apply(w) \/ Drop(w)
      <4>1. Processing(r)' = Processing(r)
        BY <2>1, <2>4, <3>2 DEF Apply, Drop, Processing, RowOf, TypeOK
      <4> QED BY <2>1, <3>1, <3>2, <4>1 DEF Apply, Drop, RowInOrder
    <3>3. CASE \/ Save(w) \/ IgnoreOrphan(w) \/ Fail(w)
               \/ WorkerCrash(w) /\ w \in Processing(r)
      <4>1. w \in Processing(r)
        BY <2>4, <3>3 DEF Save, IgnoreOrphan, Fail, Processing
      <4>2. Processing(r) = {w} /\ status[r] = "processing"
        BY <4>1 DEF RowInOrder
      <4>3. Processing(r)' = {}
        BY <2>1, <3>3, <4>2 DEF Save, IgnoreOrphan, Fail, WorkerCrash, Processing, RowOf, TypeOK
      <4>4. r \notin done /\ r \in payload
        BY <4>2 DEF RowInOrder, Retryable, Settled
      <4>5. CASE Save(w) \/ IgnoreOrphan(w)
        <5>1. status'[r] \in Settled
          BY <2>4, <4>5 DEF Save, IgnoreOrphan, TypeOK, Settled
        <5> QED BY <2>1, <3>1, <4>3, <4>4, <5>1 DEF RowInOrder, Settled
      <4>6. CASE Fail(w) \/ WorkerCrash(w)
        <5>1. status'[r] # "absent" /\ done' = done
          BY <2>4, <3>1, <4>6 DEF Fail, WorkerCrash, TypeOK
        <5> QED BY <2>1, <3>1, <4>3, <4>4, <5>1 DEF RowInOrder
      <4> QED BY <3>3, <4>5, <4>6
    <3>4. CASE \/ Retry(w) \/ Acknowledge(w)
               \/ WorkerCrash(w) /\ w \notin Processing(r)
      <4>1. Processing(r)' = Processing(r)
        BY <2>1, <2>4, <3>4 DEF Retry, Acknowledge, WorkerCrash, Processing, RowOf, TypeOK
      <4>2. UNCHANGED <<status, lock, done>>
        BY <3>4 DEF Retry, Acknowledge, WorkerCrash
      <4> QED BY <2>1, <3>1, <4>1, <4>2 DEF RowInOrder
    <3> QED BY <1>12, <3>2, <3>3, <3>4 DEF WorkOnTask
  <2> QED BY <2>3, <2>4
<1> QED BY <1>1, <1>2, <1>3, <1>4, <1>5, <1>6, <1>7, <1>8, <1>9, <1>10, <1>11, <1>12
  DEF Next, TakeTask, Request, Passage

LEMMA RowsAlways == Spec => [](TypeOK /\ BusyHaveTasks /\ RowsInOrder)
<1>1. Init => RowsInOrder
  <2> SUFFICES ASSUME Init, NEW r \in Row PROVE RowInOrder(r)
    BY DEF RowsInOrder
  <2>1. Processing(r) = {}
    BY DEF Init, Processing
  <2> QED BY <2>1 DEF Init, RowInOrder, NeverHandedOut, Retryable, Settled
<1>2. /\ TypeOK /\ BusyHaveTasks /\ RowsInOrder
      /\ [Next]_vars
      => RowsInOrder'
  BY WebhookNextTypeOK, RowsNext
<1> QED BY <1>1, <1>2, WebhookInitTypeOK, WebhookNextTypeOK, PTL DEF Spec

(* No two workers process a row, until one outlives its lock or staff      *)
(* hands the row out again.                                                *)
THEOREM OneWorkerAtATime == Spec => []OneWorkerPerRow
<1>1. RowsInOrder => OneWorkerPerRow
  <2> SUFFICES ASSUME RowsInOrder, NEW r \in Row \ late, requeued[r] = 0
               PROVE  Cardinality(Processing(r)) <= 1
    BY DEF OneWorkerPerRow
  <2>1. CASE Processing(r) = {}
    BY <2>1, FS_EmptySet
  <2>2. ASSUME NEW w \in Processing(r)
        PROVE  Cardinality(Processing(r)) <= 1
    <3>1. Processing(r) = {w}
      BY <2>2 DEF RowsInOrder, RowInOrder
    <3>2. Cardinality({w}) = 1
      BY FS_Singleton, Zenon
    <3>3. Cardinality(Processing(r)) = 1
      BY <3>1, <3>2, Zenon
    <3> QED BY <3>3
  <2> QED BY <2>1, <2>2
<1> QED BY <1>1, RowsAlways, PTL

(* A settled row is not claimed again, whatever copies of its task are     *)
(* left, with the same two exceptions.                                     *)
THEOREM SettledIsFinal == Spec => SettledNotReprocessed
<1>1. TypeOK /\ RowsInOrder /\ [Next]_vars
      => [\A r \in done \ late : requeued[r] = 0 => attempts'[r] = attempts[r]]_vars
  <2> SUFFICES ASSUME TypeOK, RowsInOrder, Next, NEW r \in done \ late, requeued[r] = 0
               PROVE  attempts'[r] = attempts[r]
    OBVIOUS
  <2>1. r \in Row /\ status[r] \in Settled
    BY DEF TypeOK, RowsInOrder, RowInOrder
  <2>2. ASSUME NEW w \in Worker, NEW t \in Task, Claim(w, t)
        PROVE  attempts'[r] = attempts[r]
    <3>1. t[1] # r
      BY <2>1, <2>2 DEF Claim, Claimable, Settled
    <3> QED BY <2>1, <2>2, <3>1, TaskRow DEF Claim, Increment, TypeOK
  <2> QED BY <2>2
    DEF Next, Request, Passage, TakeTask, WorkOnTask, Post, Enqueue, IgnoreUnknown,
        WebCrash, Reprocess, GrowOld, LockAges, RedactOldPayload, RetryStaleWebhookLogs,
        SkipClaim, Apply, Drop, Save, IgnoreOrphan, Fail, Retry, Acknowledge, WorkerCrash,
        logRows
<1> QED BY <1>1, RowsAlways, PTL DEF Spec, SettledNotReprocessed

(* A row that the sweep may still hand out has its payload, with the same  *)
(* two exceptions.                                                         *)
THEOREM RetryableKeepsPayload == Spec => []RetryableHasPayload
<1>1. RowsInOrder => RetryableHasPayload
  BY DEF RowsInOrder, RowInOrder, RetryableHasPayload
<1> QED BY <1>1, RowsAlways, PTL
=============================================================================
