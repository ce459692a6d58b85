----------------------------- MODULE InboundMail -----------------------------
(***************************************************************************)
(* Inbound mail from the stored webhook to the mailbox: resolution,        *)
(* deduplication, quota, threads, rules and forwarding                     *)
(* (process_webhook_log and create_inbound_message, providers/ingest.py;   *)
(* hedwig/rules.py), with what works on the same rows meanwhile: users who *)
(* compose and delete (hedwig/manager.py, hedwig/signals.py), the nightly  *)
(* reconciliation of used_bytes (hedwig/tasks.py), and staff who closes and*)
(* opens mailboxes.                                                        *)
(*                                                                         *)
(* create_inbound_message reads unlocked whether the mail is there, and    *)
(* then works in a transaction that holds the mailbox row: two steps here, *)
(* one that takes the row and one that commits.  A write of the mailbox row*)
(* waits for the holder, and so does the commit of a message or a thread   *)
(* whose foreign key names the row; the reads of a composing request do    *)
(* not.                                                                    *)
(*                                                                         *)
(* One webhook row reaches one worker at a time, until a worker dies or    *)
(* outlives its lock (WebhookLog): both put the row back here.             *)
(***************************************************************************)
EXTENDS MailRouting, MailThreads, FiniteSetsExt

CONSTANTS
  Root,         \* mails that are not forwarded ones
  Writer,       \* the mailbox a root is composed in, or NoMailbox for the world
  Recipients,   \* the recipients of each root, inside the domain
  HasPid,       \* roots that carry a provider message id
  Subject,      \* the subject of each root, without reply and forward prefixes
  References,   \* the roots that the In-Reply-To and References of each root name
  Drafts,       \* the roots that are composed as drafts
  FactSets,     \* what rules can tell of messages ...
  Facts,        \* ... and of each root
  Declared,     \* the attachment bytes each root declares ...
  Stored,       \* ... and those it stores
  Quota,        \* Mailbox.quota_bytes, 0 for no limit
  RuleSets,     \* sets of rules that mailboxes may have ...
  Rules,        \* ... and the rules of each mailbox
  ForwardTo,    \* Mailbox.forward_to, if any
  Worker,       \* Celery workers
  Closable,     \* bound on the mailboxes staff closes and opens
  MaxDisturbances, \* bound on the deletions by users, the openings and closings by staff,
                   \* the rows put back by dead or late workers, and the reconciliations
  World         \* the sender of mail from outside

MaxForwardDepth == 3

(* A message: a root, or what a mailbox has forwarded of it; the depth is  *)
(* the X-Hedwig-Forward-Depth header.  Whoever forwards a mail twice to one*)
(* address is taken to have forwarded it once.                             *)
Mail ==
  [root : Root, depth : 0 .. MaxForwardDepth + 1,
   from : Address \cup {World}, to : Seq(Address)]

Composed == {r \in Root : Writer[r] # NoMailbox}

(* A draft keeps no references (create_draft_message), and to a draft that *)
(* has been sent a user here replies by naming its thread.                 *)
ASSUME InboundAssumption ==
  /\ Writer \in [Root -> Mailbox \cup {NoMailbox}]
  /\ References \in [Root -> SUBSET Root]
  /\ Drafts \subseteq Composed
  /\ \A r \in Drafts : References[r] = {} /\ \A q \in Composed : r \notin References[q]
  /\ Recipients \in [Root -> Seq(Address)]
  /\ HasPid \subseteq Root
  /\ DOMAIN Subject = Root
  /\ FactSets \subseteq SUBSET Fact
  /\ Facts \in [Root -> FactSets]
  /\ Declared \in [Root -> Nat]
  /\ Stored \in [Root -> Nat]
  /\ Quota \in [Mailbox -> Nat]
  /\ RuleSets \subseteq RuleSet
  /\ Rules \in [Mailbox -> RuleSets]
  /\ ForwardTo \in [Mailbox -> AtMostOne(Address)]
  /\ Closable \subseteq Mailbox
  /\ MaxDisturbances \in Nat
  /\ World \notin Address

VARIABLES
  open,       \* mailboxes that are active and receive
  queue,      \* webhook rows waiting for a worker, and outbound mails on their way back in
  failed,     \* webhook rows whose processing raised an error
  ignored,    \* webhook rows that ended without effect
  held,       \* inbound messages, each with its mailbox
  sent,       \* outbound messages, each with its mailbox
  used,       \* Mailbox.used_bytes
  threads,    \* the threads of each mailbox, in the order in which they were opened
  pc,         \* where a worker is in create_inbound_message
  hand,       \* the mail it works on
  target,     \* the mailbox it has resolved
  reading,    \* the thread its transaction has read
  composing,  \* how far the composing of a root is
  draft,      \* the thread the composing request goes by
  totals,     \* the sums the reconciliation has read
  toFix,      \* the mailboxes it has still to compare
  drifted,    \* history: mailboxes whose used_bytes may differ from the sum
  disturbances \* history: how many of those there have been

rowVars == <<queue, failed, ignored>>
mailVars == <<held, sent, used, threads>>
workVars == <<pc, hand, target, reading>>
composeVars == <<composing, draft>>
sweepVars == <<totals, toFix>>
historyVars == <<drifted, disturbances>>
vars == <<open, rowVars, mailVars, workVars, composeVars, sweepVars, historyVars>>

(* An EmailThread, and what somebody has read of one.                      *)
Conversation ==
  [subject : {Subject[r] : r \in Root}, root : Mail \cup {NoMail},
   joined : SUBSET Mail, known : SUBSET Mail]

Thread == [place : Nat, root : Mail \cup {NoMail}, known : SUBSET Mail]

RootMail(r) ==
  [root |-> r, depth |-> 0, to |-> Recipients[r],
   from |-> IF Writer[r] = NoMailbox THEN World ELSE AddressOf[Writer[r]]]

(* What a mail refers to; what is forwarded refers to nothing.             *)
RefsOf(x) == IF x.depth = 0 THEN {RootMail(q) : q \in References[x.root]} ELSE {}

(* The world answers what has been composed once it has left.              *)
Unasked == {r \in Root \ Composed : References[r] \cap Composed = {}}

Answering(r) == {q \in Root \ Composed : References[q] \cap Composed = {r}}

TypeOK ==
  /\ open \subseteq Mailbox
  /\ queue \cup failed \cup ignored \subseteq Mail
  /\ held \subseteq Mail \X Mailbox
  /\ sent \subseteq Mail \X Mailbox
  /\ used \in [Mailbox -> Nat]
  /\ threads \in [Mailbox -> Seq(Conversation)]
  /\ pc \in [Worker -> {"idle", "found", "inside", "save"}]
  /\ hand \in [Worker -> Mail \cup {NoMail}]
  /\ target \in [Worker -> Mailbox \cup {NoMailbox}]
  /\ reading \in [Worker -> Thread]
  /\ composing \in [Composed -> {"new", "reading", "draft", "written"}]
  /\ draft \in [Composed -> Thread]
  /\ totals \in [Mailbox -> Nat]
  /\ toFix \subseteq Mailbox
  /\ drifted \subseteq Mailbox
  /\ disturbances \in 0 .. MaxDisturbances

(* The world's mail, but for answers, has been posted to the webhook from the start: workers *)
(* take it in any order.                                                   *)
Init ==
  /\ open = Mailbox
  /\ queue = {RootMail(r) : r \in Unasked}
  /\ failed = {}
  /\ ignored = {}
  /\ held = {}
  /\ sent = {}
  /\ used = [mb \in Mailbox |-> 0]
  /\ threads = [mb \in Mailbox |-> <<>>]
  /\ pc = [w \in Worker |-> "idle"]
  /\ hand = [w \in Worker |-> NoMail]
  /\ target = [w \in Worker |-> NoMailbox]
  /\ reading = [w \in Worker |-> NoThread]
  /\ composing = [r \in Composed |-> "new"]
  /\ draft = [r \in Composed |-> NoThread]
  /\ totals = used
  /\ toFix = {}
  /\ drifted = {}
  /\ disturbances = 0

-----------------------------------------------------------------------------
(* The message itself counts one byte, its attachments theirs.             *)
Size(x) == 1 + Stored[x.root]

IncomingSize(x) == 1 + Declared[x.root]

(* An outbound message counts its attachments only.                        *)
OutboundSize(x) == Stored[x.root]

Total(mb) ==
  MapThenSumSet(LAMBDA h : Size(h[1]), {h \in held : h[2] = mb})
  + MapThenSumSet(LAMBDA h : OutboundSize(h[1]), {h \in sent : h[2] = mb})

(* Every mail that Hedwig has sent itself has a provider id.               *)
HasProviderId(x) == x.depth > 0 \/ x.root \in HasPid \cup Composed

(* Whether the mail is there: by the provider's id, or else by Message-ID  *)
(* in the mailbox.                                                         *)
Existing(x, mb) ==
  IF HasProviderId(x) THEN \E h \in held : h[1] = x ELSE <<x, mb>> \in held

(* A constraint that spans the received messages only.                     *)
RefusedReceived(x, mb) ==
  \/ <<x, mb>> \in held
  \/ HasProviderId(x) /\ \E h \in held : h[1] = x

(* unique_rfc_message_per_mailbox and unique_provider_message_id.          *)
Refused(x, mb) ==
  \/ <<x, mb>> \in held \cup sent
  \/ HasProviderId(x) /\ \E h \in held : h[1] = x

(* A transaction that takes no lock on the mailbox.                        *)
NoHolder(mb) == {}

(* Who holds the mailbox row.                                              *)
Holder(mb) == {w \in Worker : pc[w] = "inside" /\ target[w] = mb}

Inserting(x) == {w \in Worker : pc[w] = "inside" /\ hand[w] = x}

-----------------------------------------------------------------------------
(* The workers.                                                            *)

(* resolve_mailbox and the lookup that comes before the transaction.       *)
Find(w, x) ==
  LET mb == Resolve(open, x.to) IN
    /\ pc[w] = "idle"
    /\ x \in queue
    /\ queue' = queue \ {x}
    /\ pc' = [pc EXCEPT ![w] = IF mb = NoMailbox THEN "save"
                               ELSE IF Existing(x, mb) THEN "save" ELSE "found"]
    /\ hand' = [hand EXCEPT ![w] = x]
    /\ target' = [target EXCEPT ![w] = mb]
    /\ UNCHANGED <<open, failed, ignored, mailVars, reading, composeVars, sweepVars, historyVars>>

(* A quota that looks at what is there already only.                       *)
FitsBefore(x, mb) == Quota[mb] = 0 \/ used[mb] <= Quota[mb]

Fits(x, mb) == Quota[mb] = 0 \/ used[mb] + IncomingSize(x) <= Quota[mb]

(* The transaction takes the mailbox row, admits the mail, and looks for   *)
(* its thread.  A second insert of the same mail waits for the first one's *)
(* end.                                                                    *)
Enter(w) ==
  /\ pc[w] = "found"
  /\ Holder(target[w]) = {}
  /\ Inserting(hand[w]) = {}
  /\ Fits(hand[w], target[w])
  /\ ~ Refused(hand[w], target[w])
  /\ pc' = [pc EXCEPT ![w] = "inside"]
  /\ \E thread \in Lookup(threads[target[w]], RefsOf(hand[w]), Subject[hand[w].root]) :
       reading' = [reading EXCEPT ![w] = thread]
  /\ UNCHANGED <<open, rowVars, mailVars, hand, target, composeVars, sweepVars, historyVars>>

LetGo(w) ==
  /\ reading' = [reading EXCEPT ![w] = NoThread]
  /\ pc' = [pc EXCEPT ![w] = "idle"]
  /\ hand' = [hand EXCEPT ![w] = NoMail]
  /\ target' = [target EXCEPT ![w] = NoMailbox]

(* MailboxQuotaExceeded: the mail is dropped, and its row ignored.         *)
OverQuota(w) ==
  /\ pc[w] = "found"
  /\ Holder(target[w]) = {}
  /\ ~ Fits(hand[w], target[w])
  /\ ignored' = ignored \cup {hand[w]}
  /\ LetGo(w)
  /\ UNCHANGED <<open, queue, failed, mailVars, composeVars, sweepVars, historyVars>>

(* A unique constraint refuses the message: the error leaves the row failed*)
(* to be tried again.                                                      *)
InsertRefused(w) ==
  /\ pc[w] = "found"
  /\ Holder(target[w]) = {}
  /\ Inserting(hand[w]) = {}
  /\ Fits(hand[w], target[w])
  /\ Refused(hand[w], target[w])
  /\ failed' = failed \cup {hand[w]}
  /\ LetGo(w)
  /\ UNCHANGED <<open, queue, ignored, mailVars, composeVars, sweepVars, historyVars>>

(* A depth that is checked one hop late.                                  *)
ForwardTooOften(x, mb, a) ==
  IF a = x.from \/ x.depth > MaxForwardDepth THEN {}
  ELSE {[root |-> x.root, depth |-> x.depth + 1, from |-> AddressOf[mb], to |-> <<a>>]}

(* forward_message: not back to the sender, and not past the depth.        *)
Forward(x, mb, a) ==
  IF a = x.from \/ x.depth >= MaxForwardDepth THEN {}
  ELSE {[root |-> x.root, depth |-> x.depth + 1, from |-> AddressOf[mb], to |-> <<a>>]}

(* The copies of a mail that its mailbox's rules and its forward_to send.  *)
Copies(x, mb) ==
  UNION {Forward(x, mb, a) :
           a \in ToSet(EvaluateRules(Rules[mb], Facts[x.root], "inbox").forwards)
                 \cup ForwardTo[mb]}

(* The transaction commits: message, used_bytes, thread, and the copies    *)
(* with their threads.  A copy is an outbound message of the mailbox, with *)
(* the subject of its original; one it has sent already is not sent again. *)
Commit(w) ==
  LET x == hand[w]
      mb == target[w]
      copies == {c \in Copies(x, mb) : <<c, mb>> \notin sent}
  IN
    /\ pc[w] = "inside"
    /\ held' = held \cup {<<x, mb>>}
    /\ sent' = sent \cup {<<c, mb>> : c \in copies}
    /\ queue' = queue \cup copies
    /\ used' = [used EXCEPT ![mb] = @ + Size(x)]
    /\ \E list \in FileCopies(File(threads[mb], reading[w], x, {x}, Subject[x.root]),
                              copies, Subject[x.root]) :
         threads' = [threads EXCEPT ![mb] = list]
    /\ drifted' = IF \E c \in copies : OutboundSize(c) > 0 THEN drifted \cup {mb} ELSE drifted
    /\ pc' = [pc EXCEPT ![w] = "save"]
    /\ reading' = [reading EXCEPT ![w] = NoThread]
    /\ UNCHANGED <<open, failed, ignored, hand, target, composeVars, sweepVars, disturbances>>

(* process_webhook_log saves the row: processed, or ignored for want of a  *)
(* mailbox.                                                                *)
Save(w) ==
  /\ pc[w] = "save"
  /\ ignored' = IF target[w] = NoMailbox THEN ignored \cup {hand[w]} ELSE ignored
  /\ LetGo(w)
  /\ UNCHANGED <<open, queue, failed, mailVars, composeVars, sweepVars, historyVars>>

Disturb ==
  /\ disturbances < MaxDisturbances
  /\ disturbances' = disturbances + 1

(* A worker dies, its transaction rolled back, and its row is processed    *)
(* again.                                                                  *)
Die(w) ==
  /\ pc[w] # "idle"
  /\ Disturb
  /\ queue' = queue \cup {hand[w]}
  /\ LetGo(w)
  /\ UNCHANGED <<open, failed, ignored, mailVars, composeVars, sweepVars, drifted>>

(* A worker outlives its lock on the row: another may take it meanwhile.   *)
Outlive(w) ==
  /\ pc[w] # "idle"
  /\ Disturb
  /\ queue' = queue \cup {hand[w]}
  /\ UNCHANGED <<open, failed, ignored, mailVars, workVars, composeVars, sweepVars, drifted>>

(* A failed row is tried again, by its task or by the sweep.               *)
Retry(x) ==
  /\ x \in failed
  /\ failed' = failed \ {x}
  /\ queue' = queue \cup {x}
  /\ UNCHANGED <<open, ignored, mailVars, workVars, composeVars, sweepVars, historyVars>>

-----------------------------------------------------------------------------
(* Users, staff, the outbound pipeline and the reconciliation.             *)

(* create_outbound_message goes by the thread that the request names, or   *)
(* looks for one by references and subject ...                             *)
ComposeFind(r) ==
  LET list == threads[Writer[r]] IN
    /\ r \notin Drafts
    /\ composing[r] = "new"
    /\ composing' = [composing EXCEPT ![r] = "reading"]
    /\ \E thread \in Lookup(list, RefsOf(RootMail(r)), Subject[r])
                      \cup {Copy(list, i) : i \in DOMAIN list} :
         draft' = [draft EXCEPT ![r] = thread]
    /\ UNCHANGED <<open, rowVars, mailVars, workVars, sweepVars, historyVars>>

(* An outbound message leaves, and the world's answers come in.            *)
Leave(r) ==
  /\ composing' = [composing EXCEPT ![r] = "written"]
  /\ queue' = queue \cup {RootMail(q) : q \in {r} \cup Answering(r)}

(* An outbound message is stored; its attachments count for nothing.       *)
StoreOutbound(r) ==
  /\ sent' = sent \cup {<<RootMail(r), Writer[r]>>}
  /\ drifted' = IF OutboundSize(RootMail(r)) > 0 THEN drifted \cup {Writer[r]} ELSE drifted

(* ... and commits message and thread; the commit waits for the mailbox    *)
(* row, and the mail leaves.                                               *)
ComposeCommit(r) ==
  LET mb == Writer[r]
      x == RootMail(r)
  IN
    /\ composing[r] = "reading"
    /\ Holder(mb) = {}
    /\ StoreOutbound(r)
    /\ Leave(r)
    /\ draft' = [draft EXCEPT ![r] = NoThread]
    /\ threads' = [threads EXCEPT ![mb] = File(@, draft[r], x, {x}, Subject[r])]
    /\ UNCHANGED <<open, failed, ignored, held, used, workVars, sweepVars, disturbances>>

(* create_draft_message: in a thread of its own or one the request names.  *)
(* A draft has a blank Message-ID, and unique_rfc_message_per_mailbox lets *)
(* a mailbox have one such.                                                *)
CreateDraft(r) ==
  LET mb == Writer[r]
      x == RootMail(r)
  IN
    /\ r \in Drafts
    /\ composing[r] = "new"
    /\ \A d \in Drafts : composing[d] = "draft" => <<RootMail(d), mb>> \notin sent
    /\ Holder(mb) = {}
    /\ StoreOutbound(r)
    /\ composing' = [composing EXCEPT ![r] = "draft"]
    /\ \/ threads' = [threads EXCEPT ![mb] = FileDraft(@, x, Subject[r])]
       \/ \E i \in DOMAIN threads[mb] : threads' = [threads EXCEPT ![mb] = FileDraftAt(@, i, x)]
    /\ UNCHANGED <<open, rowVars, held, used, workVars, draft, sweepVars, disturbances>>

(* promote_draft_to_send: the draft gets its Message-ID and leaves; its    *)
(* thread is not touched.                                                  *)
PromoteDraft(r) ==
  /\ composing[r] = "draft"
  /\ <<RootMail(r), Writer[r]>> \in sent
  /\ Leave(r)
  /\ UNCHANGED <<open, failed, ignored, mailVars, workVars, draft, sweepVars, historyVars>>

(* The request's write of the thread and a worker's meet, each waiting for *)
(* the row the other holds: the database lets one of them fail.            *)
ComposeFails(r) ==
  /\ composing[r] = "reading"
  /\ Holder(Writer[r]) # {}
  /\ composing' = [composing EXCEPT ![r] = "written"]
  /\ draft' = [draft EXCEPT ![r] = NoThread]
  /\ UNCHANGED <<open, rowVars, mailVars, workVars, sweepVars, historyVars>>

WorkerFails(w) ==
  /\ pc[w] = "inside"
  /\ \E r \in Composed : composing[r] = "reading" /\ Writer[r] = target[w]
  /\ failed' = failed \cup {hand[w]}
  /\ LetGo(w)
  /\ UNCHANGED <<open, queue, ignored, mailVars, composeVars, sweepVars, historyVars>>

(* A subtraction without Greatest.                                         *)
DecrementUnfloored(mb, size) == used' = [used EXCEPT ![mb] = @ - size]

(* Both the signal and the view subtract the size.                        *)
DecrementTwice(mb, size) ==
  used' = [used EXCEPT ![mb] = IF @ >= 2 * size THEN @ - 2 * size ELSE 0]

(* A user deletes a message for good; used_bytes goes down with it, but not*)
(* below zero.                                                             *)
DecrementUsed(mb, size) ==
  used' = [used EXCEPT ![mb] = IF @ >= size THEN @ - size ELSE 0]

Delete(h) ==
  /\ h \in held \cup sent
  /\ Disturb
  /\ Holder(h[2]) = {}
  /\ \/ h \in held /\ held' = held \ {h} /\ sent' = sent /\ DecrementUsed(h[2], Size(h[1]))
     \/ h \in sent /\ sent' = sent \ {h} /\ held' = held /\ DecrementUsed(h[2], OutboundSize(h[1]))
  /\ threads' = [threads EXCEPT ![h[2]] = Unfile(@, h[1])]
  /\ UNCHANGED <<open, rowVars, workVars, composeVars, sweepVars, drifted>>

(* Staff closes a mailbox, or opens it.                                    *)
Toggle(mb) ==
  /\ mb \in Closable
  /\ Disturb
  /\ open' = IF mb \in open THEN open \ {mb} ELSE open \cup {mb}
  /\ UNCHANGED <<rowVars, mailVars, workVars, composeVars, sweepVars, drifted>>

(* reconcile_mailbox_used_bytes_task sums up the messages of all mailboxes *)
ReconcileRead ==
  /\ toFix = {}
  /\ Disturb
  /\ totals' = [mb \in Mailbox |-> Total(mb)]
  /\ toFix' = Mailbox
  /\ UNCHANGED <<open, rowVars, mailVars, workVars, composeVars, drifted>>

(* ... and then writes them, mailbox by mailbox.                           *)
ReconcileWrite(mb) ==
  /\ mb \in toFix
  /\ Holder(mb) = {}
  /\ used' = [used EXCEPT ![mb] = totals[mb]]
  /\ drifted' = IF totals[mb] = Total(mb) THEN drifted \ {mb} ELSE drifted \cup {mb}
  /\ toFix' = toFix \ {mb}
  /\ totals' = [totals EXCEPT ![mb] = 0]
  /\ UNCHANGED <<open, rowVars, held, sent, threads, workVars, composeVars, disturbances>>

-----------------------------------------------------------------------------
Work(w) ==
  \/ \E x \in queue : Find(w, x)
  \/ Enter(w) \/ OverQuota(w) \/ InsertRefused(w) \/ Commit(w) \/ Save(w)

Reconcile == ReconcileRead \/ \E mb \in Mailbox : ReconcileWrite(mb)

Next ==
  \/ \E w \in Worker : Work(w) \/ Die(w) \/ Outlive(w) \/ WorkerFails(w)
  \/ \E x \in failed : Retry(x)
  \/ \E r \in Composed :
       ComposeFind(r) \/ ComposeCommit(r) \/ ComposeFails(r) \/ CreateDraft(r) \/ PromoteDraft(r)
  \/ \E h \in held \cup sent : Delete(h)
  \/ \E mb \in Closable : Toggle(mb)
  \/ Reconcile

Spec == Init /\ [][Next]_vars

-----------------------------------------------------------------------------
Store == INSTANCE MailboxStore WITH Identified <- HasProviderId

(* The lookup before the transaction, the transaction, its constraints, and*)
(* the retries make a store of mail in which nothing arrives twice         *)
(* (create_inbound_message).                                               *)
StoreSpec == Store!StoreSpec

(* used_bytes is what the mailbox holds, whatever arrives and is deleted,  *)
(* except after an outbound message with attachments, which nobody counts, *)
(* and after a reconciliation that mail has overtaken, until the next one. *)
UsedMatchesStored ==
  \A mb \in Mailbox \ drifted : used[mb] = Total(mb)

(* "concurrent ingest for the same mailbox ... can't ... both get admitted *)
(* over quota" (ingest.py:246): a mail is admitted only if it fits with    *)
(* all that is there, but for the bytes its attachments have not declared. *)
QuotaKept ==
  [][\A h \in held' \ held :
       LET x == h[1]  mb == h[2] IN
         Quota[mb] > 0 /\ mb \notin drifted =>
           Total(mb) + IncomingSize(x) <= Quota[mb]]_vars

(* A mail that continues a thread of its mailbox, by its In-Reply-To or    *)
(* References, joins one that it continues, whatever subject it has and    *)
(* whatever other thread has this subject (update_thread_for_message).     *)
RepliesJoin ==
  [][\A h \in held' \ held :
       LET mb == h[2]
           continued == {i \in DOMAIN threads[mb] : Continues(RefsOf(h[1]), threads[mb][i])}
       IN
         continued # {} => \E i \in continued : h[1] \in threads'[mb][i].joined]_vars

(* "two messages for a brand-new conversation can't both fail to find an   *)
(* existing thread" (ingest.py:136): workers open no second thread of a    *)
(* subject, whatever other workers, composing requests and drafts do.      *)
IngestOpensNoSecondThread ==
  [][held' \ held # {} =>
       \A mb \in Mailbox : \A j \in DOMAIN threads'[mb] \ DOMAIN threads[mb] :
         LET subject == threads'[mb][j].subject IN
           subject # NoSubject => \A i \in 1 .. j - 1 : threads'[mb][i].subject # subject]_vars

(* A mail arrives together with its thread, which has it and its           *)
(* participants and all that were there when it arrives: workers do not    *)
(* overwrite each other's or a request's (update_thread_for_message under  *)
(* the mailbox lock).                                                      *)
IngestKeepsParticipants ==
  [][\A h \in held' \ held :
       LET list == threads[h[2]]
           now == threads'[h[2]]
       IN
         /\ \E i \in DOMAIN now : h[1] \in now[i].joined \cap now[i].known
         /\ \A i \in DOMAIN list : list[i].joined \subseteq now[i].joined
                                   /\ list[i].known \subseteq now[i].known]_vars

(* A worker only works on a mail for a mailbox it is addressed to, or for  *)
(* the catch-all mailbox (resolve_mailbox).                                *)
TargetsAddressed ==
  \A w \in Worker :
    target[w] \in {NoMailbox, CatchAll}
      \/ \E p \in ToSet(hand[w].to) :
           AddressOf[target[w]] = p \/ (p \in DOMAIN AliasOf /\ AliasOf[p] = target[w])

ShortListsResolve == ResolvesAsPromised(BoundedSeq(Address, 3))

(* Whatever mailboxes are open, a mail reaches the first of up to three    *)
(* recipients that answers, and this is where the workers deliver it       *)
(* (resolve_mailbox).                                                      *)
ResolutionHolds == ShortListsResolve /\ TargetsAddressed

(* What a mailbox forwards it forwards where an active rule of it or its   *)
(* forward_to says.                                                        *)
ForwardedAsRuled ==
  \A c \in sent :
    c[1].depth > 0 =>
      ToSet(c[1].to) \subseteq
        ForwardTo[c[2]] \cup UNION {r.forward_to : r \in {s \in Rules[c[2]] : s.is_active}}

RulesApply == RulesAsPromised(RuleSets, FactSets)

(* Rules fire in order, each by the labels of those before it, up to one   *)
(* that stops (evaluate_rules), and what a mailbox forwards it forwards    *)
(* where an active rule or its forward_to says.                            *)
RulesHold == RulesApply /\ ForwardedAsRuled

(* Mailboxes that forward to each other stop: across any number of         *)
(* mailboxes and webhooks no mail makes more hops than MAX_FORWARD_DEPTH.  *)
ForwardingStops ==
  \A x \in queue \cup failed \cup ignored :
    x.depth <= MaxForwardDepth
=============================================================================
