---------------------------- MODULE DailySendLog ----------------------------
(***************************************************************************)
(* The daily send limit: DailyDomainSendLog rows and the slots that sends  *)
(* reserve in them (providers/manager.py, providers/sending.py).           *)
(*                                                                         *)
(* A Celery worker that sends a message reserves a slot in today's row of  *)
(* the message's domain, calls the provider while holding no database      *)
(* lock, and gives the slot back when the call fails.  The row a failed    *)
(* call decrements is the row of the day of the RELEASE: a call that       *)
(* straddles midnight takes from one row and gives back to another.        *)
(*                                                                         *)
(* mailed, lost, leaked and strayed are history variables: the code keeps  *)
(* no such counts, the properties need them.                               *)
(***************************************************************************)
EXTENDS Integers, FiniteSets

CONSTANTS
  Domain,         \* sending domains
  Worker,         \* Celery worker processes
  LastDay,        \* the days are 1 .. LastDay
  DomainLimit,    \* Domain.max_send_per_day of each domain, 0 = unlimited
  ProviderLimit,  \* EmailProvider.max_send_per_day, 0 = unlimited
  NoRow           \* the slot of a worker that holds none

Day == 1 .. LastDay

(* One DailyDomainSendLog row per (domain, date): unique_domain_send_day.  *)
(* A row that does not exist yet reads as a row of zeros.                  *)
Row == Domain \X Day

ASSUME LogAssumption ==
  /\ IsFiniteSet(Worker)
  /\ LastDay \in Nat \ {0}
  /\ DomainLimit \in [Domain -> Nat]
  /\ ProviderLimit \in Nat
  /\ NoRow \notin Row

VARIABLES
  today,        \* timezone.now().date()
  sentCount,    \* sent_count of each row
  failedCount,  \* failed_count of each row
  slot,         \* the row in which a worker's current call holds a slot
  delivered,    \* has the provider accepted the mail of that call?
  mailed,       \* mails the provider accepted on a slot of each row
  lost,         \* accepted mails whose answer never reached the worker
  leaked,       \* slots never given back although nothing was mailed
  strayed       \* slots taken from each row by a call of an earlier day

counts == <<sentCount, failedCount>>
ghosts == <<mailed, lost, leaked, strayed>>
logVars == <<today, counts, slot, delivered, ghosts>>

LogTypeOK ==
  /\ today \in Day
  /\ sentCount \in [Row -> Nat]
  /\ failedCount \in [Row -> Nat]
  /\ slot \in [Worker -> Row \cup {NoRow}]
  /\ delivered \in [Worker -> BOOLEAN]
  /\ mailed \in [Row -> Nat]
  /\ lost \in [Row -> Nat]
  /\ leaked \in [Row -> Nat]
  /\ strayed \in [Row -> Nat]

LogInit ==
  /\ today = 1
  /\ sentCount = [r \in Row |-> 0]
  /\ failedCount = [r \in Row |-> 0]
  /\ slot = [w \in Worker |-> NoRow]
  /\ delivered = [w \in Worker |-> FALSE]
  /\ mailed = [r \in Row |-> 0]
  /\ lost = [r \in Row |-> 0]
  /\ leaked = [r \in Row |-> 0]
  /\ strayed = [r \in Row |-> 0]

-----------------------------------------------------------------------------
(* get_daily_send_limit: the limits that are set, the smallest one counts. *)
Limits(d) == {DomainLimit[d], ProviderLimit} \ {0}

(* Mutant of HasRoom: off by one.                                          *)
OneTooMany(d, count) == \A limit \in Limits(d) : count <= limit

HasRoom(d, count) == \A limit \in Limits(d) : count < limit

TodaysRow(d) == <<d, today>>

Increment(f, r) == [f EXCEPT ![r] = @ + 1]

(* Mutant of ReserveSendSlot: the check was made on an earlier read.       *)
ReserveUnchecked(w, d) ==
  /\ slot[w] = NoRow
  /\ sentCount' = Increment(sentCount, TodaysRow(d))
  /\ slot' = [slot EXCEPT ![w] = TodaysRow(d)]
  /\ UNCHANGED <<today, failedCount, delivered, ghosts>>

(* reserve_send_slot returns True: check and increment under the row lock. *)
ReserveSendSlot(w, d) ==
  /\ slot[w] = NoRow
  /\ HasRoom(d, sentCount[TodaysRow(d)])
  /\ sentCount' = Increment(sentCount, TodaysRow(d))
  /\ slot' = [slot EXCEPT ![w] = TodaysRow(d)]
  /\ UNCHANGED <<today, failedCount, delivered, ghosts>>

(* reserve_send_slot returns False, and send_with_provider records the     *)
(* refused send with record_send_failure.                                  *)
RefuseSendSlot(w, d) ==
  /\ slot[w] = NoRow
  /\ ~ HasRoom(d, sentCount[TodaysRow(d)])
  /\ failedCount' = Increment(failedCount, TodaysRow(d))
  /\ UNCHANGED <<today, sentCount, slot, delivered, ghosts>>

(* The provider takes the mail; its answer is still on the way.            *)
ProviderAccepts(w) ==
  /\ slot[w] # NoRow
  /\ ~ delivered[w]
  /\ delivered' = [delivered EXCEPT ![w] = TRUE]
  /\ mailed' = Increment(mailed, slot[w])
  /\ UNCHANGED <<today, counts, slot, lost, leaked, strayed>>

(* The call ends and leaves no slot behind in the worker.                  *)
LetGo(w) ==
  /\ slot' = [slot EXCEPT ![w] = NoRow]
  /\ delivered' = [delivered EXCEPT ![w] = FALSE]

(* The call returned normally: the slot stays counted.                     *)
ConfirmSend(w) ==
  /\ slot[w] # NoRow
  /\ delivered[w]
  /\ LetGo(w)
  /\ UNCHANGED <<today, counts, ghosts>>

(* Mutant of ReleaseSendSlot: without Greatest(..., 0).                    *)
ReleaseUnclamped(w) ==
  LET own == slot[w]
      row == TodaysRow(own[1])
  IN
    /\ own # NoRow
    /\ sentCount' = [sentCount EXCEPT ![row] = @ - 1]
    /\ lost' = IF delivered[w] THEN Increment(lost, own) ELSE lost
    /\ leaked' = IF row # own THEN Increment(leaked, own) ELSE leaked
    /\ strayed' = IF row # own THEN Increment(strayed, row) ELSE strayed
    /\ LetGo(w)

(* release_send_slot: UPDATE today's row SET sent_count =                  *)
(* Greatest(sent_count - 1, 0).  The slot's own row is not consulted.      *)
ReleaseSendSlot(w) ==
  LET own == slot[w]
      row == TodaysRow(own[1])
  IN
    /\ own # NoRow
    /\ sentCount' = [sentCount EXCEPT ![row] = IF @ > 0 THEN @ - 1 ELSE 0]
    /\ lost' = IF delivered[w] THEN Increment(lost, own) ELSE lost
    /\ leaked' = IF row # own THEN Increment(leaked, own) ELSE leaked
    /\ strayed' = IF row # own /\ sentCount[row] > 0
                  THEN Increment(strayed, row) ELSE strayed
    /\ LetGo(w)

(* Mutant of TransientFailure: the slot is not given back.                 *)
TransientLeak(w) ==
  /\ slot[w] # NoRow
  /\ LetGo(w)
  /\ UNCHANGED <<today, counts, ghosts>>

(* except TransientSendError: give the slot back, the caller retries.      *)
TransientFailure(w) ==
  /\ ReleaseSendSlot(w)
  /\ UNCHANGED <<today, failedCount, mailed>>

(* except PermanentSendError: give the slot back and count the failure.    *)
(* The provider refused the mail, so it was not delivered.                 *)
PermanentFailure(w) ==
  /\ ~ delivered[w]
  /\ ReleaseSendSlot(w)
  /\ failedCount' = Increment(failedCount, TodaysRow(slot[w][1]))
  /\ UNCHANGED <<today, mailed>>

(* Mutant of AbandonSlot: every exception gives the slot back, whatever    *)
(* became of the mail.                                                     *)
AbandonReleases(w) ==
  /\ slot[w] # NoRow
  /\ sentCount' = [sentCount EXCEPT ![slot[w]] = IF @ > 0 THEN @ - 1 ELSE 0]
  /\ LetGo(w)
  /\ UNCHANGED <<today, failedCount, ghosts>>

(* The call ends in any other exception, or the worker dies in it: no      *)
(* handler of send_with_provider runs and the slot stays counted.          *)
AbandonSlot(w) ==
  /\ slot[w] # NoRow
  /\ leaked' = IF delivered[w] THEN leaked ELSE Increment(leaked, slot[w])
  /\ LetGo(w)
  /\ UNCHANGED <<today, counts, mailed, lost, strayed>>

(* The date changes, whatever the workers are doing.                       *)
Midnight ==
  /\ today < LastDay
  /\ today' = today + 1
  /\ UNCHANGED <<counts, slot, delivered, ghosts>>

SendCall(w) ==
  \/ \E d \in Domain : ReserveSendSlot(w, d) \/ RefuseSendSlot(w, d)
  \/ ProviderAccepts(w)
  \/ ConfirmSend(w)
  \/ TransientFailure(w)
  \/ PermanentFailure(w)
  \/ AbandonSlot(w)

LogNext == Midnight \/ \E w \in Worker : SendCall(w)

LogSpec == LogInit /\ [][LogNext]_logVars

-----------------------------------------------------------------------------
(* Workers whose call holds a slot of row r that carries no mail yet.      *)
Holders(r) == {w \in Worker : slot[w] = r /\ ~ delivered[w]}

(* sent_count never passes a limit that is set (the purpose of             *)
(* reserve_send_slot's lock: workers near the cap may not all pass).       *)
CountWithinLimit ==
  \A d \in Domain, t \in Day : \A limit \in Limits(d) :
    sentCount[<<d, t>>] <= limit

(* Every mail and every call under way is counted: sent_count falls short  *)
(* of them only by the slots that stray releases took and by the accepted  *)
(* mails whose answer was lost.                                            *)
EveryMailCounted ==
  \A r \in Row :
    mailed[r] + Cardinality(Holders(r)) <= sentCount[r] + strayed[r] + lost[r]

(* What the limit is worth to the provider: the mails accepted on a day's  *)
(* slots pass the limit by no more than the stray releases of that day and *)
(* the lost answers.  Without a call across midnight and without a lost    *)
(* answer the limit is exact.                                              *)
MailWithinLimit ==
  \A d \in Domain, t \in Day : \A limit \in Limits(d) :
    mailed[<<d, t>>] <= limit + strayed[<<d, t>>] + lost[<<d, t>>]

(* "the reserved slot must not leak" (providers/sending.py:128): a counted *)
(* slot is a mail, a call under way, or one of the known leaks - a call    *)
(* that ended in another exception, died, or straddled midnight.           *)
NoSlotLeaksOtherwise ==
  \A r \in Row : sentCount[r] <= mailed[r] + Cardinality(Holders(r)) + leaked[r]
=============================================================================
