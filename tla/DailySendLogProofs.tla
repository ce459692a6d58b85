------------------------- MODULE DailySendLogProofs -------------------------
(***************************************************************************)
(* The accounting of DailySendLog, for any domains, workers, limits and    *)
(* number of days.  LogInv is inductive: the two bounds that frame         *)
(* sent_count (EveryMailCounted, NoSlotLeaksOtherwise) follow each slot    *)
(* from its reservation to its end, and CountWithinLimit turns the first   *)
(* of them into a bound on the mail that leaves.                           *)
(***************************************************************************)
EXTENDS DailySendLog, FiniteSetTheorems, TLAPS

(* A mail is only under way on a slot.                                     *)
DeliveredHoldsSlot == \A w \in Worker : delivered[w] => slot[w] # NoRow

LogInv ==
  /\ LogTypeOK
  /\ DeliveredHoldsSlot
  /\ CountWithinLimit
  /\ EveryMailCounted
  /\ NoSlotLeaksOtherwise

-----------------------------------------------------------------------------
(* How a step moves one worker among the holders of a row.                 *)

LEMMA HoldersFinite ==
  \A r \in Row : IsFiniteSet(Holders(r)) /\ Cardinality(Holders(r)) \in Nat
<1>1. \A r \in Row : IsFiniteSet(Holders(r))
  BY LogAssumption, FS_Subset DEF Holders
<1> QED BY <1>1, FS_CardinalityType

LEMMA HoldersFiniteNext ==
  \A r \in Row : /\ IsFiniteSet(Holders(r)')
                 /\ Cardinality(Holders(r)') \in Nat
<1>1. \A r \in Row : IsFiniteSet(Holders(r)')
  BY LogAssumption, FS_Subset DEF Holders
<1> QED BY <1>1, FS_CardinalityType

(* A worker that takes a slot joins the holders of its row alone.          *)
LEMMA HoldersGain ==
  ASSUME NEW w \in Worker, NEW row \in Row, LogTypeOK,
         slot[w] = NoRow, ~ delivered[w],
         slot' = [slot EXCEPT ![w] = row], delivered' = delivered
  PROVE  \A r \in Row : Cardinality(Holders(r)') =
           IF r = row THEN Cardinality(Holders(r)) + 1 ELSE Cardinality(Holders(r))
<1> TAKE r \in Row
<1>1. CASE r = row
  <2>1. Holders(r)' = Holders(r) \cup {w}
    BY <1>1 DEF Holders, LogTypeOK
  <2>2. w \notin Holders(r)
    BY LogAssumption DEF Holders
  <2> QED BY <1>1, <2>1, <2>2, HoldersFinite, FS_AddElement
<1>2. CASE r # row
  <2>1. Holders(r)' = Holders(r)
    BY <1>2, LogAssumption DEF Holders, LogTypeOK
  <2> QED BY <1>2, <2>1
<1> QED BY <1>1, <1>2

(* A worker that lets go of its slot, or whose mail is accepted, leaves    *)
(* the holders of that row if it was one of them.                          *)
LEMMA HoldersLose ==
  ASSUME NEW w \in Worker, NEW own \in Row, LogTypeOK, slot[w] = own,
         \A v \in Worker \ {w} : slot'[v] = slot[v] /\ delivered'[v] = delivered[v],
         slot'[w] = NoRow \/ delivered'[w]
  PROVE  \A r \in Row : Cardinality(Holders(r)') =
           IF r = own /\ ~ delivered[w]
           THEN Cardinality(Holders(r)) - 1 ELSE Cardinality(Holders(r))
<1> TAKE r \in Row
<1>1. Holders(r)' = Holders(r) \ {w}
  BY LogAssumption DEF Holders
<1>2. w \in Holders(r) <=> r = own /\ ~ delivered[w]
  BY DEF Holders
<1> QED BY <1>1, <1>2, HoldersFinite, FS_RemoveElement

-----------------------------------------------------------------------------
LEMMA InitInv == LogInit => LogInv
<1> SUFFICES ASSUME LogInit PROVE LogInv
  OBVIOUS
<1>1. LogTypeOK /\ DeliveredHoldsSlot
  BY LogAssumption DEF LogInit, LogTypeOK, Day, DeliveredHoldsSlot
<1>2. CountWithinLimit
  BY LogAssumption DEF LogInit, CountWithinLimit, Limits, Row
<1>3. \A r \in Row : Holders(r) = {}
  BY LogAssumption DEF LogInit, Holders
<1>4. EveryMailCounted /\ NoSlotLeaksOtherwise
  BY <1>3, FS_EmptySet DEF LogInit, EveryMailCounted, NoSlotLeaksOtherwise
<1> QED BY <1>1, <1>2, <1>4 DEF LogInv

-----------------------------------------------------------------------------
(* Types, and that a mail is only under way on a slot, in every step.      *)
LEMMA NextTypeOK ==
  LogTypeOK /\ DeliveredHoldsSlot /\ [LogNext]_logVars
    => LogTypeOK' /\ DeliveredHoldsSlot'
<1> SUFFICES ASSUME LogTypeOK, DeliveredHoldsSlot, [LogNext]_logVars
             PROVE  LogTypeOK' /\ DeliveredHoldsSlot'
  OBVIOUS
<1> USE LogAssumption DEF LogTypeOK, DeliveredHoldsSlot, ghosts, counts
<1>1. CASE Midnight
  BY <1>1 DEF Midnight, Day
<1>2. ASSUME NEW w \in Worker, NEW d \in Domain, ReserveSendSlot(w, d)
      PROVE  LogTypeOK' /\ DeliveredHoldsSlot'
  <2>1. TodaysRow(d) \in Row
    BY DEF TodaysRow, Row
  <2> QED BY <1>2, <2>1 DEF ReserveSendSlot, Increment
<1>3. ASSUME NEW w \in Worker, NEW d \in Domain, RefuseSendSlot(w, d)
      PROVE  LogTypeOK' /\ DeliveredHoldsSlot'
  <2>1. TodaysRow(d) \in Row
    BY DEF TodaysRow, Row
  <2> QED BY <1>3, <2>1 DEF RefuseSendSlot, Increment
<1>4. ASSUME NEW w \in Worker, ProviderAccepts(w)
      PROVE  LogTypeOK' /\ DeliveredHoldsSlot'
  BY <1>4 DEF ProviderAccepts, Increment
<1>5. ASSUME NEW w \in Worker, ConfirmSend(w)
      PROVE  LogTypeOK' /\ DeliveredHoldsSlot'
  BY <1>5 DEF ConfirmSend, LetGo
<1>6. ASSUME NEW w \in Worker, ReleaseSendSlot(w)
      PROVE  /\ TodaysRow(slot[w][1]) \in Row
             /\ sentCount' \in [Row -> Nat]
             /\ lost' \in [Row -> Nat]
             /\ leaked' \in [Row -> Nat]
             /\ strayed' \in [Row -> Nat]
             /\ slot' \in [Worker -> Row \cup {NoRow}]
             /\ delivered' \in [Worker -> BOOLEAN]
             /\ DeliveredHoldsSlot'
  <2>1. slot[w] \in Row
    BY <1>6 DEF ReleaseSendSlot
  <2>2. TodaysRow(slot[w][1]) \in Row
    BY <2>1 DEF TodaysRow, Row
  <2> HIDE DEF TodaysRow
  <2>3. sentCount' \in [Row -> Nat] /\ lost' \in [Row -> Nat]
    BY <1>6, <2>1, <2>2 DEF ReleaseSendSlot, Increment
  <2>4. leaked' \in [Row -> Nat] /\ strayed' \in [Row -> Nat]
    BY <1>6, <2>1, <2>2 DEF ReleaseSendSlot, Increment
  <2>5. slot' \in [Worker -> Row \cup {NoRow}] /\ delivered' \in [Worker -> BOOLEAN]
        /\ DeliveredHoldsSlot'
    BY <1>6 DEF ReleaseSendSlot, LetGo
  <2> QED BY <2>2, <2>3, <2>4, <2>5
<1>7. ASSUME NEW w \in Worker, TransientFailure(w)
      PROVE  LogTypeOK' /\ DeliveredHoldsSlot'
  BY <1>6, <1>7 DEF TransientFailure
<1>8. ASSUME NEW w \in Worker, PermanentFailure(w)
      PROVE  LogTypeOK' /\ DeliveredHoldsSlot'
  BY <1>6, <1>8 DEF PermanentFailure, Increment
<1>9. ASSUME NEW w \in Worker, AbandonSlot(w)
      PROVE  LogTypeOK' /\ DeliveredHoldsSlot'
  BY <1>9 DEF AbandonSlot, LetGo, Increment
<1>10. CASE UNCHANGED logVars
  BY <1>10 DEF logVars
<1> QED BY <1>1, <1>2, <1>3, <1>4, <1>5, <1>7, <1>8, <1>9, <1>10 DEF LogNext, SendCall

-----------------------------------------------------------------------------
(* sent_count only grows in ReserveSendSlot, which found room for one.     *)
LEMMA NextCountWithinLimit ==
  LogTypeOK /\ CountWithinLimit /\ [LogNext]_logVars => CountWithinLimit'
<1> SUFFICES ASSUME LogTypeOK, CountWithinLimit, [LogNext]_logVars,
                    NEW d \in Domain, NEW t \in Day, NEW limit \in Limits(d)
             PROVE  sentCount'[<<d, t>>] <= limit
  BY DEF CountWithinLimit, Limits
<1> DEFINE row == <<d, t>>
<1>1. row \in Row /\ limit \in Nat /\ sentCount[row] \in Nat /\ sentCount[row] <= limit
  BY LogAssumption DEF Row, Limits, LogTypeOK, CountWithinLimit
<1>2. ASSUME NEW w \in Worker, NEW e \in Domain, ReserveSendSlot(w, e)
      PROVE  sentCount'[row] <= limit
  <2>1. CASE TodaysRow(e) = row
    <3>1. e = d
      BY <2>1 DEF TodaysRow
    <3>2. sentCount[row] < limit
      BY <1>2, <2>1, <3>1 DEF ReserveSendSlot, HasRoom
    <3> QED BY <1>1, <1>2, <2>1, <3>2 DEF ReserveSendSlot, Increment, LogTypeOK
  <2>2. CASE TodaysRow(e) # row
    BY <1>1, <1>2, <2>2 DEF ReserveSendSlot, Increment, LogTypeOK
  <2> QED BY <2>1, <2>2
<1>3. ASSUME NEW w \in Worker, ReleaseSendSlot(w)
      PROVE  sentCount'[row] <= limit
  BY <1>1, <1>3 DEF ReleaseSendSlot, LogTypeOK
<1>4. UNCHANGED sentCount => sentCount'[row] <= limit
  BY <1>1
<1> QED
  BY <1>2, <1>3, <1>4
  DEF LogNext, SendCall, Midnight, RefuseSendSlot, ProviderAccepts, ConfirmSend,
      TransientFailure, PermanentFailure, AbandonSlot, logVars, counts

-----------------------------------------------------------------------------
(* Both accounts of sent_count, step by step.                              *)
Accounts == EveryMailCounted /\ NoSlotLeaksOtherwise

LEMMA ReserveAccounts ==
  ASSUME LogTypeOK, DeliveredHoldsSlot, Accounts,
         NEW w \in Worker, NEW d \in Domain, ReserveSendSlot(w, d)
  PROVE  Accounts'
<1> DEFINE row == TodaysRow(d)
<1>1. row \in Row
  BY DEF TodaysRow, Row, LogTypeOK
<1> HIDE DEF row
<1>2. \A r \in Row : Cardinality(Holders(r)') =
        IF r = row THEN Cardinality(Holders(r)) + 1 ELSE Cardinality(Holders(r))
  BY <1>1, HoldersGain DEF ReserveSendSlot, DeliveredHoldsSlot, LogTypeOK, row
<1>3. \A r \in Row : sentCount'[r] =
        IF r = row THEN sentCount[r] + 1 ELSE sentCount[r]
  BY <1>1 DEF ReserveSendSlot, Increment, LogTypeOK, row
<1> QED
  BY <1>2, <1>3, HoldersFinite
  DEF ReserveSendSlot, Accounts, EveryMailCounted, NoSlotLeaksOtherwise, ghosts, LogTypeOK

LEMMA AcceptAccounts ==
  ASSUME LogTypeOK, Accounts, NEW w \in Worker, ProviderAccepts(w)
  PROVE  Accounts'
<1> DEFINE own == slot[w]
<1>1. own \in Row /\ ~ delivered[w]
  BY DEF ProviderAccepts, LogTypeOK
<1>2. \A r \in Row : Cardinality(Holders(r)') =
        IF r = own THEN Cardinality(Holders(r)) - 1 ELSE Cardinality(Holders(r))
  BY <1>1, HoldersLose DEF ProviderAccepts, LogTypeOK
<1>3. \A r \in Row : mailed'[r] = IF r = own THEN mailed[r] + 1 ELSE mailed[r]
  BY <1>1 DEF ProviderAccepts, Increment, LogTypeOK
<1> HIDE DEF own
<1> QED
  BY <1>2, <1>3, HoldersFinite
  DEF ProviderAccepts, Accounts, EveryMailCounted, NoSlotLeaksOtherwise, counts, LogTypeOK

LEMMA ConfirmAccounts ==
  ASSUME LogTypeOK, Accounts, NEW w \in Worker, ConfirmSend(w)
  PROVE  Accounts'
<1>1. slot[w] \in Row /\ delivered[w]
  BY DEF ConfirmSend, LogTypeOK
<1>2. \A r \in Row : Cardinality(Holders(r)') = Cardinality(Holders(r))
  BY <1>1, HoldersLose DEF ConfirmSend, LetGo, LogTypeOK
<1> QED
  BY <1>2 DEF ConfirmSend, Accounts, EveryMailCounted, NoSlotLeaksOtherwise, counts, ghosts

LEMMA AbandonAccounts ==
  ASSUME LogTypeOK, Accounts, NEW w \in Worker, AbandonSlot(w)
  PROVE  Accounts'
<1> DEFINE own == slot[w]
<1>1. own \in Row /\ delivered[w] \in BOOLEAN
  BY DEF AbandonSlot, LogTypeOK
<1>2. \A r \in Row : Cardinality(Holders(r)') =
        IF r = own /\ ~ delivered[w]
        THEN Cardinality(Holders(r)) - 1 ELSE Cardinality(Holders(r))
  BY <1>1, HoldersLose DEF AbandonSlot, LetGo, LogTypeOK
<1>3. \A r \in Row : leaked'[r] =
        IF r = own /\ ~ delivered[w] THEN leaked[r] + 1 ELSE leaked[r]
  BY <1>1 DEF AbandonSlot, Increment, LogTypeOK
<1> HIDE DEF own
<1> QED
  BY <1>2, <1>3, HoldersFinite
  DEF AbandonSlot, Accounts, EveryMailCounted, NoSlotLeaksOtherwise, counts, LogTypeOK

(* The release: the row it decrements is its own, or counts the loss in    *)
(* strayed while its own row counts a leak.                                *)
LEMMA ReleaseAccounts ==
  ASSUME LogTypeOK, Accounts, NEW w \in Worker, ReleaseSendSlot(w), UNCHANGED mailed
  PROVE  Accounts'
<1> DEFINE own == slot[w]
           row == TodaysRow(own[1])
<1>1. own \in Row /\ delivered[w] \in BOOLEAN
  BY DEF ReleaseSendSlot, LogTypeOK
<1>2. row \in Row
  BY <1>1 DEF TodaysRow, Row, LogTypeOK
<1>3. \A r \in Row : Cardinality(Holders(r)') =
        IF r = own /\ ~ delivered[w]
        THEN Cardinality(Holders(r)) - 1 ELSE Cardinality(Holders(r))
  BY <1>1, HoldersLose DEF ReleaseSendSlot, LetGo, LogTypeOK
<1> HIDE DEF TodaysRow
<1>4. \A r \in Row : sentCount'[r] =
        IF r = row /\ sentCount[r] > 0 THEN sentCount[r] - 1 ELSE sentCount[r]
  BY <1>2 DEF ReleaseSendSlot, LogTypeOK
<1>5. \A r \in Row : lost'[r] =
        IF r = own /\ delivered[w] THEN lost[r] + 1 ELSE lost[r]
  BY <1>1 DEF ReleaseSendSlot, Increment, LogTypeOK
<1>6. \A r \in Row : leaked'[r] =
        IF r = own /\ row # own THEN leaked[r] + 1 ELSE leaked[r]
  BY <1>1 DEF ReleaseSendSlot, Increment, LogTypeOK
<1>7. \A r \in Row : strayed'[r] =
        IF r = row /\ row # own /\ sentCount[r] > 0 THEN strayed[r] + 1 ELSE strayed[r]
  BY <1>2 DEF ReleaseSendSlot, Increment, LogTypeOK
<1> HIDE DEF own, row
<1>8. \A r \in Row : /\ sentCount[r] \in Nat /\ mailed[r] \in Nat /\ lost[r] \in Nat
                     /\ leaked[r] \in Nat /\ strayed[r] \in Nat
  BY DEF LogTypeOK
<1>9. EveryMailCounted'
  BY <1>3, <1>4, <1>5, <1>7, <1>8, HoldersFinite DEF Accounts, EveryMailCounted
<1>10. NoSlotLeaksOtherwise'
  <2> SUFFICES ASSUME NEW r \in Row
               PROVE  sentCount'[r] <= mailed[r] + Cardinality(Holders(r)') + leaked'[r]
    BY DEF NoSlotLeaksOtherwise
  <2>1. /\ sentCount[r] <= mailed[r] + Cardinality(Holders(r)) + leaked[r]
        /\ Cardinality(Holders(r)) \in Nat
        /\ Cardinality(Holders(r)') \in Nat
    BY HoldersFinite, HoldersFiniteNext DEF Accounts, NoSlotLeaksOtherwise
  <2>2. CASE r = own /\ row = own
    BY <1>3, <1>4, <1>6, <1>8, <2>1, <2>2
  <2>3. CASE r = own /\ row # own
    BY <1>3, <1>4, <1>6, <1>8, <2>1, <2>3
  <2>4. CASE r # own
    BY <1>3, <1>4, <1>6, <1>8, <2>1, <2>4
  <2> QED BY <2>2, <2>3, <2>4
<1> QED BY <1>9, <1>10 DEF Accounts

-----------------------------------------------------------------------------
LEMMA NextAccounts ==
  LogTypeOK /\ DeliveredHoldsSlot /\ Accounts /\ [LogNext]_logVars => Accounts'
<1> SUFFICES ASSUME LogTypeOK, DeliveredHoldsSlot, Accounts, [LogNext]_logVars
             PROVE  Accounts'
  OBVIOUS
<1>1. ASSUME UNCHANGED <<sentCount, slot, delivered, ghosts>>
      PROVE  Accounts'
  BY <1>1 DEF Accounts, EveryMailCounted, NoSlotLeaksOtherwise, Holders, ghosts
<1>2. CASE Midnight
  BY <1>1, <1>2 DEF Midnight, counts
<1>3. ASSUME NEW w \in Worker, SendCall(w)
      PROVE  Accounts'
  <2>1. ASSUME NEW d \in Domain, ReserveSendSlot(w, d)  PROVE Accounts'
    BY <2>1, ReserveAccounts
  <2>2. ASSUME NEW d \in Domain, RefuseSendSlot(w, d)  PROVE Accounts'
    BY <1>1, <2>2 DEF RefuseSendSlot
  <2>3. CASE ProviderAccepts(w)
    BY <2>3, AcceptAccounts
  <2>4. CASE ConfirmSend(w)
    BY <2>4, ConfirmAccounts
  <2>5. CASE TransientFailure(w)
    BY <2>5, ReleaseAccounts DEF TransientFailure
  <2>6. CASE PermanentFailure(w)
    BY <2>6, ReleaseAccounts DEF PermanentFailure
  <2>7. CASE AbandonSlot(w)
    BY <2>7, AbandonAccounts
  <2> QED BY <1>3, <2>1, <2>2, <2>3, <2>4, <2>5, <2>6, <2>7 DEF SendCall
<1>4. CASE UNCHANGED logVars
  BY <1>1, <1>4 DEF logVars, counts
<1> QED BY <1>2, <1>3, <1>4 DEF LogNext

(* The inductive invariant of the send log.                                *)
THEOREM LogInvariant == LogSpec => []LogInv
<1>1. LogInv /\ [LogNext]_logVars => LogInv'
  BY NextTypeOK, NextCountWithinLimit, NextAccounts DEF LogInv, Accounts
<1> QED BY InitInv, <1>1, PTL DEF LogSpec

(* The types of the log, whatever its workers do.                          *)
THEOREM LogTypeCorrect == LogSpec => []LogTypeOK
<1>1. LogInv => LogTypeOK
  BY DEF LogInv
<1> QED BY LogInvariant, <1>1, PTL

(* reserve_send_slot never lets sent_count pass a limit, for any number of *)
(* workers near the cap and any interleaving of reservations and releases. *)
THEOREM CountNeverPassesLimit == LogSpec => []CountWithinLimit
<1>1. LogInv => CountWithinLimit
  BY DEF LogInv
<1> QED BY LogInvariant, <1>1, PTL

(* Every mail and every call under way is counted in sent_count, but for   *)
(* the slots that a release on another day took and the mails whose answer *)
(* was lost: the accounting the daily limit rests on.                      *)
THEOREM EveryMailIsCounted == LogSpec => []EveryMailCounted
<1>1. LogInv => EveryMailCounted
  BY DEF LogInv
<1> QED BY LogInvariant, <1>1, PTL

(* Slots leak only through the three known doors: another exception, the   *)
(* death of the worker, a release on another day.                          *)
THEOREM SlotsLeakOnlyAsKnown == LogSpec => []NoSlotLeaksOtherwise
<1>1. LogInv => NoSlotLeaksOtherwise
  BY DEF LogInv
<1> QED BY LogInvariant, <1>1, PTL

(* The mail accepted on a day's slots stays within the limit but for the   *)
(* stray releases and lost answers of that day: EveryMailCounted bounds    *)
(* the mails by sent_count, CountWithinLimit bounds sent_count.            *)
THEOREM MailNeverPassesLimit == LogSpec => []MailWithinLimit
<1>1. LogInv => MailWithinLimit
  <2> SUFFICES ASSUME LogInv, NEW d \in Domain, NEW t \in Day, NEW limit \in Limits(d)
               PROVE  mailed[<<d, t>>] <= limit + strayed[<<d, t>>] + lost[<<d, t>>]
    BY DEF MailWithinLimit
  <2> DEFINE row == <<d, t>>
  <2>1. row \in Row /\ limit \in Nat
    BY LogAssumption DEF Row, Limits
  <2>2. sentCount[row] <= limit
    BY DEF LogInv, CountWithinLimit
  <2> HIDE DEF row
  <2>3. mailed[row] + Cardinality(Holders(row)) <= sentCount[row] + strayed[row] + lost[row]
    BY <2>1 DEF LogInv, EveryMailCounted
  <2>4. mailed[row] <= limit + strayed[row] + lost[row]
    BY <2>1, <2>2, <2>3, HoldersFinite DEF LogInv, LogTypeOK
  <2> QED BY <2>4 DEF row
<1> QED BY LogInvariant, <1>1, PTL
=============================================================================
