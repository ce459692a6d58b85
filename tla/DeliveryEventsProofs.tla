-------------------------- MODULE DeliveryEventsProofs --------------------------
(***************************************************************************)
(* Proofs about DeliveryEvents, for any messages, recipients, reports,     *)
(* workers, crashes and suppressions.                                      *)
(***************************************************************************)
EXTENDS DeliveryEvents, TLAPS

(* A worker has a report in hand as long as it is not idle.  A report in   *)
(* hand is processing and in no other hand, its message has its provider   *)
(* id, and past the first step it has its event.                           *)
HandsInOrder ==
  /\ \A w \in Worker : pc[w] = "idle" <=> hand[w] = NoReport
  /\ \A w \in Worker : pc[w] # "idle" =>
       /\ row[hand[w]] = "processing"
       /\ stage[About[hand[w]]] = "stored"
       /\ pc[w] # "record" => hand[w] \in event
  /\ \A v, w \in Worker : pc[v] # "idle" /\ hand[v] = hand[w] => v = w

(* Only reports of messages with a provider id have events, and a report   *)
(* that has been processed has one.                                        *)
EventsInOrder ==
  /\ \A r \in event : stage[About[r]] = "stored"
  /\ \A r \in Report : row[r] = "processed" => r \in event

(* No worker that works on m has died after the event.                     *)
Undisturbed(m) == \A r \in lost : About[r] # m

(* A message that two workers never had in hand at once is in one hand at  *)
(* most, whose view of the status is right until it has written it.        *)
OneHand ==
  \A m \in Message \ met :
    /\ \A v, w \in WorkersOn(m) : v = w
    /\ \A w \in WorkersOn(m) : pc[w] \in {"record", "message"} => seen[w] = status[m]

(* The reports that a worker has an event of, but has still to apply.      *)
Unapplied(steps) == {hand[w] : w \in {v \in Worker : pc[v] \in steps}}

IsHighest(n, start, reports) ==
  /\ n = StatusRank[start] \/ \E r \in reports : n = RankOf(r)
  /\ StatusRank[start] <= n /\ \A r \in reports : RankOf(r) <= n

MessageFollows ==
  \A m \in Message : stage[m] = "stored" /\ m \notin met /\ Undisturbed(m) =>
    IsHighest(StatusRank[status[m]], "sent", Recorded(m) \ Unapplied({"message"}))

RecipientFollows ==
  \A ma \in Recipients : Undisturbed(ma[1]) =>
    IsHighest(StatusRank[rcptStatus[ma]], "queued",
              {r \in Recorded(ma[1]) : Rcpt[r] = ma[2]} \ Unapplied({"message", "recipient"}))

(* A bounce, complaint or unsubscription has its suppression, unless it is *)
(* excused or about to get it.                                             *)
SuppressionFollows ==
  \A r \in event \cap Suppressing :
    \/ r \in lost \cup waived
    \/ listed[<<SuppressionDomain(r), Rcpt[r]>>] = "forever"
    \/ r \in Unapplied({"message", "recipient", "suppress"})

DeliveryInv ==
  /\ TypeOK /\ HandsInOrder /\ EventsInOrder /\ OneHand
  /\ MessageFollows /\ RecipientFollows /\ SuppressionFollows

USE EventAssumption

(* Ranks are numbers, and what has none of its own raises nothing.         *)
LEMMA RankType ==
  /\ \A s \in MessageStatus : StatusRank[s] \in Nat
  /\ StatusRank["queued"] = 0 /\ StatusRank["sent"] = 2
  /\ {"queued", "sent", "failed"} \subseteq MessageStatus
BY DEF MessageStatus, StatusRank

LEMMA ReportType ==
  ASSUME NEW r \in Report
  PROVE  /\ RankOf(r) \in Nat
         /\ RankOf(r) > 0 => StatusOf[Kind[r]] \in MessageStatus
         /\ RankOf(r) = StatusRank[StatusOf[Kind[r]]]
         /\ About[r] \in Message /\ Rcpt[r] \in Address
         /\ <<About[r], Rcpt[r]>> \in Recipients
         /\ <<SuppressionDomain(r), Rcpt[r]>> \in Domain \X Address
<1>1. Kind[r] \in EventType /\ About[r] \in Message /\ Rcpt[r] \in To[About[r]]
  BY DEF EventType
<1>2. /\ StatusOf[Kind[r]] \in MessageStatus \cup {"none"}
      /\ StatusRank[StatusOf[Kind[r]]] \in Nat
      /\ StatusRank["none"] = 0
  BY <1>1 DEF EventType, StatusOf, StatusRank, MessageStatus
<1>3. Rcpt[r] \in Address
  BY <1>1
<1>4. <<About[r], Rcpt[r]>> \in Recipients
  BY <1>1, <1>3 DEF Recipients
<1>5. SuppressionDomain(r) \in Domain
  BY <1>1 DEF SuppressionDomain
<1> QED
  BY <1>1, <1>2, <1>3, <1>4, <1>5 DEF RankOf

LEMMA RisingRank ==
  ASSUME NEW r \in Report, NEW s \in MessageStatus, RankOf(r) > StatusRank[s]
  PROVE  StatusOf[Kind[r]] \in MessageStatus
<1>1. RankOf(r) \in Nat /\ StatusRank[s] \in Nat
  BY ReportType, RankType
<1>2. RankOf(r) > 0
  BY <1>1
<1> QED
  BY <1>2, ReportType

LEMMA DeliveryInit == Init => DeliveryInv
<1> SUFFICES ASSUME Init PROVE DeliveryInv
  OBVIOUS
<1> USE DEF Init
<1>1. TypeOK
  BY RankType DEF TypeOK, SuppressionState
<1>2. HandsInOrder
  BY DEF HandsInOrder
<1>3. EventsInOrder /\ SuppressionFollows /\ MessageFollows
  BY DEF EventsInOrder, SuppressionFollows, MessageFollows
<1>4. OneHand
  BY DEF OneHand, WorkersOn
<1>5. RecipientFollows
  BY RankType DEF RecipientFollows, IsHighest, Recorded
<1> QED
  BY <1>1, <1>2, <1>3, <1>4, <1>5 DEF DeliveryInv

(* The actions keep their variables' types.                                *)
LEMMA TypeStep ==
  ASSUME TypeOK, HandsInOrder, Next
  PROVE  TypeOK'
<1> USE DEF TypeOK, sending, work, history
<1>1. CASE \E m \in Message : Clear(m) \/ Refuse(m) \/ Accept(m) \/ StoreMessage(m)
  <2>1. status' \in [Message -> MessageStatus]
    BY <1>1, RankType DEF Clear, Refuse, Accept, StoreMessage
  <2>2. stage' \in [Message -> {"new", "cleared", "accepted", "stored", "refused"}]
    BY <1>1 DEF Clear, Refuse, Accept, StoreMessage
  <2> QED
    BY <1>1, <2>1, <2>2 DEF Clear, Refuse, Accept, StoreMessage
<1>2. CASE \E r \in Report : Post(r)
  BY <1>2 DEF Post
<1>3. ASSUME NEW w \in Worker, NEW r \in Report, FindMessage(w, r) \/ FindNothing(w, r)
      PROVE  TypeOK'
  <2>1. seen' \in [Worker -> MessageStatus] /\ met' \subseteq Message
    BY <1>3, ReportType DEF FindMessage, FindNothing
  <2>2. /\ pc' \in [Worker -> {"idle", "record", "message", "recipient", "suppress", "save"}]
        /\ hand' \in [Worker -> Report \cup {NoReport}]
        /\ row' \in [Report -> {"none", "received", "processing", "processed", "ignored"}]
    <3>1. CASE FindMessage(w, r)
      BY <3>1 DEF FindMessage
    <3>2. CASE FindNothing(w, r)
      BY <3>2 DEF FindNothing
    <3> QED
      BY <1>3, <3>1, <3>2
  <2>3. UNCHANGED <<status, stage, rcptStatus, event, listed, lost, waived, crashes>>
    BY <1>3 DEF FindMessage, FindNothing
  <2> QED
    BY <2>1, <2>2, <2>3
<1>4. ASSUME NEW w \in Worker, pc[w] # "idle"
      PROVE  hand[w] \in Report
  BY <1>4 DEF HandsInOrder
<1>5. ASSUME NEW w \in Worker, RecordEvent(w)
      PROVE  TypeOK'
  BY <1>4, <1>5 DEF RecordEvent, Go
<1>6. ASSUME NEW w \in Worker, RaiseMessage(w)
      PROVE  TypeOK'
  <2>1. hand[w] \in Report
    BY <1>4, <1>6 DEF RaiseMessage
  <2>2. RankOf(hand[w]) > StatusRank[seen[w]] => StatusOf[Kind[hand[w]]] \in MessageStatus
    BY <2>1, RisingRank
  <2>3. status' \in [Message -> MessageStatus]
    BY <1>6, <2>1, <2>2 DEF RaiseMessage
  <2> QED
    BY <1>6, <2>3 DEF RaiseMessage, Go
<1>7. ASSUME NEW w \in Worker, RaiseRecipient(w)
      PROVE  TypeOK'
  <2>1. hand[w] \in Report
    BY <1>4, <1>7 DEF RaiseRecipient
  <2> DEFINE ma == <<About[hand[w]], Rcpt[hand[w]]>>
  <2>2. ma \in Recipients
    BY <2>1, ReportType
  <2> HIDE DEF ma
  <2>3. RankOf(hand[w]) > StatusRank[rcptStatus[ma]] => StatusOf[Kind[hand[w]]] \in MessageStatus
    BY <2>1, <2>2, RisingRank
  <2>4. rcptStatus' = IF RankOf(hand[w]) > StatusRank[rcptStatus[ma]]
                      THEN [rcptStatus EXCEPT ![ma] = StatusOf[Kind[hand[w]]]] ELSE rcptStatus
    BY <1>7 DEF RaiseRecipient, ma
  <2>5. rcptStatus' \in [Recipients -> MessageStatus]
    BY <2>2, <2>3, <2>4
  <2> QED
    BY <1>7, <2>5 DEF RaiseRecipient, Go
<1>8. ASSUME NEW w \in Worker, Suppress(w)
      PROVE  TypeOK'
  <2>1. hand[w] \in Report
    BY <1>4, <1>8 DEF Suppress
  <2>2. listed' \in [Domain \X Address -> SuppressionState]
    BY <1>8, <2>1, ReportType DEF Suppress, SuppressionState
  <2> QED
    BY <1>8, <2>1, <2>2 DEF Suppress, Go
<1>9. ASSUME NEW w \in Worker, SaveLog(w) \/ WorkerCrash(w)
      PROVE  TypeOK'
  <2>1. hand[w] \in Report
    BY <1>4, <1>9 DEF SaveLog, WorkerCrash
  <2>2. LetGo(w) => /\ pc' \in [Worker -> {"idle", "record", "message", "recipient", "suppress", "save"}]
                    /\ hand' \in [Worker -> Report \cup {NoReport}]
                    /\ seen' \in [Worker -> MessageStatus]
    BY RankType DEF LetGo
  <2>3. row' \in [Report -> {"none", "received", "processing", "processed", "ignored"}]
    BY <1>9, <2>1 DEF SaveLog, WorkerCrash
  <2>4. lost' \subseteq Report /\ crashes' \in Nat
    BY <1>9, <2>1 DEF SaveLog, WorkerCrash
  <2> QED
    BY <1>9, <2>2, <2>3, <2>4 DEF SaveLog, WorkerCrash
<1>10. ASSUME NEW da \in Managed, AddSuppression(da) \/ Age(da) \/ RemoveSuppression(da)
       PROVE  TypeOK'
  <2>1. da \in Domain \X Address
    OBVIOUS
  <2> QED
    BY <1>10, <2>1 DEF AddSuppression, Age, RemoveSuppression, Relist, SuppressionState
<1>11. CASE ExpireSuppressedAddresses
  <2>1. listed' \in [Domain \X Address -> SuppressionState]
    BY <1>11 DEF ExpireSuppressedAddresses, SuppressionState
  <2> QED
    BY <1>11, <2>1 DEF ExpireSuppressedAddresses
<1> QED
  BY <1>1, <1>2, <1>3, <1>5, <1>6, <1>7, <1>8, <1>9, <1>10, <1>11 DEF Next, Work

(* A message keeps its provider id, and an event its row.                  *)
LEMMA StageOnward ==
  ASSUME TypeOK, HandsInOrder, Next
  PROVE  /\ \A m \in Message : stage[m] = "stored" => stage'[m] = "stored"
         /\ event \subseteq event' /\ lost \subseteq lost' /\ met \subseteq met'
<1> USE DEF sending, work, history
<1>1. \A m \in Message : stage[m] = "stored" => stage'[m] = "stored"
  BY DEF TypeOK, Next, Work, Clear, Refuse, Accept, StoreMessage, Post, FindMessage, FindNothing,
         RecordEvent, RaiseMessage, RaiseRecipient, Suppress, SaveLog, WorkerCrash,
         AddSuppression, Age, RemoveSuppression, Relist, ExpireSuppressedAddresses
<1>2. event \subseteq event' /\ lost \subseteq lost' /\ met \subseteq met'
  BY DEF Next, Work, Clear, Refuse, Accept, StoreMessage, Post, FindMessage, FindNothing,
         RecordEvent, RaiseMessage, RaiseRecipient, Suppress, SaveLog, WorkerCrash,
         AddSuppression, Age, RemoveSuppression, Relist, ExpireSuppressedAddresses
<1> QED
  BY <1>1, <1>2

(* The steps of the senders and of staff, which leave workers, rows and    *)
(* events as they are.                                                     *)
Beside ==
  \/ \E m \in Message : Clear(m) \/ Refuse(m) \/ Accept(m) \/ StoreMessage(m)
  \/ \E da \in Managed : AddSuppression(da) \/ Age(da) \/ RemoveSuppression(da)
  \/ ExpireSuppressedAddresses

LEMMA BesideLeaves ==
  ASSUME Beside
  PROVE  UNCHANGED <<row, event, pc, hand, seen, met, lost>>
BY DEF Beside, Clear, Refuse, Accept, StoreMessage, AddSuppression, Age, RemoveSuppression,
       Relist, ExpireSuppressedAddresses, work, history

LEMMA NextCases ==
  ASSUME Next
  PROVE  \/ Beside
         \/ \E r \in Report : Post(r)
         \/ \E w \in Worker, r \in Report : FindMessage(w, r) \/ FindNothing(w, r)
         \/ \E w \in Worker : \/ RecordEvent(w) \/ RaiseMessage(w) \/ RaiseRecipient(w)
                              \/ Suppress(w) \/ SaveLog(w) \/ WorkerCrash(w)
BY DEF Next, Work, Beside

LEMMA HandIsReport ==
  ASSUME TypeOK, HandsInOrder, NEW w \in Worker, pc[w] # "idle"
  PROVE  hand[w] \in Report
BY DEF TypeOK, HandsInOrder

(* Which step of which worker is what to HandsInOrder and EventsInOrder.   *)
LEMMA HandsStep ==
  ASSUME TypeOK, HandsInOrder, EventsInOrder, Next
  PROVE  HandsInOrder' /\ EventsInOrder'
<1> USE DEF TypeOK, HandsInOrder, EventsInOrder, sending, work, history
<1>1. CASE Beside
  BY <1>1, BesideLeaves, StageOnward
<1>2. ASSUME NEW r \in Report, Post(r)
      PROVE  HandsInOrder' /\ EventsInOrder'
  <2>1. row[r] = "none"
    BY <1>2 DEF Post, SameEventId
  <2> QED
    BY <1>2, <2>1, HandIsReport DEF Post
<1>3. ASSUME NEW w \in Worker, NEW r \in Report, FindMessage(w, r)
      PROVE  HandsInOrder' /\ EventsInOrder'
  <2>1. \A v \in Worker : pc[v] # "idle" => hand[v] # r /\ v # w
    BY <1>3 DEF FindMessage
  <2>2. /\ pc' = [pc EXCEPT ![w] = "record"] /\ hand' = [hand EXCEPT ![w] = r]
        /\ row' = [row EXCEPT ![r] = "processing"] /\ stage' = stage /\ event' = event
        /\ stage[About[r]] = "stored"
    BY <1>3 DEF FindMessage
  <2>3. HandsInOrder'
    BY <2>1, <2>2, HandIsReport
  <2> QED
    BY <2>2, <2>3
<1>4. ASSUME NEW w \in Worker, NEW r \in Report, FindNothing(w, r)
      PROVE  HandsInOrder' /\ EventsInOrder'
  <2>1. \A v \in Worker : pc[v] # "idle" => hand[v] # r
    BY <1>4 DEF FindNothing
  <2> QED
    BY <1>4, <2>1, HandIsReport DEF FindNothing
<1>5. ASSUME NEW w \in Worker,
             RecordEvent(w) \/ RaiseMessage(w) \/ RaiseRecipient(w) \/ Suppress(w)
      PROVE  HandsInOrder' /\ EventsInOrder'
  <2>1. pc[w] # "idle" /\ hand[w] \in Report
    BY <1>5, HandIsReport DEF RecordEvent, RaiseMessage, RaiseRecipient, Suppress
  <2>2. PICK where \in {"message", "recipient", "suppress", "save"} : pc' = [pc EXCEPT ![w] = where]
    BY <1>5 DEF RecordEvent, RaiseMessage, RaiseRecipient, Suppress, Go
  <2>3. /\ hand' = hand /\ row' = row /\ stage' = stage
        /\ event' = event \cup {hand[w]}
    BY <1>5, <2>1 DEF RecordEvent, RaiseMessage, RaiseRecipient, Suppress
  <2>4. HandsInOrder'
    BY <2>1, <2>2, <2>3
  <2>5. EventsInOrder'
    BY <2>1, <2>3
  <2> QED
    BY <2>4, <2>5
<1>6. ASSUME NEW w \in Worker, SaveLog(w) \/ WorkerCrash(w)
      PROVE  HandsInOrder' /\ EventsInOrder'
  <2>1. pc[w] # "idle" /\ hand[w] \in Report
    BY <1>6, HandIsReport DEF SaveLog, WorkerCrash
  <2>2. /\ pc' = [pc EXCEPT ![w] = "idle"] /\ hand' = [hand EXCEPT ![w] = NoReport]
        /\ stage' = stage /\ event' = event
    BY <1>6 DEF SaveLog, WorkerCrash, LetGo
  <2>3. PICK s \in {"processed", "received"} :
          row' = [row EXCEPT ![hand[w]] = s] /\ (s = "processed" => hand[w] \in event)
    BY <1>6, <2>1 DEF SaveLog, WorkerCrash
  <2>4. HandsInOrder'
    BY <2>1, <2>2, <2>3, HandIsReport
  <2>5. EventsInOrder'
    BY <2>1, <2>2, <2>3
  <2> QED
    BY <2>4, <2>5
<1> QED
  BY <1>1, <1>2, <1>3, <1>4, <1>5, <1>6, NextCases

(* Who works on a message, when hands change.                              *)
LEMMA HandsStay ==
  ASSUME hand' = hand, NEW m \in Message
  PROVE  WorkersOn(m)' = WorkersOn(m)
BY DEF WorkersOn

LEMMA HandTakes ==
  ASSUME TypeOK, NEW m \in Message, NEW w \in Worker, NEW r \in Report,
         hand' = [hand EXCEPT ![w] = r], hand[w] = NoReport
  PROVE  WorkersOn(m)' = WorkersOn(m) \cup (IF About[r] = m THEN {w} ELSE {})
BY DEF WorkersOn, TypeOK

LEMMA HandLetsGo ==
  ASSUME TypeOK, NEW m \in Message, NEW w \in Worker, hand' = [hand EXCEPT ![w] = NoReport]
  PROVE  WorkersOn(m)' = WorkersOn(m) \ {w}
BY DEF WorkersOn, TypeOK

LEMMA OneHandStep ==
  ASSUME TypeOK, HandsInOrder, OneHand, Next
  PROVE  OneHand'
<1> SUFFICES ASSUME NEW m \in Message, m \notin met'
             PROVE  /\ \A v, w \in WorkersOn(m)' : v = w
                    /\ \A w \in WorkersOn(m)' : pc'[w] \in {"record", "message"} =>
                         seen'[w] = status'[m]
  BY DEF OneHand
<1> USE DEF sending, work, history
<1>1. /\ m \notin met
      /\ \A v, w \in WorkersOn(m) : v = w
      /\ \A w \in WorkersOn(m) : w \in Worker /\ hand[w] # NoReport /\ About[hand[w]] = m
                                 /\ pc[w] # "idle" /\ stage[m] = "stored"
      /\ \A w \in WorkersOn(m) : pc[w] \in {"record", "message"} => seen[w] = status[m]
  BY StageOnward DEF OneHand, WorkersOn, HandsInOrder
<1>2. CASE Beside
  <2>1. stage[m] = "stored" => status'[m] = status[m]
    BY <1>2 DEF Beside, Clear, Refuse, Accept, StoreMessage, AddSuppression, Age,
                RemoveSuppression, Relist, ExpireSuppressedAddresses, TypeOK
  <2> QED
    BY <1>1, <1>2, <2>1, BesideLeaves, HandsStay
<1>3. CASE \/ \E r \in Report : Post(r)
           \/ \E w \in Worker, r \in Report : FindNothing(w, r)
  BY <1>1, <1>3, HandsStay DEF Post, FindNothing
<1>4. ASSUME NEW u \in Worker, NEW r \in Report, FindMessage(u, r)
      PROVE  /\ \A v, w \in WorkersOn(m)' : v = w
             /\ \A w \in WorkersOn(m)' : pc'[w] \in {"record", "message"} => seen'[w] = status'[m]
  <2>1. hand[u] = NoReport
    BY <1>4 DEF FindMessage, HandsInOrder
  <2>2. WorkersOn(m)' = WorkersOn(m) \cup (IF About[r] = m THEN {u} ELSE {})
    BY <1>4, <2>1, HandTakes DEF FindMessage
  <2>3. About[r] = m => WorkersOn(m) = {}
    BY <1>4 DEF FindMessage
  <2>4. u \notin WorkersOn(m)
    BY <1>1, <2>1
  <2>5. /\ pc' = [pc EXCEPT ![u] = "record"] /\ status' = status
        /\ seen' = [seen EXCEPT ![u] = status[About[r]]]
    BY <1>4 DEF FindMessage
  <2> QED
    BY <1>1, <2>2, <2>3, <2>4, <2>5 DEF TypeOK
<1>5. ASSUME NEW u \in Worker,
             RecordEvent(u) \/ RaiseMessage(u) \/ RaiseRecipient(u) \/ Suppress(u)
      PROVE  /\ \A v, w \in WorkersOn(m)' : v = w
             /\ \A w \in WorkersOn(m)' : pc'[w] \in {"record", "message"} => seen'[w] = status'[m]
  <2>1. hand' = hand /\ seen' = seen
    BY <1>5 DEF RecordEvent, RaiseMessage, RaiseRecipient, Suppress
  <2>2. WorkersOn(m)' = WorkersOn(m)
    BY <2>1, HandsStay
  <2>3. CASE RaiseMessage(u)
    <3>1. u \in WorkersOn(m) \/ status'[m] = status[m]
      BY <2>3 DEF RaiseMessage, WorkersOn, HandsInOrder, TypeOK
    <3>2. pc' = [pc EXCEPT ![u] = "recipient"]
      BY <2>3 DEF RaiseMessage, Go
    <3> QED
      BY <1>1, <2>1, <2>2, <3>1, <3>2 DEF TypeOK
  <2>4. CASE RecordEvent(u) \/ RaiseRecipient(u) \/ Suppress(u)
    <3>1. status' = status
      BY <2>4 DEF RecordEvent, RaiseRecipient, Suppress
    <3>2. /\ \A w \in Worker \ {u} : pc'[w] = pc[w]
          /\ pc'[u] \in {"record", "message"} => pc[u] = "record"
      BY <2>4 DEF RecordEvent, RaiseRecipient, Suppress, Go, TypeOK
    <3> QED
      BY <1>1, <2>1, <2>2, <3>1, <3>2
  <2> QED
    BY <1>5, <2>3, <2>4
<1>6. ASSUME NEW u \in Worker, SaveLog(u) \/ WorkerCrash(u)
      PROVE  /\ \A v, w \in WorkersOn(m)' : v = w
             /\ \A w \in WorkersOn(m)' : pc'[w] \in {"record", "message"} => seen'[w] = status'[m]
  <2>1. status' = status /\ LetGo(u)
    BY <1>6 DEF SaveLog, WorkerCrash
  <2>2. WorkersOn(m)' = WorkersOn(m) \ {u}
    BY <2>1, HandLetsGo DEF LetGo
  <2> QED
    BY <1>1, <2>1, <2>2 DEF LetGo, TypeOK
<1> QED
  BY <1>2, <1>3, <1>4, <1>5, <1>6, NextCases

(* One more report raises the highest rank to its own, or leaves it.       *)
LEMMA HighestGrows ==
  ASSUME NEW start \in MessageStatus, NEW reports \in SUBSET Report, NEW r \in Report,
         NEW n \in Nat, IsHighest(n, start, reports)
  PROVE  IsHighest(IF RankOf(r) > n THEN RankOf(r) ELSE n, start, reports \cup {r})
<1>1. StatusRank[start] \in Nat /\ \A s \in reports \cup {r} : RankOf(s) \in Nat
  BY RankType, ReportType
<1>2. CASE RankOf(r) > n
  <2>1. IsHighest(RankOf(r), start, reports \cup {r})
    BY <1>1, <1>2 DEF IsHighest
  <2> QED
    BY <1>2, <2>1
<1>3. CASE ~ (RankOf(r) > n)
  <2>1. IsHighest(n, start, reports \cup {r})
    BY <1>1, <1>3 DEF IsHighest
  <2> QED
    BY <1>3, <2>1
<1> QED
  BY <1>2, <1>3

(* What a worker's step makes of the reports still to be applied: those of *)
(* the others are untouched, and no two workers have one report in hand.   *)
LEMMA UnappliedStep ==
  ASSUME TypeOK, HandsInOrder, NEW w \in Worker, NEW steps, "idle" \notin steps,
         pc[w] # "idle", \A v \in Worker \ {w} : pc'[v] = pc[v], hand' = hand
  PROVE  /\ pc'[w] \in steps => Unapplied(steps)' = Unapplied(steps) \cup {hand[w]}
         /\ pc'[w] \notin steps => Unapplied(steps)' = Unapplied(steps) \ {hand[w]}
<1> DEFINE old == Unapplied(steps)
           new == Unapplied(steps)'
           others == {hand[v] : v \in {v \in Worker \ {w} : pc[v] \in steps}}
<1>1. new = others \cup (IF pc'[w] \in steps THEN {hand[w]} ELSE {})
  BY DEF Unapplied
<1>2. old \ {hand[w]} = others
  <2>1. old \ {hand[w]} \subseteq others
    BY DEF Unapplied
  <2>2. ASSUME NEW v \in Worker \ {w}, pc[v] \in steps
        PROVE  hand[v] \in old /\ hand[v] # hand[w]
    BY <2>2 DEF Unapplied, HandsInOrder
  <2> QED
    BY <2>1, <2>2
<1> HIDE DEF old, new, others
<1>3. /\ pc'[w] \in steps => new = old \cup {hand[w]}
      /\ pc'[w] \notin steps => new = old \ {hand[w]}
  BY <1>1, <1>2
<1> QED
  BY <1>3 DEF old, new

LEMMA GoMoves ==
  ASSUME TypeOK, NEW w \in Worker, NEW where, Go(w, where)
  PROVE  pc'[w] = where /\ \A v \in Worker \ {w} : pc'[v] = pc[v]
BY DEF Go, TypeOK

LEMMA UnappliedTakes ==
  ASSUME TypeOK, NEW w \in Worker, NEW r \in Report, NEW steps,
         pc[w] = "idle", pc' = [pc EXCEPT ![w] = "record"], hand' = [hand EXCEPT ![w] = r],
         "idle" \notin steps, "record" \notin steps
  PROVE  Unapplied(steps)' = Unapplied(steps)
BY DEF Unapplied, TypeOK

LEMMA UnappliedLetsGo ==
  ASSUME TypeOK, HandsInOrder, NEW w \in Worker, NEW steps, pc[w] # "idle", LetGo(w),
         "idle" \notin steps
  PROVE  Unapplied(steps)' = Unapplied(steps) \ {hand[w]}
BY DEF Unapplied, TypeOK, HandsInOrder, LetGo

LEMMA UnappliedStays ==
  ASSUME pc' = pc, hand' = hand, NEW steps
  PROVE  Unapplied(steps)' = Unapplied(steps)
BY DEF Unapplied

LEMMA OwnHand ==
  ASSUME TypeOK, HandsInOrder, NEW w \in Worker, NEW steps, "idle" \notin steps, pc[w] # "idle"
  PROVE  hand[w] \in Unapplied(steps) <=> pc[w] \in steps
BY DEF Unapplied, TypeOK, HandsInOrder

(* The event of a report is created and the report waits to be applied, so *)
(* what is applied is as before.                                           *)
LEMMA RecordKeepsApplied ==
  ASSUME TypeOK, HandsInOrder, NEW w \in Worker, RecordEvent(w), NEW steps,
         steps \in {{"message"}, {"message", "recipient"}}
  PROVE  event' \ Unapplied(steps)' = event \ Unapplied(steps)
<1>1. /\ pc[w] = "record" /\ event' = event \cup {hand[w]} /\ hand' = hand
      /\ pc'[w] = (IF hand[w] \in event THEN "save" ELSE "message")
      /\ \A v \in Worker \ {w} : pc'[v] = pc[v]
  BY GoMoves DEF RecordEvent
<1>2. "idle" \notin steps /\ "record" \notin steps /\ "save" \notin steps /\ "message" \in steps
  OBVIOUS
<1>3. hand[w] \notin Unapplied(steps)
  BY <1>1, <1>2, OwnHand
<1>4. CASE hand[w] \in event
  <2>1. Unapplied(steps)' = Unapplied(steps) \ {hand[w]}
    BY <1>1, <1>2, <1>4, UnappliedStep
  <2> QED
    BY <1>1, <1>3, <1>4, <2>1
<1>5. CASE hand[w] \notin event
  <2>1. Unapplied(steps)' = Unapplied(steps) \cup {hand[w]}
    BY <1>1, <1>2, <1>3, <1>5, UnappliedStep
  <2> QED
    BY <1>1, <1>5, <2>1
<1> QED
  BY <1>4, <1>5

(* The other steps that apply nothing: a worker that dies may leave a      *)
(* report behind that is then lost.                                        *)
LEMMA RestKeepsApplied ==
  ASSUME TypeOK, HandsInOrder, NEW w \in Worker, Suppress(w) \/ SaveLog(w) \/ WorkerCrash(w),
         NEW steps, steps \in {{"message"}, {"message", "recipient"}}
  PROVE  /\ event' \ Unapplied(steps)' \subseteq (event \ Unapplied(steps)) \cup lost'
         /\ event \ Unapplied(steps) \subseteq event' \ Unapplied(steps)'
<1>1. "idle" \notin steps /\ "save" \notin steps /\ "suppress" \notin steps
      /\ steps \subseteq {"message", "recipient", "suppress"}
  OBVIOUS
<1>2. CASE Suppress(w)
  <2>1. pc[w] = "suppress" /\ pc'[w] = "save" /\ \A v \in Worker \ {w} : pc'[v] = pc[v]
    BY <1>2, GoMoves DEF Suppress
  <2>2. Unapplied(steps)' = Unapplied(steps) \ {hand[w]} /\ hand[w] \notin Unapplied(steps)
    BY <1>1, <1>2, <2>1, UnappliedStep, OwnHand DEF Suppress, work
  <2> QED
    BY <1>2, <2>2 DEF Suppress
<1>3. CASE SaveLog(w)
  <2>1. Unapplied(steps)' = Unapplied(steps) \ {hand[w]} /\ hand[w] \notin Unapplied(steps)
    BY <1>1, <1>3, UnappliedLetsGo, OwnHand DEF SaveLog
  <2> QED
    BY <1>3, <2>1 DEF SaveLog
<1>4. CASE WorkerCrash(w)
  <2>1. Unapplied(steps)' = Unapplied(steps) \ {hand[w]}
    BY <1>1, <1>4, UnappliedLetsGo DEF WorkerCrash
  <2>2. hand[w] \in Unapplied(steps) => hand[w] \in lost'
    BY <1>1, <1>4, OwnHand DEF WorkerCrash
  <2>3. event' = event
    BY <1>4 DEF WorkerCrash
  <2> QED
    BY <2>1, <2>2, <2>3
<1> QED
  BY <1>2, <1>3, <1>4

LEMMA MessageStep ==
  ASSUME TypeOK, HandsInOrder, EventsInOrder, OneHand, MessageFollows, Next
  PROVE  MessageFollows'
<1> DEFINE Applied == event \ Unapplied({"message"})
           About_(m) == {r \in Applied : About[r] = m}
<1> SUFFICES ASSUME NEW m \in Message, stage'[m] = "stored", m \notin met', Undisturbed(m)'
             PROVE  IsHighest(StatusRank[status'[m]], "sent", About_(m)')
  <2>1. \A m \in Message : (Recorded(m) \ Unapplied({"message"}))' = About_(m)'
    BY DEF Recorded
  <2>2. \A m \in Message : IsHighest(StatusRank[status'[m]], "sent", About_(m)') =>
          IsHighest(StatusRank[status[m]], "sent", Recorded(m) \ Unapplied({"message"}))'
    BY <2>1 DEF IsHighest
  <2> HIDE DEF About_
  <2> QED
    BY <2>2 DEF MessageFollows
<1>1. CASE stage[m] # "stored"
  <2>1. StoreMessage(m)
    BY <1>1, NextCases DEF TypeOK, Beside, Clear, Refuse, Accept, StoreMessage, AddSuppression,
       Age, RemoveSuppression, Relist, ExpireSuppressedAddresses, sending, Post, FindMessage,
       FindNothing, RecordEvent, RaiseMessage, RaiseRecipient, Suppress, SaveLog, WorkerCrash
  <2>2. event' = event /\ status'[m] = "sent"
    BY <2>1 DEF StoreMessage, TypeOK
  <2>3. About_(m)' = {}
    BY <1>1, <2>2 DEF EventsInOrder
  <2> QED
    BY <2>2, <2>3, RankType DEF IsHighest
<1>2. ASSUME stage[m] = "stored"
      PROVE  IsHighest(StatusRank[status'[m]], "sent", About_(m)')
  <2>1. m \notin met /\ Undisturbed(m)
    BY StageOnward DEF Undisturbed
  <2>2. IsHighest(StatusRank[status[m]], "sent", About_(m))
    <3>1. About_(m) = Recorded(m) \ Unapplied({"message"})
      BY DEF Recorded
    <3> QED
      BY <1>2, <2>1, <3>1 DEF MessageFollows
  <2>3. ASSUME status'[m] = status[m], About_(m)' = About_(m)
        PROVE  IsHighest(StatusRank[status'[m]], "sent", About_(m)')
    BY <2>2, <2>3
  <2>4. CASE Beside
    <3>1. status'[m] = status[m]
      BY <1>2, <2>4 DEF Beside, Clear, Refuse, Accept, StoreMessage, AddSuppression, Age,
                RemoveSuppression, Relist, ExpireSuppressedAddresses, TypeOK, sending
    <3>2. Applied' = Applied
      BY <2>4, BesideLeaves, UnappliedStays
    <3> QED
      BY <2>3, <3>1, <3>2
  <2>5. CASE \/ \E r \in Report : Post(r)
             \/ \E w \in Worker, r \in Report : FindNothing(w, r)
    <3>1. status' = status /\ event' = event /\ pc' = pc /\ hand' = hand
      BY <2>5 DEF Post, FindNothing, sending, work
    <3> QED
      BY <2>3, <3>1, UnappliedStays
  <2>6. ASSUME NEW w \in Worker, NEW r \in Report, FindMessage(w, r)
        PROVE  status' = status /\ Applied' = Applied
    <3>1. Unapplied({"message"})' = Unapplied({"message"})
      BY <2>6, UnappliedTakes DEF FindMessage
    <3> QED
      BY <2>6, <3>1 DEF FindMessage, sending
  <2>7. ASSUME NEW w \in Worker, RecordEvent(w)
        PROVE  status' = status /\ Applied' = Applied
    BY <2>7, RecordKeepsApplied DEF RecordEvent, sending
  <2>8. ASSUME NEW w \in Worker, RaiseMessage(w)
        PROVE  IsHighest(StatusRank[status'[m]], "sent", About_(m)')
    <3> DEFINE r == hand[w]
    <3>1. pc[w] = "message" /\ r \in Report /\ r \in event
      BY <2>8, HandIsReport DEF RaiseMessage, HandsInOrder
    <3>2. Unapplied({"message"})' = Unapplied({"message"}) \ {r}
      <4>1. /\ pc'[w] = "recipient" /\ \A v \in Worker \ {w} : pc'[v] = pc[v]
            /\ hand' = hand
        BY <2>8, GoMoves DEF RaiseMessage
      <4> QED
        BY <3>1, <4>1, UnappliedStep
    <3>3. Applied' = Applied \cup {r}
      BY <2>8, <3>1, <3>2 DEF RaiseMessage
    <3>4. CASE About[r] # m
      <4>1. status'[m] = status[m]
        BY <2>8, <3>4 DEF RaiseMessage, TypeOK
      <4> QED
        BY <2>3, <3>3, <3>4, <4>1
    <3>5. CASE About[r] = m
      <4>1. seen[w] = status[m]
        BY <2>1, <3>1, <3>5 DEF OneHand, WorkersOn, HandsInOrder
      <4>2. status[m] \in MessageStatus /\ StatusRank[status[m]] \in Nat
        BY RankType DEF TypeOK
      <4>3. StatusRank[status'[m]] =
              IF RankOf(r) > StatusRank[status[m]] THEN RankOf(r) ELSE StatusRank[status[m]]
        BY <2>8, <3>1, <3>5, <4>1, ReportType DEF RaiseMessage, TypeOK
      <4>4. About_(m)' = About_(m) \cup {r}
        BY <3>3, <3>5
      <4>5. About_(m) \in SUBSET Report
        BY DEF TypeOK
      <4> HIDE DEF About_, r
      <4>6. IsHighest(IF RankOf(r) > StatusRank[status[m]] THEN RankOf(r) ELSE StatusRank[status[m]],
                      "sent", About_(m) \cup {r})
        BY <2>2, <3>1, <4>2, <4>5, RankType, HighestGrows
      <4> QED
        BY <4>3, <4>4, <4>6
    <3> QED
      BY <3>4, <3>5
  <2>9. ASSUME NEW w \in Worker, RaiseRecipient(w)
        PROVE  status' = status /\ Applied' = Applied
    <3>1. pc[w] = "recipient"
      BY <2>9 DEF RaiseRecipient
    <3>2. /\ pc'[w] \in {"suppress", "save"} /\ \A v \in Worker \ {w} : pc'[v] = pc[v]
          /\ hand' = hand
      BY <2>9, GoMoves DEF RaiseRecipient
    <3>3. Unapplied({"message"})' = Unapplied({"message"}) \ {hand[w]}
      BY <2>9, <3>1, <3>2, UnappliedStep DEF RaiseRecipient
    <3>4. hand[w] \notin Unapplied({"message"})
      BY <3>1, OwnHand
    <3> QED
      BY <2>9, <3>3, <3>4 DEF RaiseRecipient
  <2>10. ASSUME NEW w \in Worker, Suppress(w) \/ SaveLog(w) \/ WorkerCrash(w)
         PROVE  status'[m] = status[m] /\ About_(m)' = About_(m)
    <3>1. /\ Applied' \subseteq Applied \cup lost' /\ Applied \subseteq Applied'
      BY <2>10, RestKeepsApplied
    <3>2. status' = status
      BY <2>10 DEF Suppress, SaveLog, WorkerCrash, sending
    <3>3. \A r \in lost' : About[r] # m
      BY DEF Undisturbed
    <3> QED
      BY <3>1, <3>2, <3>3
  <2> HIDE DEF About_
  <2> QED
    BY <2>3, <2>4, <2>5, <2>6, <2>7, <2>8, <2>9, <2>10, NextCases DEF About_
<1> QED
  BY <1>1, <1>2

LEMMA RecipientStep ==
  ASSUME TypeOK, HandsInOrder, RecipientFollows, Next
  PROVE  RecipientFollows'
<1> DEFINE Steps == {"message", "recipient"}
           Applied == event \ Unapplied(Steps)
           For(ma) == {r \in Applied : About[r] = ma[1] /\ Rcpt[r] = ma[2]}
<1> SUFFICES ASSUME NEW ma \in Recipients, Undisturbed(ma[1])'
             PROVE  IsHighest(StatusRank[rcptStatus'[ma]], "queued", For(ma)')
  <2>1. \A ma \in Recipients :
          ({r \in Recorded(ma[1]) : Rcpt[r] = ma[2]} \ Unapplied({"message", "recipient"}))' = For(ma)'
    BY DEF Recorded
  <2>2. \A ma \in Recipients : IsHighest(StatusRank[rcptStatus'[ma]], "queued", For(ma)') =>
          IsHighest(StatusRank[rcptStatus[ma]], "queued",
            {r \in Recorded(ma[1]) : Rcpt[r] = ma[2]} \ Unapplied({"message", "recipient"}))'
    BY <2>1 DEF IsHighest
  <2> HIDE DEF For
  <2> QED
    BY <2>2 DEF RecipientFollows
<1>1. Undisturbed(ma[1])
  BY StageOnward DEF Undisturbed
<1>2. IsHighest(StatusRank[rcptStatus[ma]], "queued", For(ma))
  <2>1. For(ma) = {r \in Recorded(ma[1]) : Rcpt[r] = ma[2]} \ Unapplied({"message", "recipient"})
    BY DEF Recorded
  <2> QED
    BY <1>1, <2>1 DEF RecipientFollows
<1>3. ASSUME rcptStatus'[ma] = rcptStatus[ma], For(ma)' = For(ma)
      PROVE  IsHighest(StatusRank[rcptStatus'[ma]], "queued", For(ma)')
  BY <1>2, <1>3
<1>4. CASE Beside
  <2>1. rcptStatus' = rcptStatus
    BY <1>4 DEF Beside, Clear, Refuse, Accept, StoreMessage, AddSuppression, Age,
              RemoveSuppression, Relist, ExpireSuppressedAddresses, sending
  <2>2. Applied' = Applied
    BY <1>4, BesideLeaves, UnappliedStays
  <2> QED
    BY <1>3, <2>1, <2>2
<1>5. CASE \/ \E r \in Report : Post(r)
           \/ \E w \in Worker, r \in Report : FindNothing(w, r)
  <2>1. rcptStatus' = rcptStatus /\ event' = event /\ pc' = pc /\ hand' = hand
    BY <1>5 DEF Post, FindNothing, sending, work
  <2> QED
    BY <1>3, <2>1, UnappliedStays
<1>6. ASSUME NEW w \in Worker, NEW r \in Report, FindMessage(w, r)
      PROVE  rcptStatus' = rcptStatus /\ Applied' = Applied
  <2>1. Unapplied(Steps)' = Unapplied(Steps)
    BY <1>6, UnappliedTakes DEF FindMessage
  <2> QED
    BY <1>6, <2>1 DEF FindMessage, sending
<1>7. ASSUME NEW w \in Worker, RecordEvent(w)
      PROVE  rcptStatus' = rcptStatus /\ Applied' = Applied
  BY <1>7, RecordKeepsApplied DEF RecordEvent, sending
<1>8. ASSUME NEW w \in Worker, RaiseMessage(w)
      PROVE  rcptStatus' = rcptStatus /\ Applied' = Applied
  <2>1. /\ pc[w] = "message" /\ pc'[w] = "recipient" /\ hand' = hand
        /\ \A v \in Worker \ {w} : pc'[v] = pc[v]
    BY <1>8, GoMoves DEF RaiseMessage
  <2>2. Unapplied(Steps)' = Unapplied(Steps) \cup {hand[w]} /\ hand[w] \in Unapplied(Steps)
    BY <2>1, UnappliedStep, OwnHand
  <2> QED
    BY <1>8, <2>2 DEF RaiseMessage
<1>9. ASSUME NEW w \in Worker, RaiseRecipient(w)
      PROVE  IsHighest(StatusRank[rcptStatus'[ma]], "queued", For(ma)')
  <2> DEFINE r == hand[w]
  <2>1. pc[w] = "recipient" /\ r \in Report /\ r \in event
    BY <1>9, HandIsReport DEF RaiseRecipient, HandsInOrder
  <2>2. Unapplied(Steps)' = Unapplied(Steps) \ {r}
    <3>1. /\ pc'[w] \in {"suppress", "save"} /\ \A v \in Worker \ {w} : pc'[v] = pc[v]
          /\ hand' = hand
      BY <1>9, GoMoves DEF RaiseRecipient
    <3> QED
      BY <2>1, <3>1, UnappliedStep
  <2>3. Applied' = Applied \cup {r}
    BY <1>9, <2>1, <2>2 DEF RaiseRecipient
  <2>4. <<About[r], Rcpt[r]>> = ma <=> About[r] = ma[1] /\ Rcpt[r] = ma[2]
    BY DEF Recipients
  <2>5. CASE <<About[r], Rcpt[r]>> # ma
    <3>1. rcptStatus'[ma] = rcptStatus[ma]
      BY <1>9, <2>5 DEF RaiseRecipient, TypeOK
    <3> QED
      BY <1>3, <2>3, <2>4, <2>5, <3>1
  <2>6. CASE <<About[r], Rcpt[r]>> = ma
    <3>1. rcptStatus[ma] \in MessageStatus /\ StatusRank[rcptStatus[ma]] \in Nat
      BY RankType DEF TypeOK
    <3>2. StatusRank[rcptStatus'[ma]] =
            IF RankOf(r) > StatusRank[rcptStatus[ma]] THEN RankOf(r) ELSE StatusRank[rcptStatus[ma]]
      BY <1>9, <2>1, <2>6, ReportType DEF RaiseRecipient, TypeOK
    <3>3. For(ma)' = For(ma) \cup {r}
      BY <2>3, <2>4, <2>6
    <3>4. For(ma) \in SUBSET Report
      BY DEF TypeOK
    <3> HIDE DEF For, r
    <3>5. IsHighest(IF RankOf(r) > StatusRank[rcptStatus[ma]]
                    THEN RankOf(r) ELSE StatusRank[rcptStatus[ma]], "queued", For(ma) \cup {r})
      BY <1>2, <2>1, <3>1, <3>4, RankType, HighestGrows
    <3> QED
      BY <3>2, <3>3, <3>5
  <2> QED
    BY <2>5, <2>6
<1>10. ASSUME NEW w \in Worker, Suppress(w) \/ SaveLog(w) \/ WorkerCrash(w)
       PROVE  rcptStatus' = rcptStatus /\ For(ma)' = For(ma)
  <2>1. /\ Applied' \subseteq Applied \cup lost' /\ Applied \subseteq Applied'
    BY <1>10, RestKeepsApplied
  <2>2. rcptStatus' = rcptStatus
    BY <1>10 DEF Suppress, SaveLog, WorkerCrash, sending
  <2>3. \A r \in lost' : About[r] # ma[1]
    BY DEF Undisturbed
  <2> QED
    BY <2>1, <2>2, <2>3
<1> HIDE DEF For
<1> QED
  BY <1>3, <1>4, <1>5, <1>6, <1>7, <1>8, <1>9, <1>10, NextCases DEF For

(* A suppressing report that has its event is excused, has its suppression *)
(* or is still in the hand that is about to make it.                       *)
LEMMA SuppressionStep ==
  ASSUME TypeOK, HandsInOrder, SuppressionFollows, Next
  PROVE  SuppressionFollows'
<1> DEFINE Steps == {"message", "recipient", "suppress"}
           At(r) == <<SuppressionDomain(r), Rcpt[r]>>
           Follows(r) == r \in lost \cup waived \/ listed[At(r)] = "forever" \/ r \in Unapplied(Steps)
<1> SUFFICES ASSUME NEW r \in event' \cap Suppressing
             PROVE  Follows(r)'
  BY DEF SuppressionFollows
<1> USE DEF history
<1>1. r \in Report /\ At(r) \in Domain \X Address
  BY ReportType DEF Suppressing
<1>2. r \in event => Follows(r)
  BY DEF SuppressionFollows
<1> HIDE DEF At
<1>3. lost \subseteq lost' /\ waived \subseteq waived'
  BY StageOnward DEF Next, Work, Clear, Refuse, Accept, StoreMessage, Post, FindMessage,
         FindNothing, RecordEvent, RaiseMessage, RaiseRecipient, Suppress, SaveLog, WorkerCrash,
         AddSuppression, Age, RemoveSuppression, Relist, ExpireSuppressedAddresses
<1>4. CASE Beside
  <2>1. event' = event /\ Unapplied(Steps)' = Unapplied(Steps)
    BY <1>4, BesideLeaves, UnappliedStays
  <2>2. CASE \E da \in Managed : RemoveSuppression(da)
    <3>1. PICK da \in Managed : RemoveSuppression(da)
      BY <2>2
    <3>2. At(r) = da => r \in waived'
      BY <2>1, <3>1 DEF RemoveSuppression, At
    <3>3. At(r) # da => listed'[At(r)] = listed[At(r)]
      BY <1>1, <3>1 DEF RemoveSuppression, Relist, TypeOK
    <3> QED
      BY <1>2, <1>3, <2>1, <3>2, <3>3
  <2>3. CASE ~ \E da \in Managed : RemoveSuppression(da)
    <3>1. listed[At(r)] = "forever" => listed'[At(r)] = "forever"
      BY <1>1, <1>4, <2>3 DEF Beside, Clear, Refuse, Accept, StoreMessage, AddSuppression, Age,
                Relist, ExpireSuppressedAddresses, TypeOK
    <3> QED
      BY <1>2, <1>3, <2>1, <3>1
  <2> QED
    BY <2>2, <2>3
<1>5. CASE \/ \E s \in Report : Post(s)
           \/ \E w \in Worker, s \in Report : FindNothing(w, s)
  <2>1. listed' = listed /\ event' = event /\ pc' = pc /\ hand' = hand
    BY <1>5 DEF Post, FindNothing, work
  <2> QED
    BY <1>2, <1>3, <2>1, UnappliedStays
<1>6. ASSUME NEW w \in Worker, NEW s \in Report, FindMessage(w, s)
      PROVE  Follows(r)'
  <2>1. Unapplied(Steps)' = Unapplied(Steps)
    BY <1>6, UnappliedTakes DEF FindMessage
  <2>2. listed' = listed /\ event' = event
    BY <1>6 DEF FindMessage
  <2> QED
    BY <1>2, <1>3, <2>1, <2>2
<1>7. ASSUME NEW w \in Worker, RecordEvent(w)
      PROVE  Follows(r)'
  <2>1. /\ pc[w] = "record" /\ event' = event \cup {hand[w]} /\ listed' = listed /\ hand' = hand
        /\ pc'[w] = (IF hand[w] \in event THEN "save" ELSE "message")
        /\ \A v \in Worker \ {w} : pc'[v] = pc[v]
    BY <1>7, GoMoves DEF RecordEvent
  <2>2. hand[w] \notin Unapplied(Steps)
    BY <2>1, OwnHand
  <2>3. /\ hand[w] \in event => Unapplied(Steps)' = Unapplied(Steps) \ {hand[w]}
        /\ hand[w] \notin event => Unapplied(Steps)' = Unapplied(Steps) \cup {hand[w]}
    BY <2>1, UnappliedStep
  <2> QED
    BY <1>2, <1>3, <2>1, <2>2, <2>3
<1>8. ASSUME NEW w \in Worker, RaiseMessage(w)
      PROVE  Follows(r)'
  <2>1. /\ pc[w] = "message" /\ pc'[w] = "recipient" /\ hand' = hand
        /\ \A v \in Worker \ {w} : pc'[v] = pc[v]
        /\ listed' = listed /\ event' = event
    BY <1>8, GoMoves DEF RaiseMessage
  <2>2. Unapplied(Steps)' = Unapplied(Steps) \cup {hand[w]}
    BY <2>1, UnappliedStep
  <2> QED
    BY <1>2, <1>3, <2>1, <2>2
<1>9. ASSUME NEW w \in Worker, RaiseRecipient(w)
      PROVE  Follows(r)'
  <2>1. /\ pc[w] = "recipient" /\ hand' = hand
        /\ pc'[w] = (IF hand[w] \in Suppressing THEN "suppress" ELSE "save")
        /\ \A v \in Worker \ {w} : pc'[v] = pc[v]
        /\ listed' = listed /\ event' = event
    BY <1>9, GoMoves DEF RaiseRecipient
  <2>2. /\ hand[w] \in Suppressing => Unapplied(Steps)' = Unapplied(Steps) \cup {hand[w]}
        /\ hand[w] \notin Suppressing => Unapplied(Steps)' = Unapplied(Steps) \ {hand[w]}
    BY <2>1, UnappliedStep
  <2> QED
    BY <1>2, <1>3, <2>1, <2>2
<1>10. ASSUME NEW w \in Worker, Suppress(w)
       PROVE  Follows(r)'
  <2>1. /\ pc[w] = "suppress" /\ pc'[w] = "save" /\ hand' = hand /\ event' = event
        /\ \A v \in Worker \ {w} : pc'[v] = pc[v]
    BY <1>10, GoMoves DEF Suppress, work
  <2>2. Unapplied(Steps)' = Unapplied(Steps) \ {hand[w]}
    BY <2>1, UnappliedStep
  <2>3. listed[At(r)] = "forever" => listed'[At(r)] = "forever"
    BY <1>1, <1>10 DEF Suppress, TypeOK
  <2>4. r = hand[w] => r \in waived' \/ listed'[At(r)] = "forever"
    <3>1. listed[At(r)] \in SuppressionState
      BY <1>1 DEF TypeOK
    <3> QED
      BY <1>1, <1>10, <2>3, <3>1 DEF Suppress, SuppressionState, At, TypeOK
  <2> QED
    BY <1>2, <1>3, <2>1, <2>2, <2>3, <2>4
<1>11. ASSUME NEW w \in Worker, SaveLog(w) \/ WorkerCrash(w)
       PROVE  Follows(r)'
  <2>1. listed' = listed /\ event' = event /\ LetGo(w) /\ pc[w] # "idle"
    BY <1>11 DEF SaveLog, WorkerCrash
  <2>2. Unapplied(Steps)' = Unapplied(Steps) \ {hand[w]}
    BY <2>1, UnappliedLetsGo
  <2>3. hand[w] \in Unapplied(Steps) => hand[w] \in lost'
    BY <1>11, <2>1, OwnHand DEF SaveLog, WorkerCrash
  <2> QED
    BY <1>2, <1>3, <2>1, <2>2, <2>3
<1> QED
  BY <1>4, <1>5, <1>6, <1>7, <1>8, <1>9, <1>10, <1>11, NextCases

LEMMA DeliveryStep == DeliveryInv /\ [Next]_vars => DeliveryInv'
<1> SUFFICES ASSUME DeliveryInv, [Next]_vars PROVE DeliveryInv'
  OBVIOUS
<1>1. CASE Next
  BY <1>1, TypeStep, HandsStep, OneHandStep, MessageStep, RecipientStep, SuppressionStep
     DEF DeliveryInv
<1>2. CASE UNCHANGED vars
  <2> USE <1>2 DEF DeliveryInv, vars, sending, work, history
  <2>1. TypeOK'
    BY DEF TypeOK
  <2>2. HandsInOrder' /\ EventsInOrder'
    BY DEF HandsInOrder, EventsInOrder
  <2>3. OneHand'
    BY DEF OneHand, WorkersOn
  <2>4. MessageFollows'
    BY DEF MessageFollows, IsHighest, Recorded, Unapplied, Undisturbed
  <2>5. RecipientFollows'
    BY DEF RecipientFollows, IsHighest, Recorded, Unapplied, Undisturbed
  <2>6. SuppressionFollows'
    BY DEF SuppressionFollows, Unapplied
  <2> QED
    BY <2>1, <2>2, <2>3, <2>4, <2>5, <2>6
<1> QED
  BY <1>1, <1>2

LEMMA DeliveryAlways == Spec => []DeliveryInv
BY DeliveryInit, DeliveryStep, PTL DEF Spec

(* In create_delivery_event and around it every variable keeps its type.   *)
THEOREM DeliveryTypeCorrect == Spec => []TypeOK
BY DeliveryAlways, PTL DEF DeliveryInv

(* What bounds the ranks and is one of them is the highest.                *)
LEMMA HighestUnique ==
  ASSUME NEW start \in MessageStatus, NEW reports \in SUBSET Report, NEW n \in Nat,
         IsHighest(n, start, reports)
  PROVE  n = Highest(start, reports)
<1> DEFINE S == {StatusRank[start]} \cup {RankOf(r) : r \in reports}
<1>1. StatusRank[start] \in Nat /\ \A r \in reports : RankOf(r) \in Nat
  BY RankType, ReportType
<1>2. n \in S /\ \A y \in S : y \in Nat /\ n >= y
  BY <1>1 DEF IsHighest
<1> HIDE DEF S
<1>3. Max(S) \in S /\ \A y \in S : Max(S) >= y
  BY <1>2 DEF Max
<1>4. Max(S) >= n /\ n >= Max(S) /\ Max(S) \in Nat
  BY <1>2, <1>3
<1>5. Max(S) = n
  BY <1>4
<1> QED
  BY <1>5 DEF Highest, S

(* What nobody works on waits for nobody.                                  *)
LEMMA NothingUnapplied ==
  ASSUME TypeOK, HandsInOrder, NEW m \in Message, WorkersOn(m) = {}, NEW steps,
         NEW r \in Report, About[r] = m
  PROVE  r \notin Unapplied(steps)
BY DEF WorkersOn, Unapplied, TypeOK

LEMMA MessageHighest == DeliveryInv => MessageShowsHighest
<1> SUFFICES ASSUME DeliveryInv, NEW m \in Message, stage[m] = "stored", m \notin met,
                    WorkersOn(m) = {}, \A r \in lost : About[r] # m
             PROVE  StatusRank[status[m]] = Highest("sent", Recorded(m))
  BY DEF MessageShowsHighest
<1> USE DEF DeliveryInv
<1>1. Recorded(m) \in SUBSET Report /\ Recorded(m) \ Unapplied({"message"}) = Recorded(m)
  BY NothingUnapplied DEF Recorded, TypeOK
<1>2. IsHighest(StatusRank[status[m]], "sent", Recorded(m))
  BY <1>1 DEF MessageFollows, Undisturbed
<1>3. StatusRank[status[m]] \in Nat
  BY RankType DEF TypeOK
<1> QED
  BY <1>1, <1>2, <1>3, RankType, HighestUnique

LEMMA RecipientHighest == DeliveryInv => RecipientShowsHighest
<1> SUFFICES ASSUME DeliveryInv, NEW ma \in Recipients, WorkersOn(ma[1]) = {},
                    \A r \in lost : About[r] # ma[1]
             PROVE  StatusRank[rcptStatus[ma]] =
                      Highest("queued", {r \in Recorded(ma[1]) : Rcpt[r] = ma[2]})
  BY DEF RecipientShowsHighest
<1> USE DEF DeliveryInv
<1> DEFINE R == {r \in Recorded(ma[1]) : Rcpt[r] = ma[2]}
<1>1. R \in SUBSET Report /\ R \ Unapplied({"message", "recipient"}) = R
  BY NothingUnapplied DEF Recorded, TypeOK, Recipients
<1>2. IsHighest(StatusRank[rcptStatus[ma]], "queued", R)
  BY <1>1 DEF RecipientFollows, Undisturbed
<1>3. StatusRank[rcptStatus[ma]] \in Nat
  BY RankType DEF TypeOK
<1> QED
  BY <1>1, <1>2, <1>3, RankType, HighestUnique

(* However create_delivery_event's unlocked reads and writes interleave,   *)
(* a message at rest shows the highest status reported of it, unless two   *)
(* workers had it in hand at once or one died over it.                     *)
THEOREM StatusMovesForward == Spec => []MessageShowsHighest
BY DeliveryAlways, MessageHighest, PTL

(* A recipient shows the highest status reported of it, even where workers *)
(* race, because its UPDATE checks the rank itself.                        *)
THEOREM RecipientMovesForward == Spec => []RecipientShowsHighest
BY DeliveryAlways, RecipientHighest, PTL

LEMMA ClearSpares ==
  ASSUME DeliveryInv, [Next]_vars, NEW m \in Message, stage[m] = "new", stage'[m] = "cleared",
         NEW r \in Suppressing, row[r] = "processed", Rcpt[r] \in To[m],
         DomainOf[About[r]] = DomainOf[m], InboundDomain[About[r]] \in {NoDomain, DomainOf[m]}
  PROVE  r \in lost \cup waived
<1> USE DEF DeliveryInv
<1>1. Clear(m)
  <2>1. Next
    BY DEF vars, sending
  <2> QED
    BY <2>1 DEF Next, Work, Clear, Refuse, Accept, StoreMessage, Post, FindMessage, FindNothing,
           RecordEvent, RaiseMessage, RaiseRecipient, Suppress, SaveLog, WorkerCrash,
           AddSuppression, Age, RemoveSuppression, Relist, ExpireSuppressedAddresses, sending,
           TypeOK
<1>2. r \in Report /\ r \in event
  BY DEF Suppressing, EventsInOrder
<1>3. r \notin Unapplied({"message", "recipient", "suppress"})
  BY DEF Unapplied, HandsInOrder
<1>4. listed[<<SuppressionDomain(r), Rcpt[r]>>] # "forever"
  <2>1. ~ Active(DomainOf[m], Rcpt[r])
    BY <1>1 DEF Clear, SuppressedRecipients
  <2>2. SuppressionDomain(r) = DomainOf[m]
    BY DEF SuppressionDomain
  <2> QED
    BY <2>1, <2>2 DEF Active
<1> QED
  BY <1>2, <1>3, <1>4 DEF SuppressionFollows

(* No mail leaves for an address whose bounce, complaint or unsubscription *)
(* has been processed for the domain, with the exceptions the property     *)
(* names: recheck_suppressed_recipients sees every such suppression.       *)
THEOREM BouncedAddressSpared == Spec => NoMailAfterBounce
<1>1. DeliveryInv /\ [Next]_vars =>
        [\A m \in Message : stage[m] = "new" /\ stage'[m] = "cleared" =>
           \A r \in Suppressing :
             row[r] = "processed" /\ Rcpt[r] \in To[m]
             /\ DomainOf[About[r]] = DomainOf[m] /\ InboundDomain[About[r]] \in {NoDomain, DomainOf[m]}
               => r \in lost \cup waived]_vars
  BY ClearSpares
<1> QED
  BY <1>1, DeliveryAlways, PTL DEF Spec, NoMailAfterBounce
=============================================================================
