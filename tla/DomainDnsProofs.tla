---------------------------- MODULE DomainDnsProofs ----------------------------
(***************************************************************************)
(* Proofs about DomainDns, for any number of checks, retries and faults.   *)
(***************************************************************************)
EXTENDS DomainDns, TLAPS

(* No two records are one row.                                             *)
Distinct(rs) == \A r, s \in rs : SameRow(r, s) => r = s

(* Who is alone is under way, and nobody else is.                          *)
AloneIsAlone ==
  \A t \in Task : task[t].alone => Busy(t) /\ \A u \in Task \ {t} : ~ Busy(u)

(* The rows, and what a check was told of them, have one value a row.      *)
RowsDistinct == Distinct(records) /\ \A t \in Task : Distinct(task[t].data)

(* What a check that is alone has written by now is there, and at the end  *)
(* nothing else is.                                                        *)
AloneProgress ==
  \A t \in Task : task[t].alone =>
    /\ task[t].pc = "write" => /\ task[t].todo \subseteq task[t].data
                               /\ task[t].data \ task[t].todo \subseteq records
    /\ task[t].pc = "prune" => task[t].data \subseteq records
    /\ task[t].pc = "save" => task[t].data = records

(* Whoever is about to delete rows has ended an agreement with its writes. *)
AgreedBeforeWrites ==
  agreed => \A t \in Task : task[t].pc \notin {"prune", "save"}

DnsInv ==
  /\ TypeOK /\ AloneIsAlone /\ RowsDistinct /\ AloneProgress /\ AgreedBeforeWrites
  /\ CheckLeavesAgreement

USE DnsAssumption

(* What becomes of a check.                                                *)
LEMMA RestingIsCheck ==
  Resting \in Check /\ Resting.pc = "idle" /\ Resting.data = {} /\ ~ Resting.alone
BY DEF Resting, Check

LEMMA MovedIsCheck ==
  ASSUME NEW c \in Check, NEW pc,
         pc \in {"idle", "queued", "register", "recheck", "recheck_return_path", "write",
                 "prune", "save"}
  PROVE  LET d == [c EXCEPT !.pc = pc] IN
           d \in Check /\ d.pc = pc /\ d.data = c.data /\ d.todo = c.todo /\ d.alone = c.alone
             /\ d.retries = c.retries
BY DEF Check

LEMMA RetriedIsCheck ==
  ASSUME NEW c \in Check, NEW n \in 0 .. MaxRetries
  PROVE  LET d == [c EXCEPT !.pc = "queued", !.retries = n] IN
           d \in Check /\ d.pc = "queued" /\ d.data = c.data /\ d.alone = c.alone
BY DEF Check

LEMMA DnsInit == Init => DnsInv
<1> SUFFICES ASSUME Init PROVE DnsInv
  OBVIOUS
<1>1. ASSUME NEW t \in Task
      PROVE  /\ task[t] \in Check /\ ~ task[t].alone /\ task[t].pc \in {"idle", "queued"}
             /\ task[t].data = {}
  <2>1. PICK pc \in {"queued", "idle"} : task[t] = [Resting EXCEPT !.pc = pc]
    BY DEF Init
  <2> QED
    BY <2>1, RestingIsCheck, MovedIsCheck
<1>2. task \in [Task -> Check]
  <2>1. task = [t \in Task |-> task[t]]
    BY DEF Init
  <2> QED
    BY <1>1, <2>1
<1>3. /\ records = {} /\ agreed = FALSE /\ edit = {} /\ registered = FALSE /\ faults = 0
      /\ value = [p \in Purpose |-> 0]
      /\ zone = [p \in Purpose |-> FALSE]
      /\ seen = [p \in Purpose |-> FALSE]
  BY DEF Init
<1>5. TypeOK
  <2>1. domain \in Domain
    <3>1. domain = [status |-> "pending", provider_domain_id |-> FALSE, dns_records |-> {}]
      BY DEF Init
    <3> QED
      BY <3>1 DEF Domain, DomainStatus
  <2> QED
    <3>1. value \in [Purpose -> {0, 1}]
      BY <1>3
    <3>2. zone \in [Purpose -> BOOLEAN]
      BY <1>3
    <3>3. seen \in [Purpose -> BOOLEAN]
      BY <1>3
    <3>4. faults \in 0 .. MaxFaults
      BY <1>3, DnsAssumption
    <3> QED
      BY <1>2, <1>3, <2>1, <3>1, <3>2, <3>3, <3>4 DEF TypeOK
<1> QED
  BY <1>1, <1>3, <1>5 DEF DnsInv, AloneIsAlone, RowsDistinct, AloneProgress, AgreedBeforeWrites,
                    CheckLeavesAgreement, Distinct

-----------------------------------------------------------------------------
(* A step of one check: the others are no longer alone.                    *)
LEMMA IntrudeStep ==
  ASSUME task \in [Task -> Check], NEW t \in Task, NEW step \in Check, Intrude(t, step)
  PROVE  /\ task' \in [Task -> Check] /\ task'[t] = step
         /\ \A u \in Task \ {t} :
              /\ task'[u].pc = task[u].pc /\ task'[u].data = task[u].data
              /\ ~ task'[u].alone
BY DEF Intrude, Check

LEMMA AnswerIsRecords ==
  ASSUME TypeOK, seen' \in [Purpose -> BOOLEAN]
  PROVE  Answer \subseteq Record /\ Distinct(Answer)
BY DEF TypeOK, Answer, Record, Purpose, Distinct, SameRow

LEMMA ToldStep ==
  ASSUME TypeOK, NEW t \in Task, seen' \in [Purpose -> BOOLEAN], Told(t)
  PROVE  /\ task' \in [Task -> Check]
         /\ \A u \in Task \ {t} : task'[u] = task[u]
         /\ task'[t].pc = "write" /\ task'[t].data = Answer /\ task'[t].todo = Answer
         /\ task'[t].alone = task[t].alone
<1>1. Answer \subseteq Record
  BY AnswerIsRecords
<1> QED
  BY <1>1 DEF TypeOK, Told, Check

(* What becomes of the domain.                                             *)
LEMMA DomainChanged ==
  ASSUME NEW d \in Domain, NEW status \in DomainStatus
  PROVE  [d EXCEPT !.status = status] \in Domain
BY DEF Domain

(* The check of one step, for all but the steps that Told describes.       *)
LEMMA StepIsCheck ==
  ASSUME TypeOK, NEW t \in Task
  PROVE  /\ Resting \in Check
         /\ Busy(t) => Again(t) \in Check /\ Again(t).data = {} /\ ~ Again(t).alone
                       /\ Again(t).pc \in {"idle", "queued"}
<1>1. task[t].retries \in 0 .. MaxRetries
  BY DEF TypeOK, Check
<1>2. task[t].retries < MaxRetries => task[t].retries + 1 \in 0 .. MaxRetries
  BY <1>1, DnsAssumption
<1>3. task[t].retries < MaxRetries =>
        Again(t) = [Resting EXCEPT !.pc = "queued", !.retries = task[t].retries + 1]
  BY DEF Again
<1> QED
  BY <1>2, <1>3, RestingIsCheck, RetriedIsCheck DEF Again


-----------------------------------------------------------------------------
LEMMA DnsStep == DnsInv /\ [Next]_vars => DnsInv'
<1> SUFFICES ASSUME DnsInv, [Next]_vars PROVE DnsInv'
  OBVIOUS
<1> USE DnsAssumption DEF DnsInv
<1>0. /\ task \in [Task -> Check] /\ domain \in Domain /\ records \subseteq Record
      /\ \A t \in Task : task[t] \in Check
  BY DEF TypeOK
<1>1. ASSUME NEW t \in Task, Start(t) PROVE DnsInv'
  <2>1. PICK pc \in {"register", "recheck"}, alone \in BOOLEAN :
          /\ Intrude(t, [task[t] EXCEPT !.pc = pc, !.alone = alone])
          /\ alone => \A u \in Task \ {t} : ~ Busy(u)
    BY <1>1 DEF Start
  <2>2. UNCHANGED <<domain, records, edit, world, history>> /\ task[t].pc = "queued"
    BY <1>1 DEF Start
  <2>3. /\ task' \in [Task -> Check]
        /\ task'[t].pc = pc /\ task'[t].data = task[t].data /\ task'[t].alone = alone
        /\ \A u \in Task \ {t} :
              /\ task'[u].pc = task[u].pc /\ task'[u].data = task[u].data
              /\ ~ task'[u].alone
    <3> DEFINE d == [task[t] EXCEPT !.pc = pc, !.alone = alone]
    <3>1. d \in Check /\ d.pc = pc /\ d.data = task[t].data /\ d.alone = alone
      <4>1. task[t] \in Check
        BY <1>0
      <4> QED
        BY <4>1 DEF Check
    <3>2. Intrude(t, d)
      BY <2>1
    <3> HIDE DEF d
    <3> QED
      BY <1>0, <3>1, <3>2, IntrudeStep
  <2>4. TypeOK'
    BY <2>2, <2>3 DEF TypeOK, world, history
  <2>5. AloneIsAlone' /\ AloneProgress' /\ AgreedBeforeWrites'
    BY <2>1, <2>2, <2>3 DEF AloneIsAlone, AloneProgress, AgreedBeforeWrites, Busy, history
  <2>6. RowsDistinct' /\ CheckLeavesAgreement'
    BY <2>2, <2>3 DEF RowsDistinct, Distinct, CheckLeavesAgreement, Verified, history
  <2> QED
    BY <2>4, <2>5, <2>6
<1>2. ASSUME NEW t \in Task, Register(t) \/ RecheckReturnPath(t) PROVE DnsInv'
  <2>1. /\ seen' \in [Purpose -> BOOLEAN] /\ registered' \in BOOLEAN
        /\ UNCHANGED <<domain, records, edit, value, zone, history>>
        /\ Told(t) /\ task[t].pc \in {"register", "recheck_return_path"}
    BY <1>2 DEF Register, RecheckReturnPath, TypeOK, Purpose
  <2>2. /\ task' \in [Task -> Check]
        /\ \A u \in Task \ {t} : task'[u] = task[u]
        /\ task'[t].pc = "write" /\ task'[t].data = Answer /\ task'[t].todo = Answer
        /\ task'[t].alone = task[t].alone
    BY <2>1, ToldStep
  <2>3. TypeOK'
    BY <2>1, <2>2 DEF TypeOK, history
  <2>4. AloneIsAlone' /\ AloneProgress' /\ AgreedBeforeWrites'
    BY <2>1, <2>2 DEF AloneIsAlone, AloneProgress, AgreedBeforeWrites, Busy, history
  <2>5. Distinct(task'[t].data)
    BY <2>1, <2>2, AnswerIsRecords
  <2>6. RowsDistinct' /\ CheckLeavesAgreement'
    BY <2>1, <2>2, <2>5 DEF RowsDistinct, Distinct, CheckLeavesAgreement, Verified, history
  <2> QED
    BY <2>3, <2>4, <2>6
<1>3. ASSUME NEW t \in Task, Recheck(t) PROVE DnsInv'
  <2>1. /\ seen' \in [Purpose -> BOOLEAN]
        /\ UNCHANGED <<domain, records, edit, registered, value, zone, history>>
        /\ task' = [task EXCEPT ![t] = [task[t] EXCEPT !.pc = "recheck_return_path"]]
        /\ task[t].pc = "recheck"
    BY <1>3 DEF Recheck, TypeOK, Purpose
  <2>2. /\ task' \in [Task -> Check]
        /\ \A u \in Task \ {t} : task'[u] = task[u]
        /\ task'[t].pc = "recheck_return_path" /\ task'[t].data = task[t].data
        /\ task'[t].alone = task[t].alone
    BY <1>0, <2>1, MovedIsCheck
  <2>3. TypeOK'
    BY <2>1, <2>2 DEF TypeOK, history
  <2>4. AloneIsAlone' /\ AloneProgress' /\ AgreedBeforeWrites'
    BY <2>1, <2>2 DEF AloneIsAlone, AloneProgress, AgreedBeforeWrites, Busy, history
  <2>5. RowsDistinct' /\ CheckLeavesAgreement'
    BY <2>1, <2>2 DEF RowsDistinct, Distinct, CheckLeavesAgreement, Verified, history
  <2> QED
    BY <2>3, <2>4, <2>5
<1>4. ASSUME NEW t \in Task, NEW r \in task[t].todo, WriteRecord(t, r) PROVE DnsInv'
  <2>1. PICK pc \in {"write", "prune"} :
          /\ Intrude(t, [task[t] EXCEPT !.todo = task[t].todo \ {r}, !.pc = pc])
          /\ pc = "prune" => task[t].todo = {r}
    BY <1>4 DEF WriteRecord
  <2>2. /\ task[t].pc = "write" /\ ~ agreed'
        /\ records' = {s \in records : ~ SameRow(r, s)} \cup {r}
        /\ UNCHANGED <<domain, edit, world, faults>>
    BY <1>4 DEF WriteRecord
  <2>3. task[t].todo \in SUBSET Record /\ r \in Record
    BY <1>0 DEF Check
  <2>4. /\ task' \in [Task -> Check]
        /\ task'[t].pc = pc /\ task'[t].data = task[t].data /\ task'[t].alone = task[t].alone
        /\ task'[t].todo = task[t].todo \ {r}
        /\ \A u \in Task \ {t} :
              /\ task'[u].pc = task[u].pc /\ task'[u].data = task[u].data
              /\ ~ task'[u].alone
    <3> DEFINE todo == task[t].todo \ {r}
               d == [task[t] EXCEPT !.todo = todo, !.pc = pc]
    <3>1. /\ d \in Check /\ d.pc = pc /\ d.data = task[t].data /\ d.alone = task[t].alone
          /\ d.todo = todo
      <4>1. todo \in SUBSET Record
        BY <2>3
      <4> HIDE DEF todo
      <4> QED
        BY <1>0, <4>1 DEF Check
    <3>2. Intrude(t, d)
      BY <2>1
    <3> HIDE DEF d
    <3> QED
      BY <1>0, <3>1, <3>2, IntrudeStep
  <2>5. TypeOK'
    <3>1. agreed' \in BOOLEAN
      BY <1>4 DEF WriteRecord
    <3> QED
      BY <2>2, <2>3, <2>4, <3>1 DEF TypeOK, world
  <2>6. AloneIsAlone' /\ AgreedBeforeWrites' /\ CheckLeavesAgreement'
    BY <2>2, <2>4 DEF AloneIsAlone, AgreedBeforeWrites, CheckLeavesAgreement, Busy
  <2>7. RowsDistinct'
    BY <2>2, <2>4 DEF RowsDistinct, Distinct, SameRow
  <2>8. AloneProgress'
    <3>1. task[t].alone => task[t].data \ (task[t].todo \ {r}) \subseteq records'
      <4>1. \A s \in task[t].data : SameRow(r, s) /\ r \in task[t].data => r = s
        BY DEF RowsDistinct, Distinct
      <4> QED
        BY <2>2, <4>1 DEF AloneProgress
    <3> QED
      BY <2>1, <2>2, <2>4, <3>1 DEF AloneProgress
  <2> QED
    BY <2>5, <2>6, <2>7, <2>8
<1>5. ASSUME NEW t \in Task, PruneRecords(t) PROVE DnsInv'
  <2>1. /\ Intrude(t, [task[t] EXCEPT !.pc = "save"])
        /\ task[t].pc = "prune"
        /\ records' = {s \in records : \E r \in task[t].data : SameRow(r, s)}
        /\ UNCHANGED <<domain, edit, world, history>>
    BY <1>5 DEF PruneRecords, Kept
  <2>2. /\ task' \in [Task -> Check]
        /\ task'[t].pc = "save" /\ task'[t].data = task[t].data
        /\ task'[t].alone = task[t].alone
        /\ \A u \in Task \ {t} :
              /\ task'[u].pc = task[u].pc /\ task'[u].data = task[u].data
              /\ ~ task'[u].alone
    <3> DEFINE d == [task[t] EXCEPT !.pc = "save"]
    <3>1. /\ d \in Check /\ d.pc = "save" /\ d.data = task[t].data /\ d.alone = task[t].alone
      BY <1>0, MovedIsCheck
    <3>2. Intrude(t, d)
      BY <2>1
    <3> HIDE DEF d
    <3> QED
      BY <1>0, <3>1, <3>2, IntrudeStep
  <2>3. TypeOK'
    BY <2>1, <2>2 DEF TypeOK, world, history
  <2>4. ~ agreed /\ agreed' = agreed
    BY <2>1 DEF AgreedBeforeWrites, history
  <2>5. AloneIsAlone' /\ AgreedBeforeWrites' /\ CheckLeavesAgreement'
    BY <2>1, <2>2, <2>4 DEF AloneIsAlone, AgreedBeforeWrites, CheckLeavesAgreement, Busy
  <2>6. RowsDistinct'
    BY <2>1, <2>2 DEF RowsDistinct, Distinct
  <2>7. task[t].alone => task[t].data = records'
    <3>1. ASSUME task[t].alone PROVE task[t].data \subseteq records
      BY <2>1, <3>1 DEF AloneProgress
    <3>2. \A r \in records : SameRow(r, r)
      BY DEF SameRow
    <3> QED
      BY <2>1, <3>1, <3>2 DEF RowsDistinct, Distinct
  <2>8. AloneProgress'
    BY <2>2, <2>7 DEF AloneProgress
  <2> QED
    BY <2>3, <2>5, <2>6, <2>8
<1>6. ASSUME NEW t \in Task, SaveDomain(t) PROVE DnsInv'
  <2> DEFINE data == task[t].data
             status == IF Verified(data) THEN "verified" ELSE "pending"
  <2>1. /\ Intrude(t, Resting)
        /\ task[t].pc = "save"
        /\ domain' = [domain EXCEPT !.provider_domain_id = TRUE, !.dns_records = data,
                                    !.status = status]
        /\ agreed' = task[t].alone
        /\ UNCHANGED <<records, edit, world, faults>>
    BY <1>6 DEF SaveDomain
  <2>2. data \in SUBSET Record /\ status \in DomainStatus
    BY <1>0 DEF Check, DomainStatus
  <2>3. domain' \in Domain /\ domain'.dns_records = data /\ domain'.status = status
    <3> DEFINE e == [domain EXCEPT !.provider_domain_id = TRUE, !.dns_records = data,
                                   !.status = status]
    <3>1. e \in Domain /\ e.dns_records = data /\ e.status = status
      <4> HIDE DEF data, status
      <4> QED
        BY <1>0, <2>2 DEF Domain
    <3>2. domain' = e
      BY <2>1
    <3> HIDE DEF e
    <3> QED
      BY <3>1, <3>2
  <2>4. /\ task' \in [Task -> Check] /\ task'[t] = Resting
        /\ \A u \in Task \ {t} :
              /\ task'[u].pc = task[u].pc /\ task'[u].data = task[u].data
              /\ ~ task'[u].alone
    BY <1>0, <2>1, RestingIsCheck, IntrudeStep
  <2>5. /\ task'[t].pc = "idle" /\ task'[t].data = {} /\ ~ task'[t].alone
    BY <2>4, RestingIsCheck
  <2>6. TypeOK'
    <3>1. agreed' \in BOOLEAN
      BY <1>0, <2>1 DEF Check
    <3> QED
      BY <2>1, <2>3, <2>4, <3>1 DEF TypeOK, world
  <2>7. AloneIsAlone' /\ RowsDistinct' /\ AloneProgress'
    BY <2>1, <2>4, <2>5 DEF AloneIsAlone, RowsDistinct, AloneProgress, Distinct
  <2>8. AgreedBeforeWrites' /\ CheckLeavesAgreement'
    <3>1. ASSUME agreed' PROVE task[t].alone /\ data = records /\ \A u \in Task \ {t} : ~ Busy(u)
      BY <2>1, <3>1 DEF AloneIsAlone, AloneProgress
    <3>2. CheckLeavesAgreement'
      BY <2>1, <2>3, <3>1 DEF CheckLeavesAgreement, Verified
    <3>3. AgreedBeforeWrites'
      BY <2>4, <2>5, <3>1 DEF AgreedBeforeWrites, Busy
    <3> QED
      BY <3>2, <3>3
  <2> QED
    BY <2>6, <2>7, <2>8
<1>7. ASSUME NEW t \in Task, Fail(t) PROVE DnsInv'
  <2>1. /\ Intrude(t, Again(t)) /\ Busy(t)
        /\ domain' = [domain EXCEPT !.status = "failed"]
        /\ agreed' = FALSE
        /\ faults < MaxFaults /\ faults' = faults + 1
        /\ UNCHANGED <<records, edit, world>>
    BY <1>7 DEF Fail
  <2>2. domain' \in Domain
    BY <1>0, <2>1, DomainChanged DEF DomainStatus
  <2>3. /\ task' \in [Task -> Check]
        /\ task'[t].data = {} /\ ~ task'[t].alone /\ task'[t].pc \in {"idle", "queued"}
        /\ \A u \in Task \ {t} :
              /\ task'[u].pc = task[u].pc /\ task'[u].data = task[u].data
              /\ ~ task'[u].alone
    BY <1>0, <2>1, StepIsCheck, IntrudeStep
  <2>4. TypeOK'
    <3>1. faults' \in 0 .. MaxFaults
      <4>1. faults \in 0 .. MaxFaults
        BY DEF TypeOK
      <4>2. faults < MaxFaults /\ faults' = faults + 1
        BY <2>1
      <4> QED
        BY <4>1, <4>2
    <3>3. agreed' \in BOOLEAN
      BY <2>1
    <3>2. UNCHANGED <<records, edit, registered, value, zone, seen>>
      BY <2>1 DEF world
    <3> QED
      BY <2>2, <2>3, <3>1, <3>2, <3>3 DEF TypeOK
  <2>5. AloneIsAlone' /\ AloneProgress' /\ AgreedBeforeWrites' /\ CheckLeavesAgreement'
    BY <2>1, <2>3 DEF AloneIsAlone, AloneProgress, AgreedBeforeWrites, CheckLeavesAgreement
  <2>6. RowsDistinct'
    BY <2>1, <2>3 DEF RowsDistinct, Distinct
  <2> QED
    BY <2>4, <2>5, <2>6
<1>8. ASSUME NEW t \in Task, NEW step \in Check, task' = [task EXCEPT ![t] = step],
             step.data \subseteq task[t].data, ~ step.alone, step.pc \in {"idle", "queued"},
             faults' \in 0 .. MaxFaults, UNCHANGED <<domain, records, edit, world, agreed>>
      PROVE  DnsInv'
  <2>1. /\ task' \in [Task -> Check] /\ task'[t] = step
        /\ \A u \in Task \ {t} : task'[u] = task[u]
    BY <1>0, <1>8
  <2>2. TypeOK'
    BY <1>8, <2>1 DEF TypeOK, world
  <2>3. AloneIsAlone' /\ RowsDistinct' /\ AloneProgress' /\ AgreedBeforeWrites'
    BY <1>8, <2>1 DEF AloneIsAlone, RowsDistinct, AloneProgress, AgreedBeforeWrites, Distinct, Busy
  <2>4. CheckLeavesAgreement'
    BY <1>8 DEF CheckLeavesAgreement, Verified
  <2> QED
    BY <2>2, <2>3, <2>4
<1>9. ASSUME NEW t \in Task, Crash(t) PROVE DnsInv'
  <2> DEFINE step == [Resting EXCEPT !.pc = "queued", !.retries = task[t].retries]
  <2>1. step \in Check /\ step.pc = "queued" /\ step.data = {} /\ ~ step.alone
    <3>1. task[t].retries \in 0 .. MaxRetries
      BY <1>0 DEF Check
    <3> QED
      BY <3>1, RestingIsCheck, RetriedIsCheck
  <2>2. /\ task' = [task EXCEPT ![t] = step]
        /\ UNCHANGED <<domain, records, edit, world, agreed>>
    BY <1>9 DEF Crash
  <2>3. faults' \in 0 .. MaxFaults
    BY <1>9 DEF Crash, TypeOK
  <2> HIDE DEF step
  <2> QED
    BY <1>8, <2>1, <2>2, <2>3
<1>10. ASSUME NEW t \in Task, Queue(t) PROVE DnsInv'
  <2> DEFINE step == [task[t] EXCEPT !.pc = "queued"]
  <2>1. step \in Check /\ step.pc = "queued" /\ step.data = task[t].data /\ ~ step.alone
    <3>1. ~ task[t].alone
      BY <1>10 DEF Queue, AloneIsAlone, Busy
    <3> QED
      BY <1>0, <3>1, MovedIsCheck
  <2>2. /\ task' = [task EXCEPT ![t] = step]
        /\ UNCHANGED <<domain, records, edit, world, agreed, faults>>
    BY <1>10 DEF Queue, history
  <2>3. faults' \in 0 .. MaxFaults
    BY <2>2 DEF TypeOK
  <2> HIDE DEF step
  <2> QED
    BY <1>8, <2>1, <2>2, <2>3
<1>11. CASE LoadEdit
  <2>1. TypeOK'
    BY <1>11 DEF LoadEdit, TypeOK, world
  <2> QED
    BY <1>11, <2>1 DEF LoadEdit, AloneIsAlone, RowsDistinct, AloneProgress, AgreedBeforeWrites,
                       CheckLeavesAgreement, Distinct, Verified, Busy
<1>12. CASE SaveEdit
  <2>1. PICK old \in edit, status \in DomainStatus : domain' = [old EXCEPT !.status = status]
    BY <1>12 DEF SaveEdit
  <2>2. domain' \in Domain
    BY <2>1, DomainChanged DEF TypeOK
  <2>3. /\ task' \in [Task -> Check]
        /\ \A t \in Task : /\ task'[t].pc = task[t].pc /\ task'[t].data = task[t].data
                           /\ ~ task'[t].alone
    BY <1>0, <1>12 DEF SaveEdit, Check
  <2>4. edit' = {} /\ agreed' = FALSE /\ UNCHANGED <<records, world, faults>>
    BY <1>12 DEF SaveEdit
  <2>5. TypeOK'
    BY <2>2, <2>3, <2>4 DEF TypeOK, world
  <2> QED
    BY <2>3, <2>4, <2>5 DEF AloneIsAlone, RowsDistinct, AloneProgress, AgreedBeforeWrites,
                            CheckLeavesAgreement, Distinct
<1>13. ASSUME UNCHANGED <<domain, records, task, edit, registered, history>>,
              value' \in [Purpose -> {0, 1}], zone' \in [Purpose -> BOOLEAN],
              seen' \in [Purpose -> BOOLEAN]
       PROVE  DnsInv'
  <2>1. TypeOK'
    BY <1>13 DEF TypeOK, history
  <2> QED
    BY <1>13, <2>1 DEF AloneIsAlone, RowsDistinct, AloneProgress, AgreedBeforeWrites,
                       CheckLeavesAgreement, Distinct, Verified, Busy, history
<1>14. ASSUME NEW p \in Purpose, EnterRecord(p) PROVE DnsInv'
  BY <1>13, <1>14 DEF EnterRecord, TypeOK
<1>15. CASE RenewKey
  BY <1>13, <1>15 DEF RenewKey, TypeOK, Purpose
<1>16. CASE UNCHANGED vars
  BY <1>13, <1>16 DEF vars, world, TypeOK
<1> QED
  BY <1>1, <1>2, <1>3, <1>4, <1>5, <1>6, <1>7, <1>9, <1>10, <1>11, <1>12, <1>14, <1>15, <1>16
     DEF Next, Step, Write, Sweep, CheckDns

(* The types of DomainDns.                                                 *)
THEOREM DnsTypeCorrect == Spec => []TypeOK
<1>1. DnsInv => TypeOK
  BY DEF DnsInv
<1> QED
  BY DnsInit, DnsStep, <1>1, PTL DEF Spec

(* However many checks, retries, crashes and edits there are: after a check*)
(* that nothing has overlapped (check_domain_dns_task), and until          *)
(* something else writes, the rows, the stored answer and the status of the*)
(* domain say the same.                                                    *)
THEOREM LoneCheckAgrees == Spec => []CheckLeavesAgreement
<1>1. DnsInv => CheckLeavesAgreement
  BY DEF DnsInv
<1> QED
  BY DnsInit, DnsStep, <1>1, PTL DEF Spec
=============================================================================
