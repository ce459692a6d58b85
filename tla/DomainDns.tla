------------------------------ MODULE DomainDns ------------------------------
(***************************************************************************)
(* The registration of one domain with Postmark and the checks of its DNS  *)
(* (check_domain_dns_task and its sweep, providers/tasks.py;               *)
(* register_domain and check_domain, providers/postmark.py), while staff   *)
(* edits the domain (DomainViewSet, providers/views.py).                   *)
(*                                                                         *)
(* A check takes no lock and no transaction: it loads the domain, calls    *)
(* Postmark, writes the DNS record rows one by one, deletes the others, and*)
(* saves the domain.  Nothing keeps two checks apart.  An edit loads the   *)
(* whole row and saves the whole row.                                      *)
(*                                                                         *)
(* The domain is taken to be active: the sweep passes by those that are    *)
(* not.                                                                    *)
(*                                                                         *)
(* Postmark asks for a DKIM and a return-path record; the value of the     *)
(* former may change.  What Postmark knows of a record is what it saw when *)
(* it was last told to check.                                              *)
(***************************************************************************)
EXTENDS Naturals, FiniteSets

CONSTANTS
  Task,        \* check_domain_dns_task, as many as may be about at once
  MaxRetries,  \* its max_retries
  MaxFaults    \* bound on its failures and crashes and on the edits by staff

ASSUME DnsAssumption == MaxRetries \in Nat /\ MaxFaults \in Nat

Purpose == {"dkim", "return_path"}

DomainStatus == {"pending", "verified", "failed", "suspended"}

VARIABLES
  domain,      \* the Domain row
  records,     \* its DomainDnsRecord rows
  task,        \* the checks
  edit,        \* the row an editing request has loaded, in a set
  registered,  \* whether Postmark knows the domain
  value,       \* the value Postmark wants each record to have
  zone,        \* whether the domain's DNS has it
  seen,        \* whether Postmark has seen it
  agreed,      \* history: nothing has come between the last check and now
  faults       \* history: failures, crashes and edits so far

world == <<registered, value, zone, seen>>
history == <<agreed, faults>>
vars == <<domain, records, task, edit, world, history>>

Record == [purpose : Purpose, value : {0, 1}, verified : BOOLEAN]

Domain ==
  [status : DomainStatus, provider_domain_id : BOOLEAN, dns_records : SUBSET Record]

(* A check: the records it was told, those it has still to write, and      *)
(* whether nothing else has gone on meanwhile.                             *)
Check ==
  [pc : {"idle", "queued", "register", "recheck", "recheck_return_path", "write", "prune", "save"},
   retries : 0 .. MaxRetries, data : SUBSET Record, todo : SUBSET Record, alone : BOOLEAN]

Resting == [pc |-> "idle", retries |-> 0, data |-> {}, todo |-> {}, alone |-> FALSE]

Busy(t) == task[t].pc \notin {"idle", "queued"}

TypeOK ==
  /\ domain \in Domain
  /\ records \subseteq Record
  /\ task \in [Task -> Check]
  /\ edit \subseteq Domain
  /\ registered \in BOOLEAN
  /\ value \in [Purpose -> {0, 1}]
  /\ zone \in [Purpose -> BOOLEAN]
  /\ seen \in [Purpose -> BOOLEAN]
  /\ agreed \in BOOLEAN
  /\ faults \in 0 .. MaxFaults

(* perform_create has saved the domain and queued its first check.         *)
Init ==
  /\ domain = [status |-> "pending", provider_domain_id |-> FALSE, dns_records |-> {}]
  /\ records = {}
  /\ task = [t \in Task |-> [Resting EXCEPT
                !.pc = IF t = CHOOSE u \in Task : TRUE THEN "queued" ELSE "idle"]]
  /\ edit = {}
  /\ registered = FALSE
  /\ value = [p \in Purpose |-> 0]
  /\ zone = [p \in Purpose |-> FALSE]
  /\ seen = [p \in Purpose |-> FALSE]
  /\ agreed = FALSE
  /\ faults = 0

-----------------------------------------------------------------------------
(* Whoever writes ends that the others are alone.                          *)
Intrude(t, step) ==
  task' = [u \in Task |-> IF u = t THEN step ELSE [task[u] EXCEPT !.alone = FALSE]]

(* check_domain_dns_task loads the domain, registered already or not.      *)
Start(t) ==
  /\ task[t].pc = "queued"
  /\ Intrude(t, [task[t] EXCEPT
                   !.pc = IF domain.provider_domain_id THEN "recheck" ELSE "register",
                   !.alone = \A u \in Task \ {t} : ~ Busy(u)])
  /\ UNCHANGED <<domain, records, edit, world, history>>

(* Postmark's answer, which _apply_domain_response makes records of.       *)
Answer == {[purpose |-> p, value |-> value[p], verified |-> seen'[p]] : p \in Purpose}

Told(t) ==
  task' = [task EXCEPT ![t] = [@ EXCEPT !.pc = "write", !.data = Answer, !.todo = Answer]]

(* register_domain: Postmark creates the domain, or has it already from    *)
(* another check, and then it is looked up and adopted.                    *)
Register(t) ==
  /\ task[t].pc = "register"
  /\ registered' = TRUE
  /\ UNCHANGED seen
  /\ Told(t)
  /\ UNCHANGED <<domain, records, edit, value, zone, history>>

(* check_domain: Postmark looks for the DKIM record ...                    *)
Recheck(t) ==
  /\ task[t].pc = "recheck"
  /\ seen' = [seen EXCEPT !["dkim"] = zone["dkim"]]
  /\ task' = [task EXCEPT ![t].pc = "recheck_return_path"]
  /\ UNCHANGED <<domain, records, edit, registered, value, zone, history>>

(* ... and for the return path; its second answer replaces the first.      *)
RecheckReturnPath(t) ==
  /\ task[t].pc = "recheck_return_path"
  /\ seen' = [seen EXCEPT !["return_path"] = zone["return_path"]]
  /\ Told(t)
  /\ UNCHANGED <<domain, records, edit, registered, value, zone, history>>

SameRow(r, s) == r.purpose = s.purpose /\ r.value = s.value

(* One record of the answer is updated or created, that for DKIM first, ...*)
WriteRecord(t, r) ==
  /\ task[t].pc = "write"
  /\ r \in task[t].todo
  /\ r.purpose = "dkim" \/ task[t].todo = {r}
  /\ records' = {s \in records : ~ SameRow(r, s)} \cup {r}
  /\ Intrude(t, [task[t] EXCEPT !.todo = @ \ {r},
                                !.pc = IF task[t].todo = {r} THEN "prune" ELSE @])
  /\ agreed' = FALSE
  /\ UNCHANGED <<domain, edit, world, faults>>

(* A deletion that keeps every record that was ever asked for.             *)
KeepAll(t) == records

(* The rows the answer names.                                              *)
Kept(t) == {s \in records : \E r \in task[t].data : SameRow(r, s)}

(* ... the records that are not in the answer are deleted, ...             *)
PruneRecords(t) ==
  /\ task[t].pc = "prune"
  /\ records' = Kept(t)
  /\ Intrude(t, [task[t] EXCEPT !.pc = "save"])
  /\ UNCHANGED <<domain, edit, world, history>>

Verified(data) == data # {} /\ \A r \in data : r.verified

(* ... and the domain is saved.                                            *)
SaveDomain(t) ==
  LET data == task[t].data IN
    /\ task[t].pc = "save"
    /\ domain' = [domain EXCEPT
         !.provider_domain_id = TRUE,
         !.dns_records = data,
         !.status = IF Verified(data) THEN "verified" ELSE "pending"]
    /\ agreed' = task[t].alone
    /\ Intrude(t, Resting)
    /\ UNCHANGED <<records, edit, world, faults>>

(* A retry that takes up with the attempts that are left ...               *)
Again(t) ==
  IF task[t].retries < MaxRetries
  THEN [Resting EXCEPT !.pc = "queued", !.retries = task[t].retries + 1]
  ELSE Resting

(* Whatever goes wrong, the domain is marked failed and the task retried.  *)
Fail(t) ==
  /\ Busy(t)
  /\ faults < MaxFaults
  /\ faults' = faults + 1
  /\ domain' = [domain EXCEPT !.status = "failed"]
  /\ agreed' = FALSE
  /\ Intrude(t, Again(t))
  /\ UNCHANGED <<records, edit, world>>

(* The worker dies, and the broker delivers the task again.                *)
Crash(t) ==
  /\ Busy(t)
  /\ faults < MaxFaults
  /\ faults' = faults + 1
  /\ task' = [task EXCEPT ![t] = [Resting EXCEPT !.pc = "queued", !.retries = task[t].retries]]
  /\ UNCHANGED <<domain, records, edit, world, agreed>>

-----------------------------------------------------------------------------
Queue(t) ==
  /\ task[t].pc = "idle"
  /\ task' = [task EXCEPT ![t].pc = "queued"]
  /\ UNCHANGED <<domain, records, edit, world, history>>

(* A sweep that leaves failed domains to staff.                            *)
DueIfPending == domain.status = "pending"

(* The domains check_pending_domains_dns_task picks.                       *)
Due == domain.status # "verified"

(* check_pending_domains_dns_task queues a check for a domain that is not  *)
(* verified, a suspended one included.                                     *)
Sweep == Due /\ \E t \in Task : Queue(t)

(* DomainViewSet.check_dns                                                 *)
CheckDns == \E t \in Task : Queue(t)

(* An editing request loads the row ...                                    *)
LoadEdit ==
  /\ edit = {}
  /\ faults < MaxFaults
  /\ faults' = faults + 1
  /\ edit' = {domain}
  /\ UNCHANGED <<domain, records, task, world, agreed>>

(* ... and saves it with another status, or with another field changed.    *)
SaveEdit ==
  /\ \E old \in edit, s \in DomainStatus : domain' = [old EXCEPT !.status = s]
  /\ edit' = {}
  /\ agreed' = FALSE
  /\ task' = [t \in Task |-> [task[t] EXCEPT !.alone = FALSE]]
  /\ UNCHANGED <<records, world, faults>>

(* Whoever keeps the DNS puts a record in.                                 *)
EnterRecord(p) ==
  /\ ~ zone[p]
  /\ zone' = [zone EXCEPT ![p] = TRUE]
  /\ UNCHANGED <<domain, records, task, edit, registered, value, seen, history>>

(* Postmark renews the DKIM key of a domain.                               *)
RenewKey ==
  /\ registered
  /\ value["dkim"] = 0
  /\ value' = [value EXCEPT !["dkim"] = 1]
  /\ zone' = [zone EXCEPT !["dkim"] = FALSE]
  /\ seen' = [seen EXCEPT !["dkim"] = FALSE]
  /\ UNCHANGED <<domain, records, task, edit, registered, history>>

-----------------------------------------------------------------------------
Write(t) == (\E r \in task[t].todo : WriteRecord(t, r)) \/ PruneRecords(t) \/ SaveDomain(t)

Step(t) == Start(t) \/ Register(t) \/ Recheck(t) \/ RecheckReturnPath(t) \/ Write(t)

Next ==
  \/ \E t \in Task : Step(t) \/ Fail(t) \/ Crash(t)
  \/ Sweep \/ CheckDns
  \/ LoadEdit \/ SaveEdit
  \/ \E p \in Purpose : EnterRecord(p)
  \/ RenewKey

(* Celery works its queue off, beat starts the sweep again and again, and a*)
(* request comes to its end.                                               *)
Fairness == WF_vars(Sweep) /\ WF_vars(SaveEdit) /\ \A t \in Task : WF_vars(Step(t))

Spec == Init /\ [][Next]_vars /\ Fairness

-----------------------------------------------------------------------------
(* After a check that nothing has overlapped, and until something else     *)
(* writes, the rows, the stored answer and the status of the domain say the*)
(* same: a row no answer names any more does not stay behind.              *)
CheckLeavesAgreement ==
  agreed => /\ records = domain.dns_records
            /\ domain.status = "verified" <=> Verified(records)

(* A domain whose DNS comes to be right, and stays so, is verified in the  *)
(* end and stays so, whatever checks fail, overlap or are overwritten by an*)
(* edit on the way.                                                        *)
RightDnsIsVerified ==
  <>[](\A p \in Purpose : zone[p]) => <>[](domain.status = "verified")
=============================================================================
