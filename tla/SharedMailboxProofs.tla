------------------------ MODULE SharedMailboxProofs ------------------------
(***************************************************************************)
(* Proofs about SharedMailbox, for any people, requests, changes and       *)
(* bounds.                                                                 *)
(***************************************************************************)
EXTENDS SharedMailbox, FiniteSetTheorems, TLAPS

-----------------------------------------------------------------------------
(* Registration.                                                           *)

(* One who became staff by registering has an account, so that there is no *)
(* first one as long as he has; and the second part of OneBootstrapAdmin.  *)
RegistrationInv ==
  /\ account \in [User -> {"none", "user", "staff"}]
  /\ \A u \in bootstrapped : u \in User /\ account[u] # "none"
  /\ \A u, v \in bootstrapped : u = v
  /\ ~ open => registered = bootstrapped

LEMMA RegistrationInit == Init => RegistrationInv
BY DEF Init, RegistrationInv

(* The steps of grants, requests and the send.                             *)
LEMMA OthersLeaveAccounts ==
  ASSUME [Next]_vars,
         ~ \E u \in User :
             \/ RegisterCheck(u) \/ RegisterCreate(u) \/ RegisterDenied(u) \/ RemoveAccount(u)
             \/ \E kind \in {"user", "staff"} : CreateAccount(u, kind)
  PROVE  UNCHANGED accountVars
BY DEF Next, vars, accountVars, stateVars, GiveAccess, ChangeAccess, RevokeAccess, Expire,
       SweepAccess, Cancel, Upsert, BulkLoad, BulkSave, RestoreLoad, RestoreSave, EditSave,
       BeginRestore, Begin, DestroyRow, CreateRow, EditLoad, Take

LEMMA RegistrationStep == RegistrationInv /\ [Next]_vars => RegistrationInv'
<1> SUFFICES ASSUME RegistrationInv, [Next]_vars PROVE RegistrationInv'
  OBVIOUS
<1> USE DEF RegistrationInv
<1>1. ASSUME NEW u \in User, RegisterCreate(u) PROVE RegistrationInv'
  <2>1. CASE NoAccounts
    <3>1. bootstrapped = {}
      BY <2>1 DEF NoAccounts
    <3>2. /\ account' = [account EXCEPT ![u] = "staff"]
          /\ bootstrapped' = {u}
          /\ registered' = registered \cup {u}
          /\ open' = open
      BY <1>1, <2>1, <3>1 DEF RegisterCreate, First
    <3> QED
      BY <3>1, <3>2
  <2>2. CASE ~ NoAccounts
    <3>1. /\ open /\ open' = open
          /\ account' = [account EXCEPT ![u] = "user"]
          /\ bootstrapped' = bootstrapped
      BY <1>1, <2>2 DEF RegisterCreate, First
    <3> QED
      BY <3>1
  <2> QED
    BY <2>1, <2>2
<1>2. ASSUME NEW u \in User, RemoveAccount(u) PROVE RegistrationInv'
  BY <1>2 DEF RemoveAccount
<1>3. ASSUME NEW u \in User, NEW kind \in {"user", "staff"}, CreateAccount(u, kind)
      PROVE  RegistrationInv'
  BY <1>3 DEF CreateAccount
<1>4. ASSUME NEW u \in User, RegisterCheck(u) \/ RegisterDenied(u) PROVE RegistrationInv'
  BY <1>4 DEF RegisterCheck, RegisterDenied
<1>5. ASSUME UNCHANGED accountVars PROVE RegistrationInv'
  BY <1>5 DEF accountVars
<1> QED
  BY <1>1, <1>2, <1>3, <1>4, <1>5, OthersLeaveAccounts

(* However registrations race with each other, with staff and with the     *)
(* removal of accounts, one account at most is staff by registration, and  *)
(* while registration is closed no other has registered                    *)
(* (RegistrationSerializer.create).                                        *)
THEOREM OneFirstAdmin == Spec => []OneBootstrapAdmin
<1>1. ASSUME RegistrationInv PROVE OneBootstrapAdmin
  <2>1. bootstrapped = {} \/ \E u \in bootstrapped : bootstrapped = {u}
    BY <1>1 DEF RegistrationInv
  <2>2. Cardinality(bootstrapped) <= 1
    <3>1. CASE bootstrapped = {}
      BY <3>1, FS_EmptySet
    <3>2. ASSUME NEW u, bootstrapped = {u} PROVE Cardinality(bootstrapped) = 1
      BY <3>2, FS_Singleton
    <3> QED
      BY <2>1, <3>1, <3>2
  <2> QED
    BY <1>1, <2>2 DEF RegistrationInv, OneBootstrapAdmin
<1> QED
  BY RegistrationInit, RegistrationStep, <1>1, PTL DEF Spec

-----------------------------------------------------------------------------
(* The rows.                                                               *)

(* The steps before which a request has loaded a row, or found none.       *)
Saves == {"bulk_save", "restore_save", "edit_save"}

(* A request that is under way has changes to make; the row it has loaded  *)
(* is still there unless the request has been told that it is gone.        *)
RequestsTyped ==
  /\ request \in [Request -> Active \cup {New, Done}]
  /\ \A r \in Request : request[r].pc \in {"restore_save", "edit_save"} => request[r].row # NoRow
  /\ \A r \in Request :
       request[r].pc \in Saves /\ request[r].row # NoRow /\ ~ request[r].gone
         => rows[request[r].target] # NoRow

(* Changes have been asked for of every row there is.                      *)
RowsTyped ==
  /\ rows \in [User -> Row \cup {NoRow}]
  /\ wanted \in [User -> Row \cup {NoRow}]
  /\ \A u \in User : rows[u] # NoRow => wanted[u] # NoRow
  /\ send \in {"pending", "taken", "cancelled"}
  /\ RequestsTyped

RowsInv == RowsTyped /\ ChangesAreKept

LEMMA ApplyIsRow ==
  ASSUME NEW values \in Values \cup {<<>>}, NEW row \in Row
  PROVE  Apply(values, row) \in Row
BY DEF Values, Row, Apply

LEMMA ApplyNothing ==
  ASSUME NEW row \in Row
  PROVE  Apply(<<>>, row) = row
BY DEF Row, Apply

LEMMA DefaultsIsRow ==
  ASSUME NEW folder \in Folder
  PROVE  Defaults(folder) \in Row
BY DEF Defaults, Row

LEMMA RowsInit == Init => RowsInv
BY DEF Init, RowsInv, RowsTyped, RequestsTyped, Saves, ChangesAreKept, New

(* A request that is under way.                                            *)
LEMMA ActiveRequest ==
  ASSUME RowsTyped, NEW r \in Request, request[r].pc \notin {"new", "done"}
  PROVE  request[r] \in Active
BY DEF RowsTyped, RequestsTyped, New, Done

(* A row that is saved as asked, on top of what was asked before.          *)
LEMMA SavedAsAsked ==
  ASSUME RowsInv, NEW u \in User, NEW row \in Row, NEW values \in Values \cup {<<>>},
         Saved(u, row, values),
         overwritten' = overwritten \/ overwritten' = overwritten \cup {u},
         rows[u] # NoRow /\ u \notin overwritten' => row = Apply(values, rows[u])
  PROVE  /\ rows' = [rows EXCEPT ![u] = row]
         /\ rows' \in [User -> Row \cup {NoRow}]
         /\ wanted' \in [User -> Row \cup {NoRow}]
         /\ \A v \in User : rows'[v] # NoRow => wanted'[v] # NoRow
         /\ ChangesAreKept'
<1> USE NoRowAssumption
<1>1. /\ rows' = [rows EXCEPT ![u] = row]
      /\ wanted' = [wanted EXCEPT ![u] = IF rows[u] = NoRow THEN row ELSE Apply(values, wanted[u])]
  BY DEF Saved
<1>2. wanted[u] \in Row => Apply(values, wanted[u]) \in Row
  BY ApplyIsRow
<1>3. rows[u] # NoRow /\ u \notin overwritten' => wanted'[u] = row
  BY <1>1 DEF RowsInv, RowsTyped, ChangesAreKept
<1> QED
  BY <1>1, <1>2, <1>3 DEF RowsInv, RowsTyped, ChangesAreKept

(* Requests after a row has been saved.                                    *)
LEMMA FinishIsTyped ==
  ASSUME RequestsTyped, NEW r \in Request, Finish(r),
         \A v \in User : rows[v] # NoRow => rows'[v] # NoRow
  PROVE  RequestsTyped'
BY DEF RequestsTyped, Finish, Done, New, Saves, Active

(* The steps of registration leave the rows, and so do those of grants.    *)
LEMMA OthersLeaveRows ==
  ASSUME [Next]_vars,
         ~ \E u \in User : RemoveAccount(u),
         ~ \E r \in Request :
             \/ Cancel(r) \/ Upsert(r) \/ BulkLoad(r) \/ BulkSave(r)
             \/ RestoreLoad(r) \/ RestoreSave(r) \/ EditSave(r)
             \/ \E u \in User : BeginRestore(r, u)
             \/ \E u \in User, values \in Change, bulk \in BOOLEAN : Begin(r, u, values, bulk)
             \/ \E u, t \in User : DestroyRow(r, u, t)
             \/ \E u, t \in User, values \in Change : CreateRow(r, u, t, values)
             \/ \E u, t \in User, values \in Change : EditLoad(r, u, t, values)
  PROVE  UNCHANGED <<stateVars, request>> /\ (send' = send \/ send' = "taken")
BY DEF Next, vars, accountVars, stateVars, RegisterCheck, RegisterCreate, RegisterDenied,
       CreateAccount, GiveAccess, ChangeAccess, RevokeAccess, Expire, SweepAccess, Take

LEMMA RowsStep == RowsInv /\ [Next]_vars => RowsInv'
<1> SUFFICES ASSUME RowsInv, [Next]_vars PROVE RowsInv'
  OBVIOUS
<1> USE NoRowAssumption, ChangeAssumption
<1>0. RowsTyped /\ RequestsTyped /\ ChangesAreKept
  BY DEF RowsInv, RowsTyped
<1>1. ASSUME NEW u \in User, RemoveAccount(u) PROVE RowsInv'
  <2>1. /\ rows' = [rows EXCEPT ![u] = NoRow]
        /\ wanted' = [wanted EXCEPT ![u] = NoRow]
        /\ overwritten' = overwritten \ {u}
        /\ request' = [r \in Request |->
                         IF request[r].pc \notin {"new", "done"} /\ request[r].target = u
                         THEN Done ELSE request[r]]
        /\ send' = send
    BY <1>1 DEF RemoveAccount
  <2>2. RequestsTyped'
    BY <1>0, <2>1 DEF RequestsTyped, RowsTyped, Done, New, Saves
  <2>3. RowsTyped' /\ ChangesAreKept'
    BY <1>0, <2>1, <2>2 DEF RowsTyped, ChangesAreKept
  <2> QED
    BY <2>3 DEF RowsInv
<1>2. ASSUME NEW r \in Request, Cancel(r) PROVE RowsInv'
  <2>1. request[r] \in Active
    BY <1>0, <1>2, ActiveRequest DEF Cancel
  <2>2. PICK folder \in {request[r].folder, "drafts"}, pc \in {"upsert", "bulk_load"} :
          /\ send' \in {send, "cancelled"}
          /\ UNCHANGED stateVars
          /\ request' = [request EXCEPT ![r] = [request[r] EXCEPT !.folder = folder, !.pc = pc]]
    BY <1>2, <2>1 DEF Cancel, Writing
  <2>3. [request[r] EXCEPT !.folder = folder, !.pc = pc] \in Active
    BY <2>1 DEF Active, Folder
  <2>4. request' \in [Request -> Active \cup {New, Done}]
    BY <1>0, <2>2, <2>3 DEF RequestsTyped
  <2>5. request'[r].pc \notin Saves /\ \A x \in Request \ {r} : request'[x] = request[x]
    BY <1>0, <2>1, <2>2 DEF RequestsTyped, Active, Saves
  <2>6. RequestsTyped'
    BY <1>0, <2>2, <2>4, <2>5 DEF RequestsTyped, Saves, stateVars
  <2> QED
    BY <1>0, <2>2, <2>6 DEF RowsInv, RowsTyped, ChangesAreKept, stateVars
<1>3. ASSUME NEW r \in Request, BulkLoad(r) PROVE RowsInv'
  <2>1. request[r] \in Active
    BY <1>0, <1>3, ActiveRequest DEF BulkLoad
  <2>2. /\ UNCHANGED <<stateVars, send>>
        /\ request' = [request EXCEPT ![r].row = rows[request[r].target], ![r].pc = "bulk_save"]
    BY <1>3 DEF BulkLoad
  <2>3. RequestsTyped'
    BY <1>0, <2>1, <2>2 DEF RequestsTyped, RowsTyped, Active, Saves, stateVars
  <2> QED
    BY <1>0, <2>2, <2>3 DEF RowsInv, RowsTyped, ChangesAreKept, stateVars
<1>4. ASSUME NEW r \in Request, NEW u \in User, NEW t \in User,
             NEW pc \in {"cancel", "upsert", "bulk_load", "restore_load"},
             NEW values \in Values, NEW bulk \in BOOLEAN,
             Start(r, u, t, pc, values, bulk), UNCHANGED <<stateVars, send>>
      PROVE  RowsInv'
  <2>1. RequestsTyped'
    BY <1>0, <1>4 DEF RequestsTyped, Start, Active, MessageFolder, Folder, Saves, stateVars
  <2> QED
    BY <1>0, <1>4, <2>1 DEF RowsInv, RowsTyped, ChangesAreKept, stateVars
<1>5. ASSUME NEW r \in Request, NEW u \in User, NEW row \in Row,
             NEW values \in Values \cup {<<>>},
             Saved(u, row, values), Finish(r), send' = send,
             overwritten' = overwritten \/ overwritten' = overwritten \cup {u},
             rows[u] # NoRow /\ u \notin overwritten' => row = Apply(values, rows[u])
      PROVE  RowsInv'
  <2>1. /\ rows' = [rows EXCEPT ![u] = row]
        /\ rows' \in [User -> Row \cup {NoRow}]
        /\ wanted' \in [User -> Row \cup {NoRow}]
        /\ \A v \in User : rows'[v] # NoRow => wanted'[v] # NoRow
        /\ ChangesAreKept'
    BY <1>5, SavedAsAsked
  <2>2. RequestsTyped'
    <3>1. \A v \in User : rows[v] # NoRow => rows'[v] # NoRow
      BY <1>0, <2>1 DEF RowsTyped
    <3> QED
      BY <1>0, <1>5, <3>1, FinishIsTyped
  <2> QED
    BY <1>0, <1>5, <2>1, <2>2 DEF RowsInv, RowsTyped
<1>6. ASSUME NEW r \in Request, Finish(r), UNCHANGED <<stateVars, send>> PROVE RowsInv'
  <2>1. RequestsTyped'
    BY <1>0, <1>6, FinishIsTyped DEF stateVars
  <2> QED
    BY <1>0, <1>6, <2>1 DEF RowsInv, RowsTyped, ChangesAreKept, stateVars
<1>7. ASSUME NEW r \in Request, Upsert(r) PROVE RowsInv'
  <2> DEFINE q == request[r]
             old == IF rows[q.target] = NoRow THEN Defaults(q.folder) ELSE rows[q.target]
  <2>1. q \in Active
    BY <1>0, <1>7, ActiveRequest DEF Upsert
  <2>2. q.target \in User /\ q.values \in Values /\ old \in Row
    BY <1>0, <2>1, DefaultsIsRow DEF Active, RowsTyped
  <2>3. Apply(q.values, old) \in Row
    BY <2>2, ApplyIsRow
  <2>4. /\ Saved(q.target, Apply(q.values, old), q.values)
        /\ Finish(r) /\ send' = send /\ overwritten' = overwritten
    BY <1>7 DEF Upsert
  <2> QED
    BY <1>5, <2>2, <2>3, <2>4
<1>8. ASSUME NEW r \in Request, BulkSave(r) PROVE RowsInv'
  <2> DEFINE q == request[r]
  <2>1. q \in Active
    BY <1>0, <1>8, ActiveRequest DEF BulkSave
  <2>2. q.target \in User /\ q.values \in Values /\ Defaults(q.folder) \in Row
    BY <2>1, DefaultsIsRow DEF Active
  <2>3. Finish(r) /\ send' = send /\ overwritten' = overwritten /\ q.pc = "bulk_save"
    BY <1>8 DEF BulkSave
  <2>4. CASE q.row = NoRow /\ rows[q.target] = NoRow
    <3>1. Saved(q.target, Apply(q.values, Defaults(q.folder)), q.values)
      BY <1>8, <2>4 DEF BulkSave
    <3>2. Apply(q.values, Defaults(q.folder)) \in Row
      BY <2>2, ApplyIsRow
    <3> QED
      BY <1>5, <2>2, <2>3, <2>4, <3>1, <3>2
  <2>5. CASE q.row # NoRow /\ ~ q.gone
    <3>1. Saved(q.target, Apply(q.values, rows[q.target]), q.values)
      BY <1>8, <2>5 DEF BulkSave, Written
    <3>2. rows[q.target] \in Row
      BY <1>0, <2>2, <2>3, <2>5 DEF RequestsTyped, RowsTyped, Saves
    <3>3. Apply(q.values, rows[q.target]) \in Row
      BY <2>2, <3>2, ApplyIsRow
    <3> QED
      BY <1>5, <2>2, <2>3, <3>1, <3>3
  <2>6. CASE UNCHANGED <<rows, wanted>>
    BY <1>6, <2>3, <2>6 DEF stateVars
  <2> QED
    BY <1>8, <2>4, <2>5, <2>6 DEF BulkSave
<1>9. ASSUME NEW r \in Request, RestoreLoad(r) PROVE RowsInv'
  <2> DEFINE q == request[r]
             row == IF rows[q.target] = NoRow THEN Defaults(q.folder) ELSE rows[q.target]
  <2>1. q \in Active
    BY <1>0, <1>9, ActiveRequest DEF RestoreLoad
  <2>2. q.target \in User /\ row \in Row
    BY <1>0, <2>1, DefaultsIsRow DEF Active, RowsTyped
  <2>3. /\ Saved(q.target, row, <<>>)
        /\ request' = [request EXCEPT ![r].row = row, ![r].pc = "restore_save"]
        /\ send' = send /\ overwritten' = overwritten
    BY <1>9 DEF RestoreLoad
  <2>4. rows[q.target] # NoRow => row = Apply(<<>>, rows[q.target])
    BY <2>2, ApplyNothing
  <2>5. /\ rows' = [rows EXCEPT ![q.target] = row]
        /\ rows' \in [User -> Row \cup {NoRow}]
        /\ wanted' \in [User -> Row \cup {NoRow}]
        /\ \A v \in User : rows'[v] # NoRow => wanted'[v] # NoRow
        /\ ChangesAreKept'
    <3> HIDE DEF q, row
    <3> QED
      BY <2>2, <2>3, <2>4, SavedAsAsked
  <2>6. RequestsTyped'
    <3>1. /\ request'[r] \in Active /\ request'[r].row = row
          /\ request'[r].target = q.target
      BY <1>0, <2>1, <2>2, <2>3 DEF RequestsTyped, Active
    <3>2. \A x \in Request \ {r} : request'[x] = request[x]
      BY <1>0, <2>3 DEF RequestsTyped
    <3>3. request' \in [Request -> Active \cup {New, Done}]
      BY <1>0, <2>3, <3>1, <3>2 DEF RequestsTyped
    <3>4. row # NoRow /\ \A v \in User : rows[v] # NoRow => rows'[v] # NoRow
      BY <1>0, <2>2, <2>5 DEF RowsTyped
    <3>5. rows'[q.target] # NoRow
      BY <1>0, <2>2, <2>5 DEF RowsTyped
    <3>6. \A x \in Request : request[x].pc \in Saves => request[x].target \in User
      BY <1>0 DEF RequestsTyped, Active, New, Done, Saves
    <3> HIDE DEF q, row
    <3> QED
      BY <1>0, <3>1, <3>2, <3>3, <3>4, <3>5, <3>6 DEF RequestsTyped, Saves
  <2> QED
    BY <1>0, <2>3, <2>5, <2>6 DEF RowsInv, RowsTyped
<1>10. ASSUME NEW r \in Request, RestoreSave(r) PROVE RowsInv'
  <2> DEFINE q == request[r]
  <2>1. q \in Active /\ q.pc = "restore_save" /\ Finish(r) /\ UNCHANGED <<send, overwritten>>
    BY <1>0, <1>10, ActiveRequest DEF RestoreSave
  <2>2. CASE q.gone
    BY <1>6, <1>10, <2>1, <2>2 DEF RestoreSave, stateVars
  <2>3. CASE ~ q.gone
    <3>1. Saved(q.target, Apply(q.values, rows[q.target]), q.values)
      BY <1>10, <2>3 DEF RestoreSave
    <3>2. q.target \in User /\ q.values \in Values /\ rows[q.target] \in Row
      BY <1>0, <2>1, <2>3 DEF RequestsTyped, RowsTyped, Saves, Active
    <3>3. Apply(q.values, rows[q.target]) \in Row
      BY <3>2, ApplyIsRow
    <3> QED
      BY <1>5, <2>1, <3>1, <3>2, <3>3
  <2> QED
    BY <2>2, <2>3
<1>11. ASSUME NEW r \in Request, EditSave(r) PROVE RowsInv'
  <2> DEFINE q == request[r]
             t == q.target
             new == Apply(q.values, q.row)
  <2>1. q \in Active /\ q.pc = "edit_save" /\ Finish(r) /\ send' = send
    BY <1>0, <1>11, ActiveRequest DEF EditSave
  <2>2. CASE q.gone /\ rows[t] # NoRow
    BY <1>6, <1>11, <2>1, <2>2 DEF EditSave
  <2>3. CASE ~ (q.gone /\ rows[t] # NoRow)
    <3>1. /\ Saved(t, new, q.values)
          /\ overwritten' = IF rows[t] \in {NoRow, q.row} THEN overwritten
                            ELSE overwritten \cup {t}
      BY <1>11, <2>3 DEF EditSave
    <3>2. t \in User /\ q.values \in Values /\ q.row \in Row
      BY <1>0, <2>1 DEF RequestsTyped, Active
    <3>3. new \in Row
      BY <3>2, ApplyIsRow
    <3>4. rows[t] # NoRow /\ t \notin overwritten' => new = Apply(q.values, rows[t])
      BY <3>1
    <3>5. overwritten' = overwritten \/ overwritten' = overwritten \cup {t}
      BY <3>1
    <3> HIDE DEF new, t
    <3> QED
      BY <1>5, <2>1, <3>1, <3>2, <3>3, <3>4, <3>5
  <2> QED
    BY <2>2, <2>3
<1>12. ASSUME NEW r \in Request, NEW u \in User, NEW t \in User, NEW values \in Change,
              CreateRow(r, u, t, values)
       PROVE  RowsInv'
  <2>1. Apply(values, Defaults("inbox")) \in Row
    BY DefaultsIsRow, ApplyIsRow DEF Folder
  <2>2. /\ Saved(t, Apply(values, Defaults("inbox")), values) /\ rows[t] = NoRow
        /\ Finish(r) /\ UNCHANGED <<send, overwritten>>
    BY <1>12 DEF CreateRow
  <2> QED
    BY <1>5, <2>1, <2>2
<1>13. ASSUME NEW r \in Request, NEW u \in User, NEW t \in User, NEW values \in Change,
              EditLoad(r, u, t, values)
       PROVE  RowsInv'
  <2>1. RequestsTyped'
    BY <1>0, <1>13 DEF EditLoad, RequestsTyped, RowsTyped, Active, MessageFolder, Folder, Saves,
                       stateVars
  <2> QED
    BY <1>0, <1>13, <2>1 DEF EditLoad, RowsInv, RowsTyped, ChangesAreKept, stateVars
<1>14. ASSUME NEW r \in Request, NEW u \in User, NEW t \in User, DestroyRow(r, u, t)
       PROVE  RowsInv'
  <2>1. /\ rows' = [rows EXCEPT ![t] = NoRow]
        /\ wanted' = [wanted EXCEPT ![t] = NoRow]
        /\ overwritten' = overwritten \ {t} /\ send' = send
        /\ request' = [q \in Request |->
                         IF q = r THEN Done
                         ELSE IF request[q].pc \in Saves
                                 /\ request[q].target = t /\ request[q].row # NoRow
                              THEN [request[q] EXCEPT !.gone = TRUE] ELSE request[q]]
    BY <1>14 DEF DestroyRow, Saves
  <2>2. ASSUME NEW q \in Request, request[q].pc \in Saves
        PROVE  /\ request[q] \in Active
               /\ [request[q] EXCEPT !.gone = TRUE] \in Active
               /\ [request[q] EXCEPT !.gone = TRUE].gone
               /\ [request[q] EXCEPT !.gone = TRUE].row = request[q].row
    BY <1>0, <2>2, ActiveRequest DEF Saves, Active
  <2>3. request' \in [Request -> Active \cup {New, Done}]
    BY <1>0, <2>1, <2>2 DEF RequestsTyped
  <2>4. ASSUME NEW q \in Request, request'[q].pc \in Saves
        PROVE  /\ request[q].pc \in Saves /\ request'[q].row = request[q].row
               /\ request'[q] # request[q] => request'[q].gone
               /\ request[q].target = t /\ request[q].row # NoRow => request'[q].gone
    <3>1. CASE q = r
      BY <2>1, <2>4, <3>1 DEF Done, Saves
    <3>2. CASE q # r /\ request[q].pc \in Saves
      BY <2>1, <2>2, <3>2
    <3>3. CASE q # r /\ request[q].pc \notin Saves
      BY <2>1, <2>4, <3>3
    <3> QED
      BY <3>1, <3>2, <3>3
  <2>5. RequestsTyped'
    <3>1. \A q \in Request : request'[q].pc \in {"restore_save", "edit_save"} =>
            /\ request[q].pc \in {"restore_save", "edit_save"}
            /\ request'[q].row # NoRow
      BY <1>0, <2>1, <2>2, <2>4 DEF RequestsTyped, Saves, Active, Done
    <3>2. ASSUME NEW q \in Request, request'[q].pc \in Saves, request'[q].row # NoRow,
                 ~ request'[q].gone
          PROVE  rows'[request'[q].target] # NoRow
      BY <1>0, <2>1, <2>2, <2>4, <3>2 DEF RequestsTyped, RowsTyped, Active
    <3> QED
      BY <2>3, <3>1, <3>2 DEF RequestsTyped
  <2> QED
    BY <1>0, <2>1, <2>5 DEF RowsInv, RowsTyped, ChangesAreKept
<1>15. ASSUME NEW r \in Request, NEW u \in User, BeginRestore(r, u) PROVE RowsInv'
  <2>1. [folder |-> "inbox"] \in Values
    BY DEF Values, Folder
  <2> QED
    BY <1>4, <1>15, <2>1 DEF BeginRestore
<1>16. ASSUME NEW r \in Request, NEW u \in User, NEW values \in Change, NEW bulk \in BOOLEAN,
              Begin(r, u, values, bulk)
       PROVE  RowsInv'
  <2>1. PICK pc \in {"cancel", "upsert", "bulk_load"} :
          Start(r, u, u, pc, values, bulk) /\ UNCHANGED <<stateVars, send>>
    BY <1>16 DEF Begin, Writing
  <2> QED
    BY <1>4, <2>1
<1>17. ASSUME UNCHANGED <<stateVars, request>>, send' = send \/ send' = "taken" PROVE RowsInv'
  BY <1>0, <1>17 DEF RowsInv, RowsTyped, RequestsTyped, ChangesAreKept, stateVars
<1> QED
  BY <1>1, <1>2, <1>3, <1>7, <1>8, <1>9, <1>10, <1>11, <1>12, <1>13, <1>14, <1>15, <1>16, <1>17,
     OthersLeaveRows

(* From whatever tabs and endpoints changes come, the row of a user has    *)
(* the value that the last change of each field asked for, until an edit   *)
(* of the whole row overwrites one it has not seen                         *)
(* (EmailMessageUserStateManager.upsert, bulk_update).                     *)
THEOREM NoChangeUndone == Spec => []ChangesAreKept
<1>1. RowsInv => ChangesAreKept
  BY DEF RowsInv
<1> QED
  BY RowsInit, RowsStep, <1>1, PTL DEF Spec
=============================================================================
