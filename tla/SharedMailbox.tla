----------------------------- MODULE SharedMailbox -----------------------------
(***************************************************************************)
(* Accounts, the grants that let them into one mailbox, and the view each  *)
(* of them has of one message in it.                                       *)
(*                                                                         *)
(*  - Anyone may register while there is no account at all, and that       *)
(*    account becomes staff; later only if registration is open (accounts/ *)
(*    views.py, accounts/serializers.py).  Staff adds and removes accounts.*)
(*  - A grant is for the mailbox or for its domain, for reading or for     *)
(*    writing, and may end (hedwig/models.py, hedwig/manager.py).          *)
(*  - Whoever has access keeps an EmailMessageUserState of the message:    *)
(*    whether it is read, and its folder.  Four kinds of request write it, *)
(*    from as many tabs: the state and the bulk-state endpoints, restore,  *)
(*    and the edit of the row itself (hedwig/views.py).                    *)
(*                                                                         *)
(* The message is an outbound one that waits for its hour; to put it in    *)
(* the trash cancels it.  The race of that with the send is in             *)
(* OutboundSend; here it is taken in one step.  The message itself is not  *)
(* deleted, and an edit keeps the user and the message of its row.         *)
(***************************************************************************)
EXTENDS Naturals, FiniteSets

CONSTANTS
  User,       \* those who may have an account
  Request,    \* requests on the state of the message
  Change,     \* what they may set
  MaxGrants,  \* bound on the grants there are at once
  MaxLeaving, \* bound on the accounts that are removed
  NoRow       \* no EmailMessageUserState

ASSUME BoundAssumption == MaxGrants \in Nat /\ MaxLeaving \in Nat

Folder == {"inbox", "sent", "drafts", "trash"}
AccessType == {"mailbox", "domain"}

Row == [is_read : {"yes", "no"}, folder : Folder]

ASSUME NoRowAssumption == NoRow \notin Row

(* A request names the fields it sets, and only those.                     *)
Values ==
  [is_read : {"yes", "no"}] \cup [folder : Folder] \cup [is_read : {"yes", "no"}, folder : Folder]

ASSUME ChangeAssumption == Change \subseteq Values

Apply(values, row) ==
  [f \in DOMAIN row |-> IF f \in DOMAIN values THEN values[f] ELSE row[f]]

VARIABLES
  account,     \* "none", "user" or "staff"
  passed,      \* registrations that the view has let through
  grants,      \* the active UserMailboxAccess rows
  send,        \* the message's send attempt
  rows,        \* each user's EmailMessageUserState
  request,     \* the requests
  open,        \* the REGISTRATION_OPEN setting
  bootstrapped,\* history: accounts that were made staff by registering
  registered,  \* history: accounts that registered
  wanted,      \* history: the row as the changes that were saved asked for it
  overwritten, \* history: users whose row an edit wrote with an old copy
  left         \* history: accounts that were removed so far

accountVars == <<account, passed, open, bootstrapped, registered, left>>
stateVars == <<rows, wanted, overwritten>>
vars == <<accountVars, grants, send, stateVars, request>>

Grant == [user : User, type : AccessType, write : BOOLEAN,
          expires : {"never", "later", "past"}]

(* A request of `user' on the row of `target'.  `values' is what it sets,  *)
(* `folder' the folder of the message and `row' the row as it was loaded;  *)
(* `gone' that the row has been deleted since.                             *)
New == [pc |-> "new"]
Done == [pc |-> "done"]
Active == [pc : {"cancel", "upsert", "bulk_load", "bulk_save", "restore_load", "restore_save",
                 "edit_save"},
           user : User, target : User, values : Values, folder : Folder,
           row : Row \cup {NoRow}, gone : BOOLEAN, bulk : BOOLEAN]

TypeOK ==
  /\ account \in [User -> {"none", "user", "staff"}]
  /\ passed \subseteq User
  /\ grants \subseteq Grant
  /\ send \in {"pending", "taken", "cancelled"}
  /\ rows \in [User -> Row \cup {NoRow}]
  /\ request \in [Request -> Active \cup {New, Done}]
  /\ open \in BOOLEAN
  /\ bootstrapped \subseteq User
  /\ registered \subseteq User
  /\ wanted \in [User -> Row \cup {NoRow}]
  /\ overwritten \subseteq User
  /\ left \in 0 .. MaxLeaving

Init ==
  /\ account = [u \in User |-> "none"]
  /\ passed = {}
  /\ grants = {}
  /\ send = "pending"
  /\ rows = [u \in User |-> NoRow]
  /\ request = [r \in Request |-> New]
  /\ open \in BOOLEAN
  /\ bootstrapped = {}
  /\ registered = {}
  /\ wanted = [u \in User |-> NoRow]
  /\ overwritten = {}
  /\ left = 0

-----------------------------------------------------------------------------
NoAccounts == \A u \in User : account[u] = "none"

IsStaff(u) == account[u] = "staff"

(* What the view saw when it let the registration through: whoever passed  *)
(* a closed registration had seen no account.                              *)
FirstSeen(u) == u \in passed /\ (NoAccounts \/ ~ open)

(* What RegistrationSerializer.create sees under the lock on the table.    *)
First(u) == NoAccounts

(* UserViewSet.register: the check before anything is locked.              *)
RegisterCheck(u) ==
  /\ account[u] = "none" /\ u \notin passed
  /\ NoAccounts \/ open
  /\ passed' = passed \cup {u}
  /\ UNCHANGED <<account, grants, send, stateVars, request, open, bootstrapped, registered, left>>

(* RegistrationSerializer.create, with the table locked.                   *)
RegisterCreate(u) ==
  /\ u \in passed
  /\ First(u) \/ open
  /\ account[u] = "none"
  /\ passed' = passed \ {u}
  /\ account' = [account EXCEPT ![u] = IF First(u) THEN "staff" ELSE "user"]
  /\ registered' = registered \cup {u}
  /\ bootstrapped' = IF First(u) THEN bootstrapped \cup {u} ELSE bootstrapped
  /\ UNCHANGED <<grants, send, stateVars, request, open, left>>

(* It is denied, or the name has been taken.                               *)
RegisterDenied(u) ==
  /\ u \in passed
  /\ account[u] # "none" \/ ~ (First(u) \/ open)
  /\ passed' = passed \ {u}
  /\ UNCHANGED <<account, grants, send, stateVars, request, open, bootstrapped, registered, left>>

(* UserViewSet.create, by staff.                                           *)
CreateAccount(u, kind) ==
  /\ \E s \in User : IsStaff(s)
  /\ account[u] = "none"
  /\ account' = [account EXCEPT ![u] = kind]
  /\ UNCHANGED <<passed, grants, send, stateVars, request, open, bootstrapped, registered, left>>

(* UserViewSet.destroy, by staff, oneself included: the user's grants and  *)
(* rows go along, and a request on such a row has nothing left to write.   *)
RemoveAccount(u) ==
  /\ \E s \in User : IsStaff(s)
  /\ account[u] # "none"
  /\ left < MaxLeaving
  /\ left' = left + 1
  /\ account' = [account EXCEPT ![u] = "none"]
  /\ bootstrapped' = bootstrapped \ {u}
  /\ registered' = registered \ {u}
  /\ grants' = {g \in grants : g.user # u}
  /\ rows' = [rows EXCEPT ![u] = NoRow]
  /\ wanted' = [wanted EXCEPT ![u] = NoRow]
  /\ overwritten' = overwritten \ {u}
  /\ request' = [r \in Request |->
                   IF request[r].pc \notin {"new", "done"} /\ request[r].target = u
                   THEN Done ELSE request[r]]
  /\ UNCHANGED <<passed, open, send>>

-----------------------------------------------------------------------------
(* Grants (UserMailboxAccess), which staff gives.                          *)
Current(g) == g.expires # "past"

(* MailboxQuerySet.for_api_user and writable_for_user.                     *)
HasAccess(u) == IsStaff(u) \/ \E g \in grants : g.user = u /\ Current(g)
CanWrite(u) == IsStaff(u) \/ \E g \in grants : g.user = u /\ Current(g) /\ g.write

(* At most one active grant of a user for one target, one that has expired *)
(* and has not been swept yet included.                                    *)
GiveAccess(g) ==
  /\ \E s \in User : IsStaff(s)
  /\ account[g.user] = "user"
  /\ g.expires # "past"
  /\ \A h \in grants : <<h.user, h.type>> # <<g.user, g.type>>
  /\ Cardinality(grants) < MaxGrants
  /\ grants' = grants \cup {g}
  /\ UNCHANGED <<accountVars, send, stateVars, request>>

(* Staff changes what a grant allows or when it ends ...                   *)
ChangeAccess(g, write, expires) ==
  /\ \E s \in User : IsStaff(s)
  /\ <<write, expires>> # <<g.write, g.expires>>
  /\ grants' = (grants \ {g}) \cup {[g EXCEPT !.write = write, !.expires = expires]}
  /\ UNCHANGED <<accountVars, send, stateVars, request>>

(* ... or takes it away.                                                   *)
RevokeAccess(g) ==
  /\ \E s \in User : IsStaff(s)
  /\ grants' = grants \ {g}
  /\ UNCHANGED <<accountVars, send, stateVars, request>>

Expire(g) ==
  /\ g.expires = "later"
  /\ grants' = (grants \ {g}) \cup {[g EXCEPT !.expires = "past"]}
  /\ UNCHANGED <<accountVars, send, stateVars, request>>

(* expire_user_mailbox_access_task.                                        *)
SweepAccess ==
  /\ \E g \in grants : ~ Current(g)
  /\ grants' = {g \in grants : Current(g)}
  /\ UNCHANGED <<accountVars, send, stateVars, request>>

-----------------------------------------------------------------------------
(* Requests.                                                               *)
MessageFolder == IF send = "cancelled" THEN "drafts" ELSE "sent"

(* A row is created with what the message says, of which nobody has read   *)
(* it; another one starts from the defaults of the model.                  *)
Defaults(folder) == [is_read |-> "no", folder |-> folder]

Start(r, u, t, pc, values, bulk) ==
  request' = [request EXCEPT ![r] =
                [pc |-> pc, user |-> u, target |-> t, values |-> values, folder |-> MessageFolder,
                 row |-> NoRow, gone |-> FALSE, bulk |-> bulk]]

Writing(bulk) == IF bulk THEN "bulk_load" ELSE "upsert"

Finish(r) == request' = [request EXCEPT ![r] = Done]

(* The row of u has been created, or changed as asked.                     *)
Saved(u, row, values) ==
  /\ rows' = [rows EXCEPT ![u] = row]
  /\ wanted' = [wanted EXCEPT ![u] = IF rows[u] = NoRow THEN row ELSE Apply(values, @)]

(* state and bulk-state: the message is loaded, if the user may see it.    *)
Begin(r, u, values, bulk) ==
  /\ request[r] = New
  /\ HasAccess(u)
  /\ LET trash == "folder" \in DOMAIN values /\ values.folder = "trash"
     IN  Start(r, u, u, IF trash THEN "cancel" ELSE Writing(bulk), values, bulk)
  /\ UNCHANGED <<accountVars, grants, send, stateVars>>

(* To put it in the trash cancels the send, for who may write.             *)
Cancel(r) ==
  /\ request[r].pc = "cancel"
  /\ LET cancels == CanWrite(request[r].user) /\ request[r].folder = "sent" /\ send = "pending"
     IN  /\ send' = IF cancels THEN "cancelled" ELSE send
         /\ request' = [request EXCEPT ![r].folder = IF cancels THEN "drafts" ELSE @,
                                       ![r].pc = Writing(request[r].bulk)]
  /\ UNCHANGED <<accountVars, grants, stateVars>>

(* EmailMessageUserStateManager.upsert: the row is created or locked, and  *)
(* saved, in one transaction.                                              *)
Upsert(r) ==
  LET q == request[r]
      old == IF rows[q.target] = NoRow THEN Defaults(q.folder) ELSE rows[q.target]
  IN  /\ q.pc = "upsert"
      /\ Saved(q.target, Apply(q.values, old), q.values)
      /\ Finish(r)
      /\ UNCHANGED <<accountVars, grants, send, overwritten>>

(* bulk-state reads the rows there are ...                                 *)
BulkLoad(r) ==
  /\ request[r].pc = "bulk_load"
  /\ request' = [request EXCEPT ![r].row = rows[request[r].target], ![r].pc = "bulk_save"]
  /\ UNCHANGED <<accountVars, grants, send, stateVars>>

(* An update that writes every field of the rows it has read.              *)
WrittenAll(r) == Apply(request[r].values, request[r].row)

(* bulk_update writes the fields of the request, whatever else was loaded. *)
Written(r) == Apply(request[r].values, rows[request[r].target])

(* ... and creates or updates them, a row that has been deleted passed by. *)
BulkSave(r) ==
  LET q == request[r]
  IN  /\ q.pc = "bulk_save"
      /\ \/ /\ q.row = NoRow /\ rows[q.target] = NoRow
            /\ Saved(q.target, Apply(q.values, Defaults(q.folder)), q.values)
         \/ /\ q.row # NoRow /\ ~ q.gone
            /\ Saved(q.target, Written(r), q.values)
         \/ /\ q.row # NoRow /\ q.gone
            /\ UNCHANGED <<rows, wanted>>
         \/ /\ q.row = NoRow /\ rows[q.target] # NoRow   \* IntegrityError
            /\ UNCHANGED <<rows, wanted>>
      /\ Finish(r)
      /\ UNCHANGED <<accountVars, grants, send, overwritten>>

(* restore: the message, ...                                               *)
BeginRestore(r, u) ==
  /\ request[r] = New
  /\ HasAccess(u)
  /\ Start(r, u, u, "restore_load", [folder |-> "inbox"], FALSE)
  /\ UNCHANGED <<accountVars, grants, send, stateVars>>

(* ... get_or_create of the row, ...                                       *)
RestoreLoad(r) ==
  LET q == request[r]
      row == IF rows[q.target] = NoRow THEN Defaults(q.folder) ELSE rows[q.target]
  IN  /\ q.pc = "restore_load"
      /\ Saved(q.target, row, <<>>)
      /\ request' = [request EXCEPT ![r].row = row, ![r].pc = "restore_save"]
      /\ UNCHANGED <<accountVars, grants, send, overwritten>>

(* ... and a save of its folder, which fails when the row is gone.         *)
RestoreSave(r) ==
  LET q == request[r]
  IN  /\ q.pc = "restore_save"
      /\ IF q.gone THEN UNCHANGED <<rows, wanted>>
         ELSE Saved(q.target, Apply(q.values, rows[q.target]), q.values)
      /\ Finish(r)
      /\ UNCHANGED <<accountVars, grants, send, overwritten>>

-----------------------------------------------------------------------------
(* EmailMessageUserStateViewSet: the rows themselves.  Staff see them all, *)
(* others their own, and access to the mailbox is not asked for.           *)
MayEdit(u, t) == IsStaff(u) \/ (account[u] = "user" /\ u = t)

(* Its create.                                                             *)
CreateRow(r, u, t, values) ==
  /\ request[r] = New
  /\ HasAccess(u) /\ MayEdit(u, t) /\ account[t] # "none"
  /\ rows[t] = NoRow
  /\ Saved(t, Apply(values, Defaults("inbox")), values)
  /\ Finish(r)
  /\ UNCHANGED <<accountVars, grants, send, overwritten>>

(* Its update loads the whole row ...                                      *)
EditLoad(r, u, t, values) ==
  /\ request[r] = New
  /\ MayEdit(u, t)
  /\ rows[t] # NoRow
  /\ request' = [request EXCEPT ![r] =
                   [pc |-> "edit_save", user |-> u, target |-> t, values |-> values,
                    folder |-> MessageFolder, row |-> rows[t], gone |-> FALSE, bulk |-> FALSE]]
  /\ UNCHANGED <<accountVars, grants, send, stateVars>>

(* ... and saves the whole row: over what was changed meanwhile, and anew  *)
(* when it was deleted, unless there is another by now.                    *)
EditSave(r) ==
  LET q == request[r]
  IN  /\ q.pc = "edit_save"
      /\ IF q.gone /\ rows[q.target] # NoRow
         THEN UNCHANGED stateVars                        \* IntegrityError
         ELSE /\ Saved(q.target, Apply(q.values, q.row), q.values)
              /\ overwritten' = IF rows[q.target] \in {NoRow, q.row} THEN overwritten
                                ELSE overwritten \cup {q.target}
      /\ Finish(r)
      /\ UNCHANGED <<accountVars, grants, send>>

(* Its destroy.                                                            *)
DestroyRow(r, u, t) ==
  /\ request[r] = New
  /\ MayEdit(u, t)
  /\ rows[t] # NoRow
  /\ rows' = [rows EXCEPT ![t] = NoRow]
  /\ wanted' = [wanted EXCEPT ![t] = NoRow]
  /\ overwritten' = overwritten \ {t}
  /\ request' = [q \in Request |->
                   IF q = r THEN Done
                   ELSE IF request[q].pc \in {"bulk_save", "restore_save", "edit_save"}
                           /\ request[q].target = t /\ request[q].row # NoRow
                        THEN [request[q] EXCEPT !.gone = TRUE] ELSE request[q]]
  /\ UNCHANGED <<accountVars, grants, send>>

(* The worker takes the attempt.                                           *)
Take ==
  /\ send = "pending"
  /\ send' = "taken"
  /\ UNCHANGED <<accountVars, grants, stateVars, request>>

-----------------------------------------------------------------------------
Next ==
  \/ \E u \in User :
       \/ RegisterCheck(u) \/ RegisterCreate(u) \/ RegisterDenied(u) \/ RemoveAccount(u)
       \/ \E kind \in {"user", "staff"} : CreateAccount(u, kind)
  \/ \E g \in Grant : GiveAccess(g)
  \/ \E g \in grants :
       \/ RevokeAccess(g) \/ Expire(g)
       \/ \E write \in BOOLEAN, expires \in {"never", "later"} : ChangeAccess(g, write, expires)
  \/ SweepAccess
  \/ \E r \in Request :
       \/ Cancel(r) \/ Upsert(r) \/ BulkLoad(r) \/ BulkSave(r)
       \/ RestoreLoad(r) \/ RestoreSave(r) \/ EditSave(r)
       \/ \E u \in User : BeginRestore(r, u)
       \/ \E u \in User, values \in Change, bulk \in BOOLEAN : Begin(r, u, values, bulk)
       \/ \E u, t \in User : DestroyRow(r, u, t)
       \/ \E u, t \in User, values \in Change : CreateRow(r, u, t, values)
       \/ \E u, t \in User, values \in Change : EditLoad(r, u, t, values)
  \/ Take

Spec == Init /\ [][Next]_vars

-----------------------------------------------------------------------------
(* However registrations race, one account at most has become staff by     *)
(* registering, and while registration is closed no other has registered:  *)
(* the check of the view decides nothing, the one under the lock does.     *)
OneBootstrapAdmin ==
  /\ Cardinality(bootstrapped) <= 1
  /\ ~ open => registered = bootstrapped

(* Whatever tabs and endpoints a user's changes to the state of a message  *)
(* come from, and however they interleave, each field has the value that   *)
(* the last change of it asked for: none is undone by a request that set   *)
(* another.  Only an edit of the whole row, saved over a change it has not *)
(* seen, is another matter.                                                *)
ChangesAreKept ==
  \A u \in User \ overwritten : rows[u] = wanted[u]
=============================================================================
