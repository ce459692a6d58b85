---------------------------- MODULE MailThreads ----------------------------
(***************************************************************************)
(* The conversations of one mailbox, as a list in the order in which they  *)
(* were opened, and what filing a message in them does                     *)
(* (update_thread_for_message, providers/ingest.py).                       *)
(*                                                                         *)
(* A thread is a record with its normalized subject, its root_message_id   *)
(* (NoMail for a blank one), the messages whose foreign key it is (joined) *)
(* and those whose addresses are among its participants (known).  Mails    *)
(* stand for their Message-IDs.                                            *)
(***************************************************************************)
EXTENDS Naturals, FiniteSets, Sequences, SequencesExt

CONSTANTS
  NoMail,       \* no Message-ID
  NoSubject     \* a subject that normalize_subject leaves nothing of

(* What a reader of a thread takes with it, until it writes the whole row: *)
(* place 0 is no thread.                                                   *)
NoThread == [place |-> 0, root |-> NoMail, known |-> {}]

Copy(list, i) == [place |-> i, root |-> list[i].root, known |-> list[i].known]

(* The threads that the message ids of In-Reply-To and References lead to, *)
(* by their root or by a message of theirs.                                *)
ByRoot(list, refs) == {i \in DOMAIN list : list[i].root \in refs}

ByMessage(list, refs) == {i \in DOMAIN list : list[i].joined \cap refs # {}}

BySubject(list, subject) ==
  {i \in DOMAIN list : subject # NoSubject /\ list[i].subject = subject}

(* Matching that knows the message a thread began with, and no other.      *)
MatchingRootsOnly(list, refs, subject) ==
  IF ByRoot(list, refs) # {} THEN ByRoot(list, refs) ELSE BySubject(list, subject)

Matching(list, refs, subject) ==
  IF ByRoot(list, refs) # {} THEN ByRoot(list, refs)
  ELSE IF ByMessage(list, refs) # {} THEN ByMessage(list, refs)
  ELSE BySubject(list, subject)

(* The thread that is found; which one of several depends on dates.        *)
Lookup(list, refs, subject) ==
  IF Matching(list, refs, subject) = {} THEN {NoThread}
  ELSE {Copy(list, i) : i \in Matching(list, refs, subject)}

Opened(x, known, subject) ==
  [subject |-> subject, root |-> x, joined |-> known, known |-> known]

(* Joined with the participants of the new messages alone.                 *)
JoinedAnew(row, thread, x, new) ==
  [row EXCEPT !.root = IF thread.root = NoMail THEN x ELSE thread.root,
              !.joined = @ \cup new,
              !.known = new]

(* New messages, x the first, open a thread or join the one that was read: *)
(* participants and a missing root are written from what was read.         *)
Joined(row, thread, x, new) ==
  [row EXCEPT !.root = IF thread.root = NoMail THEN x ELSE thread.root,
              !.joined = @ \cup new,
              !.known = thread.known \cup new]

File(list, thread, x, new, subject) ==
  IF thread.place = 0 THEN Append(list, Opened(x, new, subject))
  ELSE [list EXCEPT ![thread.place] = Joined(@, thread, x, new)]

OpenedEach(s, subject) == [i \in DOMAIN s |-> Opened(s[i], {s[i]}, subject)]

(* The copies that a mailbox forwards refer to nothing: each without a     *)
(* subject opens a thread, and the others join one by their subject.       *)
FileCopies(list, copies, subject) ==
  IF copies = {} THEN {list}
  ELSE IF subject = NoSubject THEN {list \o OpenedEach(SetToSeq(copies), subject)}
  ELSE {File(list, thread, x, copies, subject) : thread \in Lookup(list, {}, subject), x \in copies}

(* create_draft_message: a thread of its own, without a root ...           *)
FileDraft(list, x, subject) == Append(list, Opened(NoMail, {x}, subject))

(* ... or a thread the request names, which learns nothing of the draft.   *)
FileDraftAt(list, i, x) == [list EXCEPT ![i].joined = @ \cup {x}]

(* A deleted message leaves its thread, which forgets no participant.      *)
Unfile(list, x) ==
  [i \in DOMAIN list |-> [list[i] EXCEPT !.joined = @ \ {x}]]

(* Whether a mail that refers to refs continues the thread.                *)
Continues(refs, row) == row.root \in refs \/ row.joined \cap refs # {}
=============================================================================
