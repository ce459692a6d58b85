---------------------------- MODULE MailboxStore ----------------------------
(***************************************************************************)
(* What mailboxes promise of the mail they receive, whatever workers,      *)
(* redeliveries and crashes it takes (create_inbound_message,              *)
(* providers/ingest.py): a mail arrives in one step, together with the     *)
(* copies it is forwarded as, and never where it is already.               *)
(***************************************************************************)
CONSTANTS
  Identified(_)  \* whether the provider gives a mail an id

VARIABLES
  held,          \* inbound mails, each with its mailbox
  sent           \* outbound mails, each with its mailbox

storeVars == <<held, sent>>

StoreInit == held = {} /\ sent = {}

(* The mailbox has not the mail, received or sent, and no other mailbox    *)
(* has received it, as far as the provider's id tells.                     *)
IsNew(x, p) ==
  /\ <<x, p>> \notin held \cup sent
  /\ Identified(x) => \A h \in held : h[1] # x

Arrive ==
  \E h \in held' \ held :
    /\ IsNew(h[1], h[2])
    /\ held' = held \cup {h}
    /\ sent \subseteq sent'
    /\ \A c \in sent' \ sent : c[2] = h[2] /\ c[1] # h[1]

Write ==
  \E c \in sent' \ sent :
    /\ sent' = sent \cup {c}
    /\ UNCHANGED held

Remove ==
  \/ \E h \in held : held' = held \ {h} /\ UNCHANGED sent
  \/ \E c \in sent : sent' = sent \ {c} /\ UNCHANGED held

StoreSpec == StoreInit /\ [][Arrive \/ Write \/ Remove]_storeVars
=============================================================================
