----------------------------- MODULE MailRouting -----------------------------
(***************************************************************************)
(* Two decisions of inbound mail that need no state of their own: which    *)
(* mailbox it goes to (resolve_mailbox, providers/ingest.py) and what the  *)
(* mailbox's rules do with it (hedwig/rules.py).                           *)
(*                                                                         *)
(* Addresses are taken in lower case and inside the domain the webhook was *)
(* resolved to: resolve_mailbox skips the others.                          *)
(***************************************************************************)
EXTENDS Naturals, FiniteSets, Sequences, SequencesExt

CONSTANTS
  Mailbox,      \* the mailboxes of the domain
  Address,      \* addresses inside the domain
  AddressOf,    \* the address of each mailbox
  AliasOf,      \* the mailbox behind each active alias that can receive
  CatchAll,     \* the domain's catch-all mailbox, or NoMailbox
  Label,        \* labels of messages
  NoMailbox

ASSUME RoutingAssumption ==
  /\ AddressOf \in [Mailbox -> Address]
  /\ \A a, b \in Mailbox : AddressOf[a] = AddressOf[b] => a = b
  /\ DOMAIN AliasOf \subseteq Address
  /\ \A a \in DOMAIN AliasOf : AliasOf[a] \in Mailbox
  /\ CatchAll \in Mailbox \cup {NoMailbox}
  /\ NoMailbox \notin Mailbox

(* MailboxAt that holds aliases to the same test as mailboxes.             *)
MailboxAtOpenOnly(accepting, a) ==
  LET owners == {mb \in accepting : AddressOf[mb] = a \/ (a \in DOMAIN AliasOf /\ AliasOf[a] = mb)} IN
    IF owners = {} THEN NoMailbox ELSE CHOOSE mb \in owners : TRUE

(* The open mailbox with this address, or else the mailbox of an alias,    *)
(* open or not.                                                            *)
MailboxAt(accepting, a) ==
  IF \E mb \in accepting : AddressOf[mb] = a THEN CHOOSE mb \in accepting : AddressOf[mb] = a
  ELSE IF a \in DOMAIN AliasOf THEN AliasOf[a] ELSE NoMailbox

(* resolve_mailbox: the first recipient somebody answers to, the envelope's*)
(* before those of the header, and the catch-all mailbox for nobody.       *)
Resolve(accepting, recipients) ==
  LET first == SelectInSeq(recipients, LAMBDA a : MailboxAt(accepting, a) # NoMailbox) IN
    IF first > 0 THEN MailboxAt(accepting, recipients[first])
    ELSE IF CatchAll \in accepting THEN CatchAll ELSE NoMailbox

-----------------------------------------------------------------------------
(* Rules.  A rule has conditions on the message (the facts it needs), on a *)
(* label it must carry, and actions.  A message is what the conditions can *)
(* tell of it.                                                             *)

(* SUPPORTED_CONDITIONS, but for has_label; a condition with a blank value *)
(* is met by every message.                                                *)
Fact == {"from_contains", "subject_contains", "to_contains", "cc_contains",
         "has_attachment", "no_attachment", "blank"}

Folder == {"inbox", "sent", "drafts", "trash", "spam", "archive"}

AtMostOne(S) == {{}} \cup {{x} : x \in S}

(* A MailboxRule; priority stands for its place by priority and name.      *)
Rule ==
  [priority : Nat, is_active : BOOLEAN, needs : SUBSET Fact, has_label : SUBSET Label,
   add_label : SUBSET Label, move_to_folder : AtMostOne(Folder),
   forward_to : AtMostOne(Address), stop : BOOLEAN]

(* What rules a mailbox may have: finitely many, each with a place of its  *)
(* own, for no two have the same name (unique_rule_name_per_mailbox).      *)
RuleSet ==
  {rules \in SUBSET Rule :
     IsFiniteSet(rules) /\ \A r, q \in rules : r.priority = q.priority => r = q}

(* _rule_matches: every condition holds; no condition matches nothing.     *)
Matches(rule, facts, labels) ==
  /\ rule.needs # {} \/ rule.has_label # {}
  /\ rule.needs \subseteq facts \cup {"blank"}
  /\ rule.has_label \subseteq labels

(* ApplyRule by the labels the message had before any rule.                *)
ApplyRuleToOriginal(facts, state, rule) ==
  IF state.stopped \/ ~ Matches(rule, facts, {}) THEN state
  ELSE [labels |-> state.labels \cup rule.add_label,
        folder |-> IF rule.move_to_folder = {} THEN state.folder
                   ELSE CHOOSE f \in rule.move_to_folder : TRUE,
        forwards |-> state.forwards \o SetToSeq(rule.forward_to),
        stopped |-> rule.stop]

(* _apply_actions, unless a rule before it has stopped the evaluation.     *)
ApplyRule(facts, state, rule) ==
  IF state.stopped \/ ~ Matches(rule, facts, state.labels) THEN state
  ELSE [labels |-> state.labels \cup rule.add_label,
        folder |-> IF rule.move_to_folder = {} THEN state.folder
                   ELSE CHOOSE f \in rule.move_to_folder : TRUE,
        forwards |-> state.forwards \o SetToSeq(rule.forward_to),
        stopped |-> rule.stop]

NothingDone(folder) == [labels |-> {}, folder |-> folder, forwards |-> <<>>, stopped |-> FALSE]

(* The rule that comes last by priority.                                   *)
LastRule(rules) == CHOOSE r \in rules : \A s \in rules : s.priority <= r.priority

(* evaluate_rules: the active rules, one by one, the last one last.        *)
EvaluateRules(rules, facts, folder) ==
  MapThenFoldSet(LAMBDA rule, state : ApplyRule(facts, state, rule), NothingDone(folder),
                 LAMBDA rule : rule, LastRule, {r \in rules : r.is_active})

-----------------------------------------------------------------------------
(* A mail only goes to a closed mailbox through an alias; a recipient that *)
(* answers is never passed over for a later one or for the catch-all; and  *)
(* a mail is turned away only if nobody answers (resolve_mailbox).         *)
ResolvesAsPromised(lists) ==
  \A accepting \in SUBSET Mailbox, recipients \in lists :
    LET mb == Resolve(accepting, recipients)
        answers(a) == (\E b \in accepting : AddressOf[b] = a) \/ a \in DOMAIN AliasOf
        first == {i \in DOMAIN recipients :
                    answers(recipients[i]) /\ \A j \in 1 .. i - 1 : ~ answers(recipients[j])}
    IN
      /\ \A i \in first : IF \E b \in accepting : AddressOf[b] = recipients[i]
                          THEN AddressOf[mb] = recipients[i] /\ mb \in accepting
                          ELSE mb = AliasOf[recipients[i]]
      /\ first = {} => mb = IF CatchAll \in accepting THEN CatchAll ELSE NoMailbox

(* "Run mailbox's active rules against message in priority order": what the*)
(* evaluation leaves is what the one set of rules F leaves that fire       *)
(* according to the labels of those before them, up to the first that      *)
(* stops.                                                                  *)
RulesAsPromised(ruleSets, factSets) ==
  \A rules \in ruleSets, facts \in factSets :
    LET active == {r \in rules : r.is_active}
        before(r) == {s \in active : s.priority < r.priority}
        labelsOf(F) == UNION {s.add_label : s \in F}
        fires(F, r) == /\ \A s \in F \cap before(r) : ~ s.stop
                       /\ Matches(r, facts, labelsOf(F \cap before(r)))
        moved(F) == {r \in F : r.move_to_folder # {}}
        last(F) == {r \in moved(F) : moved(F) \cap before(r) = moved(F) \ {r}}
        result == EvaluateRules(rules, facts, "inbox")
    IN
      \E F \in SUBSET active :
        /\ \A r \in active : r \in F <=> fires(F, r)
        /\ result.labels = labelsOf(F)
        /\ ToSet(result.forwards) = UNION {s.forward_to : s \in F}
        /\ Len(result.forwards) = Cardinality({s \in F : s.forward_to # {}})
        /\ IF moved(F) = {} THEN result.folder = "inbox"
           ELSE \E r \in last(F) : result.folder \in r.move_to_folder
=============================================================================
