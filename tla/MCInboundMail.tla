---------------------------- MODULE MCInboundMail ----------------------------
(***************************************************************************)
(* A small instance of InboundMail for TLC: two mailboxes, each with an    *)
(* alias, that forward to each other's alias.                              *)
(*                                                                         *)
(* A letter comes to A, which writes a note to B.  B drafts a plan, with a *)
(* copy to itself, and gets a reply to it.                                 *)
(***************************************************************************)
EXTENDS InboundMail, TLC

CONSTANTS A, B, a, b, toA, toB, letter, note, plan, reply, hello

MCAddressOf == (A :> a) @@ (B :> b)

MCAliasOf == (toA :> A) @@ (toB :> B)

MCWriter == (letter :> NoMailbox) @@ (note :> A) @@ (plan :> B) @@ (reply :> NoMailbox)

MCRecipients == (letter :> <<a>>) @@ (note :> <<b>>) @@ (plan :> <<b>>) @@ (reply :> <<b>>)

(* The reply has lost the subject of the others.                           *)
MCSubject == [r \in Root |-> IF r = reply THEN NoSubject ELSE hello]

MCReferences == [r \in Root |-> IF r = reply THEN {plan} ELSE {}]

MCFacts == [r \in Root |-> IF r = letter THEN {"from_contains"} ELSE {}]

MCDeclared == [r \in Root |-> 0]

MCStored == [r \in Root |-> IF r \in {letter, note} THEN 1 ELSE 0]

MCQuota == (A :> 2) @@ (B :> 0)

MCForwardTo == (A :> {toB}) @@ (B :> {})

(* B forwards by a rule that needs the label of the rule before it.        *)
TheRules ==
  {[priority |-> 1, is_active |-> TRUE, needs |-> {"from_contains"}, has_label |-> {},
    add_label |-> {"x"}, move_to_folder |-> {}, forward_to |-> {}, stop |-> FALSE],
   [priority |-> 2, is_active |-> TRUE, needs |-> {}, has_label |-> {"x"},
    add_label |-> {}, move_to_folder |-> {"archive"}, forward_to |-> {toA}, stop |-> TRUE]}

MCRules == (A :> {}) @@ (B :> TheRules)

(* Mailboxes may also have three rules of different priority: needing a fact, a label, both  *)
(* or nothing, adding a label, moving, stopping or inactive.               *)
RuleOf(p) ==
  [priority : {p}, is_active : {TRUE}, needs : {{}, {"from_contains"}},
   has_label : {{}, {"x"}}, add_label : {{}, {"x"}}, move_to_folder : {{}, {"spam"}},
   forward_to : {{toA}}, stop : BOOLEAN]

InactiveRule == [priority |-> 0, is_active |-> FALSE, needs |-> {"blank"}, has_label |-> {},
                 add_label |-> {"x"}, move_to_folder |-> {}, forward_to |-> {toB}, stop |-> TRUE]

MCRuleSets == {{}, TheRules} \cup {{InactiveRule, r1, r2} : r1 \in RuleOf(1), r2 \in RuleOf(2)}

WorkerSymmetry == Permutations(Worker)
=============================================================================
