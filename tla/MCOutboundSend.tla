--------------------------- MODULE MCOutboundSend ---------------------------
(***************************************************************************)
(* Small instances of OutboundSend for TLC: every message leaves from one  *)
(* domain.                                                                 *)
(***************************************************************************)
EXTENDS OutboundSend, TLC

CONSTANTS
  TheDomain,
  TheLimit    \* the domain's daily limit

MCDomain == {TheDomain}

MCDomainLimit == [d \in MCDomain |-> TheLimit]

MCDomainOf == [m \in Message |-> TheDomain]

Symmetry == Permutations(Worker) \cup Permutations(Message)
=============================================================================
