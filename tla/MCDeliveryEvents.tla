-------------------------- MODULE MCDeliveryEvents --------------------------
(***************************************************************************)
(* A small instance of DeliveryEvents for TLC: two messages from one       *)
(* domain to a shared address, and the reports on them.                    *)
(***************************************************************************)
EXTENDS DeliveryEvents, TLC

CONSTANTS m1, m2, a1, a2, d1, d2, delivered1, delivered2, bounced, unsubscribed

MCTo == (m1 :> {a1, a2}) @@ (m2 :> {a1})

MCDomainOf == [m \in Message |-> d1]

MCInboundDomain == (m1 :> NoDomain) @@ (m2 :> d2)

MCAbout == [r \in Report |-> IF r = unsubscribed THEN m2 ELSE m1]

MCRcpt == [r \in Report |-> IF r = delivered2 THEN a2 ELSE a1]

MCKind ==
  [r \in Report |->
     CASE r \in {delivered1, delivered2} -> "delivered"
       [] r = bounced -> "bounced"
       [] r = unsubscribed -> "unsubscribed"]

MCManaged == {<<d1, a1>>}
=============================================================================
