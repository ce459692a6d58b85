\* A message to two addresses and one to the first of them: reports that share
\* an event id, that race, and that come early, a crash, and a suppression that
\* staff adds.
CONSTANTS
  m1 = m1
  m2 = m2
  a1 = a1
  a2 = a2
  d1 = d1
  d2 = d2
  delivered1 = delivered1
  delivered2 = delivered2
  bounced = bounced
  unsubscribed = unsubscribed
  Message = {m1, m2}
  Address = {a1, a2}
  Domain = {d1, d2}
  To <- MCTo
  DomainOf <- MCDomainOf
  InboundDomain <- MCInboundDomain
  Report = {delivered1, delivered2, bounced, unsubscribed}
  About <- MCAbout
  Kind <- MCKind
  Rcpt <- MCRcpt
  HasId = {bounced}
  Worker = {w1, w2}
  MaxCrashes = 1
  Managed <- MCManaged
  NoDomain = NoDomain
  NoReport = NoReport
SPECIFICATION Spec
INVARIANTS
  MessageShowsHighest
  RecipientShowsHighest
PROPERTIES
  NoMailAfterBounce
  BounceEndsSuppressed
\* The system stops when every report is settled.
CHECK_DEADLOCK FALSE
