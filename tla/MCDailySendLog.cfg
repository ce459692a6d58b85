\* Two workers, two domains, two days: limits 1 (the domain's own) and 2 (the
\* provider's).  A third worker or day adds no new way to share a row.
CONSTANTS
  Worker = {w1, w2}
  NoRow = NoRow
  CappedDomain = capped
  FreeDomain = free
  Domain <- MCDomain
  DomainLimit <- MCDomainLimit
  ProviderLimit = 2
  LastDay = 2
  MaxMail = 2
  MaxFailures = 3
SPECIFICATION MCSpec
SYMMETRY WorkerSymmetry
INVARIANTS
  LogTypeOK
  CountWithinLimit
  EveryMailCounted
  MailWithinLimit
  NoSlotLeaksOtherwise
CHECK_DEADLOCK FALSE
