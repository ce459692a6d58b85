\* Storing an attachment fails once.
CONSTANTS
  Message = {m1}
  Worker = {w1, w2}
  TheDomain = domain
  Domain <- MCDomain
  DomainOf <- MCDomainOf
  DomainLimit <- MCDomainLimit
  TheLimit = 0
  ProviderLimit = 0
  LastDay = 1
  NoRow = NoRow
  NoTask = NoTask
  MaxRetries = 1
  MaxCopies = 1
  MaxCrashes = 0
  Events = {"storage_fails"}
SPECIFICATION FairSpec
PROPERTY
  EveryAttemptSettles
\* The system stops when every message is settled.
CHECK_DEADLOCK FALSE
