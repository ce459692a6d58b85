\* One message and two fair workers; a call may fail, be rejected or lose its answer.
CONSTANTS
  Message = {m1}
  Worker = {w1, w2}
  TheDomain = domain
  Domain <- MCDomain
  DomainOf <- MCDomainOf
  DomainLimit <- MCDomainLimit
  TheLimit = 1
  ProviderLimit = 0
  LastDay = 1
  NoRow = NoRow
  NoTask = NoTask
  MaxRetries = 1
  MaxCopies = 1
  MaxCrashes = 0
  Events = {"schedule", "draft", "cancel", "delete", "misconfigured", "answer_lost"}
SPECIFICATION FairSpec
PROPERTY
  EveryAttemptSettles
\* The system stops when every message is settled.
CHECK_DEADLOCK FALSE
