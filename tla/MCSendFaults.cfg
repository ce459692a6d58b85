\* One message, two workers, two days, and everything that can go wrong at least
\* once: a crash, a lost answer, a cancel, an edit or a deletion under way.
\* The only failure that needs more than one try is left to the other runs.
CONSTANTS
  Message = {m1}
  Worker = {w1, w2}
  TheDomain = domain
  Domain <- MCDomain
  DomainOf <- MCDomainOf
  DomainLimit <- MCDomainLimit
  TheLimit = 1
  ProviderLimit = 0
  LastDay = 2
  NoRow = NoRow
  NoTask = NoTask
  MaxRetries = 0
  MaxCopies = 1
  MaxCrashes = 1
  Events = {"schedule", "draft", "edit", "cancel", "delete", "web_crash", "storage_fails", "misconfigured", "answer_lost", "midnight"}
SPECIFICATION Spec
INVARIANTS
  TypeOK
  SentMeansPosted
  CancelInTimeHolds
PROPERTY
  LogSpec
\* The system stops when every message is settled.
CHECK_DEADLOCK FALSE
