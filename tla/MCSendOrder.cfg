\* Two messages, sent, drafted, cancelled, deleted and rejected, with one retry
\* each and one crash at any point.  No daily limit, so that none hides a second
\* mail.
CONSTANTS
  Message = {m1, m2}
  Worker = {w1, w2}
  TheDomain = domain
  Domain <- MCDomain
  DomainOf <- MCDomainOf
  DomainLimit <- MCDomainLimit
  TheLimit = 0
  ProviderLimit = 0
  LastDay = 1
  NoRow = NoRow
  NoTask = NoTask
  MaxRetries = 1
  MaxCopies = 1
  MaxCrashes = 1
  Events = {"draft", "cancel", "delete", "misconfigured"}
SPECIFICATION Spec
SYMMETRY Symmetry
INVARIANTS
  PostedAtMostOnce
  RowsAgreeAtRest
  NoAttemptStranded
\* The system stops when every message is settled.
CHECK_DEADLOCK FALSE
