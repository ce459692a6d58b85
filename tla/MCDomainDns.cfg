\* Two checks at once, one failure, crash or edit, one retry.
CONSTANTS
  Task = {t1, t2}
  MaxRetries = 1
  MaxFaults = 1
SPECIFICATION Spec
INVARIANTS
  CheckLeavesAgreement
PROPERTIES
  RightDnsIsVerified
