\* One webhook, posted up to twice, with a retry, a crash, redaction and a
\* reprocess request.  The sweep hands out a row that was never attempted.
CONSTANTS
  Webhook = {h1}
  Keyed = {h1}
  Unknown = {}
  Worker = {w1, w2}
  MaxRetries = 1
  MaxAttempts = 1
  MaxPosts = 2
  MaxCopies = 1
  MaxCrashes = 1
  MaxRequeues = 1
  Events = {"exception", "redact", "orphan"}
  NoTask = NoTask
SPECIFICATION Spec
SYMMETRY Symmetry
INVARIANTS
  TypeOK
  OneWorkerPerRow
  EffectsAccounted
  RetryableHasPayload
PROPERTY SettledNotReprocessed
\* The system stops when every webhook is settled.
CHECK_DEADLOCK FALSE
