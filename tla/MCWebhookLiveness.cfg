\* An event that is recognized and one that is not, lost requests, failures and
\* a crash; no retries, so that the sweep must do.
CONSTANTS
  Webhook = {h1, u1}
  Keyed = {h1}
  Unknown = {u1}
  Worker = {w1}
  MaxRetries = 0
  MaxAttempts = 2
  MaxPosts = 1
  MaxCopies = 1
  MaxCrashes = 1
  MaxRequeues = 0
  Events = {"exception", "web_crash", "orphan"}
  NoTask = NoTask
SPECIFICATION FairSpec
PROPERTY EveryWebhookSettles
\* The system stops when every webhook is settled.
CHECK_DEADLOCK FALSE
