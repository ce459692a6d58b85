\* A letter from outside with an undeclared attachment, forwarded in a ring, a note that
\* is sent to the mailbox it comes from, a draft and a reply to it; any one disturbance.
CONSTANTS
  A = A
  B = B
  a = a
  b = b
  toA = toA
  toB = toB
  letter = letter
  note = note
  plan = plan
  reply = reply
  hello = hello
  Mailbox = {A, B}
  Address = {a, b, toA, toB}
  AddressOf <- MCAddressOf
  AliasOf <- MCAliasOf
  CatchAll = A
  Label = {"x"}
  NoMailbox = NoMailbox
  Root = {letter, note, plan, reply}
  Writer <- MCWriter
  Recipients <- MCRecipients
  HasPid = {}
  Subject <- MCSubject
  References <- MCReferences
  Drafts = {plan}
  NoSubject = NoSubject
  FactSets = {{}, {"from_contains"}}
  Facts <- MCFacts
  Declared <- MCDeclared
  Stored <- MCStored
  Quota <- MCQuota
  RuleSets <- MCRuleSets
  Rules <- MCRules
  ForwardTo <- MCForwardTo
  Worker = {w1, w2}
  Closable = {B}
  MaxDisturbances = 1
  World = World
  NoMail = NoMail
SPECIFICATION Spec
SYMMETRY WorkerSymmetry
INVARIANTS
  TypeOK
  UsedMatchesStored
  ForwardingStops
  ResolutionHolds
  RulesHold
PROPERTIES
  StoreSpec
  QuotaKept
  RepliesJoin
  IngestOpensNoSecondThread
  IngestKeepsParticipants
CHECK_DEADLOCK FALSE
\* All mail has been delivered and the bounds are used up.
