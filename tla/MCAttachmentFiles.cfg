\* As many names as there may be uploads with one fault.
CONSTANTS
  original = original
  copy = copy
  d1 = d1
  d2 = d2
  mailbox = mailbox
  Received = {original}
  Copy = {copy}
  CopyOf <- MCCopyOf
  Staged = {d1, d2}
  Mailbox = {mailbox}
  MailboxOf <- MCMailboxOf
  Object = {o1, o2, o3}
  MaxFaults = 1
  NoObject = NoObject
SPECIFICATION Spec
INVARIANTS
  TypeOK
  RowsHaveObjects
PROPERTIES
  OrphansCollected
CHECK_DEADLOCK FALSE
\* Everything has been deleted.
