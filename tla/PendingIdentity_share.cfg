SPECIFICATION FairSpec
CONSTANTS
  e1 = e1
  e2 = e2
  d1 = d1
  d2 = d2
  p1 = p1
  p2 = p2
  NoDoc = NoDoc
  Nobody = Nobody
  Emails = {e1}
  Docs = {d1, d2}
  Mailbox = {d2}
  Procs = {p1, p2}
  MaxChanges = 2
  MaxFaults = 1
INVARIANTS NoStranger AdminSeesAddress
PROPERTY QueuedIsDrained
