CONSTANTS
  approvals = approvals pages = pages
  Topics = {approvals, pages}
  Approvals = approvals
  Clients = {"mcp", "tab"}
  Feeds <- Followed
  Whats <- Payloads
  Requests = {r1}
  r1 = r1
  Final = {"applied", "denied"}
  Resync = Resync
  AnyTopic = AnyTopic
  Null = Null
  RingMax = 2
  QueueMax = 2
  WireMax = 1
  MaxId = 2
  MaxElsewhere = 1
  MaxCuts = 0
  MaxRestarts = 0
SPECIFICATION Spec
CHECK_DEADLOCK FALSE
INVARIANT BadgeUpdates
