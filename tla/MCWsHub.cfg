\* Two connections, two alerts, two broadcasts, one unexpected exception.
CONSTANTS
  a1 = a1
  a2 = a2
  n1 = n1
  n2 = n2
  c1 = c1
  c2 = c2
  None = None
  Clients = {c1, c2}
  Alerts = {a1, a2}
  Nodes = {n1, n2}
  NodeOf <- MCNodeOf
  SeverityOf <- MCSeverityOf
  Filters <- MCFilters
  MaxSends = 2
  MaxFaults = 1
SPECIFICATION LiveSpec
INVARIANTS TypeOK NothingMissed
PROPERTIES ImplementsFeed AlertsFlushed DeadLeave
CHECK_DEADLOCK FALSE
