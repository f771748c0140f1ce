\* Two devices of one product on one edge, over two connections.
SPECIFICATION Spec
CONSTANTS
  e1 = e1
  d1 = d1
  d2 = d2
  c1 = c1
  c2 = c2
  NoConn = NoConn
  NoEdge = NoEdge
  NoName = NoName
  NoRow = NoRow
  Edges = {e1}
  Conns = {c1, c2}
  Devices = {d1, d2}
  EdgeOf <- OnOneEdge
  LocalPart <- Suffixed
  ReportedNames = {"PXIe-6368"}
  Reporting = {d1}
  Stored <- FreshOrTaken
  MaxAlerts = 1
  LowCapacity = 1
  MaxRestarts = 1
  MaxFrames = 2
  MaxHigh = 2
INVARIANTS DependentsFollow RecordsAgree LiveIsReached
CHECK_DEADLOCK FALSE
SYMMETRY Symmetry
VIEW View
