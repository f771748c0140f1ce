\* Two runs on one device, of an edge action and of a service restart, over two
\* connections of its edge.
SPECIFICATION FairSpec
CONSTANTS
  e1 = e1
  d1 = d1
  c1 = c1
  c2 = c2
  r1 = r1
  r2 = r2
  NoConn = NoConn
  NoEdge = NoEdge
  NoAction = NoAction
  Edges = {e1}
  Conns = {c1, c2}
  Devices = {d1}
  EdgeOf <- OnOneEdge
  Actions = {"reset", "restart", "script"}
  Kind <- Kinds
  MaxAttempts <- ResetTwice
  Fallback <- ScriptAfterReset
  Dispatched = {"reset", "restart"}
  Disabled = {"script"}
  Legacy = {}
  Runs = {r1, r2}
INVARIANTS GoneFailsPending OneRunPerTarget
PROPERTY RunsEnd
CHECK_DEADLOCK FALSE
