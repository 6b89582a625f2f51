\* A session that outlives its connection.
SPECIFICATION Spec
CONSTANTS
  s1 = s1  s2 = s2  d1 = d1  d2 = d2  a1 = a1  a2 = a2  None = None
  Socket = {s1}
  ConnectionId = {a1, a2}
  Device = {d1}
  Command = {}
  ConnectionIdOf <- OwnId
  ProtocolOf <- AllGt06
  TargetOf <- AllForD1
  Oversized = {}
  InitialDevices = {d1}  InitialStatus = {}  InitialRows = {}
  MaxData = 1  MaxBatch = 1  Chunk <- Logins
  MaxTicks = 0  MaxCrashes = 0  MaxChanges = 0
  EarlyConnections = FALSE
INVARIANTS NoGhostSession
CHECK_DEADLOCK FALSE
