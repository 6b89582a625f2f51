\* A crash or an outage at any point, and devices that reconnect during the startup sync.
SPECIFICATION Spec
CONSTANTS
  s1 = s1  s2 = s2  d1 = d1  d2 = d2  a1 = a1  a2 = a2  None = None
  Socket = {s1, s2}
  ConnectionId = {a1, a2}
  Device = {d1}
  Command = {1, 2}
  ConnectionIdOf <- OwnId
  ProtocolOf <- AllGt06
  TargetOf <- AllForD1
  Oversized = {2}
  InitialDevices = {d1}  InitialStatus = {d1}  InitialRows = {1}
  MaxData = 2  MaxBatch = 1  Chunk <- Logins
  MaxTicks = 0  MaxCrashes = 1  MaxChanges = 0
  EarlyConnections = TRUE
INVARIANTS ConnectionsAreLive ListsAreQueues
PROPERTIES ImplementsDelivery ListedStays
SYMMETRY SocketsAlike
CHECK_DEADLOCK FALSE
