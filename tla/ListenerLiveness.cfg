\* Progress under the fairness of the code and its services.
SPECIFICATION FairSpec
CONSTANTS
  s1 = s1  s2 = s2  d1 = d1  d2 = d2  a1 = a1  a2 = a2  None = None
  Socket = {s1}
  ConnectionId = {a1, a2}
  Device = {d1}
  Command = {1}
  ConnectionIdOf <- OwnId
  ProtocolOf <- AllGt06
  TargetOf <- AllForD1
  Oversized = {}
  InitialDevices = {d1}  InitialStatus = {d1}  InitialRows = {1}
  MaxData = 2  MaxBatch = 3  Chunk <- Sessions
  MaxTicks = 0  MaxCrashes = 1  MaxChanges = 0
  EarlyConnections = TRUE
INVARIANTS ForwardedInOrder
PROPERTIES SessionsEnd ClosesEnd StartupCompletes
CHECK_DEADLOCK FALSE
