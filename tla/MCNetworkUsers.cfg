SPECIFICATION FairSpec
CONSTANTS
  c1 = c1
  c2 = c2
  c3 = c3
  d1 = d1
  d2 = d2
  s1 = s1
  s2 = s2
  s3 = s3
  Listener = Listener
  NoHandle = NoHandle
  Nobody = Nobody
  Clients <- MCClients
  Handlers <- MCHandlers
  Handles <- MCHandles
  MaxAddresses = 2
INVARIANTS
  TypeOK
  HandlesExact
  CountsUsers
PROPERTIES
  EveryAttemptReturns
\* A client process ends, and a server waits in accept.
CHECK_DEADLOCK FALSE
