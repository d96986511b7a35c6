CONSTANTS
  h1 = h1
  h2 = h2
  c1 = c1
  c2 = c2
  Holders <- MCHolders
  Conns <- MCConns
  CounterBits = 2
  MaxCalls = 2
  MaxRequests = 2
  Wait = TRUE
  ListenMayFail = FALSE
  ClientMayHangUp = FALSE
  RegisterFirst = TRUE
SPECIFICATION Spec
\* Four Starts wrap a 2-bit counter as 2^32 Starts wrap the uint32 one.
PROPERTY ServerSpec
CHECK_DEADLOCK FALSE
