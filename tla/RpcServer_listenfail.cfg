CONSTANTS
  h1 = h1
  h2 = h2
  c1 = c1
  c2 = c2
  Holders <- MCHolders
  Conns <- MCConns
  CounterBits = 3
  MaxCalls = 3
  MaxRequests = 2
  Wait = TRUE
  ListenMayFail = TRUE
  ClientMayHangUp = FALSE
  RegisterFirst = TRUE
SPECIFICATION Spec
\* A Stop after a Start whose Listen failed must still return.
PROPERTY StopReturns
CHECK_DEADLOCK FALSE
