CONSTANTS
  h1 = h1
  h2 = h2
  c1 = c1
  c2 = c2
  Holders <- MCHolders
  Conns <- MCConns
  CounterBits = 3
  MaxCalls = 3
  MaxRequests = 2
  Wait = TRUE
  ListenMayFail = FALSE
  ClientMayHangUp = TRUE
  RegisterFirst = TRUE
SPECIFICATION Spec
\* A client hanging up mid-request must not unbalance the WaitGroup.
INVARIANT WaitGroupMatchesInFlight
CHECK_DEADLOCK FALSE
