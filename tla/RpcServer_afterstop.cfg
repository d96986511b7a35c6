CONSTANTS
  h1 = h1
  h2 = h2
  c1 = c1
  c2 = c2
  Holders <- MCHolders
  Conns <- MCConns
  CounterBits = 3
  MaxCalls = 3
  MaxRequests = 2
  Wait = TRUE
  ListenMayFail = FALSE
  ClientMayHangUp = FALSE
  RegisterFirst = TRUE
SPECIFICATION Spec
\* With Wait set, no request is dispatched once Stop has returned.
INVARIANT NoDispatchAfterStop
CHECK_DEADLOCK FALSE
