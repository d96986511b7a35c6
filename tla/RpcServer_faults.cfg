CONSTANTS
  h1 = h1
  h2 = h2
  c1 = c1
  c2 = c2
  Holders <- MCHolders
  Conns <- MCConns
  CounterBits = 3
  MaxCalls = 3
  MaxRequests = 2
  Wait = TRUE
  ListenMayFail = TRUE
  ClientMayHangUp = TRUE
  RegisterFirst = TRUE
SPECIFICATION Spec
\* Listen may fail and clients may hang up mid-request; the lifecycle
\* promise must still hold.
INVARIANT TypeOK
PROPERTY ServerSpec
\* Holders exhaust their bounded calls, clients their requests.
CHECK_DEADLOCK FALSE
