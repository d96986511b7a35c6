\* Fault-free environment: Listen succeeds and clients never hang up.
CONSTANTS
  h1 = h1
  h2 = h2
  c1 = c1
  c2 = c2
  Holders <- MCHolders
  Conns <- MCConns
  CounterBits = 3
  MaxCalls = 3
  MaxRequests = 2
  Wait = TRUE
  ListenMayFail = FALSE
  ClientMayHangUp = FALSE
  RegisterFirst = TRUE
SPECIFICATION Spec
INVARIANT WaitGroupMatchesInFlight
PROPERTY ServerSpec
PROPERTY StopReturns
\* Every holder eventually exhausts its bounded calls and every client its
\* bounded requests: the program has nothing left to do.
CHECK_DEADLOCK FALSE
