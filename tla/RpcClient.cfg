\* Two callers, two calls each, a pool of one connection living two ticks
\* on a clock of three; tcp with and without a Recv deadline, and grpc; dials
\* and sends may fail and the tcp server may close idle connections.
CONSTANTS
  p1 = p1
  p2 = p2
  k1 = k1
  k2 = k2
  k3 = k3
  k4 = k4
  NoConn = NoConn
  Callers <- MCCallers
  Conns <- MCConns
  PoolSize = 1
  PoolTTL = 2
  MaxTime = 3
  MaxCalls = 2
  RecvTimeouts = {TRUE, FALSE}
  NetMayFail = TRUE
  ServerMayTimeOut = TRUE
  Transports = {"tcp", "grpc"}
SPECIFICATION Spec
INVARIANT TypeOK
INVARIANT OwnResponse
INVARIANT ExclusiveUse
PROPERTY PoolSpec
\* Callers exhaust their bounded calls and the clock its bound.
CHECK_DEADLOCK FALSE
