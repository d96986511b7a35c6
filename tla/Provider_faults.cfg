\* Three servers that may fail to start, and etcd calls that may fail; the
\* keepalive interval is 1 or 2 ticks and the TTL 3 or 4, so a lease may outlive
\* several refreshes or just one.
CONSTANTS
  s1 = s1
  s2 = s2
  s3 = s3
  Servers <- MCServers3
  Intervals = {1, 2}
  TTLs = {3, 4}
  InitMayFail = TRUE
  StartMayFail = TRUE
  RegistryMayFail = TRUE
SPECIFICATION Spec
INVARIANT TypeOK
INVARIANT KeptAliveWhileRunning
PROPERTY EventuallyDeregistered
