\* The same process: does etcd only point at servers that serve?
CONSTANTS
  s1 = s1
  s2 = s2
  s3 = s3
  Servers <- MCServers
  Intervals = {1}
  TTLs = {3}
  InitMayFail = TRUE
  StartMayFail = FALSE
  RegistryMayFail = FALSE
SPECIFICATION Spec
INVARIANT ServedWhileRegistered
