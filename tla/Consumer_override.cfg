\* One adapter per protocol; calls may pass WithAddress.
CONSTANTS
  rpc = rpc
  rest = rest
  tcp = tcp
  grpc = grpc
  json = json
  pb = pb
  empty = empty
  Protocols <- MCProtocols
  Transports <- MCTransports
  Codecs <- MCCodecs
  NoProtocol = empty
  NoTransport = empty
  MaxClients = 2
  MaxProviders = 2
  DistinctProtocols = TRUE
  AllowOverride = TRUE
  Selectors = {"cache", "simple"}
  RegistryMayFail = TRUE
SPECIFICATION Spec
INVARIANT ClientResolved
