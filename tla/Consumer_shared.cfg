\* Adapters may share a protocol (two rpc clients over different
\* transports or codecs); calls through discovery only.
CONSTANTS
  rpc = rpc
  rest = rest
  tcp = tcp
  grpc = grpc
  json = json
  pb = pb
  empty = empty
  Protocols <- MCProtocols
  Transports <- MCTransports
  Codecs <- MCCodecs
  NoProtocol = empty
  NoTransport = empty
  MaxClients = 2
  MaxProviders = 2
  DistinctProtocols = FALSE
  AllowOverride = FALSE
  Selectors = {"cache", "simple"}
  RegistryMayFail = TRUE
SPECIFICATION Spec
INVARIANT CompatibleClient
