\* Up to two client adapters with distinct protocols, up to two providers
\* for the name, calls through discovery only.
CONSTANTS
  rpc = rpc
  rest = rest
  tcp = tcp
  grpc = grpc
  json = json
  pb = pb
  empty = empty
  Protocols <- MCProtocols
  Transports <- MCTransports
  Codecs <- MCCodecs
  NoProtocol = empty
  NoTransport = empty
  MaxClients = 2
  MaxProviders = 2
  DistinctProtocols = TRUE
  AllowOverride = FALSE
  Selectors = {"cache", "simple"}
  RegistryMayFail = TRUE
SPECIFICATION Spec
INVARIANT ClientResolved
INVARIANT CompatibleClient
