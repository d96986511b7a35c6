\* Providers with labels whose keys differ from the fixed query keys.
\* The registry is configured Secure, with and without a TLS config.
CONSTANTS
  rpc = rpc  addr = addr  hello = hello  world = world  v010 = v010  grpc = grpc
  provider = provider  f1 = f1  f2 = f2  json = json  pb = pb
  red = red  blue = blue
  Protocol <- rpc  Address <- addr  Names <- MCNames  Version <- v010
  Transport <- grpc  Side <- provider
  FuncLists <- MCFuncLists  CodecLists <- MCCodecLists
  Timestamps = {1}
  LabelKeys <- MCLabelKeys
  LabelValues <- MCLabelValues
  MaxRegistered = 2
  Addrs <- MCAddrs
  SecureSettings = {TRUE}
SPECIFICATION Spec
INVARIANT DiscoveredIsRegistered
INVARIANT SecureEndpoints
