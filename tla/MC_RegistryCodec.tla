--------------------------- MODULE MC_RegistryCodec ---------------------------
EXTENDS RegistryCodec

CONSTANTS rpc, addr, hello, world, v010, grpc, provider, f1, f2, json, pb, red, blue

MCFuncLists == {<<f1>>, <<f1, f2>>}
MCCodecLists == {<<json>>, <<json, pb>>}
MCLabelValues == {red, blue}
MCNames == {hello, world}
MCLabelKeys == <<"env", "zone">>
MCReservedLabelKeys == <<"env", "version">>
\* An empty address, a bare host, and the host with either scheme.
MCAddrs == {<<>>, <<"etcd:2379">>, <<"http://", "etcd:2379">>, <<"https://", "etcd:2379">>}
=============================================================================
