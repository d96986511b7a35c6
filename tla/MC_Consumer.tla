----------------------------- MODULE MC_Consumer -----------------------------
EXTENDS Consumer, TLC

CONSTANTS rpc, rest, tcp, grpc, json, pb, empty

MCProtocols == {rpc, rest}
MCTransports == {tcp, grpc}
MCCodecs == {json, pb}
=============================================================================
