----------------------------- MODULE MC_Provider -----------------------------
EXTENDS Provider, TLC

CONSTANTS s1, s2, s3

\* Two servers, as in the stop-race run.
MCServers == {s1, s2}

\* Three servers: a failure of the second Start finds one server serving and
\* one not yet started, and the keepalive loop refreshes three leases in turn.
MCServers3 == {s1, s2, s3}
=============================================================================
