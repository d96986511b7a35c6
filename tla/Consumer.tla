------------------------------- MODULE Consumer -------------------------------
(***************************************************************************)
(* Consumer.Call (src/consumer/consumer.go) over the selector's filters     *)
(* (src/selector/filter.go) and Select (src/selector/cache/selector.go):   *)
(* from the configured client adapters and the providers registered for   *)
(* one service name to the client, provider and codec a call is made with. *)
(*                                                                         *)
(* Provider records are abstracted to the fields the choice reads:        *)
(* protocol, transport, codecs and the TLS flag.  A client adapter is its  *)
(* String() (the protocol), its transport and its codecs.  Which codec of *)
(* an intersection is used is left open (util.ArrayIntersectString is not *)
(* under src/); only whether the intersection is empty matters.           *)
(***************************************************************************)
EXTENDS Naturals, Sequences, FiniteSets

CONSTANTS
  Protocols,      \* protocols of servers and client adapters ("rpc", "rest")
  Transports,     \* transport names ("tcp", "grpc")
  Codecs,         \* codec names ("json", ...)
  NoProtocol,     \* the empty string: the Protocol of an address override
  NoTransport,    \* the empty string
  MaxClients,     \* bound on the length of c.opts.Clients
  MaxProviders,   \* bound on the providers registered for the name
  DistinctProtocols, \* the configured clients have pairwise distinct protocols
  Selectors,      \* the selectors c.opts.Selector may be: "cache", "simple"
  RegistryMayFail,\* the registry's GetService may fail (the simple selector asks it)
  AllowOverride   \* calls may pass WithAddress

ASSUME /\ NoProtocol \notin Protocols /\ NoTransport \notin Transports
       /\ MaxClients \in Nat \ {0} /\ MaxProviders \in Nat
       /\ Selectors \subseteq {"cache", "simple"} /\ RegistryMayFail \in BOOLEAN

Adapter == [protocol : Protocols, transport : Transports, codecs : SUBSET Codecs \ {{}}]

\* Records that registry.Parse accepts (codecs non-empty).
Provider == [protocol : Protocols, transport : Transports,
             codecs : SUBSET Codecs \ {{}}, tls : BOOLEAN]

NoClient == [protocol |-> NoProtocol, transport |-> NoTransport, codecs |-> {}]

\* The Service built for an address override (consumer.go lines 65-67).
Override == [protocol |-> NoProtocol, transport |-> NoTransport, codecs |-> {}, tls |-> FALSE]

Kinds == {"none", "selectErr", "unavailable", "nilClient", "noCodec", "call"}

VARIABLES
  adapters,    \* c.opts.Clients, in order
  selector,    \* c.opts.Selector: "cache" or "simple"
  registered,  \* the providers registered for the name (and held by the cache)
  clients,     \* c.clients: protocol -> adapter, NoClient for a missing key
  ready,       \* Consumer.Init has run
  result       \* the outcome of the last Call

vars == <<adapters, selector, registered, clients, ready, result>>

None == [kind |-> "none", client |-> NoClient, service |-> Override]

TypeOK ==
  /\ adapters \in Seq(Adapter) /\ Len(adapters) \in 1..MaxClients
  /\ selector \in Selectors
  /\ registered \subseteq Provider
  /\ clients \in [Protocols \cup {NoProtocol} -> Adapter \cup {NoClient}]
  /\ ready \in BOOLEAN
  /\ result.kind \in Kinds

\* The sets of at most k providers.
RECURSIVE ProviderSets(_)
ProviderSets(k) ==
  IF k = 0 THEN {{}}
  ELSE ProviderSets(k - 1) \cup {P \cup {q} : P \in ProviderSets(k - 1), q \in Provider}

AdapterSeqs ==
  UNION {[1..n -> Adapter] : n \in 1..MaxClients}

Init ==
  /\ adapters \in {s \in AdapterSeqs :
                     DistinctProtocols =>
                       \A i, j \in DOMAIN s : i # j => s[i].protocol # s[j].protocol}
  /\ selector \in Selectors
  /\ registered \in ProviderSets(MaxProviders)
  /\ clients = [p \in Protocols \cup {NoProtocol} |-> NoClient]
  /\ ready = FALSE
  /\ result = None
-----------------------------------------------------------------------------
(* Filters and selection *)

\* FilterTLS (filter.go lines 44-56).
FilterTLS(svcs) == {s \in svcs : s.tls}

\* The three checks FilterClient applies to one adapter (lines 74-83).
Serves(cli, s) ==
  /\ s.protocol = cli.protocol
  /\ s.transport = cli.transport
  /\ s.codecs \cap cli.codecs # {}

\* Variants with plausible bugs: the protocol check (FilterClientNoProtocol)
\* or the transport check (FilterClientNoTransport) is missing.
FilterClientNoProtocol(clis, svcs) ==
  {s \in svcs : \E i \in DOMAIN clis : /\ s.transport = clis[i].transport
                                     /\ s.codecs \cap clis[i].codecs # {}}

FilterClientNoTransport(clis, svcs) ==
  {s \in svcs : \E i \in DOMAIN clis : /\ s.protocol = clis[i].protocol
                                     /\ s.codecs \cap clis[i].codecs # {}}

\* FilterClient (lines 58-92): a provider is kept when some configured
\* adapter serves it; duplicates are dropped (registry.Contains).
FilterClient(clis, svcs) ==
  {s \in svcs : \E i \in DOMAIN clis : Serves(clis[i], s)}

\* Select (selector.go lines 257-284) with the filters Call builds (lines
\* 57-62): a missing or empty list, or nothing left after the filters, is
\* ErrNoneAvailable; Random picks any survivor.
Candidates(tls) ==
  LET afterTLS == IF tls THEN FilterTLS(registered) ELSE registered
  IN FilterClient(adapters, afterTLS)
-----------------------------------------------------------------------------
(* Consumer.Init and Consumer.Call *)

\* Init (lines 31-49): c.clients[cli.String()] = cli in order, so a later
\* adapter with the same protocol replaces an earlier one.
ClientsByProtocol(clis) ==
  [p \in Protocols \cup {NoProtocol} |->
     IF \E i \in DOMAIN clis : clis[i].protocol = p
       THEN clis[CHOOSE i \in DOMAIN clis :
                   /\ clis[i].protocol = p
                   /\ \A j \in DOMAIN clis : clis[j].protocol = p => j <= i]
       ELSE NoClient]

InitConsumer ==
  /\ ~ready
  /\ clients' = ClientsByProtocol(adapters)
  /\ ready' = TRUE
  /\ UNCHANGED <<adapters, selector, registered, result>>

\* The outcome of calling service s: the adapter looked up by protocol
\* (line 77; a missing key is a nil client whose Options() panics at line
\* 80), then the codec intersection indexed with [0] (line 90, a panic
\* when it is empty), then cli.Call (lines 91-99).
Outcome(s) ==
  LET cli == clients[s.protocol] IN
  CASE cli = NoClient                 -> [None EXCEPT !.kind = "nilClient", !.service = s]
    [] cli.codecs \cap s.codecs = {}  -> [None EXCEPT !.kind = "noCodec", !.client = cli,
                                                      !.service = s]
    [] OTHER                          -> [kind |-> "call", client |-> cli, service |-> s]

\* The simple selector's Select (simple/selector.go lines 37-64) asks the
\* registry's GetService on every call and returns its error; the cache
\* selector reads its map (Candidates).  Either then applies the filters,
\* and an empty result is ErrNoneAvailable.
SelectFails == selector = "simple" /\ RegistryMayFail

\* Call (lines 51-129) with or without WithTLSConfig, and with or without
\* WithAddress (which skips discovery and the filters).  A Select error is
\* returned (lines 69-72).
Call(tls, override) ==
  /\ ready
  /\ override => AllowOverride
  /\ IF override
       THEN result' = Outcome(Override)
       ELSE \/ SelectFails /\ result' = [None EXCEPT !.kind = "selectErr"]
            \/ Candidates(tls) = {} /\ result' = [None EXCEPT !.kind = "unavailable"]
            \/ \E s \in Candidates(tls) : result' = Outcome(s)
  /\ UNCHANGED <<adapters, selector, registered, clients, ready>>

Next ==
  \/ InitConsumer
  \/ \E tls, override \in BOOLEAN : Call(tls, override)

Spec == Init /\ [][Next]_vars
-----------------------------------------------------------------------------
(* Properties *)

\* Every call reaches a client: the adapter Call uses is one registered
\* for the provider's protocol, never the nil of a missing map key.
ClientResolved == result.kind # "nilClient"

\* The adapter a call is made with can talk to the provider it was made
\* to: same protocol and transport and a codec in common.  FilterClient
\* checks this against some adapter, Call uses the one stored under the
\* protocol; the spec asks for an explicit error, never a panic, when no
\* codec is shared.
CompatibleClient ==
  /\ result.kind # "noCodec"
  /\ result.kind = "call" => Serves(result.client, result.service)

=============================================================================
