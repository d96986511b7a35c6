---------------------------- MODULE RegistryCodec ----------------------------
(***************************************************************************)
(* The registry key of a provider (src/registry/service.go): Format turns  *)
(* a Service into scheme://address/name?query, Parse reads it back, and    *)
(* the etcd registry stores one key per registered Service                 *)
(* (src/registry/etcd/etcd.go) under /dodo/<name>/<side>s/: Register     *)
(* sets the key, Deregister deletes it and leaves the directories, and    *)
(* ListServices and GetService flatten a directory tree (get), drop nodes *)
(* whose path is not five segments long, and parse the last segment.    *)
(*                                                                         *)
(* Field values are model values free of the characters the URL syntax    *)
(* gives a meaning to ('&', '=', '+', '%', '/', ','), so QueryEscape       *)
(* followed by QueryUnescape and url.Parse gives back scheme, host, path  *)
(* and the query pairs unchanged, and strings.Split undoes strings.Join.  *)
(* The query is kept as the sequence of its key=value pairs, which is     *)
(* what ParseQuery sees.                                                   *)
(***************************************************************************)
EXTENDS Naturals, Sequences, FiniteSets

CONSTANTS
  Protocol, Address, Version, Transport, Side,  \* one value each
  Names,          \* service names
  FuncLists,      \* possible Funcs (non-empty sequences)
  CodecLists,     \* possible Codecs (non-empty sequences)
  Timestamps,     \* possible Timestamps (non-zero)
  LabelKeys,      \* the label keys providers may use, in sorted order
  LabelValues,    \* label values
  MaxRegistered,  \* bound on the keys held by the registry
  Addrs,          \* registry addresses (Options.Addrs entries), as token sequences
  SecureSettings  \* the values of Options.Secure explored

\* The query keys Format writes before the labels (line 116).
Reserved == {"version", "funcs", "codecs", "transport", "side", "tls", "timestamp"}

LabelMaps ==
  UNION {[K -> LabelValues] : K \in SUBSET {LabelKeys[i] : i \in DOMAIN LabelKeys}}

\* Services a provider registers (getServices, provider.go lines 37-71):
\* they pass every check of Parse.
Services ==
  [protocol : {Protocol}, address : {Address}, name : Names, version : {Version},
   funcs : FuncLists, codecs : CodecLists, transport : {Transport}, side : {Side},
   tls : BOOLEAN, timestamp : Timestamps, labels : LabelMaps]

VARIABLES
  store,       \* the etcd nodes, as paths (sequences of segments) below the root
  registered,  \* the Services registered and not deregistered
  options,     \* the registry.Options NewRegistry was given: Addrs, Secure, TLSConfig
  endpoints    \* the Endpoints of the etcd client configure built

vars == <<store, registered, options, endpoints>>

Prefix == <<"dodo">>
-----------------------------------------------------------------------------
(* Format and Parse *)

\* The label keys of s in sorted order (lines 128-132).
SortedLabelKeys(s) == SelectSeq(LabelKeys, LAMBDA k : k \in DOMAIN s.labels)

\* Format (lines 115-138): the fixed fields in a fixed order, %t for TLS,
\* then one pair per label in sorted key order.
Format(s) ==
  LET fixed == << <<"version", s.version>>, <<"funcs", s.funcs>>,
                  <<"codecs", s.codecs>>, <<"transport", s.transport>>,
                  <<"side", s.side>>, <<"tls", IF s.tls THEN "true" ELSE "false">>,
                  <<"timestamp", s.timestamp>> >>
      keys == SortedLabelKeys(s)
      labels == [i \in DOMAIN keys |-> <<keys[i], s.labels[keys[i]]>>]
  IN [scheme |-> s.protocol, host |-> s.address, path |-> s.name,
      query |-> fixed \o labels]

\* url.ParseQuery then values[k][0]: the first value given for a key.
QueryKeys(q) == {q[i][1] : i \in DOMAIN q}
First(q, k) == q[CHOOSE i \in DOMAIN q : q[i][1] = k /\ \A j \in 1..(i - 1) : q[j][1] # k][2]

\* Parse (lines 28-112): each query key sets its field, any other key is a
\* label; the checks that the fields are non-empty all pass for keys that
\* Format wrote.
Parse(key) ==
  LET q == key.query IN
  [protocol |-> key.scheme, address |-> key.host, name |-> key.path,
   version |-> First(q, "version"), funcs |-> First(q, "funcs"),
   codecs |-> First(q, "codecs"), transport |-> First(q, "transport"),
   side |-> First(q, "side"), tls |-> First(q, "tls") = "true",
   timestamp |-> First(q, "timestamp"),
   labels |-> [k \in QueryKeys(q) \ Reserved |-> First(q, k)]]

\* Equal (lines 141-146): services are the same when their keys are.
Equal(s1, s2) == Format(s1) = Format(s2)
-----------------------------------------------------------------------------
(* The etcd registry *)


(* The etcd client's endpoints.  An address is a sequence of tokens with  *)
(* its scheme, if any, first; "http://" occurs nowhere else in it, so     *)
(* strings.Replace(addr, "http://", "https://", 1) rewrites that token.  *)

AddrLists == UNION {[1..n -> Addrs] : n \in 0..2}

DefaultEndpoint(secure, tlsConfig) ==
  <<IF secure \/ tlsConfig THEN "https://" ELSE "http://", "127.0.0.1:2379">>

HasScheme(a, sch) == a # <<>> /\ a[1] = sch

\* Variant with a plausible bug: the strings.Replace of http:// is left out,
\* so an http:// address only gets https:// put in front of it.
ConfigureNoReplace(addrs, secure, tlsConfig) ==
  LET withHttps(a) == IF HasScheme(a, "https://") THEN a ELSE <<"https://">> \o a
      conv(a) == IF secure THEN withHttps(a) ELSE a
      given == SelectSeq(addrs, LAMBDA a : a # <<>>)
  IN IF given # <<>> THEN [i \in DOMAIN given |-> conv(given[i])]
                     ELSE <<DefaultEndpoint(secure, tlsConfig)>>

\* configure (etcd.go lines 37-110): the default endpoint is https when
\* Secure or a TLS config is set; empty addresses are skipped; with Secure
\* an http:// is replaced by https:// and an address without https:// gets
\* it in front; the given addresses, if any remain, replace the default.
Configure(addrs, secure, tlsConfig) ==
  LET upgrade(a) == IF HasScheme(a, "http://") THEN <<"https://">> \o Tail(a) ELSE a
      withHttps(a) == IF HasScheme(a, "https://") THEN a ELSE <<"https://">> \o a
      conv(a) == IF secure THEN withHttps(upgrade(a)) ELSE a
      given == SelectSeq(addrs, LAMBDA a : a # <<>>)
  IN IF given # <<>> THEN [i \in DOMAIN given |-> conv(given[i])]
                     ELSE <<DefaultEndpoint(secure, tlsConfig)>>

Options == [addrs : AddrLists, secure : SecureSettings, tlsConfig : BOOLEAN]

TypeOK == registered \subseteq Services /\ Cardinality(store) <= 1 + 2 * Cardinality(Names) + MaxRegistered
          /\ options \in Options

\* NewRegistry (etcd.go lines 29-35) runs configure once, before any call.
Init ==
  /\ store = {} /\ registered = {}
  /\ options \in Options
  /\ endpoints = Configure(options.addrs, options.secure, options.tlsConfig)

\* The key of s (lines 128 and 145): path.Join(prefix, s.Name, s.Side+"s",
\* Format(s)); QueryEscape leaves no '/' in the last segment.  Side is
\* "provider" for every service a provider registers.
KeyOf(s) == Prefix \o <<s.name, "providers", Format(s)>>

\* etcd's Set creates the directories above a key.
WithParents(p) == {SubSeq(p, 1, i) : i \in 1..Len(p)}

\* Register (etcd.go lines 136-152): Set of the key.
Register(s) ==
  /\ s \notin registered
  /\ Cardinality(registered) < MaxRegistered
  /\ store' = store \cup WithParents(KeyOf(s))
  /\ registered' = registered \cup {s}
  /\ UNCHANGED <<options, endpoints>>

\* Deregister (etcd.go lines 124-134): Delete of the key; the directories
\* above it stay, possibly empty.
Deregister(s) ==
  /\ s \in registered
  /\ store' = store \ {KeyOf(s)}
  /\ registered' = registered \ {s}
  /\ UNCHANGED <<options, endpoints>>

Children(n) == {m \in store : Len(m) = Len(n) + 1 /\ SubSeq(m, 1, Len(n)) = n}

\* Variant with a plausible bug: get lists the children of a node instead
\* of descending to the leaves.
GetOneLevel(n) == IF Children(n) = {} THEN {n} ELSE Children(n)

\* get (lines 186-195): the leaves below n, or n itself when it has no
\* children (an empty directory included).
RECURSIVE Get(_)
Get(n) == IF Children(n) = {} THEN {n} ELSE UNION {Get(m) : m \in Children(n)}

\* The loop of ListServices and GetService (lines 169-181, 212-225): a node
\* whose key does not split into five parts (an empty directory) is
\* skipped, the others are parsed; Parse accepts every key Format wrote.
ParseNodes(nodes) == {Parse(n[4]) : n \in {m \in nodes : Len(m) = 4}}

\* ListServices (lines 197-228): a recursive Get of the prefix; a missing
\* prefix ("100: Key not found") is an empty list.
ListServices == IF Prefix \in store THEN ParseNodes(Get(Prefix)) ELSE {}

\* GetService (lines 154-184) of servicePath(name) (lines 112-114); a
\* missing directory is ErrNotFound.
GetService(n) ==
  LET dir == Prefix \o <<n, "providers">> IN
  IF dir \in store THEN [found |-> TRUE, services |-> ParseNodes(Get(dir))]
                   ELSE [found |-> FALSE, services |-> {}]

Next == \E s \in Services : Register(s) \/ Deregister(s)
Spec == Init /\ [][Next]_vars
-----------------------------------------------------------------------------
(* Properties *)

\* What consumers discover, by ListServices (Init and the refresh ticker)
\* or by GetService (the watch), is exactly what providers registered and
\* did not deregister: Parse(Format(s)) = s (the spec's round-trip law),
\* Format tells registered services apart, so Deregister of one never
\* deletes another's key, and the directories Deregister leaves behind
\* are never taken for services.
DiscoveredIsRegistered ==
  /\ ListServices = registered
  /\ \A n \in Names : GetService(n).services = {s \in registered : s.name = n}

\* configure with Secure set (etcd.go lines 37-110) hands the etcd client,
\* in the order given, one endpoint per non-empty address: the same host
\* with exactly one scheme, https://, whether the address carried http://,
\* https:// or none; with no usable address, the https default, with or
\* without a TLS config of its own.  An http:// left in behind the https://
\* would be a host name no client can reach.
SecureEndpoints ==
  LET host(a) == IF HasScheme(a, "http://") \/ HasScheme(a, "https://")
                 THEN Tail(a) ELSE a
      given == SelectSeq(options.addrs, LAMBDA a : a # <<>>)
  IN options.secure =>
       endpoints = IF given = <<>> THEN <<<<"https://", "127.0.0.1:2379">>>>
                   ELSE [i \in DOMAIN given |-> <<"https://">> \o host(given[i])]
====
