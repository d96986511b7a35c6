# TLA+ models of dodo

dodo (`src/`) is a small Go RPC framework. It has five parts:

- A **provider** process (`provider/provider.go`) starts one or more **servers** (`server/rpc/server.go`). It registers one registry entry per server in **etcd** (`registry/etcd`), and re-registers them on a ticker (`registerLoop`). On SIGTERM it deregisters them and stops the servers.
- A **consumer** (`consumer/consumer.go`) calls a service by name. It picks a provider through a **selector**, then makes the call with an **rpc client** (`client/rpc/client.go`).
  - The client takes a connection from a per-address **pool**. It sends one request envelope and reads one response envelope.
  - The selector is `selector/cache`. It keeps a map from service name to provider records and feeds it from three places: a full `ListServices` at Init and on a 10 s ticker, an etcd watch that re-reads one service per event, and a snapshot directory of YAML files. It writes the snapshot after every update and reads it back when the registry is unreachable at Init.
  - Filters (`selector/filter.go`) keep the providers a configured client can talk to: same protocol and transport, and a codec in common.
- On the server side, `Start` and `Stop` are reference counted with a `uint32`.
  - The first `Start` listens and spawns two goroutines. The accept loop spawns one goroutine per connection. The drain goroutine waits on an unbuffered `exit` channel.
  - The `Stop` that brings the count to zero hands a reply channel to the drain goroutine, holding `s.Lock`. The drain goroutine optionally `wg.Wait()`s for requests in flight, closes the listener, and replies.
  - Each connection goroutine loops: `Recv`, `wg.Add(1)`, dispatch, `Send`, `wg.Done()`.
- The wire protocol (`client/rpc/protocol.go`) carries no request id. A response is matched to its request only because a connection carries one call at a time.
- Registry entries are URLs built by `registry.Format` and read back by `registry.Parse` (`registry/service.go`).

## Modules

| Module | Models | State ↔ code |
|---|---|---|
| `ServerLifecycle` | What the comment at `server.go:20-27` promises. | `refs` is the number of unmatched Starts; `phase` is new, serving or stopped. |
| `ConnPool` | What the spec (4.1) promises of the client's pool: reuse without reuse-after-error. | `status` of each connection (unused, held, pooled, closed); `holder` and `outcome` of each call. `Get` may close kept connections (expiry) and takes an unused or kept one, or fails; `Put` closes the connection, or keeps it only after a call without a transport error and while fewer than PoolSize are kept. |
| `RpcServer` | `Server.Start`, `Server.Stop`, the drain goroutine, `accept`, and the tcp listener's goroutine per connection, `Register`, and the tcp `Listen` and socket `Send` beneath them. | See the list below the table. |
| `RpcClient` | `Client.Call` with several callers on one address, the pool (`getConn`, `release`, TTL, PoolSize), and the transport under it, tcp or grpc: `Dial`, the tcp client's `Send`/`Recv` deadlines, and the tcp server socket's `Recv` deadline closing an idle connection. grpc's client and server socket set no deadline. | See the list below the table. |
| `SelectorCache` | `cache.Selector` Init (the config directory through `readFromLocal`, else `readFromRemote`), the ticker goroutine, the watch goroutine (including its restarts), `writeToCache`, the fallback read of the snapshot, and a crash of the consumer process. | See the list below the table. |
| `Provider` | `Provider.Init` (invoker, servers, registry), then `Provider.Run`: `start`, `register`, `registerLoop`, the signal, `deregister`, `stop`, and etcd's TTL expiry. | See the list below the table. |
| `Consumer` | `Consumer.Init` and `Consumer.Call`, with `FilterTLS`, `FilterClient` and `Select` as operators, over either selector: the cache selector's map or the simple selector, which asks the registry on every call and returns its error. | `selector` is `c.opts.Selector`; `adapters` is `c.opts.Clients`; `clients` is the map `Init` builds; `result` is what the last `Call` did. |
| `RegistryCodec` | `registry.Format`, `Parse` and `Equal`, the etcd keys `Register` and `Deregister` write and delete, and the endpoints `configure` gives the etcd client. | `store` is the set of keys; `registered` the services providers registered; `options` the Addrs, Secure and TLSConfig `NewRegistry` got; `endpoints` what `configure` built from them. |

**RpcServer state:**
- `counter` (mod `2^CounterBits`), `started` and `stopped` are the struct fields.
- `pc[h]` is where each Start/Stop caller is: `idle`, `sendExit` (blocked at line 270) or `awaitClose` (line 271).
- `drain` is the drain goroutine (lines 235-246); `wg` is the WaitGroup counter; `listener` is open or closed.
- `reg` is a `Register` call: `writing` while it holds `s.Lock` and writes `s.invokers`. `srvInit` is an `Init` call: `writing` while it holds `s.Lock` and writes `s.codecs` (and initialises the transport). `raced` records a dispatch that read either map meanwhile. `RegisterFirst` chooses whether the owner calls Init and Register before the first Start or after it: `provider.start` registers after Start, and a second provider sharing the server calls its Init while the first is serving.
- Per connection: `handler` is the accept loop (lines 66-147). `client`, `reqQ`, `rspQ` and `sent` are the peer and the two directions of the socket.

**RpcClient:**
- `pool.go` is not under `src/`, so the pool is modelled from the spec. The map marks it `spec_modelled`.
- `PoolSpec` maps the state onto `ConnPool`: a connection some call holds is held, one in `idle` is pooled, an unused one unused, and any other closed. A call's outcome is its answer, with a foreign response counted as ok (it is no transport error; `OwnResponse` rules it out).
- `idle` is the pool's entries. `cpc` and `held` are each call's position and connection.
- `toServer` and `toClient` are each connection's two directions.
- `conn[k] = "reset"` is a connection whose server end was closed by the server's idle deadline (`ServerIdleClose`); the client does not know until a `Send` fails or a `Recv` reads EOF. This is what a pooled connection becomes when the server's transport has a Timeout.
- `transport` is tcp or grpc, chosen at Init, and `deadline` whether the client sets one (`ClientDeadlines`: never over grpc). The server closes idle connections only over tcp with a Timeout (`IdleDeadline`).
- `answer` is what the call returned: `ok` if it read its own response, `foreign` if it read someone else's. Requests carry a tag in the model only, so this can be stated.

**SelectorCache:**
- `reg` is the registry; `events` is the watch stream.
- `services` is the in-memory map and `disk` is the snapshot directory. `Absent` stands for a missing key or a missing file.
- `rpc` and `rsnap` are the ticker goroutine. `wpc`, `wname` and `wsnap` are the watch goroutine.
- A failed tick changes nothing, so it is a stuttering step. A failed `GetService` drops the event.
- A watch error (which panics on the nil `rsp` at `watcher.go:61` and is recovered) restarts the watch with a new etcd watcher (`NewEtcdWatcher`, from `newEtcdWatcher`): it watches from `AfterIndex: 0`, so pending events are lost.

**Provider:**
- `interval` and `ttl` are `p.opts.RegisterInterval` and `p.opts.RegisterTTL`, fixed at construction and chosen at `Init` from the constants `Intervals` and `TTLs`.
- `ppc` and `pending` are where `Init` and then `Run` are and which servers the current loop has still to visit.
- `server` and `invoker` are each server's state and whether `p.inv` was registered on it.
- `life[s]` is how many time units etcd keeps the entry; 0 means no entry.
- `misses[s]` counts the loop's failed refreshes of `s` since it was last set. It exists only for the keep-alive property.
- `exit`, `lpc`, `lpending`, `timer` and `due` are `p.exit`, the `registerLoop` goroutine, its ticker and the tick buffered in `t.C`.
- Time is counted in units no shorter than one etcd request, so time does not pass inside one loop over the servers.

**RegistryCodec:** `store` is etcd's node tree as a set of paths. `Set` creates the directories above a key, and `Delete` removes only the key. `Get` is the recursive `etcdRegistry.get`: the leaves below a node, or the node itself when it has no children, so an empty directory is returned too. `ListServices` and `GetService` skip nodes that are not five path segments deep and parse the others. Field values are model values without URL metacharacters. On such values escaping and unescaping change nothing, so a key is kept as scheme, host, path and the list of query pairs that `ParseQuery` sees. `Parse` takes the first value of each key, as `values[k][0]` does. `Init` is `NewRegistry`: it picks the options and runs `Configure`, which models `configure` as a whole. An address is a token sequence with its scheme first. Empty addresses are skipped. With Secure, `http://` becomes `https://` and `https://` is added where missing. The default endpoint is https when Secure or a TLS config is set. The http transport and timeouts are left out.

Each `MC_*` module declares model values for the sets, and the cfgs substitute them.

## Runs

| Run | Checks | Result |
|---|---|---|
| `RpcServer_live` | `WaitGroupMatchesInFlight`, `ServerSpec` (refines ServerLifecycle), `StopReturns` | pass |
| `RpcServer_faults` | `TypeOK`, `ServerSpec` with failing Listen and peers hanging up | pass |
| `RpcServer_listenfail` | `StopReturns` | violation: after a failed Listen (`started` already set), the last Stop blocks at `s.exit <- ch` for ever, holding the lock |
| `RpcServer_hangup` | `WaitGroupMatchesInFlight` | violation: a failed `Send` returns before `wg.Done()` (line 143), so a Wait-ing Stop never returns |
| `RpcClient` | `TypeOK`, `OwnResponse`, `ExclusiveUse`, `PoolSpec` (refines ConnPool) | pass: the pool keeps a connection only after a call without a transport error and while it has room, and never uses a closed one. Also, with Recv timeouts, failed dials and sends, and the server closing idle (possibly pooled) connections, a call never reads another call's response, and a connection is never shared or pooled while in use. |
| `SelectorCache` | `TypeOK`, `CacheConverges` | pass: once the registry stops changing, the cache converges to it |
| `SelectorCache_disk` | `DiskConverges` | violation: the file of a service that left the map is never rewritten |
| `RpcServer_register` | `DispatchRaceFree` | violation: `provider.start` calls `Register` after `Start`, so a request dispatched meanwhile reads `s.invokers` (line 90, no lock) while `Register` writes it. That is a Go map data race. `Init` on a shared server races the same way on `s.codecs` (line 102). |
| `Provider_faults` | `TypeOK`, `KeptAliveWhileRunning`, `EventuallyDeregistered` | pass: with failing Starts and etcd calls, a running provider's entry disappears only after all (TTL-1) div Interval refreshes within its TTL failed. A provider whose Run returned, after a clean stop or an error part-way through register or deregister, eventually has no entry left. |
| `Provider_stoprace` | `ServedWhileRegistered` | violation: a tick taken after `p.exit` was closed (select picks at random), or a round already under way, re-registers an entry that `deregister` removed, and etcd advertises a stopped server until the TTL runs out |
| `Consumer` | `ClientResolved`, `CompatibleClient` | pass: with one adapter per protocol, every call through discovery gets an adapter that can talk to the chosen provider |
| `RegistryCodec` | `DiscoveredIsRegistered`, `SecureEndpoints` | pass: a registry configured Secure gives the etcd client, in the order given, one endpoint per non-empty address: the same host with exactly one scheme, https://, whether it carried http://, https:// or none (the `strings.Replace` at `etcd.go:88` must run before the prefix is added), or the https default. Also: with label keys distinct from the fixed query keys, what `ListServices` and `GetService` return is exactly what was registered and not deregistered. That includes after deletes that leave empty directories behind. |

**More configurations.** These cfgs show further disagreements between the code and its comments or the spec. Each one checks one property, and TLC finds it violated:

- **`RpcServer_overflow`** (`ServerSpec`): with a 2-bit counter, Starts wrap it and a Stop truly stops a held server. This is the caveat the comment at `server.go:26-27` states.
- **`RpcServer_afterstop`** (`NoDispatchAfterStop`): Wait covers only the requests counted when the drain ran, so accepted connections keep dispatching after Stop returned.
- **`Consumer_override`** (`ClientResolved`): `WithAddress` builds a Service with an empty Protocol. `c.clients[""]` is nil, and `cli.Options()` panics (`consumer.go:77-80`).
- **`Consumer_shared`** (`CompatibleClient`): two adapters of one protocol. `c.clients` keeps the last one, while `FilterClient` accepted the provider for the other. The codec intersection is then empty, and indexing it with `[0]` panics (`consumer.go:90`).
- **`RegistryCodec_reserved`** (`DiscoveredIsRegistered`): a label named `version`, which `provider.Label` allows, is written after the fixed `version`. `Parse` takes the first value and drops the label, against the spec's `parse(format(s)) = s`.

Run any of them with `tlc -config <cfg> <MC module>`.

**Bounds:**

- **RpcServer:** two Start/Stop callers with 3 calls each. That is enough for start-start-stop-stop orders and for a Stop before any Start. Two connections with 2 requests each give concurrent requests during the drain. The counter is 3 bits (2 bits in the overflow run).
- **RpcClient:**
  - Two callers with 2 calls each; 4 connections, enough for every call to dial a fresh one.
  - PoolSize 1.
  - TTL 2 ticks on a clock of 3 ticks: an entry pooled at 0 expires at 2, one pooled at 1 is still reused at 2 and expires at 3.
  - tcp with the client's Recv deadline both on and off, and grpc (all chosen at Init), with the tcp server's idle deadline on.
- **SelectorCache:**
  - Two names and two instances.
  - Up to 2 registry changes: enough for a register followed by a deregister of the last instance.
  - One consumer crash.
  - The config directory absent, or any content of it (each name's file absent, empty or listing instances).
- **Provider:** `Provider_faults` has three servers, so a Start failing part-way leaves servers serving, unstarted and in between, and each keepalive round refreshes three leases in turn. Its interval is 1 or 2 units and its TTL 3 or 4. Interval 1 and TTL 3 keep the default 20 s / 60 s ratio, so two consecutive rounds can fail before an entry expires; interval 2 with TTL 3 leaves a single round. `KeptAliveWhileRunning` was also checked at 2:5 and 3:4. `Provider_stoprace` keeps two servers at 1:3, where the race already shows.
- **Consumer:** two protocols, two transports and two codecs; up to 2 adapters and every set of up to 2 providers; both selectors.
- **RegistryCodec:**
  - Two service names, two func lists, two codec lists, both TLS values, and two label keys with two values each: 144 services.
  - At most two registered at once, so every pair of services that could collide on a key is tried.
  - Address lists of up to two entries over four shapes (empty, bare, `http://`, `https://`): every mix, including all-empty. The pass run fixes Secure on, with and without a TLS config.

**Fairness.** Only goroutines that can run are assumed to keep running: the drain goroutine, the connection loops, the holder inside Stop's handshake, the selector's ticker and watch loops, and the provider's main goroutine and `registerLoop`. Time passes in the Provider model. Callers of Start/Stop, clients, signals and registry changes owe nothing.

- **The ticker's registry read is strongly fair.** It fires every 10 s for ever, so a registry that is only sometimes unreachable answers one of the ticks.
- **`registerLoop`'s exit case is strongly fair.** Go's `select` picks a ready case at random, so a closed `p.exit` is eventually chosen.
- **RpcClient:** the callers' goroutines and the server's loop on each connection are weakly fair. New calls, the server's idle deadline and the clock are not. No liveness property is checked for the client: `Client.Call` runs straight through, so that a call returns would only restate the server's fairness and the EOF of a closed connection.

Deadlock checking is off where the bounded callers simply run out of steps. Each cfg says so.

## Not modelled

- The rest server is a stub.
- Codecs, gob/gRPC encoding, TLS setup and reflection (`util/struct.go`) are data conversion or I/O.
- The consumer's invoker manager and interceptor chain: the invoker they wrap is not under `src/`.
- URL metacharacters in registry fields (`&`, `+`, `%`), which `QueryEscape` and `ParseQuery` would rewrite.
- `Selector.Close` panics because `s.exit` is nil, and there is no state machine behind it.
- The examples.
- grpc's `Dial`, `Listen` and `Accept` as operations of their own: their outcomes (a connection or listener, or an error) are those of tcp's, and the stream plumbing is I/O.

## Plan

1. `Consumer` with the selector's cache, and a model of the whole call from discovery to response that composes the modules.
2. Label values with URL metacharacters in `RegistryCodec`.
