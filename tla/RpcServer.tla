----------------------------- MODULE RpcServer -----------------------------
(***************************************************************************)
(* The rpc Server of src/server/rpc/server.go: the reference-counted       *)
(* Start/Stop lifecycle, the background goroutine that waits for the exit  *)
(* signal, drains in-flight requests through the WaitGroup and closes the  *)
(* listener, and the per-connection loop of accept() that receives a       *)
(* request, dispatches it and sends the response.                          *)
(*                                                                         *)
(* Start and Stop run under s.Lock; Stop keeps the lock while it hands the *)
(* exit channel to the drain goroutine and waits for its answer, so the    *)
(* lock is held exactly while some holder is inside Stop's handshake.     *)
(* The peers of the accepted connections are abstract clients that send   *)
(* one request at a time (the rpc client has one request in flight per    *)
(* connection), read the response, and may hang up at any time.           *)
(***************************************************************************)
EXTENDS Naturals, FiniteSets

CONSTANTS
  Holders,          \* goroutines calling Start and Stop (e.g. Providers sharing the server)
  Conns,            \* client connections the listener may accept
  CounterBits,      \* width of Server.counter (uint32 in the code)
  MaxCalls,         \* bound on the Start/Stop calls of each holder
  MaxRequests,      \* bound on the requests sent on each connection
  Wait,             \* server.Options.Wait: drain in-flight requests before closing
  ListenMayFail,    \* Transport.Listen (or the TLS config) may return an error
  ClientMayHangUp,  \* a client may close its connection with a request in flight
  RegisterFirst     \* Init and Register run before the first Start (FALSE:
                    \* after it, as for a server shared by a second provider,
                    \* and as provider.start registers)

ASSUME /\ Holders # {} /\ CounterBits \in Nat \ {0}
       /\ MaxCalls \in Nat /\ MaxRequests \in Nat
       /\ {Wait, ListenMayFail, ClientMayHangUp, RegisterFirst} \subseteq BOOLEAN

VARIABLES
  counter,    \* Server.counter
  started,    \* Server.started
  stopped,    \* Server.stopped
  pc,         \* holder: "idle", "sendExit" (s.exit <- ch), "awaitClose" (<-ch)
  calls,      \* holder: Start/Stop calls made so far (bounded)
  listener,   \* "none" before a successful Listen, "open", "closed"
  drain,      \* the goroutine of Start lines 235-246
  wg,         \* Server.wg counter
  handler,    \* per connection: the accept() goroutine
  client,     \* per connection: the peer
  reqQ,       \* per connection: a request sent and not yet received
  rspQ,       \* per connection: a response sent and not yet read
  sent,       \* per connection: requests sent so far (bounded)
  stopReturned, \* history: some Stop call has returned the listener's Close result
  reg,        \* the Register call: "none", "writing" (holds s.Lock, line 192), "done"
  srvInit,    \* the Init call: "none", "writing" (holds s.Lock, lines 151-176), "done"
  raced       \* history: a dispatch read s.invokers or s.codecs while it was written

vars == <<counter, started, stopped, pc, calls, listener, drain, wg,
          handler, client, reqQ, rspQ, sent, stopReturned, reg, srvInit, raced>>

CounterMax == 2^CounterBits

DrainStates == {"none", "recvExit", "wait", "waiting", "close", "done"}
HandlerStates == {"none", "recv", "dispatch", "send", "exited"}
ClientStates == {"idle", "waiting", "closed"}

\* Requests taken by a handler and not yet answered.
InFlight == {c \in Conns : handler[c] \in {"dispatch", "send"}}

\* s.Lock is held by the holder inside Stop's handshake, by Register while
\* it writes the invokers map, or by Init while it writes the codecs map.
LockFree == (\A h \in Holders : pc[h] = "idle") /\ reg # "writing" /\ srvInit # "writing"

TypeOK ==
  /\ counter \in 0..(CounterMax - 1)
  /\ started \in BOOLEAN /\ stopped \in BOOLEAN
  /\ pc \in [Holders -> {"idle", "sendExit", "awaitClose"}]
  /\ calls \in [Holders -> 0..MaxCalls]
  /\ listener \in {"none", "open", "closed"}
  /\ drain \in DrainStates
  /\ wg \in Nat
  /\ handler \in [Conns -> HandlerStates]
  /\ client \in [Conns -> ClientStates]
  /\ reqQ \in [Conns -> BOOLEAN] /\ rspQ \in [Conns -> BOOLEAN]
  /\ sent \in [Conns -> 0..MaxRequests]
  /\ stopReturned \in BOOLEAN
  /\ reg \in {"none", "writing", "done"} /\ srvInit \in {"none", "writing", "done"}
  /\ raced \in BOOLEAN

Init ==
  /\ counter = 0 /\ started = FALSE /\ stopped = FALSE
  /\ pc = [h \in Holders |-> "idle"]
  /\ calls = [h \in Holders |-> 0]
  /\ listener = "none"
  /\ drain = "none"
  /\ wg = 0
  /\ handler = [c \in Conns |-> "none"]
  /\ client = [c \in Conns |-> "idle"]
  /\ reqQ = [c \in Conns |-> FALSE]
  /\ rspQ = [c \in Conns |-> FALSE]
  /\ sent = [c \in Conns |-> 0]
  /\ stopReturned = FALSE
  /\ reg = "none" /\ srvInit = "none" /\ raced = FALSE

ConnVars == <<handler, client, reqQ, rspQ, sent>>
-----------------------------------------------------------------------------
(* Lifecycle *)

\* tcp Transport.Listen (transport/tcp/transport.go lines 72-104): util.Listen
\* with a TLS or a plain net.Listen yields an open listener, given the
\* transport's Timeout for its sockets, or an error ("none").
ListenOutcomes == {"open"} \cup (IF ListenMayFail THEN {"none"} ELSE {})

\* Variant with a plausible bug: Start without the `if s.started` check,
\* so a Start after the full stop listens again.
StartNoStartedCheck(h) ==
  LET c == (counter + 1) % CounterMax IN
  /\ LockFree /\ pc[h] = "idle" /\ calls[h] < MaxCalls
  /\ calls' = [calls EXCEPT ![h] = @ + 1]
  /\ counter' = c
  /\ IF c > 1
       THEN UNCHANGED <<started, listener, drain>>
       ELSE /\ started' = TRUE
            /\ \E l \in ListenOutcomes :
                 /\ listener' = l
                 /\ drain' = IF l = "open" THEN "recvExit" ELSE drain
  /\ UNCHANGED <<stopped, pc, wg, ConnVars, stopReturned, reg, srvInit, raced>>

\* Start (lines 197-249): counter += 1 wraps at the counter's width; only the
\* call that sees counter = 1 on a not yet started server listens.  A failed
\* Listen (or TLS config) returns the error with started already TRUE and
\* no drain goroutine.
Start(h) ==
  LET c == (counter + 1) % CounterMax IN
  /\ LockFree /\ pc[h] = "idle" /\ calls[h] < MaxCalls
  /\ calls' = [calls EXCEPT ![h] = @ + 1]
  /\ counter' = c
  /\ IF c > 1 \/ started
       THEN UNCHANGED <<started, listener, drain>>
       ELSE /\ started' = TRUE
            /\ \E l \in ListenOutcomes :
                 /\ listener' = l
                 /\ drain' = IF l = "open" THEN "recvExit" ELSE drain
  /\ UNCHANGED <<stopped, pc, wg, ConnVars, stopReturned, reg, srvInit, raced>>

\* Variant with a plausible bug: Stop without the `if s.counter > 0` guard,
\* so an extra Stop wraps the unsigned counter.
StopNoFloor(h) ==
  LET c == (counter - 1) % CounterMax IN
  /\ LockFree /\ pc[h] = "idle" /\ calls[h] < MaxCalls
  /\ calls' = [calls EXCEPT ![h] = @ + 1]
  /\ IF ~started
       THEN UNCHANGED <<counter, stopped, pc>>
       ELSE /\ counter' = c
            /\ IF c > 0 \/ stopped
                 THEN UNCHANGED <<stopped, pc>>
                 ELSE /\ stopped' = TRUE
                      /\ pc' = [pc EXCEPT ![h] = "sendExit"]
  /\ UNCHANGED <<started, listener, drain, wg, ConnVars, stopReturned, reg, srvInit, raced>>

\* Stop (lines 252-268): a no-op before the first Start; otherwise the
\* counter is decremented but never below zero, and the call that brings
\* it to zero on a server not yet stopped sets stopped and, still holding
\* the lock, goes on to hand the exit channel to the drain goroutine.
Stop(h) ==
  LET c == IF counter > 0 THEN counter - 1 ELSE counter IN
  /\ LockFree /\ pc[h] = "idle" /\ calls[h] < MaxCalls
  /\ calls' = [calls EXCEPT ![h] = @ + 1]
  /\ IF ~started
       THEN UNCHANGED <<counter, stopped, pc>>
       ELSE /\ counter' = c
            /\ IF c > 0 \/ stopped
                 THEN UNCHANGED <<stopped, pc>>
                 ELSE /\ stopped' = TRUE
                      /\ pc' = [pc EXCEPT ![h] = "sendExit"]
  /\ UNCHANGED <<started, listener, drain, wg, ConnVars, stopReturned, reg, srvInit, raced>>

\* s.exit <- ch (line 270) meets ch := <-s.exit (line 237) of the drain
\* goroutine; the channel is unbuffered, so without that goroutine the
\* sender blocks for ever.
StopSignal(h) ==
  /\ pc[h] = "sendExit"
  /\ drain = "recvExit"
  /\ pc' = [pc EXCEPT ![h] = "awaitClose"]
  /\ drain' = IF Wait THEN "wait" ELSE "close"
  /\ UNCHANGED <<counter, started, stopped, calls, listener, wg, ConnVars, stopReturned, reg, srvInit, raced>>

\* s.wg.Wait() (lines 240-242): returns at once when the counter is zero,
\* otherwise parks until the Done that brings it to zero.
DrainWait ==
  /\ drain = "wait"
  /\ drain' = IF wg = 0 THEN "close" ELSE "waiting"
  /\ UNCHANGED <<counter, started, stopped, pc, calls, listener, wg, ConnVars, stopReturned, reg, srvInit, raced>>

\* ch <- ts.Close() (line 245) meets return <-ch (line 271): the listener is
\* closed and the Stop call returns, releasing s.Lock.
DrainClose(h) ==
  /\ drain = "close"
  /\ pc[h] = "awaitClose"
  /\ listener' = "closed"
  /\ drain' = "done"
  /\ pc' = [pc EXCEPT ![h] = "idle"]
  /\ stopReturned' = TRUE
  /\ UNCHANGED <<counter, started, stopped, calls, wg, ConnVars, reg, srvInit, raced>>
-----------------------------------------------------------------------------
(* Connections *)

\* ts.Accept(s.accept) (line 233): while the listener is open a connection
\* is accepted and served by its own goroutine.  Closing the listener stops
\* accepting, but connections already accepted keep being served.
Accept(c) ==
  /\ listener = "open"
  /\ handler[c] = "none"
  /\ handler' = [handler EXCEPT ![c] = "recv"]
  /\ UNCHANGED <<counter, started, stopped, pc, calls, listener, drain, wg,
                 client, reqQ, rspQ, sent, stopReturned, reg, srvInit, raced>>

\* Variants with plausible bugs: the request is not counted in the
\* WaitGroup (RecvNoAdd); a deferred Done also runs when Recv fails
\* (RecvDoneOnError).
RecvNoAdd(c) ==
  /\ handler[c] = "recv"
  /\ \/ /\ reqQ[c]
        /\ reqQ' = [reqQ EXCEPT ![c] = FALSE]
        /\ handler' = [handler EXCEPT ![c] = "dispatch"]
     \/ /\ ~reqQ[c] /\ client[c] = "closed"
        /\ handler' = [handler EXCEPT ![c] = "exited"]
        /\ UNCHANGED reqQ
  /\ UNCHANGED <<counter, started, stopped, pc, calls, listener, drain, wg,
                 client, rspQ, sent, stopReturned, reg, srvInit, raced>>

RecvDoneOnError(c) ==
  /\ handler[c] = "recv"
  /\ \/ /\ reqQ[c]
        /\ reqQ' = [reqQ EXCEPT ![c] = FALSE]
        /\ wg' = wg + 1
        /\ handler' = [handler EXCEPT ![c] = "dispatch"]
     \/ /\ ~reqQ[c] /\ client[c] = "closed"
        /\ handler' = [handler EXCEPT ![c] = "exited"]
        /\ wg' = wg - 1
        /\ UNCHANGED reqQ
  /\ UNCHANGED <<counter, started, stopped, pc, calls, listener, drain,
                 client, rspQ, sent, stopReturned, reg, srvInit, raced>>

\* sock.Recv (lines 66-74): a request read is counted in the WaitGroup
\* before it is dispatched; a read error (the peer is gone) ends the loop
\* and the deferred sock.Close runs.
Recv(c) ==
  /\ handler[c] = "recv"
  /\ \/ /\ reqQ[c]
        /\ reqQ' = [reqQ EXCEPT ![c] = FALSE]
        /\ wg' = wg + 1
        /\ handler' = [handler EXCEPT ![c] = "dispatch"]
     \/ /\ ~reqQ[c] /\ client[c] = "closed"
        /\ handler' = [handler EXCEPT ![c] = "exited"]
        /\ UNCHANGED <<reqQ, wg>>
  /\ UNCHANGED <<counter, started, stopped, pc, calls, listener, drain,
                 client, rspQ, sent, stopReturned, reg, srvInit, raced>>

\* fn(pi) (lines 75-140): every path (unknown service, function or codec,
\* decode error, invocation or handler error, marshal error, and a panic
\* recovered into "Internal Server Error") yields one response envelope.
\* s.invokers (line 90) and s.codecs (line 102) are read without s.RLock:
\* a read while Register or Init writes the map is a data race, whose
\* outcome (old or new entry, or the runtime's fatal "concurrent map read
\* and map write") is left open.
Dispatch(c) ==
  /\ handler[c] = "dispatch"
  /\ handler' = [handler EXCEPT ![c] = "send"]
  /\ raced' = (raced \/ reg = "writing" \/ srvInit = "writing")
  /\ UNCHANGED <<counter, started, stopped, pc, calls, listener, drain, wg,
                 client, reqQ, rspQ, sent, stopReturned, reg, srvInit>>

\* tcp socket.Send (transport/tcp/socket.go lines 34-43): the gob Encode
\* and the Flush of the buffered writer fail only once the peer has hung
\* up; until then the response is written.
SocketSendMayFail(c) == client[c] = "closed"

\* Variant with a plausible bug: the Done that reaches zero does not wake
\* a parked Wait.
SendNoWake(c) ==
  /\ handler[c] = "send"
  /\ \/ /\ wg' = wg - 1
        /\ handler' = [handler EXCEPT ![c] = "recv"]
        /\ rspQ' = [rspQ EXCEPT ![c] = client[c] # "closed"]
     \/ /\ SocketSendMayFail(c)
        /\ handler' = [handler EXCEPT ![c] = "exited"]
        /\ UNCHANGED <<wg, rspQ>>
  /\ UNCHANGED <<counter, started, stopped, pc, calls, listener, drain,
                 client, reqQ, sent, stopReturned, reg, srvInit, raced>>

\* sock.Send then s.wg.Done (lines 140-146).  The Done that brings the
\* counter to zero wakes a parked Wait.  To a peer that hung up the write
\* may still succeed (buffered) or fail; on failure the loop returns at
\* line 143 without the Done.
Send(c) ==
  LET SendOK ==
        /\ wg' = wg - 1
        /\ handler' = [handler EXCEPT ![c] = "recv"]
        /\ rspQ' = [rspQ EXCEPT ![c] = client[c] # "closed"]
        /\ drain' = IF wg' = 0 /\ drain = "waiting" THEN "close" ELSE drain
  IN
  /\ handler[c] = "send"
  /\ \/ SendOK
     \/ /\ SocketSendMayFail(c)
        /\ handler' = [handler EXCEPT ![c] = "exited"]
        /\ UNCHANGED <<wg, rspQ, drain>>
  /\ UNCHANGED <<counter, started, stopped, pc, calls, listener,
                 client, reqQ, sent, stopReturned, reg, srvInit, raced>>
-----------------------------------------------------------------------------
(* Register (lines 185-194), called by the owner of the invoker: before  *)
(* the first Start, or after Start returned as in provider.start.  It     *)
(* takes s.Lock, checks for a duplicate name (one invoker here, so never  *)
(* taken), writes s.invokers and unlocks.                                *)

RegisterLock ==
  /\ reg = "none" /\ LockFree
  /\ IF RegisterFirst THEN ~started ELSE started
  /\ reg' = "writing"
  /\ UNCHANGED <<counter, started, stopped, pc, calls, listener, drain, wg,
                 ConnVars, stopReturned, srvInit, raced>>

RegisterWrite ==
  /\ reg = "writing"
  /\ reg' = "done"
  /\ UNCHANGED <<counter, started, stopped, pc, calls, listener, drain, wg,
                 ConnVars, stopReturned, srvInit, raced>>
-----------------------------------------------------------------------------
(* Init (lines 150-177), called by each provider that owns the server    *)
(* (provider.Init): under s.Lock it applies the options, resolves the     *)
(* address, writes s.codecs and initialises the transport, whose error   *)
(* is returned with nothing else changed.                                 *)

InitLock ==
  /\ srvInit = "none" /\ LockFree
  /\ IF RegisterFirst THEN ~started ELSE started
  /\ srvInit' = "writing"
  /\ UNCHANGED <<counter, started, stopped, pc, calls, listener, drain, wg,
                 ConnVars, stopReturned, reg, raced>>

InitWrite ==
  /\ srvInit = "writing"
  /\ srvInit' = "done"
  /\ UNCHANGED <<counter, started, stopped, pc, calls, listener, drain, wg,
                 ConnVars, stopReturned, reg, raced>>
-----------------------------------------------------------------------------
(* The peers: the rpc Client's conn.Send / conn.Recv (src/client/rpc/
   client.go lines 98-107), one request in flight per connection. *)

ClientSend(c) ==
  /\ handler[c] # "none"
  /\ client[c] = "idle"
  /\ sent[c] < MaxRequests
  /\ client' = [client EXCEPT ![c] = "waiting"]
  /\ reqQ' = [reqQ EXCEPT ![c] = TRUE]
  /\ sent' = [sent EXCEPT ![c] = @ + 1]
  /\ UNCHANGED <<counter, started, stopped, pc, calls, listener, drain, wg,
                 handler, rspQ, stopReturned, reg, srvInit, raced>>

ClientRecv(c) ==
  /\ client[c] = "waiting"
  /\ rspQ[c]
  /\ client' = [client EXCEPT ![c] = "idle"]
  /\ rspQ' = [rspQ EXCEPT ![c] = FALSE]
  /\ UNCHANGED <<counter, started, stopped, pc, calls, listener, drain, wg,
                 handler, reqQ, sent, stopReturned, reg, srvInit, raced>>

\* The pool closes a connection whose call failed (a Recv timeout, or the
\* client process going away), possibly with the request still in flight.
ClientHangUp(c) ==
  /\ ClientMayHangUp
  /\ handler[c] # "none"
  /\ client[c] # "closed"
  /\ client' = [client EXCEPT ![c] = "closed"]
  /\ UNCHANGED <<counter, started, stopped, pc, calls, listener, drain, wg,
                 handler, reqQ, rspQ, sent, stopReturned, reg, srvInit, raced>>
-----------------------------------------------------------------------------
ServerStep ==
  \/ DrainWait
  \/ \E h \in Holders : StopSignal(h) \/ DrainClose(h)
  \/ \E c \in Conns : Recv(c) \/ Dispatch(c) \/ Send(c)

Next ==
  \/ \E h \in Holders : Start(h) \/ Stop(h)
  \/ ServerStep
  \/ \E c \in Conns : Accept(c) \/ ClientSend(c) \/ ClientRecv(c) \/ ClientHangUp(c)
  \/ RegisterLock \/ RegisterWrite
  \/ InitLock \/ InitWrite

\* Goroutines that can run keep running: the drain goroutine, the holder
\* inside Stop's handshake, Register and Init holding the lock, and the
\* connection loops.  Callers of Start/Stop
\* and clients are not obliged to do anything.
Fairness ==
  /\ WF_vars(DrainWait) /\ WF_vars(RegisterWrite) /\ WF_vars(InitWrite)
  /\ \A h \in Holders : WF_vars(StopSignal(h)) /\ WF_vars(DrainClose(h))
  /\ \A c \in Conns : WF_vars(Recv(c)) /\ WF_vars(Dispatch(c)) /\ WF_vars(Send(c))
                      /\ WF_vars(ClientRecv(c))

Spec == Init /\ [][Next]_vars /\ Fairness
-----------------------------------------------------------------------------
(* Properties *)

\* The lifecycle refines ServerLifecycle: the counter is the number of held
\* references, the server is serving from the first Start until the drain
\* goroutine closes the listener.  This is the comment's promise that the
\* server truly starts once and truly stops once, when every Start has been
\* matched by a Stop, and is never restarted.
Phase ==
  IF ~started THEN "new" ELSE IF listener = "closed" THEN "stopped" ELSE "serving"

Abstract == INSTANCE ServerLifecycle WITH refs <- counter, phase <- Phase

ServerSpec == Abstract!Spec

\* Every request counted in the WaitGroup by accept() is one still being
\* dispatched or answered: wg.Wait in the drain goroutine waits for exactly
\* the requests in flight.
WaitGroupMatchesInFlight == wg = Cardinality(InFlight)

\* Every Stop call that has to hand over the exit signal eventually returns
\* (and releases s.Lock): the drain goroutine exists, and draining ends.
StopReturns == \A h \in Holders : pc[h] # "idle" ~> pc[h] = "idle"

\* With Wait set, once a Stop call has returned no request is being
\* dispatched: "wait for requests to finish before exiting".
NoDispatchAfterStop == (Wait /\ stopReturned) => InFlight = {}

\* No request is dispatched while Register writes the invokers map or Init
\* the codecs map: Go maps must not be read and written concurrently, and
\* the lookups at lines 90 and 102 take no lock.
DispatchRaceFree == ~raced
=============================================================================
