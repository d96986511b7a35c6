----------------------------- MODULE RpcClient -----------------------------
(***************************************************************************)
(* The synchronous call path of the rpc Client (src/client/rpc/client.go,  *)
(* Client.Call) over the connection pool it owns, with concurrent callers  *)
(* to one server address.  The pool's source (client/rpc/pool.go) is not   *)
(* part of src/: getConn and release are modelled from the spec (4.1).     *)
(*                                                                         *)
(* The wire protocol carries no request id (src/client/rpc/protocol.go):   *)
(* a caller takes whatever envelope comes next on its connection.  That a  *)
(* caller only ever reads the answer to its own request rests on one       *)
(* request in flight per connection and on never pooling a connection     *)
(* whose Send or Recv failed.  Requests are tagged here, in the model only, *)
(* so that the property can be stated.                                     *)
(*                                                                         *)
(* Client and server share a transport, tcp or grpc.  Both deliver in     *)
(* order per connection and fail the same way on Dial and Send; only tcp  *)
(* has deadlines, on the client's Send and Recv and on the server's Recv. *)
(***************************************************************************)
EXTENDS Naturals, Sequences, FiniteSets

CONSTANTS
  Callers,         \* goroutines calling Client.Call on the same address
  Conns,           \* connection handles the transport may dial
  PoolSize,        \* client.Options.PoolSize
  PoolTTL,         \* client.Options.PoolTTL, in ticks
  MaxTime,         \* bound on the clock
  MaxCalls,        \* bound on the calls of each caller
  RecvTimeouts,    \* the client transport's Options.Timeout > 0: the configurations checked
  NetMayFail,      \* Dial and Send may fail
  ServerMayTimeOut,\* the server's tcp transport has a Timeout: its sockets' Recv deadline
  Transports,      \* the transports client and server may share: "tcp", "grpc"
  NoConn

ASSUME /\ PoolSize \in Nat \ {0} /\ PoolTTL \in Nat \ {0}
       /\ MaxTime \in Nat /\ MaxCalls \in Nat \ {0}
       /\ Cardinality(Conns) >= Cardinality(Callers) * MaxCalls
       /\ NoConn \notin Conns
       /\ ServerMayTimeOut \in BOOLEAN /\ RecvTimeouts \subseteq BOOLEAN
       /\ Transports \subseteq {"tcp", "grpc"}

VARIABLES
  now,       \* the clock
  idle,      \* pool: set of [conn, since] for the address
  cpc,       \* caller: "idle", "send", "recv"
  held,      \* caller: the connection in use, or NoConn
  calls,     \* caller: calls made so far; also the tag of the current call
  conn,      \* per connection: "unused", "open", "reset" (the server closed it), "closed"
  toServer,  \* per connection: request tags not yet read by the server
  toClient,  \* per connection: response tags not yet read by the client
  transport, \* the transport of client and server: "tcp" or "grpc"
  deadline,  \* the client's Send and Recv set a deadline (its transport has a Timeout)
  answer     \* caller: "none", "ok", "err", or "foreign" (someone else's response)

vars == <<now, transport, deadline, idle, cpc, held, calls, conn, toServer, toClient, answer>>

Tag(p) == <<p, calls[p]>>
Tags == Callers \X (0..MaxCalls)

PooledConns == {e.conn : e \in idle}

TypeOK ==
  /\ now \in 0..MaxTime
  /\ idle \subseteq [conn : Conns, since : 0..MaxTime]
  /\ cpc \in [Callers -> {"idle", "send", "recv"}]
  /\ held \in [Callers -> Conns \cup {NoConn}]
  /\ calls \in [Callers -> 0..MaxCalls]
  /\ conn \in [Conns -> {"unused", "open", "reset", "closed"}]
  /\ toServer \in [Conns -> Seq(Tags)]
  /\ toClient \in [Conns -> Seq(Tags)]
  /\ transport \in Transports /\ deadline \in BOOLEAN
  /\ answer \in [Callers -> {"none", "ok", "err", "foreign"}]

\* The grpc client's Send and Recv (transport/grpc/client.go lines 15-38)
\* are bare stream calls: only the tcp client sets a deadline, when its
\* transport has a Timeout.
ClientDeadlines(t) == IF t = "tcp" THEN RecvTimeouts ELSE {FALSE}

\* The grpc server socket's Recv (transport/grpc/socket.go lines 12-26)
\* blocks on the stream with no deadline: only a tcp server with a
\* Timeout closes an idle connection.
IdleDeadline(t) == t = "tcp" /\ ServerMayTimeOut

Init ==
  /\ now = 0
  /\ idle = {}
  /\ cpc = [p \in Callers |-> "idle"]
  /\ held = [p \in Callers |-> NoConn]
  /\ calls = [p \in Callers |-> 0]
  /\ conn = [k \in Conns |-> "unused"]
  /\ toServer = [k \in Conns |-> <<>>]
  /\ toClient = [k \in Conns |-> <<>>]
  /\ answer = [p \in Callers |-> "none"]
  /\ transport \in Transports
  /\ deadline \in ClientDeadlines(transport)
-----------------------------------------------------------------------------
(* The pool (spec 4.1) *)

Fresh(e) == now - e.since < PoolTTL

\* tcp Transport.Dial (transport/tcp/transport.go lines 37-70): DialTimeout,
\* or tls.DialWithDialer with a TLS config, yields a new connection or an
\* error (NoConn).
Dial == {k \in Conns : conn[k] = "unused"} \cup (IF NetMayFail THEN {NoConn} ELSE {})

\* tcp client.Send (transport/tcp/client.go lines 21-30): Encode or Flush
\* fails on a network error; on a connection the server has closed the
\* first write may still succeed, or fail.
SendMayFail(k) == NetMayFail \/ conn[k] = "reset"

\* tcp client.Recv (transport/tcp/client.go lines 32-38): Decode fails when
\* the deadline (transport Timeout) passes, and at once with EOF on a
\* connection the server has closed once what it sent has been read.
RecvMayFail(k) == deadline \/ (conn[k] = "reset" /\ toClient[k] = <<>>)

\* getConn: expired entries are closed and dropped; a fresh pooled
\* connection is handed out if there is one, else a new one is dialled
\* (which may fail).  Yields the new idle set and the connection, or NoConn
\* with the dial error.
GetConn(p) ==
  LET expired == {e \in idle : ~Fresh(e)}
      live    == idle \ expired
      closeExpired == [k \in Conns |-> IF k \in {e.conn : e \in expired}
                                          THEN "closed" ELSE conn[k]]
  IN \/ \E e \in live :
          /\ idle' = live \ {e}
          /\ held' = [held EXCEPT ![p] = e.conn]
          /\ conn' = closeExpired
     \/ /\ live = {}
        /\ idle' = live
        /\ \E k \in Dial :
             /\ held' = [held EXCEPT ![p] = k]
             /\ conn' = IF k = NoConn THEN closeExpired
                                       ELSE [closeExpired EXCEPT ![k] = "open"]

\* Variant with a plausible bug: the entry records when it will expire
\* instead of when it was pooled.
ReleaseStampingExpiry(k, failed) ==
  IF ~failed /\ Cardinality(idle) < PoolSize
    THEN /\ idle' = idle \cup {[conn |-> k, since |-> now + PoolTTL]}
         /\ UNCHANGED conn
    ELSE /\ conn' = [conn EXCEPT ![k] = "closed"]
         /\ UNCHANGED idle

\* Variant with a plausible bug: the pool's size limit is not checked.
ReleaseIgnoringPoolSize(k, failed) ==
  IF ~failed
    THEN /\ idle' = idle \cup {[conn |-> k, since |-> now]}
         /\ UNCHANGED conn
    ELSE /\ conn' = [conn EXCEPT ![k] = "closed"]
         /\ UNCHANGED idle

\* release: a connection whose call failed is closed; otherwise it is
\* pooled unless the pool is full, in which case it is closed.
Release(k, failed) ==
  IF ~failed /\ Cardinality(idle) < PoolSize
    THEN /\ idle' = idle \cup {[conn |-> k, since |-> now]}
         /\ UNCHANGED conn
    ELSE /\ conn' = [conn EXCEPT ![k] = "closed"]
         /\ UNCHANGED idle
-----------------------------------------------------------------------------
(* Client.Call *)

\* Lines 54-92: the codec lookup and Marshal may fail before any connection
\* is taken; otherwise getConn (line 90), whose dial error is returned.
CallBegin(p) ==
  /\ cpc[p] = "idle" /\ calls[p] < MaxCalls
  /\ calls' = [calls EXCEPT ![p] = @ + 1]
  /\ \/ /\ answer' = [answer EXCEPT ![p] = "err"]
        /\ UNCHANGED <<idle, held, conn, cpc>>
     \/ /\ GetConn(p)
        /\ IF held'[p] = NoConn
             THEN /\ answer' = [answer EXCEPT ![p] = "err"]
                  /\ UNCHANGED cpc
             ELSE /\ answer' = [answer EXCEPT ![p] = "none"]
                  /\ cpc' = [cpc EXCEPT ![p] = "send"]
  /\ UNCHANGED <<now, transport, deadline, toServer, toClient>>

\* Variant with a plausible bug: the connection is released as soon as the
\* request is written, before the response is read.
CallSendReleaseEarly(p) ==
  LET k == held[p] IN
  /\ cpc[p] = "send"
  /\ \/ /\ toServer' = [toServer EXCEPT ![k] = Append(@, Tag(p))]
        /\ cpc' = [cpc EXCEPT ![p] = "recv"]
        /\ Release(k, FALSE)
        /\ UNCHANGED <<held, answer>>
     \/ /\ SendMayFail(k)
        /\ Release(k, TRUE)
        /\ cpc' = [cpc EXCEPT ![p] = "idle"]
        /\ held' = [held EXCEPT ![p] = NoConn]
        /\ answer' = [answer EXCEPT ![p] = "err"]
        /\ UNCHANGED toServer
  /\ UNCHANGED <<now, transport, deadline, calls, toClient>>

\* conn.Send (lines 98-102); on error cerr is set and the deferred release
\* closes the connection.
CallSend(p) ==
  LET k == held[p] IN
  /\ cpc[p] = "send"
  /\ \/ /\ toServer' = [toServer EXCEPT ![k] = Append(@, Tag(p))]
        /\ cpc' = [cpc EXCEPT ![p] = "recv"]
        /\ UNCHANGED <<idle, conn, held, answer>>
     \/ /\ SendMayFail(k)
        /\ Release(k, TRUE)
        /\ cpc' = [cpc EXCEPT ![p] = "idle"]
        /\ held' = [held EXCEPT ![p] = NoConn]
        /\ answer' = [answer EXCEPT ![p] = "err"]
        /\ UNCHANGED toServer
  /\ UNCHANGED <<now, transport, deadline, calls, toClient>>

\* Variant with a plausible bug: the Recv error is returned without being
\* stored in cerr, so the deferred release pools the connection.
CallRecvNoCerr(p) ==
  LET k == held[p] IN
  /\ cpc[p] = "recv"
  /\ \/ /\ toClient[k] # <<>>
        /\ answer' = [answer EXCEPT ![p] =
                        IF Head(toClient[k]) = Tag(p) THEN "ok" ELSE "foreign"]
        /\ toClient' = [toClient EXCEPT ![k] = Tail(@)]
        /\ Release(k, FALSE)
     \/ /\ RecvMayFail(k)
        /\ answer' = [answer EXCEPT ![p] = "err"]
        /\ Release(k, FALSE)
        /\ UNCHANGED toClient
  /\ cpc' = [cpc EXCEPT ![p] = "idle"]
  /\ held' = [held EXCEPT ![p] = NoConn]
  /\ UNCHANGED <<now, transport, deadline, calls, toServer>>

\* conn.Recv (lines 103-115).  The envelope read is taken as the answer to
\* this call (a non-empty Error header or an Unmarshal error fail the call
\* but leave cerr nil, so the connection is pooled).  A Recv error (the
\* transport's deadline) sets cerr and the connection is closed.
CallRecv(p) ==
  LET k == held[p] IN
  /\ cpc[p] = "recv"
  /\ \/ /\ toClient[k] # <<>>
        /\ answer' = [answer EXCEPT ![p] =
                        IF Head(toClient[k]) = Tag(p) THEN "ok" ELSE "foreign"]
        /\ toClient' = [toClient EXCEPT ![k] = Tail(@)]
        /\ Release(k, FALSE)
     \/ /\ RecvMayFail(k)
        /\ answer' = [answer EXCEPT ![p] = "err"]
        /\ Release(k, TRUE)
        /\ UNCHANGED toClient
  /\ cpc' = [cpc EXCEPT ![p] = "idle"]
  /\ held' = [held EXCEPT ![p] = NoConn]
  /\ UNCHANGED <<now, transport, deadline, calls, toServer>>
-----------------------------------------------------------------------------
(* The environment *)

\* The server's loop on the connection answers requests in order
\* (RpcServer models it in detail); a closed connection carries nothing.
ServerReply(k) ==
  /\ toServer[k] # <<>> /\ conn[k] # "reset"
  /\ toServer' = [toServer EXCEPT ![k] = Tail(@)]
  /\ toClient' = [toClient EXCEPT ![k] =
                    IF conn[k] = "closed" THEN @ ELSE Append(@, Head(toServer[k]))]
  /\ UNCHANGED <<now, transport, deadline, idle, cpc, held, calls, conn, answer>>

\* The server's socket for k (transport/tcp/socket.go lines 21-32) waits in
\* Recv under the deadline the listener gave it (the transport's Timeout);
\* when no request comes in time, Recv fails and the server's loop closes
\* the socket.  The client's end, possibly pooled, is not told.
ServerIdleClose(k) ==
  /\ IdleDeadline(transport)
  /\ conn[k] = "open" /\ toServer[k] = <<>>
  /\ conn' = [conn EXCEPT ![k] = "reset"]
  /\ UNCHANGED <<now, transport, deadline, idle, cpc, held, calls, toServer, toClient, answer>>

Tick ==
  /\ now < MaxTime
  /\ now' = now + 1
  /\ UNCHANGED <<transport, deadline, idle, cpc, held, calls, conn, toServer, toClient, answer>>

Next ==
  \/ \E p \in Callers : CallBegin(p) \/ CallSend(p) \/ CallRecv(p)
  \/ \E k \in Conns : ServerReply(k) \/ ServerIdleClose(k)
  \/ Tick

\* The callers' goroutines and each connection's server loop keep running
\* while they can.  Nobody has to make a new call, the server's idle
\* deadline need not fire, and the clock need not move.
Fairness ==
  /\ \A p \in Callers : WF_vars(CallSend(p)) /\ WF_vars(CallRecv(p))
  /\ \A k \in Conns : WF_vars(ServerReply(k))

Spec == Init /\ [][Next]_vars /\ Fairness
-----------------------------------------------------------------------------
(* Properties *)

\* A call that succeeds has read the response to its own request, never
\* one left on a reused connection by an earlier call: the protocol has
\* no request id, so this rests on release closing failed connections and
\* on getConn handing a connection to one caller at a time.
OwnResponse == \A p \in Callers : answer[p] \in {"none", "ok", "err"}

\* No connection is in use by two calls at once, nor pooled while in use.
ExclusiveUse ==
  \A p \in Callers : held[p] # NoConn =>
      /\ held[p] \notin PooledConns
      /\ \A q \in Callers \ {p} : held[q] # held[p]


\* The pool keeps the promise of ConnPool: a connection is held by one
\* call at a time, kept for reuse only after a call without a transport
\* error and while fewer than PoolSize are kept, and never used once
\* closed.  The call's outcome is its answer; a foreign response is not a
\* transport error (OwnResponse rules it out separately).
ConnStatus ==
  [k \in Conns |->
     IF \E p \in Callers : held[p] = k THEN "held"
     ELSE IF k \in PooledConns THEN "pooled"
     ELSE IF conn[k] = "unused" THEN "unused"
     ELSE "closed"]

CallOutcome == [p \in Callers |-> IF answer[p] = "foreign" THEN "ok" ELSE answer[p]]

Pool == INSTANCE ConnPool WITH status <- ConnStatus, holder <- held, outcome <- CallOutcome

PoolSpec == Pool!Spec
=============================================================================
