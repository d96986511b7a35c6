------------------------------- MODULE Provider -------------------------------
(***************************************************************************)
(* A provider process (src/provider/provider.go, Provider.Run) and the     *)
(* etcd entries it keeps alive.  Run starts every server and registers the *)
(* invoker on it, registers one entry per server with a TTL, starts        *)
(* registerLoop, which re-registers every RegisterInterval, and on a       *)
(* signal closes p.exit, deregisters the entries and stops the servers.    *)
(*                                                                         *)
(* Time is counted in units no shorter than one etcd request: an etcd     *)
(* call (bounded by the registry's request timeout) and the Starts of      *)
(* the servers finish within a unit, so time does not pass in the middle  *)
(* of start/register or of one round of registerLoop.  An entry's life is *)
(* the number of units before etcd expires it; 0 is no entry.             *)
(***************************************************************************)
EXTENDS Naturals, FiniteSets

CONSTANTS
  Servers,          \* p.opts.Servers; one registry entry (getServices) each
  Intervals,        \* values of p.opts.RegisterInterval checked, in units
  TTLs,             \* values of p.opts.RegisterTTL checked, in units
  InitMayFail,      \* the invoker's, a server's or a registry's Init may return an error
  StartMayFail,     \* s.Start may return an error (Listen, TLS config)
  RegistryMayFail   \* etcd Set/Delete may return an error

ASSUME /\ Intervals \subseteq Nat \ {0} /\ TTLs \subseteq Nat \ {0}
       /\ InitMayFail \in BOOLEAN /\ StartMayFail \in BOOLEAN /\ RegistryMayFail \in BOOLEAN

VARIABLES
  interval,   \* p.opts.RegisterInterval of this provider
  ttl,        \* p.opts.RegisterTTL of this provider
  ppc,        \* Init then Run: "init", "initregistry", "start", "register", "running", "deregister", "stop", "done", "failed"
  pending,    \* the servers / entries the current loop of Run has still to visit
  server,     \* per server: "new", "serving", "stopped"
  invoker,    \* per server: p.inv registered on it (s.Register)
  life,       \* per entry: units before etcd expires it, 0 if absent
  exit,       \* p.exit has been closed
  lpc,        \* registerLoop: "none", "wait", "register", "exited"
  lpending,   \* the entries the current round of registerLoop has still to set
  timer,      \* units until the ticker fires
  due,        \* a tick is buffered in t.C (capacity one)
  misses      \* per entry: registerLoop refreshes that failed since it was last set

vars == <<interval, ttl, ppc, pending, server, invoker, life, exit, lpc, lpending, timer, due, misses>>

\* newOptions (options.go lines 30-51) starts from the default interval and
\* TTL and applies the RegisterInterval and RegisterTTL options (lines 65-77)
\* once, before Init: the pair is fixed for the provider's life.
RegisterSettings == [interval : Intervals, ttl : TTLs]

TypeOK ==
  /\ [interval |-> interval, ttl |-> ttl] \in RegisterSettings
  /\ ppc \in {"init", "initregistry", "start", "register", "running", "deregister", "stop", "done", "failed"}
  /\ pending \subseteq Servers
  /\ server \in [Servers -> {"new", "serving", "stopped"}]
  /\ invoker \in [Servers -> BOOLEAN]
  /\ life \in [Servers -> 0..ttl]
  /\ exit \in BOOLEAN
  /\ lpc \in {"none", "wait", "register", "exited"}
  /\ lpending \subseteq Servers
  /\ timer \in 0..interval
  /\ due \in BOOLEAN
  /\ misses \in [Servers -> 0..ttl]

Init ==
  /\ \E o \in RegisterSettings : interval = o.interval /\ ttl = o.ttl
  /\ ppc = "init" /\ pending = Servers
  /\ server = [s \in Servers |-> "new"]
  /\ invoker = [s \in Servers |-> FALSE]
  /\ life = [s \in Servers |-> 0]
  /\ exit = FALSE
  /\ lpc = "none" /\ lpending = {} /\ timer = interval /\ due = FALSE
  /\ misses = [s \in Servers |-> 0]

\* Run visits every server in one loop per phase (start, register,
\* deregister, stop); once s, the last one, is visited, the next phase
\* begins with every server to visit.
LastVisit(s) == pending = {s}

Visit(s, phase, nextPhase) ==
  /\ pending' = IF LastVisit(s) THEN Servers ELSE pending \ {s}
  /\ ppc' = IF LastVisit(s) THEN nextPhase ELSE phase

LoopVars == <<exit, lpc, lpending, timer, due, misses>>

\* A refresh of s that failed, counted up to TTL.
Missed(s) == [misses EXCEPT ![s] = IF @ < ttl THEN @ + 1 ELSE @]
-----------------------------------------------------------------------------
(* Provider.Init, then Provider.Run, on the main goroutine *)

\* Init (lines 146-165): the invoker is built and its Init called, then
\* each server's Init (server.go lines 150-176: the address, the codecs
\* map, the transport's Init) in turn; the first error is returned.
InitServer(s) ==
  /\ ppc = "init" /\ s \in pending
  /\ \/ Visit(s, "init", "initregistry")
     \/ /\ InitMayFail
        /\ ppc' = "failed"
        /\ UNCHANGED pending
  /\ UNCHANGED <<interval, ttl, server, invoker, life, LoopVars>>

\* Then the registry's Init (lines 167-174), which builds the etcd client
\* and may fail; Run is called once Init has returned nil.
InitRegistry ==
  /\ ppc = "initregistry"
  /\ \/ ppc' = "start"
     \/ InitMayFail /\ ppc' = "failed"
  /\ UNCHANGED <<interval, ttl, pending, server, invoker, life, LoopVars>>

\* start (lines 73-81): s.Start(), then s.Register(p.inv); the first error
\* is returned and Run returns it, leaving the servers started so far.
StartServer(s) ==
  /\ ppc = "start" /\ s \in pending
  /\ \/ /\ server' = [server EXCEPT ![s] = "serving"]
        /\ invoker' = [invoker EXCEPT ![s] = TRUE]
        /\ Visit(s, "start", "register")
     \/ /\ StartMayFail
        /\ ppc' = "failed"
        /\ UNCHANGED <<pending, server, invoker>>
  /\ UNCHANGED <<interval, ttl, life, LoopVars>>

\* register (lines 100-109), called at the end of start (line 82): one
\* etcd Set with the TTL per entry; the first error is returned.  When
\* start returns, Run starts the registerLoop goroutine (lines 186, 111-116)
\* and blocks on the signal channel.
RegisterEntry(s) ==
  /\ ppc = "register" /\ s \in pending
  /\ \/ /\ life' = [life EXCEPT ![s] = ttl]
        /\ Visit(s, "register", "running")
        /\ lpc' = IF LastVisit(s) THEN "wait" ELSE lpc
     \/ /\ RegistryMayFail
        /\ ppc' = "failed"
        /\ UNCHANGED <<pending, life, lpc>>
  /\ UNCHANGED <<interval, ttl, server, invoker, exit, lpending, timer, due, misses>>

\* A signal arrives (lines 188-199): p.exit is closed and stop begins.
Signal ==
  /\ ppc = "running"
  /\ exit' = TRUE
  /\ ppc' = "deregister"
  /\ pending' = Servers
  /\ UNCHANGED <<interval, ttl, server, invoker, life, lpc, lpending, timer, due, misses>>

\* stop, deregister (lines 88-91, 136-145): one etcd Delete per entry;
\* the first error is returned and the servers are left running.
DeregisterEntry(s) ==
  /\ ppc = "deregister" /\ s \in pending
  /\ \/ /\ life' = [life EXCEPT ![s] = 0]
        /\ Visit(s, "deregister", "stop")
     \/ /\ RegistryMayFail
        /\ ppc' = "failed"
        /\ UNCHANGED <<pending, life>>
  /\ UNCHANGED <<interval, ttl, server, invoker, LoopVars>>

\* stop, then each s.Stop() (lines 92-97), which returns once the server
\* has drained (RpcServer models that in detail).
StopServer(s) ==
  /\ ppc = "stop" /\ s \in pending
  /\ server' = [server EXCEPT ![s] = "stopped"]
  /\ Visit(s, "stop", "done")
  /\ UNCHANGED <<interval, ttl, invoker, life, LoopVars>>
-----------------------------------------------------------------------------
(* The registerLoop goroutine (lines 115-133).  When a tick is buffered   *)
(* and p.exit is closed, select picks either case at random.            *)

LoopTick ==
  /\ lpc = "wait" /\ due
  /\ due' = FALSE
  /\ lpc' = "register"
  /\ lpending' = Servers
  /\ UNCHANGED <<interval, ttl, ppc, pending, server, invoker, life, exit, timer, misses>>

\* Variants with plausible bugs: the refresh adds the TTL to what is left
\* of the entry's life instead of setting it (LoopRegisterExtending); the
\* round stops after the first entry (LoopRegisterFirstOnly).
LoopRegisterExtending(s) ==
  /\ lpc = "register" /\ s \in lpending
  /\ lpending' = lpending \ {s}
  /\ \/ life' = [life EXCEPT ![s] = @ + ttl] /\ misses' = [misses EXCEPT ![s] = 0]
     \/ RegistryMayFail /\ UNCHANGED life /\ misses' = Missed(s)
  /\ lpc' = IF lpending' = {} THEN "wait" ELSE "register"
  /\ UNCHANGED <<interval, ttl, ppc, pending, server, invoker, exit, timer, due>>

LoopRegisterFirstOnly(s) ==
  /\ lpc = "register" /\ s \in lpending
  /\ lpending' = {}
  /\ \/ life' = [life EXCEPT ![s] = ttl] /\ misses' = [misses EXCEPT ![s] = 0]
     \/ RegistryMayFail /\ UNCHANGED life /\ misses' = Missed(s)
  /\ lpc' = "wait"
  /\ UNCHANGED <<interval, ttl, ppc, pending, server, invoker, exit, timer, due>>

\* One r.Register with the TTL; an error is logged and the round goes on.
\* misses only records the outcome for the properties.
LoopRegister(s) ==
  /\ lpc = "register" /\ s \in lpending
  /\ lpending' = lpending \ {s}
  /\ \/ life' = [life EXCEPT ![s] = ttl] /\ misses' = [misses EXCEPT ![s] = 0]
     \/ RegistryMayFail /\ UNCHANGED life /\ misses' = Missed(s)
  /\ lpc' = IF lpending' = {} THEN "wait" ELSE "register"
  /\ UNCHANGED <<interval, ttl, ppc, pending, server, invoker, exit, timer, due>>

\* Variant with a plausible bug: the exit case stops the ticker but does
\* not return, so the loop goes on selecting.
LoopExitNoReturn ==
  /\ lpc = "wait" /\ exit
  /\ UNCHANGED vars

\* case <-p.exit: t.Stop() and return.
LoopExit ==
  /\ lpc = "wait" /\ exit
  /\ lpc' = "exited"
  /\ UNCHANGED <<interval, ttl, ppc, pending, server, invoker, life, exit, lpending, timer, due, misses>>
-----------------------------------------------------------------------------
(* Time.  etcd expires an entry whose TTL ran out; the running ticker     *)
(* fires every Interval units and drops a tick while one is buffered.     *)

Tick ==
  /\ ppc \notin {"init", "initregistry", "start", "register"}
  /\ lpc # "register" /\ ~(lpc = "wait" /\ due)
  /\ life' = [s \in Servers |-> IF life[s] > 0 THEN life[s] - 1 ELSE 0]
  /\ IF lpc = "wait"
       THEN /\ timer' = IF timer = 1 THEN interval ELSE timer - 1
            /\ due' = (timer = 1)
       ELSE UNCHANGED <<timer, due>>
  /\ UNCHANGED <<interval, ttl, ppc, pending, server, invoker, exit, lpc, lpending, misses>>
-----------------------------------------------------------------------------
Next ==
  \/ \E s \in Servers : \/ InitServer(s) \/ StartServer(s) \/ RegisterEntry(s)
                        \/ DeregisterEntry(s) \/ StopServer(s)
                        \/ LoopRegister(s)
  \/ InitRegistry \/ Signal \/ LoopTick \/ LoopExit
  \/ Tick

\* Goroutines that can run keep running and time passes.  The signal is
\* not bound to come.  Go's select picks a ready case at random, so a loop
\* that is offered p.exit again and again eventually takes it.
Fairness ==
  /\ WF_vars(InitRegistry)
  /\ \A s \in Servers : /\ WF_vars(InitServer(s)) /\ WF_vars(StartServer(s)) /\ WF_vars(RegisterEntry(s))
                        /\ WF_vars(DeregisterEntry(s)) /\ WF_vars(StopServer(s))
                        /\ WF_vars(LoopRegister(s))
  /\ WF_vars(LoopTick) /\ SF_vars(LoopExit)
  /\ WF_vars(Tick)

Spec == Init /\ [][Next]_vars /\ Fairness
-----------------------------------------------------------------------------
(* Properties *)

\* While the provider runs (start returned, no signal yet), an entry is
\* missing from etcd only after every registerLoop refresh that fell within
\* its TTL failed: a round re-registers every entry each Interval, so the
\* (TTL - 1) \div Interval rounds before expiry must all have failed for it.
KeptAliveWhileRunning ==
  ppc = "running" => \A s \in Servers : life[s] = 0 => misses[s] >= (ttl - 1) \div interval

\* Once Run has returned, etcd eventually holds no entry of this provider:
\* after a clean stop registerLoop exits and any entry it set late
\* expires; after an error part-way through register or deregister
\* (lines 100-109, 136-145), which returns with some entries set and no
\* one to delete them, those entries expire with their TTL.
EventuallyDeregistered == <>[](ppc \in {"done", "failed"} => \A s \in Servers : life[s] = 0)

\* Consumers only find entries of servers that serve with the invoker
\* registered: start registers in etcd after every server started, and stop
\* deregisters before stopping them.
ServedWhileRegistered ==
  \A s \in Servers : life[s] > 0 => server[s] = "serving" /\ invoker[s]
=============================================================================
