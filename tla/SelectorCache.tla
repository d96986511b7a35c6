---------------------------- MODULE SelectorCache ----------------------------
(***************************************************************************)
(* The cache Selector of src/selector/cache/selector.go and the registry   *)
(* it reads (src/registry/etcd).  Init loads a static config directory if  *)
(* there is one, else pulls ListServices from the registry, falling back   *)
(* to the on-disk snapshot, then writes the snapshot and starts two        *)
(* goroutines: a ticker that re-pulls the whole list and replaces the map, *)
(* and a watch loop that, per event, re-reads one service with GetService  *)
(* and replaces its entry.  Both write the snapshot afterwards.            *)
(*                                                                         *)
(* Service records are abstracted to instance names; the cache is a map   *)
(* from service name to a set of instances, where Absent is a missing key.*)
(* The consumer process may crash and restart; the snapshot survives.      *)
(***************************************************************************)
EXTENDS Naturals, Sequences, FiniteSets

CONSTANTS
  Names,            \* service names
  Instances,        \* provider instances (one registry key each)
  Absent,           \* a key missing from a map or a file missing on disk
  RegistryMayFail,  \* ListServices / GetService may return an error
  MaxChanges,       \* bound on registrations and deregistrations
  MaxRestarts       \* bound on consumer crashes

ASSUME /\ Absent \notin Instances
       /\ RegistryMayFail \in BOOLEAN
       /\ MaxChanges \in Nat /\ MaxRestarts \in Nat

VARIABLES
  configDir, \* the static config directory (../config/selector): name -> instances in <name>.yaml, or Absent
  reg,       \* the registry: service name -> registered instances
  events,    \* watch events (service names) not yet delivered by w.Next
  changes,   \* registry changes so far (bounded)
  sel,       \* "new", "static" (config loaded), "running", "failed"
  services,  \* Selector.services
  disk,      \* the snapshot directory: name -> instances in <name>.yaml, or Absent
  rpc,       \* the ticker goroutine: "tick", "apply", "write"
  rsnap,     \* the ticker's ListServices result
  wpc,       \* the watch goroutine: "next", "get", "apply", "write"
  wname,     \* the service name of the watch event in hand
  wsnap,     \* the watch's GetService result
  restarts   \* consumer crashes so far (bounded)

vars == <<configDir, reg, events, changes, sel, services, disk, rpc, rsnap, wpc, wname,
          wsnap, restarts>>

Entry == (SUBSET Instances) \cup {Absent}
NoMap == [n \in Names |-> Absent]

\* ListServices: every registered instance, grouped by name (lines 98-108);
\* a name without instances has no key.
ListServices == [n \in Names |-> IF reg[n] = {} THEN Absent ELSE reg[n]]

\* What Select (lines 257-283) chooses among for a name: a missing key and
\* an empty list are both ErrNoneAvailable.
Candidates(m, n) == IF m[n] = Absent THEN {} ELSE m[n]

\* writeToCache (lines 192-219): one file per key of the map, under RLock;
\* files of names no longer in the map are left as they are.
WriteToCache(m) == [n \in Names |-> IF m[n] = Absent THEN disk[n] ELSE m[n]]

\* readFromLocal(d) (lines 69-96): ReadDir fails when the directory does
\* not exist (a directory here exists when it holds a file).
DirExists(d) == \E n \in Names : d[n] # Absent

\* Each <name>.yaml goes through addService (lines 231-240), which skips
\* an empty list.
ReadFromLocal(d) == [n \in Names |-> IF d[n] \in {Absent, {}} THEN Absent ELSE d[n]]

TypeOK ==
  /\ configDir \in [Names -> Entry]
  /\ reg \in [Names -> SUBSET Instances]
  /\ events \in Seq(Names)
  /\ changes \in 0..MaxChanges
  /\ sel \in {"new", "static", "running", "failed"}
  /\ services \in [Names -> Entry]
  /\ disk \in [Names -> Entry]
  /\ rpc \in {"tick", "apply", "write"}
  /\ rsnap \in [Names -> Entry]
  /\ wpc \in {"next", "get", "apply", "write"}
  /\ wname \in Names
  /\ wsnap # Absent /\ wsnap \subseteq Instances
  /\ restarts \in 0..MaxRestarts

Init ==
  /\ configDir \in [Names -> Entry]
  /\ reg \in [Names -> SUBSET Instances]
  /\ events = <<>>
  /\ changes = 0
  /\ sel = "new"
  /\ services = NoMap
  /\ disk = NoMap
  /\ rpc = "tick" /\ rsnap = NoMap
  /\ wpc = "next" /\ wname \in Names /\ wsnap = {}
  /\ restarts = 0

Goroutines == <<rpc, rsnap, wpc, wname, wsnap>>
-----------------------------------------------------------------------------
(* The registry, changed by providers registering and deregistering. *)

\* A provider registers or deregisters instance i of n; the etcd watch
\* reports the change for n.
RegistryChange(n, i) ==
  /\ changes < MaxChanges
  /\ changes' = changes + 1
  /\ reg' = [reg EXCEPT ![n] = IF i \in @ THEN @ \ {i} ELSE @ \cup {i}]
  /\ events' = Append(events, n)
  /\ UNCHANGED <<configDir, sel, services, disk, Goroutines, restarts>>
-----------------------------------------------------------------------------
(* Selector.Init *)

\* readFromRemote before its goroutines start (lines 115-123): the
\* registry's list, or on an error the snapshot directory, then
\* writeToCache; when both fail, the error.
ReadFromRemote ==
  \/ /\ \/ services' = ListServices
        \/ RegistryMayFail /\ DirExists(disk) /\ services' = ReadFromLocal(disk)
     /\ sel' = "running"
     /\ disk' = WriteToCache(services')
  \/ /\ RegistryMayFail /\ ~DirExists(disk)
     /\ sel' = "failed"
     /\ UNCHANGED <<services, disk>>

\* The events a fresh etcd watcher (newEtcdWatcher, watcher.go lines 21-49)
\* has to deliver: it watches from AfterIndex 0, the current index, so no
\* change made before it was created is ever reported by it.
NewEtcdWatcher == <<>>

\* Init (lines 242-251) calls read (lines 220-229): a readable config
\* directory is the whole configuration and no goroutine is started;
\* otherwise readFromRemote.
InitSelector ==
  /\ sel = "new"
  /\ rpc' = "tick" /\ wpc' = "next"
  /\ events' = NewEtcdWatcher
  /\ UNCHANGED <<configDir, reg, changes, rsnap, wname, wsnap, restarts>>
  /\ \/ /\ DirExists(configDir)
        /\ services' = ReadFromLocal(configDir)
        /\ sel' = "static"
        /\ UNCHANGED disk
     \/ /\ ~DirExists(configDir)
        /\ ReadFromRemote
-----------------------------------------------------------------------------
(* The ticker goroutine (lines 125-141). *)

\* On a tick, ListServices.  On an error the loop logs it and waits for the
\* next tick: that changes nothing and is a stuttering step.
RefreshRead ==
  /\ sel = "running" /\ rpc = "tick"
  /\ rsnap' = ListServices
  /\ rpc' = "apply"
  /\ UNCHANGED <<configDir, reg, events, changes, sel, services, disk, wpc, wname, wsnap, restarts>>

\* Variant with a plausible bug: the pulled list is merged key by key into
\* the map instead of replacing it, so names that lost every instance keep
\* their old entry.
RefreshMerge ==
  /\ sel = "running" /\ rpc = "apply"
  /\ services' = [n \in Names |-> IF rsnap[n] = Absent THEN services[n] ELSE rsnap[n]]
  /\ rpc' = "write"
  /\ UNCHANGED <<configDir, reg, events, changes, sel, disk, rsnap, wpc, wname, wsnap, restarts>>

\* readFromRegistry replaces the whole map under the lock (lines 109-111).
RefreshApply ==
  /\ sel = "running" /\ rpc = "apply"
  /\ services' = rsnap
  /\ rpc' = "write"
  /\ UNCHANGED <<configDir, reg, events, changes, sel, disk, rsnap, wpc, wname, wsnap, restarts>>

RefreshWrite ==
  /\ sel = "running" /\ rpc = "write"
  /\ disk' = WriteToCache(services)
  /\ rpc' = "tick"
  /\ UNCHANGED <<configDir, reg, events, changes, sel, services, rsnap, wpc, wname, wsnap, restarts>>
-----------------------------------------------------------------------------
(* The watch goroutine (lines 149-190).  s.exit is never made, so the     *)
(* case <-s.exit is never ready and the loop runs for the process's life. *)

\* w.Next returns the next change.
WatchNext ==
  /\ sel = "running" /\ wpc = "next"
  /\ events # <<>>
  /\ wname' = Head(events)
  /\ events' = Tail(events)
  /\ wpc' = "get"
  /\ UNCHANGED <<configDir, reg, changes, sel, services, disk, rpc, rsnap, wsnap, restarts>>

\* A watch error panics on the nil response in etcdWatcher.Next; the panic
\* is recovered and watch() restarts with a new etcd watcher, which reports
\* only changes made after it (AfterIndex 0): pending events are lost.
WatchRestart ==
  /\ sel = "running" /\ RegistryMayFail
  /\ events' = NewEtcdWatcher
  /\ wpc' = "next"
  /\ UNCHANGED <<configDir, reg, changes, sel, services, disk, rpc, rsnap, wname, wsnap, restarts>>

\* Variant with a plausible bug: the `continue` after a GetService error is
\* missing and the nil result goes on to be applied.
WatchGetNoContinue ==
  /\ sel = "running" /\ wpc = "get"
  /\ \/ /\ wsnap' = reg[wname]
        /\ wpc' = "apply"
     \/ /\ RegistryMayFail
        /\ wpc' = "apply"
        /\ wsnap' = Absent
  /\ UNCHANGED <<configDir, reg, events, changes, sel, services, disk, rpc, rsnap, wname, restarts>>

\* GetService(name) (lines 176-182); on error the event is dropped.
WatchGet ==
  /\ sel = "running" /\ wpc = "get"
  /\ \/ /\ wsnap' = reg[wname]
        /\ wpc' = "apply"
     \/ /\ RegistryMayFail
        /\ wpc' = "next"
        /\ UNCHANGED wsnap
  /\ UNCHANGED <<configDir, reg, events, changes, sel, services, disk, rpc, rsnap, wname, restarts>>

\* s.services[name] = services under the lock (lines 183-185).
WatchApply ==
  /\ sel = "running" /\ wpc = "apply"
  /\ services' = [services EXCEPT ![wname] = wsnap]
  /\ wpc' = "write"
  /\ UNCHANGED <<configDir, reg, events, changes, sel, disk, rpc, rsnap, wname, wsnap, restarts>>

WatchWrite ==
  /\ sel = "running" /\ wpc = "write"
  /\ disk' = WriteToCache(services)
  /\ wpc' = "next"
  /\ UNCHANGED <<configDir, reg, events, changes, sel, services, rpc, rsnap, wname, wsnap, restarts>>
-----------------------------------------------------------------------------
(* The consumer process crashes: memory and goroutines are gone, the      *)
(* registry and the snapshot directory remain; it starts over with Init.  *)

Restart ==
  /\ restarts < MaxRestarts
  /\ restarts' = restarts + 1
  /\ sel' = "new"
  /\ services' = NoMap
  /\ events' = <<>>
  /\ rpc' = "tick" /\ rsnap' = NoMap
  /\ wpc' = "next" /\ wsnap' = {}
  /\ UNCHANGED <<configDir, reg, changes, disk, wname>>
-----------------------------------------------------------------------------
Next ==
  \/ \E n \in Names, i \in Instances : RegistryChange(n, i)
  \/ InitSelector
  \/ RefreshRead \/ RefreshApply \/ RefreshWrite
  \/ WatchNext \/ WatchRestart \/ WatchGet \/ WatchApply \/ WatchWrite
  \/ Restart

\* The goroutines keep running.  The ticker fires every ten seconds for
\* ever, and the registry is taken to answer some of those ticks: a
\* successful pull is strongly fair.
Fairness ==
  /\ WF_vars(InitSelector)
  /\ SF_vars(RefreshRead) /\ WF_vars(RefreshApply) /\ WF_vars(RefreshWrite)
  /\ WF_vars(WatchNext) /\ WF_vars(WatchGet) /\ WF_vars(WatchApply)
  /\ WF_vars(WatchWrite)

Spec == Init /\ [][Next]_vars /\ Fairness
-----------------------------------------------------------------------------
(* Properties *)

\* Consistency with the registry is eventual: once the registry stops
\* changing, what Select chooses among for every name is eventually, and
\* stays, exactly what is registered, whatever the refresh and the watch
\* interleaving, lost events and failed reads did before.
CacheConverges ==
  <>[](sel = "running" => \A n \in Names : Candidates(services, n) = reg[n])

\* The on-disk snapshot, the fallback of the next Init when the registry is
\* unreachable, eventually records what is registered for every name.
DiskConverges ==
  <>[](sel = "running" => \A n \in Names : Candidates(disk, n) = reg[n])
=============================================================================
