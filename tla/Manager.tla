------------------------------ MODULE Manager ------------------------------
(***************************************************************************)
(* The life of a whole program: Manager.Start and Shutdown of              *)
(* manager/manager.go and the Registry of manager/registry.go, composed    *)
(* with what MQListener, Pool, MQPublisher and EventBus say of the         *)
(* components they start and stop: a Listener whose Stop waits for its     *)
(* goroutine, pools whose Unsubscribe waits for their handlers, a          *)
(* Publisher whose Close waits for its sends and holds up every other      *)
(* Close, a bus whose second Close does not wait for the first.            *)
(*                                                                         *)
(* The program starts before it shuts down: no Shutdown begins while a     *)
(* Start or StartAll runs, and none of those after a Shutdown.  Handlers   *)
(* return, unless they wait for the registry's mutex.                      *)
(***************************************************************************)
EXTENDS Naturals, FiniteSets

CONSTANTS
    Configs,   \* what is registered: a topic and a handler each
    Starters,  \* goroutines that start something
    Main,      \* the one that calls Manager.Start; the others call StartAll
    Closers,   \* calls of Manager.Shutdown
    None

ASSUME ManagerConstantsOK ==
    /\ Main \in Starters
    /\ Starters \cap Closers = {}
    /\ None \notin Configs \cup Starters \cup Closers

VARIABLES
    mu,          \* the registry's mutex: who holds it
    registered,  \* r.configs
    subs,        \* r.subs
    pool,        \* the pool of each configuration
    launched,    \* how often SubscribeWithPool was called for it
    handler,     \* a handler of the pool: "idle", "running" or "registering"
    listener,
    publisher,
    bus,
    start,       \* each starter: [pc, todo]
    down         \* each Shutdown: [pc, todo, sub]

registryVars == <<mu, registered, subs>>
poolVars == <<pool, launched, handler>>
endVars == <<listener, publisher, bus>>
callVars == <<start, down>>
vars == <<registryVars, poolVars, endVars, callVars>>

Init ==
    /\ mu = None
    /\ registered = {}
    /\ subs = {}
    /\ pool = [k \in Configs |-> "none"]
    /\ launched = [k \in Configs |-> 0]
    /\ handler = [k \in Configs |-> "idle"]
    /\ listener = "new"
    /\ publisher = "open"
    /\ bus = "open"
    /\ start = [p \in Starters |-> [pc |-> "idle", todo |-> {}]]
    /\ down = [c \in Closers |-> [pc |-> "idle", todo |-> {}, sub |-> None]]

-----------------------------------------------------------------------------
\* Starting

\* Register, called by the program or from within a handler.
Register(k) ==
    /\ mu = None
    /\ k \notin registered
    /\ registered' = registered \cup {k}
    /\ UNCHANGED <<mu, subs, poolVars, endVars, callVars>>

StartGoto(p, pc) == start' = [start EXCEPT ![p].pc = pc]

\* Manager.Start begins with the listener.
Start(p) ==
    /\ start[p].pc = "idle"
    /\ \A c \in Closers : down[c].pc = "idle"
    /\ listener' = IF p = Main THEN "running" ELSE listener
    /\ StartGoto(p, "locking")
    /\ UNCHANGED <<registryVars, poolVars, publisher, bus, down>>

\* mutant: the check for a started registry does not hold the lock.
BugCheckUnlocked(p) ==
    \/ /\ start[p].pc = "locking"
       /\ StartGoto(p, IF subs # {} THEN "failed" ELSE "checked")
       /\ UNCHANGED mu
    \/ /\ start[p].pc = "checked"
       /\ mu = None
       /\ mu' = p
       /\ start' = [start EXCEPT ![p] = [pc |-> "launching", todo |-> registered]]

\* StartAll: "already started", or a pool for every configuration, under the lock.
StartAllLock(p) ==
    /\ start[p].pc = "locking"
    /\ mu = None
    /\ IF subs # {}
       THEN StartGoto(p, "failed") /\ UNCHANGED mu
       ELSE /\ mu' = p
            /\ start' = [start EXCEPT ![p] = [pc |-> "launching", todo |-> registered]]

StartAllBegin(p) == StartAllLock(p) /\ UNCHANGED <<registered, subs, poolVars, endVars, down>>

StartAllLaunch(p) ==
    /\ start[p].pc = "launching"
    /\ \E k \in start[p].todo :
         /\ launched' = [launched EXCEPT ![k] = @ + 1]
         /\ pool' = [pool EXCEPT ![k] = "running"]
         /\ subs' = subs \cup {k}
         /\ start' = [start EXCEPT ![p].todo = @ \ {k}]
    /\ UNCHANGED <<mu, registered, handler, endVars, down>>

StartAllReturn(p) ==
    /\ start[p].pc = "launching"
    /\ start[p].todo = {}
    /\ mu' = None
    /\ StartGoto(p, "started")
    /\ UNCHANGED <<registered, subs, poolVars, endVars, down>>

-----------------------------------------------------------------------------
\* The components at work

\* A pool that is stopping may take another event before it sees that it is.
HandlerBegins(k) ==
    /\ pool[k] \in {"running", "stopping"}
    /\ handler[k] = "idle"
    /\ handler' = [handler EXCEPT ![k] = "running"]
    /\ UNCHANGED <<registryVars, pool, launched, endVars, callVars>>

\* The handler calls Register ...
HandlerRegisters(k) ==
    /\ handler[k] = "running"
    /\ handler' = [handler EXCEPT ![k] = "registering"]
    /\ UNCHANGED <<registryVars, pool, launched, endVars, callVars>>

\* ... which returns when it has had the lock.
HandlerRegistered(k) ==
    /\ handler[k] = "registering"
    /\ mu = None
    /\ \E j \in Configs : registered' = registered \cup {j}
    /\ handler' = [handler EXCEPT ![k] = "running"]
    /\ UNCHANGED <<mu, subs, pool, launched, endVars, callVars>>

HandlerReturns(k) ==
    /\ handler[k] = "running"
    /\ handler' = [handler EXCEPT ![k] = "idle"]
    /\ UNCHANGED <<registryVars, pool, launched, endVars, callVars>>

PoolEnds(k) ==
    /\ pool[k] = "stopping"
    /\ handler[k] = "idle"
    /\ pool' = [pool EXCEPT ![k] = "stopped"]
    /\ UNCHANGED <<registryVars, launched, handler, endVars, callVars>>

ListenerEnds ==
    /\ listener = "cancelled"
    /\ listener' = "done"
    /\ UNCHANGED <<registryVars, poolVars, publisher, bus, callVars>>

PublisherDrained ==
    /\ publisher = "closing"
    /\ publisher' = "closed"
    /\ UNCHANGED <<registryVars, poolVars, listener, bus, callVars>>

\* The ctx given to Start, or to StartAll, is cancelled: what it started stops by itself.
ListenerCancelled ==
    /\ listener = "running"
    /\ listener' = "cancelled"
    /\ UNCHANGED <<registryVars, poolVars, publisher, bus, callVars>>

PoolCancelled(k) ==
    /\ pool[k] = "running"
    /\ pool' = [pool EXCEPT ![k] = "stopping"]
    /\ UNCHANGED <<registryVars, launched, handler, endVars, callVars>>

-----------------------------------------------------------------------------
\* Shutdown

DownGoto(c, pc) == down' = [down EXCEPT ![c].pc = pc]

\* Listener.Stop, of a listener that was started.
Shutdown(c) ==
    /\ down[c].pc = "idle"
    /\ \A p \in Starters : start[p].pc \in {"idle", "started", "failed"}
    /\ listener # "new"
    /\ listener' = IF listener = "running" THEN "cancelled" ELSE listener
    /\ DownGoto(c, "stopping")
    /\ UNCHANGED <<registryVars, poolVars, publisher, bus, start>>

ListenerStopped(c) ==
    /\ down[c].pc = "stopping"
    /\ listener = "done"
    /\ DownGoto(c, "locking")
    /\ UNCHANGED <<registryVars, poolVars, endVars, start>>

\* mutant: the subscriptions are taken out under the lock and stopped without it.
BugUnlockEarly(c) ==
    /\ down[c].pc = "locking"
    /\ mu = None
    /\ subs' = {}
    /\ down' = [down EXCEPT ![c] = [@ EXCEPT !.pc = "unsubscribing", !.todo = subs]]
    /\ UNCHANGED <<mu, registered, poolVars, endVars, start>>

\* Registry.Shutdown holds the lock to its end.
RegistryShutdown(c) ==
    /\ down[c].pc = "locking"
    /\ mu = None
    /\ mu' = c
    /\ down' = [down EXCEPT ![c].pc = "unsubscribing", ![c].todo = subs]
    /\ UNCHANGED <<registered, subs, poolVars, endVars, start>>

Unsubscribe(c) ==
    /\ down[c].pc = "unsubscribing"
    /\ down[c].sub = None
    /\ \E k \in down[c].todo :
         /\ down' = [down EXCEPT ![c].todo = @ \ {k}, ![c].sub = k]
         /\ pool' = [pool EXCEPT ![k] = IF @ = "running" THEN "stopping" ELSE @]
    /\ UNCHANGED <<registryVars, launched, handler, endVars, start>>

UnsubscribeReturns(c) ==
    /\ down[c].sub # None
    /\ pool[down[c].sub] = "stopped"
    /\ down' = [down EXCEPT ![c].sub = None]
    /\ UNCHANGED <<registryVars, poolVars, endVars, start>>

\* mutant: the lock is not released.
BugKeepsLock(c) ==
    /\ down[c].pc = "unsubscribing"
    /\ down[c].sub = None
    /\ down[c].todo = {}
    /\ subs' = {}
    /\ DownGoto(c, "publisher")
    /\ UNCHANGED <<mu, registered, poolVars, endVars, start>>

RegistryStopped(c) ==
    /\ down[c].pc = "unsubscribing"
    /\ down[c].sub = None
    /\ down[c].todo = {}
    /\ subs' = {}
    /\ mu' = None
    /\ DownGoto(c, "publisher")
    /\ UNCHANGED <<registered, poolVars, endVars, start>>

\* Publisher.Close: the first closes, all wait.
PublisherClose(c) ==
    /\ down[c].pc = "publisher"
    /\ publisher' = IF publisher = "open" THEN "closing" ELSE publisher
    /\ DownGoto(c, "draining")
    /\ UNCHANGED <<registryVars, poolVars, listener, bus, start>>

PublisherClosed(c) ==
    /\ down[c].pc = "draining"
    /\ publisher = "closed"
    /\ DownGoto(c, "bus")
    /\ UNCHANGED <<registryVars, poolVars, endVars, start>>

\* EventBus.Close, and the end of Shutdown.  What Close does to the bus's own
\* subscriptions is in EventBus.
BusClose(c) ==
    /\ down[c].pc = "bus"
    /\ bus' = "closed"
    /\ DownGoto(c, "done")
    /\ UNCHANGED <<registryVars, poolVars, listener, publisher, start>>

-----------------------------------------------------------------------------
StartStep(p) == StartAllBegin(p) \/ StartAllLaunch(p) \/ StartAllReturn(p)

ShutdownStep(c) ==
    \/ ListenerStopped(c) \/ RegistryShutdown(c) \/ Unsubscribe(c) \/ UnsubscribeReturns(c)
    \/ RegistryStopped(c) \/ PublisherClose(c) \/ PublisherClosed(c) \/ BusClose(c)

Next ==
    \/ \E p \in Starters : Start(p) \/ StartStep(p)
    \/ \E k \in Configs :
         \/ Register(k) \/ HandlerBegins(k) \/ HandlerRegisters(k) \/ HandlerRegistered(k)
         \/ HandlerReturns(k) \/ PoolEnds(k) \/ PoolCancelled(k)
    \/ ListenerEnds \/ PublisherDrained \/ ListenerCancelled
    \/ \E c \in Closers : Shutdown(c) \/ ShutdownStep(c)

\* Goroutines run on and handlers return.  A mutex that is free again and again is
\* had at last, and a worker that finds an event and its stop picks one at random.
Fairness ==
    /\ \A k \in Configs :
         /\ WF_vars(HandlerReturns(k)) /\ SF_vars(HandlerRegistered(k)) /\ SF_vars(PoolEnds(k))
    /\ WF_vars(ListenerEnds) /\ WF_vars(PublisherDrained)
    /\ \A p \in Starters : SF_vars(StartStep(p))
    /\ \A c \in Closers : SF_vars(ShutdownStep(c))

Spec == Init /\ [][Next]_vars /\ Fairness

-----------------------------------------------------------------------------
(***************************************************************************)
(* Properties                                                              *)
(***************************************************************************)

\* "Listener, Registry, Publisher, Bus" (manager.go:54), for any number of Shutdowns
\* at once and after a Start that failed: a handler of one of the registry's pools
\* never finds the publisher closed, and neither listener nor publisher finds closed
\* what they send to.  The manager does not know the handlers the program subscribes
\* itself: those of bus.SubscribeAsync run until the bus is closed, the last of all.
ShutdownOrder ==
    /\ publisher # "open" =>
         /\ listener = "done"
         /\ \A k \in Configs : pool[k] \in {"none", "stopped"} /\ handler[k] = "idle"
    /\ bus # "open" => publisher = "closed"

\* No configuration is consumed by two pools, whoever starts the registry, and no
\* pool runs that the registry does not know and stop.
StartedOnce ==
    \A k \in Configs :
        /\ launched[k] <= 1
        /\ pool[k] \in {"running", "stopping"} => k \in subs

\* A Shutdown returns unless a handler waits for the registry's mutex.
ShutdownReturns ==
    \A c \in Closers :
        down[c].pc = "stopping" ~>
            (down[c].pc = "done" \/ \E k \in Configs : handler[k] = "registering")
=============================================================================
