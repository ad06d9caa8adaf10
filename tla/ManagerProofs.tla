----------------------------- MODULE ManagerProofs -----------------------------
(***************************************************************************)
(* The order of a shutdown, for every number of configurations, starters   *)
(* and Shutdowns: ShutdownOrder and StartedOnce.                           *)
(***************************************************************************)
EXTENDS Manager, TLAPS

\* The program counters, and the states of a pool.
StartPcs == {"idle", "locking", "launching", "started", "failed"}
DownPcs == {"idle", "stopping", "locking", "unsubscribing", "publisher", "draining", "bus", "done"}
Live == {"running", "stopping"}
Ended == {"none", "stopped"}

\* The types of the variables.
Types ==
    /\ registered \subseteq Configs /\ subs \subseteq Configs
    /\ pool \in [Configs -> Live \cup Ended]
    /\ launched \in [Configs -> Nat]
    /\ handler \in [Configs -> {"idle", "running", "registering"}]
    /\ start \in [Starters -> [pc : StartPcs, todo : SUBSET Configs]]
    /\ down \in [Closers -> [pc : DownPcs, todo : SUBSET Configs, sub : Configs \cup {None}]]

\* Nothing is starting while something shuts down.
Phases ==
    \A c \in Closers : down[c].pc # "idle" =>
        \A p \in Starters : start[p].pc \in {"idle", "started", "failed"}

\* Who launches pools, or unsubscribes them, has the mutex of the registry.
Locks ==
    /\ \A p \in Starters : start[p].pc = "launching" => mu = p
    /\ \A c \in Closers : down[c].pc = "unsubscribing" => mu = c

\* A pool that runs is one the registry knows, and has been launched once; what is still
\* to be launched has not been.
Pools ==
    /\ \A k \in Configs :
         /\ pool[k] \in Live => k \in subs
         /\ pool[k] \in Ended => handler[k] = "idle"
         /\ launched[k] <= 1
         /\ launched[k] = 0 \/ k \in subs \/ \E c \in Closers : down[c].pc # "idle"
    /\ \A p \in Starters : start[p].pc = "launching" =>
         \A k \in start[p].todo : launched[k] = 0

\* What the progress of a Shutdown says of the listener, the pools and the publisher.
Downs ==
    \A c \in Closers :
        /\ down[c].pc \notin {"idle", "stopping"} => listener = "done"
        /\ down[c].sub # None => down[c].pc = "unsubscribing"
        /\ down[c].pc = "unsubscribing" =>
             \A k \in subs : k \in down[c].todo \/ k = down[c].sub \/ pool[k] = "stopped"
        /\ down[c].pc \in {"publisher", "draining", "bus", "done"} =>
             \A k \in Configs : pool[k] \in Ended
        /\ down[c].pc \in {"bus", "done"} => publisher = "closed"

\* The publisher is closed by a Shutdown, and the bus after it.
Ends ==
    /\ publisher # "open" => \E c \in Closers : down[c].pc \in {"draining", "bus", "done"}
    /\ bus # "open" => publisher = "closed"

\* The inductive invariant.
IInv ==
    /\ Types
    /\ Phases
    /\ Locks
    /\ Pools
    /\ Downs
    /\ Ends
-----------------------------------------------------------------------------
\* The invariant holds at first.
LEMMA IInvInit == Init => IInv
BY DEF Init, IInv, Types, Phases, Locks, Pools, Downs, Ends, StartPcs, DownPcs, Live, Ended

\* A Shutdown goes on with other subscriptions to stop.
LEMMA DownTyped ==
    ASSUME Types, NEW c \in Closers, NEW p \in DownPcs, NEW S \in SUBSET Configs
    PROVE  [down EXCEPT ![c].pc = p, ![c].todo = S]
             \in [Closers -> [pc : DownPcs, todo : SUBSET Configs, sub : Configs \cup {None}]]
BY DEF Types

\* Every step keeps the invariant.
LEMMA IInvStep ==
    ASSUME IInv, [Next]_vars
    PROVE  IInv'
<1> USE ManagerConstantsOK
    DEF IInv, Types, Phases, Locks, Pools, Downs, Ends, StartPcs, DownPcs, Live, Ended,
        registryVars, poolVars, endVars, callVars, StartGoto, DownGoto
<1>1. ASSUME NEW k \in Configs, Register(k)
      PROVE  IInv'
  BY <1>1 DEF Register
<1>2. ASSUME NEW p \in Starters, Start(p)
      PROVE  IInv'
  BY <1>2 DEF Start
<1>3. ASSUME NEW p \in Starters, StartAllBegin(p)
      PROVE  IInv'
  <2>1. CASE subs # {}
    BY <1>3, <2>1 DEF StartAllBegin, StartAllLock
  <2>2. CASE subs = {}
    <3>1. Types' /\ Phases' /\ Locks'
      BY <1>3, <2>2 DEF StartAllBegin, StartAllLock
    <3>2. Pools'
      BY <1>3, <2>2 DEF StartAllBegin, StartAllLock
    <3>3. Downs' /\ Ends'
      BY <1>3, <2>2 DEF StartAllBegin, StartAllLock
    <3>4. QED
      BY <3>1, <3>2, <3>3
  <2>3. QED
    BY <2>1, <2>2
<1>4. ASSUME NEW p \in Starters, StartAllLaunch(p)
      PROVE  IInv'
  BY <1>4 DEF StartAllLaunch
<1>5. ASSUME NEW p \in Starters, StartAllReturn(p)
      PROVE  IInv'
  BY <1>5 DEF StartAllReturn
<1>6. ASSUME NEW k \in Configs, HandlerBegins(k)
      PROVE  IInv'
  BY <1>6 DEF HandlerBegins
<1>7. ASSUME NEW k \in Configs, HandlerRegisters(k)
      PROVE  IInv'
  BY <1>7 DEF HandlerRegisters
<1>8. ASSUME NEW k \in Configs, HandlerRegistered(k)
      PROVE  IInv'
  BY <1>8 DEF HandlerRegistered
<1>9. ASSUME NEW k \in Configs, HandlerReturns(k)
      PROVE  IInv'
  BY <1>9 DEF HandlerReturns
<1>10. ASSUME NEW k \in Configs, PoolEnds(k)
      PROVE  IInv'
  BY <1>10 DEF PoolEnds
<1>11. ASSUME ListenerEnds
      PROVE  IInv'
  BY <1>11 DEF ListenerEnds
<1>12. ASSUME PublisherDrained
      PROVE  IInv'
  BY <1>12 DEF PublisherDrained
<1>13. ASSUME ListenerCancelled
      PROVE  IInv'
  BY <1>13 DEF ListenerCancelled
<1>14. ASSUME NEW k \in Configs, PoolCancelled(k)
      PROVE  IInv'
  BY <1>14 DEF PoolCancelled
<1>15. ASSUME NEW c \in Closers, Shutdown(c)
      PROVE  IInv'
  BY <1>15 DEF Shutdown
<1>16. ASSUME NEW c \in Closers, ListenerStopped(c)
      PROVE  IInv'
  BY <1>16 DEF ListenerStopped
<1>17. ASSUME NEW c \in Closers, RegistryShutdown(c)
      PROVE  IInv'
  <2>1. down' \in [Closers -> [pc : DownPcs, todo : SUBSET Configs, sub : Configs \cup {None}]]
    BY <1>17, DownTyped DEF RegistryShutdown
  <2>2. Types'
    BY <1>17, <2>1 DEF RegistryShutdown
  <2>3. Phases' /\ Locks' /\ Pools' /\ Downs' /\ Ends'
    BY <1>17 DEF RegistryShutdown
  <2>4. QED
    BY <2>2, <2>3
<1>18. ASSUME NEW c \in Closers, Unsubscribe(c)
      PROVE  IInv'
  BY <1>18 DEF Unsubscribe
<1>19. ASSUME NEW c \in Closers, UnsubscribeReturns(c)
      PROVE  IInv'
  BY <1>19 DEF UnsubscribeReturns
<1>20. ASSUME NEW c \in Closers, RegistryStopped(c)
      PROVE  IInv'
  BY <1>20 DEF RegistryStopped
<1>21. ASSUME NEW c \in Closers, PublisherClose(c)
      PROVE  IInv'
  BY <1>21 DEF PublisherClose
<1>22. ASSUME NEW c \in Closers, PublisherClosed(c)
      PROVE  IInv'
  BY <1>22 DEF PublisherClosed
<1>23. ASSUME NEW c \in Closers, BusClose(c)
      PROVE  IInv'
  BY <1>23 DEF BusClose
<1>24. CASE UNCHANGED vars
  BY <1>24 DEF vars
<1>25. QED
  BY <1>1, <1>2, <1>3, <1>4, <1>5, <1>6, <1>7, <1>8, <1>9, <1>10, <1>11, <1>12, <1>13, <1>14,
     <1>15, <1>16, <1>17, <1>18, <1>19, <1>20, <1>21, <1>22, <1>23, <1>24 DEF Next,
     StartStep, ShutdownStep

\* It is an invariant of the program.
LEMMA IInvHolds == Spec => []IInv
<1>1. Init => IInv
  BY IInvInit
<1>2. IInv /\ [Next]_vars => IInv'
  BY IInvStep
<1>3. QED
  BY <1>1, <1>2, PTL DEF Spec

-----------------------------------------------------------------------------
\* Shutdown takes the components down in its order, however many Shutdowns run: when
\* the publisher is closed no listener, no pool and no handler of a pool is left.
THEOREM ShutdownKeepsOrder == Spec => []ShutdownOrder
<1>1. IInv => ShutdownOrder
  BY DEF IInv, Types, Pools, Downs, Ends, Live, Ended, ShutdownOrder
<1>2. QED
  BY <1>1, IInvHolds, PTL

\* No configuration gets two pools, and no pool runs that the registry does not know.
THEOREM PoolsStartOnce == Spec => []StartedOnce
<1>1. IInv => StartedOnce
  BY DEF IInv, Pools, Live, StartedOnce
<1>2. QED
  BY <1>1, IInvHolds, PTL
=============================================================================
