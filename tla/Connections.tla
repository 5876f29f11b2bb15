---------------------------- MODULE Connections ----------------------------
(***************************************************************************)
(* The three background connections that App spawns, and the shutdown that *)
(* main() triggers when the window is gone (src/src/main.rs).  They share  *)
(* nothing but the shutdown channel; each implements ConnectionLifecycle.  *)
(***************************************************************************)
EXTENDS ChainWatcher, IpfsWatcher, IndexerWatcher

vars == <<shutdown, ChainVars, IpfsVars, IndexerVars>>

Init == shutdown = FALSE /\ ChainInit /\ IpfsInit /\ IndexerInit

Next ==
    \/ TriggerShutdown /\ UNCHANGED <<ChainVars, IpfsVars, IndexerVars>>
    \/ ChainNext /\ UNCHANGED <<shutdown, IpfsVars, IndexerVars>>
    \/ IpfsNext /\ UNCHANGED <<shutdown, ChainVars, IndexerVars>>
    \/ IndexerNext /\ UNCHANGED <<shutdown, ChainVars, IpfsVars>>

Spec == Init /\ [][Next]_vars

FairSpec == Spec /\ ChainFairness /\ IpfsFairness /\ IndexerFairness
----------------------------------------------------------------------------
ChainLifecycle == INSTANCE ConnectionLifecycle
    WITH status <- chain_connection.status, failed <- chain_connection.failed,
         loop <- IF cpc = "stopped" THEN "returned" ELSE "running"

IpfsLifecycle == INSTANCE ConnectionLifecycle
    WITH status <- ipfs_connection.status, failed <- ipfs_connection.failed,
         loop <- IF ppc = "stopped" THEN "returned" ELSE "running"

IndexerLifecycle == INSTANCE ConnectionLifecycle
    WITH status <- indexer_connection.status, failed <- indexer_connection.failed,
         loop <- IF ipc = "stopped" THEN "returned" ELSE "running"

TypeOK == shutdown \in BOOLEAN /\ ChainTypeOK /\ IpfsTypeOK /\ IndexerTypeOK

\* Each watcher is an implementation of the lifecycle that ARCHITECTURE.md
\* describes once for all three.
ChainImplementsLifecycle == ChainLifecycle!Spec
IpfsImplementsLifecycle == IpfsLifecycle!Spec
IndexerImplementsLifecycle == IndexerLifecycle!Spec

\* Shutdown ends all three loops, wherever in an attempt it reaches them.
AllLoopsStop ==
    /\ ChainLifecycle!ShutdownStops
    /\ IpfsLifecycle!ShutdownStops
    /\ IndexerLifecycle!ShutdownStops

\* No loss is final: every watcher tries again until shutdown.
LossesAreRetried ==
    /\ ChainLifecycle!LossIsRetried
    /\ IpfsLifecycle!LossIsRetried
    /\ IndexerLifecycle!LossIsRetried
=============================================================================
