-------------------------- MODULE ConnectionsProofs --------------------------
(***************************************************************************)
(* The three background connections, for any number of reconnects and any  *)
(* receivers of the client channel: each watcher of main.rs implements     *)
(* ConnectionLifecycle, and the client that the channel shares is always   *)
(* the one being maintained.                                               *)
(***************************************************************************)
EXTENDS Connections, IndexerProofs

\* A step is one of the four parts' own, or stutters.
LEMMA StepCases ==
    ASSUME [Next]_vars
    PROVE  \/ ChainNext /\ UNCHANGED <<shutdown, IpfsVars, IndexerVars>>
           \/ IpfsNext /\ UNCHANGED <<shutdown, ChainVars, IndexerVars>>
           \/ IndexerNext /\ UNCHANGED <<shutdown, ChainVars, IpfsVars>>
           \/ TriggerShutdown /\ UNCHANGED <<ChainVars, IpfsVars, IndexerVars>>
           \/ UNCHANGED <<shutdown, ChainVars, IpfsVars, IndexerVars>>
  BY DEF Next, vars

----------------------------------------------------------------------------
\* Where watch_acuity_chain is decides what its signal shows.
ChainInv ==
    /\ cpc \in {"start", "connect", "inspect", "best", "finalized", "streaming", "metadata",
                "backoff", "stopped"}
    /\ cpc \in {"start", "connect", "inspect"} => chain_connection = Chain!Connecting
    /\ cpc \in {"best", "finalized", "streaming", "metadata"}
           => chain_connection = Chain!Connected
    /\ cpc = "backoff" => chain_connection = Chain!Reconnecting
    /\ cpc = "stopped" => chain_connection \in {Chain!Connecting, Chain!Reconnecting}

\* The chain loop starts as the lifecycle does.
LEMMA ChainStarts == Init => ChainInv /\ ChainLifecycle!Init
  BY DEF Init, ChainInit, Chain!Init, Chain!Connecting, ChainInv, ChainLifecycle!Init

\* Every step is a lifecycle step of the chain loop, or a stutter.
LEMMA ChainSteps ==
    ASSUME ChainInv, [Next]_vars
    PROVE  ChainInv' /\ [ChainLifecycle!Next]_(ChainLifecycle!vars)
  <1> USE DEF ChainLifecycle!Next, ChainLifecycle!vars
  <1>1. CASE ChainEnter /\ UNCHANGED shutdown
    <2> USE DEF ChainEnter, Chain!Enter, ChainInv
    <2>1. ChainInv'
      BY <1>1
    <2>2. CASE shutdown
      <3>1. /\ cpc # "stopped"
            /\ cpc' = "stopped"
            /\ chain_connection' = chain_connection
            /\ chain_connection \in {Chain!Connecting, Chain!Reconnecting}
        BY <1>1, <2>2
      <3> QED
        BY <1>1, <2>1, <2>2, <3>1 DEF ChainLifecycle!Stop, Chain!Connecting, Chain!Reconnecting
    <2>3. CASE ~shutdown
      <3>1. /\ cpc # "stopped"
            /\ cpc' # "stopped"
            /\ chain_connection' = Chain!Connecting
            /\ chain_connection \in {Chain!Connecting, Chain!Reconnecting}
        BY <1>1, <2>3
      <3>2. CASE chain_connection = Chain!Connecting
        BY <1>1, <2>1, <3>1, <3>2
      <3>3. CASE chain_connection = Chain!Reconnecting
        BY <1>1, <2>1, <2>3, <3>1, <3>3
        DEF ChainLifecycle!Retry, Chain!Connecting, Chain!Reconnecting
      <3> QED
        BY <3>1, <3>2, <3>3
    <2> QED
      BY <2>2, <2>3
  <1>2. CASE (ChainLost \/ ChainSeesShutdown) /\ UNCHANGED shutdown
    <2>1. /\ ChainInv'
          /\ UNCHANGED shutdown
          /\ cpc # "stopped"
          /\ cpc' # "stopped"
          /\ chain_connection \in {Chain!Connecting, Chain!Connected}
          /\ chain_connection' = Chain!Reconnecting
      BY <1>2 DEF ChainInv, ChainLost, ChainSeesShutdown, Awaiting, Chain!Leave
    <2>2. ChainLifecycle!Lose
      BY <2>1 DEF ChainLifecycle!Lose, Chain!Connecting, Chain!Connected, Chain!Reconnecting
    <2> QED
      BY <2>1, <2>2
  <1>3. CASE InspectFinalized /\ UNCHANGED shutdown
    <2>1. ChainInv'
      BY <1>3 DEF ChainInv, InspectFinalized
    <2>2. /\ cpc # "stopped"
          /\ cpc' # "stopped"
          /\ chain_connection = Chain!Connecting
          /\ chain_connection' = Chain!Connected
      BY <1>3 DEF ChainInv, InspectFinalized
    <2> QED
      BY <1>3, <2>1, <2>2 DEF ChainLifecycle!Establish, Chain!Connecting, Chain!Connected
  <1>4. CASE /\ ReadMetadata \/ ConnectClient \/ SubscribeBest \/ SubscribeFinalized
                \/ NextFinalized
             /\ UNCHANGED shutdown
    <2> USE DEF ReadMetadata, ConnectClient, SubscribeBest, SubscribeFinalized, NextFinalized,
                Chain!Advance
    <2>1. ChainInv'
      BY <1>4 DEF ChainInv
    <2>2. cpc # "stopped" /\ cpc' # "stopped" /\ UNCHANGED chain_connection
      BY <1>4 DEF ChainInv
    <2> QED
      BY <1>4, <2>1, <2>2
  <1>5. CASE TriggerShutdown /\ UNCHANGED ChainVars
    BY <1>5 DEF TriggerShutdown, ChainVars, ChainInv, ChainLifecycle!RequestShutdown
  <1>6. CASE UNCHANGED <<shutdown, ChainVars>>
    BY <1>6 DEF ChainVars, ChainInv
  <1> QED
    BY StepCases, <1>1, <1>2, <1>3, <1>4, <1>5, <1>6 DEF ChainNext

\* watch_acuity_chain and stream_best_blocks implement the lifecycle.
THEOREM ChainIsLifecycle == Spec => ChainImplementsLifecycle
  <1>1. Init => ChainInv /\ ChainLifecycle!Init
    BY ChainStarts
  <1>2. ChainInv /\ [Next]_vars => ChainInv' /\ [ChainLifecycle!Next]_(ChainLifecycle!vars)
    BY ChainSteps
  <1> QED
    BY <1>1, <1>2, PTL DEF Spec, ChainImplementsLifecycle, ChainLifecycle!Spec
----------------------------------------------------------------------------
\* The same for watch_ipfs_daemon.
IpfsInv ==
    /\ ppc \in {"start", "request", "body", "pause", "backoff", "stopped"}
    /\ ppc \in {"start", "pause", "request", "body"}
           => ipfs_connection \in {Ipfs!Connecting, Ipfs!Connected}
    /\ ppc = "start" => ipfs_connection = Ipfs!Connecting
    /\ ppc = "backoff" => ipfs_connection = Ipfs!Reconnecting
    /\ ppc = "stopped" => ipfs_connection \in {Ipfs!Connecting, Ipfs!Reconnecting}

\* The IPFS loop starts as the lifecycle does.
LEMMA IpfsStarts == Init => IpfsInv /\ IpfsLifecycle!Init
  BY DEF Init, IpfsInit, Ipfs!Init, Ipfs!Connecting, IpfsInv, IpfsLifecycle!Init

\* Every step is a lifecycle step of the IPFS loop, or a stutter.
LEMMA IpfsSteps ==
    ASSUME IpfsInv, [Next]_vars
    PROVE  IpfsInv' /\ [IpfsLifecycle!Next]_(IpfsLifecycle!vars)
  <1> USE DEF IpfsLifecycle!Next, IpfsLifecycle!vars
  <1>1. CASE IpfsEnter /\ UNCHANGED shutdown
    <2> USE DEF IpfsEnter, Ipfs!Enter, IpfsInv
    <2>1. IpfsInv'
      BY <1>1
    <2>2. CASE shutdown
      <3>1. /\ ppc # "stopped"
            /\ ppc' = "stopped"
            /\ ipfs_connection' = ipfs_connection
            /\ ipfs_connection \in {Ipfs!Connecting, Ipfs!Reconnecting}
        BY <1>1, <2>2
      <3> QED
        BY <1>1, <2>1, <2>2, <3>1 DEF IpfsLifecycle!Stop, Ipfs!Connecting, Ipfs!Reconnecting
    <2>3. CASE ~shutdown
      <3>1. /\ ppc # "stopped"
            /\ ppc' # "stopped"
            /\ ipfs_connection' = Ipfs!Connecting
            /\ ipfs_connection \in {Ipfs!Connecting, Ipfs!Reconnecting}
        BY <1>1, <2>3
      <3>2. CASE ipfs_connection = Ipfs!Connecting
        BY <1>1, <2>1, <3>1, <3>2
      <3>3. CASE ipfs_connection = Ipfs!Reconnecting
        BY <1>1, <2>1, <2>3, <3>1, <3>3
        DEF IpfsLifecycle!Retry, Ipfs!Connecting, Ipfs!Reconnecting
      <3> QED
        BY <3>1, <3>2, <3>3
    <2> QED
      BY <2>2, <2>3
  <1>2. CASE (IpfsLost \/ IpfsSeesShutdown) /\ UNCHANGED shutdown
    <2>1. /\ IpfsInv'
          /\ UNCHANGED shutdown
          /\ ppc # "stopped"
          /\ ppc' # "stopped"
          /\ ipfs_connection \in {Ipfs!Connecting, Ipfs!Connected}
          /\ ipfs_connection' = Ipfs!Reconnecting
      BY <1>2 DEF IpfsInv, IpfsLost, IpfsSeesShutdown, Ipfs!Leave
    <2>2. IpfsLifecycle!Lose
      BY <2>1 DEF IpfsLifecycle!Lose, Ipfs!Connecting, Ipfs!Connected, Ipfs!Reconnecting
    <2> QED
      BY <2>1, <2>2
  <1>3. CASE BodyDecoded /\ UNCHANGED shutdown
    <2>1. /\ IpfsInv'
          /\ UNCHANGED shutdown
          /\ ppc # "stopped"
          /\ ppc' # "stopped"
          /\ ipfs_connection \in {Ipfs!Connecting, Ipfs!Connected}
          /\ ipfs_connection' = Ipfs!Connected
      BY <1>3 DEF IpfsInv, BodyDecoded
    <2>2. CASE ipfs_connection = Ipfs!Connecting
      BY <2>1, <2>2 DEF IpfsLifecycle!Establish, Ipfs!Connecting, Ipfs!Connected
    <2>3. CASE ipfs_connection = Ipfs!Connected
      BY <2>1, <2>3
    <2> QED
      BY <2>1, <2>2, <2>3
  <1>4. CASE (RequestAnswered \/ PauseElapsed) /\ UNCHANGED shutdown
    <2>1. /\ IpfsInv'
          /\ ppc # "stopped"
          /\ ppc' # "stopped"
          /\ UNCHANGED ipfs_connection
      BY <1>4 DEF IpfsInv, RequestAnswered, PauseElapsed, Ipfs!Advance
    <2> QED
      BY <1>4, <2>1
  <1>5. CASE TriggerShutdown /\ UNCHANGED IpfsVars
    BY <1>5 DEF TriggerShutdown, IpfsVars, IpfsInv, IpfsLifecycle!RequestShutdown
  <1>6. CASE UNCHANGED <<shutdown, IpfsVars>>
    BY <1>6 DEF IpfsVars, IpfsInv
  <1> QED
    BY StepCases, <1>1, <1>2, <1>3, <1>4, <1>5, <1>6 DEF IpfsNext

\* watch_ipfs_daemon and maintain_ipfs_connection implement the lifecycle.
THEOREM IpfsIsLifecycle == Spec => IpfsImplementsLifecycle
  <1>1. Init => IpfsInv /\ IpfsLifecycle!Init
    BY IpfsStarts
  <1>2. IpfsInv /\ [Next]_vars => IpfsInv' /\ [IpfsLifecycle!Next]_(IpfsLifecycle!vars)
    BY IpfsSteps
  <1> QED
    BY <1>1, <1>2, PTL DEF Spec, IpfsImplementsLifecycle, IpfsLifecycle!Spec
----------------------------------------------------------------------------
\* The same for watch_indexer, with the invariants of IndexerProofs.
LEMMA IndexerPart ==
    ASSUME IndexerInv, ClientInv, SocketsInv, [Next]_vars
    PROVE  IndexerInv' /\ ClientInv' /\ SocketsInv'
  <1>1. [IndexerNext]_IndexerVars
    BY StepCases
  <1> QED
    BY <1>1, IndexerSignal, IndexerClients, IndexerSockets

\* Every step is a lifecycle step of the indexer loop, or a stutter.
LEMMA IndexerSteps ==
    ASSUME IndexerInv, [Next]_vars
    PROVE  [IndexerLifecycle!Next]_(IndexerLifecycle!vars)
  <1> USE DEF IndexerLifecycle!Next, IndexerLifecycle!vars, Maintained
  <1>1. CASE IndexerEnter /\ UNCHANGED shutdown
    <2> USE DEF IndexerEnter, Indexer!Enter, IndexerInv
    <2>1. CASE shutdown
      <3>1. /\ ipc # "stopped"
            /\ ipc' = "stopped"
            /\ indexer_connection' = indexer_connection
            /\ indexer_connection \in {Indexer!Connecting, Indexer!Reconnecting}
        BY <1>1, <2>1
      <3> QED
        BY <1>1, <2>1, <3>1
        DEF IndexerLifecycle!Stop, Indexer!Connecting, Indexer!Reconnecting
    <2>2. CASE ~shutdown
      <3>1. /\ ipc # "stopped"
            /\ ipc' # "stopped"
            /\ indexer_connection' = Indexer!Connecting
            /\ indexer_connection \in {Indexer!Connecting, Indexer!Reconnecting}
        BY <1>1, <2>2
      <3>2. CASE indexer_connection = Indexer!Connecting
        BY <1>1, <3>1, <3>2
      <3>3. CASE indexer_connection = Indexer!Reconnecting
        BY <1>1, <2>2, <3>1, <3>3
        DEF IndexerLifecycle!Retry, Indexer!Connecting, Indexer!Reconnecting
      <3> QED
        BY <3>1, <3>2, <3>3
    <2> QED
      BY <2>1, <2>2
  <1>2. CASE (MaintainFails \/ CloseClient) /\ UNCHANGED shutdown
    <2>1. /\ UNCHANGED shutdown
          /\ ipc # "stopped"
          /\ ipc' # "stopped"
          /\ indexer_connection \in {Indexer!Connecting, Indexer!Connected}
          /\ indexer_connection' = Indexer!Reconnecting
      BY <1>2 DEF IndexerInv, MaintainFails, CloseClient, Returned, Indexer!Leave
    <2>2. IndexerLifecycle!Lose
      BY <2>1
      DEF IndexerLifecycle!Lose, Indexer!Connecting, Indexer!Connected, Indexer!Reconnecting
    <2> QED
      BY <2>1, <2>2
  <1>3. CASE StatusAnswered /\ UNCHANGED shutdown
    <2>1. /\ UNCHANGED shutdown
          /\ ipc # "stopped"
          /\ ipc' # "stopped"
          /\ indexer_connection = Indexer!Connecting
          /\ indexer_connection' = Indexer!Connected
      BY <1>3 DEF IndexerInv, StatusAnswered
    <2> QED
      BY <2>1 DEF IndexerLifecycle!Establish, Indexer!Connecting, Indexer!Connected
  <1>4. CASE /\ ConnectIndexer \/ SubscribeStatus \/ BreakLoop \/ Unsubscribe
             /\ UNCHANGED shutdown
    <2>1. /\ ipc # "stopped"
          /\ ipc' # "stopped"
          /\ UNCHANGED indexer_connection
      BY <1>4 DEF IndexerInv, ConnectIndexer, SubscribeStatus, BreakLoop, Unsubscribe,
                  Indexer!Advance
    <2> QED
      BY <1>4, <2>1
  <1>5. CASE (SyncSignal \/ \E c \in Clients : DropSocket(c)) /\ UNCHANGED shutdown
    <2>1. UNCHANGED <<ipc, indexer_connection>>
      BY <1>5 DEF SyncSignal, DropSocket
    <2> QED
      BY <1>5, <2>1
  <1>6. CASE TriggerShutdown /\ UNCHANGED IndexerVars
    BY <1>6 DEF TriggerShutdown, IndexerVars, IndexerLifecycle!RequestShutdown
  <1>7. CASE UNCHANGED <<shutdown, IndexerVars>>
    BY <1>7 DEF IndexerVars
  <1> QED
    BY StepCases, <1>1, <1>2, <1>3, <1>4, <1>5, <1>6, <1>7 DEF IndexerNext, Requests

\* watch_indexer and maintain_indexer_connection implement the lifecycle.
THEOREM IndexerIsLifecycle == Spec => IndexerImplementsLifecycle
  <1>1. Init => IndexerInv /\ ClientInv /\ SocketsInv
    BY IndexerStarts DEF Init
  <1>2. Init => IndexerLifecycle!Init
    BY DEF Init, IndexerInit, Indexer!Init, Indexer!Connecting, IndexerLifecycle!Init
  <1>3. IndexerInv /\ ClientInv /\ SocketsInv /\ [Next]_vars
        => /\ IndexerInv' /\ ClientInv' /\ SocketsInv'
           /\ [IndexerLifecycle!Next]_(IndexerLifecycle!vars)
    BY IndexerPart, IndexerSteps
  <1> QED
    BY <1>1, <1>2, <1>3, PTL DEF Spec, IndexerImplementsLifecycle, IndexerLifecycle!Spec
----------------------------------------------------------------------------
\* Everything at once: the three loops and the channel.
ConnectionsInv ==
    /\ shutdown \in BOOLEAN
    /\ ChainInv /\ IpfsInv
    /\ IndexerInv /\ ClientInv /\ SocketsInv

\* It holds at the start and is kept by every step.
LEMMA ConnectionsInvariant == Spec => []ConnectionsInv
  <1>1. Init => ConnectionsInv
    BY ChainStarts, IpfsStarts, IndexerStarts DEF Init, ConnectionsInv
  <1>2. ASSUME ConnectionsInv, [Next]_vars PROVE ConnectionsInv'
    <2>1. shutdown' \in BOOLEAN
      BY <1>2, StepCases DEF ConnectionsInv, TriggerShutdown
    <2> QED
      BY <1>2, <2>1, ChainSteps, IpfsSteps, IndexerPart DEF ConnectionsInv
  <1> QED
    BY <1>1, <1>2, PTL DEF Spec

\* Every signal, program counter, socket and channel keeps its type, and the
\* indexer loop holds a client exactly between connecting and its back-off.
THEOREM ConnectionsTypeCorrect == Spec => []TypeOK
  <1>1. ChainInv => ChainTypeOK
    BY DEF ChainInv, ChainTypeOK, Awaiting, Chain!Connections
  <1>2. IpfsInv => IpfsTypeOK
    BY DEF IpfsInv, IpfsTypeOK, Ipfs!Connections
  <1>3. ConnectionsInv => TypeOK
    BY <1>1, <1>2, IndexerTypes DEF ConnectionsInv, TypeOK
  <1> QED
    BY ConnectionsInvariant, <1>3, PTL

\* No path out of maintain_indexer_connection leaves its client in the channel.
THEOREM SharedClientIsMaintained == Spec => []SharedClientIsCurrent
  <1>1. ConnectionsInv => SharedClientIsCurrent
    BY SharedClient DEF ConnectionsInv
  <1> QED
    BY ConnectionsInvariant, <1>1, PTL
----------------------------------------------------------------------------
\* The invariants of the channel and of the signal, together.
LEMMA SignalInvariant == Spec => [](ConnectionsInv /\ NewestInv) /\ [][SignalNotBack]_vars
  <1>1. Init => NewestInv
    BY DEF Init, IndexerInit, NewestInv
  <1>2. ASSUME ConnectionsInv, NewestInv, [Next]_vars PROVE NewestInv' /\ SignalNotBack
    <2>1. [IndexerNext]_IndexerVars
      BY <1>2, StepCases
    <2> QED
      BY <1>2, <2>1, IndexerNewest DEF ConnectionsInv
  <1> QED
    BY <1>1, <1>2, ConnectionsInvariant, PTL DEF Spec

\* Whenever the views' signal differs from the channel, the App task has news to
\* read: no send is lost between its changed() and its copy.
THEOREM StaleSignalHasNews == Spec => [](indexer_client # indexer_client_tx => "app" \in client_unseen)
  <1>1. NewestInv => (indexer_client # indexer_client_tx => "app" \in client_unseen)
    BY DEF NewestInv
  <1> QED
    BY SignalInvariant, <1>1, PTL

\* However many reconnects the App task sleeps through, the signal goes from a client
\* to a newer one or to None, never back.
THEOREM SignalOnlyForward == Spec => [][SignalNotBack]_vars
  BY SignalInvariant, PTL

\* Once shutdown is requested no signal shows another attempt, and none changes
\* again when its loop has returned.
NoReconnect(connection, next, stopped) ==
    /\ shutdown /\ connection.status # "connecting" => next.status # "connecting"
    /\ stopped => next = connection /\ next.status # "connected"

NoLoopReconnects ==
    /\ NoReconnect(chain_connection, chain_connection', cpc = "stopped")
    /\ NoReconnect(ipfs_connection, ipfs_connection', ppc = "stopped")
    /\ NoReconnect(indexer_connection, indexer_connection', ipc = "stopped")

\* The promise of ARCHITECTURE.md, of all three loops: a loop exits instead of
\* entering another reconnect cycle, and its view is left with what it ended in.
THEOREM ShutdownEndsReconnecting == Spec => [][NoLoopReconnects]_vars
  <1>1. ASSUME ConnectionsInv, [Next]_vars
        PROVE  NoReconnect(chain_connection, chain_connection', cpc = "stopped")
    <2> USE DEF NoReconnect, Chain!Connecting, Chain!Connected, Chain!Reconnecting
    <2>1. CASE ChainNext
      BY <1>1, <2>1
      DEF ConnectionsInv, ChainInv, ChainNext, ChainEnter, Chain!Enter, ConnectClient, InspectFinalized,
          SubscribeBest, SubscribeFinalized, NextFinalized, ReadMetadata, ChainLost, ChainSeesShutdown,
          Awaiting, Chain!Leave, Chain!Advance
    <2>2. CASE UNCHANGED ChainVars
      BY <1>1, <2>2 DEF ConnectionsInv, ChainInv, ChainVars
    <2> QED
      BY <1>1, <2>1, <2>2, StepCases
  <1>2. ASSUME ConnectionsInv, [Next]_vars
        PROVE  NoReconnect(ipfs_connection, ipfs_connection', ppc = "stopped")
    <2> USE DEF NoReconnect, Ipfs!Connecting, Ipfs!Connected, Ipfs!Reconnecting
    <2>1. CASE IpfsNext
      BY <1>2, <2>1
      DEF ConnectionsInv, IpfsInv, IpfsNext, IpfsEnter, Ipfs!Enter, RequestAnswered, BodyDecoded,
          PauseElapsed, IpfsLost, IpfsSeesShutdown, Ipfs!Leave, Ipfs!Advance
    <2>2. CASE UNCHANGED IpfsVars
      BY <1>2, <2>2 DEF ConnectionsInv, IpfsInv, IpfsVars
    <2> QED
      BY <1>2, <2>1, <2>2, StepCases
  <1>3. ASSUME ConnectionsInv, [Next]_vars
        PROVE  NoReconnect(indexer_connection, indexer_connection', ipc = "stopped")
    <2> USE DEF NoReconnect, Indexer!Connecting, Indexer!Connected, Indexer!Reconnecting
    <2>1. CASE IndexerEnter
      BY <1>3, <2>1 DEF ConnectionsInv, IndexerInv, IndexerEnter, Indexer!Enter
    <2>2. CASE MaintainFails \/ CloseClient \/ StatusAnswered
      BY <1>3, <2>2 DEF ConnectionsInv, IndexerInv, Maintained, MaintainFails, CloseClient, Returned,
                        StatusAnswered, Indexer!Leave
    <2>3. CASE UNCHANGED indexer_connection
      BY <1>3, <2>3 DEF ConnectionsInv, IndexerInv
    <2>4. CASE \/ ConnectIndexer \/ SubscribeStatus \/ BreakLoop \/ Unsubscribe
               \/ SyncSignal \/ \E c \in Clients : DropSocket(c)
      BY <2>3, <2>4 DEF ConnectIndexer, SubscribeStatus, BreakLoop, Unsubscribe, SyncSignal,
                        DropSocket, Indexer!Advance
    <2>5. CASE UNCHANGED IndexerVars
      BY <2>3, <2>5 DEF IndexerVars
    <2> QED
      BY <1>3, <2>1, <2>2, <2>4, <2>5, StepCases DEF IndexerNext, Requests
  <1> QED
    BY <1>1, <1>2, <1>3, ConnectionsInvariant, PTL DEF Spec, NoLoopReconnects
=============================================================================
