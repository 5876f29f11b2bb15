--------------------------- MODULE IndexerProofs ---------------------------
(***************************************************************************)
(* What the steps of watch_indexer keep, in whatever they are composed     *)
(* with: where the loop stands decides what its signal shows and what the  *)
(* watch channel holds, and clients are numbered as they are connected.    *)
(***************************************************************************)
EXTENDS IndexerWatcher, TLAPS

\* The awaits during which the client is shared.
Maintained == {"subscribe", "updates", "unsubscribe", "close"}

IndexerInv ==
    /\ ipc \in {"start", "connect", "status", "backoff", "stopped"} \cup Maintained
    /\ ipc \in {"start", "connect", "status"} => indexer_connection = Indexer!Connecting
    /\ ipc \in Maintained => indexer_connection = Indexer!Connected
    /\ ipc = "backoff" => indexer_connection = Indexer!Reconnecting
    /\ ipc = "stopped" => indexer_connection \in {Indexer!Connecting, Indexer!Reconnecting}

Connected == 1..connects

ClientInv ==
    /\ client \in Connected \cup {NoClient}
    /\ client = NoClient <=> ipc \in {"start", "connect", "backoff", "stopped"}
    /\ indexer_client_tx # NoClient => ipc \in Maintained /\ indexer_client_tx = client

SocketsInv ==
    /\ connects \in 0..MaxClients
    /\ sockets \in [Clients -> {"unused", "open", "down", "closed"}]
    /\ client_unseen \subseteq AllReceivers
    /\ indexer_client \in Connected \cup {NoClient}

\* A client that has been connected has a socket, and None has not.
LEMMA ConnectedAreClients ==
    ASSUME SocketsInv
    PROVE  Connected \subseteq Clients /\ NoClient \notin Connected
  BY IndexerAssumption DEF SocketsInv, Connected, Clients

\* watch_indexer starts without a client, in or out of the channel.
LEMMA IndexerStarts == IndexerInit => IndexerInv /\ ClientInv /\ SocketsInv
  <1> SUFFICES ASSUME IndexerInit PROVE IndexerInv /\ ClientInv /\ SocketsInv
    OBVIOUS
  <1> USE DEF IndexerInit
  <1>1. IndexerInv
    BY DEF Indexer!Init, Indexer!Connecting, IndexerInv, Maintained
  <1>2. ClientInv
    BY DEF Indexer!Init, ClientInv
  <1>3. connects \in 0..MaxClients
    BY IndexerAssumption
  <1>4. sockets \in [Clients -> {"unused", "open", "down", "closed"}]
    OBVIOUS
  <1>5. client_unseen \subseteq AllReceivers /\ indexer_client \in Connected \cup {NoClient}
    OBVIOUS
  <1> QED
    BY <1>1, <1>2, <1>3, <1>4, <1>5 DEF SocketsInv

\* The signal follows the loop: Connected exactly while it maintains.
LEMMA IndexerSignal ==
    ASSUME IndexerInv, [IndexerNext]_IndexerVars
    PROVE  IndexerInv'
  <1> USE DEF IndexerInv, Maintained
  <1>1. CASE IndexerEnter
    BY <1>1 DEF IndexerEnter, Indexer!Enter
  <1>2. CASE MaintainFails \/ CloseClient
    BY <1>2 DEF MaintainFails, CloseClient, Returned, Indexer!Leave
  <1>3. CASE StatusAnswered
    BY <1>3 DEF StatusAnswered
  <1>4. CASE ConnectIndexer \/ SubscribeStatus \/ BreakLoop \/ Unsubscribe
    BY <1>4 DEF ConnectIndexer, SubscribeStatus, BreakLoop, Unsubscribe, Indexer!Advance
  <1>5. CASE SyncSignal \/ \E c \in Clients : DropSocket(c)
    BY <1>5 DEF SyncSignal, DropSocket
  <1>6. CASE UNCHANGED IndexerVars
    BY <1>6 DEF IndexerVars
  <1> QED
    BY <1>1, <1>2, <1>3, <1>4, <1>5, <1>6 DEF IndexerNext, Requests

\* The channel holds the maintained client or None, whatever fails.
LEMMA IndexerClients ==
    ASSUME ClientInv, SocketsInv, [IndexerNext]_IndexerVars
    PROVE  ClientInv'
  <1> USE DEF ClientInv, Maintained
  <1>1. CASE IndexerEnter
    BY <1>1 DEF IndexerEnter, Indexer!Enter, wire, channel, Connected
  <1>2. CASE ConnectIndexer
    <2>1. client' \in Connected' /\ client' # NoClient /\ ipc = "connect" /\ ipc' = "status"
      BY <1>2, IndexerAssumption DEF ConnectIndexer, SocketsInv, Connected
    <2>2. UNCHANGED indexer_client_tx
      BY <1>2 DEF ConnectIndexer, channel
    <2> QED
      BY <2>1, <2>2
  <1>3. CASE StatusAnswered
    BY <1>3 DEF StatusAnswered, Send, wire, Connected
  <1>4. CASE SubscribeStatus \/ BreakLoop \/ Unsubscribe
    BY <1>4 DEF SubscribeStatus, BreakLoop, Unsubscribe, Indexer!Advance, wire, channel, Connected
  <1>5. CASE MaintainFails \/ CloseClient
    BY <1>5 DEF MaintainFails, CloseClient, Returned, Indexer!Leave, Send
  <1>6. CASE SyncSignal \/ \E c \in Clients : DropSocket(c)
    BY <1>6 DEF SyncSignal, DropSocket, wire, channel, Connected
  <1>7. CASE UNCHANGED IndexerVars
    BY <1>7 DEF IndexerVars, wire, channel, Connected
  <1> QED
    BY <1>1, <1>2, <1>3, <1>4, <1>5, <1>6, <1>7 DEF IndexerNext, Requests

\* Each connect gets a socket of its own; signal and news stay in range.
LEMMA IndexerSockets ==
    ASSUME ClientInv, SocketsInv, [IndexerNext]_IndexerVars
    PROVE  SocketsInv'
  <1> USE DEF SocketsInv, Connected
  <1>1. CASE IndexerEnter \/ SubscribeStatus \/ BreakLoop \/ Unsubscribe
    BY <1>1 DEF IndexerEnter, SubscribeStatus, BreakLoop, Unsubscribe, wire, channel
  <1>2. CASE ConnectIndexer
    <2>1. connects' = connects + 1 /\ connects' \in 0..MaxClients
      BY <1>2, IndexerAssumption DEF ConnectIndexer
    <2>2. sockets' \in [Clients -> {"unused", "open", "down", "closed"}]
      BY <1>2 DEF ConnectIndexer
    <2>3. client_unseen' \subseteq AllReceivers
      BY <1>2 DEF ConnectIndexer, channel
    <2>4. indexer_client' \in Connected' \cup {NoClient}
      <3>1. indexer_client' \in Connected \cup {NoClient}
        BY <1>2 DEF ConnectIndexer
      <3>2. Connected \subseteq Connected'
        BY <2>1
      <3> QED
        BY <3>1, <3>2
    <2> QED
      BY <2>1, <2>2, <2>3, <2>4
  <1>3. CASE StatusAnswered \/ MaintainFails
    BY <1>3 DEF StatusAnswered, MaintainFails, Returned, Send, wire
  <1>4. CASE CloseClient
    BY <1>4 DEF CloseClient, Returned, Send
  <1>5. CASE SyncSignal
    BY <1>5 DEF SyncSignal, wire, ClientInv
  <1>6. CASE \E c \in Clients : DropSocket(c)
    BY <1>6 DEF DropSocket, channel
  <1>7. CASE UNCHANGED IndexerVars
    BY <1>7 DEF IndexerVars, wire, channel
  <1> QED
    BY <1>1, <1>2, <1>3, <1>4, <1>5, <1>6, <1>7 DEF IndexerNext, Requests

\* Together they bound everything the loop and the App task write.
LEMMA IndexerTypes ==
    ASSUME IndexerInv, ClientInv, SocketsInv
    PROVE  IndexerTypeOK
  BY ConnectedAreClients
  DEF IndexerInv, ClientInv, SocketsInv, IndexerTypeOK, Maintained, Indexer!Connections

\* They imply that a shared client is the current one.
LEMMA SharedClient == IndexerInv /\ ClientInv => SharedClientIsCurrent
  BY DEF IndexerInv, ClientInv, SharedClientIsCurrent
----------------------------------------------------------------------------
\* The client being maintained is the last one connected, and where the signal
\* differs from the channel the App task has news to read.
NewestInv ==
    /\ client # NoClient => client = connects
    /\ indexer_client # indexer_client_tx => "app" \in client_unseen

\* The signal is never set back to an older client than it holds.
SignalNotBack ==
    indexer_client # NoClient /\ indexer_client' # NoClient => indexer_client <= indexer_client'

\* Only a connect makes a client, and only the App task sets the signal.
LEMMA IndexerNewest ==
    ASSUME ClientInv, SocketsInv, NewestInv, [IndexerNext]_IndexerVars
    PROVE  NewestInv' /\ SignalNotBack
  <1> USE DEF NewestInv, SignalNotBack, Connected
  <1>1. /\ connects \in Nat /\ indexer_client \in 1..connects \cup {NoClient}
        /\ client \in 1..connects \cup {NoClient}
        /\ indexer_client_tx # NoClient => indexer_client_tx = client
    BY IndexerAssumption DEF ClientInv, SocketsInv
  <1>2. ASSUME UNCHANGED indexer_client PROVE SignalNotBack
    BY <1>1, <1>2
  <1>3. CASE IndexerEnter \/ SubscribeStatus \/ BreakLoop \/ Unsubscribe
    BY <1>2, <1>3 DEF IndexerEnter, SubscribeStatus, BreakLoop, Unsubscribe, wire, channel
  <1>4. CASE ConnectIndexer
    BY <1>2, <1>4 DEF ConnectIndexer, channel
  <1>5. CASE StatusAnswered
    BY <1>2, <1>5 DEF StatusAnswered, Send, AllReceivers, wire
  <1>6. CASE MaintainFails \/ CloseClient
    BY <1>2, <1>6 DEF MaintainFails, CloseClient, Returned, Send, AllReceivers
  <1>7. CASE SyncSignal
    <2>1. NewestInv'
      BY <1>7 DEF SyncSignal, wire
    <2>2. indexer_client' # NoClient => indexer_client' = connects
      BY <1>1, <1>7 DEF SyncSignal
    <2> QED
      BY <1>1, <2>1, <2>2
  <1>8. CASE \E c \in Clients : DropSocket(c)
    BY <1>2, <1>8 DEF DropSocket, channel
  <1>9. CASE UNCHANGED IndexerVars
    BY <1>2, <1>9 DEF IndexerVars, wire, channel
  <1> QED
    BY <1>3, <1>4, <1>5, <1>6, <1>7, <1>8, <1>9 DEF IndexerNext, Requests
=============================================================================
