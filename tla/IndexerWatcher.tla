--------------------------- MODULE IndexerWatcher ---------------------------
(***************************************************************************)
(* watch_indexer and maintain_indexer_connection (src/src/main.rs), the    *)
(* watch channel that shares the live IndexerClient, and the App task that *)
(* copies the channel into the signal the views read.                      *)
(*                                                                         *)
(* A client stands for the websocket it was connected over.  The indexer   *)
(* spans of a status update are left out: the update keeps Connected.      *)
(***************************************************************************)
EXTENDS Naturals, AppShutdown

CONSTANTS
    MaxClients,     \* bound: how many times connecting may succeed
    Receivers,      \* the receivers of the client channel besides the App task
    NoClient        \* Option::None

ASSUME IndexerAssumption ==
    /\ MaxClients \in Nat
    /\ NoClient \notin Nat
    /\ "app" \notin Receivers

VARIABLES
    ipc,                \* where watch_indexer is
    indexer_connection,
    client,             \* the local client of maintain_indexer_connection
    connects,           \* how many clients there have been
    sockets,            \* per client, its websocket
    indexer_client_tx,  \* the value in the watch channel
    client_unseen,      \* the receivers whose changed() is ready
    indexer_client      \* the signal the views read

Clients == 1..MaxClients

Indexer == INSTANCE RetryLoop WITH pc <- ipc, connection <- indexer_connection

AllReceivers == Receivers \cup {"app"}

IndexerInit ==
    /\ Indexer!Init
    /\ client = NoClient
    /\ connects = 0
    /\ sockets = [c \in Clients |-> "unused"]
    /\ indexer_client_tx = NoClient
    /\ client_unseen = {}
    /\ indexer_client = NoClient

wire == <<client, connects, sockets>>
channel == <<indexer_client_tx, client_unseen>>
IndexerVars == <<ipc, indexer_connection, wire, channel, indexer_client>>

\* Mutant of Send: dropping the client does not wake the receivers.
SendSilentNone(value) ==
    /\ indexer_client_tx' = value
    /\ client_unseen' = IF value = NoClient THEN client_unseen ELSE AllReceivers

\* watch::Sender::send: every send is news to every receiver.
Send(value) ==
    /\ indexer_client_tx' = value
    /\ client_unseen' = AllReceivers

\* Mutant of IndexerEnter: a new attempt still shows the old error.
IndexerEnterSilently ==
    /\ ipc \in {"start", "backoff"}
    /\ ipc' = IF shutdown THEN "stopped" ELSE "connect"
    /\ UNCHANGED <<indexer_connection, wire, channel, indexer_client>>

IndexerEnter == Indexer!Enter("connect") /\ UNCHANGED <<wire, channel, indexer_client>>

\* IndexerClient::connect opens a websocket.
ConnectIndexer ==
    /\ ipc = "connect"
    /\ connects < MaxClients
    /\ connects' = connects + 1
    /\ client' = connects + 1
    /\ sockets' = [sockets EXCEPT ![connects + 1] = "open"]
    /\ ipc' = "status"
    /\ UNCHANGED <<indexer_connection, channel, indexer_client>>

\* The status snapshot is there: Connected, and the client is shared.
StatusAnswered ==
    /\ ipc = "status"
    /\ sockets[client] = "open"
    /\ ipc' = "subscribe"
    /\ indexer_connection' = Indexer!Connected
    /\ Send(client)
    /\ UNCHANGED <<wire, indexer_client>>

SubscribeStatus ==
    /\ Indexer!Advance("subscribe", "updates")
    /\ sockets[client] = "open"
    /\ UNCHANGED <<wire, channel, indexer_client>>

\* Mutant of BreakLoop: only the end of the stream breaks the loop.
BreakLoopAtEnd ==
    /\ ipc = "updates"
    /\ sockets[client] # "open"
    /\ Indexer!Advance("updates", "unsubscribe")
    /\ UNCHANGED <<wire, channel, indexer_client>>

\* The subscription loop breaks: shutdown, or the stream ended.
BreakLoop ==
    /\ ipc = "updates"
    /\ shutdown \/ sockets[client] # "open"
    /\ Indexer!Advance("updates", "unsubscribe")
    /\ UNCHANGED <<wire, channel, indexer_client>>

Unsubscribe ==
    /\ ipc = "unsubscribe"
    /\ sockets[client] = "open"
    /\ Indexer!Advance("unsubscribe", "close")
    /\ UNCHANGED <<wire, channel, indexer_client>>

\* What watch_indexer does as soon as maintain_indexer_connection is back.
Returned ==
    /\ Indexer!Leave
    /\ client' = NoClient
    /\ Send(NoClient)
    /\ UNCHANGED <<connects, indexer_client>>

\* Mutant of MaintainFails: an error leaves the client in the channel.
MaintainFailsSilently ==
    /\ ipc \in {"connect", "status", "subscribe", "updates", "unsubscribe", "close"}
    /\ Indexer!Leave
    /\ client' = NoClient
    /\ UNCHANGED <<connects, sockets, channel, indexer_client>>

\* Mutant of MaintainFails: the client outlives its connection.
MaintainFailsKeepingClient ==
    /\ ipc \in {"connect", "status", "subscribe", "updates", "unsubscribe", "close"}
    /\ Indexer!Leave
    /\ Send(NoClient)
    /\ UNCHANGED <<wire, indexer_client>>

\* Any awaited call, and any update, may be an Err; ? returns at once.
MaintainFails ==
    /\ ipc \in {"connect", "status", "subscribe", "updates", "unsubscribe", "close"}
    /\ Returned
    /\ UNCHANGED sockets

\* IndexerClient::close succeeded.
CloseClient ==
    /\ ipc = "close"
    /\ sockets' = [sockets EXCEPT ![client] = "closed"]
    /\ Returned

\* The App task: rx.changed(), then the signal gets the latest value.
SyncSignal ==
    /\ "app" \in client_unseen
    /\ client_unseen' = client_unseen \ {"app"}
    /\ indexer_client' = indexer_client_tx
    /\ UNCHANGED <<ipc, indexer_connection, wire, indexer_client_tx>>

\* The indexer goes away, or the network does.
DropSocket(c) ==
    /\ sockets[c] = "open"
    /\ sockets' = [sockets EXCEPT ![c] = "down"]
    /\ UNCHANGED <<ipc, indexer_connection, client, connects, channel, indexer_client>>

Requests == ConnectIndexer \/ StatusAnswered \/ SubscribeStatus \/ Unsubscribe \/ CloseClient

IndexerNext ==
    \/ IndexerEnter \/ Requests \/ BreakLoop \/ MaintainFails \/ SyncSignal
    \/ \E c \in Clients : DropSocket(c)

\* Every awaited request comes back, well or not; timers fire and tasks whose
\* channel has news are polled.  Failures and drops need not happen.
IndexerFairness ==
    /\ WF_IndexerVars(IndexerEnter)
    /\ WF_IndexerVars(ipc # "updates" /\ (Requests \/ MaintainFails))
    /\ WF_IndexerVars(BreakLoop)
    /\ WF_IndexerVars(SyncSignal)
----------------------------------------------------------------------------
IndexerTypeOK ==
    /\ ipc \in {"start", "connect", "status", "subscribe", "updates", "unsubscribe", "close",
                "backoff", "stopped"}
    /\ indexer_connection \in Indexer!Connections
    /\ client \in Clients \cup {NoClient}
    /\ client = NoClient <=> ipc \in {"start", "connect", "backoff", "stopped"}
    /\ connects \in 0..MaxClients
    /\ sockets \in [Clients -> {"unused", "open", "down", "closed"}]
    /\ indexer_client_tx \in Clients \cup {NoClient}
    /\ client_unseen \subseteq AllReceivers
    /\ indexer_client \in Clients \cup {NoClient}

\* A shared client is the one being maintained, and it is shared only while
\* the views show Connected: no path out of the connection leaves it behind.
SharedClientIsCurrent ==
    indexer_client_tx # NoClient => /\ indexer_client_tx = client
                                    /\ indexer_connection = Indexer!Connected

\* The signal the views read never stays behind the channel for good.
SignalFollowsChannel == []<>(indexer_client = indexer_client_tx)

\* README.md:26: the websocket "is explicitly closed with
\* IndexerClient::close() when its subscription loop exits".
LoopExitClosesSocket ==
    [][(ipc \in {"updates", "unsubscribe", "close"} /\ ipc' = "backoff")
        => sockets'[client] # "open"]_<<ipc, sockets>>
=============================================================================
