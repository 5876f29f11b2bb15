--------------------------- MODULE BalanceProofs ---------------------------
(***************************************************************************)
(* watch_active_account_balance, for any accounts, any number of           *)
(* reconnects and any number of events: it never waits with an address or  *)
(* a client that its channels have replaced, and no event indexed while it *)
(* is subscribed goes unseen.                                              *)
(***************************************************************************)
EXTENDS BalanceWatcher, IndexerProofs

HasClient == {"subscribe", "subfailed", "listen", "refetch", "refetching"}
HasAccount == {"fetch", "fetching", "waitclient"} \cup HasClient
HasAddress == {"waitaddress", "skip"} \cup HasAccount

FlagsInv ==
    /\ shutdown \in BOOLEAN
    /\ address_unseen \in BOOLEAN
    /\ failed_fetch \in BOOLEAN

\* Where the task is decides what it holds, and a client it holds has been
\* connected, so that its socket cannot open again.
PlaceInv ==
    /\ bpc \in {"start", "unsubscribe", "unsubscribe_last", "stopped"} \cup HasAddress
    /\ active_address \in Addresses
    /\ address \in Addresses
    /\ bpc \in HasAccount => address \in DecodableAccounts
    /\ subscriber \in Connected \cup {NoClient}
    /\ bpc \in HasClient => subscriber \in Connected

\* From taking a value to the next wait, only news can make it stale.
LatestInv ==
    /\ bpc \in HasAddress /\ ~address_unseen => address = active_address
    /\ bpc \in HasClient \cup {"waitclient"} /\ "balance" \notin client_unseen
        => subscriber = indexer_client_tx

\* The indexer never overtakes the chain, and no more notifications wait than
\* there were events.
AmountsInv ==
    /\ read \in 0..MaxTransfers
    /\ balance \in [of : Addresses, amount : 0..MaxTransfers]
    /\ funds \in [Accounts -> 0..MaxTransfers]
    /\ indexed \in [Accounts -> 0..MaxTransfers]
    /\ \A a \in Accounts : indexed[a] <= funds[a]
    /\ baseline \in 0..MaxTransfers
    /\ pending \in Nat
    /\ pending > 0 => address \in Accounts /\ pending <= indexed[address]

\* What has been read and what is still announced together reach the indexer.
NotifyInv ==
    /\ bpc \in {"waitclient", "subscribe", "subfailed", "listen"} /\ ~failed_fetch
        => balance.of = address
    /\ bpc = "refetching" /\ sockets[subscriber] = "open"
        => read + pending >= indexed[address]
    /\ bpc = "listen" /\ sockets[subscriber] = "open" /\ ~failed_fetch
        => balance.amount + pending >= indexed[address] \/ balance.amount < baseline

----------------------------------------------------------------------------
\* What the task's own steps leave alone, of the part it shares.
OwnStep ==
    /\ UNCHANGED others
    /\ client_unseen' \in {client_unseen, client_unseen \ {"balance"}}

\* The task writes nothing shared but what it has seen of the client channel.
LEMMA TaskIsOwnStep ==
    ASSUME Task \/ StreamErrs \/ BalanceSeesShutdown
    PROVE  OwnStep
  <1> USE DEF OwnStep, SeeClient
  <1>1. CASE Start \/ AddressArrives \/ StreamEnds \/ StreamErrs \/ Unsubscribed
    BY <1>1 DEF Start, AddressArrives, StreamEnds, StreamErrs, Unsubscribed
  <1>2. CASE ReadBlock \/ Subscribe \/ SubscribeFails \/ TakeNotification \/ BalanceSeesShutdown
    BY <1>2 DEF ReadBlock, Subscribe, SubscribeFails, TakeNotification, BalanceSeesShutdown
  <1>3. CASE ShowBalance \/ FetchFails
    BY <1>3 DEF ShowBalance, FetchFails, AfterFetch, TakeClient
  <1>4. CASE ClientArrives \/ RetryWithClient \/ BreakListening
    BY <1>4 DEF ClientArrives, RetryWithClient, BreakListening, TakeClient
  <1> QED
    BY <1>1, <1>2, <1>3, <1>4 DEF Task

\* A step is the task's, an account switch, the chain's, or another part's.
LEMMA StepCases ==
    ASSUME [Next]_vars
    PROVE  \/ (Task \/ StreamErrs \/ BalanceSeesShutdown) /\ OwnStep
           \/ \E a \in Addresses : SendActiveAddress(a)
           \/ \E a \in DecodableAccounts : Transfer(a) \/ IndexEvent(a)
           \/ [IndexerNext]_IndexerVars /\ UNCHANGED <<shutdown, BalanceVars>>
           \/ TriggerShutdown /\ UNCHANGED <<IndexerVars, BalanceVars>>
  BY TaskIsOwnStep DEF Next, vars

\* Seeing news does not disturb what is known of the indexer loop.
LEMMA OwnStepKeepsIndexer ==
    ASSUME IndexerInv, ClientInv, SocketsInv, OwnStep
    PROVE  IndexerInv' /\ ClientInv' /\ SocketsInv'
  <1>1. UNCHANGED <<ipc, indexer_connection, client, connects, sockets, indexer_client_tx,
                    indexer_client>>
    BY DEF OwnStep, others, wire
  <1>2. client_unseen' \subseteq client_unseen
    BY DEF OwnStep
  <1> QED
    BY <1>1, <1>2 DEF IndexerInv, ClientInv, SocketsInv, Connected

\* So what IndexerProofs knows of the loop holds in the composition.
LEMMA IndexerPart ==
    ASSUME IndexerInv, ClientInv, SocketsInv, [Next]_vars
    PROVE  IndexerInv' /\ ClientInv' /\ SocketsInv'
  <1>1. CASE [IndexerNext]_IndexerVars
    BY <1>1, IndexerSignal, IndexerClients, IndexerSockets
  <1>2. CASE OwnStep
    BY <1>2, OwnStepKeepsIndexer
  <1>3. CASE UNCHANGED IndexerVars
    BY <1>3, <1>1
  <1> QED
    BY StepCases, <1>1, <1>2, <1>3 DEF SendActiveAddress, Transfer, IndexEvent

\* What the indexer loop can do to a subscriber: another value in the channel
\* is news, news stays, clients only appear and sockets only close.
LEMMA IndexerIsNews ==
    ASSUME SocketsInv, [IndexerNext]_IndexerVars
    PROVE  /\ "balance" \notin client_unseen'
                => "balance" \notin client_unseen /\ UNCHANGED indexer_client_tx
           /\ Connected \subseteq Connected'
           /\ \A c \in Connected : sockets'[c] = "open" => sockets[c] = "open"
  <1> USE BalanceAssumption DEF AllReceivers, Connected, SocketsInv
  <1>1. CASE IndexerEnter \/ SubscribeStatus \/ BreakLoop \/ Unsubscribe \/ UNCHANGED IndexerVars
    BY <1>1 DEF IndexerEnter, SubscribeStatus, BreakLoop, Unsubscribe, IndexerVars, wire, channel
  <1>2. CASE ConnectIndexer
    <2>1. connects' = connects + 1 /\ UNCHANGED channel
      BY <1>2 DEF ConnectIndexer
    <2>2. \A c \in Connected : sockets'[c] = sockets[c]
      BY <1>2 DEF ConnectIndexer, Clients
    <2> QED
      BY <2>1, <2>2 DEF channel
  <1>3. CASE StatusAnswered \/ MaintainFails
    BY <1>3 DEF StatusAnswered, MaintainFails, Returned, Send, wire
  <1>4. CASE CloseClient
    <2>1. "balance" \in client_unseen' /\ UNCHANGED connects
      BY <1>4 DEF CloseClient, Returned, Send
    <2>2. \A c \in Connected : sockets'[c] = "open" => sockets[c] = "open"
      BY <1>4, ConnectedAreClients DEF CloseClient
    <2> QED
      BY <2>1, <2>2
  <1>5. CASE SyncSignal
    BY <1>5 DEF SyncSignal, wire
  <1>6. CASE \E d \in Clients : DropSocket(d)
    <2>1. UNCHANGED <<connects, channel>>
      BY <1>6 DEF DropSocket
    <2>2. \A c \in Connected : sockets'[c] = "open" => sockets[c] = "open"
      BY <1>6, ConnectedAreClients DEF DropSocket
    <2> QED
      BY <2>1, <2>2 DEF channel
  <1> QED
    BY <1>1, <1>2, <1>3, <1>4, <1>5, <1>6 DEF IndexerNext, Requests
----------------------------------------------------------------------------
\* The three Boolean variables stay Boolean.
LEMMA FlagsSteps ==
    ASSUME FlagsInv, [Next]_vars
    PROVE  FlagsInv'
  <1>1. CASE Task \/ StreamErrs \/ BalanceSeesShutdown
    <2>1. address_unseen' \in {address_unseen, FALSE}
      BY <1>1 DEF Task, StreamErrs, BalanceSeesShutdown, Start, AddressArrives, ReadBlock,
                  ShowBalance, FetchFails, ClientArrives, Subscribe, SubscribeFails,
                  RetryWithClient, BreakListening, Unsubscribed, StreamEnds, TakeNotification,
                  TakeAddress, AfterFetch
    <2>2. failed_fetch' \in {failed_fetch, FALSE, TRUE}
      BY <1>1 DEF Task, StreamErrs, BalanceSeesShutdown, Start, AddressArrives, ReadBlock,
                  ShowBalance, FetchFails, ClientArrives, Subscribe, SubscribeFails,
                  RetryWithClient, BreakListening, Unsubscribed, StreamEnds, TakeNotification,
                  TakeAddress
    <2>3. UNCHANGED shutdown
      BY <1>1, TaskIsOwnStep DEF OwnStep, others
    <2> QED
      BY <2>1, <2>2, <2>3 DEF FlagsInv
  <1>2. CASE \E a \in Addresses : SendActiveAddress(a)
    BY <1>2 DEF SendActiveAddress, FlagsInv
  <1>3. CASE \E a \in DecodableAccounts : Transfer(a) \/ IndexEvent(a)
    BY <1>3 DEF Transfer, IndexEvent, address_channel, FlagsInv
  <1>4. CASE UNCHANGED <<shutdown, BalanceVars>>
    BY <1>4 DEF BalanceVars, address_channel, FlagsInv
  <1>5. CASE TriggerShutdown /\ UNCHANGED BalanceVars
    BY <1>5 DEF TriggerShutdown, BalanceVars, address_channel, FlagsInv
  <1> QED
    BY StepCases, <1>1, <1>2, <1>3, <1>4, <1>5

\* TakeAddress starts over: the task holds the latest address and no client.
LEMMA TakenAddress ==
    ASSUME PlaceInv, AmountsInv, TakeAddress, UNCHANGED <<others, connects>>
    PROVE  PlaceInv' /\ LatestInv' /\ AmountsInv' /\ NotifyInv'
  <1> USE DEF TakeAddress, others, environment
  <1>1. PlaceInv'
    <2>1. bpc' \in {"waitaddress", "skip", "fetch"}
      OBVIOUS
    <2>2. bpc' = "fetch" => active_address \in DecodableAccounts
      BY DEF PlaceInv, Addresses, DecodableAccounts
    <2> QED
      BY <2>1, <2>2 DEF PlaceInv, HasAddress, HasAccount, HasClient
  <1>2. LatestInv'
    BY DEF LatestInv, HasClient
  <1>3. AmountsInv'
    <2>1. read' \in 0..MaxTransfers /\ baseline' \in 0..MaxTransfers
      BY BalanceAssumption
    <2>2. balance' \in [of : Addresses, amount : 0..MaxTransfers]
      BY BalanceAssumption DEF AmountsInv, NoBalance, Addresses
    <2> QED
      BY <2>1, <2>2 DEF AmountsInv
  <1>4. NotifyInv'
    BY DEF NotifyInv
  <1> QED
    BY <1>1, <1>2, <1>3, <1>4

\* TakeClient: the task holds what the channel holds, and goes on with it
\* only when it is a client.
LEMMA TakenClient ==
    ASSUME SocketsInv, ClientInv, TakeClient, UNCHANGED <<others, address, address_unseen>>,
           PlaceInv, LatestInv, bpc \in HasAccount
    PROVE  PlaceInv' /\ LatestInv'
  <1> USE DEF TakeClient, SeeClient, others, wire
  <1>1. indexer_client_tx \in Connected \cup {NoClient}
    BY DEF ClientInv
  <1>2. PlaceInv'
    BY <1>1 DEF PlaceInv, HasAddress, HasAccount, HasClient, Connected
  <1>3. LatestInv'
    BY DEF LatestInv, HasAddress, HasAccount, HasClient
  <1> QED
    BY <1>2, <1>3
\* The parts about the task itself.
TaskInv == PlaceInv /\ LatestInv /\ AmountsInv /\ NotifyInv

\* Leaving a wait, the task has nothing to be current with.
LEMMA Leaving ==
    ASSUME TaskInv, OwnStep,
           UNCHANGED <<address, subscriber, read, balance, subscription>>,
           bpc' \in {"unsubscribe", "unsubscribe_last", "stopped"}
    PROVE  TaskInv'
  <1> USE DEF TaskInv, OwnStep, others, wire, environment, subscription
  <1>1. PlaceInv'
    BY DEF PlaceInv, HasAddress, HasAccount, HasClient, Connected
  <1>2. LatestInv'
    BY DEF LatestInv, HasAddress, HasAccount, HasClient
  <1>3. AmountsInv'
    BY DEF AmountsInv
  <1>4. NotifyInv'
    BY DEF NotifyInv
  <1> QED
    BY <1>1, <1>2, <1>3, <1>4

\* After a fetch: what it showed covers what it had read.
LEMMA Fetched ==
    ASSUME ClientInv, SocketsInv, TaskInv, OwnStep, AfterFetch,
           bpc \in {"fetch", "refetch", "fetching", "refetching"},
           \/ UNCHANGED balance /\ failed_fetch'
           \/ /\ bpc \in {"fetching", "refetching"}
              /\ balance' = [of |-> address, amount |-> read]
    PROVE  TaskInv'
  <1> USE DEF TaskInv
  <1>1. UNCHANGED <<others, address, address_unseen, pending, baseline>> /\ read' = 0
    BY DEF AfterFetch, subscription
  <1>2. UNCHANGED <<active_address, funds, indexed, sockets, connects>>
    BY <1>1 DEF others, environment, wire
  <1>3. PlaceInv' /\ LatestInv'
    <2>1. CASE TakeClient
      BY <2>1, <1>1, TakenClient DEF HasAccount, HasClient
    <2>2. CASE bpc \in {"refetch", "refetching"} /\ bpc' = "listen"
               /\ UNCHANGED <<subscriber, client_unseen>>
      <3>1. UNCHANGED indexer_client_tx
        BY <1>1 DEF others
      <3>2. PlaceInv'
        BY <1>1, <1>2, <2>2 DEF PlaceInv, HasAddress, HasAccount, HasClient, Connected
      <3>3. LatestInv'
        BY <1>1, <1>2, <2>2, <3>1 DEF LatestInv, HasAddress, HasAccount, HasClient
      <3> QED
        BY <3>2, <3>3
    <2> QED
      BY <2>1, <2>2 DEF AfterFetch
  <1>4. AmountsInv'
    <2>1. read' \in 0..MaxTransfers
      BY <1>1, BalanceAssumption
    <2>2. balance' \in [of : Addresses, amount : 0..MaxTransfers]
      BY DEF AmountsInv, PlaceInv
    <2> QED
      BY <1>1, <1>2, <2>1, <2>2 DEF AmountsInv
  <1>5. NotifyInv'
    <2>1. bpc' # "refetching"
      BY DEF AfterFetch, TakeClient
    <2>2. CASE failed_fetch'
      BY <2>1, <2>2 DEF NotifyInv
    <2>3. CASE ~failed_fetch'
      <3>1. bpc \in {"fetching", "refetching"} /\ balance'.of = address /\ balance'.amount = read
        BY <2>3
      <3>2. bpc' = "listen" => bpc = "refetching" /\ UNCHANGED subscriber
        BY <3>1 DEF AfterFetch, TakeClient
      <3>3. bpc' = "listen" /\ sockets'[subscriber'] = "open"
              => balance'.amount + pending' >= indexed'[address']
        BY <1>1, <1>2, <3>1, <3>2 DEF NotifyInv
      <3> QED
        BY <1>1, <2>1, <3>1, <3>3 DEF NotifyInv
    <2> QED
      BY <2>2, <2>3
  <1> QED
    BY <1>3, <1>4, <1>5
\* Every step of the task, from one await to the next, keeps its invariant.
LEMMA TaskSteps ==
    ASSUME ClientInv, SocketsInv, TaskInv, Task \/ StreamErrs \/ BalanceSeesShutdown
    PROVE  TaskInv'
  <1>0. OwnStep /\ UNCHANGED <<others, active_address, funds, indexed, sockets, connects,
                              indexer_client_tx>>
    BY TaskIsOwnStep DEF OwnStep, others, environment, wire
  <1>1. CASE TakeAddress
    BY <1>0, <1>1, TakenAddress DEF TaskInv
  <1>2. CASE ReadBlock
    <2> USE DEF ReadBlock, subscription
    <2>1. address \in Accounts
      BY <1>2 DEF TaskInv, PlaceInv, HasAccount, HasClient, DecodableAccounts
    <2>2. PlaceInv'
      BY <1>0, <1>2 DEF TaskInv, PlaceInv, HasAddress, HasAccount, HasClient, Connected
    <2>3. LatestInv'
      BY <1>0, <1>2 DEF TaskInv, LatestInv, HasAddress, HasAccount, HasClient
    <2>4. read' = funds[address] /\ funds[address] \in 0..MaxTransfers
      BY <1>2, <2>1 DEF TaskInv, AmountsInv
    <2>5. AmountsInv'
      BY <1>0, <1>2, <2>4 DEF TaskInv, AmountsInv
    <2>6. indexed[address] \in Nat /\ indexed[address] <= funds[address]
      BY <2>1 DEF TaskInv, AmountsInv
    <2>7. read' + pending' >= indexed'[address']
      <3>1. UNCHANGED <<pending, indexed, address>>
        BY <1>0, <1>2
      <3>2. pending \in Nat /\ funds[address] \in Nat
        BY <2>4 DEF TaskInv, AmountsInv
      <3> QED
        BY <2>4, <2>6, <3>1, <3>2
    <2>8. NotifyInv'
      BY <1>2, <2>7 DEF NotifyInv
    <2> QED
      BY <2>2, <2>3, <2>5, <2>8 DEF TaskInv
  <1>3. CASE ShowBalance \/ FetchFails
    BY <1>0, <1>3, Fetched DEF ShowBalance, FetchFails
  <1>4. CASE ClientArrives
    <2> USE DEF ClientArrives, subscription
    <2>1. PlaceInv' /\ LatestInv'
      BY <1>0, <1>4, TakenClient DEF TaskInv, HasAccount
    <2>2. AmountsInv'
      BY <1>0, <1>4 DEF TaskInv, AmountsInv
    <2>3. NotifyInv'
      BY <1>4 DEF TaskInv, NotifyInv, TakeClient
    <2> QED
      BY <2>1, <2>2, <2>3 DEF TaskInv
  <1>5. CASE Subscribe
    <2> USE DEF Subscribe
    <2>1. address \in Accounts
      BY <1>5 DEF TaskInv, PlaceInv, HasAccount, HasClient, DecodableAccounts
    <2>2. PlaceInv' /\ LatestInv'
      BY <1>0, <1>5
      DEF TaskInv, PlaceInv, LatestInv, HasAddress, HasAccount, HasClient, Connected
    <2>3. baseline' = indexed[address] /\ indexed[address] \in 0..MaxTransfers
      BY <1>5, <2>1 DEF TaskInv, AmountsInv
    <2>4. AmountsInv'
      BY <1>0, <1>5, <2>3 DEF TaskInv, AmountsInv
    <2>5. balance'.amount + pending' >= indexed'[address'] \/ balance'.amount < baseline'
      <3>1. UNCHANGED <<pending, balance, indexed, address>>
        BY <1>0, <1>5
      <3>2. pending \in Nat /\ balance.amount \in Nat
        BY DEF TaskInv, AmountsInv
      <3> QED
        BY <2>3, <3>1, <3>2
    <2>6. NotifyInv'
      BY <1>5, <2>5 DEF TaskInv, NotifyInv
    <2> QED
      BY <2>2, <2>4, <2>6 DEF TaskInv
  <1>6. CASE SubscribeFails
    <2> USE DEF SubscribeFails, subscription
    <2>1. PlaceInv' /\ LatestInv'
      BY <1>0, <1>6
      DEF TaskInv, PlaceInv, LatestInv, HasAddress, HasAccount, HasClient, Connected
    <2>2. AmountsInv'
      BY <1>0, <1>6 DEF TaskInv, AmountsInv
    <2>3. NotifyInv'
      BY <1>6 DEF TaskInv, NotifyInv
    <2> QED
      BY <2>1, <2>2, <2>3 DEF TaskInv
  <1>7. CASE BreakListening \/ BalanceSeesShutdown \/ (Unsubscribed /\ ~TakeAddress)
    BY <1>0, <1>7, Leaving DEF BreakListening, BalanceSeesShutdown, Unsubscribed
  <1>8. CASE TakeNotification
    <2> USE DEF TakeNotification
    <2>1. PlaceInv' /\ LatestInv'
      BY <1>0, <1>8
      DEF TaskInv, PlaceInv, LatestInv, HasAddress, HasAccount, HasClient, Connected
    <2>2. address \in Accounts /\ indexed[address] \in Nat
      BY <1>8 DEF TaskInv, AmountsInv
    <2>3. AmountsInv'
      BY <1>0, <1>8, <2>2 DEF TaskInv, AmountsInv
    <2>4. NotifyInv'
      BY <1>8 DEF NotifyInv
    <2> QED
      BY <2>1, <2>3, <2>4 DEF TaskInv
  <1> QED
    BY <1>1, <1>2, <1>3, <1>4, <1>5, <1>6, <1>7, <1>8
    DEF Task, StreamErrs, Start, AddressArrives, RetryWithClient, StreamEnds
\* The steps around the task: switching accounts is news, and so is another
\* client; an indexed event is a notification while the socket is open.
LEMMA SurroundingSteps ==
    ASSUME SocketsInv, TaskInv,
           \/ \E a \in Addresses : SendActiveAddress(a)
           \/ \E a \in DecodableAccounts : Transfer(a) \/ IndexEvent(a)
           \/ [IndexerNext]_IndexerVars /\ UNCHANGED <<shutdown, BalanceVars>>
           \/ TriggerShutdown /\ UNCHANGED <<IndexerVars, BalanceVars>>
    PROVE  TaskInv'
  <1>1. ASSUME NEW a \in Addresses, SendActiveAddress(a) PROVE TaskInv'
    <2> USE <1>1 DEF SendActiveAddress, IndexerVars, wire, channel, environment, subscription
    <2>1. PlaceInv'
      BY DEF TaskInv, PlaceInv, Connected
    <2>2. LatestInv'
      BY DEF TaskInv, LatestInv
    <2>3. AmountsInv'
      BY DEF TaskInv, AmountsInv
    <2>4. NotifyInv'
      BY DEF TaskInv, NotifyInv
    <2> QED
      BY <2>1, <2>2, <2>3, <2>4 DEF TaskInv
  <1>2. ASSUME NEW a \in DecodableAccounts, Transfer(a) PROVE TaskInv'
    <2> USE <1>2 DEF Transfer, IndexerVars, wire, channel, address_channel, subscription
    <2>1. PlaceInv' /\ LatestInv'
      BY DEF TaskInv, PlaceInv, LatestInv, Connected
    <2>2. a \in Accounts
      BY DEF DecodableAccounts
    <2>3. funds' \in [Accounts -> 0..MaxTransfers] /\ \A b \in Accounts : funds'[b] >= funds[b]
      BY <2>2, BalanceAssumption DEF TaskInv, AmountsInv
    <2>4. \A b \in Accounts : indexed'[b] <= funds'[b]
      BY <2>3, BalanceAssumption DEF TaskInv, AmountsInv
    <2>5. AmountsInv'
      BY <2>3, <2>4 DEF TaskInv, AmountsInv
    <2>6. NotifyInv'
      BY DEF TaskInv, NotifyInv
    <2> QED
      BY <2>1, <2>5, <2>6 DEF TaskInv
  <1>3. ASSUME NEW a \in DecodableAccounts, IndexEvent(a) PROVE TaskInv'
    <2> USE <1>3 DEF IndexEvent, IndexerVars, wire, channel, address_channel
    <2>1. PlaceInv' /\ LatestInv'
      BY DEF TaskInv, PlaceInv, LatestInv, Connected
    <2>2. a \in Accounts
      BY DEF DecodableAccounts
    <2>3. /\ indexed[a] \in 0..MaxTransfers
          /\ funds[a] \in 0..MaxTransfers
          /\ indexed' = [indexed EXCEPT ![a] = indexed[a] + 1]
      BY <2>2 DEF TaskInv, AmountsInv
    <2>4. /\ indexed' \in [Accounts -> 0..MaxTransfers]
          /\ \A b \in Accounts : indexed'[b] <= funds[b]
      BY <2>2, <2>3, BalanceAssumption DEF TaskInv, AmountsInv
    <2>5. /\ pending' \in Nat
          /\ pending' > 0 => address \in Accounts /\ pending' <= indexed'[address]
      BY <2>2, <2>3 DEF TaskInv, AmountsInv
    <2>6. AmountsInv'
      BY <2>4, <2>5 DEF TaskInv, AmountsInv
    <2>7. NotifyInv'
      <3>1. CASE address = a /\ Listening /\ sockets[subscriber] = "open"
        <4>1. pending' = pending + 1 /\ indexed'[address] = indexed[address] + 1
          BY <3>1, <2>2, <2>3 DEF TaskInv, AmountsInv
        <4>2. /\ pending \in Nat /\ read \in Nat /\ indexed[address] \in Nat
              /\ balance.amount \in Nat
          BY <3>1, <2>2 DEF TaskInv, AmountsInv
        <4> QED
          BY <4>1, <4>2 DEF TaskInv, NotifyInv
      <3>2. CASE address # a
        <4>1. indexed'[address] = indexed[address] /\ pending' = pending
          BY <3>2, <2>3 DEF TaskInv, AmountsInv
        <4> QED
          BY <4>1 DEF TaskInv, NotifyInv
      <3>3. CASE ~Listening \/ sockets[subscriber] # "open"
        BY <3>3 DEF TaskInv, NotifyInv, Listening
      <3> QED
        BY <3>1, <3>2, <3>3
    <2> QED
      BY <2>1, <2>6, <2>7 DEF TaskInv
  <1>4. ASSUME [IndexerNext]_IndexerVars, UNCHANGED BalanceVars PROVE TaskInv'
    <2> USE <1>4 DEF BalanceVars, address_channel, environment, subscription
    <2>1. /\ "balance" \notin client_unseen'
               => "balance" \notin client_unseen /\ UNCHANGED indexer_client_tx
          /\ Connected \subseteq Connected'
          /\ \A c \in Connected : sockets'[c] = "open" => sockets[c] = "open"
      BY IndexerIsNews
    <2>2. PlaceInv' /\ LatestInv'
      BY <2>1 DEF TaskInv, PlaceInv, LatestInv
    <2>3. AmountsInv'
      BY DEF TaskInv, AmountsInv
    <2>4. NotifyInv'
      <3>1. bpc \in HasClient => (sockets'[subscriber] = "open" => sockets[subscriber] = "open")
        BY <2>1 DEF TaskInv, PlaceInv
      <3> QED
        BY <3>1 DEF TaskInv, NotifyInv, HasClient
    <2> QED
      BY <2>2, <2>3, <2>4 DEF TaskInv
  <1> QED
    BY <1>1, <1>2, <1>3, <1>4

\* The inductive invariant.
BalanceInv == IndexerInv /\ ClientInv /\ SocketsInv /\ FlagsInv /\ TaskInv

\* It holds at the start and is kept by every step.
LEMMA BalanceInvariant == Spec => []BalanceInv
  <1>1. Init => BalanceInv
    <2> SUFFICES ASSUME Init PROVE BalanceInv
      OBVIOUS
    <2> USE DEF Init
    <2>1. IndexerInv /\ ClientInv /\ SocketsInv
      BY IndexerStarts
    <2>2. FlagsInv
      BY DEF FlagsInv
    <2>3. PlaceInv
      BY DEF PlaceInv, Addresses, HasAddress, HasAccount, HasClient
    <2>4. LatestInv /\ NotifyInv
      BY DEF LatestInv, NotifyInv, HasAddress, HasAccount, HasClient
    <2>5. AmountsInv
      BY BalanceAssumption DEF AmountsInv, NoBalance, Addresses
    <2> QED
      BY <2>1, <2>2, <2>3, <2>4, <2>5 DEF BalanceInv, TaskInv
  <1>2. BalanceInv /\ [Next]_vars => BalanceInv'
    <2> SUFFICES ASSUME BalanceInv, [Next]_vars PROVE BalanceInv'
      OBVIOUS
    <2>1. TaskInv'
      BY StepCases, TaskSteps, SurroundingSteps DEF BalanceInv
    <2> QED
      BY <2>1, IndexerPart, FlagsSteps DEF BalanceInv
  <1> QED
    BY <1>1, <1>2, PTL DEF Spec
----------------------------------------------------------------------------
\* The task's locals, amounts and flags keep their types, the indexer never
\* passes the chain, and it subscribes only with an account and a client.
THEOREM BalanceTypeCorrect == Spec => []TypeOK
  <1>1. BalanceInv => TypeOK
    <2> SUFFICES ASSUME BalanceInv PROVE TypeOK
      OBVIOUS
    <2> USE DEF BalanceInv, TaskInv
    <2>1. IndexerTypeOK
      BY IndexerTypes
    <2>2. shutdown \in BOOLEAN /\ address_unseen \in BOOLEAN /\ failed_fetch \in BOOLEAN
      BY DEF FlagsInv
    <2>3. /\ bpc \in {"start", "waitaddress", "skip", "fetch", "fetching", "waitclient",
                     "subscribe", "subfailed", "listen", "refetch", "refetching",
                     "unsubscribe", "unsubscribe_last", "stopped"}
          /\ active_address \in Addresses
          /\ address \in Addresses
          /\ bpc \in {"fetch", "fetching", "waitclient", "subscribe", "subfailed"} \/ Listening
               => address \in DecodableAccounts
          /\ subscriber \in Clients \cup {NoClient}
          /\ bpc \in {"subscribe", "subfailed"} \/ Listening => subscriber \in Clients
      BY ConnectedAreClients DEF PlaceInv, HasAddress, HasAccount, HasClient, Listening
    <2>4. pending \in 0..MaxTransfers
      BY BalanceAssumption DEF AmountsInv
    <2>5. AmountsInv
      OBVIOUS
    <2> QED
      BY <2>1, <2>2, <2>3, <2>4, <2>5 DEF TypeOK, AmountsInv
  <1> QED
    BY BalanceInvariant, <1>1, PTL

\* However accounts and clients come and go, the task never sleeps on an
\* address or a client that its channels have replaced: it holds the latest,
\* or the select it is in is ready.
THEOREM NoLostWakeUp == Spec => []WaitsWithLatest
  <1>1. BalanceInv => WaitsWithLatest
    BY DEF BalanceInv, TaskInv, LatestInv, HasAddress, HasAccount, HasClient, WaitsWithLatest
  <1> QED
    BY BalanceInvariant, <1>1, PTL

\* A balance fetched well is up to the indexer or about to be refetched: what
\* happens between reading the block and showing the amount is not lost.
THEOREM NoLostEvent == Spec => []NotifiedWhenBehind
  <1>1. BalanceInv => NotifiedWhenBehind
    <2> SUFFICES ASSUME BalanceInv, bpc = "listen", sockets[subscriber] = "open",
                        ~failed_fetch, pending = 0
                 PROVE  /\ balance.of = address
                        /\ balance.amount >= indexed[address] \/ balance.amount < baseline
      BY DEF NotifiedWhenBehind
    <2>1. balance.amount + 0 = balance.amount
      BY DEF BalanceInv, TaskInv, AmountsInv
    <2> QED
      BY <2>1 DEF BalanceInv, TaskInv, NotifyInv
  <1> QED
    BY BalanceInvariant, <1>1, PTL
----------------------------------------------------------------------------
\* A fetch for the account on display reads no less than is shown, since what is
\* shown was read from the same chain before.
ShownInv ==
    /\ balance.of # NoAccount => balance.amount <= funds[balance.of]
    /\ bpc \in {"fetching", "refetching"} =>
        /\ read <= funds[address]
        /\ balance.of = address => balance.amount <= read
    /\ bpc = "waitaddress" => balance = NoBalance

\* From one step to the next the balance of an account does not go back.
NotBack ==
    balance.of # NoAccount /\ balance'.of = balance.of => balance'.amount >= balance.amount

\* What the proofs below use of the types.
LEMMA ShownTypes ==
    ASSUME BalanceInv
    PROVE  /\ balance \in [of : Addresses, amount : 0..MaxTransfers]
           /\ funds \in [Accounts -> 0..MaxTransfers]
           /\ \A n \in 0..MaxTransfers : n \in Nat
           /\ \A a \in Addresses : a # NoAccount => a \in Accounts
           /\ bpc \in {"fetch", "fetching", "refetch", "refetching"} =>
                address \in Accounts /\ address # NoAccount
  BY BalanceAssumption
  DEF BalanceInv, TaskInv, AmountsInv, PlaceInv, HasAccount, HasClient, DecodableAccounts, Addresses

\* A fetch in two steps: the block is read, then shown.
LEMMA FetchNotBack ==
    ASSUME BalanceInv, ShownInv, ReadBlock \/ ShowBalance \/ FetchFails
    PROVE  ShownInv' /\ NotBack
  <1>1. funds' = funds /\ address' = address
    BY DEF ReadBlock, ShowBalance, FetchFails, AfterFetch, others, environment
  <1>2. CASE ReadBlock
    <2>1. balance' = balance /\ read' = funds[address] /\ bpc' \in {"fetching", "refetching"}
      BY <1>2 DEF ReadBlock
    <2>2. funds[address] \in Nat /\ balance.amount \in Nat /\ address # NoAccount
      BY <1>2, ShownTypes DEF ReadBlock
    <2> QED
      BY <1>1, <2>1, <2>2 DEF ShownInv, NotBack
  <1>3. CASE ShowBalance \/ FetchFails
    <2>1. bpc' \in {"waitclient", "subscribe", "listen"}
      BY <1>3 DEF ShowBalance, FetchFails, AfterFetch, TakeClient
    <2>2. CASE balance' = balance
      <3>1. balance.amount \in Nat
        BY ShownTypes
      <3> QED
        BY <1>1, <2>1, <2>2, <3>1 DEF ShownInv, NotBack
    <2>3. CASE ShowBalance
      BY <1>1, <2>1, <2>3 DEF ShowBalance, ShownInv, NotBack
    <2> QED
      BY <1>3, <2>2, <2>3 DEF FetchFails
  <1> QED
    BY <1>2, <1>3

\* TakeAddress shows nothing new.
LEMMA TakeNotBack ==
    ASSUME BalanceInv, ShownInv, TakeAddress, funds' = funds
    PROVE  ShownInv' /\ NotBack
  <1>1. bpc' \in {"waitaddress", "skip", "fetch"}
    BY DEF TakeAddress
  <1>2. balance' = balance \/ balance' = NoBalance
    BY DEF TakeAddress
  <1>3. bpc' = "waitaddress" => balance' = NoBalance
    BY DEF TakeAddress
  <1>4. NoBalance.of = NoAccount /\ balance.amount \in Nat
    BY ShownTypes DEF NoBalance
  <1> QED
    BY <1>1, <1>2, <1>3, <1>4 DEF ShownInv, NotBack

\* Every other step leaves balance and read alone, and where a fetch is under way
\* it stays so; the chain only adds.
LEMMA RestNotBack ==
    ASSUME BalanceInv, ShownInv, UNCHANGED <<balance, read, address>>,
           bpc' \in {"fetching", "refetching", "waitaddress"} => bpc' = bpc,
           funds' = funds \/ \E a \in Accounts : funds' = [funds EXCEPT ![a] = @ + 1]
    PROVE  ShownInv' /\ NotBack
  <1>1. \A b \in Accounts : funds[b] \in Nat /\ funds'[b] >= funds[b] /\ funds'[b] \in Nat
    BY ShownTypes
  <1>2. balance.amount \in Nat /\ (balance.of # NoAccount => balance.of \in Accounts)
    BY ShownTypes
  <1>3. bpc \in {"fetching", "refetching"} => address \in Accounts
    BY ShownTypes
  <1>4. read \in Nat
    BY BalanceAssumption DEF BalanceInv, TaskInv, AmountsInv
  <1> QED
    BY <1>1, <1>2, <1>3, <1>4 DEF ShownInv, NotBack

\* Every step keeps ShownInv and takes no amount back.
LEMMA NextNotBack ==
    ASSUME BalanceInv, ShownInv, [Next]_vars
    PROVE  ShownInv' /\ NotBack
  <1>1. CASE Task \/ StreamErrs \/ BalanceSeesShutdown
    <2>1. funds' = funds
      BY <1>1, TaskIsOwnStep DEF OwnStep, others, environment
    <2>2. CASE TakeAddress
      BY <2>1, <2>2, TakeNotBack
    <2>3. CASE ReadBlock \/ ShowBalance \/ FetchFails
      BY <2>3, FetchNotBack
    <2>4. CASE ClientArrives \/ Subscribe \/ SubscribeFails \/ BreakListening
               \/ TakeNotification \/ BalanceSeesShutdown
      <3>1. /\ UNCHANGED <<balance, read, address>>
            /\ bpc' \in {"waitclient", "subscribe", "listen", "subfailed", "unsubscribe",
                        "refetch", "stopped", "unsubscribe_last"}
        BY <2>4 DEF ClientArrives, TakeClient, Subscribe, SubscribeFails, BreakListening,
                    TakeNotification, BalanceSeesShutdown
      <3> QED
        BY <2>1, <3>1, RestNotBack
    <2>5. CASE Unsubscribed /\ ~TakeAddress
      <3>1. UNCHANGED <<balance, read, address>> /\ bpc' = "stopped"
        BY <2>5 DEF Unsubscribed
      <3> QED
        BY <2>1, <3>1, RestNotBack
    <2> QED
      BY <1>1, <2>2, <2>3, <2>4, <2>5
      DEF Task, Start, AddressArrives, RetryWithClient, StreamEnds, StreamErrs
  <1>2. CASE ~(Task \/ StreamErrs \/ BalanceSeesShutdown)
    <2>1. UNCHANGED <<balance, read, address, bpc>>
      BY <1>2, StepCases DEF SendActiveAddress, Transfer, IndexEvent, BalanceVars
    <2>2. funds' = funds \/ \E a \in Accounts : funds' = [funds EXCEPT ![a] = @ + 1]
      BY <1>2, StepCases
      DEF SendActiveAddress, Transfer, IndexEvent, BalanceVars, environment, DecodableAccounts
    <2> QED
      BY <2>1, <2>2, RestNotBack
  <1> QED
    BY <1>1, <1>2

\* It holds from the start.
LEMMA ShownInvariant == Spec => []ShownInv
  <1>1. Init => ShownInv
    BY DEF Init, ShownInv, NoBalance
  <1> QED
    BY <1>1, NextNotBack, BalanceInvariant, PTL DEF Spec

\* The balance shown of an account never goes back to an earlier one, over account
\* switches, reconnects and failed fetches: one fetch is under way at a time, and
\* what is shown was read before the next block is.
BalanceNotBack == [][NotBack]_vars

\* Every fetch that is shown is at least as new as what it replaces.
THEOREM BalanceOnlyForward == Spec => BalanceNotBack
  <1>1. BalanceInv /\ ShownInv /\ [Next]_vars => [NotBack]_vars
    BY NextNotBack
  <1> QED
    BY <1>1, ShownInvariant, BalanceInvariant, PTL DEF Spec, BalanceNotBack

\* Without an account no balance is shown; once a fetch for the active account has
\* come back well, its owner is that account, in all that follows the fetch.  Left out
\* is an address that is not SS58, which leaves the balance before it on display.
OwnerIsActive ==
    /\ bpc = "waitaddress" => balance = NoBalance
    /\ bpc \in {"waitclient", "subscribe", "subfailed", "listen"} /\ ~address_unseen
       /\ ~failed_fetch => balance.of = active_address

\* While it works for a decodable account, a failed fetch is the only way to show
\* another account's balance: but for it, the comment on active_account_balance
\* (src/src/main.rs) says what the code does.
THEOREM OnlyFailuresMislead ==
    Spec => [](OwnerIsActive /\ (~failed_fetch => BalanceIsOfActiveAccount))
  <1>1. BalanceInv /\ ShownInv => OwnerIsActive
    BY DEF BalanceInv, ShownInv, TaskInv, LatestInv, NotifyInv, OwnerIsActive,
           HasAddress, HasAccount, HasClient
  <1>2. OwnerIsActive => (~failed_fetch => BalanceIsOfActiveAccount)
    BY DEF OwnerIsActive, BalanceIsOfActiveAccount
  <1> QED
    BY <1>1, <1>2, ShownInvariant, BalanceInvariant, PTL
=============================================================================
