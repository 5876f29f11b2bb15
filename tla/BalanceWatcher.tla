--------------------------- MODULE BalanceWatcher ---------------------------
(***************************************************************************)
(* watch_active_account_balance (src/src/main.rs) beside the indexer       *)
(* watcher whose client it shares, the account switches of the user, and   *)
(* the chain and indexer that its requests reach.  Each action runs from   *)
(* one await of the task to the next.  An amount is the number of events   *)
(* that have touched the account.                                          *)
(***************************************************************************)
EXTENDS IndexerWatcher

CONSTANTS
    Accounts,       \* the addresses in the account store
    Undecodable,    \* those that are not SS58
    NoAccount,      \* Option::None, of an address or a balance
    MaxTransfers    \* bound: events per account on the chain

ASSUME BalanceAssumption ==
    /\ Undecodable \subseteq Accounts
    /\ NoAccount \notin Accounts
    /\ MaxTransfers \in Nat
    /\ Receivers = {"balance"}

VARIABLES
    active_address,     \* the value in the address channel
    address_unseen,     \* active_address_rx.changed() is ready
    bpc,                \* where the task is
    address,            \* its local address
    subscriber,         \* its local indexer_client
    read,               \* the amount a fetch has read and not yet shown
    balance,            \* details.active_account_balance, with its owner
    funds,              \* per account, the amount on the chain
    indexed,            \* per account, how many of the events are indexed
    pending,            \* notifications waiting in the subscription
    baseline,           \* history: indexed when the subscription was made
    failed_fetch        \* history: this subscription's last fetch failed

address_channel == <<active_address, address_unseen>>
environment == <<funds, indexed>>
subscription == <<pending, baseline>>
BalanceVars == <<address_channel, bpc, address, subscriber, read, balance, environment,
                 subscription, failed_fetch>>

\* What the balance task never writes.
others == <<shutdown, ipc, indexer_connection, wire, indexer_client_tx, indexer_client,
            active_address, environment>>

vars == <<shutdown, IndexerVars, BalanceVars>>

DecodableAccounts == Accounts \ Undecodable
Addresses == Accounts \cup {NoAccount}
NoBalance == [of |-> NoAccount, amount |-> 0]

Init ==
    /\ shutdown = FALSE
    /\ IndexerInit
    /\ active_address \in Addresses
    /\ address_unseen = FALSE
    /\ bpc = "start"
    /\ address = NoAccount
    /\ subscriber = NoClient
    /\ read = 0
    /\ balance = NoBalance
    /\ funds = [a \in Accounts |-> 0]
    /\ indexed = [a \in Accounts |-> 0]
    /\ pending = 0
    /\ baseline = 0
    /\ failed_fetch = FALSE
----------------------------------------------------------------------------
\* A watch::Receiver is ready after a send.  App keeps a clone of the sender, so that
\* the channel stays open when watch_indexer returns.
ClientChanged == "balance" \in client_unseen
SeeClient == client_unseen' = client_unseen \ {"balance"}

\* Mutant of TakeClient: None counts as a client.
TakeClientUnchecked ==
    /\ SeeClient
    /\ subscriber' = indexer_client_tx
    /\ bpc' = "subscribe"

\* borrow_and_update of the client channel, at the head of the wait for one.
TakeClient ==
    /\ SeeClient
    /\ subscriber' = indexer_client_tx
    /\ bpc' = IF indexer_client_tx = NoClient THEN "waitclient" ELSE "subscribe"

\* The head of the outer loop, with borrow_and_update of the address channel:
\* without an account the balance is cleared.
TakeAddress ==
    /\ address_unseen' = FALSE
    /\ address' = active_address
    /\ bpc' = CASE active_address = NoAccount -> "waitaddress"
                [] active_address \in Undecodable -> "skip"
                [] OTHER -> "fetch"
    /\ balance' = IF active_address = NoAccount THEN NoBalance ELSE balance
    /\ subscriber' = NoClient
    /\ read' = 0
    /\ pending' = 0
    /\ baseline' = 0
    /\ failed_fetch' = FALSE

Start ==
    /\ bpc = "start"
    /\ TakeAddress
    /\ UNCHANGED <<others, client_unseen>>

\* A select ends because the address channel has news.
AddressArrives ==
    /\ bpc \in {"waitaddress", "skip", "waitclient", "subfailed"}
    /\ address_unseen
    /\ TakeAddress
    /\ UNCHANGED <<others, client_unseen>>

\* at_current_block answered: the storage query is about this block.
ReadBlock ==
    /\ \/ bpc = "fetch" /\ bpc' = "fetching"
       \/ bpc = "refetch" /\ bpc' = "refetching"
    /\ read' = funds[address]
    /\ UNCHANGED <<others, client_unseen, address_unseen, address, subscriber, balance,
                   subscription, failed_fetch>>

\* Mutant of AfterFetch: a fetch answers all the notifications there are.
AfterFetchDraining ==
    /\ \/ bpc \in {"fetch", "fetching"} /\ TakeClient
       \/ /\ bpc \in {"refetch", "refetching"}
          /\ bpc' = "listen"
          /\ UNCHANGED <<subscriber, client_unseen>>
    /\ read' = 0
    /\ pending' = 0
    /\ UNCHANGED <<others, address_unseen, address, baseline>>

\* What follows a fetch: the wait for a client, or for a notification.
AfterFetch ==
    /\ \/ bpc \in {"fetch", "fetching"} /\ TakeClient
       \/ /\ bpc \in {"refetch", "refetching"}
          /\ bpc' = "listen"
          /\ UNCHANGED <<subscriber, client_unseen>>
    /\ read' = 0
    /\ UNCHANGED <<others, address_unseen, address, subscription>>

ShowBalance ==
    /\ bpc \in {"fetching", "refetching"}
    /\ balance' = [of |-> address, amount |-> read]
    /\ failed_fetch' = FALSE
    /\ AfterFetch

\* Connecting, the block or the storage query failed: only a warning.
FetchFails ==
    /\ bpc \in {"fetch", "refetch", "fetching", "refetching"}
    /\ failed_fetch' = TRUE
    /\ UNCHANGED balance
    /\ AfterFetch

ClientArrives ==
    /\ bpc = "waitclient"
    /\ ClientChanged
    /\ TakeClient
    /\ UNCHANGED <<others, address_unseen, address, read, balance, subscription, failed_fetch>>

\* Mutant of Subscribe: the channels count as seen when listening begins.
SubscribeSeesAll ==
    /\ bpc = "subscribe"
    /\ sockets[subscriber] = "open"
    /\ bpc' = "listen"
    /\ baseline' = indexed[address]
    /\ address_unseen' = FALSE
    /\ SeeClient
    /\ UNCHANGED <<others, address, subscriber, read, balance, pending, failed_fetch>>

Subscribe ==
    /\ bpc = "subscribe"
    /\ sockets[subscriber] = "open"
    /\ bpc' = "listen"
    /\ baseline' = indexed[address]
    /\ UNCHANGED <<others, client_unseen, address_unseen, address, subscriber, read, balance,
                   pending, failed_fetch>>

SubscribeFails ==
    /\ bpc = "subscribe"
    /\ bpc' = "subfailed"
    /\ UNCHANGED <<others, client_unseen, address_unseen, address, subscriber, read, balance,
                   subscription, failed_fetch>>

\* The wait after a failed subscription ends with another client as well.
RetryWithClient ==
    /\ bpc = "subfailed"
    /\ ClientChanged
    /\ TakeAddress
    /\ SeeClient
    /\ UNCHANGED others

\* Mutant of BreakListening: another client does not end the subscription.
BreakListeningOnAddress ==
    /\ bpc = "listen"
    /\ address_unseen
    /\ address_unseen' = FALSE
    /\ bpc' = "unsubscribe"
    /\ UNCHANGED <<others, client_unseen, address, subscriber, read, balance, subscription,
                   failed_fetch>>

\* The inner loop breaks on news of either channel; changed() marks one seen.
BreakListening ==
    /\ bpc = "listen"
    /\ \/ address_unseen /\ address_unseen' = FALSE /\ UNCHANGED client_unseen
       \/ ClientChanged /\ SeeClient /\ UNCHANGED address_unseen
    /\ bpc' = "unsubscribe"
    /\ UNCHANGED <<others, address, subscriber, read, balance, subscription, failed_fetch>>

\* unsubscribe came back, its result ignored.
Unsubscribed ==
    /\ \/ bpc = "unsubscribe" /\ TakeAddress
       \/ /\ bpc = "unsubscribe_last"
          /\ bpc' = "stopped"
          /\ UNCHANGED <<address_unseen, address, subscriber, read, balance, subscription,
                         failed_fetch>>
    /\ UNCHANGED <<others, client_unseen>>

\* The stream ended with its socket, or the notification is an Err.
StreamEnds ==
    /\ bpc = "listen"
    /\ sockets[subscriber] # "open"
    /\ TakeAddress
    /\ UNCHANGED <<others, client_unseen>>

StreamErrs ==
    /\ bpc = "listen"
    /\ TakeAddress
    /\ UNCHANGED <<others, client_unseen>>

TakeNotification ==
    /\ bpc = "listen"
    /\ pending > 0
    /\ pending' = pending - 1
    /\ bpc' = "refetch"
    /\ UNCHANGED <<others, client_unseen, address_unseen, address, subscriber, read, balance,
                   baseline, failed_fetch>>

\* Mutant of BalanceSeesShutdown: only the inner loop listens.
ListeningSeesShutdown ==
    /\ shutdown
    /\ bpc = "listen"
    /\ bpc' = "unsubscribe_last"
    /\ UNCHANGED <<others, client_unseen, address_unseen, address, subscriber, read, balance,
                   subscription, failed_fetch>>

\* Every wait listens for shutdown; the requests in between do not.
BalanceSeesShutdown ==
    /\ shutdown
    /\ \/ bpc \in {"waitaddress", "skip", "waitclient", "subfailed"} /\ bpc' = "stopped"
       \/ bpc = "listen" /\ bpc' = "unsubscribe_last"
    /\ UNCHANGED <<others, client_unseen, address_unseen, address, subscriber, read, balance,
                   subscription, failed_fetch>>
----------------------------------------------------------------------------
\* The use_effect of App: every change of the account store sends the active
\* address, the same one again too.
SendActiveAddress(a) ==
    /\ active_address' = a
    /\ address_unseen' = TRUE
    /\ UNCHANGED <<shutdown, IndexerVars, bpc, address, subscriber, read, balance, environment,
                   subscription, failed_fetch>>

\* An event touches the account on the chain.
Transfer(a) ==
    /\ funds[a] < MaxTransfers
    /\ funds' = [funds EXCEPT ![a] = @ + 1]
    /\ UNCHANGED <<shutdown, IndexerVars, address_channel, bpc, address, subscriber, read, balance,
                   indexed, subscription, failed_fetch>>

Listening == bpc \in {"listen", "refetch", "refetching"}

\* The indexer reaches the event and notifies the subscription there is.
IndexEvent(a) ==
    /\ indexed[a] < funds[a]
    /\ indexed' = [indexed EXCEPT ![a] = @ + 1]
    /\ pending' = IF Listening /\ address = a /\ sockets[subscriber] = "open"
                  THEN pending + 1
                  ELSE pending
    /\ UNCHANGED <<shutdown, IndexerVars, address_channel, bpc, address, subscriber, read, balance,
                   funds, baseline, failed_fetch>>

Task ==
    \/ Start \/ AddressArrives \/ ReadBlock \/ ShowBalance \/ FetchFails \/ ClientArrives
    \/ Subscribe \/ SubscribeFails \/ RetryWithClient \/ BreakListening \/ Unsubscribed
    \/ StreamEnds \/ TakeNotification

Next ==
    \/ Task \/ StreamErrs \/ BalanceSeesShutdown
    \/ \E a \in Addresses : SendActiveAddress(a)
    \/ \E a \in DecodableAccounts : Transfer(a) \/ IndexEvent(a)
    \/ IndexerNext /\ UNCHANGED <<shutdown, BalanceVars>>
    \/ TriggerShutdown /\ UNCHANGED <<IndexerVars, BalanceVars>>

Spec == Init /\ [][Next]_vars

\* Requests come back, well or not, and a ready select is polled; it polls its
\* branches in a random order, so it cannot pass over shutdown for ever.
FairSpec ==
    /\ Spec
    /\ IndexerFairness
    /\ WF_vars(Task)
    /\ SF_vars(BalanceSeesShutdown)
----------------------------------------------------------------------------
TypeOK ==
    /\ IndexerTypeOK
    /\ shutdown \in BOOLEAN
    /\ active_address \in Addresses
    /\ address_unseen \in BOOLEAN
    /\ bpc \in {"start", "waitaddress", "skip", "fetch", "fetching", "waitclient", "subscribe",
                "subfailed", "listen", "refetch", "refetching", "unsubscribe",
                "unsubscribe_last", "stopped"}
    /\ address \in Addresses
    /\ bpc \in {"fetch", "fetching", "waitclient", "subscribe", "subfailed"} \/ Listening
        => address \in DecodableAccounts
    /\ subscriber \in Clients \cup {NoClient}
    /\ bpc \in {"subscribe", "subfailed"} \/ Listening => subscriber \in Clients
    /\ read \in 0..MaxTransfers
    /\ balance \in [of : Addresses, amount : 0..MaxTransfers]
    /\ funds \in [Accounts -> 0..MaxTransfers]
    /\ indexed \in [Accounts -> 0..MaxTransfers]
    /\ \A a \in Accounts : indexed[a] <= funds[a]
    /\ pending \in 0..MaxTransfers
    /\ baseline \in 0..MaxTransfers
    /\ failed_fetch \in BOOLEAN

\* No wake-up is lost: where the task waits without news, it works for the
\* active account and with the client in the channel.
WaitsWithLatest ==
    /\ bpc \in {"waitaddress", "skip", "waitclient", "subfailed", "listen"} /\ ~address_unseen
        => address = active_address
    /\ bpc \in {"waitclient", "subfailed", "listen"} /\ "balance" \notin client_unseen
        => subscriber = indexer_client_tx

\* An event indexed while the task is subscribed is never lost: once fetched
\* well, a balance behind the indexer has a notification on its way.  What the
\* subscription came too late for (baseline) stays unseen.
NotifiedWhenBehind ==
    bpc = "listen" /\ sockets[subscriber] = "open" /\ ~failed_fetch /\ pending = 0
        => /\ balance.of = address
           /\ \/ balance.amount >= indexed[address]
              \/ balance.amount < baseline

\* With one account active and one client live for good, the task ends up
\* subscribed for that account over that client, or waiting after a refusal.
FollowsActiveAccount ==
    \A a \in DecodableAccounts, c \in Clients :
        <>[](active_address = a /\ indexer_client_tx = c /\ sockets[c] = "open" /\ ~shutdown)
            => []<>(bpc \in {"listen", "subfailed"} /\ address = a /\ subscriber = c)

\* The shutdown reaches the task whatever it is doing.
BalanceTaskStops == shutdown ~> bpc = "stopped"

\* main.rs:63-64: the balance is that of the currently active account, or None
\* while it has not been fetched.
BalanceIsOfActiveAccount ==
    bpc = "listen" /\ ~address_unseen => balance.of \in {NoAccount, active_address}
=============================================================================
