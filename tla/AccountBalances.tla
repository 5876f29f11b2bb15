--------------------------- MODULE AccountBalances ---------------------------
(***************************************************************************)
(* The balances of the account page (src/src/views/manage_accounts.rs):    *)
(* one task per visit fetches the balance of every account listed when the *)
(* page was opened, then follows the stream of finalized blocks.  Amounts  *)
(* count the events of an account since then.                              *)
(***************************************************************************)
EXTENDS Naturals

CONSTANTS
    Addresses,      \* the accounts' addresses
    Undecodable,    \* those decode_ss58 refuses
    MaxTransfers    \* bound: events of an account during a visit

ASSUME BalancesAssumption ==
    /\ Undecodable \subseteq Addresses
    /\ MaxTransfers \in Nat

VARIABLES
    watcher,    \* where the task stands, whom it watches, whom it has yet to fetch
    balances,   \* BalanceStore
    funds,      \* the chain: events of each account
    unread,     \* accounts with an event in a block the stream has not delivered
    missed      \* history: accounts with a change that fell between the fetch and
                \* the stream, or that no event tells of

vars == <<watcher, balances, funds, unread, missed>>

Amounts == 0..MaxTransfers

\* No entry, and the three constructors of BalanceState.
Absent == [is |-> "absent"]
Loading == [is |-> "loading"]
Failed == [is |-> "failed"]
Ready(amount) == [is |-> "ready", value |-> amount]
States == {Absent, Loading, Failed} \cup {Ready(n) : n \in Amounts}

Steps == {"off", "decode", "connect", "fetch", "subscribe", "stream", "refetch", "sleep", "done"}

Init ==
    /\ watcher = [at |-> "off", watched |-> {}, todo |-> {}]
    /\ balances = [a \in Addresses |-> Absent]
    /\ funds = [a \in Addresses |-> 0]
    /\ unread = {}
    /\ missed = {}

Goto(step) == watcher' = [watcher EXCEPT !.at = step]
GotoWith(step, S) == watcher' = [watcher EXCEPT !.at = step, !.todo = S]

\* Mutant of OpenAccounts: the entries are made by the fetches only.
OpenAccountsBare(S) ==
    /\ watcher.at = "off"
    /\ watcher' = [at |-> IF S = {} THEN "done" ELSE "decode", watched |-> S, todo |-> {}]
    /\ UNCHANGED <<balances, funds, unread, missed>>

\* The effect reads no signal: it runs once, with the addresses of the first render.
OpenAccounts(S) ==
    /\ watcher.at = "off"
    /\ watcher' = [at |-> IF S = {} THEN "done" ELSE "decode", watched |-> S, todo |-> {}]
    /\ balances' = [a \in Addresses |-> IF a \in S THEN Loading ELSE Absent]
    /\ UNCHANGED <<funds, unread, missed>>

CloseAccounts ==
    /\ watcher.at # "off"
    /\ watcher' = [at |-> "off", watched |-> {}, todo |-> {}]
    /\ balances' = [a \in Addresses |-> Absent]
    /\ funds' = [a \in Addresses |-> 0]
    /\ unread' = {}
    /\ missed' = {}
----------------------------------------------------------------------------
Streaming == watcher.at \in {"stream", "refetch"}

\* Mutant of AttemptFails: the error is not put in the store.
AttemptFailsQuietly ==
    /\ Goto("sleep")
    /\ unread' = {}
    /\ UNCHANGED <<balances, funds, missed>>

\* Any error of maintain_balance_subscription, for every account watched.
AttemptFails ==
    /\ Goto("sleep")
    /\ balances' = [a \in Addresses |-> IF a \in watcher.watched THEN Failed ELSE balances[a]]
    /\ unread' = {}
    /\ UNCHANGED <<funds, missed>>

\* One address that cannot be decoded fails the whole attempt.
Decode ==
    /\ watcher.at = "decode"
    /\ IF watcher.watched \cap Undecodable # {}
       THEN AttemptFails
       ELSE Goto("connect") /\ UNCHANGED <<balances, funds, unread, missed>>

Connect ==
    /\ watcher.at = "connect"
    /\ \/ AttemptFails
       \/ GotoWith("fetch", watcher.watched) /\ UNCHANGED <<balances, funds, unread, missed>>

\* fetch_balance_with_client, of the latest block; a failure is of this account only.
FetchOne(a) ==
    /\ watcher.at \in {"fetch", "refetch"}
    /\ a \in watcher.todo
    /\ \E state \in {Ready(funds[a]), Failed} : balances' = [balances EXCEPT ![a] = state]
    /\ LET rest == watcher.todo \ {a}
       IN  GotoWith(IF rest # {} THEN watcher.at
                    ELSE IF watcher.at = "fetch" THEN "subscribe" ELSE "stream", rest)
    /\ missed' = missed \ {a}
    /\ UNCHANGED <<funds, unread>>

Subscribe ==
    /\ watcher.at = "subscribe"
    /\ \/ AttemptFails
       \/ Goto("stream") /\ UNCHANGED <<balances, funds, unread, missed>>

\* Mutant of ReadBlock: only one of the accounts in a block is fetched again.
ReadBlockFirst ==
    /\ watcher.at = "stream" /\ unread # {}
    /\ GotoWith("refetch", {CHOOSE a \in unread : TRUE})
    /\ unread' = {}
    /\ UNCHANGED <<balances, funds, missed>>

\* The blocks that wait, as one: the accounts their events name are fetched again.
ReadBlock ==
    /\ watcher.at = "stream" /\ unread # {}
    /\ GotoWith("refetch", unread)
    /\ unread' = {}
    /\ UNCHANGED <<balances, funds, missed>>

\* A block that cannot be read, or whose events cannot be fetched or decoded.
StreamFails == watcher.at = "stream" /\ AttemptFails

\* Ok(()): watch_balances returns, for the rest of the visit.
StreamEnds ==
    /\ watcher.at = "stream"
    /\ Goto("done")
    /\ unread' = {}
    /\ UNCHANGED <<balances, funds, missed>>

\* BALANCE_RECONNECT_DELAY is over.
Retry ==
    /\ watcher.at = "sleep"
    /\ Goto("decode")
    /\ UNCHANGED <<balances, funds, unread, missed>>

\* The chain changes an account's balance, with an event the loop looks for.
Transfer(a) ==
    /\ watcher.at # "off" /\ funds[a] < MaxTransfers
    /\ funds' = [funds EXCEPT ![a] = @ + 1]
    /\ unread' = IF Streaming /\ a \in watcher.watched THEN unread \cup {a} ELSE unread
    /\ missed' = IF watcher.at \in {"fetch", "subscribe"} /\ a \in watcher.watched \ watcher.todo
                 THEN missed \cup {a} ELSE missed
    /\ UNCHANGED <<watcher, balances>>

\* Or with one it does not: Reserved, Unreserved, BalanceSet, Held, Released...
ChangeUntold(a) ==
    /\ watcher.at # "off" /\ funds[a] < MaxTransfers
    /\ funds' = [funds EXCEPT ![a] = @ + 1]
    /\ missed' = IF (Streaming \/ watcher.at \in {"fetch", "subscribe"})
                    /\ a \in watcher.watched \ (unread \cup watcher.todo)
                 THEN missed \cup {a} ELSE missed
    /\ UNCHANGED <<watcher, balances, unread>>

WatcherStep ==
    \/ Decode \/ Connect \/ Subscribe \/ ReadBlock \/ Retry
    \/ \E a \in Addresses : FetchOne(a)

Next ==
    \/ (\E S \in SUBSET Addresses : OpenAccounts(S)) \/ CloseAccounts
    \/ WatcherStep \/ StreamFails \/ StreamEnds
    \/ \E a \in Addresses : Transfer(a) \/ ChangeUntold(a)

\* Requests come back, well or not, and the timer fires.
Spec == Init /\ [][Next]_vars /\ WF_vars(WatcherStep)
----------------------------------------------------------------------------
\* Types; entries are those of the accounts watched, and requests are outstanding
\* while something is being fetched.
TypeOK ==
    /\ watcher \in [at : Steps, watched : SUBSET Addresses, todo : SUBSET Addresses]
    /\ balances \in [Addresses -> States]
    /\ funds \in [Addresses -> Amounts]
    /\ unread \subseteq watcher.watched /\ missed \subseteq watcher.watched
    /\ watcher.todo \subseteq watcher.watched
    /\ watcher.todo # {} <=> watcher.at \in {"fetch", "refetch"}
    /\ \A a \in Addresses : balances[a] = Absent <=> a \notin watcher.watched

\* While the stream is open, a balance on display is the chain's, or a block that
\* names the account is still to be read or fetched for; but for a change between the
\* first fetch and stream_blocks, or without an event the loop looks for, that is.
BalancesAreFresh ==
    Streaming => \A a \in watcher.watched :
        balances[a] \in {Ready(funds[a]), Failed} \/ a \in unread \cup watcher.todo \cup missed

\* Every account of the page gets a balance or an error (or the page is left).
BalancesAreShown ==
    \A a \in Addresses : (balances[a] = Loading) ~> (balances[a] # Loading)
=============================================================================
