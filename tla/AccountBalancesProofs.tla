------------------------ MODULE AccountBalancesProofs ------------------------
(***************************************************************************)
(* Proofs about the balances of the account page, for any accounts and any *)
(* number of events.  The invariant is inductive once it also says that    *)
(* the stream opens with every watched account fetched, or missed, and     *)
(* that a block read leaves its accounts to be fetched.                    *)
(***************************************************************************)
EXTENDS AccountBalances, TLAPS

\* What an account's entry may be, wherever the attempt stands.
Settled(a) ==
    balances[a] \in {Ready(funds[a]), Failed} \/ a \in unread \cup watcher.todo \cup missed

\* From the first fetch on.
FetchedAreFresh ==
    watcher.at \in {"fetch", "subscribe", "stream", "refetch"} =>
        \A a \in watcher.watched : Settled(a)

\* An attempt has somebody to fetch for, and no account is watched between visits.
AttemptsAreFor ==
    /\ watcher.at \notin {"off", "done"} => watcher.watched # {}
    /\ watcher.at = "off" => watcher.watched = {}

BalancesInv == TypeOK /\ FetchedAreFresh /\ AttemptsAreFor

USE DEF Goto, GotoWith
----------------------------------------------------------------------------
\* Opening the page meets both.
LEMMA InitBalances == Init => BalancesInv
BY BalancesAssumption
   DEF Init, BalancesInv, TypeOK, FetchedAreFresh, AttemptsAreFor, Steps, States, Absent, Amounts

\* Constructors of BalanceState differ in their tag.
LEMMA TagsDiffer ==
    /\ Absent # Loading /\ Absent # Failed
    /\ \A n \in Amounts : Ready(n) # Absent /\ Ready(n) \in States
    /\ {Absent, Loading, Failed} \subseteq States
<1>1. Absent.is = "absent" /\ Loading.is = "loading" /\ Failed.is = "failed"
    BY DEF Absent, Loading, Failed
<1>2. \A n \in Amounts : Ready(n).is = "ready" /\ Ready(n) \in States
    BY DEF Ready, States
<1> QED BY <1>1, <1>2 DEF States

\* Every way of failing marks all that is watched, and ends the fetching.
LEMMA FailedAttempt ==
    ASSUME BalancesInv, AttemptFails, watcher.at \in Steps \ {"off", "done", "fetch", "refetch"}
    PROVE  BalancesInv'
<1> USE DEF AttemptFails, BalancesInv, AttemptsAreFor
<1>1. TypeOK'
    BY TagsDiffer DEF TypeOK, Steps
<1>2. FetchedAreFresh'
    BY DEF TypeOK, FetchedAreFresh
<1>3. AttemptsAreFor'
    <2>1. watcher'.watched = watcher.watched /\ watcher.watched # {}
        BY DEF TypeOK
    <2> QED BY <2>1
<1> QED BY <1>1, <1>2, <1>3

\* A fetch settles its account and no other.
LEMMA FetchKeepsInv ==
    ASSUME BalancesInv, NEW a \in Addresses, FetchOne(a)
    PROVE  BalancesInv'
<1> USE DEF FetchOne, BalancesInv, AttemptsAreFor
<1>1. TypeOK'
    <2>1. PICK state \in {Ready(funds[a]), Failed} : balances' = [balances EXCEPT ![a] = state]
        OBVIOUS
    <2>2. state \in States /\ state # Absent
        BY TagsDiffer DEF TypeOK
    <2>3. a \in watcher.watched
        BY DEF TypeOK
    <2>4. balances' \in [Addresses -> States]
        BY <2>1, <2>2 DEF TypeOK
    <2>5. \A b \in Addresses : balances'[b] = Absent <=> b \notin watcher'.watched
        BY <2>1, <2>2, <2>3 DEF TypeOK
    <2> HIDE DEF Goto
    <2>6. /\ watcher' \in [at : Steps, watched : SUBSET Addresses, todo : SUBSET Addresses]
          /\ watcher'.watched = watcher.watched
          /\ watcher'.todo = watcher.todo \ {a}
          /\ watcher'.todo # {} <=> watcher'.at \in {"fetch", "refetch"}
        BY DEF TypeOK, Steps
    <2> QED BY <2>4, <2>5, <2>6 DEF TypeOK
<1>2. FetchedAreFresh'
    <2>1. SUFFICES ASSUME NEW b \in watcher.watched
                   PROVE  Settled(b)'
        BY DEF FetchedAreFresh
    <2>2. b \in Addresses /\ Settled(b)
        BY DEF TypeOK, FetchedAreFresh
    <2>3. CASE b = a
        BY <2>3, <2>2 DEF TypeOK, Settled
    <2>4. CASE b # a
        BY <2>4, <2>2 DEF TypeOK, Settled
    <2> QED BY <2>3, <2>4
<1>3. AttemptsAreFor'
    BY DEF TypeOK
<1> QED BY <1>1, <1>2, <1>3

\* An event of the chain either waits in the stream, comes before the fetch of
\* its account, or falls in the gap.
LEMMA TransferKeepsInv ==
    ASSUME BalancesInv, NEW a \in Addresses, Transfer(a)
    PROVE  BalancesInv'
<1> USE DEF Transfer, BalancesInv, AttemptsAreFor
<1>1. TypeOK'
    BY BalancesAssumption DEF TypeOK, Amounts, Streaming
<1>2. FetchedAreFresh'
    <2>1. SUFFICES ASSUME watcher.at \in {"fetch", "subscribe", "stream", "refetch"},
                          NEW b \in watcher.watched
                   PROVE  Settled(b)'
        BY DEF FetchedAreFresh
    <2>2. b \in Addresses /\ Settled(b)
        BY <2>1 DEF TypeOK, FetchedAreFresh
    <2>3. CASE b = a
        BY <2>3, <2>2, <2>1 DEF TypeOK, Settled, Streaming
    <2>4. CASE b # a
        BY <2>4, <2>2 DEF TypeOK, Settled
    <2> QED BY <2>3, <2>4
<1> QED BY <1>1, <1>2

\* A change without an event comes before the fetch of its account, or is missed.
LEMMA ChangeKeepsInv ==
    ASSUME BalancesInv, NEW a \in Addresses, ChangeUntold(a)
    PROVE  BalancesInv'
<1> USE DEF ChangeUntold, BalancesInv, AttemptsAreFor
<1>1. TypeOK'
    BY BalancesAssumption DEF TypeOK, Amounts, Streaming
<1>2. FetchedAreFresh'
    <2>1. SUFFICES ASSUME watcher.at \in {"fetch", "subscribe", "stream", "refetch"},
                          NEW b \in watcher.watched
                   PROVE  Settled(b)'
        BY DEF FetchedAreFresh
    <2>2. b \in Addresses /\ Settled(b)
        BY <2>1 DEF TypeOK, FetchedAreFresh
    <2>3. CASE b = a
        BY <2>3, <2>2, <2>1 DEF TypeOK, Settled, Streaming
    <2>4. CASE b # a
        BY <2>4, <2>2 DEF TypeOK, Settled
    <2> QED BY <2>3, <2>4
<1> QED BY <1>1, <1>2

\* One step per action.
LEMMA NextKeepsBalancesInv == BalancesInv /\ [Next]_vars => BalancesInv'
<1> SUFFICES ASSUME BalancesInv, [Next]_vars PROVE BalancesInv'
    OBVIOUS
<1> USE DEF BalancesInv, FetchedAreFresh, Settled, AttemptsAreFor
<1>1. ASSUME NEW S \in SUBSET Addresses, OpenAccounts(S) PROVE BalancesInv'
    <2> USE <1>1 DEF OpenAccounts
    <2>1. watcher' = [at |-> IF S = {} THEN "done" ELSE "decode", watched |-> S, todo |-> {}]
        OBVIOUS
    <2>2. balances' \in [Addresses -> States] /\ \A a \in Addresses : balances'[a] = Absent <=> a \notin S
        BY TagsDiffer
    <2>3. unread \subseteq {} /\ missed \subseteq {}
        BY DEF TypeOK
    <2> QED BY <2>1, <2>2, <2>3 DEF TypeOK, Steps
<1>2. CASE CloseAccounts
    BY <1>2, BalancesAssumption, TagsDiffer DEF CloseAccounts, TypeOK, Steps, Amounts
<1>3. CASE Decode
    <2>1. CASE AttemptFails
        BY <1>3, <2>1, FailedAttempt DEF Decode, Steps
    <2>2. CASE ~ AttemptFails
        BY <1>3, <2>2 DEF Decode, TypeOK, Steps
    <2> QED BY <2>1, <2>2
<1>4. CASE Connect
    <2>1. CASE AttemptFails
        BY <1>4, <2>1, FailedAttempt DEF Connect, Steps
    <2>2. CASE ~ AttemptFails
        BY <1>4, <2>2 DEF Connect, TypeOK, Steps
    <2> QED BY <2>1, <2>2
<1>5. ASSUME NEW a \in Addresses, FetchOne(a) PROVE BalancesInv'
    BY <1>5, FetchKeepsInv
<1>6. CASE Subscribe
    <2>1. CASE AttemptFails
        BY <1>6, <2>1, FailedAttempt DEF Subscribe, Steps
    <2>2. CASE ~ AttemptFails
        BY <1>6, <2>2 DEF Subscribe, TypeOK, Steps
    <2> QED BY <2>1, <2>2
<1>7. CASE ReadBlock
    BY <1>7 DEF ReadBlock, TypeOK, Steps
<1>8. CASE Retry
    BY <1>8 DEF Retry, TypeOK, Steps
<1>9. CASE StreamFails
    BY <1>9, FailedAttempt DEF StreamFails, Steps
<1>10. CASE StreamEnds
    BY <1>10 DEF StreamEnds, TypeOK, Steps
<1>11. ASSUME NEW a \in Addresses, Transfer(a) PROVE BalancesInv'
    BY <1>11, TransferKeepsInv
<1>12. ASSUME NEW a \in Addresses, ChangeUntold(a) PROVE BalancesInv'
    BY <1>12, ChangeKeepsInv
<1>13. CASE UNCHANGED vars
    BY <1>13 DEF vars, TypeOK
<1> QED BY <1>1, <1>2, <1>3, <1>4, <1>5, <1>6, <1>7, <1>8, <1>9, <1>10, <1>11, <1>12, <1>13
           DEF Next, WatcherStep
----------------------------------------------------------------------------
\* The page's store always holds exactly the accounts watched.
THEOREM BalancesTypes == Spec => []TypeOK
<1>1. BalancesInv => TypeOK
    BY DEF BalancesInv
<1> QED BY InitBalances, NextKeepsBalancesInv, <1>1, PTL DEF Spec

\* A balance on display while the stream is open is the chain's, or the block that
\* changed it is still to be acted on, or the change was one the loop cannot see.
THEOREM BalancesStayFresh == Spec => []BalancesAreFresh
<1>1. BalancesInv => BalancesAreFresh
    BY DEF BalancesInv, FetchedAreFresh, Settled, BalancesAreFresh, Streaming
<1> QED BY InitBalances, NextKeepsBalancesInv, <1>1, PTL DEF Spec
----------------------------------------------------------------------------
\* An amount on display was the account's at some time of this visit.
ShownWasTrue == \A a \in Addresses, n \in Amounts : balances[a] = Ready(n) => n <= funds[a]

\* An amount on display that a later fetch replaces is replaced by no older one.
AmountsNotBack ==
    \A a \in Addresses, m, n \in Amounts :
        balances[a] = Ready(m) /\ balances'[a] = Ready(n) => m <= n

\* No account has an amount.
NoAmounts == \A a \in Addresses : balances[a] \in {Absent, Loading, Failed}

\* Addresses are decoded together, before the first fetch.
BadAddressStops ==
    watcher.watched \cap Undecodable # {} => watcher.at \in {"decode", "sleep"} /\ NoAmounts

AmountsInv == BalancesInv /\ ShownWasTrue /\ BadAddressStops

\* Two amounts on display are the same entry only if they are equal.
LEMMA ReadyIsInjective == \A m, n : Ready(m) = Ready(n) => m = n
<1>1. \A n : Ready(n).value = n
    BY DEF Ready
<1> QED BY <1>1

LEMMA ReadyIsNoOther == \A n : Ready(n) \notin {Absent, Loading, Failed}
<1>1. /\ Absent.is = "absent" /\ Loading.is = "loading" /\ Failed.is = "failed"
      /\ \A n : Ready(n).is = "ready"
    BY DEF Absent, Loading, Failed, Ready
<1> QED BY <1>1

\* Marking what is watched as failed shows no new amount.
LEMMA FailedShowsNothing ==
    ASSUME BalancesInv, ShownWasTrue, AttemptFails
    PROVE  ShownWasTrue' /\ (NoAmounts => NoAmounts')
<1> USE DEF AttemptFails
<1>1. balances \in [Addresses -> States]
    BY DEF BalancesInv, TypeOK
<1>2. ShownWasTrue'
    BY <1>1, ReadyIsNoOther DEF ShownWasTrue
<1>3. NoAmounts => NoAmounts'
    BY DEF NoAmounts
<1> QED BY <1>2, <1>3

\* A fetch shows what the account holds at that moment.
LEMMA FetchShowsFunds ==
    ASSUME AmountsInv, NEW a \in Addresses, FetchOne(a)
    PROVE  AmountsInv' /\ AmountsNotBack
<1>1. BalancesInv'
    BY FetchKeepsInv DEF AmountsInv
<1>2. PICK state \in {Ready(funds[a]), Failed} : balances' = [balances EXCEPT ![a] = state]
    BY DEF FetchOne
<1>3. balances \in [Addresses -> States] /\ funds \in [Addresses -> Nat] /\ funds' = funds
    BY BalancesAssumption DEF AmountsInv, BalancesInv, TypeOK, Amounts, FetchOne
<1>4. ShownWasTrue'
    BY <1>2, <1>3, ReadyIsInjective, ReadyIsNoOther DEF AmountsInv, ShownWasTrue, Amounts
<1>5. BadAddressStops'
    BY DEF AmountsInv, BalancesInv, TypeOK, BadAddressStops, FetchOne
<1>6. AmountsNotBack
    BY <1>2, <1>3, ReadyIsInjective, ReadyIsNoOther DEF AmountsInv, ShownWasTrue, AmountsNotBack, Amounts
<1> QED BY <1>1, <1>4, <1>5, <1>6 DEF AmountsInv

\* Nothing else shows an amount that was not there.
LEMMA NextKeepsAmounts == AmountsInv /\ [Next]_vars => AmountsInv' /\ AmountsNotBack
<1> SUFFICES ASSUME AmountsInv, [Next]_vars PROVE AmountsInv' /\ AmountsNotBack
    OBVIOUS
<1> BalancesInv'
    BY NextKeepsBalancesInv DEF AmountsInv
<1>1. /\ balances \in [Addresses -> States] /\ funds \in [Addresses -> Nat]
      /\ watcher \in [at : Steps, watched : SUBSET Addresses, todo : SUBSET Addresses]
      /\ watcher.at = "off" => \A a \in Addresses : balances[a] = Absent
    BY BalancesAssumption DEF AmountsInv, BalancesInv, TypeOK, AttemptsAreFor, Amounts
<1>2. ASSUME NEW S \in SUBSET Addresses, OpenAccounts(S) PROVE AmountsInv' /\ AmountsNotBack
    <2>1. balances' = [a \in Addresses |-> IF a \in S THEN Loading ELSE Absent]
        BY <1>2 DEF OpenAccounts
    <2>2. ShownWasTrue' /\ NoAmounts'
        BY <2>1, ReadyIsNoOther DEF ShownWasTrue, NoAmounts
    <2>3. BadAddressStops'
        BY <1>2, <2>2 DEF BadAddressStops, OpenAccounts
    <2>4. AmountsNotBack
        BY <1>1, <1>2, ReadyIsNoOther DEF AmountsNotBack, OpenAccounts
    <2> QED BY <2>2, <2>3, <2>4 DEF AmountsInv
<1>3. CASE CloseAccounts
    <2>1. balances' = [a \in Addresses |-> Absent] /\ watcher'.watched = {}
        BY <1>3 DEF CloseAccounts
    <2>2. ShownWasTrue' /\ AmountsNotBack /\ BadAddressStops'
        BY <2>1, ReadyIsNoOther DEF ShownWasTrue, AmountsNotBack, BadAddressStops
    <2> QED BY <2>2 DEF AmountsInv
<1>4. ASSUME AttemptFails, watcher.at \in {"decode", "connect", "subscribe", "stream"}
      PROVE  AmountsInv' /\ AmountsNotBack
    <2>1. ShownWasTrue' /\ (NoAmounts => NoAmounts')
        BY <1>4, FailedShowsNothing DEF AmountsInv
    <2>2. BadAddressStops'
        BY <1>4, <1>1, <2>1 DEF AmountsInv, BadAddressStops, AttemptFails
    <2>3. AmountsNotBack
        BY <1>4, <1>1, ReadyIsInjective, ReadyIsNoOther
           DEF AmountsInv, ShownWasTrue, AmountsNotBack, AttemptFails, Amounts
    <2> QED BY <2>1, <2>2, <2>3 DEF AmountsInv
<1>5. ASSUME balances' = balances, watcher'.watched = watcher.watched,
             \A a \in Addresses : funds[a] <= funds'[a],
             funds' \in [Addresses -> Nat],
             BadAddressStops'
      PROVE  AmountsInv' /\ AmountsNotBack
    <2>1. ShownWasTrue'
        BY <1>1, <1>5 DEF AmountsInv, ShownWasTrue, Amounts
    <2>2. AmountsNotBack
        BY <1>5, ReadyIsInjective DEF AmountsNotBack, Amounts
    <2> QED BY <1>5, <2>1, <2>2 DEF AmountsInv
<1>6. CASE Decode
    <2>1. CASE AttemptFails
        BY <1>4, <1>6, <2>1 DEF Decode
    <2>2. CASE ~ AttemptFails
        <3>1. watcher.watched \cap Undecodable = {}
            BY <1>6, <2>2 DEF Decode
        <3> QED BY <1>1, <1>5, <1>6, <2>2, <3>1 DEF Decode, BadAddressStops
    <2> QED BY <2>1, <2>2
<1>7. CASE Connect
    <2>1. CASE AttemptFails
        BY <1>4, <1>7, <2>1 DEF Connect
    <2>2. CASE ~ AttemptFails
        <3>1. watcher.watched \cap Undecodable = {}
            BY <1>7 DEF Connect, AmountsInv, BadAddressStops
        <3>2. watcher'.watched = watcher.watched
            BY <1>1, <1>7, <2>2 DEF Connect
        <3> QED BY <1>1, <1>5, <1>7, <2>2, <3>1, <3>2 DEF Connect, BadAddressStops
    <2> QED BY <2>1, <2>2
<1>8. ASSUME NEW a \in Addresses, FetchOne(a) PROVE AmountsInv' /\ AmountsNotBack
    BY <1>8, FetchShowsFunds
<1>9. CASE Subscribe
    <2>1. CASE AttemptFails
        BY <1>4, <1>9, <2>1 DEF Subscribe
    <2>2. CASE ~ AttemptFails
        BY <1>1, <1>5, <1>9, <2>2 DEF Subscribe, AmountsInv, BadAddressStops
    <2> QED BY <2>1, <2>2
<1>10. CASE ReadBlock
    BY <1>1, <1>5, <1>10 DEF ReadBlock, AmountsInv, BadAddressStops
<1>11. CASE Retry
    BY <1>1, <1>5, <1>11 DEF Retry, AmountsInv, BadAddressStops, NoAmounts
<1>12. CASE StreamFails
    BY <1>4, <1>12 DEF StreamFails
<1>13. CASE StreamEnds
    BY <1>1, <1>5, <1>13 DEF StreamEnds, AmountsInv, BadAddressStops
<1>14. ASSUME NEW a \in Addresses, Transfer(a) \/ ChangeUntold(a) PROVE AmountsInv' /\ AmountsNotBack
    <2>1. funds' = [funds EXCEPT ![a] = @ + 1] /\ UNCHANGED <<watcher, balances>>
        BY <1>14 DEF Transfer, ChangeUntold
    <2>2. BadAddressStops'
        BY <2>1 DEF AmountsInv, BadAddressStops, NoAmounts
    <2> QED BY <1>1, <1>5, <2>1, <2>2
<1>15. CASE UNCHANGED vars
    BY <1>1, <1>5, <1>15 DEF vars, AmountsInv, BadAddressStops, NoAmounts
<1> QED BY <1>2, <1>3, <1>6, <1>7, <1>8, <1>9, <1>10, <1>11, <1>12, <1>13, <1>14, <1>15
           DEF Next, WatcherStep

LEMMA InitAmounts == Init => AmountsInv
<1>1. Init => ShownWasTrue /\ BadAddressStops
    BY ReadyIsNoOther DEF Init, ShownWasTrue, BadAddressStops
<1> QED BY <1>1, InitBalances DEF AmountsInv

\* In a visit, fetches of an account, retried or prompted by its events in whatever
\* order, never put an older amount in the place of one on display.
THEOREM AmountsOnlyForward == Spec => [][AmountsNotBack]_vars
BY InitAmounts, NextKeepsAmounts, PTL DEF Spec

\* One address that cannot be decoded keeps every account of the page without an
\* amount, for as long as the page is open: each attempt fails before its first fetch.
THEOREM OneBadAddressHidesAll == Spec => [](watcher.watched \cap Undecodable # {} => NoAmounts)
<1>1. AmountsInv => (watcher.watched \cap Undecodable # {} => NoAmounts)
    BY DEF AmountsInv, BadAddressStops
<1> QED BY InitAmounts, NextKeepsAmounts, <1>1, PTL DEF Spec
----------------------------------------------------------------------------
\* A row that still says it is loading is yet to be fetched by the first attempt.
LoadingIsAwaited ==
    \A a \in Addresses : balances[a] = Loading =>
        \/ watcher.at \in {"decode", "connect"}
        \/ watcher.at = "fetch" /\ a \in watcher.todo

\* Amounts and errors are not the loading state.
LEMMA LoadingIsNoOther == Failed # Loading /\ Absent # Loading /\ \A n : Ready(n) # Loading
<1>1. /\ Absent.is = "absent" /\ Loading.is = "loading" /\ Failed.is = "failed"
      /\ \A n : Ready(n).is = "ready"
    BY DEF Absent, Loading, Failed, Ready
<1> QED BY <1>1

\* Every way on from the first fetch settles the row, and the others start none.
LEMMA NextKeepsAwaited == BalancesInv /\ LoadingIsAwaited /\ [Next]_vars => LoadingIsAwaited'
<1> SUFFICES ASSUME BalancesInv, LoadingIsAwaited, [Next]_vars PROVE LoadingIsAwaited'
    OBVIOUS
<1>1. /\ balances \in [Addresses -> States]
      /\ watcher \in [at : Steps, watched : SUBSET Addresses, todo : SUBSET Addresses]
      /\ \A a \in Addresses : balances[a] = Absent <=> a \notin watcher.watched
    BY DEF BalancesInv, TypeOK
<1>2. ASSUME AttemptFails PROVE LoadingIsAwaited'
    <2>1. \A a \in Addresses : balances'[a] # Loading
        BY <1>1, <1>2, LoadingIsNoOther DEF AttemptFails
    <2> QED BY <2>1 DEF LoadingIsAwaited
<1>3. ASSUME NEW S \in SUBSET Addresses, OpenAccounts(S) PROVE LoadingIsAwaited'
    <2>1. S = {} => \A a \in Addresses : balances'[a] = Absent
        BY <1>3 DEF OpenAccounts
    <2>2. S # {} => watcher'.at = "decode"
        BY <1>3 DEF OpenAccounts
    <2> QED BY <2>1, <2>2, LoadingIsNoOther DEF LoadingIsAwaited
<1>4. CASE CloseAccounts
    <2>1. \A a \in Addresses : balances'[a] = Absent
        BY <1>4 DEF CloseAccounts
    <2> QED BY <2>1, LoadingIsNoOther DEF LoadingIsAwaited
<1>5. ASSUME NEW a \in Addresses, FetchOne(a) PROVE LoadingIsAwaited'
    <2>1. /\ \E state \in {Ready(funds[a]), Failed} : balances' = [balances EXCEPT ![a] = state]
          /\ watcher'.todo = watcher.todo \ {a}
          /\ watcher'.todo # {} => watcher'.at = watcher.at
          /\ watcher.at \in {"fetch", "refetch"}
        BY <1>1, <1>5 DEF FetchOne
    <2>2. balances'[a] # Loading /\ \A b \in Addresses \ {a} : balances'[b] = balances[b]
        BY <1>1, <2>1, LoadingIsNoOther
    <2> QED BY <2>1, <2>2 DEF LoadingIsAwaited
<1>6. CASE Decode \/ Connect \/ Subscribe \/ StreamFails
    <2>1. CASE AttemptFails
        BY <1>2, <2>1
    <2>2. CASE ~ AttemptFails
        <3>1. UNCHANGED balances
            BY <1>6, <2>2 DEF Decode, Connect, Subscribe, StreamFails
        <3>2. CASE Decode
            BY <1>1, <2>2, <3>1, <3>2 DEF Decode, LoadingIsAwaited
        <3>3. CASE Connect
            <4>1. watcher'.at = "fetch" /\ watcher'.todo = watcher.watched
                BY <1>1, <2>2, <3>3 DEF Connect
            <4> QED BY <1>1, <3>1, <4>1, LoadingIsNoOther DEF LoadingIsAwaited
        <3>4. CASE Subscribe
            BY <3>1, <3>4 DEF Subscribe, LoadingIsAwaited
        <3> QED BY <1>6, <2>2, <3>2, <3>3, <3>4 DEF StreamFails
    <2> QED BY <2>1, <2>2
<1>7. CASE ReadBlock \/ StreamEnds \/ Retry
    BY <1>7 DEF ReadBlock, StreamEnds, Retry, LoadingIsAwaited
<1>8. ASSUME UNCHANGED <<watcher, balances>> PROVE LoadingIsAwaited'
    BY <1>8 DEF LoadingIsAwaited
<1>9. CASE UNCHANGED vars \/ \E a \in Addresses : Transfer(a) \/ ChangeUntold(a)
    BY <1>8, <1>9 DEF vars, Transfer, ChangeUntold
<1> QED BY <1>3, <1>4, <1>5, <1>6, <1>7, <1>9 DEF Next, WatcherStep

\* No row is left loading by an attempt that failed, a task that returned or an open
\* stream: only those the first attempt is yet to fetch say so, which is the safety
\* half of BalancesAreShown.
THEOREM LoadingRowsAreFetched == Spec => []LoadingIsAwaited
<1>1. Init => LoadingIsAwaited
    BY LoadingIsNoOther DEF Init, LoadingIsAwaited
<1> QED BY InitBalances, NextKeepsBalancesInv, NextKeepsAwaited, <1>1, PTL DEF Spec
=============================================================================
