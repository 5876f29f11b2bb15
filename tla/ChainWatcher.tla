---------------------------- MODULE ChainWatcher ----------------------------
(***************************************************************************)
(* watch_acuity_chain and stream_best_blocks (src/src/main.rs).  Each      *)
(* action is what runs between two awaits.  Block numbers, hashes and      *)
(* runtime constants are left out: a best block only refreshes them.       *)
(***************************************************************************)

EXTENDS AppShutdown

VARIABLES cpc, chain_connection

Chain == INSTANCE RetryLoop WITH pc <- cpc, connection <- chain_connection

ChainInit == Chain!Init

\* Mutant of ChainEnter: nobody looks at shutdown between two attempts.
ChainEnterRegardless ==
    /\ cpc \in {"start", "backoff"}
    /\ cpc' = "connect"
    /\ chain_connection' = Chain!Connecting

ChainEnter == Chain!Enter("connect")

Awaiting == {"connect", "inspect", "best", "finalized", "metadata"}

\* Any awaited call may fail, and either stream may end or fail.
ChainLost == cpc \in Awaiting \cup {"streaming"} /\ Chain!Leave

ConnectClient == Chain!Advance("connect", "inspect")

\* The finalized block and the runtime constants are there: Connected.
InspectFinalized ==
    /\ cpc = "inspect"
    /\ cpc' = "best"
    /\ chain_connection' = Chain!Connected

SubscribeBest == Chain!Advance("best", "finalized")
SubscribeFinalized == Chain!Advance("finalized", "streaming")

\* The finalized branch of the select awaits the block's metadata.
NextFinalized == Chain!Advance("streaming", "metadata")
ReadMetadata ==
    /\ cpc = "metadata"
    /\ cpc' = "streaming"
    /\ chain_connection' = Chain!Connected

ChainSeesShutdown == cpc = "streaming" /\ shutdown /\ Chain!Leave

ChainNext ==
    \/ ChainEnter \/ ConnectClient \/ InspectFinalized \/ SubscribeBest \/ SubscribeFinalized
    \/ NextFinalized \/ ReadMetadata \/ ChainLost \/ ChainSeesShutdown

ChainVars == <<cpc, chain_connection>>

\* Timers fire and awaited calls come back; select! polls its branches in a
\* random order, so a branch that is ready again and again is taken.
ChainFairness ==
    /\ WF_ChainVars(ChainEnter)
    /\ WF_ChainVars(cpc \in Awaiting /\ ChainNext)
    /\ SF_ChainVars(ChainSeesShutdown)

ChainTypeOK ==
    /\ cpc \in Awaiting \cup {"start", "streaming", "backoff", "stopped"}
    /\ chain_connection \in Chain!Connections
=============================================================================
