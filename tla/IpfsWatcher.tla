---------------------------- MODULE IpfsWatcher ----------------------------
(***************************************************************************)
(* watch_ipfs_daemon and maintain_ipfs_connection (src/src/main.rs): a     *)
(* health check every five seconds.                                        *)
(***************************************************************************)

EXTENDS AppShutdown

VARIABLES ppc, ipfs_connection

Ipfs == INSTANCE RetryLoop WITH pc <- ppc, connection <- ipfs_connection

IpfsInit == Ipfs!Init

\* Mutant of IpfsEnter: after a loss only shutdown ends the wait.
IpfsEnterWithoutTimer == (ppc = "start" \/ shutdown) /\ Ipfs!Enter("request")

IpfsEnter == Ipfs!Enter("request")

\* The request fails, the answer has an error status, cannot be decoded, or
\* names no peer.
IpfsLost == ppc \in {"request", "body"} /\ Ipfs!Leave

RequestAnswered == Ipfs!Advance("request", "body")

BodyDecoded ==
    /\ ppc = "body"
    /\ ppc' = "pause"
    /\ ipfs_connection' = Ipfs!Connected

PauseElapsed == Ipfs!Advance("pause", "request")

\* Mutant of IpfsSeesShutdown: the task returns from within the connection.
IpfsReturnsConnected ==
    /\ ppc \in {"request", "pause"}
    /\ shutdown
    /\ ppc' = "stopped"
    /\ UNCHANGED ipfs_connection

\* Both selects of the loop listen for shutdown; decoding the body does not.
IpfsSeesShutdown == ppc \in {"request", "pause"} /\ shutdown /\ Ipfs!Leave

IpfsNext ==
    IpfsEnter \/ RequestAnswered \/ BodyDecoded \/ PauseElapsed \/ IpfsLost \/ IpfsSeesShutdown

IpfsVars == <<ppc, ipfs_connection>>

IpfsFairness ==
    /\ WF_IpfsVars(IpfsEnter)
    /\ WF_IpfsVars(ppc \in {"request", "body", "pause"} /\ IpfsNext)
    /\ SF_IpfsVars(IpfsSeesShutdown)

IpfsTypeOK ==
    /\ ppc \in {"start", "request", "body", "pause", "backoff", "stopped"}
    /\ ipfs_connection \in Ipfs!Connections
=============================================================================
