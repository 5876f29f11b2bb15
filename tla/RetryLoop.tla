----------------------------- MODULE RetryLoop -----------------------------
(***************************************************************************)
(* The loop that watch_acuity_chain, watch_ipfs_daemon and watch_indexer   *)
(* have in common, around the connection that each of them maintains.      *)
(*                                                                         *)
(* A watch::Receiver is a flag here: shutdown is sent once, a loop that    *)
(* sees it returns, and the clone a maintain_* function gets has not seen  *)
(* it, so changed() is ready exactly while shutdown holds.                 *)
(***************************************************************************)

VARIABLES pc, connection, shutdown

Connecting == [status |-> "connecting", failed |-> FALSE]
Connected == [status |-> "connected", failed |-> FALSE]
Reconnecting == [status |-> "reconnecting", failed |-> TRUE]
Connections == {Connecting, Connected, Reconnecting}

Init ==
    /\ pc = "start"
    /\ connection = Connecting

\* The head of the loop, first or after the two seconds of back-off.  The
\* select that ends the back-off early on shutdown returns as well.
Enter(first) ==
    /\ pc \in {"start", "backoff"}
    /\ IF shutdown
       THEN pc' = "stopped" /\ UNCHANGED connection
       ELSE pc' = first /\ connection' = Connecting

\* The maintained connection came back, with Ok or Err; the loop shows the
\* error and backs off without an await between.
Leave ==
    /\ pc' = "backoff"
    /\ connection' = Reconnecting

\* An await of the maintained connection ends well.
Advance(from, to) ==
    /\ pc = from
    /\ pc' = to
    /\ UNCHANGED connection
=============================================================================
