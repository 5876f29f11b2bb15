------------------------ MODULE ConnectionLifecycle ------------------------
(***************************************************************************)
(* What ARCHITECTURE.md promises of all three background connections:      *)
(* they go Connecting -> Connected -> Reconnecting, and once shutdown is   *)
(* requested a loop exits instead of entering another reconnect cycle.     *)
(* The watchers of main.rs are shown to implement this.                    *)
(***************************************************************************)

VARIABLES
    status,     \* the ConnectionStatus that the views show
    failed,     \* last_error is set
    shutdown,   \* the application is shutting down
    loop        \* "running" until the task has "returned"

vars == <<status, failed, shutdown, loop>>

Init ==
    /\ status = "connecting"
    /\ failed = FALSE
    /\ shutdown = FALSE
    /\ loop = "running"

RequestShutdown ==
    /\ ~shutdown
    /\ shutdown' = TRUE
    /\ UNCHANGED <<status, failed, loop>>

Establish ==
    /\ loop = "running"
    /\ status = "connecting"
    /\ status' = "connected"
    /\ UNCHANGED <<failed, shutdown, loop>>

\* A connection or an attempt ends, with an error to show.
Lose ==
    /\ loop = "running"
    /\ status \in {"connecting", "connected"}
    /\ status' = "reconnecting"
    /\ failed' = TRUE
    /\ UNCHANGED <<shutdown, loop>>

Retry ==
    /\ loop = "running"
    /\ ~shutdown
    /\ status = "reconnecting"
    /\ status' = "connecting"
    /\ failed' = FALSE
    /\ UNCHANGED <<shutdown, loop>>

\* The loop returns only between connections.
Stop ==
    /\ loop = "running"
    /\ shutdown
    /\ status # "connected"
    /\ loop' = "returned"
    /\ UNCHANGED <<status, failed, shutdown>>

Next == RequestShutdown \/ Establish \/ Lose \/ Retry \/ Stop

Spec == Init /\ [][Next]_vars
----------------------------------------------------------------------------
\* Shutdown always ends the loop.
ShutdownStops == shutdown ~> loop = "returned"

\* A lost connection is tried again, unless the application shuts down.
LossIsRetried == status = "reconnecting" ~> status = "connecting" \/ shutdown
=============================================================================
