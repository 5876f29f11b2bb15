---------------------------- MODULE AppShutdown ----------------------------
(***************************************************************************)
(* AppShutdown (src/src/main.rs): the watch channel by which the window's  *)
(* close request reaches the background tasks.  All of them subscribe when *)
(* App first renders; the value goes from FALSE to TRUE and stays.         *)
(***************************************************************************)

VARIABLE shutdown

\* AppShutdown::trigger.
TriggerShutdown ==
    /\ ~shutdown
    /\ shutdown' = TRUE
=============================================================================
