----------------------------- MODULE MCThreadPool -----------------------------
(***************************************************************************)
(* Two agents and the main thread on one cell of two values: every thread  *)
(* can be waiter, notifier and spawner, and one agent can launch the other.*)
(***************************************************************************)
EXTENDS ThreadPool

CONSTANTS main, agent1, agent2, none

MCAgents == {agent1, agent2}
MCAddrs == {0}
MCValues == {0, 1}
MCNotifyCounts == {1}
=============================================================================
