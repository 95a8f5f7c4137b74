---------------------------- MODULE MCAgentSync -----------------------------
(* One agent, its connections one after the other, requests at any time.    *)
EXTENDS AgentSync
=============================================================================
