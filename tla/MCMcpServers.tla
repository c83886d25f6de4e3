---------------------------- MODULE MCMcpServers ----------------------------
(* The start-up and two callers of any kind over one registered server. *)
EXTENDS McpServers
=============================================================================
