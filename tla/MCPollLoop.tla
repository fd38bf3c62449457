----------------------------- MODULE MCPollLoop -----------------------------
(* The RPC client and the poll loop on small instances.                    *)
EXTENDS PollLoop
=============================================================================
