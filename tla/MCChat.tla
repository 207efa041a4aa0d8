------------------------------- MODULE MCChat -------------------------------
(* Chat for TLC: u1 sends enough for its message ID to return, u2 interleaves. *)
EXTENDS Chat

CONSTANTS u1, u2, u3

\* Both senders reach u3; with the SFU they also reach each other.
MCPairs == {{u1, u3}, {u2, u3}} \cup {{u, Server} : u \in Users}

MCMaxSends == [u \in Users |-> IF u = u1 THEN 2 ELSE IF u = u2 THEN 1 ELSE 0]
=============================================================================
