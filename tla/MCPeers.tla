------------------------------- MODULE MCPeers -------------------------------
(* Two processes; the older has stored one entry and learned another. *)
EXTENDS Peers

CONSTANTS old, new, k1, k2

MCConns == 1..2
MCOldUpdates == [k \in Keys |-> IF k = k1 THEN 1 ELSE 2 + Offset]
=============================================================================
