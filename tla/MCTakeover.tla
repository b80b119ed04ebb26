----------------------------- MODULE MCTakeover -----------------------------
(* Two processes are started to replace the first: one wants a port that    *)
(* another program has, one has the ports of the first in the other order.  *)
EXTENDS Takeover

CONSTANTS first, n1, n2, http, https, other

MCProxies == [p \in Procs |-> CASE p = first -> << <<http, https>> >>
                                [] p = n1 -> << <<http>>, <<other>> >>
                                [] p = n2 -> << <<https>>, <<http>> >>]
=============================================================================
