--------------------------- MODULE MCSessionQueue ---------------------------
(* Small backends for TLC: one server with a single slot and a short queue, *)
(* one whose limit follows the load.                                        *)
EXTENDS SessionQueue, TLC

CONSTANTS s1, s2, s3, a, b

MCMaxConn == [v \in Servers |-> IF v = a THEN 1 ELSE 2]
MCMinConn == [v \in Servers |-> 1]
MCMaxQueue == [v \in Servers |-> IF v = a THEN 1 ELSE 0]

Symmetry == Permutations(Sessions)
=============================================================================
