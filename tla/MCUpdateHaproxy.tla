-------------------------- MODULE MCUpdateHaproxy ---------------------------
(* Instances of UpdateHaproxy for TLC.                                     *)
EXTENDS UpdateHaproxy, FiniteSets, TLC

CONSTANTS i1, q1, h1, h2, h3

\* All instances in one security group.
OneGroup == [i \in Instances |-> q1]

\* A block more for every instance.
LinePerInstance == [s \in SUBSET Instances |-> Cardinality(s) + 1]
=============================================================================
