----------------------------- MODULE MCRoute53 ------------------------------
(* Instances of Route53 for TLC.                                           *)
EXTENDS Route53, TLC

CONSTANTS i1, i2, web, mail, h1, h2

\* Two instances that are tagged with the same name, and with different names.
SharedName == (i1 :> web) @@ (i2 :> web)
OwnNames == (i1 :> web) @@ (i2 :> mail)

\* No specification tells one EC2 host name from another.
HostSymmetry == Permutations({h1, h2})
=============================================================================
