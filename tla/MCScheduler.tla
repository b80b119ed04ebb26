----------------------------- MODULE MCScheduler -----------------------------
(* One session, whose nice value may change, and one permanent task. *)
EXTENDS Scheduler

CONSTANTS a, b

MCRuleNices == {-32}
=============================================================================
