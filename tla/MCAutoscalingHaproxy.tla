------------------------ MODULE MCAutoscalingHaproxy ------------------------
(* Instances of AutoscalingHaproxy for TLC.                                *)
EXTENDS AutoscalingHaproxy
=============================================================================
