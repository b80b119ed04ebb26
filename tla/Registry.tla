------------------------------ MODULE Registry ------------------------------
(***************************************************************************)
(* What the autoscaling listener promises to whoever reads haproxy.cfg:    *)
(* a set of registered instances that follows the notifications, where a   *)
(* notification is acknowledged only while its effect is in force.         *)
(* Effects may be repeated (a notification can be delivered again) but     *)
(* nothing is registered or removed without an outstanding notification.   *)
(***************************************************************************)

CONSTANTS Instances, FirstInstance

VARIABLES alive,        \* instances launched and not terminated
          outstanding,  \* notifications sent and not acknowledged
          registered    \* instances the configuration sends traffic to

vars == <<alive, outstanding, registered>>

Launching(i) == [action |-> "Launching", id |-> i]
Terminating(i) == [action |-> "Terminating", id |-> i]

Init ==
  /\ alive = {FirstInstance}
  /\ registered = {FirstInstance}
  /\ \A i \in Instances : /\ Launching(i) \notin outstanding
                          /\ Terminating(i) \notin outstanding

Launch(i) ==
  /\ i \notin alive
  /\ alive' = alive \cup {i}
  /\ outstanding' = outstanding \cup {Launching(i)}
  /\ UNCHANGED registered

Terminate(i) ==
  /\ i \in alive
  /\ alive' = alive \ {i}
  /\ outstanding' = outstanding \cup {Terminating(i)}
  /\ UNCHANGED registered

Register(i) ==
  /\ Launching(i) \in outstanding
  /\ registered' = registered \cup {i}
  /\ UNCHANGED <<alive, outstanding>>

Deregister(i) ==
  /\ Terminating(i) \in outstanding
  /\ registered' = registered \ {i}
  /\ UNCHANGED <<alive, outstanding>>

AcknowledgeLaunch(i) ==
  /\ i \in registered
  /\ outstanding' = outstanding \ {Launching(i)}
  /\ UNCHANGED <<alive, registered>>

AcknowledgeTermination(i) ==
  /\ i \notin registered
  /\ outstanding' = outstanding \ {Terminating(i)}
  /\ UNCHANGED <<alive, registered>>

\* A notification about no instance (the topic's test message) has no effect.
AcknowledgeOther ==
  /\ \E m \in outstanding : /\ m \notin {Launching(i) : i \in Instances}
                            /\ m \notin {Terminating(i) : i \in Instances}
                            /\ outstanding' = outstanding \ {m}
  /\ UNCHANGED <<alive, registered>>

Next ==
  \/ \E i \in Instances :
       \/ Launch(i) \/ Terminate(i)
       \/ Register(i) \/ Deregister(i)
       \/ AcknowledgeLaunch(i) \/ AcknowledgeTermination(i)
  \/ AcknowledgeOther

Spec == Init /\ [][Next]_vars
=============================================================================
