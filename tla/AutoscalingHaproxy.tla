------------------------- MODULE AutoscalingHaproxy -------------------------
(***************************************************************************)
(* autoscaling_haproxy_update.pl: a listener on the load balancer takes    *)
(* autoscaling notifications from an SQS queue, edits the server lines of  *)
(* /etc/haproxy/haproxy.cfg, reloads HAProxy and deletes the notification. *)
(*                                                                         *)
(* The queue is a standard SQS queue: unordered, and a message that was    *)
(* received but not deleted becomes visible again.  EC2, SQS and HAProxy   *)
(* are outside the script and modelled from its use of them.               *)
(***************************************************************************)
EXTENDS Naturals, FiniteSets

CONSTANTS
  Instances,      \* EC2 instance ids
  FirstInstance,  \* the instance of the line haproxy.cfg ships with (i-03b4c651)
  NoInstance,     \* stands for "no instance id in the message"
  Consumers,      \* running copies of the script
  NotRunning,     \* HAProxy is not running
  MaxName,        \* bound: the highest appNNN number used
  MaxCrashes      \* bound: kills and reboots in a behaviour

ASSUME InstancesAssumption == /\ FirstInstance \in Instances
                              /\ NoInstance \notin Instances
ASSUME MaxNameAssumption == MaxName \in Nat /\ MaxName >= 2
ASSUME MaxCrashesAssumption == MaxCrashes \in Nat

VARIABLES
  inst,      \* EC2's view of each instance
  queue,     \* notifications sent and not deleted
  visible,   \* those of them a ReceiveMessage may return
  cfg,       \* haproxy.cfg after "# Begin": how often each server line occurs
  loaded,    \* the lines the running HAProxy was started with, or NotRunning
  pc,        \* where each copy of the script is
  msg,       \* the notification it is handling
  pdns,      \* $pdns_name: does it hold the instance's private DNS name?
  lastapp,   \* $lastapp, as a number
  todo,      \* sides of the shell pipeline that have not run yet
  crashes,   \* kills and reboots so far
  prevCfg,   \* history: the file before its last edit
  refused    \* history: was the last start or reload of HAProxy refused?

scriptVars == <<pc, msg, pdns, lastapp, todo>>
vars == <<inst, queue, visible, cfg, loaded, pc, msg, pdns, lastapp, todo,
          crashes, prevCfg, refused>>

Launching(i) == [action |-> "Launching", id |-> i]
Terminating(i) == [action |-> "Terminating", id |-> i]
TestNotification == [action |-> "", id |-> NoInstance]

Messages == {Launching(i) : i \in Instances}
              \cup {Terminating(i) : i \in Instances}
              \cup {TestNotification}

\* "    server app<name> <host>:8080 check # <id>"; host "" is the line that
\* an instance without a private DNS name gets.
Line == [name : 1..MaxName, host : {"dns", ""}, id : Instances]
File == [Line -> Nat]

InitialLine == [name |-> 2, host |-> "dns", id |-> FirstInstance]

Present(file) == {l \in Line : file[l] > 0}
Ids(file) == {i \in Instances : \E l \in Present(file) : l.id = i}

\* grep | sort | cut | tail -1: the highest server name in the file, 0 ("app000")
\* if there is none.
LastApp(file) ==
  IF Present(file) = {} THEN 0
  ELSE CHOOSE n \in 0..MaxName :
         /\ \E l \in Present(file) : l.name = n
         /\ \A l \in Present(file) : l.name <= n

AppendLine(file, line) == [file EXCEPT ![line] = @ + 1]
\* Mutant: sed stops after the first line of the instance.
MutantDeleteFirst(file, i) ==
  [l \in Line |-> IF l = (CHOOSE k \in Line : k.id = i /\ (k \in Present(file)
                                               \/ i \notin Ids(file)))
                  THEN 0 ELSE file[l]]
DeleteLines(file, i) == [l \in Line |-> IF l.id = i THEN 0 ELSE file[l]]

TypeOK ==
  /\ inst \in [Instances -> {"unborn", "running", "terminated", "forgotten"}]
  /\ queue \subseteq Messages
  /\ visible \subseteq queue
  /\ cfg \in File
  /\ loaded \in File \cup {NotRunning}
  /\ pc \in [Consumers ->
               {"down", "receive", "describe", "lastapp", "pipe", "delete"}]
  /\ msg \in [Consumers -> Messages]
  /\ pdns \in [Consumers -> {"dns", ""}]
  /\ lastapp \in [Consumers -> 0..MaxName]
  /\ todo \in [Consumers -> SUBSET {"write", "reload"}]
  /\ crashes \in 0..MaxCrashes
  /\ prevCfg \in File
  /\ refused \in BOOLEAN

Init ==
  /\ inst = [i \in Instances |-> IF i = FirstInstance THEN "running"
                                                      ELSE "unborn"]
  /\ queue = {TestNotification}
  /\ visible = queue
  /\ cfg = [l \in Line |-> IF l = InitialLine THEN 1 ELSE 0]
  /\ loaded = cfg
  /\ pc = [c \in Consumers |-> "receive"]
  /\ msg = [c \in Consumers |-> TestNotification]
  /\ pdns = [c \in Consumers |-> ""]
  /\ lastapp = [c \in Consumers |-> 0]
  /\ todo = [c \in Consumers |-> {}]
  /\ crashes = 0
  /\ prevCfg = cfg
  /\ refused = FALSE

-----------------------------------------------------------------------------
(* The autoscaling group, EC2 and the queue.                               *)

Send(m) == /\ queue' = queue \cup {m}
           /\ visible' = visible \cup {m}

Launch(i) ==
  /\ inst[i] = "unborn"
  /\ inst' = [inst EXCEPT ![i] = "running"]
  /\ Send(Launching(i))
  /\ UNCHANGED <<cfg, loaded, scriptVars, crashes, prevCfg, refused>>

Terminate(i) ==
  /\ inst[i] = "running"
  /\ inst' = [inst EXCEPT ![i] = "terminated"]
  /\ Send(Terminating(i))
  /\ UNCHANGED <<cfg, loaded, scriptVars, crashes, prevCfg, refused>>

\* EC2 drops a terminated instance some time later: describing it is then an
\* error, where before it was an instance without a private DNS name.
Forget(i) ==
  /\ inst[i] = "terminated"
  /\ inst' = [inst EXCEPT ![i] = "forgotten"]
  /\ UNCHANGED <<queue, visible, cfg, loaded, scriptVars, crashes, prevCfg, refused>>

\* The visibility timeout of a received, undeleted message expires.
Reappear(m) ==
  /\ m \in queue \ visible
  /\ visible' = visible \cup {m}
  /\ UNCHANGED <<inst, queue, cfg, loaded, scriptVars, crashes, prevCfg, refused>>

-----------------------------------------------------------------------------
(* The script.                                                             *)

\* A message with no action in it is deleted at once; the others are looked up.
ReceiveMessage(c, m) ==
  /\ pc[c] = "receive"
  /\ m \in visible
  /\ visible' = visible \ {m}
  /\ msg' = [msg EXCEPT ![c] = m]
  /\ pc' = [pc EXCEPT ![c] = IF m.action = "" THEN "delete" ELSE "describe"]
  /\ UNCHANGED <<inst, queue, cfg, loaded, pdns, lastapp, todo, crashes, prevCfg, refused>>

\* ReceiveMessage returned nothing: sleep 5 and ask again.
Sleep(c) ==
  /\ pc[c] = "receive"
  /\ visible = {}
  /\ UNCHANGED vars

\* Everything the script keeps in memory is gone.
Stopped(c) ==
  /\ pc' = [pc EXCEPT ![c] = "down"]
  /\ msg' = [msg EXCEPT ![c] = TestNotification]
  /\ pdns' = [pdns EXCEPT ![c] = ""]
  /\ lastapp' = [lastapp EXCEPT ![c] = 0]
  /\ todo' = [todo EXCEPT ![c] = {}]

\* describe_instances, then the branch on the action.  For an instance EC2 no
\* longer knows the call yields an error and the script dies.
DescribeInstances(c) ==
  LET m == msg[c] IN
  /\ pc[c] = "describe"
  /\ \/ /\ inst[m.id] = "forgotten"
        /\ Stopped(c)
     \/ /\ inst[m.id] # "forgotten"
        /\ pdns' = [pdns EXCEPT ![c] = IF inst[m.id] = "running" THEN "dns" ELSE ""]
        /\ \/ /\ m.action = "Launching"
              /\ pc' = [pc EXCEPT ![c] = "lastapp"]
              /\ UNCHANGED todo
           \/ /\ m.action = "Terminating"
              /\ pc' = [pc EXCEPT ![c] = "pipe"]
              /\ todo' = [todo EXCEPT ![c] = {"write", "reload"}]
        /\ UNCHANGED <<msg, lastapp>>
  /\ UNCHANGED <<inst, queue, visible, cfg, loaded, crashes, prevCfg, refused>>

\* Mutant: the name is not incremented.
MutantLastAppKept(c) ==
  /\ pc[c] = "lastapp"
  /\ lastapp' = [lastapp EXCEPT ![c] = IF LastApp(cfg) = 0 THEN 1 ELSE LastApp(cfg)]
  /\ pc' = [pc EXCEPT ![c] = "pipe"]
  /\ todo' = [todo EXCEPT ![c] = {"write", "reload"}]
  /\ UNCHANGED <<inst, queue, visible, cfg, loaded, msg, pdns, crashes, prevCfg, refused>>

\* The Launching branch reads the last server name before its shell command.
GetLastApp(c) ==
  /\ pc[c] = "lastapp"
  /\ LastApp(cfg) < MaxName
  /\ lastapp' = [lastapp EXCEPT ![c] = LastApp(cfg) + 1]
  /\ pc' = [pc EXCEPT ![c] = "pipe"]
  /\ todo' = [todo EXCEPT ![c] = {"write", "reload"}]
  /\ UNCHANGED <<inst, queue, visible, cfg, loaded, msg, pdns, crashes, prevCfg, refused>>

\* The two sides of "echo ... >> cfg | reload" and of "sed -i ... | reload"
\* are processes of one pipeline: they run at the same time, in either order.
Edited(c) ==
  LET m == msg[c] IN
  IF m.action = "Launching"
  THEN AppendLine(cfg, [name |-> lastapp[c], host |-> pdns[c], id |-> m.id])
  ELSE DeleteLines(cfg, m.id)

WriteCfg(c) ==
  /\ pc[c] = "pipe"
  /\ "write" \in todo[c]
  /\ cfg' = Edited(c)
  /\ prevCfg' = cfg
  /\ todo' = [todo EXCEPT ![c] = @ \ {"write"}]
  /\ UNCHANGED <<inst, queue, visible, loaded, pc, msg, pdns, lastapp, crashes, refused>>

\* Mutant: the Terminating branch forgets to reload.
MutantReloadLaunchOnly(c) ==
  /\ pc[c] = "pipe"
  /\ "reload" \in todo[c]
  /\ loaded' = IF msg[c].action = "Launching" THEN cfg ELSE loaded
  /\ todo' = [todo EXCEPT ![c] = @ \ {"reload"}]
  /\ UNCHANGED <<inst, queue, visible, cfg, pc, msg, pdns, lastapp, crashes, prevCfg, refused>>

\* HAProxy is started with the file.  If "haproxy -c" or the new process finds
\* fault with it (a host that cannot be resolved), or the process cannot bind,
\* what ran before stays; the script does not look at the exit status.
StartHaproxy(before) ==
  \/ loaded' = cfg /\ refused' = FALSE
  \/ loaded' = before /\ refused' = TRUE

ReloadHaproxy(c) ==
  /\ pc[c] = "pipe"
  /\ "reload" \in todo[c]
  /\ StartHaproxy(loaded)
  /\ todo' = [todo EXCEPT ![c] = @ \ {"reload"}]
  /\ UNCHANGED <<inst, queue, visible, cfg, pc, msg, pdns, lastapp, crashes, prevCfg>>

\* Mutant: the message is deleted without waiting for the pipeline to end.
MutantDeleteEarly(c) ==
  /\ pc[c] \in {"pipe", "delete"}
  /\ queue' = queue \ {msg[c]}
  /\ visible' = visible \ {msg[c]}
  /\ Stopped(c)
  /\ UNCHANGED <<inst, cfg, loaded, crashes, prevCfg, refused>>

\* system() has returned (both sides are done): delete the message, unset the
\* variables, ask for the next one.
DeleteMessage(c) ==
  /\ pc[c] \in {"pipe", "delete"}
  /\ todo[c] = {}
  /\ queue' = queue \ {msg[c]}
  /\ visible' = visible \ {msg[c]}
  /\ pc' = [pc EXCEPT ![c] = "receive"]
  /\ msg' = [msg EXCEPT ![c] = TestNotification]
  /\ pdns' = [pdns EXCEPT ![c] = ""]
  /\ lastapp' = [lastapp EXCEPT ![c] = 0]
  /\ UNCHANGED <<inst, cfg, loaded, todo, crashes, prevCfg, refused>>

\* The script is killed or dies on a failed call.  A pipeline it has started
\* still finishes, so it counts as stopped after that.
Die(c) ==
  /\ pc[c] # "down"
  /\ todo[c] = {}
  /\ crashes < MaxCrashes
  /\ crashes' = crashes + 1
  /\ Stopped(c)
  /\ UNCHANGED <<inst, queue, visible, cfg, loaded, prevCfg, refused>>

\* The load balancer reboots: pipelines are cut short, HAProxy comes back with
\* whatever is in the file, or not at all if the file is refused.
Reboot ==
  /\ crashes < MaxCrashes
  /\ crashes' = crashes + 1
  /\ pc' = [c \in Consumers |-> "down"]
  /\ msg' = [c \in Consumers |-> TestNotification]
  /\ pdns' = [c \in Consumers |-> ""]
  /\ lastapp' = [c \in Consumers |-> 0]
  /\ todo' = [c \in Consumers |-> {}]
  /\ StartHaproxy(NotRunning)
  /\ UNCHANGED <<inst, queue, visible, cfg, prevCfg>>

\* cron (the header's note) or an operator starts the script again.
Start(c) ==
  /\ pc[c] = "down"
  /\ pc' = [pc EXCEPT ![c] = "receive"]
  /\ UNCHANGED <<inst, queue, visible, cfg, loaded, msg, pdns, lastapp, todo,
                 crashes, prevCfg, refused>>

Script(c) ==
  \/ DescribeInstances(c) \/ GetLastApp(c)
  \/ WriteCfg(c) \/ ReloadHaproxy(c) \/ DeleteMessage(c)

Next ==
  \/ \E i \in Instances : Launch(i) \/ Terminate(i) \/ Forget(i)
  \/ \E m \in Messages : Reappear(m)
  \/ \E c \in Consumers :
       \/ \E m \in Messages : ReceiveMessage(c, m)
       \/ Sleep(c) \/ Script(c) \/ Die(c) \/ Start(c)
  \/ Reboot

Spec == Init /\ [][Next]_vars

\* SQS keeps offering every undeleted message, the script runs, and whoever
\* started it starts it again.
Fairness ==
  /\ \A m \in Messages : /\ WF_vars(Reappear(m))
                         /\ SF_vars(\E c \in Consumers : ReceiveMessage(c, m))
  /\ \A c \in Consumers : WF_vars(Script(c)) /\ WF_vars(Start(c))

FairSpec == Spec /\ Fairness

-----------------------------------------------------------------------------
(* Properties.                                                             *)

SingleConsumer == \A c, d \in Consumers : c = d

\* No launch is lost: an instance that was launched and not terminated has a
\* line in haproxy.cfg or its Launching notification is still in the queue,
\* through every crash, reboot and redelivery (the message is deleted last).
LaunchNotLost ==
  \A i \in Instances :
    inst[i] = "running" => Launching(i) \in queue \/ i \in Ids(cfg)

\* With one copy of the script no two server lines share a name, whatever the
\* order of additions and removals ($lastapp++ on the highest name in the file).
NamesUnique ==
  \A k, l \in Present(cfg) : (k.name = l.name => k = l) /\ cfg[l] = 1

\* With one copy of the script a line that names a real host belongs to an
\* instance that is running or whose Terminating notification is still to be
\* deleted: a line that a reordered notification leaves behind for good has an
\* empty host, because describe_instances came after the termination.
NoDeadHost ==
  \A l \in Present(cfg) :
    l.host = "dns" => inst[l.id] = "running" \/ Terminating(l.id) \in queue

\* With one copy of the script, between two notifications HAProxy runs the
\* current file or the one before its last edit, never anything older, unless
\* its last reload was refused: each edit's pipeline reloads, though possibly
\* too early, and whatever edits refused reloads and reboots have piled up, the
\* first reload that is not refused catches up with all but the last.
StaleByAtMostOneEdit ==
  (\A c \in Consumers : todo[c] = {}) /\ ~refused => loaded \in {cfg, prevCfg}

\* Every launched instance gets its line, unless it is terminated first.
LaunchEventuallyWritten ==
  \A i \in Instances :
    inst[i] = "running" ~> (i \in Ids(cfg) \/ inst[i] # "running")

\* What makes LaunchNotLost inductive, for any number of copies: a notification
\* exists only after its event, and each copy is at a point of the handling that
\* fits its message and what its finished edit left behind.
Caused(m) ==
  /\ m.action = "Launching" => inst[m.id] # "unborn"
  /\ m.action = "Terminating" => inst[m.id] \in {"terminated", "forgotten"}

Handling(c) ==
  LET m == msg[c] IN
  /\ Caused(m)
  /\ pc[c] \in {"describe", "lastapp", "pipe"} => m # TestNotification
  /\ pc[c] = "delete" => m = TestNotification
  /\ pc[c] = "lastapp" => m.action = "Launching"
  /\ todo[c] # {} => pc[c] = "pipe"
  /\ "write" \in todo[c] /\ m.action = "Launching" => lastapp[c] \in 1..MaxName
  /\ pc[c] = "pipe" /\ "write" \notin todo[c] /\ m.action = "Launching"
       => inst[m.id] # "running" \/ m.id \in Ids(cfg)

LaunchInv ==
  /\ \A m \in queue : Caused(m)
  /\ \A c \in Consumers : Handling(c)
  /\ LaunchNotLost

\* What one copy adds: nobody else deletes its message, edits the file between
\* its read of the last name and its edit, or undoes its edit.
HandlingAlone(c) ==
  LET m == msg[c] IN
  /\ pc[c] \in {"describe", "lastapp", "pipe"} => m \in queue
  /\ pc[c] \in {"lastapp", "pipe"} /\ pdns[c] = "dns" /\ m.action = "Launching"
       => inst[m.id] = "running" \/ Terminating(m.id) \in queue
  /\ "write" \in todo[c] /\ m.action = "Launching"
       => \A l \in Present(cfg) : l.name < lastapp[c]
  /\ pc[c] = "pipe" /\ "write" \notin todo[c]
       => (m.action = "Launching" <=> m.id \in Ids(cfg))
  /\ "write" \in todo[c] /\ "reload" \notin todo[c] /\ ~refused => loaded = cfg

SingleInv ==
  /\ \A c \in Consumers : HandlingAlone(c)
  /\ NamesUnique
  /\ NoDeadHost
  /\ StaleByAtMostOneEdit

\* With one copy of the script the listener implements the registry: effects
\* only under an outstanding notification, acknowledged only while in force.
RegistryImpl == INSTANCE Registry WITH
  alive <- {i \in Instances : inst[i] = "running"},
  outstanding <- queue,
  registered <- Ids(cfg)
ImplementsRegistry == RegistryImpl!Spec
=============================================================================
