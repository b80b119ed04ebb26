---------------------- MODULE AutoscalingHaproxyProofs ----------------------
(***************************************************************************)
(* Proofs about AutoscalingHaproxy, for every set of instances and every   *)
(* bound.                                                                  *)
(***************************************************************************)
EXTENDS AutoscalingHaproxy, WellFoundedInduction, TLAPS

-----------------------------------------------------------------------------
(* What the shell commands do to the file.                                 *)

\* The fields of a server line.
LEMMA LineFields ==
  ASSUME NEW l \in Line
  PROVE  l.name \in 1..MaxName /\ l.host \in {"dns", ""} /\ l.id \in Instances
BY DEF Line

\* A nonempty set of numbers up to MaxName has a greatest member.
LEMMA GreatestExists ==
  ASSUME NEW S \in SUBSET (0..MaxName), S # {}
  PROVE  \E n \in S : \A m \in S : m <= n
<1> DEFINE T == {MaxName - n : n \in S}
<1>1. T \subseteq Nat /\ T # {}
  <2>1. PICK k \in S : TRUE
    OBVIOUS
  <2>2. MaxName - k \in T
    OBVIOUS
  <2>3. \A k1 \in 0..MaxName : MaxName - k1 \in Nat
    BY MaxNameAssumption
  <2> QED BY <2>2, <2>3
<1>2. PICK x \in T : \A y \in T : <<y, x>> \notin OpToRel(<, Nat)
  BY <1>1, NatLessThanWellFounded, WFMin
<1>3. \A y \in T : ~(y < x)
  BY <1>1, <1>2 DEF OpToRel
<1>4. PICK n \in S : x = MaxName - n
  OBVIOUS
<1>5. ASSUME NEW m \in S PROVE m <= n
  <2>1. MaxName - m \in T
    OBVIOUS
  <2> QED BY <1>3, <1>4, <2>1, MaxNameAssumption
<1> QED BY <1>5

\* The last server name is in range and no name in the file is above it.
LEMMA LastAppIsGreatest ==
  ASSUME NEW file \in File
  PROVE  /\ LastApp(file) \in 0..MaxName
         /\ \A l \in Present(file) : l.name <= LastApp(file)
<1>1. CASE Present(file) = {}
  BY <1>1, MaxNameAssumption DEF LastApp
<1>2. CASE Present(file) # {}
  <2> DEFINE S == {l.name : l \in Present(file)}
  <2>1. S \in SUBSET (0..MaxName) /\ S # {}
    <3>1. PICK k \in Present(file) : TRUE
      BY <1>2
    <3>2. k.name \in S
      OBVIOUS
    <3>3. \A l \in Present(file) : l.name \in 0..MaxName
      <4>1. \A l \in Present(file) : l.name \in 1..MaxName
        BY LineFields DEF Present
      <4> QED BY <4>1, MaxNameAssumption
    <3> QED BY <3>2, <3>3
  <2>2. \E n \in 0..MaxName : /\ \E l \in Present(file) : l.name = n
                              /\ \A l \in Present(file) : l.name <= n
    BY <2>1, GreatestExists
  <2> QED BY <1>2, <2>2 DEF LastApp
<1> QED BY <1>1, <1>2

\* "echo >>" adds one line and keeps the others.
LEMMA AppendLineEffect ==
  ASSUME NEW file \in File, NEW line \in Line
  PROVE  /\ AppendLine(file, line) \in File
         /\ Present(AppendLine(file, line)) = Present(file) \cup {line}
         /\ Ids(AppendLine(file, line)) = Ids(file) \cup {line.id}
<1>1. AppendLine(file, line) \in File
  BY DEF AppendLine, File
<1>2. \A l \in Line : AppendLine(file, line)[l] = IF l = line THEN file[l] + 1 ELSE file[l]
  BY DEF AppendLine, File
<1>3. \A l \in Line : file[l] \in Nat
  BY DEF File
<1>4. Present(AppendLine(file, line)) = Present(file) \cup {line}
  BY <1>2, <1>3 DEF Present
<1>5. line.id \in Instances
  BY LineFields
<1> QED BY <1>1, <1>4, <1>5 DEF Ids

\* "sed -i /id/d" removes every line of the instance and keeps the others.
LEMMA DeleteLinesEffect ==
  ASSUME NEW file \in File, NEW i \in Instances
  PROVE  /\ DeleteLines(file, i) \in File
         /\ Present(DeleteLines(file, i)) = {l \in Present(file) : l.id # i}
         /\ Ids(DeleteLines(file, i)) = Ids(file) \ {i}
         /\ \A l \in Line : l.id # i => DeleteLines(file, i)[l] = file[l]
<1>1. DeleteLines(file, i) \in File
  BY DEF DeleteLines, File
<1>2. Present(DeleteLines(file, i)) = {l \in Present(file) : l.id # i}
  BY DEF DeleteLines, Present, File
<1> QED BY <1>1, <1>2 DEF Ids, DeleteLines

\* The notifications are told apart by action and instance.
LEMMA MessageFields ==
  /\ \A m \in Messages :
       \/ m.action = "Launching" /\ m.id \in Instances /\ m = Launching(m.id)
       \/ m.action = "Terminating" /\ m.id \in Instances /\ m = Terminating(m.id)
       \/ m.action = "" /\ m = TestNotification
  /\ TestNotification \in Messages /\ TestNotification.action = ""
  /\ \A i \in Instances :
       /\ Launching(i) \in Messages
       /\ Launching(i).action = "Launching" /\ Launching(i).id = i
       /\ Terminating(i) \in Messages
       /\ Terminating(i).action = "Terminating" /\ Terminating(i).id = i
<1>1. TestNotification \in Messages /\ TestNotification.action = ""
  BY DEF Messages, TestNotification
<1>2. ASSUME NEW i \in Instances
      PROVE  /\ Launching(i) \in Messages
             /\ Launching(i).action = "Launching" /\ Launching(i).id = i
             /\ Terminating(i) \in Messages
             /\ Terminating(i).action = "Terminating" /\ Terminating(i).id = i
  <2>1. Launching(i) \in Messages /\ Terminating(i) \in Messages
    BY DEF Messages
  <2>2. Launching(i).action = "Launching" /\ Launching(i).id = i
    BY DEF Launching
  <2>3. Terminating(i).action = "Terminating" /\ Terminating(i).id = i
    BY DEF Terminating
  <2> QED BY <2>1, <2>2, <2>3
<1>3. ASSUME NEW m \in Messages
      PROVE  \/ m.action = "Launching" /\ m.id \in Instances /\ m = Launching(m.id)
             \/ m.action = "Terminating" /\ m.id \in Instances /\ m = Terminating(m.id)
             \/ m.action = "" /\ m = TestNotification
  <2>1. \/ \E i \in Instances : m = Launching(i)
        \/ \E i \in Instances : m = Terminating(i)
        \/ m = TestNotification
    BY DEF Messages
  <2> QED BY <1>1, <1>2, <2>1
<1> QED BY <1>1, <1>2, <1>3

\* The edit of a notification is a file, with the effect its action promises.
LEMMA EditedEffect ==
  ASSUME TypeOK, NEW c \in Consumers, msg[c] # TestNotification,
         msg[c].action = "Launching" => lastapp[c] \in 1..MaxName
  PROVE  /\ Edited(c) \in File
         /\ msg[c].action = "Launching" =>
              LET line == [name |-> lastapp[c], host |-> pdns[c], id |-> msg[c].id]
              IN  /\ line \in Line
                  /\ Edited(c) = AppendLine(cfg, line)
                  /\ Present(Edited(c)) = Present(cfg) \cup {line}
                  /\ Ids(Edited(c)) = Ids(cfg) \cup {msg[c].id}
         /\ msg[c].action = "Terminating" =>
              /\ Edited(c) = DeleteLines(cfg, msg[c].id)
              /\ Present(Edited(c)) = {l \in Present(cfg) : l.id # msg[c].id}
              /\ Ids(Edited(c)) = Ids(cfg) \ {msg[c].id}
<1> DEFINE line == [name |-> lastapp[c], host |-> pdns[c], id |-> msg[c].id]
<1>1. cfg \in File /\ msg[c] \in Messages /\ lastapp[c] \in 0..MaxName
        /\ pdns[c] \in {"dns", ""}
  BY DEF TypeOK
<1>2. msg[c].id \in Instances /\ msg[c].action \in {"Launching", "Terminating"}
  BY <1>1, MessageFields
<1>3. CASE msg[c].action = "Launching"
  <2>1. line \in Line /\ line.id = msg[c].id
    <3>1. lastapp[c] \in 1..MaxName
      BY <1>3
    <3> QED BY <1>1, <1>2, <3>1 DEF Line
  <2>2. Edited(c) = AppendLine(cfg, line)
    BY <1>3 DEF Edited
  <2> HIDE DEF line
  <2>3. /\ AppendLine(cfg, line) \in File
        /\ Present(AppendLine(cfg, line)) = Present(cfg) \cup {line}
        /\ Ids(AppendLine(cfg, line)) = Ids(cfg) \cup {line.id}
    BY <1>1, <2>1, AppendLineEffect
  <2> QED BY <1>3, <2>1, <2>2, <2>3 DEF line
<1>4. CASE msg[c].action = "Terminating"
  BY <1>1, <1>2, <1>4, DeleteLinesEffect DEF Edited
<1> QED BY <1>2, <1>3, <1>4

-----------------------------------------------------------------------------
(* Types, and no launch is lost, for any number of copies of the script.   *)

\* The initial file is a file with one line, that of the first instance.
LEMMA InitialFile ==
  ASSUME Init
  PROVE  /\ cfg \in File
         /\ Present(cfg) = {InitialLine}
         /\ cfg[InitialLine] = 1
         /\ Ids(cfg) = {FirstInstance}
<1>1. InitialLine \in Line /\ InitialLine.id = FirstInstance
  <2>1. 2 \in 1..MaxName
    BY MaxNameAssumption
  <2> QED BY <2>1, InstancesAssumption DEF InitialLine, Line
<1>2. cfg \in File /\ Present(cfg) = {InitialLine} /\ cfg[InitialLine] = 1
  <2>1. cfg = [l \in Line |-> IF l = InitialLine THEN 1 ELSE 0]
    BY DEF Init
  <2>2. cfg \in File
    BY <2>1 DEF File
  <2>3. cfg[InitialLine] = 1 /\ \A l \in Line : l # InitialLine => cfg[l] = 0
    BY <1>1, <2>1
  <2>4. Present(cfg) = {InitialLine}
    BY <1>1, <2>3 DEF Present
  <2> QED BY <2>2, <2>3, <2>4
<1> QED BY <1>1, <1>2, InstancesAssumption DEF Ids

LEMMA LaunchInit == Init => TypeOK /\ LaunchInv
<1> SUFFICES ASSUME Init PROVE TypeOK /\ LaunchInv
  OBVIOUS
<1>1. TestNotification \in Messages /\ TestNotification.action = ""
  BY MessageFields
<1>2. TypeOK
  <2>1. 0 \in 0..MaxName /\ 0 \in 0..MaxCrashes
    BY MaxNameAssumption, MaxCrashesAssumption
  <2>2. cfg \in File
    BY InitialFile
  <2> QED BY <1>1, <2>1, <2>2 DEF Init, TypeOK
<1>3. \A m \in queue : Caused(m)
  BY <1>1 DEF Init, Caused
<1>4. LaunchNotLost
  BY InitialFile DEF Init, LaunchNotLost
<1>5. \A c \in Consumers : Handling(c)
  BY <1>1 DEF Init, Handling, Caused
<1> QED BY <1>2, <1>3, <1>4, <1>5 DEF LaunchInv

LEMMA TypeStep == TypeOK /\ LaunchInv /\ [Next]_vars => TypeOK'
<1> SUFFICES ASSUME TypeOK, LaunchInv, [Next]_vars PROVE TypeOK'
  OBVIOUS
<1>1. ASSUME NEW i \in Instances, Launch(i) PROVE TypeOK'
  <2>1. Launching(i) \in Messages
    BY MessageFields
  <2> QED BY <1>1, <2>1 DEF TypeOK, Launch, Send, scriptVars
<1>2. ASSUME NEW i \in Instances, Terminate(i) PROVE TypeOK'
  <2>1. Terminating(i) \in Messages
    BY MessageFields
  <2> QED BY <1>2, <2>1 DEF TypeOK, Terminate, Send, scriptVars
<1>3. ASSUME NEW i \in Instances, Forget(i) PROVE TypeOK'
  BY <1>3 DEF TypeOK, Forget, scriptVars
<1>4. ASSUME NEW m \in Messages, Reappear(m) PROVE TypeOK'
  BY <1>4 DEF TypeOK, Reappear, scriptVars
<1>5. ASSUME NEW c \in Consumers, NEW m \in Messages, ReceiveMessage(c, m) PROVE TypeOK'
  BY <1>5 DEF TypeOK, ReceiveMessage
<1>6. ASSUME NEW c \in Consumers, DescribeInstances(c) PROVE TypeOK'
  <2>1. 0 \in 0..MaxName
    BY MaxNameAssumption
  <2>0. TestNotification \in Messages
    BY MessageFields
  <2>2. UNCHANGED <<inst, queue, visible, cfg, loaded, crashes, prevCfg, refused>>
    BY <1>6 DEF DescribeInstances
  <2>3. CASE Stopped(c)
    BY <2>0, <2>1, <2>2, <2>3 DEF TypeOK, Stopped
  <2>4. CASE ~Stopped(c)
    <3>1. pdns' \in [Consumers -> {"dns", ""}]
      BY <1>6, <2>4 DEF TypeOK, DescribeInstances
    <3>2. \/ pc' = [pc EXCEPT ![c] = "lastapp"] /\ todo' = todo
          \/ /\ pc' = [pc EXCEPT ![c] = "pipe"]
             /\ todo' = [todo EXCEPT ![c] = {"write", "reload"}]
      BY <1>6, <2>4 DEF DescribeInstances
    <3>3. UNCHANGED <<msg, lastapp>>
      BY <1>6, <2>4 DEF DescribeInstances
    <3>4. CASE pc' = [pc EXCEPT ![c] = "lastapp"] /\ todo' = todo
      BY <2>2, <3>1, <3>3, <3>4 DEF TypeOK
    <3>5. CASE /\ pc' = [pc EXCEPT ![c] = "pipe"]
               /\ todo' = [todo EXCEPT ![c] = {"write", "reload"}]
      BY <2>2, <3>1, <3>3, <3>5 DEF TypeOK
    <3> QED BY <3>2, <3>4, <3>5
  <2> QED BY <2>3, <2>4
<1>7. ASSUME NEW c \in Consumers, GetLastApp(c) PROVE TypeOK'
  <2>1. LastApp(cfg) + 1 \in 0..MaxName
    <3>1. LastApp(cfg) \in 0..MaxName
      BY LastAppIsGreatest DEF TypeOK
    <3>2. LastApp(cfg) < MaxName
      BY <1>7 DEF GetLastApp
    <3> QED BY <3>1, <3>2, MaxNameAssumption
  <2> QED BY <1>7, <2>1 DEF TypeOK, GetLastApp
<1>8. ASSUME NEW c \in Consumers, WriteCfg(c) PROVE TypeOK'
  <2>1. Edited(c) \in File
    BY <1>8, EditedEffect DEF LaunchInv, Handling, WriteCfg
  <2> QED BY <1>8, <2>1 DEF TypeOK, WriteCfg
<1>9. ASSUME NEW c \in Consumers, ReloadHaproxy(c) PROVE TypeOK'
  BY <1>9 DEF TypeOK, ReloadHaproxy, StartHaproxy
<1>10. ASSUME NEW c \in Consumers, DeleteMessage(c) PROVE TypeOK'
  <2>1. 0 \in 0..MaxName
    BY MaxNameAssumption
  <2>0. TestNotification \in Messages
    BY MessageFields
  <2> QED BY <1>10, <2>0, <2>1 DEF TypeOK, DeleteMessage
<1>11. ASSUME NEW c \in Consumers, Die(c) PROVE TypeOK'
  <2>1. 0 \in 0..MaxName
    BY MaxNameAssumption
  <2>0. TestNotification \in Messages
    BY MessageFields
  <2>2. crashes \in 0..MaxCrashes /\ crashes < MaxCrashes /\ crashes' = crashes + 1
    BY <1>11 DEF TypeOK, Die
  <2>3. crashes' \in 0..MaxCrashes
    BY <2>2, MaxCrashesAssumption
  <2> QED BY <1>11, <2>0, <2>1, <2>3 DEF TypeOK, Die, Stopped
<1>12. CASE Reboot
  <2>1. 0 \in 0..MaxName
    BY MaxNameAssumption
  <2>0. TestNotification \in Messages
    BY MessageFields
  <2>2. crashes \in 0..MaxCrashes /\ crashes < MaxCrashes /\ crashes' = crashes + 1
    BY <1>12 DEF TypeOK, Reboot
  <2>3. crashes' \in 0..MaxCrashes
    BY <2>2, MaxCrashesAssumption
  <2> QED BY <1>12, <2>0, <2>1, <2>3 DEF TypeOK, Reboot, StartHaproxy
<1>13. ASSUME NEW c \in Consumers, Start(c) PROVE TypeOK'
  BY <1>13 DEF TypeOK, Start
<1>14. CASE UNCHANGED vars
  BY <1>14 DEF TypeOK, vars
<1>15. ASSUME NEW c \in Consumers, Sleep(c) PROVE TypeOK'
  BY <1>14, <1>15 DEF Sleep
<1> QED
  BY <1>1, <1>2, <1>3, <1>4, <1>5, <1>6, <1>7, <1>8, <1>9, <1>10, <1>11, <1>12,
     <1>13, <1>14, <1>15 DEF Next, Script

\* A step that leaves a copy's own state and the file alone, and moves instances
\* only forward, keeps that copy's part of the invariant.
LEMMA HandlingKept ==
  ASSUME TypeOK, NEW d \in Consumers, Handling(d),
         pc'[d] = pc[d], msg'[d] = msg[d], todo'[d] = todo[d], lastapp'[d] = lastapp[d],
         \A i \in Instances :
           /\ inst'[i] # inst[i] =>
                \/ inst[i] = "unborn" /\ inst'[i] = "running"
                \/ inst[i] \in {"running", "terminated"}
                     /\ inst'[i] \in {"terminated", "forgotten"}
           /\ inst[i] # "unborn" /\ inst'[i] = "running" /\ i \in Ids(cfg)
                => i \in Ids(cfg')
  PROVE  Handling(d)'
<1>1. msg[d] \in Messages
  BY DEF TypeOK
<1>2. CASE msg[d] = TestNotification
  BY <1>2, MessageFields DEF Handling, Caused
<1>3. CASE msg[d] # TestNotification
  <2>1. msg[d].id \in Instances /\ msg[d].action \in {"Launching", "Terminating"}
    BY <1>1, <1>3, MessageFields
  <2> QED BY <1>3, <2>1 DEF Handling, Caused
<1> QED BY <1>2, <1>3

\* The same for a notification's cause.
LEMMA CausedKept ==
  ASSUME TypeOK, NEW m \in Messages, Caused(m),
         \A i \in Instances :
           inst'[i] # inst[i] =>
                \/ inst[i] = "unborn" /\ inst'[i] = "running"
                \/ inst[i] \in {"running", "terminated"}
                     /\ inst'[i] \in {"terminated", "forgotten"}
  PROVE  Caused(m)'
<1>1. CASE m = TestNotification
  BY <1>1, MessageFields DEF Caused
<1>2. CASE m # TestNotification
  <2>1. m.id \in Instances /\ m.action \in {"Launching", "Terminating"}
    BY <1>2, MessageFields
  <2> QED BY <1>2, <2>1 DEF Caused
<1> QED BY <1>1, <1>2

LEMMA LaunchStep == TypeOK /\ LaunchInv /\ [Next]_vars => LaunchInv'
<1> SUFFICES ASSUME TypeOK, LaunchInv, [Next]_vars PROVE LaunchInv'
  OBVIOUS
<1>q. queue \subseteq Messages /\ \A m \in queue : Caused(m)
  BY DEF TypeOK, LaunchInv
<1>h. \A c \in Consumers : Handling(c)
  BY DEF LaunchInv
<1>n. LaunchNotLost
  BY DEF LaunchInv
<1>1. ASSUME NEW i \in Instances, Launch(i) PROVE LaunchInv'
  <2>1. /\ inst[i] = "unborn" /\ inst' = [inst EXCEPT ![i] = "running"]
        /\ inst \in [Instances -> {"unborn", "running", "terminated", "forgotten"}]
        /\ queue' = queue \cup {Launching(i)}
        /\ UNCHANGED <<cfg, pc, msg, todo, lastapp>>
    BY <1>1 DEF Launch, Send, scriptVars, TypeOK
  <2>2. \A c \in Consumers : Handling(c)'
    BY <1>h, <2>1, HandlingKept
  <2>3. \A m \in queue : Caused(m)'
    BY <1>q, <2>1, CausedKept
  <2>4. Caused(Launching(i))'
    BY <2>1, MessageFields DEF Caused
  <2>5. LaunchNotLost'
    BY <1>n, <2>1 DEF LaunchNotLost
  <2> QED BY <2>1, <2>2, <2>3, <2>4, <2>5 DEF LaunchInv
<1>2. ASSUME NEW i \in Instances, Terminate(i) PROVE LaunchInv'
  <2>1. /\ inst[i] = "running" /\ inst' = [inst EXCEPT ![i] = "terminated"]
        /\ inst \in [Instances -> {"unborn", "running", "terminated", "forgotten"}]
        /\ queue' = queue \cup {Terminating(i)}
        /\ UNCHANGED <<cfg, pc, msg, todo, lastapp>>
    BY <1>2 DEF Terminate, Send, scriptVars, TypeOK
  <2>2. \A c \in Consumers : Handling(c)'
    BY <1>h, <2>1, HandlingKept
  <2>3. \A m \in queue : Caused(m)'
    BY <1>q, <2>1, CausedKept
  <2>4. Caused(Terminating(i))'
    BY <2>1, MessageFields DEF Caused
  <2>5. LaunchNotLost'
    BY <1>n, <2>1 DEF LaunchNotLost
  <2> QED BY <2>1, <2>2, <2>3, <2>4, <2>5 DEF LaunchInv
<1>3. ASSUME NEW i \in Instances, Forget(i) PROVE LaunchInv'
  <2>1. /\ inst[i] = "terminated" /\ inst' = [inst EXCEPT ![i] = "forgotten"]
        /\ inst \in [Instances -> {"unborn", "running", "terminated", "forgotten"}]
        /\ UNCHANGED <<queue, cfg, pc, msg, todo, lastapp>>
    BY <1>3 DEF Forget, scriptVars, TypeOK
  <2>2. \A c \in Consumers : Handling(c)'
    BY <1>h, <2>1, HandlingKept
  <2>3. \A m \in queue : Caused(m)'
    BY <1>q, <2>1, CausedKept
  <2>5. LaunchNotLost'
    BY <1>n, <2>1 DEF LaunchNotLost
  <2> QED BY <2>1, <2>2, <2>3, <2>5 DEF LaunchInv
<1>4. CASE UNCHANGED <<inst, queue, cfg, pc, msg, todo, lastapp>>
  BY <1>4 DEF LaunchInv, LaunchNotLost, Handling, Caused
<1>5. ASSUME NEW c \in Consumers, NEW m \in Messages, ReceiveMessage(c, m)
      PROVE  LaunchInv'
  <2>1. /\ m \in queue
        /\ msg' = [msg EXCEPT ![c] = m]
        /\ pc' = [pc EXCEPT ![c] = IF m.action = "" THEN "delete" ELSE "describe"]
        /\ msg \in [Consumers -> Messages]
        /\ pc[c] = "receive"
        /\ UNCHANGED <<inst, queue, cfg, todo, lastapp>>
    BY <1>5 DEF ReceiveMessage, TypeOK
  <2>2. ASSUME NEW d \in Consumers PROVE Handling(d)'
    <3>1. CASE d = c
      <4>0. pc \in [Consumers -> {"down", "receive", "describe", "lastapp", "pipe",
                                  "delete"}]
        BY DEF TypeOK
      <4>1. msg'[c] = m /\ pc'[c] = IF m.action = "" THEN "delete" ELSE "describe"
        BY <2>1, <4>0
      <4>2. m.action = "" <=> m = TestNotification
        BY MessageFields
      <4>3. Caused(m)'
        BY <1>q, <2>1 DEF Caused
      <4>4. todo[c] = {}
        BY <1>h, <2>1 DEF Handling
      <4>5. Caused(msg[c])'
        BY <4>1, <4>3 DEF Caused
      <4>6. /\ pc'[c] = "delete" => msg'[c] = TestNotification
            /\ pc'[c] = "describe" => msg'[c] # TestNotification
            /\ pc'[c] \notin {"lastapp", "pipe"} /\ todo'[c] = {}
        <5>1. todo'[c] = {}
          BY <2>1, <4>4
        <5>2. CASE m.action = ""
          BY <4>1, <4>2, <5>1, <5>2
        <5>3. CASE m.action # ""
          BY <4>1, <4>2, <5>1, <5>3
        <5> QED BY <5>2, <5>3
      <4> QED BY <3>1, <4>5, <4>6 DEF Handling
    <3>2. CASE d # c
      <4>1. /\ pc'[d] = pc[d] /\ msg'[d] = msg[d] /\ todo'[d] = todo[d]
            /\ lastapp'[d] = lastapp[d]
        BY <2>1, <3>2 DEF TypeOK
      <4> QED BY <1>h, <2>1, <4>1, HandlingKept
    <3> QED BY <3>1, <3>2
  <2> QED BY <1>q, <1>n, <2>1, <2>2 DEF LaunchInv, LaunchNotLost, Caused
<1>6. ASSUME NEW c \in Consumers, Stopped(c), UNCHANGED <<inst, queue, cfg>>
      PROVE  LaunchInv'
  <2>2. ASSUME NEW d \in Consumers PROVE Handling(d)'
    <3>1. CASE d = c
      <4>1. /\ pc'[c] = "down" /\ msg'[c] = TestNotification
            /\ todo'[c] = {}
        BY <1>6 DEF Stopped, TypeOK
      <4> QED BY <3>1, <4>1, MessageFields DEF Handling, Caused
    <3>2. CASE d # c
      <4>1. /\ pc'[d] = pc[d] /\ msg'[d] = msg[d] /\ todo'[d] = todo[d]
            /\ lastapp'[d] = lastapp[d]
        BY <1>6, <3>2 DEF Stopped, TypeOK
      <4> QED BY <1>h, <1>6, <4>1, HandlingKept
    <3> QED BY <3>1, <3>2
  <2> QED BY <1>q, <1>n, <1>6, <2>2 DEF LaunchInv, LaunchNotLost, Caused
<1>7. ASSUME NEW c \in Consumers, DescribeInstances(c) PROVE LaunchInv'
  <2>1. UNCHANGED <<inst, queue, cfg>>
    BY <1>7 DEF DescribeInstances
  <2>2. CASE Stopped(c)
    BY <1>6, <2>1, <2>2
  <2>3. CASE ~Stopped(c)
    <3>1. /\ UNCHANGED <<msg, lastapp>> /\ pc[c] = "describe"
          /\ \/ /\ msg[c].action = "Launching"
                /\ pc' = [pc EXCEPT ![c] = "lastapp"] /\ todo' = todo
             \/ /\ msg[c].action = "Terminating"
                /\ pc' = [pc EXCEPT ![c] = "pipe"]
                /\ todo' = [todo EXCEPT ![c] = {"write", "reload"}]
      BY <1>7, <2>3 DEF DescribeInstances
    <3>2. ASSUME NEW d \in Consumers PROVE Handling(d)'
      <4>1. CASE d = c
        <5>1. Handling(c) /\ todo[c] = {}
          BY <1>h, <3>1 DEF Handling
        <5>2. CASE /\ msg[c].action = "Launching"
                   /\ pc' = [pc EXCEPT ![c] = "lastapp"] /\ todo' = todo
          BY <2>1, <3>1, <4>1, <5>1, <5>2 DEF Handling, Caused, TypeOK
        <5>3. CASE /\ msg[c].action = "Terminating"
                   /\ pc' = [pc EXCEPT ![c] = "pipe"]
                   /\ todo' = [todo EXCEPT ![c] = {"write", "reload"}]
          <6>1. pc'[c] = "pipe" /\ todo'[c] = {"write", "reload"}
            BY <5>3 DEF TypeOK
          <6> QED BY <2>1, <3>1, <4>1, <5>1, <5>3, <6>1 DEF Handling, Caused
        <5> QED BY <3>1, <5>2, <5>3
      <4>2. CASE d # c
        <5>1. /\ pc'[d] = pc[d] /\ msg'[d] = msg[d] /\ todo'[d] = todo[d]
              /\ lastapp'[d] = lastapp[d]
          BY <3>1, <4>2 DEF TypeOK
        <5> QED BY <1>h, <2>1, <5>1, HandlingKept
      <4> QED BY <4>1, <4>2
    <3> QED BY <1>q, <1>n, <2>1, <3>2 DEF LaunchInv, LaunchNotLost, Caused
  <2> QED BY <2>2, <2>3
<1>8. ASSUME NEW c \in Consumers, GetLastApp(c) PROVE LaunchInv'
  <2>1. /\ UNCHANGED <<inst, queue, cfg, msg>> /\ pc[c] = "lastapp"
        /\ lastapp' = [lastapp EXCEPT ![c] = LastApp(cfg) + 1]
        /\ pc' = [pc EXCEPT ![c] = "pipe"]
        /\ todo' = [todo EXCEPT ![c] = {"write", "reload"}]
    BY <1>8 DEF GetLastApp
  <2>2. LastApp(cfg) + 1 \in 1..MaxName
    <3>1. LastApp(cfg) \in 0..MaxName
      BY LastAppIsGreatest DEF TypeOK
    <3>2. LastApp(cfg) < MaxName
      BY <1>8 DEF GetLastApp
    <3> QED BY <3>1, <3>2, MaxNameAssumption
  <2>3. ASSUME NEW d \in Consumers PROVE Handling(d)'
    <3>1. CASE d = c
      <4>1. /\ pc'[c] = "pipe" /\ todo'[c] = {"write", "reload"}
            /\ lastapp'[c] \in 1..MaxName
        BY <2>1, <2>2 DEF TypeOK
      <4> QED BY <1>h, <2>1, <3>1, <4>1 DEF Handling, Caused
    <3>2. CASE d # c
      <4>1. /\ pc'[d] = pc[d] /\ msg'[d] = msg[d] /\ todo'[d] = todo[d]
            /\ lastapp'[d] = lastapp[d]
        BY <2>1, <3>2 DEF TypeOK
      <4> QED BY <1>h, <2>1, <4>1, HandlingKept
    <3> QED BY <3>1, <3>2
  <2> QED BY <1>q, <1>n, <2>1, <2>3 DEF LaunchInv, LaunchNotLost, Caused
<1>9. ASSUME NEW c \in Consumers, WriteCfg(c) PROVE LaunchInv'
  <2>1. /\ UNCHANGED <<inst, queue, msg, pc, lastapp>> /\ pc[c] = "pipe"
        /\ "write" \in todo[c] /\ cfg' = Edited(c)
        /\ todo' = [todo EXCEPT ![c] = @ \ {"write"}]
    BY <1>9 DEF WriteCfg
  <2>2. /\ Handling(c) /\ msg[c] # TestNotification
        /\ msg[c].action = "Launching" => lastapp[c] \in 1..MaxName
        /\ msg[c].id \in Instances /\ msg[c].action \in {"Launching", "Terminating"}
        /\ msg[c].action = "Terminating" => inst[msg[c].id] # "running"
    <3>1. Handling(c) /\ msg[c] # TestNotification
          /\ (msg[c].action = "Launching" => lastapp[c] \in 1..MaxName)
      BY <1>h, <2>1 DEF Handling
    <3>2. msg[c] \in Messages
      BY DEF TypeOK
    <3>3. msg[c].id \in Instances /\ msg[c].action \in {"Launching", "Terminating"}
      BY <3>1, <3>2, MessageFields
    <3> QED BY <3>1, <3>3 DEF Handling, Caused
  <2>3. /\ msg[c].action = "Launching" => Ids(cfg') = Ids(cfg) \cup {msg[c].id}
        /\ msg[c].action = "Terminating" => Ids(cfg') = Ids(cfg) \ {msg[c].id}
    BY <2>1, <2>2, EditedEffect
  <2>4. \A i \in Instances : inst[i] = "running" /\ i \in Ids(cfg) => i \in Ids(cfg')
    BY <2>2, <2>3
  <2>5. ASSUME NEW d \in Consumers PROVE Handling(d)'
    <3>1. CASE d = c
      <4>1. todo'[c] = todo[c] \ {"write"}
        BY <2>1 DEF TypeOK
      <4>2. msg[c].action = "Launching" => msg[c].id \in Ids(cfg')
        BY <2>3
      <4> QED BY <2>1, <2>2, <3>1, <4>1, <4>2 DEF Handling, Caused
    <3>2. CASE d # c
      <4>1. /\ pc'[d] = pc[d] /\ msg'[d] = msg[d] /\ todo'[d] = todo[d]
            /\ lastapp'[d] = lastapp[d]
        BY <2>1, <3>2 DEF TypeOK
      <4> QED BY <1>h, <2>1, <2>4, <4>1, HandlingKept
    <3> QED BY <3>1, <3>2
  <2>6. LaunchNotLost'
    BY <1>n, <2>1, <2>4 DEF LaunchNotLost
  <2> QED BY <1>q, <2>1, <2>5, <2>6 DEF LaunchInv, Caused
<1>10. ASSUME NEW c \in Consumers, ReloadHaproxy(c) PROVE LaunchInv'
  <2>1. /\ UNCHANGED <<inst, queue, cfg, msg, pc, lastapp>> /\ pc[c] = "pipe"
        /\ todo' = [todo EXCEPT ![c] = @ \ {"reload"}]
    BY <1>10 DEF ReloadHaproxy
  <2>2. ASSUME NEW d \in Consumers PROVE Handling(d)'
    <3>1. CASE d = c
      <4>1. todo'[c] = todo[c] \ {"reload"}
        BY <2>1 DEF TypeOK
      <4> QED BY <1>h, <2>1, <3>1, <4>1 DEF Handling, Caused
    <3>2. CASE d # c
      <4>1. /\ pc'[d] = pc[d] /\ msg'[d] = msg[d] /\ todo'[d] = todo[d]
            /\ lastapp'[d] = lastapp[d]
        BY <2>1, <3>2 DEF TypeOK
      <4> QED BY <1>h, <2>1, <4>1, HandlingKept
    <3> QED BY <3>1, <3>2
  <2> QED BY <1>q, <1>n, <2>1, <2>2 DEF LaunchInv, LaunchNotLost, Caused
<1>11. ASSUME NEW c \in Consumers, DeleteMessage(c) PROVE LaunchInv'
  <2>1. /\ UNCHANGED <<inst, cfg, todo>> /\ pc[c] \in {"pipe", "delete"} /\ todo[c] = {}
        /\ queue' = queue \ {msg[c]}
        /\ pc' = [pc EXCEPT ![c] = "receive"]
        /\ msg' = [msg EXCEPT ![c] = TestNotification]
        /\ lastapp' = [lastapp EXCEPT ![c] = 0]
    BY <1>11 DEF DeleteMessage
  <2>2. ASSUME NEW d \in Consumers PROVE Handling(d)'
    <3>1. CASE d = c
      <4>1. pc'[c] = "receive" /\ msg'[c] = TestNotification /\ todo'[c] = {}
        BY <2>1 DEF TypeOK
      <4> QED BY <3>1, <4>1, MessageFields DEF Handling, Caused
    <3>2. CASE d # c
      <4>1. /\ pc'[d] = pc[d] /\ msg'[d] = msg[d] /\ todo'[d] = todo[d]
            /\ lastapp'[d] = lastapp[d]
        BY <2>1, <3>2 DEF TypeOK
      <4> QED BY <1>h, <2>1, <4>1, HandlingKept
    <3> QED BY <3>1, <3>2
  <2>3. ASSUME NEW i \in Instances, inst[i] = "running", Launching(i) = msg[c]
        PROVE  i \in Ids(cfg)
    <3>1. msg[c].action = "Launching" /\ msg[c].id = i
      BY <2>3 DEF Launching
    <3>2. pc[c] = "pipe"
      <4>1. msg[c] # TestNotification
        BY <3>1, MessageFields
      <4> QED BY <1>h, <2>1, <4>1 DEF Handling
    <3> QED BY <1>h, <2>1, <2>3, <3>1, <3>2 DEF Handling
  <2>4. LaunchNotLost'
    BY <1>n, <2>1, <2>3 DEF LaunchNotLost
  <2> QED BY <1>q, <2>1, <2>2, <2>4 DEF LaunchInv, Caused
<1>12. CASE Reboot
  <2>1. /\ UNCHANGED <<inst, queue, cfg>>
        /\ pc' = [c \in Consumers |-> "down"]
        /\ msg' = [c \in Consumers |-> TestNotification]
        /\ todo' = [c \in Consumers |-> {}]
    BY <1>12 DEF Reboot
  <2>2. \A d \in Consumers : Handling(d)'
    BY <2>1, MessageFields DEF Handling, Caused
  <2> QED BY <1>q, <1>n, <2>1, <2>2 DEF LaunchInv, LaunchNotLost, Caused
<1>13. ASSUME NEW c \in Consumers, Start(c) PROVE LaunchInv'
  <2>1. /\ UNCHANGED <<inst, queue, cfg, msg, todo, lastapp>> /\ pc[c] = "down"
        /\ pc' = [pc EXCEPT ![c] = "receive"]
    BY <1>13 DEF Start
  <2>2. ASSUME NEW d \in Consumers PROVE Handling(d)'
    <3>1. CASE d = c
      <4>1. pc'[c] = "receive"
        BY <2>1 DEF TypeOK
      <4> QED BY <1>h, <2>1, <3>1, <4>1 DEF Handling, Caused
    <3>2. CASE d # c
      <4>1. /\ pc'[d] = pc[d] /\ msg'[d] = msg[d] /\ todo'[d] = todo[d]
            /\ lastapp'[d] = lastapp[d]
        BY <2>1, <3>2 DEF TypeOK
      <4> QED BY <1>h, <2>1, <4>1, HandlingKept
    <3> QED BY <3>1, <3>2
  <2> QED BY <1>q, <1>n, <2>1, <2>2 DEF LaunchInv, LaunchNotLost, Caused
<1>14. ASSUME NEW c \in Consumers, Die(c) PROVE LaunchInv'
  BY <1>6, <1>14 DEF Die
<1>15. ASSUME NEW m \in Messages, Reappear(m) PROVE LaunchInv'
  BY <1>4, <1>15 DEF Reappear, scriptVars
<1>16. ASSUME NEW c \in Consumers, Sleep(c) PROVE LaunchInv'
  BY <1>4, <1>16 DEF Sleep, vars
<1>17. CASE UNCHANGED vars
  BY <1>4, <1>17 DEF vars
<1> QED
  BY <1>1, <1>2, <1>3, <1>5, <1>7, <1>8, <1>9, <1>10, <1>11, <1>12, <1>13, <1>14,
     <1>15, <1>16, <1>17 DEF Next, Script

\* Every reachable state is type correct and no launch is lost: for every set of
\* instances, any number of copies of the script and any number of crashes.
THEOREM LaunchSafety == Spec => [](TypeOK /\ LaunchNotLost)
<1>1. Init => TypeOK /\ LaunchInv
  BY LaunchInit
<1>2. TypeOK /\ LaunchInv /\ [Next]_vars => TypeOK' /\ LaunchInv'
  BY TypeStep, LaunchStep
<1>3. LaunchInv => LaunchNotLost
  BY DEF LaunchInv
<1> QED BY <1>1, <1>2, <1>3, PTL DEF Spec

-----------------------------------------------------------------------------
(* One copy of the script.                                                 *)

\* A step that leaves the copy, the file and HAProxy alone, deletes no
\* notification and ends no instance without a Terminating one keeps the
\* copy's part of the invariant.
LEMMA AloneKept ==
  ASSUME TypeOK, LaunchInv, NEW c \in Consumers, HandlingAlone(c),
         UNCHANGED <<pc, msg, pdns, todo, lastapp, cfg, loaded, refused>>,
         queue \subseteq queue',
         \A i \in Instances :
           inst[i] = "running" => inst'[i] = "running" \/ Terminating(i) \in queue'
  PROVE  HandlingAlone(c)'
<1>1. pc[c] \in {"lastapp", "pipe"} => msg[c].id \in Instances
  <2>1. msg[c] \in Messages /\ Handling(c)
    BY DEF TypeOK, LaunchInv
  <2> QED BY <2>1, MessageFields DEF Handling
<1>2. \A i \in Instances : Terminating(i) \in queue => Terminating(i) \in queue'
  OBVIOUS
<1> QED BY <1>1, <1>2 DEF HandlingAlone

\* The same for the lines that name a host.
LEMMA NoDeadHostKept ==
  ASSUME TypeOK, NoDeadHost, cfg' = cfg, queue \subseteq queue',
         \A i \in Instances :
           inst[i] = "running" => inst'[i] = "running" \/ Terminating(i) \in queue'
  PROVE  NoDeadHost'
<1>1. \A l \in Present(cfg) : l.id \in Instances
  BY LineFields DEF Present
<1> QED BY <1>1 DEF NoDeadHost

\* A copy that holds no notification satisfies its part of the invariant.
LEMMA AloneIdle ==
  ASSUME NEW c \in Consumers, pc'[c] \in {"down", "receive", "delete"}, todo'[c] = {}
  PROVE  HandlingAlone(c)'
BY DEF HandlingAlone

LEMMA SingleInit == Init => SingleInv
<1> SUFFICES ASSUME Init PROVE SingleInv
  OBVIOUS
<1>1. \A c \in Consumers : HandlingAlone(c)
  BY DEF Init, HandlingAlone
<1>2. NamesUnique
  BY InitialFile DEF NamesUnique
<1>3. NoDeadHost
  <2>1. InitialLine.id = FirstInstance
    BY DEF InitialLine
  <2>2. inst[FirstInstance] = "running"
    BY InstancesAssumption DEF Init
  <2> QED BY <2>1, <2>2, InitialFile DEF NoDeadHost
<1>4. StaleByAtMostOneEdit
  BY DEF Init, StaleByAtMostOneEdit
<1> QED BY <1>1, <1>2, <1>3, <1>4 DEF SingleInv

LEMMA SingleStep ==
  ASSUME SingleConsumer
  PROVE  TypeOK /\ LaunchInv /\ SingleInv /\ [Next]_vars => SingleInv'
<1> SUFFICES ASSUME TypeOK, LaunchInv, SingleInv, [Next]_vars PROVE SingleInv'
  OBVIOUS
<1>a. \A c \in Consumers : HandlingAlone(c) /\ Handling(c)
  BY DEF SingleInv, LaunchInv
<1>n. NamesUnique /\ NoDeadHost /\ StaleByAtMostOneEdit
  BY DEF SingleInv
<1>s. \A c, d \in Consumers : c = d
  BY DEF SingleConsumer
<1>1. ASSUME UNCHANGED <<pc, msg, pdns, todo, lastapp, cfg, loaded, prevCfg,
                         refused>>,
             queue \subseteq queue',
             \A i \in Instances :
               inst[i] = "running" => inst'[i] = "running" \/ Terminating(i) \in queue'
      PROVE  SingleInv'
  <2>1. \A c \in Consumers : HandlingAlone(c)'
    BY <1>a, <1>1, AloneKept
  <2>2. NoDeadHost'
    BY <1>n, <1>1, NoDeadHostKept
  <2> QED BY <1>n, <1>1, <2>1, <2>2 DEF SingleInv, NamesUnique, StaleByAtMostOneEdit
<1>2. ASSUME NEW i \in Instances, Launch(i) PROVE SingleInv'
  BY <1>1, <1>2 DEF Launch, Send, scriptVars, TypeOK
<1>3. ASSUME NEW i \in Instances, Terminate(i) PROVE SingleInv'
  BY <1>1, <1>3 DEF Terminate, Send, scriptVars, TypeOK
<1>4. ASSUME NEW i \in Instances, Forget(i) PROVE SingleInv'
  BY <1>1, <1>4 DEF Forget, scriptVars, TypeOK
<1>5. ASSUME NEW m \in Messages, Reappear(m) PROVE SingleInv'
  BY <1>1, <1>5 DEF Reappear, scriptVars
<1>6. CASE UNCHANGED vars
  BY <1>1, <1>6 DEF vars
<1>7. ASSUME NEW c \in Consumers, NEW m \in Messages, ReceiveMessage(c, m)
      PROVE  SingleInv'
  <2>1. /\ pc[c] = "receive" /\ m \in queue
        /\ msg'[c] = m /\ pc'[c] \in {"delete", "describe"}
        /\ UNCHANGED <<inst, queue, cfg, loaded, todo, prevCfg, refused>>
    BY <1>7 DEF ReceiveMessage, TypeOK
  <2>2. todo'[c] = {}
    BY <1>a, <2>1 DEF Handling
  <2>3. \A d \in Consumers : HandlingAlone(d)'
    BY <1>s, <2>1, <2>2 DEF HandlingAlone
  <2> QED BY <1>n, <2>1, <2>3
          DEF SingleInv, NamesUnique, NoDeadHost, StaleByAtMostOneEdit
<1>8. ASSUME NEW c \in Consumers, Stopped(c), todo[c] = {},
             UNCHANGED <<inst, queue, cfg, loaded, prevCfg, refused>>
      PROVE  SingleInv'
  <2>1. pc'[c] = "down" /\ todo'[c] = {}
    BY <1>8 DEF Stopped, TypeOK
  <2>2. \A d \in Consumers : HandlingAlone(d)' /\ todo[d] = {}
    BY <1>s, <1>8, <2>1, AloneIdle
  <2> QED BY <1>n, <1>8, <2>2
          DEF SingleInv, NamesUnique, NoDeadHost, StaleByAtMostOneEdit
<1>9. ASSUME NEW c \in Consumers, DescribeInstances(c) PROVE SingleInv'
  <2>1. /\ UNCHANGED <<inst, queue, cfg, loaded, prevCfg, refused>>
        /\ pc[c] = "describe" /\ todo[c] = {} /\ msg[c] \in queue
    BY <1>a, <1>9 DEF DescribeInstances, Handling, HandlingAlone
  <2>2. CASE Stopped(c)
    BY <1>8, <2>1, <2>2
  <2>3. CASE ~Stopped(c)
    <3>1. /\ UNCHANGED <<msg, lastapp>>
          /\ pdns' = [pdns EXCEPT ![c] = IF inst[msg[c].id] = "running"
                                         THEN "dns" ELSE ""]
          /\ \/ /\ msg[c].action = "Launching"
                /\ pc' = [pc EXCEPT ![c] = "lastapp"] /\ todo' = todo
             \/ /\ msg[c].action = "Terminating"
                /\ pc' = [pc EXCEPT ![c] = "pipe"]
                /\ todo' = [todo EXCEPT ![c] = {"write", "reload"}]
      BY <1>9, <2>3 DEF DescribeInstances
    <3>2. pdns'[c] = "dns" => inst'[msg'[c].id] = "running"
      BY <2>1, <3>1 DEF TypeOK
    <3>3. \/ msg[c].action = "Launching" /\ pc'[c] = "lastapp" /\ todo'[c] = {}
          \/ /\ msg[c].action = "Terminating" /\ pc'[c] = "pipe"
             /\ todo'[c] = {"write", "reload"}
      BY <2>1, <3>1 DEF TypeOK
    <3>4. HandlingAlone(c)'
      BY <2>1, <3>1, <3>2, <3>3 DEF HandlingAlone
    <3>5. StaleByAtMostOneEdit'
      <4>1. todo' = todo \/ todo'[c] # {}
        BY <3>1, <3>3
      <4> QED BY <1>n, <2>1, <4>1 DEF StaleByAtMostOneEdit
    <3> QED BY <1>n, <1>s, <2>1, <3>4, <3>5 DEF SingleInv, NamesUnique, NoDeadHost
  <2> QED BY <2>2, <2>3
<1>10. ASSUME NEW c \in Consumers, GetLastApp(c) PROVE SingleInv'
  <2>1. /\ UNCHANGED <<inst, queue, cfg, loaded, prevCfg, refused, msg, pdns>>
        /\ pc[c] = "lastapp" /\ pc'[c] = "pipe"
        /\ lastapp'[c] = LastApp(cfg) + 1
        /\ todo'[c] = {"write", "reload"}
    BY <1>10 DEF GetLastApp, TypeOK
  <2>2. \A l \in Present(cfg) : l.name < lastapp'[c]
    <3>1. /\ LastApp(cfg) \in 0..MaxName
          /\ \A l \in Present(cfg) : l.name \in 1..MaxName /\ l.name <= LastApp(cfg)
      BY LastAppIsGreatest, LineFields DEF TypeOK, Present
    <3> QED BY <2>1, <3>1, MaxNameAssumption
  <2>3. HandlingAlone(c)'
    BY <1>a, <2>1, <2>2 DEF HandlingAlone
  <2> QED BY <1>n, <1>s, <2>1, <2>3
          DEF SingleInv, NamesUnique, NoDeadHost, StaleByAtMostOneEdit
<1>11. ASSUME NEW c \in Consumers, WriteCfg(c) PROVE SingleInv'
  <2> DEFINE m == msg[c]
             line == [name |-> lastapp[c], host |-> pdns[c], id |-> m.id]
  <2>1. /\ UNCHANGED <<inst, queue, loaded, pc, msg, pdns, lastapp, refused>>
        /\ pc[c] = "pipe" /\ "write" \in todo[c]
        /\ cfg' = Edited(c) /\ prevCfg' = cfg
        /\ todo'[c] = todo[c] \ {"write"}
    BY <1>11 DEF WriteCfg, TypeOK
  <2>2. /\ m # TestNotification /\ m.id \in Instances
        /\ m.action \in {"Launching", "Terminating"}
        /\ m.action = "Launching" => lastapp[c] \in 1..MaxName
    <3>1. m \in Messages /\ Handling(c)
      BY <1>a DEF TypeOK
    <3> QED BY <2>1, <3>1, MessageFields DEF Handling
  <2>3. /\ m.action = "Launching" =>
             /\ line \in Line
             /\ cfg' = AppendLine(cfg, line)
             /\ Present(cfg') = Present(cfg) \cup {line}
             /\ Ids(cfg') = Ids(cfg) \cup {m.id}
        /\ m.action = "Terminating" =>
             /\ cfg' = DeleteLines(cfg, m.id)
             /\ Present(cfg') = {l \in Present(cfg) : l.id # m.id}
             /\ Ids(cfg') = Ids(cfg) \ {m.id}
    BY <2>1, <2>2, EditedEffect
  <2>4. HandlingAlone(c)'
    <3>1. m \in queue /\ "write" \notin todo'[c]
      BY <1>a, <2>1 DEF HandlingAlone
    <3>2. m.action = "Launching" <=> m.id \in Ids(cfg')
      BY <2>2, <2>3
    <3> QED BY <1>a, <2>1, <2>2, <3>1, <3>2 DEF HandlingAlone
  <2>5. NamesUnique'
    <3>1. CASE m.action = "Launching"
      <4>1. /\ line \in Line /\ line.name = lastapp[c]
            /\ \A l \in Present(cfg) : l.name < line.name
        BY <1>a, <2>1, <2>3, <3>1 DEF HandlingAlone
      <4>2. \A l \in Present(cfg) : l.name \in Nat
        <5>1. \A l \in Present(cfg) : l.name \in 1..MaxName
          BY LineFields DEF Present
        <5> QED BY <5>1, MaxNameAssumption
      <4>3. line \notin Present(cfg)
        BY <4>1, <4>2
      <4>4. cfg \in File /\ cfg[line] = 0
        <5>1. cfg \in File /\ line \in Line
          BY <4>1 DEF TypeOK
        <5> HIDE DEF line
        <5> QED BY <4>3, <5>1 DEF File, Present
      <4>5. cfg' = [cfg EXCEPT ![line] = @ + 1]
        BY <2>3, <3>1 DEF AppendLine
      <4>6. cfg'[line] = 1 /\ \A l \in Line : l # line => cfg'[l] = cfg[l]
        BY <4>1, <4>4, <4>5 DEF File
      <4>7. Present(cfg) \subseteq Line
        BY DEF Present
      <4> HIDE DEF line
      <4>8. \A l \in Present(cfg) : l.name # line.name /\ l # line
        BY <4>1, <4>2
      <4> QED BY <1>n, <2>3, <3>1, <4>6, <4>7, <4>8 DEF NamesUnique
    <3>2. CASE m.action = "Terminating"
      <4>1. \A l \in Present(cfg') : l \in Present(cfg) /\ cfg'[l] = cfg[l]
        <5>1. Present(cfg) \subseteq Line /\ cfg \in File
          BY DEF Present, TypeOK
        <5> QED BY <2>2, <2>3, <3>2, <5>1, DeleteLinesEffect
      <4> QED BY <1>n, <4>1 DEF NamesUnique
    <3> QED BY <2>2, <3>1, <3>2
  <2>6. NoDeadHost'
    <3>1. CASE m.action = "Launching"
      <4>1. line.host = pdns[c] /\ line.id = m.id
        OBVIOUS
      <4>2. pdns[c] = "dns" => inst[m.id] = "running" \/ Terminating(m.id) \in queue
        BY <1>a, <2>1, <3>1 DEF HandlingAlone
      <4> HIDE DEF line
      <4> QED BY <1>n, <2>1, <2>3, <3>1, <4>1, <4>2 DEF NoDeadHost
    <3>2. CASE m.action = "Terminating"
      BY <1>n, <2>1, <2>3, <3>2 DEF NoDeadHost
    <3> QED BY <2>2, <3>1, <3>2
  <2>7. StaleByAtMostOneEdit'
    <3>1. todo'[c] = {} => "reload" \notin todo[c]
      BY <2>1
    <3> QED BY <1>a, <2>1, <3>1 DEF StaleByAtMostOneEdit, HandlingAlone
  <2> QED BY <1>s, <2>4, <2>5, <2>6, <2>7 DEF SingleInv
<1>12. ASSUME NEW c \in Consumers, ReloadHaproxy(c) PROVE SingleInv'
  <2>1. /\ UNCHANGED <<inst, queue, cfg, pc, msg, pdns, lastapp, prevCfg>>
        /\ loaded' = cfg \/ refused'
        /\ todo'[c] = todo[c] \ {"reload"}
    BY <1>12 DEF ReloadHaproxy, StartHaproxy, TypeOK
  <2>2. HandlingAlone(c)'
    BY <1>a, <2>1 DEF HandlingAlone
  <2> QED BY <1>n, <1>s, <2>1, <2>2
          DEF SingleInv, NamesUnique, NoDeadHost, StaleByAtMostOneEdit
<1>13. ASSUME NEW c \in Consumers, DeleteMessage(c) PROVE SingleInv'
  <2>1. /\ UNCHANGED <<inst, cfg, loaded, todo, prevCfg, refused>>
        /\ pc[c] \in {"pipe", "delete"} /\ todo[c] = {}
        /\ queue' = queue \ {msg[c]} /\ pc'[c] = "receive"
    BY <1>13 DEF DeleteMessage, TypeOK
  <2>2. HandlingAlone(c)'
    BY <2>1, AloneIdle
  <2>3. NoDeadHost'
    <3>1. ASSUME NEW l \in Present(cfg), msg[c] = Terminating(l.id) PROVE FALSE
      <4>1. l.id \in Instances /\ l.id \in Ids(cfg)
        BY LineFields DEF Present, Ids
      <4>2. msg[c].action = "Terminating" /\ msg[c].id = l.id
        BY <3>1 DEF Terminating
      <4>3. pc[c] = "pipe"
        BY <1>a, <2>1, <4>2, MessageFields DEF Handling
      <4> QED BY <1>a, <2>1, <4>1, <4>2, <4>3 DEF HandlingAlone
    <3> QED BY <1>n, <2>1, <3>1 DEF NoDeadHost
  <2> QED BY <1>n, <1>s, <2>1, <2>2, <2>3
          DEF SingleInv, NamesUnique, StaleByAtMostOneEdit
<1>14. ASSUME NEW c \in Consumers, Die(c) PROVE SingleInv'
  BY <1>8, <1>14 DEF Die
<1>15. ASSUME NEW c \in Consumers, Start(c) PROVE SingleInv'
  <2>1. /\ UNCHANGED <<inst, queue, cfg, loaded, todo, prevCfg, refused>>
        /\ pc[c] = "down" /\ pc'[c] = "receive"
    BY <1>15 DEF Start, TypeOK
  <2>2. HandlingAlone(c)'
    BY <1>a, <2>1, AloneIdle DEF Handling
  <2> QED BY <1>n, <1>s, <2>1, <2>2
          DEF SingleInv, NamesUnique, NoDeadHost, StaleByAtMostOneEdit
<1>16. CASE Reboot
  <2>1. /\ UNCHANGED <<inst, queue, cfg, prevCfg>>
        /\ loaded' = cfg \/ refused'
        /\ \A c \in Consumers : pc'[c] = "down" /\ todo'[c] = {}
    BY <1>16 DEF Reboot, StartHaproxy
  <2>2. \A c \in Consumers : HandlingAlone(c)'
    BY <2>1, AloneIdle
  <2> QED BY <1>n, <2>1, <2>2
          DEF SingleInv, NamesUnique, NoDeadHost, StaleByAtMostOneEdit
<1>17. ASSUME NEW c \in Consumers, Sleep(c) PROVE SingleInv'
  BY <1>6, <1>17 DEF Sleep
<1> QED
  BY <1>2, <1>3, <1>4, <1>5, <1>6, <1>7, <1>9, <1>10, <1>11, <1>12, <1>13, <1>14,
     <1>15, <1>16, <1>17 DEF Next, Script

\* SingleInv holds throughout with one copy of the script, through every crash
\* and redelivery; the three theorems below take from it what they state.
LEMMA SingleAlways ==
  ASSUME SingleConsumer
  PROVE  Spec => []SingleInv
<1>1. Init => TypeOK /\ LaunchInv /\ SingleInv
  BY LaunchInit, SingleInit
<1>2. TypeOK /\ LaunchInv /\ SingleInv /\ [Next]_vars
        => TypeOK' /\ LaunchInv' /\ SingleInv'
  BY TypeStep, LaunchStep, SingleStep
<1> QED BY <1>1, <1>2, PTL DEF Spec

\* With one copy of the script, server names are unique for every set of
\* instances: perl's ++ on the last name of the file never repeats one.
THEOREM NameSafety ==
  ASSUME SingleConsumer
  PROVE  Spec => []NamesUnique
<1>1. SingleInv => NamesUnique
  BY DEF SingleInv
<1> QED BY <1>1, SingleAlways, PTL

\* With one copy of the script, a line that names a host is of an instance that
\* runs or whose Terminating notification is still queued: no redelivery and no
\* crash between the edit and the deletion of a message leaves a dead host.
THEOREM HostSafety ==
  ASSUME SingleConsumer
  PROVE  Spec => []NoDeadHost
<1>1. SingleInv => NoDeadHost
  BY DEF SingleInv
<1> QED BY <1>1, SingleAlways, PTL

\* With one copy of the script, between notifications HAProxy runs the file or
\* the one before its last edit, in whatever order the two sides of the pipe ran
\* and however many earlier reloads were refused, unless the last one was.
THEOREM ReloadSafety ==
  ASSUME SingleConsumer
  PROVE  Spec => []StaleByAtMostOneEdit
<1>1. SingleInv => StaleByAtMostOneEdit
  BY DEF SingleInv
<1> QED BY <1>1, SingleAlways, PTL

-----------------------------------------------------------------------------
(* The listener implements the registry.                                   *)

\* The initial state is the registry's: the shipped line is registered and no
\* notification about an instance is outstanding.
LEMMA RegistryInit == Init => RegistryImpl!Init
<1> SUFFICES ASSUME Init PROVE RegistryImpl!Init
  OBVIOUS
<1>1. {i \in Instances : inst[i] = "running"} = {FirstInstance}
  BY InstancesAssumption DEF Init
<1>2. \A i \in Instances : Launching(i) \notin queue /\ Terminating(i) \notin queue
  BY MessageFields DEF Init
<1> QED BY <1>1, <1>2, InitialFile
        DEF RegistryImpl!Init, RegistryImpl!Launching, RegistryImpl!Terminating,
            Launching, Terminating

\* Every step of the listener, EC2 or the queue is a step of the registry or
\* leaves the instances, the notifications and the registered ids alone.
LEMMA RegistryStep ==
  ASSUME SingleConsumer
  PROVE  TypeOK /\ LaunchInv /\ SingleInv /\ [Next]_vars
           => [RegistryImpl!Next]_(RegistryImpl!vars)
<1> SUFFICES ASSUME TypeOK, LaunchInv, SingleInv, [Next]_vars
             PROVE  [RegistryImpl!Next]_(RegistryImpl!vars)
  OBVIOUS
<1> DEFINE alive == {i \in Instances : inst[i] = "running"}
<1>a. \A c \in Consumers : HandlingAlone(c) /\ Handling(c)
  BY DEF SingleInv, LaunchInv
<1>0. ASSUME alive' = alive, queue' = queue, Ids(cfg)' = Ids(cfg)
      PROVE  [RegistryImpl!Next]_(RegistryImpl!vars)
  BY <1>0 DEF RegistryImpl!vars
<1>1. ASSUME NEW i \in Instances, Launch(i) PROVE RegistryImpl!Launch(i)
  <2>1. /\ inst[i] = "unborn" /\ inst' = [inst EXCEPT ![i] = "running"]
        /\ queue' = queue \cup {Launching(i)} /\ cfg' = cfg
    BY <1>1 DEF Launch, Send
  <2>2. i \notin alive /\ alive' = alive \cup {i}
    BY <2>1 DEF TypeOK
  <2> QED BY <2>1, <2>2 DEF RegistryImpl!Launch, RegistryImpl!Launching, Launching
<1>2. ASSUME NEW i \in Instances, Terminate(i) PROVE RegistryImpl!Terminate(i)
  <2>1. /\ inst[i] = "running" /\ inst' = [inst EXCEPT ![i] = "terminated"]
        /\ queue' = queue \cup {Terminating(i)} /\ cfg' = cfg
    BY <1>2 DEF Terminate, Send
  <2>2. i \in alive /\ alive' = alive \ {i}
    BY <2>1 DEF TypeOK
  <2> QED BY <2>1, <2>2
          DEF RegistryImpl!Terminate, RegistryImpl!Terminating, Terminating
<1>3. ASSUME NEW i \in Instances, Forget(i)
      PROVE  [RegistryImpl!Next]_(RegistryImpl!vars)
  <2>1. /\ inst[i] = "terminated" /\ inst' = [inst EXCEPT ![i] = "forgotten"]
        /\ queue' = queue /\ cfg' = cfg
    BY <1>3 DEF Forget
  <2>2. alive' = alive
    BY <2>1 DEF TypeOK
  <2> QED BY <1>0, <2>1, <2>2
<1>4. CASE UNCHANGED <<inst, queue, cfg>>
  BY <1>0, <1>4
<1>5. ASSUME NEW c \in Consumers, WriteCfg(c)
      PROVE  \/ RegistryImpl!Register(msg[c].id)
             \/ RegistryImpl!Deregister(msg[c].id)
  <2>1. /\ UNCHANGED <<inst, queue>> /\ pc[c] = "pipe" /\ "write" \in todo[c]
        /\ cfg' = Edited(c)
    BY <1>5 DEF WriteCfg
  <2>2. /\ msg[c] \in Messages /\ msg[c] # TestNotification /\ msg[c] \in queue
        /\ msg[c].action = "Launching" => lastapp[c] \in 1..MaxName
    BY <1>a, <2>1 DEF Handling, HandlingAlone, TypeOK
  <2>3. /\ msg[c].action = "Launching" => Ids(cfg') = Ids(cfg) \cup {msg[c].id}
        /\ msg[c].action = "Terminating" => Ids(cfg') = Ids(cfg) \ {msg[c].id}
    BY <2>1, <2>2, EditedEffect
  <2>4. CASE msg[c].action = "Launching"
    <3>1. msg[c] = Launching(msg[c].id)
      BY <2>2, <2>4, MessageFields
    <3> QED BY <2>1, <2>2, <2>3, <2>4, <3>1
            DEF RegistryImpl!Register, RegistryImpl!Launching, Launching
  <2>5. CASE msg[c].action = "Terminating"
    <3>1. msg[c] = Terminating(msg[c].id)
      BY <2>2, <2>5, MessageFields
    <3> QED BY <2>1, <2>2, <2>3, <2>5, <3>1
            DEF RegistryImpl!Deregister, RegistryImpl!Terminating, Terminating
  <2> QED BY <2>2, <2>4, <2>5, MessageFields
<1>6. ASSUME NEW c \in Consumers, DeleteMessage(c), msg[c] # TestNotification
      PROVE  \/ RegistryImpl!AcknowledgeLaunch(msg[c].id)
             \/ RegistryImpl!AcknowledgeTermination(msg[c].id)
  <2>1. /\ UNCHANGED <<inst, cfg>> /\ pc[c] \in {"pipe", "delete"} /\ todo[c] = {}
        /\ queue' = queue \ {msg[c]} /\ msg[c] \in Messages
    BY <1>6 DEF DeleteMessage, TypeOK
  <2>2. pc[c] = "pipe" /\ (msg[c].action = "Launching" <=> msg[c].id \in Ids(cfg))
    BY <1>a, <1>6, <2>1 DEF Handling, HandlingAlone
  <2>3. CASE msg[c].action = "Launching"
    <3>1. msg[c] = Launching(msg[c].id)
      BY <2>1, <2>3, MessageFields
    <3> QED BY <2>1, <2>2, <2>3, <3>1
            DEF RegistryImpl!AcknowledgeLaunch, RegistryImpl!Launching, Launching
  <2>4. CASE msg[c].action = "Terminating"
    <3>1. msg[c] = Terminating(msg[c].id)
      BY <2>1, <2>4, MessageFields
    <3> QED BY <2>1, <2>2, <2>4, <3>1
            DEF RegistryImpl!AcknowledgeTermination, RegistryImpl!Terminating,
                Terminating
  <2> QED BY <1>6, <2>1, <2>3, <2>4, MessageFields
<1>7. ASSUME NEW c \in Consumers, msg[c] # TestNotification
      PROVE  msg[c].id \in Instances
  BY <1>7, MessageFields DEF TypeOK
<1>8. ASSUME NEW c \in Consumers, WriteCfg(c)
      PROVE  [RegistryImpl!Next]_(RegistryImpl!vars)
  <2>1. msg[c].id \in Instances
    BY <1>a, <1>7, <1>8 DEF WriteCfg, Handling
  <2> QED BY <1>5, <1>8, <2>1 DEF RegistryImpl!Next
<1>9. ASSUME NEW c \in Consumers, DeleteMessage(c)
      PROVE  [RegistryImpl!Next]_(RegistryImpl!vars)
  <2>1. CASE msg[c] = TestNotification
    <3>1. /\ UNCHANGED <<inst, cfg>> /\ queue' = queue \ {TestNotification}
      BY <1>9, <2>1 DEF DeleteMessage
    <3>2. CASE TestNotification \in queue
      <4>1. \A i \in Instances : /\ TestNotification # Launching(i)
                                 /\ TestNotification # Terminating(i)
        BY MessageFields
      <4>2. RegistryImpl!AcknowledgeOther
        BY <3>1, <3>2, <4>1
           DEF RegistryImpl!AcknowledgeOther, RegistryImpl!Launching,
               RegistryImpl!Terminating, Launching, Terminating
      <4> QED BY <4>2 DEF RegistryImpl!Next
    <3>3. CASE TestNotification \notin queue
      BY <1>4, <3>1, <3>3
    <3> QED BY <3>2, <3>3
  <2>2. CASE msg[c] # TestNotification
    BY <1>6, <1>7, <1>9, <2>2 DEF RegistryImpl!Next
  <2> QED BY <2>1, <2>2
<1>10. ASSUME NEW i \in Instances, Launch(i) \/ Terminate(i)
       PROVE  [RegistryImpl!Next]_(RegistryImpl!vars)
  BY <1>1, <1>2, <1>10 DEF RegistryImpl!Next
<1>11. ASSUME NEW c \in Consumers, NEW m \in Messages, ReceiveMessage(c, m)
       PROVE  UNCHANGED <<inst, queue, cfg>>
  BY <1>11 DEF ReceiveMessage
<1>12. ASSUME NEW c \in Consumers,
              \/ DescribeInstances(c) \/ GetLastApp(c) \/ ReloadHaproxy(c)
              \/ Sleep(c) \/ Die(c) \/ Start(c)
       PROVE  UNCHANGED <<inst, queue, cfg>>
  BY <1>12 DEF DescribeInstances, GetLastApp, ReloadHaproxy, Sleep, Die, Start, vars
<1>13. ASSUME NEW m \in Messages, Reappear(m) PROVE UNCHANGED <<inst, queue, cfg>>
  BY <1>13 DEF Reappear
<1>14. CASE Reboot
  BY <1>4, <1>14 DEF Reboot
<1>15. CASE UNCHANGED vars
  BY <1>4, <1>15 DEF vars
<1> QED
  BY <1>3, <1>4, <1>8, <1>9, <1>10, <1>11, <1>12, <1>13, <1>14, <1>15
     DEF Next, Script

\* With one copy of the script the listener implements the registry, for every
\* set of instances and every number of crashes: an instance is registered or
\* removed only under an outstanding notification, and the notification is
\* deleted only while its effect is in force.
THEOREM ListenerImplementsRegistry ==
  ASSUME SingleConsumer
  PROVE  Spec => ImplementsRegistry
<1>1. Init => TypeOK /\ LaunchInv /\ SingleInv
  BY LaunchInit, SingleInit
<1>2. TypeOK /\ LaunchInv /\ SingleInv /\ [Next]_vars
        => TypeOK' /\ LaunchInv' /\ SingleInv'
  BY TypeStep, LaunchStep, SingleStep
<1>3. TypeOK /\ LaunchInv /\ SingleInv /\ [Next]_vars
        => [RegistryImpl!Next]_(RegistryImpl!vars)
  BY RegistryStep
<1> QED
  BY <1>1, <1>2, <1>3, RegistryInit, PTL
     DEF Spec, ImplementsRegistry, RegistryImpl!Spec
=============================================================================
