--------------------------- MODULE UpdateHaproxy ----------------------------
(***************************************************************************)
(* haproxy-autoscale/update-haproxy.py: every run fetches the running      *)
(* instances of its security groups in every region, renders haproxy.cfg,  *)
(* compares it with the file, and only if they differ writes the file and  *)
(* restarts HAProxy.  Runs come from cron every minute (and may overlap)   *)
(* or from the --sleep loop.  Nothing locks the files, and no exit status  *)
(* is looked at.                                                           *)
(*                                                                         *)
(* The files are those of the operating system: the configuration is       *)
(* written block by block at the writer's own offset, and the pid file is  *)
(* replaced and filled by two steps of the HAProxy that starts.  That      *)
(* process is modelled as far as runs can meet in it; what it does inside, *)
(* and its failures once it has the ports, are Takeover's.  A process that *)
(* is told to stop gives its ports up at once.                             *)
(***************************************************************************)
EXTENDS Naturals, Sequences

CONSTANTS
  Instances,   \* EC2 instances
  Queries,     \* one per security group and region
  QueryOf,     \* the query an instance is in the answer of
  Length,      \* set of instances -> the blocks its configuration takes
  Hole,        \* a block nobody has written, before one that somebody has
  Processes,   \* runs that may be active at the same time
  Pids,        \* bound: HAProxy processes that are remembered at one time
  FirstPid,    \* the HAProxy that runs before the first run
  NoPid,       \* no process
  MaxEvents    \* bound: instances that start or stop, and runs that are killed
               \* or die of an exception, in a behaviour

ASSUME QueriesAssumption == QueryOf \in [Instances -> Queries]
ASSUME LengthAssumption == Length \in [SUBSET Instances -> Nat \ {0}]
ASSUME ValuesAssumption ==
  /\ \A s \in SUBSET Instances : s # Hole
  /\ FirstPid \in Pids /\ NoPid \notin Pids
ASSUME BoundsAssumption == MaxEvents \in Nat

VARIABLES
  graceful,  \* --haproxy is given: "haproxy -sf" instead of "service restart"
  sharing,   \* the kernel lets two processes listen to a port (SO_REUSEPORT)
  running,   \* instances that are running
  file,      \* haproxy.cfg, by block: the configuration the block is of
  run,       \* the runs of the script
  up,        \* HAProxy process -> the file it has read, or Down
  pidfile,   \* who created the pid file, and whether it has written its pid yet
  broken,    \* history: has something gone wrong since the last update that
             \* nothing disturbed?
  events     \* how many of those there were

modes == <<graceful, sharing>>
updateVars == <<modes, running, file, run, up, pidfile, broken, events>>

Blocks == (SUBSET Instances) \cup {Hole}
\* A process that does not listen: none runs with an empty file.
Down == <<>>
NoPidfile == [by |-> NoPid, written |-> FALSE]

\* The template rendered for the instances found.  Two texts have no block in
\* common, which is the worst case.
GenerateHaproxyConfig(instances) == [k \in 1..Length[instances] |-> instances]

\* asked: the queries still to be made; new: the instances found; pos: the blocks
\* written; old: the pids on the command line; child: the HAProxy that starts, and
\* conf what it has read; alone: has no other run come to its write meanwhile?
NoRun == [stage |-> "off", asked |-> {}, new |-> {}, pos |-> 0, old |-> {},
          child |-> NoPid, conf |-> <<>>, alone |-> FALSE]

Stages == {"off", "fetch", "write", "flush", "restart", "stop", "remove", "start",
           "daemon", "launch", "bind", "pid", "tell", "fork"}
Runs == [stage : Stages, asked : SUBSET Queries, new : SUBSET Instances, pos : Nat,
         old : SUBSET Pids, child : Pids \cup {NoPid}, conf : Seq(Blocks),
         alone : BOOLEAN]

UpdateTypeOK ==
  /\ graceful \in BOOLEAN /\ sharing \in BOOLEAN
  /\ running \in SUBSET Instances
  /\ file \in Seq(Blocks)
  /\ run \in [Processes -> Runs]
  /\ up \in [Pids -> Seq(Blocks)]
  /\ pidfile \in [by : Pids \cup {NoPid}, written : BOOLEAN]
  /\ broken \in BOOLEAN
  /\ events \in 0..MaxEvents

Listening == {h \in Pids : up[h] # Down}
Named == {h \in Pids : pidfile = [by |-> h, written |-> TRUE]}

\* The HAProxy that the pid file names runs with this text.
Serves(text) == \E h \in Named : up[h] = text

\* HAProxy was started with the file of the last run.
UpdateInit ==
  /\ graceful \in BOOLEAN /\ sharing \in BOOLEAN
  /\ running \in SUBSET Instances
  /\ file = GenerateHaproxyConfig(running)
  /\ run = [p \in Processes |-> NoRun]
  /\ up = [h \in Pids |-> IF h = FirstPid THEN file ELSE Down]
  /\ pidfile = [by |-> FirstPid, written |-> TRUE]
  /\ broken = FALSE
  /\ events = 0

\* An instance starts or stops.
Change(i) ==
  /\ events < MaxEvents
  /\ events' = events + 1
  /\ running' = IF i \in running THEN running \ {i} ELSE running \cup {i}
  /\ UNCHANGED <<file, run, up, pidfile, broken>>

-----------------------------------------------------------------------------
(* A run up to its restart.                                                *)

Finish(p) == run' = [run EXCEPT ![p] = NoRun]

\* The restart comes to nothing, and nobody notices.
Fail(p) == Finish(p) /\ broken' = TRUE

Begin(p) ==
  /\ run[p].stage = "off"
  /\ run' = [run EXCEPT ![p].stage = "fetch", ![p].asked = Queries]
  /\ UNCHANGED <<running, file, up, pidfile, broken, events>>

\* get_running_instances asks region after region, group after group.
GetRunningInstances(p, q) ==
  /\ run[p].stage = "fetch"
  /\ q \in run[p].asked
  /\ run' = [run EXCEPT ![p].asked = @ \ {q},
                        ![p].new = @ \cup {i \in running : QueryOf[i] = q}]
  /\ UNCHANGED <<running, file, up, pidfile, broken, events>>

\* A run that has found the file outdated.
Updating(p) == run[p].stage \notin {"off", "fetch"}

\* "Configuration unchanged. Skipping restart."
Compare(p) ==
  LET company == \E r \in Processes : Updating(r)
  IN  /\ run[p].stage = "fetch"
      /\ run[p].asked = {}
      /\ \/ /\ GenerateHaproxyConfig(run[p].new) # file
            /\ run' = [r \in Processes |->
                         IF r = p THEN [run[p] EXCEPT !.stage = "write", !.alone = ~company]
                                  ELSE [run[r] EXCEPT !.alone = FALSE]]
            /\ broken' = (broken \/ company)
         \/ GenerateHaproxyConfig(run[p].new) = file /\ Finish(p) /\ UNCHANGED broken
      /\ UNCHANGED <<running, file, up, pidfile, events>>

\* Mutant: opening the file leaves what is in it.
MutantKeepContents(p) ==
  /\ run[p].stage = "write"
  /\ run' = [run EXCEPT ![p].stage = "flush"]
  /\ UNCHANGED <<running, file, up, pidfile, broken, events>>

\* file_contents(content=...): opening the file for writing empties it,
OpenFile(p) ==
  /\ run[p].stage = "write"
  /\ file' = <<>>
  /\ run' = [run EXCEPT ![p].stage = "flush"]
  /\ UNCHANGED <<running, up, pidfile, broken, events>>

\* A block at the writer's offset; the rest of the file stays as it is.
Written(text, k, block) ==
  [j \in 1..(IF k > Len(text) THEN k ELSE Len(text)) |->
     IF j = k THEN block ELSE IF j <= Len(text) THEN text[j] ELSE Hole]

\* Mutant: the restart is forgotten after the write.
MutantWriteOnly(p) ==
  LET k == run[p].pos + 1
  IN  /\ run[p].stage = "flush"
      /\ file' = Written(file, k, run[p].new)
      /\ IF k < Length[run[p].new] THEN run' = [run EXCEPT ![p].pos = k] ELSE Finish(p)
      /\ UNCHANGED <<running, up, pidfile, broken, events>>

\* and the text is written behind what this run has written, the last of it when
\* the file is closed.
WriteFile(p) ==
  LET k == run[p].pos + 1
  IN  /\ run[p].stage = "flush"
      /\ file' = Written(file, k, run[p].new)
      /\ run' = IF k < Length[run[p].new]
                THEN [run EXCEPT ![p].pos = k]
                ELSE [run EXCEPT ![p].stage = "restart", ![p].pos = 0, ![p].new = {}]
      /\ UNCHANGED <<running, up, pidfile, broken, events>>

-----------------------------------------------------------------------------
(* The restart.                                                            *)

\* HAProxy takes no empty file, and may find fault with any other: with what
\* writers have left of each other's, with a host that is not resolved.
Acceptable(text) == text # <<>>

\* restart_haproxy with --haproxy: the pid file is read for the command line.
RestartHaproxy(p) ==
  /\ graceful
  /\ run[p].stage = "restart"
  /\ run' = [run EXCEPT ![p].stage = "launch", ![p].old = Named]
  /\ UNCHANGED <<running, file, up, pidfile, broken, events>>

\* service haproxy restart: the init script checks the file,
ServiceRestart(p) ==
  /\ ~graceful
  /\ run[p].stage = "restart"
  /\ \/ /\ Acceptable(file)
        /\ run' = [run EXCEPT ![p].stage = "stop"]
        /\ UNCHANGED broken
     \/ Fail(p)
  /\ UNCHANGED <<running, file, up, pidfile, events>>

\* stops the HAProxy that the pid file names, or every one if it names none,
ServiceStop(p) ==
  LET killed == IF pidfile.written THEN Named ELSE Listening
  IN  /\ run[p].stage = "stop"
      /\ up' = [h \in Pids |-> IF h \in killed THEN Down ELSE up[h]]
      /\ \/ /\ killed # {}
            /\ run' = [run EXCEPT ![p].stage = "remove"]
         \/ /\ killed \cap Listening = {}
            /\ run' = [run EXCEPT ![p].stage = "start"]
      /\ UNCHANGED <<running, file, pidfile, broken, events>>

\* removes the pid file if there was something to stop,
RemovePidfile(p) ==
  /\ run[p].stage = "remove"
  /\ pidfile' = NoPidfile
  /\ run' = [run EXCEPT ![p].stage = "start"]
  /\ UNCHANGED <<running, file, up, broken, events>>

\* checks the file again,
ServiceStart(p) ==
  /\ run[p].stage = "start"
  /\ \/ /\ Acceptable(file)
        /\ run' = [run EXCEPT ![p].stage = "daemon"]
        /\ UNCHANGED broken
     \/ Fail(p)
  /\ UNCHANGED <<running, file, up, pidfile, events>>

\* and leaves alone an HAProxy that the pid file names and that is still there.
Daemon(p) ==
  /\ run[p].stage = "daemon"
  /\ \/ pidfile.written /\ Fail(p)
     \/ /\ Named \cap Listening = {}
        /\ run' = [run EXCEPT ![p].stage = "launch"]
        /\ UNCHANGED broken
  /\ UNCHANGED <<running, file, up, pidfile, events>>

\* The pids that nobody remembers; which of them the next process gets does not
\* matter.
FreePids ==
  Pids \ (Listening \cup {pidfile.by}
            \cup UNION {run[p].old \cup {run[p].child} : p \in Processes})

\* HAProxy is started, and reads the file as it is by then.
Launch(p) ==
  /\ run[p].stage = "launch"
  /\ \/ /\ Acceptable(file)
        /\ FreePids # {}
        /\ run' = [run EXCEPT ![p].stage = "bind", ![p].conf = file,
                              ![p].child = CHOOSE n \in FreePids : TRUE]
        /\ UNCHANGED broken
     \/ Fail(p)
  /\ UNCHANGED <<running, file, up, pidfile, events>>

\* Mutant: the pid file is emptied before the ports are there.
MutantOpenFirst(p) ==
  LET r == run[p]
  IN  /\ r.stage = "bind"
      /\ \/ /\ sharing \/ Listening \subseteq r.old
            /\ up' = [h \in Pids |-> IF h = r.child THEN r.conf
                                     ELSE IF h \in r.old /\ ~sharing THEN Down ELSE up[h]]
            /\ run' = [run EXCEPT ![p].stage = "pid", ![p].conf = <<>>]
            /\ UNCHANGED broken
         \/ Fail(p) /\ UNCHANGED up
      /\ pidfile' = [by |-> r.child, written |-> FALSE]
      /\ UNCHANGED <<running, file, events>>

\* It takes the ports.  Where they cannot be shared, only the processes of its
\* command line release them for it.
Bind(p) ==
  LET r == run[p]
  IN  /\ r.stage = "bind"
      /\ \/ /\ sharing \/ Listening \subseteq r.old
            /\ up' = [h \in Pids |-> IF h = r.child THEN r.conf
                                     ELSE IF h \in r.old /\ ~sharing THEN Down ELSE up[h]]
            /\ run' = [run EXCEPT ![p].stage = "pid", ![p].conf = <<>>]
            /\ UNCHANGED broken
         \/ Fail(p) /\ UNCHANGED up
      /\ UNCHANGED <<running, file, pidfile, events>>

\* It replaces the pid file by an empty one.
OpenPidfile(p) ==
  /\ run[p].stage = "pid"
  /\ pidfile' = [by |-> run[p].child, written |-> FALSE]
  /\ run' = [run EXCEPT ![p].stage = "tell"]
  /\ UNCHANGED <<running, file, up, broken, events>>

\* It tells the processes of its command line to finish.
TellOldPids(p) ==
  /\ run[p].stage = "tell"
  /\ up' = [h \in Pids |-> IF h \in run[p].old THEN Down ELSE up[h]]
  /\ run' = [run EXCEPT ![p].stage = "fork", ![p].old = {}]
  /\ UNCHANGED <<running, file, pidfile, broken, events>>

\* It writes its pid, into a file that another start may have replaced meanwhile,
\* and the command returns.
Fork(p) ==
  /\ run[p].stage = "fork"
  /\ pidfile' = [pidfile EXCEPT !.written = @ \/ pidfile.by = run[p].child]
  /\ Finish(p)
  /\ broken' = (broken /\ ~run[p].alone)
  /\ UNCHANGED <<running, file, up, events>>

\* A run is killed, or an exception (an EC2 call, the disk) ends it.  A command it
\* has started is a process of its own and goes on.
Crash(p) ==
  /\ run[p].stage \in {"fetch", "write", "flush", "restart"}
  /\ events < MaxEvents
  /\ events' = events + 1
  /\ Finish(p)
  /\ broken' = (broken \/ run[p].stage \in {"flush", "restart"})
  /\ UNCHANGED <<running, file, up, pidfile>>

Start(p) ==
  Launch(p) \/ Bind(p) \/ OpenPidfile(p) \/ TellOldPids(p) \/ Fork(p)
Service(p) ==
  ServiceRestart(p) \/ ServiceStop(p) \/ RemovePidfile(p) \/ ServiceStart(p) \/ Daemon(p)
Step(p) ==
  \/ Begin(p)
  \/ \E q \in Queries : GetRunningInstances(p, q)
  \/ Compare(p) \/ OpenFile(p) \/ WriteFile(p)
  \/ RestartHaproxy(p) \/ Service(p) \/ Start(p)

\* The command line of the runs and the kernel stay.
UpdateNext ==
  /\ \/ \E i \in Instances : Change(i)
     \/ \E p \in Processes : Step(p) \/ Crash(p)
  /\ UNCHANGED modes

UpdateSpec == UpdateInit /\ [][UpdateNext]_updateVars

\* cron or the --sleep loop keeps starting runs, and runs proceed.
FairUpdateSpec ==
  UpdateSpec /\ \A p \in Processes : WF_updateVars(Step(p) /\ UNCHANGED modes)

-----------------------------------------------------------------------------
(* Properties.                                                             *)

\* Whenever no run is updating, the HAProxy of the pid file runs with haproxy.cfg,
\* and it is the only one where ports are not shared, so that comparing with the
\* file is as good as comparing with what HAProxy does: unless a run has died, a
\* restart has come to nothing or two runs were updating at once, and even then
\* again as soon as one run has updated it undisturbed, whatever the others have
\* left in the two files.
FileIsLoaded ==
  ~broken /\ (\A p \in Processes : ~Updating(p))
    => Serves(file) /\ (~sharing => Listening = Named)

\* "It then restarts haproxy in a manner which gracefully terminates connections":
\* of runs that are given --haproxy, however they overlap and die and whichever
\* starts fail.  Except while a process that has the ports replaces it, the pid
\* file names a process that listens, so the next restart finds one to take over
\* from, and never one that has left.
PidfileNamesListener ==
  graceful /\ (\A p \in Processes : run[p].stage \notin {"pid", "tell", "fork"})
    => \E h \in Named : h \in Listening

\* "a wrapper of sorts that will automatically add all instances in a security
\* group that are currently in a running state to the haproxy configuration. It
\* then restarts haproxy": once instances stop changing HAProxy runs with all of
\* them, if from some time on runs do not overlap and what went wrong before was
\* made good by an undisturbed update.
Overlap == \E p, r \in Processes : p # r /\ run[p].stage # "off" /\ run[r].stage # "off"
ConvergesToRunning ==
  \/ []<>(Overlap \/ broken)
  \/ <>[]Serves(GenerateHaproxyConfig(running))

-----------------------------------------------------------------------------
(* What holds inside an update.                                            *)

Loaded == Serves(file) /\ (~sharing => Listening = Named)

\* The command line has no pid of the process it starts.
Own(p) == run[p].child \in Pids /\ run[p].child \notin run[p].old

\* A run that is alone has started a process that reads this file, has it, and is
\* the one the pid file is for.
Progress(p) ==
  LET r == run[p]
  IN  /\ r.stage = "bind" => Own(p) /\ r.conf = file /\ file # <<>>
      /\ r.stage \in {"pid", "tell", "fork"} =>
           /\ Own(p) /\ up[r.child] = file /\ file # <<>>
           /\ ~sharing => Listening = {r.child}
      /\ r.stage \in {"tell", "fork"} => pidfile = [by |-> r.child, written |-> FALSE]

LoadInv ==
  /\ \A p \in Processes : run[p].alone =>
       /\ Updating(p) /\ \A r \in Processes \ {p} : ~Updating(r)
       /\ Progress(p)
  /\ ~broken => \A p \in Processes : Updating(p) => run[p].alone
  /\ ~broken /\ (\A p \in Processes : Updating(p) => run[p].stage = "write") => Loaded

\* The pid of a process that starts is nobody else's.
Fresh(p) ==
  /\ run[p].child \in Pids
  /\ \A r \in Processes : run[p].child \notin run[r].old
  /\ \A r \in Processes \ {p} : run[r].child # run[p].child
  /\ pidfile.by = run[p].child => ~pidfile.written

\* Who opens the pid file has the ports and keeps them until it has written its
\* pid; what is written is of a process that listens, or about to be replaced.
PidfileInv ==
  /\ \A p \in Processes : run[p].stage \notin {"stop", "remove", "start", "daemon"}
  /\ \A p \in Processes : run[p].stage \in {"bind", "pid", "tell", "fork"} => Fresh(p)
  /\ \A p \in Processes : run[p].stage = "bind" => run[p].conf # <<>>
  /\ \A p \in Processes :
       run[p].stage \in {"pid", "tell", "fork"} => up[run[p].child] # Down
  /\ pidfile.written =>
       /\ pidfile.by \in Pids
       /\ up[pidfile.by] # Down \/ \E p \in Processes : run[p].stage = "pid"
       /\ \A p \in Processes : run[p].stage = "tell" => pidfile.by \notin run[p].old
  /\ ~pidfile.written =>
       \E p \in Processes : run[p].stage \in {"tell", "fork"} /\ pidfile.by = run[p].child
=============================================================================
