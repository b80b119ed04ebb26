# A TLA+ model of the TDS administrative scripts

The repository holds the scripts that create, name, balance, deploy to, back up
and watch the servers of the Smarter Balanced test delivery system. They are
small, run unattended on many machines, and share state that none of them locks:
`haproxy.cfg`, the hosted zone in Route 53, the web application directories of
Tomcat. This directory models that shared state and the scripts that change it,
checks the models with TLC and proves the main safety properties with TLAPS.

Paths below are relative to `src/`.

## 1. Inventory

| Part | State | Operations | Interacts with |
|---|---|---|---|
| Autoscaling listener, `aws/servers/haproxy-generic/root/autoscaling_haproxy_update.pl` | server lines of `haproxy.cfg`, SQS queue | receive, describe, read last name, append or delete line, reload, delete message | SNS/SQS, EC2, HAProxy |
| `haproxy-autoscale/update-haproxy.py`, `haproxy_autoscale.py` | `haproxy.cfg`, running HAProxy | fetch instances, render, compare, write, restart | EC2, HAProxy or its init script |
| `haproxy-autoscale/failover-haproxy.py` | holder of the elastic IP | health check, take the address | EC2, the other load balancer |
| `haproxy_autoscale.py`, class `Backends` | `required_keys`, backends | `get_acls`, `generate` | templates (tests) |
| Route 53 records: `aws/root/usr/local/bin/update_route53_cname.sh` (boot), `environment/create_instance_update_route53_cname.sh` (administration host), `aws/root/usr/local/bin/clean_route53.sh` | CNAME records of the zone | read record, decide, submit one change batch | EC2 metadata and tags, Route 53, its name servers |
| Deployment: `deployments/prod/deployment.sh`, `provisioning/tomcatcustombin/TomcatServer/custombin/*-wardeploy.sh` | `webapps`, `oldversion`, `latestversion`, database, Tomcat | shut down, fetch, upload, drop database, check, back up, remove, copy, start | Artifactory, Tomcat, Mongo |
| Environment creation: `environment/create_env.sh`, `create_instance.sh`, `create_load_balancer.sh` | security groups, instances, tags | describe or create group, authorize, run, tag, name | EC2, Route 53 scripts, ansible |
| Firewalls: `environment/update_firewalls.sh`, `verify_firewalls.pl` | ingress rules, `firewalls.txt` | authorize, compare | EC2 |
| Tomcat restarts: `restart_tomcat.sh`, `restart_tomcat_servers.sh` | Tomcat of each server | kill, wait, start, wait for the URL | ssh |
| `backup_all_ebs_volumes.pl` | snapshots | snapshot running instances' volumes, delete older than 3 days | EC2 |
| `dump_component_mapping.sh`, `.pl` | mapping file and its backup | dump, keep old file on error | monitoring service |
| `create_nagios_files.sh` | nagios host files | scan servers, rewrite, restart nagios | EC2, nmap |
| `tsb/load_reg_package.pl` | test specification bank | parse a package line by line, insert | database |
| Boot helpers, listings, loops, SFTP users, user sync | local files | one rewrite each | |

Everything ends in HAProxy 1.5.1, whose sources are part of the repository
(`aws/servers/haproxy-generic/root/haproxy-1.5.1/`, "H" below) and which makes up
nearly all of its code. The scripts start, reload and feed it, so the parts that
carry a request, decide which server gets it, and keep the service up across a
reload are modelled as well:

| Part of HAProxy | State | Operations | Interacts with |
|---|---|---|---|
| Sessions, queues and slots: `H/src/queue.c`, `session.c`, `backend.c` | slots, pending connections, counters | assign, queue, connect, retry, redispatch, dequeue, release | server health, event loop |
| Server health: `H/src/checks.c`, `server.c`, `dumpstats.c`, `cfgparse.c` (track) | operational and administrative state, check and agent | checks, agent replies, observed traffic, CLI and stats page commands, slow start | sessions, balancer |
| Round robin: `H/src/lb_fwrr.c`, `backend.c` | trees, usable servers, weights | server up, down, new weight | server health |
| Hot reconfiguration: `H/src/haproxy.c`, `signal.c`, `proxy.c`, `listener.c`, `proto_tcp.c` | processes, listeners, proxies, pid file | bind, pause, resume, soft stop, limit, accept, exit | kernel, operator, `update-haproxy.py` |
| Peers: `H/src/peers.c`, `stick_table.c` | stick table, update cursors, resync flags | connect, handshake, teach, learn, acknowledge, sync task | another process |
| Event loop: `H/src/task.c`, `include/proto/task.h`, `include/common/ticks.h`, `time.c`, `ev_epoll.c` | wait queue, run queue, current date | wake, queue, schedule, delete, renice a task; expire timers, run tasks, sleep | everything: each part above is a task or an I/O callback |
| HTTP analysis: `H/src/proto_http.c` | transaction, messages | parse, rewrite, forward, keep-alive | sessions |
| Configuration parser, TLS, compression, patterns, samples, ACLs, descriptors, buffers, statistics, logs | | | |

What is hard here:

* **Interleaving.** Several copies of a script, or different scripts, work on
  one file or zone without a lock: the two load balancer updaters with
  themselves, boot runs with administration runs and with the cleaner, a Jenkins
  job with a Tomcat that is still stopping.
* **Check, then act.** Every script reads state, decides, and acts later on what
  it has read: the last server name, the old DNS record, the listed zone, the
  old configuration file, Tomcat's answer.
* **Death half way.** Exit statuses are rarely looked at and nothing is written
  atomically. The order of two statements decides whether a crash between them
  is repaired, repeated or forgotten.
* **Delivery.** SQS reorders and redelivers; Route 53 name servers lag; calls to
  AWS fail and read as an empty answer.
* **Counted resources.** HAProxy counts slots, connections, listeners and jobs in
  several places; whoever takes or frees one has to wake the next who waits.
* **Wrapping numbers.** Dates and the run queue's counter are 32 bits wide and
  compared by the sign of their difference; one plain comparison, or a value that
  stays behind too long, and the past looks like the future.
* **Old and new.** Across a reload two processes share ports, signals and a stick
  table, and either may fail at any point.

The properties that make the parts correct are listed with the modules below;
PROJECT.json gives each hazard at its line with the properties that cover it.

## 2. Modules

| Module | Models | Proofs | Instances |
|---|---|---|---|
| `Registry` | what the listener promises (abstract specification) | | |
| `AutoscalingHaproxy` | the autoscaling listener | `AutoscalingHaproxyProofs` | `MCAutoscalingHaproxy` |
| `Route53` | the zone and its three writers | `Route53Proofs` | `MCRoute53` |
| `UpdateHaproxy` | update-haproxy.py | `ScriptProofs` | `MCUpdateHaproxy` |
| `Deployment` | deployment.sh with wardeploy.sh | `ScriptProofs` | `MCDeployment` |
| `SessionQueue` | sessions, queues and server slots of a backend | `SessionQueueProofs` | `MCSessionQueue` |
| `ServerHealth` | checks, administrative state, tracking, round robin bookkeeping | `ServerHealthProofs` | `MCServerHealth` |
| `Takeover` | `haproxy -sf`: processes, ports and signals | `TakeoverProofs` | `MCTakeover` |
| `Peers` | stick table replication | `PeersProofs` | `MCPeers` |
| `Scheduler` | the event loop, tasks and timers | `SchedulerProofs` | `MCScheduler` |

Definitions named `Mutant...` are variants of the definition that follows them
with a plausible mistake in it. They are part of no specification; each property
is known to fail when the variant replaces the definition.

### AutoscalingHaproxy

State: EC2's view of the instances (`inst`); the queue and which of its messages
are visible; `cfg`, the server lines of the file as a bag (name number, host,
instance id), because a redelivered Launching message appends a second line;
`loaded`, the lines HAProxy was last reloaded with; and each copy's program
counter and variables (`$sqs_msg`, `$pdns_name`, `$lastapp`).

| Action | Lines of the script |
|---|---|
| `ReceiveMessage` | 28-52: receive, match, delete at once if there is no action |
| `DescribeInstances` | 54-63 and the branch 67-88: an unknown instance makes the script die |
| `GetLastApp` | 72-75 |
| `WriteCfg`, `ReloadHaproxy` | 78 and 83: the two sides of the pipeline are separate steps in either order |
| `DeleteMessage` | 50, 91, 100-104 |
| `Sleep` | 106 |
| `Die`, `Reboot`, `Start` | kill or failed call, reboot of the machine, cron or an operator |

A pipeline that was started still ends when only the script is killed; a reboot
cuts it short and HAProxy comes back with the file as it is. `StartHaproxy` is the
init script's check and start: a file it finds fault with (a host that does not
resolve is enough), or a start that fails, leaves after a reload what ran before,
after a reboot nothing. Names are numbers:
perl's `++` on `app007` is `+ 1`. `Launch`, `Terminate`, `Forget` and `Reappear`
are EC2's and SQS's.

Properties: `LaunchNotLost`, `NoDeadHost`, `NamesUnique`, `StaleByAtMostOneEdit`,
`LaunchEventuallyWritten` and the refinement `ImplementsRegistry`. `NamesUnique`, `NoDeadHost`, `StaleByAtMostOneEdit` and
the refinement are about one copy: with two, as cron would start them, names
repeat and a line can be written after its instance's Terminating message is
gone.

The refinement maps `alive` to the running instances, `outstanding` to the queue
and `registered` to the instances with a line in the file. A redelivered message
is a stuttering step of the registry, a deletion of a message is an
acknowledgement, allowed only while the effect is in force.

### Route53

State: the host name of each instance, the zone, what the name servers answer
(`served`), one run of the update script per instance at boot and one from the
administration host (`pc`, `$EC2_Name`, `$Desired_FQDN`, the record read), and
the cleaner (`pairs`, the listing, the deletion batch). `held` (which name had
which host) and `excused` (hosts that came up, or whose lookup failed, since the
cleaner's listing) are history variables.

| Action | Lines |
|---|---|
| `StartInstance` | `aws/root/etc/init/update_route53_cname.conf`: the network comes up, the job starts |
| `AdminUpdate` | `environment/create_instance.sh` 223-234 |
| `FindAuthServer`, `LookupNames`, `DigRecord`, `SubmitUpdate` | `update_route53_cname.sh` 50-55, 57-61, 63-74, 76-133 (and the same steps of the administration variant, which is given the two names) |
| `RunAgain` | `aws/servers/all_servers.sh` 48 |
| `ListRecords`, `CheckHost`, `SubmitClean` | `clean_route53.sh` 9, 11-25, 26-30 |
| `StopInstance`, `Propagate`, `Apply` | EC2 and Route 53 |

A change batch is applied completely or refused; a DELETE in it must name
exactly the record in the zone. `Flaky` lets AWS calls fail (an empty answer or a
refused batch), `Lagging` lets name servers answer from an older zone.

Properties: `OwnNamesOnly`, `OnlyCleanerRemoves`, `ForeignRecordsKept`, `CleanerSparesLiveHosts`, `NamesFollowInstances`,
`NameEventuallySet`.

### UpdateHaproxy

State: the mode of the restart (`graceful`: `--haproxy` was given), whether the
kernel lets two processes listen to a port (`sharing`, SO_REUSEPORT), the running
instances, the file, the pid file, the HAProxy processes with the file each has
read (`up`), and per run its stage, the queries left (one per security group and
region), the instances found, and what its HAProxy has on the command line and has
read. The file is a sequence of blocks, each of the configuration it belongs to
(its set of instances), because two runs may write it at once: each has its own
offset, and `open(..., 'w')` only empties it. The pid file is known by who created
it and whether its pid is in it.

| Action | Lines |
|---|---|
| `Begin`, `GetRunningInstances`, `Compare` | `update-haproxy.py` 74-85, `haproxy_autoscale.py` 30-55, `update-haproxy.py` 41-61 |
| `OpenFile`, `WriteFile` | `file_contents`, 58-76: emptied, then written block by block |
| `RestartHaproxy` | `restart_haproxy` with `--haproxy`, 91-95: the pid file is read for `-sf` |
| `ServiceRestart`, `ServiceStop`, `RemovePidfile`, `ServiceStart`, `Daemon` | the default, 98, with `examples/haproxy.init`: check (65-69), stop (54-62), check again (40-44), start (47) |
| `Launch`, `Bind`, `OpenPidfile`, `TellOldPids`, `Fork` | the HAProxy that starts: it reads the file, takes the ports (`H/src/haproxy.c` 1393-1452), replaces the pid file (1468-1469), tells the old pids to finish (1521-1522), and writes the pid of its daemon (1575) |
| `Fail` | any of these is refused or fails; `subprocess.call`'s result is not looked at |
| `Crash` | a run dies; a command it has started is a process of its own and goes on |

What a starting HAProxy does inside is `Takeover`'s subject; here a process that is
told to stop gives its ports up at once, and `unlink` and `open` of the pid file are
one step. `broken` is a history variable: has a run died after it began to write, a
restart come to nothing, or a second run come to its write while one was updating,
since the last update that nobody disturbed?

Properties: `FileIsLoaded`, `PidfileNamesListener`, `ConvergesToRunning`.
`FileIsLoaded` says that one undisturbed update makes good for everything: whatever
two files, texts and processes the others have left, afterwards the HAProxy of the
pid file runs with the file, alone where ports are not shared. The last one claims
nothing of behaviours in which runs overlap, or restarts come to nothing, again and
again: no later run finds the file changed.

### Deployment

State: Tomcat (`up`, `stopping`, `down`) and what it serves; for each war the
file in `webapps`, the unpacked directory, the copies in `oldversion` and
`latestversion`, each a version, nothing, or a partial file; the database; the
job. `trouble` is a history variable: whether Tomcat stopped late for this job,
and whether the job met a fault.

`Shutdown`, `FetchArtifact`, `PrepareUpload`, `Upload`, `Startup` are
`deployment.sh` 140-147, 148-207, 209-215, 216-228 and 233-240. `BeginWardeploy`
to `Installed` are `pm-wardeploy.sh` 9-108, which `tomcatcustombin/install.sh`
installs as `wardeploy.sh`; the mna, tr, tsb and testauthoring variants have the
same steps. `cp` is two steps, since it empties its destination first. `Abort`
is every `exit -1` of the job and an aborted job. Artifacts are deployed in any
order.

Properties: `SurvivesOneFault`, `DeploysUndisturbed`, `NoSwapUnderTraffic`,
`DropsIdleDatabase`.
A job without `DROPDB`, which the header of deployment.sh does not list, deploys
nothing (wardeploy.sh wants eight arguments); `DeploysUndisturbed` excludes it.

### SessionQueue

HAProxy is one event loop, so a call of `process_session()` is not interrupted.
`run` names the session whose call is under way; its steps are separate actions
that only it may take. State: the shared record `q` (per session its slot, target,
flags and queue position; per server `served`, `cur_sess`, `nbpend` and the
queue), the stream interface's state `st`, and which servers are usable.

| Action | Lines under `H/src` |
|---|---|
| `NewRequest`, `PrepareConnReq` | `session.c` 2249-2270, 1176-1245 with `assign_server_and_queue`, `assign_server` (`backend.c` 513-930) |
| `ConnectServer`, `ConnectServerFails` | `backend.c` 1007-1109, `session.c` 994-1054 |
| `Established`, `ConnFailed`, `ConnAborted` | `session.c` 769-829 and `sess_update_st_cer` 840-930: retry, redispatch or error |
| `Dequeued`, `QueueTimeout`, `QueueAborted` | `session.c` 1055-1110 |
| `TarExpired`, `TarAborted` | `session.c` 1111-1141, the wait before a retry |
| `ServerClosed`, `Disconnect` | `session.c` 1738-1758, 1799-1814 |
| `EndTransaction`, `SessionFree` | `proto_http.c` 4783-4890, `session.c` 589-615 |
| `ServerDown`, `ServerUp` | `server.c` 228-333: redistribution and grabbing of pending connections |

`process_srv_queue` (a round of its loop is `Dequeue`), `pendconn_add`, `pendconn_free`, `pendconn_redistribute`,
`pendconn_grab_from_px`, `srv_dynamic_maxconn` and `sess_change_server` are
operators on `q`. The balancing algorithm may return any usable server.

Properties: `Accounting` (each counter equals what it counts, and slots, queues
and targets agree), `MaxConnRespected`, `NoLostWakeup` (who waits is in exactly
one queue or has been woken), `RequestsConclude`.

Not modelled: slow start, backup servers, prefer-last-server, redirecting
servers, dispatch mode, `on-marked-down shutdown-sessions`, forced persistence,
unlimited servers (maxconn 0).

### ServerHealth

A check is started by its task (`CheckStart`), answered in an I/O callback that
moves only the check's health and result (`CheckAnswer`) and concluded when the
task runs again (`CheckDone`); agent checks likewise (`AgentStart`, `AgentReply`,
`AgentFails`, `AgentDone`). Between those steps come analysed traffic
(`HealthAdjust`), time (`Tick`, `ServerWarmup`), and the commands of the stats
socket and page (`SetState`, `SetFlag`, `ClearFlag`, `SetHealth`, `SetAgent`,
`ToggleCheck`, `ToggleAgent`, `SetWeight`). `srv_set_stopped()` and its siblings
change one server (`SetStateHere`, `SetFlagHere`, `ClrFlagHere`), which ends in the
round robin's bookkeeping (`SetServerStatusUp`, `SetServerStatusDown`,
`UpdateServerWeight`), and call themselves for the trackers of a server that they
changed. What such a call does to a server depends on the server itself and on
the one it tracks, so the order of the code, down one branch after the other, and
any other order that has a server before its trackers come to the same; `Spread`
takes them in the order `TopDown`, which `TrackingAssumption` makes such an order.
`Init` is the configuration. A server that says `disabled` is in maintenance as soon
as its line is parsed (`server.c` 1221); `track` is resolved afterwards, server by
server in the order `Resolution`, which need not follow the chains: a tracker that is
resolved before the server it tracks does not inherit what that one inherits
(`cfgparse.c` 6712), and `HandedDown` tells which trackers that can concern. An agent's
answer (`AgentReply`) sets the agent's health while its words are parsed; the
administrative word, which looks at that health, the weight and the check's status
follow. `Stabilise` is the moment from which the application answers and nobody gives
orders.

Properties: `AdminInherited`, `TrackersFollow`, `BalancerView`,
`DownHasReason`, `HealthyServerServes`.

### Takeover

A process is where `main()` stands, its listeners and proxies, its pending and
queued signals, and `jobs`. `Launch` to `Fork` are the start of a new process
(`haproxy.c` 1397-1638): bind what can be bound, send SIGTTOU and try again, give
up with SIGTTIN or go on, open the pid file, drop privileges, tell the old
processes to leave, fork. `SignalHandler` and `SignalProcessQueue` are
`signal.c`; their handlers pause, resume or soft-stop (`proxy.c` 756-919), all
proxies at once, since no two of a process share a listener;
`ListenerAccept`, `SessionEnd`, `ManageGlobalListenerQueue` limit, fill and resume
listeners (`listener.c`).

Assumed: no SO_REUSEPORT; an old process has handled SIGTTOU when the 10 ms wait
is over; signals that are pending together are delivered in any order. Not
modelled: rate limits, per-frontend queues, unlimited listeners, `bind-process`.

Properties: `NoSessionCut`, `NoListenerForgotten`, `ServiceRestored`, `OldLeaves`.

### Peers

Two processes with one table; `local` tells whether they are two hosts or an old
and a new process of one host. `SyncRunning`, `SyncStopping` are the sync task
(`peers.c` 1324-1479), `Accept`, `Connects`, `GetStatus` the handshake (335-596),
`ReadMessage` and `WriteMessage` the message loop (597-1039) with the two stages
of a lesson, `StktableTouch` a local update (`stick_table.c` 244-278), `SoftStop`
the old process's exit (`proxy.c` 717-747), `Closed` the end of a session;
`ConnectFails` and `Cut` are the network's. The numbers of updates are kept: a
learned entry is filed `Offset` updates after the current one, and the code's
`(2^31)` is 29, because `^` is exclusive or in C.

Properties: `AssignedToLiveSession`, `LessonComplete`, `HandoverComplete`,
`SyncDriven`. Left out: values, expiry, the 32-bit wrap of the counters.

### Scheduler

The event loop is sequential, and what makes it hard is that everything else in
HAProxy reaches into its queues while it walks them. `pc` says which function of
`run_poll_loop()` (`haproxy.c` 1291-1314) is under way: `WakeExpiredTasks`,
`WakeStep`, `WakeEnds` are `wake_expired_tasks()`, one action per turn of its loop
(`task.c` 122-177); `ProcessRunnableTasks`, `RunStep`, `Return` or `ReturnNull`, and
`RunEnds` are `process_runnable_tasks()` (189-258); `Poll` is the poller's sleep
(`ev_epoll.c` 117-142) with the clock's correction of jumps (`time.c` 164-218). The
queues are trees in the code and sequences in the model, sorted by unsigned keys,
older nodes first. `eb` is the walk's pointer to the next node.

While a task runs, and while the I/O callbacks run, any of the calls the rest of
HAProxy makes may come: `Wakeup`, `TaskSchedule`, `Postpone` (a callback gives a
task another date), `SessionShutdown`, `SetNice`, and from I/O `SessionAccept`,
`SessionComplete`, `KillMiniSession`. Embryonic sessions (`mini`) are those whose
handshake is under way: their tasks run `expire_mini_session()`.

Dates and keys wrap at `TickRange` and `KeyRange`. What they ought to mean is kept
beside them in history variables that do not wrap: `remain`, the ticks until a
task's expiration, and `ahead`, a runnable task's distance from the insertion
counter. `unseen` holds the tasks whose date this round of the loop cannot know;
see the disagreements below.

A task that a timer woke up returns with a date to come or none, with one
exception: `syncs` are the tasks that synchronise a peers section, and while a lesson
is assigned `process_peer_sync()` (`peers.c` 1414-1418) expires at `resync_timeout`
even when that has passed (`ReturnLearning`). Such a task is due again in every
round, so the loop spins instead of sleeping, and its date falls behind for as long
as the teacher is silent; nothing in `peers.c` ends that. `MaxLesson` bounds how far:
after 2^31 milliseconds, some 24 days, the date would seem to lie ahead, and the task
would rest as long again. `TicksTellTime` says nothing of a lesson of that length.

Properties: `TicksTellTime`, `TimersCovered`, `PollsInTime`, `CursorInQueue`,
`KeysTellOrder`. Left out: the shape of the trees and the shortcut `last_timer`,
signals, other pollers, failed allocations.

## 3. Runs

| Run | Bounds | What it shows |
|---|---|---|
| `listener` | one copy, 2 instances, names to app005, one kill or reboot, fairness | no launch is lost and each is eventually written, no dead host without a pending message, names stay unique, HAProxy at most one edit behind, refinement of `Registry` |
| `route53_zone` | 2 instances with one name, one of them also named by the administration host, failing calls, lag, cleaner | names only point to their own hosts, live hosts are spared |
| `route53_calm` | 2 instances with 2 names, fairness, nothing fails | every instance gets its name and keeps it |
| `update_haproxy` | 2 runs, an instance, 3 HAProxy processes, both restarts, ports shared or not, 2 events (changes and deaths), any start may fail, fairness | an undisturbed update loads the file whatever was before, the pid file names a process that listens, convergence once runs do not disturb each other |
| `deployment_jobs` | 2 wars, 2 versions, 3 jobs, slow and prompt stops, 2 faults | one fault is survived; undisturbed jobs deploy; no swap under traffic; the database is dropped under a Tomcat that is down |
| `session_queue` | 3 sessions, 2 servers, one change of a server's state, one retry, redispatch | counters, slots and queues agree; nobody waits unseen |
| `session_queue_live` | 2 sessions, otherwise the same, fairness | every request ends connected or with an error |
| `server_tracking` | four servers in two backends, a chain of three with a branch that is resolved against its direction, one checked and observed, two operated | the chain inherits and follows, the balancer's view is right |
| `server_agent` | one server with check and agent, maintenance, checks switched off and on, slow start, fairness | down only for a reason; serves again, with its full weight, when all is well |
| `takeover` | one old and two new processes, three ports, one of them taken, one retry, fairness | sessions survive, ports are released and served again, old processes leave |
| `peers` | two processes, two keys (one stored, one learned; sessions update the learned one), two connections, two events (connects, updates, losses) | resync flags, lessons and handover |
| `scheduler` | one session, one permanent task, which may be that of a peers section with dates up to 2 in the past, 14 dates, 6 keys, timeouts of 1 and 2, a clock corrected at 2, one call per task run or round of I/O, one change of a nice value | no timer is lost or late enough to seem ahead, the poller wakes up in time, walks stay in their queue, run queue keys keep their order |

Bounds. Two instances give every order of Launching and Terminating messages of
two instances and their redelivery; app005 leaves room for a redelivered line of
each. The Route 53 models have no counters: host names are reused for ever, so
two hosts and two instances cover a host that moves from one instance to the
other. The host names are interchangeable, so `route53_zone`, which checks no
liveness, uses them as a symmetry set; so does `session_queue` for its sessions.
Two overlapping runs of update-haproxy.py, with configurations of one and two
blocks, are enough for each to restart within the other's write, for a text that
keeps the tail of a longer one or has a hole, and for two HAProxy processes of which
the pid file names one; the third process is the one both were to replace. Two
events (`MaxEvents`, changes and deaths) allow a second update while the first is
under way. Three deployment jobs are the fewest in which a job follows one
that was damaged by another. Three sessions and a `maxconn` of one and two give a
holder, a waiter in a server's queue and one in the backend's, and a session that
arrives between the release of a slot and the waiter's wakeup. A chain of three
servers has one that is tracked and tracks; a fourth tracks that one too, and is
resolved before it. Two new processes allow a second
reload while the first is under way. Two connections are the fewest for the
handshake's collision of two simultaneous connects. In `scheduler` time has no
bound: dates and keys wrap again and again, with two tasks that overtake each
other in both queues. 14 dates keep the longest delay plus the
longest lateness the clock, the wrap and a lesson can cause within half the range,
and 12 do not; in the code the same sum, a timeout plus a few seconds plus the time a
lesson is waited for, is far below 2^31 unless a teacher is silent for weeks. The poller never
waits while a task keeps a date that has passed, so `MaxDelay` is 2: with 1 the
clock would not move in such rounds. Counters that end a behaviour
(jobs, faults, crashes, changes, flaps, events, changes of nice values), the calls of
one task run (`MaxCalls`), `MaxLesson` and the highest server name are the only
bounds in guards.

Deadlock is not checked where the system may stop: `Deployment` when its jobs are
used up, `ServerHealth` when a server rests in maintenance and its tasks only
reschedule themselves, `Takeover` when every process has left, `Peers` when the
events are used up and both sides are idle.

Fairness. `AutoscalingHaproxy`: weak fairness of the script's steps and of its
restart (an operator or cron), weak fairness of `Reappear` (the visibility
timeout expires) and strong fairness of receiving each message, since SQS keeps
offering a message until it is deleted. `Route53`: a started script runs to its
end. `UpdateHaproxy`: cron, or the `--sleep` loop, keeps starting runs and they
proceed. `SessionQueue`: a call of `process_session()` goes on (`Continue`), and a
task that was woken or whose timer has expired is run (`Wakeup`, strong, since
other tasks may wake and calm it meanwhile). `ServerHealth`: check and agent tasks,
time and the warmup task. `Takeover`: the start of a process proceeds, signals are
delivered, timers fire, sessions end. Nothing is assumed of EC2, the cleaner,
crashes, operators, clients or the network; `Peers` and `Scheduler` assume no
fairness.

### Where the code and its comments or documents disagree

Each was seen on a trace of the model. The runs check what does hold instead.
The trace of the one marked * is found by `server_agent` with `ErrLimit = 1` and
`OnError = "fail-check"`.

| Where | What is said | What the code does | What holds |
|---|---|---|---|
| `autoscaling_haproxy_update.pl` 78, 83 | "reload haproxy" after the edit | the shell starts both sides of the pipe together; a reload before the edit is never repeated, nor is one that is refused | `StaleByAtMostOneEdit`, unless the last reload was refused |
| `update_route53_cname.sh` 129-130 | the record is updated | a batch refused because the cleaner removed the record in between is not retried | `NamesFollowInstances` without the cleaner |
| `haproxy-autoscale/README.md` 16-18 | "It then restarts haproxy in a manner which gracefully terminates connections so there is no downtime" | the default, `service haproxy restart` (98), stops HAProxy before it starts another, and a file that the second check refuses leaves none running | `PidfileNamesListener` with `--haproxy` |
| the same | | two restarts that overlap read one pid; where the kernel shares ports both new processes stay, one of them with an older configuration and in no pid file, so that no later restart stops it | `FileIsLoaded` of the process in the pid file |
| `update-haproxy.py` 61-65, 72 | "Configuration unchanged. Skipping restart." | a run that died between write and restart, or a restart that came to nothing, leaves every later run with nothing to do until the instances change | `ConvergesToRunning` unless that keeps happening |
| `pm-wardeploy.sh` 100 | a backup is kept | two faults put a partial war over the good backup | `SurvivesOneFault` |
| `deployment.sh` 144 | stop, then deploy | a Tomcat that stops late makes the deployment fail and leaves the old version stopped | `DeploysUndisturbed` |
| `H/src/queue.c` 90-91 | "This ensures that no request will be left unserved" | a session closed while queued stays in the list until `session_free`, which dequeues before it gives back the slot it was handed: nobody is woken for that slot | `NoLostWakeup`, `RequestsConclude` (a waiter still times out) |
| `H/doc/configuration.txt` "enable health": "Resume a primary health check" | | `srv_clr_admin_flag` (`server.c` 561-564) resumes a paused check only if it is enabled at that moment; a check disabled in maintenance and enabled after it stays paused | `HealthyServerServes`, whose premise excludes it |
| `H/src/checks.c` 326-330 * | "by default, a server is up, unless [...] health check failed (check->health < rise)", agent check failed, or it tracks a server that is down | with `on-error fail-check` or `sudden-death`, a failed request between a check's passing answer and its conclusion (440) takes the success back: `check->result` is FAILED, `check->health` stays at or above `rise`, `check_notify_failure` ignores it, and the server stays down until another check passes | `DownHasReason` without observation, with `mark-down` or `fastinter`, or with `fall 1` (proved, `DownSafety`) |
| `H/doc/haproxy-en.txt` 620-622 | a new process that fails leaves the old one serving | one that fails after binding exits without SIGTTIN (`haproxy.c` 1498), or sends it while it still holds the ports (1472-1474, 1514-1516) | `ServiceRestored`, which excepts such a start |
| `H/doc/configuration.txt` 1114-1115 | "Interrupted exchanges are automatically detected and recovered from the last known point" | the acknowledgement of a lesson's entries can move the cursor past local updates that were never sent (`peers.c` 812, 466, 561) | `LessonComplete`, `HandoverComplete` |
| `H/src/task.c` 120 | "Returns the date of next event (or eternity) in <next>" | a task queued again beyond the wrap is compared as an unsigned number (167) and becomes the walk's next node: the timers between are not looked at in this round, and `next` is the later date | `PollsInTime` except for that round; the poller sleeps at most `MAX_DELAY_MS`, and `TicksTellTime` |
| `H/src/haproxy.c` 1310 | "The poller will ensure it returns around <next>" | a date that a running task gives another one (`task_queue`, `task_schedule`) is in the wait queue but not in `next`, computed before; the poller may sleep past it, up to `MAX_DELAY_MS` | `PollsInTime` except for such dates, `TimersCovered` |
| `H/src/task.c` 32 | "number of niced tasks in the run queue" | `session_shutdown` (`session.c` 2738) changes the nice value of a task that may be queued: it was counted in with one value and is counted out with the other, so the counter stays off, or passes below zero, and a quarter of the queue is run per loop from then on | `KeysTellOrder` holds nevertheless |

Also met: `checks.c` 461 compares two dates with `>` instead of `tick_is_lt()`, so
around the wrap a failing server is checked late or an earlier date is replaced;
two simultaneous connects of two peers close each other
(`peers.c` 411-420) and may do so again and again; a tracker that is resolved before
the server it tracks starts in service though that one inherits maintenance
(`cfgparse.c` 6712, modelled: `HandedDown`), and a server that tracks itself passes the
test for loops (6690; left out); "set maxconn frontend" resumes the listeners
queued at the session's own frontend, not at the one it changed
(`dumpstats.c` 1533); SIGTTOU and SIGTTIN that are pending together may leave an
old process paused.

## 4. Proofs

All proofs hold for every value of the constants that satisfies the named
assumptions of the module (`FirstInstance` is an instance, `None` is no host, the
bounds are natural numbers, and so on).

* `LaunchSafety`: `TypeOK` and `LaunchNotLost` for any number of copies. The
  induction needs `LaunchInv`: a notification exists only after its event
  (`Caused`), and each copy is at a point that fits its message (`Handling`), in
  particular a copy whose edit of a Launching message is done finds the line in
  the file or the instance terminated. That survives another copy's `sed`,
  because a Terminating message exists only for an instance that is not running.
* `NamesSafety`: `TypeOK` and `OwnNamesOnly`. `NamesInv` adds that the two names
  of a run belong together, and that a run that will ask for them is on an
  instance that is up.
* `ZoneSafety`: the action properties `OnlyCleanerRemoves` and
  `ForeignRecordsKept`. `RecordsInv` adds that a run has
  read a CNAME or nothing and that the cleaner has listed only EC2 hosts.
* `LoadSafety`: `UpdateTypeOK` and `FileIsLoaded` for any number of overlapping
  runs and both restarts. `LoadInv` follows a run that is alone (`Progress`): the
  process it has started has read this file, is not on its own command line, gets the
  ports, as the only one where they are not shared, and is the one the pid file is
  for. While nothing is broken every run that updates is alone.
* `PidfileSafety`: `PidfileNamesListener`, for any number of overlapping runs.
  `PidfileInv` says that the pid of a process that starts is on nobody's command line
  and in no file (`Fresh`), so that nobody stops it before it is in the pid file; an
  empty pid file belongs to one that is about to write it, and what is written is of a
  process that listens, or of one that is about to be replaced.
* `OneFaultSafety`: `TypeOK` and `SurvivesOneFault`. `CopyInv` says where the
  complete copy of a war is at each point of its deployment; the interesting
  part is that the upload can only be missing when the war is still complete or
  kept, since a partial war and a missing upload take a fault each.
* `JobSafety`: `DeploysUndisturbed`. `ProgressInv` says which files are those of
  the job's version at each point of an undisturbed job; with `IdleInv` (Tomcat
  is down throughout) the check passes, and the last `startup.sh` finds the
  version in every war, whatever earlier jobs have left.
* `DropSafety`: `DropsIdleDatabase`, from `IdleInv`.
* `TrafficSafety`: `NoSwapUnderTraffic`, from `TrafficInv`: between the check and
  the last copy nobody starts Tomcat.
* `NameSafety`, `HostSafety`, `ReloadSafety`: `NamesUnique`, `NoDeadHost` and
  `StaleByAtMostOneEdit`, for one copy of the listener (`SingleConsumer`, which the
  instance of `listener` satisfies). They share the invariant `SingleInv`, which adds
  `HandlingAlone`: what the copy has read, the last name included, is still so when
  it edits the file, because nobody else edits it. `ReloadSafety` holds however many
  reloads in a row are refused: the first that is not catches up.
* `ListenerImplementsRegistry`: under the same hypothesis, `Spec` implements
  `Registry`. `SingleInv` and `LaunchInv` give the guards of the registry's
  actions; each action of the listener is shown to be one of them or a stutter.
* `CleanerSafety`: the action property `CleanerSparesLiveHosts`, from `CleanInv`:
  whatever is in the deletion batch was down, or is excused, since it was put there.
* `CalmSafety`: `NamesFollowInstances` where nothing else writes the zone, no call
  fails and names differ (`Calm`, satisfied by `Route53Calm.cfg`). `CalmInv` says
  what a run has read is still the record when it submits.
* `SessionSafety`, `ListenerSafety`: `NoSessionCut` and `NoListenerForgotten`, for
  any processes, configurations and limits. `TakeoverInv` says `jobs` is the number
  of listeners not released plus the number of sessions (`JobsCounted`), that
  nothing is accepted before the loop (`NotYetRunning`), and that a full or limited
  listener has something to wait for in every phase (`Remembered`). The signals in
  the queue are handled by a recursive function; `HandledKeeps` is an induction over
  their number.
* `AssignmentSafety`, `SyncSafety`: `AssignedToLiveSession` and `SyncDriven`.
  `PeersInv` ties a session to the connection it is over (`Linked`, `Starting`) and
  describes the order in which the ends of a connection speak (`Handshake`): the
  status comes first, messages follow it, so no end mistakes one for the other.
* `LessonSafety`, `HandoverSafety`: `LessonComplete` and `HandoverComplete`, for any
  tables, connections and bounds. The hypothesis on `OldUpdates`, that no two entries
  are filed under one key, is what `eb32_insert()` sees to (`stick_table.c` 257). The
  inductive invariant `LessonInv` follows every entry of the teacher's tree:
  - `Progress` says that each entry the lesson owes (`Owed`) is ahead of the cursor
    in its stage (`Ahead`), in the learner's queue (`Told`), or in its table. Writing an
    entry moves the cursor past that entry alone, because it is the least key past the
    cursor and no other entry has it; what the handler does between two messages
    passes none (`WriteTells`). When the end of the lesson is written nothing is ahead.
  - `Lessons` says what the end of a lesson in a queue stands for: every owed entry is
    known, or told before it. This survives further steps of the teacher only because a
    session asks for one lesson at most and the next does not begin while the end of
    one is under way; a confirmation ('c') under way, or still to be written, means that
    the successor has read such an end.
  - `Handed` is what is left when the session of the old process is released.

  Each step changes one process's record and one connection; `Both` collects what
  relates a record to a connection and the other process, and `Closes` puts the
  invariant together again. `OneWay`, that a successor never connects to the process
  it replaces, is needed besides: a session it made would begin with an origin of
  its own after the lesson was counted as given.
* `CounterSafety`, `MaxConnSafety`, `WakeupSafety`: `Accounting`, `MaxConnRespected`
  and `NoLostWakeup`, for any number of sessions and servers and any limits and
  options (only `Sessions` must be finite, since slots are counted). `QueueInv` has
  two parts. `Booked` is about the record `q` alone and is kept by every function of
  `queue.c` and `backend.c`: the counters are right, and a session's fields agree
  (`Coherent`: a slot is one of its assigned target; who is queued has no slot and
  no connection, and is assigned exactly when it is in a server's queue, the reason
  why `pendconn_add`, which counts by `p->srv` and links by `SN_ASSIGNED`, uses one
  list). `Fits` says what each state of a session requires of its fields. A call of
  one session leaves any other alone, or gives it a slot and wakes it (`Given`), or
  takes it out of its queue and wakes it (`Ousted`), and each of these fits whatever
  state that session is in. `process_srv_queue` is a recursive function, and
  `ProcessKeeps` an induction over its rounds.
* `TimerSafety`, `CursorSafety`: `TimersCovered` and `CursorInQueue`, for any number
  of tasks and any ranges. `SchedulerInv` adds that no queue holds a task twice
  (`QueuesInjective`), that queued tasks exist, and that the task that runs is not
  the one the walk continues with, even after it was woken again (`RunningTask`).
* `KeySafety`: `KeysTellOrder`, for any tasks whose number the counter has room for.
  `Wide(D)` asks that there are finitely many tasks, that `D` bounds the offset of
  every nice value, and that `D + Burst * Crowd` does not pass half of `KeyRange`
  (`Crowd` is the number of tasks, `Burst` the wakeups a call may make). With 2^32
  keys, nice values between -1024 and 1024, 200 tasks per loop and ten wakeups per
  call that is room for some 40000 tasks; the run's counter of six values is
  narrower than that and shows the property all the same. The inductive invariant
  `Order` says that the run queue is in the order of its keys (`Sorted`), that a key
  is the counter plus the offset kept in `ahead` (`Keyed`), and that the walk, which
  takes the first key from the counter's half on, meets the tasks in the order of
  their offsets (`Begins`, `Underway`). Every wakeup moves the counter on and so takes one from every offset.
  `Slack` says by how much at most: `Burst` for each of the `Crowd` tasks that is no
  longer in front of it, where `Coming` counts the wakeups there may still be before
  the walk takes its next task. `InsertPlace` and `InsertSorted` put a task that
  is woken up in its place, and `ModShift` and `SignTells` say how keys and signs
  survive the wrap.
* `TimeSafety`, `PollSafety`: `TicksTellTime` and `PollsInTime`, for any tasks whose
  number half of the ticks has room for. A date stays comparable as long as its task
  is not later than that, so the hypothesis `Timely(D)` is `Wide(D)` and that the
  longest timeout plus `Late(D)`, the longest lateness, fit in half of `TickRange`.
  `Late(D)` is `MaxLesson` and a round of the loop for each task and each turn.
  With 2^32 milliseconds, `MAX_DELAY_MS` of a second, the nice values above, timeouts
  of hours and lessons of days that is room for thousands of tasks; the run's 14
  dates are fewer than it asks for and show the properties all the same. `TimeInv`
  bounds the lateness in three stages, with `Lag`, by which one round of the loop
  moves `now_ms` at most:
  - While the task waits for its date, by the wait queue (`WaitInv`). A walk starts at
    the timer that is farthest behind (`WalkStart`) and stays at the first of the rest
    (`AtFirst`, by `NextLeads` and `MovedLeads`), until it moves a task beyond the wrap.
    Either way the timer that is farthest behind has left, or none is behind: each
    round leaves `Room` for `Lag` more ticks. `Room` gives a timer `Lag` for every
    task that is not in front of it, and counts in front of it not only the timers of the
    wait queue but every task that may come back to it with a date that has passed
    (`Waiting`, as far away as `Stand` says): a learner that is put back in front takes
    nothing from the others, because it was counted there while it ran. What it was
    left behind itself is `Extra`.
  - From then on, by the run queue (`TurnInv`). `Turns` counts the tasks before it, and
    the wakeups that can still put one there, as nice values do; a wakeup costs none
    (`TurnsWoken`), and the first task a walk runs takes one from all others
    (`TurnsLeft`, with `Begins` of `KeySafety`). `Soon` says that `Spare`, the lateness
    left to a task, is `Lag` for each turn it no longer waits; a learner has `Extra`
    besides.
  - While it runs, by both together (`Late`).

  `DateInv` ties the histories to the dates, and says that a timer in the wait queue is
  no later than its task's date. `PinInv` says that `next` is no later than any date
  the round has seen: at the end of the walk because it is at the first timer, later
  because every task that returns takes its date into account. `Compares`, `Passes`
  and `Gap` say what the signs of differences tell of dates that are `InTime`.
* `HealthSafety`, `AdminSafety`, `TrackSafety`, `BalancerSafety`, `DownSafety`:
  `HealthInv`, `AdminInherited`, `TrackersFollow`, `BalancerView` and
  `DownHasReason`, for any servers, backends, chains, thresholds and weights. Three
  arguments meet in the inductive invariant `Fine`:
  - The balancer. `Balanced` says that every server was last committed with the
    weight it counts for now, and that its backend's counters, sums and first
    backup server are those of the committed weights (`Tallies`). A function of
    `lb_fwrr.c` finds exactly one server whose committed weight is out of date
    (`Near`) and settles it; that the sums differ by that server's share is an
    induction over the list of servers.
  - The trackers. `AdminEdge` and `FollowEdge` relate a server to the one it tracks.
    `Visited` describes a call that has come down to the n-th server: those called
    so far have changed as `HereRel` says, the others not at all; `SpreadIs` is the
    induction. An edge is kept when both ends, the tracked one, or neither is
    called; that a call stops at an equivalent flag is what makes the second case
    right. It holds for calls on servers that track none, on servers with an agent,
    whose trackers `TrackersFollow` therefore leaves out, and on forced flags
    (`Root`): an operator's call on an inherited flag would break it. An edge of
    maintenance that was broken when the configuration was read (`HandedDown`) stays
    a one-way edge: `TrackersFollow` leaves that tracker out.
  - The reasons. `Told` says that a server that is down has a check that left it
    there or a success that is not concluded yet; conclusions look at the very
    conditions under which they do nothing. Observed traffic can take back a success
    that is not concluded (see the disagreements), hence `DownSafety`'s hypothesis,
    which the instance of `server_agent` satisfies.

Each inductive invariant was checked with TLC on the instances above before it
was proved. `TypeOK` of the modules with proofs, `HealthInv`, `OnlyCleanerRemoves` and
`ForeignRecordsKept` are proved and therefore no longer part of a run. Two copies
of the listener are covered by the proofs alone.

Only model-checked are the liveness properties (`LaunchEventuallyWritten`,
`NameEventuallySet`, `ConvergesToRunning`, `RequestsConclude`,
`HealthyServerServes`, `ServiceRestored`, `OldLeaves`): they need fairness, which is
out of the prover's reach.

## 5. Not modelled, and the plan

Left out of the modelled parts: wording of messages and logs, XML and JSON of
the batches, signatures, ids longer than eight characters, the 1000 record limit
of the cleaner's listing, the `ROOT-copy` directory, `deployment.sh`'s provisioning half, and the wardeploy
variants that stop and start Tomcat themselves, a HAProxy that dies on its own under
`UpdateHaproxy`.

Most of the repository's lines are HAProxy's, and most of those convert data: the
configuration parser (one branch per keyword), the parsers and formatters of HTTP,
logs, statistics and samples, TLS, compression, patterns, and regular
expressions. They hold little control state; a model of them would repeat
them character by character. The map therefore covers the state machines, a few
percent of the lines, and grows only with further state machines (HTTP
transactions first).

Hazards known and not yet covered by a property, besides the ones in
PROJECT.json: `get_acls` appends to the class attribute `required_keys`
(`haproxy_autoscale.py` 147); the wait for Tomcat's end has no limit
(`restart_tomcat.sh` 5); snapshots are deleted whether or not newer ones succeeded
(`backup_all_ebs_volumes.pl` 86); any non-empty dump replaces the mapping
(`dump_component_mapping.sh` 13); two runs create one security group
(`create_instance.sh` 165).

Planned, in this order:

1. `HttpTransaction`: request and response analysers, keep-alive, and the reuse of
   a session for the next request; composed with `SessionQueue` through
   `EndTransaction`.
2. The positions of servers in the round robin's trees (`lb_fwrr.c`): no server is
   starved, and a change of weight keeps its turn.
3. `FailoverHaproxy`: the elastic IP as a token; recovery of the address, and
   standbys that take it from each other.
4. `CreateInstance` and `Firewalls`: security groups described and then created,
   instances started but never tagged or named.
5. `RestartTomcat`, `EbsBackups`, `ComponentMapping`, `NagiosFiles`, `LoadRegPackage`,
   `Backends`.
