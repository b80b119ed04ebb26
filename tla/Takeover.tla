------------------------------ MODULE Takeover ------------------------------
(***************************************************************************)
(* The hot reconfiguration of HAProxy ("haproxy -sf $(cat pidfile)"): a    *)
(* new process asks the old ones with SIGTTOU to release the ports it      *)
(* cannot bind, tells them with SIGTTIN to listen again when it gives up   *)
(* and with SIGUSR1 to leave when it is ready (main() in haproxy.c,        *)
(* signal.c, proxy.c, listener.c, proto_tcp.c).                            *)
(*                                                                         *)
(* A process is a record: phase is where main() stands; li its listeners'  *)
(* states, by port, and nb their nbconn; px its proxies' states; pend the  *)
(* signals the kernel holds for it and sigq its signal_queue; jobs and     *)
(* stopping the globals of these names; timer whether the task of          *)
(* global_listener_queue is scheduled; old, retry, err and todo belong to  *)
(* the loop that binds.  Two sockets never listen to one port: the model   *)
(* is of a kernel without SO_REUSEPORT.                                    *)
(***************************************************************************)
EXTENDS Integers, Sequences, FiniteSets, SequencesExt

CONSTANTS
    First,          \* the process that serves when the story begins
    News,           \* the processes that are started to replace it
    Proxies,        \* process -> its proxies, each a sequence of ports
    Taken,          \* the ports that another program listens to
    MaxStartRetries,\* MAX_START_RETRIES
    ListenerMax,    \* maxconn of a listener
    GlobalMax       \* global.maxconn

Procs == News \cup {First}
PxPorts(p, i) == Range(Proxies[p][i])
PortsOf(p) == UNION {PxPorts(p, i) : i \in DOMAIN Proxies[p]}

ASSUME TakeoverAssumption ==
    /\ First \notin News
    /\ \A p \in Procs : /\ IsInjective(FlattenSeq(Proxies[p]))
                        /\ FlattenSeq(Proxies[p]) \in Seq(PortsOf(p))
                        /\ IsFiniteSet(PortsOf(p))
    /\ Taken \cap PortsOf(First) = {}
    /\ MaxStartRetries \in Nat /\ ListenerMax \in Nat \ {0} /\ GlobalMax \in Nat \ {0}

VARIABLES
    pr,         \* process -> its record
    pidfile     \* the processes the pid file names

vars == <<pr, pidfile>>

Bound == {"LISTEN", "READY", "FULL", "LIMITED"}     \* above LI_PAUSED: the socket listens
Over == {"exit", "aborted"}

Fresh(p) ==
    [ phase |-> "off", li |-> [x \in PortsOf(p) |-> "ASSIGNED"],
      nb |-> [x \in PortsOf(p) |-> 0], px |-> [i \in DOMAIN Proxies[p] |-> "NEW"],
      pend |-> {}, sigq |-> <<>>, jobs |-> Cardinality(PortsOf(p)),
      stopping |-> FALSE, timer |-> FALSE, old |-> {}, retry |-> MaxStartRetries,
      err |-> FALSE, todo |-> FlattenSeq(Proxies[p]) ]

Init ==
    /\ pr = [p \in Procs |->
               IF p = First
               THEN [Fresh(p) EXCEPT !.phase = "run",
                                     !.li = [x \in PortsOf(p) |-> "READY"],
                                     !.px = [i \in DOMAIN Proxies[p] |-> "READY"],
                                     !.todo = <<>>]
               ELSE Fresh(p)]
    /\ pidfile = {First}

Alive(p) == pr[p].phase \notin Over \cup {"off"}
Listens(r, x) == x \in DOMAIN r.li /\ r.li[x] \in Bound
PortFree(p, x) == x \notin Taken /\ \A o \in Procs \ {p} : ~Listens(pr[o], x)
Served(x) == \E p \in Procs : pr[p].phase = "run" /\ Listens(pr[p], x)
Actconn(r) == Cardinality(UNION {{x} \X (1..r.nb[x]) : x \in DOMAIN r.nb})

-----------------------------------------------------------------------------
(* A process that starts: main() up to the polling loop.                   *)

\* pr with sig sent to the processes of S (tell_old_pids()) and n's record r.
Told(n, r, S, sig) ==
    [p \in Procs |-> IF p = n THEN r
                     ELSE IF p \in S /\ Alive(p) THEN [pr[p] EXCEPT !.pend = @ \cup {sig}]
                     ELSE pr[p]]

\* protocol_unbind_all(), and the end of the process.
UnbindListener(state) == IF state \in Bound \cup {"PAUSED"} THEN "ASSIGNED" ELSE state
Gone(r, phase) == [r EXCEPT !.phase = phase, !.pend = {}, !.sigq = <<>>,
                            !.li = [x \in DOMAIN r.li |-> UnbindListener(r.li[x])]]

Launch(n) ==
    /\ pr[n].phase = "off"
    /\ pr' = [pr EXCEPT ![n].phase = "bind", ![n].old = pidfile]
    /\ UNCHANGED pidfile

\* start_proxies(): one bind() and listen(), of a listener that is not bound yet.
BindListener(n) ==
    /\ pr[n].phase = "bind" /\ pr[n].todo # <<>>
    /\ LET x    == Head(pr[n].todo)
           busy == pr[n].li[x] = "ASSIGNED" /\ ~PortFree(n, x)
       IN  pr' = [pr EXCEPT ![n].todo = Tail(@),
                            ![n].li[x] = IF busy THEN @ ELSE "LISTEN",
                            ![n].err = @ \/ busy]
    /\ UNCHANGED pidfile

Again(n, retry) == [pr EXCEPT ![n].phase = "bind", ![n].err = FALSE, ![n].retry = retry,
                              ![n].todo = FlattenSeq(Proxies[n])]

\* The end of a round: go on, give up, or ask the old processes for the ports.
RoundEnd(n) ==
    LET r == pr[n]
    IN  /\ r.phase = "bind" /\ r.todo = <<>>
        /\ \/ /\ ~r.err
              /\ pr' = [pr EXCEPT ![n].phase = "bound",
                                  ![n].px = [i \in DOMAIN r.px |-> "READY"]]
           \/ /\ r.err /\ (r.old = {} \/ r.retry = 0)
              /\ pr' = [pr EXCEPT ![n].phase = "fail"]
           \/ /\ r.err /\ r.old # {} /\ r.retry > 0
              /\ pr' = IF \E o \in r.old : Alive(o)
                       THEN Told(n, [r EXCEPT !.phase = "wait"], r.old, "TTOU")
                       ELSE Again(n, 0)
        /\ UNCHANGED pidfile

\* The select() of 10 ms is over: the old processes had the time to react.
WaitEnd(n) ==
    /\ pr[n].phase = "wait"
    /\ \A o \in pr[n].old : Alive(o) => pr[o].pend = {} /\ pr[o].sigq = <<>>
    /\ pr' = Again(n, pr[n].retry - 1)
    /\ UNCHANGED pidfile

\* Mutant: the old processes are not told that the new one gave up.
MutantGiveUp(n) ==
    /\ pr[n].phase = "fail"
    /\ pr' = [pr EXCEPT ![n] = Gone(@, "exit")]
    /\ UNCHANGED pidfile

\* The ports are released, then the old processes may listen again.
GiveUp(n) ==
    LET r == pr[n]
    IN  /\ r.phase = "fail"
        /\ pr' = IF r.retry # MaxStartRetries /\ r.old # {}
                 THEN Told(n, Gone(r, "exit"), r.old, "TTIN")
                 ELSE [pr EXCEPT ![n] = Gone(r, "exit")]
        /\ UNCHANGED pidfile

\* The pid file is unlinked, then created.  Where this or a later step fails, the
\* old processes are told to listen before the ports are released, or not at all.
OpenPidfile(n) ==
    /\ pr[n].phase = "bound"
    /\ pidfile' = {}
    /\ \/ pr' = [pr EXCEPT ![n].phase = "priv"]
       \/ pr' = Told(n, [pr[n] EXCEPT !.phase = "leaving"], pr[n].old, "TTIN")

\* The privileges the configuration needs, and chroot().
CheckPrivileges(n) ==
    /\ pr[n].phase = "priv"
    /\ \/ pr' = [pr EXCEPT ![n].phase = "tell"]
       \/ pr' = [pr EXCEPT ![n] = Gone(@, "aborted")]
       \/ pr' = Told(n, [pr[n] EXCEPT !.phase = "leaving"], pr[n].old, "TTIN")
    /\ UNCHANGED pidfile

Leaving(n) ==
    /\ pr[n].phase = "leaving"
    /\ pr' = [pr EXCEPT ![n] = Gone(@, "aborted")]
    /\ UNCHANGED pidfile

TellOldPids(n) ==
    /\ pr[n].phase = "tell"
    /\ pr' = Told(n, [pr[n] EXCEPT !.phase = "fork"], pr[n].old, "USR1")
    /\ UNCHANGED pidfile

\* setuid() and fork(); the child's pid is written, protocol_enable_all().
Fork(n) ==
    /\ pr[n].phase = "fork"
    /\ \/ /\ pr' = [pr EXCEPT ![n].phase = "run",
                              ![n].li = [x \in DOMAIN pr[n].li |-> "READY"]]
          /\ pidfile' = {n}
       \/ /\ pr' = [pr EXCEPT ![n] = Gone(@, "aborted")]
          /\ UNCHANGED pidfile

Startup(n) ==
    \/ BindListener(n) \/ RoundEnd(n) \/ WaitEnd(n) \/ GiveUp(n)
    \/ OpenPidfile(n) \/ CheckPrivileges(n) \/ Leaving(n)
    \/ TellOldPids(n) \/ Fork(n)

-----------------------------------------------------------------------------
(* A process that runs: its signals.                                       *)

PauseListener(state) == IF state \in Bound THEN "PAUSED" ELSE state

\* pause_proxy() of the proxies of S, which are neither stopped nor paused.
PauseProxy(p, r, S) ==
    LET ports == UNION {PxPorts(p, i) : i \in S}
    IN  [r EXCEPT !.px = [i \in DOMAIN r.px |-> IF i \in S THEN "PAUSED" ELSE r.px[i]],
                  !.li = [x \in DOMAIN r.li |->
                            IF x \in ports THEN PauseListener(r.li[x]) ELSE r.li[x]]]

Resumable(p, r, x) ==
    r.li[x] \notin {"INIT", "ASSIGNED"} /\ (r.li[x] = "PAUSED" => PortFree(p, x))

\* The state of a listener that is resumed.
ResumeListener(r, x) ==
    IF r.nb[x] >= ListenerMax /\ r.li[x] # "READY" THEN "FULL" ELSE "READY"

\* resume_proxy() of the proxies of S, which are paused.  A listener that fails has
\* those resumed before it paused again, and those after it were not touched: all
\* the listeners of such a proxy are paused.
ResumeProxy(p, r, S) ==
    LET good  == {i \in S : \A x \in PxPorts(p, i) : Resumable(p, r, x)}
        ports == UNION {PxPorts(p, i) : i \in good}
        up    == [r EXCEPT !.px = [i \in DOMAIN r.px |-> IF i \in good THEN "READY" ELSE r.px[i]],
                           !.li = [x \in DOMAIN r.li |->
                                     IF x \in ports THEN ResumeListener(r, x) ELSE r.li[x]]]
    IN  PauseProxy(p, up, S \ good)

\* sig_soft_stop(), sig_pause() and sig_listen(), for all proxies: no two of them
\* have a listener in common, so that their order does not matter.
Handler(p, r, sig) ==
    CASE sig = "USR1" -> [r EXCEPT !.stopping = TRUE]
      [] sig = "TTOU" -> PauseProxy(p, r, {i \in DOMAIN r.px : r.px[i] \notin {"STOPPED", "PAUSED"}})
      [] sig = "TTIN" -> ResumeProxy(p, r, {i \in DOMAIN r.px : r.px[i] = "PAUSED"})

\* signal_handler(): the kernel delivers one pending signal, in any order; it is
\* queued unless it is queued already.
SignalHandler(p, sig) ==
    /\ pr[p].phase = "run" /\ sig \in pr[p].pend
    /\ pr' = [pr EXCEPT ![p].pend = @ \ {sig},
                        ![p].sigq = IF Contains(@, sig) THEN @ ELSE Append(@, sig)]
    /\ UNCHANGED pidfile

\* The record once the signals of q are handled, in their order.
Handled(p, q) ==
    LET h[k \in 0..Len(q)] == IF k = 0 THEN pr[p] ELSE Handler(p, h[k - 1], q[k])
    IN  h[Len(q)]

SignalProcessQueue(p) ==
    /\ pr[p].phase = "run" /\ pr[p].sigq # <<>>
    /\ pr' = [pr EXCEPT ![p] = [Handled(p, pr[p].sigq) EXCEPT !.sigq = <<>>]]
    /\ UNCHANGED pidfile

-----------------------------------------------------------------------------
(* A process that runs: its proxies, listeners and sessions.               *)

\* Mutant: the listeners that are released still count as jobs.
MutantStopProxy(p, r, i) ==
    [r EXCEPT !.px[i] = "STOPPED",
              !.li = [x \in DOMAIN r.li |-> IF x \in PxPorts(p, i) THEN "INIT" ELSE r.li[x]]]

StopProxy(p, r, i) ==
    [r EXCEPT !.px[i] = "STOPPED",
              !.li = [x \in DOMAIN r.li |-> IF x \in PxPorts(p, i) THEN "INIT" ELSE r.li[x]],
              !.jobs = @ - Cardinality({x \in PxPorts(p, i) : r.li[x] # "INIT"})]

\* manage_proxy(), woken up by soft_stop().
ManageProxy(p, i) ==
    /\ pr[p].phase = "run" /\ pr[p].stopping /\ pr[p].px[i] # "STOPPED"
    /\ pr' = [pr EXCEPT ![p] = StopProxy(p, @, i)]
    /\ UNCHANGED pidfile

LimitListener(r, x) == [r EXCEPT !.li[x] = "LIMITED", !.timer = TRUE]

\* Mutant: the listeners that wait for a global resource stay queued.
MutantDequeue(r) == r

\* dequeue_all_listeners(&global_listener_queue)
DequeueAllListeners(r) ==
    [r EXCEPT !.li = [x \in DOMAIN r.li |->
        IF r.li[x] = "LIMITED" THEN ResumeListener(r, x) ELSE r.li[x]]]

\* Mutant: an accepted connection is not counted as a job.
MutantAccept(p, x) ==
    LET r == pr[p]
    IN  /\ r.phase = "run" /\ x \in DOMAIN r.li /\ r.li[x] = "READY"
        /\ Actconn(r) < GlobalMax /\ r.nb[x] < ListenerMax
        /\ pr' = [pr EXCEPT ![p].nb[x] = @ + 1,
                            ![p].li[x] = IF r.nb[x] + 1 >= ListenerMax THEN "FULL" ELSE @]
        /\ UNCHANGED pidfile

\* listener_accept(): a connection is accepted, or the listener waits in the
\* global queue, at the global limit or since accept() failed.
ListenerAccept(p, x) ==
    LET r == pr[p]
    IN  /\ r.phase = "run" /\ x \in DOMAIN r.li /\ r.li[x] = "READY"
        /\ \/ /\ Actconn(r) < GlobalMax /\ r.nb[x] < ListenerMax
              /\ pr' = [pr EXCEPT ![p].nb[x] = @ + 1, ![p].jobs = @ + 1,
                                  ![p].li[x] = IF r.nb[x] + 1 >= ListenerMax
                                               THEN "FULL" ELSE @]
           \/ /\ r.nb[x] < ListenerMax
              /\ pr' = [pr EXCEPT ![p] = LimitListener(r, x)]
        /\ UNCHANGED pidfile

\* The end of process_session() for a session of listener x.
SessionEnd(p, x) ==
    LET r    == pr[p]
        less == [r EXCEPT !.nb[x] = @ - 1, !.jobs = @ - 1]
        open == IF r.li[x] = "FULL" THEN [less EXCEPT !.li[x] = ResumeListener(less, x)]
                ELSE less
    IN  /\ r.phase = "run" /\ x \in DOMAIN r.nb /\ r.nb[x] > 0
        /\ pr' = [pr EXCEPT ![p] = DequeueAllListeners(open)]
        /\ UNCHANGED pidfile

ManageGlobalListenerQueue(p) ==
    LET r == pr[p]
    IN  /\ r.phase = "run" /\ r.timer
        /\ pr' = [pr EXCEPT ![p] = [IF Actconn(r) >= GlobalMax THEN r
                                    ELSE DequeueAllListeners(r) EXCEPT !.timer = FALSE]]
        /\ UNCHANGED pidfile

\* run_poll_loop() returns.
Exit(p) ==
    /\ pr[p].phase = "run" /\ pr[p].jobs = 0
    /\ pr' = [pr EXCEPT ![p] = Gone(@, "exit")]
    /\ UNCHANGED pidfile

Loop(p) ==
    \/ \E sig \in {"USR1", "TTIN", "TTOU"} : SignalHandler(p, sig)
    \/ SignalProcessQueue(p)
    \/ \E i \in DOMAIN Proxies[p] : ManageProxy(p, i)
    \/ ManageGlobalListenerQueue(p)
    \/ Exit(p)

Next ==
    \/ \E n \in News : Launch(n) \/ Startup(n)
    \/ \E p \in Procs :
          \/ Loop(p)
          \/ \E x \in PortsOf(p) : ListenerAccept(p, x) \/ SessionEnd(p, x)

\* The loop of a process goes on, and every session ends (its timeouts see to it).
Fairness ==
    /\ \A n \in News : WF_vars(Startup(n))
    /\ \A p \in Procs :
         /\ \A sig \in {"USR1", "TTIN", "TTOU"} : WF_vars(SignalHandler(p, sig))
         /\ WF_vars(SignalProcessQueue(p))
         /\ \A i \in DOMAIN Proxies[p] : WF_vars(ManageProxy(p, i))
         /\ WF_vars(ManageGlobalListenerQueue(p))
         /\ WF_vars(Exit(p))
         /\ \A x \in PortsOf(p) : WF_vars(SessionEnd(p, x))

Spec == Init /\ [][Next]_vars /\ Fairness

-----------------------------------------------------------------------------

(***************************************************************************)
(* A process that leaves its loop has no session left (jobs counts the     *)
(* sessions as well as the listeners, so that a reload cuts none).         *)
(***************************************************************************)
NoSessionCut == \A p \in Procs : pr[p].phase = "exit" => Actconn(pr[p]) = 0

(***************************************************************************)
(* No lost wake-up of a listener: a full one has its sessions, a limited   *)
(* one waits for a session or for the task of the queue.                   *)
(***************************************************************************)
NoListenerForgotten ==
    \A p \in Procs : pr[p].phase = "run" =>
        \A x \in PortsOf(p) :
            /\ pr[p].li[x] = "FULL" => pr[p].nb[x] >= ListenerMax
            /\ pr[p].li[x] = "LIMITED" => pr[p].timer \/ Actconn(pr[p]) >= GlobalMax

(***************************************************************************)
(* Whatever processes are started, and in whichever order their binds,     *)
(* signals and retries fall, the ports that every startable configuration  *)
(* has are served for good in the end, unless a process fails after it     *)
(* bound its ports.                                                        *)
(***************************************************************************)
Kept == {x \in PortsOf(First) :
            \A n \in News : PortsOf(n) \cap Taken = {} => x \in PortsOf(n)}
ServiceRestored ==
    \A x \in Kept : <>[](Served(x) \/ \E n \in News : pr[n].phase = "aborted")

(***************************************************************************)
(* A process told to stop leaves, once its sessions are over.              *)
(***************************************************************************)
OldLeaves == \A p \in Procs : pr[p].stopping ~> pr[p].phase = "exit"

-----------------------------------------------------------------------------
(* What the proofs need besides: jobs is right, nothing is accepted before *)
(* the loop, and a process that gives up has not lost a listener.          *)

Phases == {"off", "bind", "wait", "fail", "bound", "priv", "leaving", "tell", "fork", "run"} \cup Over
Signals == {"USR1", "TTIN", "TTOU"}

Record(p) ==
    [ phase : Phases, li : [PortsOf(p) -> Bound \cup {"INIT", "ASSIGNED", "PAUSED"}],
      nb : [PortsOf(p) -> 0..ListenerMax],
      px : [DOMAIN Proxies[p] -> {"NEW", "READY", "PAUSED", "STOPPED"}],
      pend : SUBSET Signals, sigq : Seq(Signals), jobs : Int,
      stopping : BOOLEAN, timer : BOOLEAN, old : SUBSET Procs, retry : Int,
      err : BOOLEAN, todo : Seq(PortsOf(p)) ]

TypeOK ==
    /\ pr = [p \in Procs |-> pr[p]] /\ \A p \in Procs : pr[p] \in Record(p)
    /\ pidfile \subseteq Procs

Busy(r) == {x \in DOMAIN r.li : r.li[x] # "INIT"}
JobsCounted(r) == r.jobs = Cardinality(Busy(r)) + Actconn(r)

NotYetRunning(r) ==
    r.phase \notin {"run", "exit"} =>
        \A x \in DOMAIN r.li : r.nb[x] = 0 /\ r.li[x] \in {"ASSIGNED", "LISTEN"}

Remembered(r) ==
    \A x \in DOMAIN r.li :
        /\ r.li[x] = "FULL" => r.nb[x] >= ListenerMax
        /\ r.li[x] = "LIMITED" => r.timer \/ Actconn(r) >= GlobalMax

TakeoverInv ==
    /\ TypeOK
    /\ \A p \in Procs : JobsCounted(pr[p]) /\ NotYetRunning(pr[p]) /\ Remembered(pr[p])
    /\ NoSessionCut
=============================================================================
