---------------------------- MODULE SessionQueue ----------------------------
(***************************************************************************)
(* The connection slots and queues of one HAProxy backend (queue.c, the    *)
(* server-side state machine of session.c, assign_server* of backend.c):   *)
(* a session that wants a server reserves one of the server's maxconn      *)
(* slots, waits in the server's or in the backend's queue, connects, is    *)
(* retried or redispatched, and hands its slot to the next waiter.         *)
(*                                                                         *)
(* HAProxy is one event loop: a task runs to its end before another does.  *)
(* run is the session whose process_session() is under way; the steps of   *)
(* one call are separate actions that only that session may take, so every *)
(* interleaving of two sessions is an interleaving of whole calls.         *)
(*                                                                         *)
(* The variable q holds what the queue functions share.  For a session:    *)
(* slot (srv_conn), target, assigned (SN_ASSIGNED), cur (SN_CURR_SESS) and *)
(* psrv, the queue its pend_pos was counted in (None when pend_pos is      *)
(* NULL, Px when p->srv is NULL).  For a server: served, cur_sess, nbpend  *)
(* and the list queue.  woken is the set of tasks woken up by another one. *)
(***************************************************************************)
EXTENDS Integers, Sequences, FiniteSets, FiniteSetsExt, SequencesExt

CONSTANTS
    Sessions,       \* the sessions the backend may have at one time
    Servers,        \* the servers of the backend
    Px,             \* the name of the backend's own queue
    None,           \* a NULL pointer
    MaxConn,        \* server -> maxconn
    MinConn,        \* server -> minconn
    MaxQueue,       \* server -> maxqueue, 0 when unlimited
    FullConn,       \* the backend's fullconn
    Retries,        \* the backend's conn_retries
    Redisp,         \* option redispatch
    Persist,        \* option persist
    Sticky,         \* the servers a cookie or a use-server rule may name
    MaxFlaps        \* bound: how many times servers change state

ASSUME QueueAssumption ==
    /\ IsFiniteSet(Sessions)
    /\ MaxConn \in [Servers -> Nat \ {0}]
    /\ MinConn \in [Servers -> Nat \ {0}]
    /\ MaxQueue \in [Servers -> Nat]
    /\ \A v \in Servers : MinConn[v] <= MaxConn[v]
    /\ FullConn \in Nat \ {0} /\ Retries \in Nat /\ MaxFlaps \in Nat
    /\ Redisp \in BOOLEAN /\ Persist \in BOOLEAN
    /\ Sticky \subseteq Servers
    /\ Px \notin Servers /\ None \notin Servers \cup {Px} \cup Sessions

VARIABLES
    q,          \* slots, queues and counters, see above
    st,         \* session -> state of its server-side stream interface
    direct,     \* session -> SN_DIRECT: the server comes from persistence
    retries,    \* session -> conn_retries
    up,         \* the servers that srv_is_usable() accepts
    order,      \* the sessions by age of their request (tv_request)
    run,        \* the session whose task is running, or None
    flaps       \* how many times a server changed state

vars == <<q, st, direct, retries, up, order, run, flaps>>

Queues == Servers \cup {Px}

Init ==
    /\ q = [ queue    |-> [x \in Queues |-> <<>>],
             nbpend   |-> [x \in Queues |-> 0],
             served   |-> [v \in Servers |-> 0],
             curSess  |-> [v \in Servers |-> 0],
             slot     |-> [s \in Sessions |-> None],
             target   |-> [s \in Sessions |-> None],
             assigned |-> [s \in Sessions |-> FALSE],
             psrv     |-> [s \in Sessions |-> None],
             cur      |-> [s \in Sessions |-> FALSE],
             woken    |-> {},
             beconn   |-> 0 ]
    /\ st = [s \in Sessions |-> "INI"]
    /\ direct = [s \in Sessions |-> FALSE]
    /\ retries = [s \in Sessions |-> 0]
    /\ up = Servers
    /\ order = <<>>
    /\ run = None
    /\ flaps = 0

-----------------------------------------------------------------------------
(* queue.c and its inline helpers, as functions on b, a value of q.        *)

\* The limit a server applies now: it follows the backend's load between
\* minconn and maxconn (no slowstart here, see ServerHealth).
SrvDynamicMaxconn(b, v) ==
    IF b.beconn >= FullConn \/ MinConn[v] = MaxConn[v]
    THEN MaxConn[v]
    ELSE Max({MinConn[v], (b.beconn * MaxConn[v]) \div FullConn})

Older(s, t) ==
    \E i, j \in DOMAIN order : i < j /\ order[i] = s /\ order[j] = t

PendconnFree(b, s) ==
    [b EXCEPT !.queue = [x \in Queues |-> RemoveFirst(b.queue[x], s)],
              !.nbpend[b.psrv[s]] = @ - 1,
              !.psrv[s] = None]

\* p->srv follows target, the list follows SN_ASSIGNED.
PendconnAdd(b, s) ==
    LET srv  == IF b.target[s] \in Servers THEN b.target[s] ELSE Px
        list == IF b.assigned[s] THEN srv ELSE Px
    IN  [b EXCEPT !.queue[list] = Append(@, s),
                  !.nbpend[list] = @ + 1,
                  !.psrv[s] = srv]

SessChangeServer(b, s, new) ==
    LET old == b.slot[s]
    IN  IF old = new THEN b
        ELSE [b EXCEPT !.served = [v \in Servers |->
                           b.served[v] + (IF v = new THEN 1 ELSE 0)
                                       - (IF v = old THEN 1 ELSE 0)],
                       !.slot[s] = new]

\* The head of the server's queue, or of the backend's when that one is
\* older or alone and the server may take new sessions.
PendconnNext(b, v) ==
    LET ps == IF b.nbpend[v] = 0 THEN None ELSE Head(b.queue[v])
        pp == IF b.nbpend[Px] = 0 THEN None ELSE Head(b.queue[Px])
    IN  IF pp = None \/ v \notin up THEN ps
        ELSE IF ps = None \/ Older(pp, ps) THEN pp ELSE ps

\* Mutant: the next session is assigned but its task is not woken.
MutantNoWakeup(b, v) ==
    LET s == PendconnNext(b, v)
        f == PendconnFree(b, s)
    IN  [f EXCEPT !.assigned[s] = TRUE, !.target[s] = v, !.slot[s] = v,
                  !.served[v] = @ + 1]

\* pendconn_get_next_sess() and the task_wakeup() of its caller.
TakeNext(b, v) ==
    LET s == PendconnNext(b, v)
        f == PendconnFree(b, s)
    IN  [f EXCEPT !.assigned[s] = TRUE, !.target[s] = v, !.slot[s] = v,
                  !.served[v] = @ + 1, !.woken = @ \cup {s}]

Dequeue(b, v, max) ==
    IF b.served[v] < max /\ PendconnNext(b, v) # None THEN TakeNext(b, v) ELSE b

\* One round per session is enough: each takes one off a queue.
ProcessSrvQueue(b, v) ==
    LET max == SrvDynamicMaxconn(b, v)
        loop[n \in 0..Cardinality(Sessions)] ==
            IF n = 0 THEN b ELSE Dequeue(loop[n - 1], v, max)
    IN  loop[Cardinality(Sessions)]

\* may_dequeue_tasks() looks at cur_sess, process_srv_queue() at served.
MayDequeueTasks(b, v) ==
    /\ v \in Servers
    /\ b.nbpend[v] > 0 \/ (b.nbpend[Px] > 0 /\ v \in up)
    /\ b.curSess[v] < SrvDynamicMaxconn(b, v)

Offer(b, v) == IF MayDequeueTasks(b, v) THEN ProcessSrvQueue(b, v) ELSE b

\* The pending connections of a server that goes down go back to the balancer.
PendconnRedistribute(b, v) ==
    LET gone == Range(b.queue[v])
    IN  IF ~Redisp \/ Persist THEN b
        ELSE [b EXCEPT !.queue[v] = <<>>,
                       !.nbpend[v] = @ - Len(b.queue[v]),
                       !.psrv = [s \in Sessions |-> IF s \in gone THEN None ELSE b.psrv[s]],
                       !.assigned = [s \in Sessions |-> b.assigned[s] /\ s \notin gone],
                       !.woken = @ \cup gone]

\* A server that comes up takes sessions from the backend's queue: they are
\* woken with the server as their target but without SN_ASSIGNED.
PendconnGrabFromPx(b, v) ==
    LET n    == Min({SrvDynamicMaxconn(b, v), b.nbpend[Px]})
        take == {b.queue[Px][i] : i \in 1 .. n}
    IN  [b EXCEPT !.queue[Px] = SubSeq(@, n + 1, Len(@)),
                  !.nbpend[Px] = @ - n,
                  !.psrv = [s \in Sessions |-> IF s \in take THEN None ELSE b.psrv[s]],
                  !.target = [s \in Sessions |-> IF s \in take THEN v ELSE b.target[s]],
                  !.woken = @ \cup take]

-----------------------------------------------------------------------------
(* backend.c                                                               *)

\* What the round robin may return: a server that is up and not saturated,
\* the previous one only when no other is free.
GetNextServer(b, prev) ==
    LET free == {v \in up : b.nbpend[v] = 0 /\ b.served[v] < SrvDynamicMaxconn(b, v)}
    IN  IF free = {} THEN {None}
        ELSE IF free = {prev} THEN free ELSE free \ {prev}

Outcome(b, err) == [b |-> b, err |-> err]

\* Mutant: the previous server stays the target when every server is full.
MutantKeepTarget(b, s) ==
    { IF v = None THEN Outcome(b, "FULL")
      ELSE Outcome([b EXCEPT !.target[s] = v, !.assigned[s] = TRUE], "OK")
    : v \in GetNextServer(b, b.target[s]) }

\* The possible results of assign_server(): a slot held on entry is released
\* first, then taken back or offered to a waiter.
AssignServer(b, s) ==
    LET held  == b.slot[s]
        clean == [SessChangeServer(b, s, None) EXCEPT !.target[s] = None]
        leave(c, v) == IF held = None THEN c
                       ELSE IF held = v THEN SessChangeServer(c, s, v)
                       ELSE Offer(c, held)
    IN  IF up = {} THEN {Outcome(leave(clean, None), "NOSRV")}
        ELSE { IF v = None THEN Outcome(leave(clean, None), "FULL")
               ELSE Outcome(leave([clean EXCEPT !.target[s] = v,
                                                !.assigned[s] = TRUE], v), "OK")
             : v \in GetNextServer(clean, b.target[s]) }

\* pendconn_add() fails when the pool is exhausted.
Enqueue(b, s) == {Outcome(PendconnAdd(b, s), "QUEUED"), Outcome(b, "INTERNAL")}

\* Mutant: the length of the queue is checked, the slots are not.
MutantNoSlotCheck(o, s) ==
    CASE o.err = "FULL" -> Enqueue(o.b, s)
      [] o.err = "OK" /\ o.b.nbpend[o.b.target[s]] > 0 -> Enqueue(o.b, s)
      [] o.err = "OK" -> {Outcome(SessChangeServer(o.b, s, o.b.target[s]), "OK")}
      [] OTHER -> {o}

\* The second half of assign_server_and_queue(): a slot or a place in the queue.
ReserveOrQueue(o, s) ==
    LET v == o.b.target[s]
    IN  CASE o.err = "FULL"  -> Enqueue(o.b, s)
          [] o.err = "NOSRV" -> {o}
          [] o.err = "OK" /\ o.b.slot[s] = v -> {o}
          [] o.err = "OK" /\ o.b.slot[s] # v ->
               IF o.b.nbpend[v] > 0 \/ o.b.served[v] >= SrvDynamicMaxconn(o.b, v)
               THEN IF MaxQueue[v] > 0 /\ o.b.nbpend[v] >= MaxQueue[v]
                    THEN {Outcome(o.b, "FULL")}
                    ELSE Enqueue(o.b, s)
               ELSE {Outcome(SessChangeServer(o.b, s, v), "OK")}

AssignServerAndQueue(b, s) ==
    UNION { ReserveOrQueue(o, s) :
              o \in IF b.assigned[s] THEN {Outcome(b, "OK")} ELSE AssignServer(b, s) }

-----------------------------------------------------------------------------
(* session.c: one call of process_session()                                *)

Unassign(b, s) == [b EXCEPT !.assigned[s] = FALSE]

DropCurSess(b, s) ==
    IF b.cur[s] /\ b.target[s] \in Servers
    THEN [b EXCEPT !.cur[s] = FALSE, !.curSess[b.target[s]] = @ - 1]
    ELSE b

\* A call starts: the task is taken off the run queue.
Start(s) == run = None
Calm(b, s) == [b EXCEPT !.woken = @ \ {s}]

\* The call goes on while the interface is in one of the transient states.
Goto(s, state) ==
    /\ st' = [st EXCEPT ![s] = state]
    /\ run' = IF state \in {"REQ", "ASS", "DIS"} THEN s ELSE None

\* A request is complete and asks for a server, v when persistence chose one.
NewRequest(s, v) ==
    /\ Start(s)
    /\ st[s] = "INI"
    /\ v # None => v \in up \/ Persist
    /\ q' = [q EXCEPT !.beconn = @ + 1, !.target[s] = v, !.assigned[s] = (v # None)]
    /\ direct' = [direct EXCEPT ![s] = (v # None)]
    /\ retries' = [retries EXCEPT ![s] = Retries]
    /\ order' = Append(order, s)
    /\ Goto(s, "REQ")
    /\ UNCHANGED <<up, flaps>>

\* sess_prepare_conn_req() with srv_redispatch_connect(): a full server chosen
\* by persistence is given up for the balancer when redispatch is allowed.
PrepareConnReq(s) ==
    /\ run = s
    /\ st[s] = "REQ"
    /\ \E o \in AssignServerAndQueue(q, s) :
         LET redo == o.err = "FULL" /\ direct[s] /\ Redisp
         IN  /\ q' = CASE o.err = "INTERNAL" -> Offer(o.b, o.b.target[s])
                       [] redo -> Unassign(o.b, s)
                       [] OTHER -> o.b
             /\ direct' = [direct EXCEPT ![s] = @ /\ ~redo]
             /\ Goto(s, CASE o.err = "OK" -> "ASS"
                          [] o.err = "QUEUED" -> "QUE"
                          [] redo -> "REQ"
                          [] OTHER -> "CLO")
    /\ UNCHANGED <<retries, up, order, flaps>>

\* sess_update_st_cer(): a failed attempt ends the session, is redispatched or
\* is retried on the same server, at once or after a delay when the failure
\* was reported by the socket (err).
StCer(s, err) ==
    LET b1     == DropCurSess(Calm(q, s), s)
        freed  == Offer(SessChangeServer(b1, s, None), b1.target[s])
        last   == retries[s] = 0
        redisp == /\ retries[s] = 1 \/ (~direct[s] /\ Cardinality(up) > 1)
                  /\ Redisp
        delay  == err /\ (~redisp \/ Cardinality(up) <= 1)
    IN  /\ retries' = [retries EXCEPT ![s] = @ - 1]
        /\ q' = CASE last -> freed
                  [] ~last /\ redisp -> Unassign(freed, s)
                  [] OTHER -> b1
        /\ direct' = [direct EXCEPT ![s] = @ /\ (last \/ ~redisp)]
        /\ Goto(s, CASE last -> "CLO"
                     [] ~last /\ delay -> "TAR"
                     [] ~last /\ ~delay /\ redisp -> "REQ"
                     [] OTHER -> "ASS")
        /\ UNCHANGED <<up, order, flaps>>

\* connect_server() starts the connection.
ConnectServer(s) ==
    /\ run = s
    /\ st[s] = "ASS"
    /\ q' = [q EXCEPT !.cur[s] = TRUE, !.curSess[q.target[s]] = @ + 1]
    /\ Goto(s, "CON")
    /\ UNCHANGED <<direct, retries, up, order, flaps>>

\* connect_server() fails at once: no source port, no memory (retried), or an
\* internal error (closed, the slot goes to a waiter).
ConnectServerFails(s) ==
    /\ run = s
    /\ st[s] = "ASS"
    /\ \/ StCer(s, FALSE)
       \/ /\ q' = Offer(SessChangeServer(q, s, None), q.target[s])
          /\ Goto(s, "CLO")
          /\ UNCHANGED <<direct, retries, up, order, flaps>>

\* The server side was closed: count it and offer the slot.
Disconnect(s) ==
    /\ run = s
    /\ st[s] = "DIS"
    /\ q' = IF q.target[s] \in Servers
            THEN Offer(SessChangeServer(DropCurSess(q, s), s, None), q.target[s])
            ELSE q
    /\ Goto(s, "CLO")
    /\ UNCHANGED <<direct, retries, up, order, flaps>>

\* The call starts with an event on the server side and moves on to state.
Event(s, from, state) ==
    /\ Start(s)
    /\ st[s] = from
    /\ q' = Calm(q, s)
    /\ Goto(s, state)
    /\ UNCHANGED <<direct, retries, up, order, flaps>>

Established(s) == Event(s, "CON", "EST")
ConnAborted(s) == Event(s, "CON", "DIS")
ServerClosed(s) == Event(s, "EST", "DIS")

\* The attempt failed (err) or timed out.
ConnFailed(s, err) == Start(s) /\ st[s] = "CON" /\ StCer(s, err)

\* A session that is no longer queued connects, or asks the balancer again.
Dequeued(s) ==
    /\ s \in q.woken
    /\ q.psrv[s] = None
    /\ Event(s, "QUE", IF q.assigned[s] THEN "ASS" ELSE "REQ")

\* Mutant: the queue's timeout is not armed.
MutantNoQueueTimeout(s) == FALSE /\ Event(s, "QUE", "CLO")

QueueTimeout(s) == q.psrv[s] # None /\ Event(s, "QUE", "CLO")

\* The client leaves: with nothing left to send the interface is shut like an
\* established one, otherwise abortonclose gives up a session still queued.
QueueAborted(s) ==
    \/ Event(s, "QUE", "DIS")
    \/ q.psrv[s] # None /\ Event(s, "QUE", "CLO")

TarExpired(s) == Event(s, "TAR", IF q.assigned[s] THEN "ASS" ELSE "REQ")
TarAborted(s) == Event(s, "TAR", "DIS") \/ Event(s, "TAR", "CLO")

\* Unqueue a session and let the next waiter in, as the end of a transaction
\* and the end of a session do.
Leave(b, s) ==
    LET f == DropCurSess(IF b.psrv[s] # None THEN PendconnFree(b, s) ELSE b, s)
    IN  Offer(f, b.target[s])

Forget(b, s) ==
    [b EXCEPT !.target[s] = None, !.assigned[s] = FALSE, !.woken = @ \ {s}]

\* http_end_txn_clean_session(): the client's next request starts afresh.
EndTransaction(s) ==
    /\ Start(s)
    /\ st[s] = "EST"
    /\ q' = Forget(Leave(SessChangeServer([q EXCEPT !.beconn = @ - 1], s, None), s), s)
    /\ direct' = [direct EXCEPT ![s] = FALSE]
    /\ order' = RemoveFirst(order, s)
    /\ retries' = [retries EXCEPT ![s] = 0]
    /\ Goto(s, "INI")
    /\ UNCHANGED <<up, flaps>>

\* Both sides are closed: session_free().  A slot still held is dropped last.
SessionFree(s) ==
    /\ Start(s)
    /\ st[s] = "CLO"
    /\ q' = Forget(SessChangeServer(Leave([q EXCEPT !.beconn = @ - 1], s), s, None), s)
    /\ direct' = [direct EXCEPT ![s] = FALSE]
    /\ order' = RemoveFirst(order, s)
    /\ retries' = [retries EXCEPT ![s] = 0]
    /\ Goto(s, "INI")
    /\ UNCHANGED <<up, flaps>>

ServerDown(v) ==
    /\ run = None
    /\ v \in up
    /\ flaps < MaxFlaps
    /\ flaps' = flaps + 1
    /\ up' = up \ {v}
    /\ q' = PendconnRedistribute(q, v)
    /\ direct' = [s \in Sessions |-> direct[s] /\ (q.psrv[s] = v => ~(Redisp /\ ~Persist))]
    /\ UNCHANGED <<st, retries, order, run>>

ServerUp(v) ==
    /\ run = None
    /\ v \notin up
    /\ up' = up \cup {v}
    /\ q' = PendconnGrabFromPx(q, v)
    /\ UNCHANGED <<st, direct, retries, order, run, flaps>>

\* The rest of the running call.
Continue(s) ==
    \/ PrepareConnReq(s)
    \/ ConnectServer(s)
    \/ ConnectServerFails(s)
    \/ Disconnect(s)

Next ==
    \/ \E s \in Sessions :
         \/ \E v \in Sticky \cup {None} : NewRequest(s, v)
         \/ Continue(s)
         \/ Established(s) \/ ConnAborted(s) \/ ServerClosed(s)
         \/ \E err \in BOOLEAN : ConnFailed(s, err)
         \/ Dequeued(s) \/ QueueTimeout(s) \/ QueueAborted(s)
         \/ TarExpired(s) \/ TarAborted(s)
         \/ EndTransaction(s) \/ SessionFree(s)
    \/ \E v \in Servers : ServerDown(v) \/ ServerUp(v)

\* The task of a session runs because another one woke it or its timer expired
\* (timeout queue, timeout connect, the delay before a retry).
Wakeup(s) ==
    \/ Dequeued(s) \/ QueueTimeout(s) \/ TarExpired(s)
    \/ \E err \in BOOLEAN : ConnFailed(s, err)

\* The event loop finishes a call it started.  Its run queue and its timers are
\* ordered by time, so that no task that is due is overtaken for ever: strong
\* fairness, because the others' calls disable it again and again.  Nothing
\* makes clients or servers act.
Fairness == \A s \in Sessions : WF_vars(Continue(s)) /\ SF_vars(Wakeup(s))

Spec == Init /\ [][Next]_vars /\ Fairness

-----------------------------------------------------------------------------
\* Every counter equals what it counts, whatever server was the session's
\* target when the counter was incremented and whatever it is when the
\* counter is decremented: served the slots held, cur_sess the connections,
\* nbpend the length of the list, and a session is in the list its pend_pos
\* says (queue.c counts by p->srv and links by SN_ASSIGNED).
Accounting ==
    /\ \A v \in Servers :
         /\ q.served[v] = Cardinality({s \in Sessions : q.slot[s] = v})
         /\ q.curSess[v] = Cardinality({s \in Sessions : q.cur[s] /\ q.target[s] = v})
    /\ \A x \in Queues :
         /\ q.nbpend[x] = Len(q.queue[x])
         /\ Range(q.queue[x]) = {s \in Sessions : q.psrv[s] = x}
         /\ IsInjective(q.queue[x])
    /\ q.beconn = Cardinality({s \in Sessions : st[s] # "INI"})

\* A server never has more than maxconn connections open, and each of them
\* holds a slot of the server it goes to, through retries, redispatches and
\* slots handed from one session to the next.
MaxConnRespected ==
    /\ \A v \in Servers : q.served[v] <= MaxConn[v]
    /\ \A s \in Sessions :
         st[s] \in {"ASS", "CON", "EST"} => q.slot[s] # None /\ q.slot[s] = q.target[s]

\* A session waits in at most one place, and never for nothing: when it is in
\* SI_ST_QUE and no longer queued its task has been woken; it holds a slot
\* while queued in no case.
NoLostWakeup ==
    \A s \in Sessions :
        /\ st[s] = "QUE" => q.psrv[s] # None \/ s \in q.woken
        /\ q.psrv[s] # None => q.slot[s] = None /\ st[s] \in {"QUE", "DIS", "CLO"}

\* Every request for a server comes to an end: connected, or closed with an
\* error, however retries, queues, redispatches and the servers' changes of
\* state are interleaved.
RequestsConclude ==
    \A s \in Sessions :
        st[s] \in {"REQ", "QUE", "ASS", "TAR", "CON"} ~> st[s] \in {"EST", "CLO", "INI"}

-----------------------------------------------------------------------------
(* What the proofs need besides: which of a session's fields go together,  *)
(* and in which states of its call.                                        *)

States == {"INI", "REQ", "QUE", "TAR", "ASS", "CON", "EST", "DIS", "CLO"}

Ledgers ==
    [ queue : [Queues -> Seq(Sessions)], nbpend : [Queues -> Int],
      served : [Servers -> Int], curSess : [Servers -> Int],
      slot : [Sessions -> Servers \cup {None}], target : [Sessions -> Servers \cup {None}],
      assigned : [Sessions -> BOOLEAN], psrv : [Sessions -> Queues \cup {None}],
      cur : [Sessions -> BOOLEAN], woken : SUBSET Sessions, beconn : Int ]

\* A slot is one of the assigned target; whoever is queued has none, and is in the
\* queue of the server it is assigned to or else in the backend's.
Coherent(b, s) ==
    /\ b.slot[s] # None => b.assigned[s] /\ b.target[s] = b.slot[s]
    /\ b.psrv[s] # None => /\ b.slot[s] = None /\ ~b.cur[s]
                           /\ b.assigned[s] <=> b.psrv[s] \in Servers
    /\ b.cur[s] => b.target[s] \in Servers

Holders(b, v) == {s \in Sessions : b.slot[s] = v}
Connected(b, v) == {s \in Sessions : b.cur[s] /\ b.target[s] = v}

Booked(b) ==
    /\ b \in Ledgers
    /\ \A s \in Sessions : Coherent(b, s)
    /\ \A v \in Servers : /\ b.served[v] = Cardinality(Holders(b, v))
                          /\ b.served[v] <= MaxConn[v]
                          /\ b.curSess[v] = Cardinality(Connected(b, v))
    /\ \A x \in Queues : /\ b.nbpend[x] = Len(b.queue[x]) /\ IsInjective(b.queue[x])
                         /\ Range(b.queue[x]) = {s \in Sessions : b.psrv[s] = x}

\* What the state of a session says of its fields.
Fits(b, s, state) ==
    /\ state \in States
    /\ state \in {"ASS", "CON", "EST"} => b.slot[s] # None
    /\ state = "QUE" => b.psrv[s] # None \/ s \in b.woken
    /\ state \in {"QUE", "TAR"} /\ b.psrv[s] = None /\ b.assigned[s] => b.slot[s] # None
    /\ state = "REQ" /\ b.assigned[s] => b.target[s] \in Servers
    /\ b.psrv[s] # None => state \in {"QUE", "DIS", "CLO"}
    /\ b.cur[s] => state \in {"CON", "EST", "DIS"}
    /\ state = "INI" => b.slot[s] = None

QueueInv ==
    /\ Booked(q) /\ st \in [Sessions -> States] /\ up \subseteq Servers
    /\ \A s \in Sessions : Fits(q, s, st[s])
    /\ q.beconn = Cardinality({s \in Sessions : st[s] # "INI"})
=============================================================================
