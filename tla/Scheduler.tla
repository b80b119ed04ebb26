----------------------------- MODULE Scheduler -----------------------------
(***************************************************************************)
(* HAProxy's event loop and its tasks (run_poll_loop() of haproxy.c,       *)
(* task.c, task.h, ticks.h, the clock of time.c, the waiting time of       *)
(* ev_epoll.c).  A task is in the wait queue, in the run queue, in both,   *)
(* in none, or running.  Both queues are trees sorted by an unsigned key:  *)
(* the wait queue by a date that may lie before the task's expiration, the *)
(* run queue by an insertion counter plus an offset for the task's nice    *)
(* value.  Dates and counters wrap; 0 stands for a date that is not set.   *)
(*                                                                         *)
(* A queue is a sequence in the order of its tree: by key, and by age      *)
(* among equal keys.  The keys of tasks outside a queue are not read; they *)
(* are kept at 0.  The loop's functions are split where they loop: pc      *)
(* tells which one is under way, eb is its local pointer into the queue it *)
(* walks.  What a task does when it runs, and what the I/O callbacks do,   *)
(* is any sequence of calls the rest of HAProxy makes to task.h.           *)
(***************************************************************************)
EXTENDS Integers, Sequences, FiniteSets, SequencesExt

CONSTANTS
    Sessions,       \* the tasks sessions may have at one time
    Services,       \* the tasks that are always there: checks, tables, listeners, peers
    None,           \* a NULL pointer
    TickRange,      \* how many values a date has: 2^32
    KeyRange,       \* how many values the insertion counter has: 2^32
    MaxDelay,       \* MAX_DELAY_MS
    MaxProcessed,   \* the tasks run per loop: 200
    Timeouts,       \* the delays tasks ask for
    Nices,          \* the nice values of listeners
    RuleNices,      \* the nice values of set-nice rules
    KillNice,       \* the nice value of a session being shut down: 1024
    MaxCalls,       \* bound: the calls of one process() or of one round of I/O
    MaxRenices,     \* bound: how many times a nice value changes
    MaxLesson       \* bound: how far a lesson leaves resync_timeout behind

ASSUME SchedulerAssumption ==
    /\ None \notin Sessions \cup Services
    /\ Sessions \cap Services = {}
    /\ TickRange \in Nat \ {0} /\ TickRange % 2 = 0
    /\ KeyRange \in Nat \ {0} /\ KeyRange % 2 = 0
    /\ MaxDelay \in Nat \ {0} /\ MaxProcessed \in Nat \ {0}
    /\ Timeouts \subseteq 1..(TickRange \div 2 - 1)
    /\ Nices \subseteq Int /\ RuleNices \subseteq Int /\ KillNice \in Int
    /\ MaxCalls \in Nat /\ MaxRenices \in Nat /\ MaxLesson \in Nat

VARIABLES
    syncs,      \* the permanent tasks that synchronise a peers section
    alive,      \* the tasks that are allocated
    mini,       \* those of embryonic sessions: the handshake is not over
    expire,     \* task -> expire
    nice,       \* task -> nice
    timer,      \* the tasks about to run, or running, that a timer woke up
    timers,     \* the wait queue
    wqkey,      \* task -> wq.key
    rqueue,     \* the run queue; its length is run_queue
    rqkey,      \* task -> rq.key
    ticks,      \* rqueue_ticks
    niced,      \* niced_tasks
    now,        \* now_ms
    pc,         \* what run_poll_loop() is doing
    eb,         \* the node the current walk visits next, or None
    next,       \* the date of the next event
    left,       \* max_processed
    cur,        \* the task that is running, or None
    calls,      \* the calls made by this process() or this round of I/O
    renices,    \* how many times a nice value changed
    remain,     \* history: task -> ticks until its expiration, unwrapped
    ahead,      \* history: task -> rq.key - rqueue_ticks, unwrapped
    unseen      \* history: the tasks whose date this round of the loop missed

waitq == <<timers, wqkey>>
runq == <<rqueue, rqkey, ticks, niced, timer, ahead>>
loop == <<pc, eb, next, left, cur>>
bounds == <<calls, renices>>
dates == <<expire, remain>>
life == <<alive, mini>>
vars == <<syncs, life, nice, bounds, now, dates, waitq, runq, loop, unseen>>

Tasks == Sessions \cup Services

Eternity == 0

----------------------------------------------------------------------------
(* Dates (ticks.h): int differences, so the sign tells past from future.   *)

Signed(x, range) ==
    LET m == x % range IN IF m < range \div 2 THEN m ELSE m - range

TickIsLt(t1, t2) == Signed(t1 - t2, TickRange) < 0

TickIsExpired(t, date) == t # Eternity /\ Signed(t - date, TickRange) <= 0

TickAdd(date, timeout) ==
    LET sum == (date + timeout) % TickRange IN IF sum = 0 THEN 1 ELSE sum

TickFirst(t1, t2) ==
    IF t1 = Eternity THEN t2
    ELSE IF t2 = Eternity \/ Signed(t1 - t2, TickRange) <= 0 THEN t1 ELSE t2

TickRemain(date, t) ==
    IF TickIsExpired(t, date) THEN 0 ELSE Signed(t - date, TickRange)

----------------------------------------------------------------------------
(* The trees (ebtree).                                                     *)

(* eb32_insert(): after every node whose key is not larger. *)
Insert(tree, key, t, k) ==
    LET before == Cardinality({i \in 1..Len(tree) : key[tree[i]] <= k})
    IN  InsertAt(tree, before + 1, t)

First(tree) == IF tree = <<>> THEN None ELSE tree[1]

(* eb32_lookup_ge(): the first node whose key is not smaller. *)
LookupGe(tree, key, k) ==
    LET i == SelectInSeq(tree, LAMBDA t : key[t] >= k)
    IN  IF i = 0 THEN None ELSE tree[i]

(* eb32_next() *)
Successor(tree, t) ==
    LET i == SelectInSeq(tree, LAMBDA u : u = t)
    IN  IF i = Len(tree) THEN None ELSE tree[i + 1]

InWq(t) == t \in ToSet(timers)
InRq(t) == t \in ToSet(rqueue)

----------------------------------------------------------------------------
(* task.h and task.c                                                       *)

(* The new expiration of a task, and how far away it really is. *)
SetExpire(t, date, delay) ==
    /\ expire' = [expire EXCEPT ![t] = date]
    /\ remain' = [remain EXCEPT ![t] = delay]

Delay(timeout) == IF (now + timeout) % TickRange = 0 THEN timeout + 1 ELSE timeout

(* __task_queue() *)
Requeue(t, date) ==
    /\ timers' = Insert(RemoveFirst(timers, t), wqkey, t, date)
    /\ wqkey' = [wqkey EXCEPT ![t] = date]

MutantPlainCompare(t, date) ==
    IF date # Eternity /\ (~InWq(t) \/ date < wqkey[t])
    THEN Requeue(t, date)
    ELSE UNCHANGED waitq

(* task_queue(), with the expiration the task is given. *)
TaskQueue(t, date) ==
    IF date # Eternity /\ (~InWq(t) \/ TickIsLt(date, wqkey[t]))
    THEN Requeue(t, date)
    ELSE UNCHANGED waitq

UnlinkWq(t) ==
    /\ timers' = RemoveFirst(timers, t)
    /\ wqkey' = [wqkey EXCEPT ![t] = 0]

(* The place nice gives in the run queue: +nice or -nice 32ths of its size. *)
Offset(n, size) ==
    IF n > 0 THEN (size * n) \div 32 ELSE -((size * (-n)) \div 32)

(* task_wakeup(), with the nice value the task has. *)
TaskWakeup(t, n, byTimer) ==
    /\ timer' = IF byTimer THEN timer \cup {t} ELSE timer
    /\ IF InRq(t)
       THEN UNCHANGED <<rqueue, rqkey, ticks, niced, ahead>>
       ELSE LET tick == (ticks + 1) % KeyRange
                offset == Offset(n, Len(rqueue) + 1)
                key == (tick + offset) % KeyRange
            IN  /\ rqueue' = Insert(rqueue, rqkey, t, key)
                /\ rqkey' = [rqkey EXCEPT ![t] = key]
                /\ ticks' = tick
                /\ niced' = IF n # 0 THEN (niced + 1) % KeyRange ELSE niced
                /\ ahead' = [u \in Tasks |-> IF u = t THEN offset
                                             ELSE IF InRq(u) THEN ahead[u] - 1 ELSE 0]

(* __task_unlink_rq() *)
UnlinkRq(t) ==
    /\ rqueue' = RemoveFirst(rqueue, t)
    /\ rqkey' = [rqkey EXCEPT ![t] = 0]
    /\ ahead' = [ahead EXCEPT ![t] = 0]
    /\ niced' = IF nice[t] # 0 THEN (niced - 1) % KeyRange ELSE niced
    /\ UNCHANGED ticks

(* task_delete() and task_free() *)
TaskDelete(t) ==
    /\ alive' = alive \ {t} /\ mini' = mini \ {t}
    /\ UnlinkWq(t)
    /\ IF InRq(t) THEN UnlinkRq(t) ELSE UNCHANGED <<rqueue, rqkey, niced, ticks, ahead>>
    /\ timer' = timer \ {t}
    /\ nice' = [nice EXCEPT ![t] = 0]
    /\ SetExpire(t, Eternity, 0)

----------------------------------------------------------------------------
Init ==
    /\ syncs \in SUBSET Services
    /\ alive = Services /\ mini = {} /\ timer = {}
    /\ expire = [t \in Tasks |-> Eternity]
    /\ remain = [t \in Tasks |-> 0]
    /\ nice = [t \in Tasks |-> 0]
    /\ timers = <<>> /\ wqkey = [t \in Tasks |-> 0]
    /\ rqueue = <<>> /\ rqkey = [t \in Tasks |-> 0]
    /\ ticks = 0 /\ niced = 0 /\ calls = 0 /\ renices = 0
    /\ ahead = [t \in Tasks |-> 0]
    /\ now = 0
    /\ pc = "io" /\ eb = None /\ next = Eternity /\ left = 0 /\ cur = None
    /\ unseen = {}

----------------------------------------------------------------------------
(* wake_expired_tasks()                                                    *)

MutantNoLookBack ==
    /\ pc = "io"
    /\ pc' = "wake"
    /\ eb' = LookupGe(timers, wqkey, now)
    /\ calls' = 0
    /\ UNCHANGED <<life, nice, renices, now, dates, waitq, runq, next, left, cur,
                   unseen>>

(* The loop calls it once the I/O callbacks have returned. *)
WakeExpiredTasks ==
    /\ pc = "io"
    /\ pc' = "wake"
    /\ eb' = LookupGe(timers, wqkey, (now - TickRange \div 2) % TickRange)
    /\ calls' = 0
    /\ UNCHANGED <<life, nice, renices, now, dates, waitq, runq, next, left, cur,
                   unseen>>

(* The walk ends at a timer that has not expired, or at an empty queue. *)
WakeEnds ==
    LET node == IF eb = None THEN First(timers) ELSE eb
    IN  /\ pc = "wake"
        /\ node # None => TickIsLt(now, wqkey[node])
        /\ next' = IF node = None THEN Eternity ELSE wqkey[node]
        /\ pc' = "runnable" /\ eb' = None
        /\ UNCHANGED <<life, nice, bounds, now, dates, waitq, runq, left, cur,
                       unseen>>

MutantNoAdjust ==
    LET t == IF eb = None THEN First(timers) ELSE eb
    IN  /\ pc = "wake"
        /\ t # None
        /\ ~TickIsLt(now, wqkey[t])
        /\ eb' = Successor(timers, t)
        /\ IF TickIsExpired(expire[t], now)
           THEN UnlinkWq(t) /\ TaskWakeup(t, nice[t], TRUE)
           ELSE /\ IF expire[t] = Eternity THEN UnlinkWq(t)
                   ELSE Requeue(t, expire[t])
                /\ UNCHANGED runq
        /\ UNCHANGED <<life, nice, bounds, now, dates, pc, next, left, cur, unseen>>

(* A key that has passed: the task expires, moves to its real date, or *)
(* leaves the queue. *)
WakeStep ==
    LET t == IF eb = None THEN First(timers) ELSE eb
        following == Successor(timers, t)
    IN  /\ pc = "wake"
        /\ t # None
        /\ ~TickIsLt(now, wqkey[t])
        /\ \/ /\ TickIsExpired(expire[t], now)
              /\ UnlinkWq(t)
              /\ TaskWakeup(t, nice[t], TRUE)
              /\ eb' = following
              /\ UNCHANGED unseen
           \/ /\ expire[t] = Eternity
              /\ UnlinkWq(t)
              /\ eb' = following
              /\ UNCHANGED <<runq, unseen>>
           \/ /\ expire[t] # Eternity /\ ~TickIsExpired(expire[t], now)
              /\ Requeue(t, expire[t])
              /\ eb' = IF following = None \/ wqkey[following] > expire[t]
                       THEN t ELSE following
              /\ unseen' = IF expire[t] < wqkey[t] THEN alive ELSE unseen
              /\ UNCHANGED runq
        /\ UNCHANGED <<life, nice, bounds, now, dates, pc, next, left, cur>>

----------------------------------------------------------------------------
(* process_runnable_tasks()                                                *)

MutantFromFirst ==
    /\ pc = "runnable"
    /\ left' = IF niced # 0 THEN (Len(rqueue) + 3) \div 4 ELSE Len(rqueue)
    /\ pc' = IF rqueue = <<>> THEN "poll" ELSE "run"
    /\ eb' = First(rqueue)
    /\ UNCHANGED <<life, nice, bounds, now, dates, waitq, runq, next, cur, unseen>>

ProcessRunnableTasks ==
    LET most == IF Len(rqueue) > MaxProcessed THEN MaxProcessed ELSE Len(rqueue)
    IN  /\ pc = "runnable"
        /\ left' = IF niced # 0 THEN (most + 3) \div 4 ELSE most
        /\ IF rqueue = <<>>
           THEN pc' = "poll" /\ eb' = None
           ELSE /\ pc' = "run"
                /\ eb' = LookupGe(rqueue, rqkey, (ticks - KeyRange \div 2) % KeyRange)
        /\ UNCHANGED <<life, nice, bounds, now, dates, waitq, runq, next, cur, unseen>>

RunEnds ==
    /\ pc = "run"
    /\ left = 0 \/ rqueue = <<>>
    /\ pc' = "poll" /\ eb' = None /\ left' = 0
    /\ UNCHANGED <<life, nice, bounds, now, dates, waitq, runq, next, cur, unseen>>

RunStep ==
    LET t == IF eb = None THEN First(rqueue) ELSE eb
    IN  /\ pc = "run"
        /\ left > 0 /\ rqueue # <<>>
        /\ cur' = t
        /\ eb' = Successor(rqueue, t)
        /\ UnlinkRq(t)
        /\ left' = left - 1
        /\ pc' = "process"
        /\ UNCHANGED <<life, nice, bounds, now, dates, waitq, timer, next, unseen>>

(* process() returned the task, whose expiration is now date. *)
Requeued(date) ==
    /\ TaskQueue(cur, date)
    /\ next' = IF date # Eternity THEN TickFirst(next, date) ELSE next
    /\ eb' = IF InRq(cur) /\ (eb = None \/ Signed(rqkey[cur] - rqkey[eb], KeyRange) < 0)
             THEN LookupGe(rqueue, rqkey, (ticks - KeyRange \div 2) % KeyRange)
             ELSE eb
    /\ pc' = "run" /\ cur' = None /\ calls' = 0
    /\ timer' = timer \ {cur}
    /\ UNCHANGED <<life, nice, renices, now, rqueue, rqkey, ticks, niced, ahead,
                   left, unseen>>

(* While a lesson is assigned, the task of process_peer_sync() expires at  *)
(* resync_timeout even when that has passed: at the date it had, or at a   *)
(* later one.  MaxLesson bounds how long a teacher is waited for.          *)
ReturnLearning ==
    \E late \in 0..MaxLesson :
        /\ cur \in syncs /\ expire[cur] # Eternity /\ remain[cur] <= -late
        /\ (now - late) % TickRange # Eternity
        /\ SetExpire(cur, (now - late) % TickRange, -late)
        /\ Requeued((now - late) % TickRange)

(* The task chose its next expiration: the one it had, if no timer woke it *)
(* (all expire_mini_session() does then), none, or a new one; or it has    *)
(* passed, and a lesson is assigned.                                       *)
Return ==
    /\ pc = "process"
    /\ \/ /\ cur \notin timer \/ (cur \notin mini /\ ~TickIsExpired(expire[cur], now))
          /\ Requeued(expire[cur])
          /\ UNCHANGED dates
       \/ /\ cur \notin mini
          /\ SetExpire(cur, Eternity, 0)
          /\ Requeued(Eternity)
       \/ \E d \in Timeouts :
             /\ cur \notin mini
             /\ SetExpire(cur, TickAdd(now, d), Delay(d))
             /\ Requeued(TickAdd(now, d))
       \/ ReturnLearning

(* The session ended, or its handshake was too long: process() deleted the *)
(* task and returned NULL.                                                *)
ReturnNull ==
    /\ pc = "process" /\ cur \in Sessions
    /\ cur \in mini => cur \in timer
    /\ TaskDelete(cur)
    /\ pc' = "run" /\ cur' = None /\ calls' = 0
    /\ UNCHANGED <<renices, now, eb, next, left, unseen>>

----------------------------------------------------------------------------
(* What the running task and the I/O callbacks do to tasks.                *)

Call(where) ==
    /\ pc \in where
    /\ calls < MaxCalls
    /\ calls' = calls + 1

(* A running task gives another one a date the loop's next does not know. *)
Unseen(t) == unseen' = IF pc = "process" THEN unseen \cup {t} ELSE unseen

Renice(t, n) ==
    /\ renices < MaxRenices
    /\ renices' = renices + 1
    /\ nice' = [nice EXCEPT ![t] = n]

(* task_wakeup() of another task, or by a task of itself. *)
Wakeup(t) ==
    /\ Call({"process", "io"}) /\ t \in alive \ mini /\ ~InRq(t)
    /\ TaskWakeup(t, nice[t], FALSE)
    /\ UNCHANGED <<life, nice, renices, now, dates, waitq, loop, unseen>>

(* task_schedule(): at the latest at a date, unless the task is about to run. *)
TaskSchedule(t) ==
    /\ Call({"process", "io"}) /\ t \in Services \ (syncs \cup {cur}) /\ ~InRq(t)
    /\ \E d \in Timeouts :
          LET when == IF InWq(t) THEN TickFirst(TickAdd(now, d), expire[t])
                      ELSE TickAdd(now, d)
          IN  /\ SetExpire(t, when,
                           IF when = TickAdd(now, d) THEN Delay(d) ELSE remain[t])
              /\ TaskQueue(t, when)
    /\ Unseen(t)
    /\ UNCHANGED <<life, nice, renices, now, runq, loop>>

(* A callback moves the expiration of a task, earlier or later. *)
Postpone(t) ==
    /\ Call({"process", "io"}) /\ t \in Services \ (syncs \cup {cur})
    /\ \E d \in Timeouts :
          /\ SetExpire(t, TickAdd(now, d), Delay(d))
          /\ TaskQueue(t, TickAdd(now, d))
    /\ Unseen(t)
    /\ UNCHANGED <<life, nice, renices, now, runq, loop>>

MutantShutdownNow(t) ==
    /\ Call({"process"}) /\ t \in (alive \cap Sessions) \ (mini \cup {cur})
    /\ TaskDelete(t)
    /\ UNCHANGED <<renices, now, loop, unseen>>

(* session_shutdown() *)
SessionShutdown(t) ==
    /\ Call({"process"}) /\ t \in (alive \cap Sessions) \ mini
    /\ Renice(t, KillNice)
    /\ TaskWakeup(t, KillNice, FALSE)
    /\ UNCHANGED <<life, now, dates, waitq, loop, unseen>>

(* A session whose request matches a set-nice rule. *)
SetNice ==
    /\ Call({"process"}) /\ cur \in Sessions \ mini
    /\ \E n \in RuleNices : Renice(cur, n)
    /\ UNCHANGED <<life, now, dates, waitq, runq, loop, unseen>>

(* session_accept(): the task of a connection in its handshake waits for *)
(* its timeout, any other one runs at once. *)
SessionAccept(t) ==
    /\ Call({"io"})
    /\ t \in Sessions \ alive
    /\ alive' = alive \cup {t}
    /\ \E n \in Nices :
          /\ nice' = [nice EXCEPT ![t] = n]
          /\ \/ /\ mini' = mini \cup {t}
                /\ \E d \in Timeouts :
                      /\ SetExpire(t, TickAdd(now, d), Delay(d))
                      /\ TaskQueue(t, TickAdd(now, d))
                /\ UNCHANGED runq
             \/ /\ TaskWakeup(t, n, FALSE)
                /\ UNCHANGED <<mini, dates, waitq>>
    /\ UNCHANGED <<renices, now, loop, unseen>>

(* conn_session_complete(): the handshake succeeded, perhaps while the task *)
(* waits to run for its timeout.                                           *)
SessionComplete(t) ==
    /\ Call({"io"})
    /\ t \in mini
    /\ mini' = mini \ {t}
    /\ SetExpire(t, Eternity, 0)
    /\ TaskWakeup(t, nice[t], FALSE)
    /\ UNCHANGED <<alive, nice, renices, now, waitq, loop, unseen>>

(* kill_mini_session(): the handshake failed. *)
KillMiniSession(t) ==
    /\ Call({"io"})
    /\ t \in mini
    /\ TaskDelete(t)
    /\ UNCHANGED <<renices, now, loop, unseen>>

----------------------------------------------------------------------------
(* The poller and the clock.                                               *)

(* How long epoll_wait() may wait. *)
WaitTime(busy) ==
    IF busy \/ rqueue # <<>> THEN 0
    ELSE IF next = Eternity THEN MaxDelay
    ELSE IF TickIsExpired(next, now) THEN 0
    ELSE LET wait == TickRemain(now, next) + 1
         IN  IF wait > MaxDelay THEN MaxDelay ELSE wait

(* tv_update_date(): how far now_ms moves when the system clock seems to *)
(* have moved by seen: a jump is corrected. *)
Advance(wait, interrupted, seen) ==
    IF seen \in 0..(wait + MaxDelay - 1) THEN seen
    ELSE IF interrupted THEN 0 ELSE wait

Poll ==
    /\ pc = "poll"
    /\ \E busy, interrupted \in BOOLEAN :
         \E seen \in -1..(WaitTime(busy) + MaxDelay) :
           LET by == Advance(WaitTime(busy), interrupted, seen)
           IN  /\ now' = (now + by) % TickRange
               /\ remain' = [t \in Tasks |-> IF expire[t] = Eternity THEN 0
                                             ELSE remain[t] - by]
    /\ pc' = "io"
    /\ next' = Eternity /\ unseen' = {}
    /\ UNCHANGED <<life, nice, bounds, expire, waitq, runq, eb, left, cur>>

Next ==
    /\ UNCHANGED syncs
    /\ \/ WakeExpiredTasks \/ WakeStep \/ WakeEnds
       \/ ProcessRunnableTasks \/ RunStep \/ RunEnds
       \/ Return \/ ReturnNull \/ SetNice
       \/ \E t \in Tasks : \/ Wakeup(t) \/ TaskSchedule(t) \/ Postpone(t)
                           \/ SessionShutdown(t) \/ SessionAccept(t)
                           \/ SessionComplete(t) \/ KillMiniSession(t)
       \/ Poll

Spec == Init /\ [][Next]_vars

----------------------------------------------------------------------------
(* Dates wrap, yet the sign of a difference tells how far away every      *)
(* expiration is: none is ever so far in the past, however late its task, *)
(* that it seems to lie in the future (ticks.h).                          *)
TicksTellTime ==
    \A t \in alive : expire[t] # Eternity =>
        Signed(expire[t] - now, TickRange) = remain[t]

(* A task that waits for a date is never forgotten: unless it is about to *)
(* run, it is in the wait queue, no later than its expiration (task.h).   *)
TimersCovered ==
    \A t \in alive \ {cur} : expire[t] # Eternity /\ ~InRq(t) =>
        InWq(t) /\ ~TickIsLt(expire[t], wqkey[t])

(* The poller is told to come back no later than the first expiration,    *)
(* though the wait queue holds stale dates and its walk stops at the first *)
(* timer that is not due.  The dates one round may miss: those a running   *)
(* task gave another one after the walk, and all those the walk did not    *)
(* reach because it moved a task beyond the wrap and stopped there.        *)
PollsInTime ==
    pc = "poll" =>
        \A t \in alive \ unseen : expire[t] # Eternity /\ ~InRq(t) =>
            /\ next # Eternity
            /\ TickIsExpired(next, now) \/ ~TickIsLt(expire[t], next)

(* The pointer a walk keeps while tasks run stays in the queue it walks,  *)
(* whatever the tasks do to themselves and to others.                     *)
CursorInQueue ==
    /\ pc = "wake" => eb = None \/ InWq(eb)
    /\ pc \in {"run", "process"} => eb = None \/ InRq(eb)

(* The insertion counter wraps, yet the sign of a difference to it tells  *)
(* where every runnable task stands: however the others are niced and     *)
(* woken up, no task waits so long that it seems to have come last.       *)
KeysTellOrder ==
    \A t \in alive : InRq(t) =>
        Signed(rqkey[t] - ticks, KeyRange) = ahead[t]

----------------------------------------------------------------------------
(* What the proofs need besides: a task is at most once in a queue, dates  *)
(* and keys keep their width, and the running task is none that the walk   *)
(* visits next, even when it is runnable again.                            *)

TypeOK ==
    /\ syncs \subseteq Services /\ Services \subseteq alive /\ alive \subseteq Tasks
    /\ mini \subseteq alive \cap Sessions /\ timer \subseteq Tasks
    /\ expire \in [Tasks -> 0..(TickRange - 1)] /\ wqkey \in [Tasks -> 0..(TickRange - 1)]
    /\ rqkey \in [Tasks -> 0..(KeyRange - 1)] /\ nice \in [Tasks -> Int]
    /\ remain \in [Tasks -> Int] /\ ahead \in [Tasks -> Int]
    /\ timers \in Seq(Tasks) /\ rqueue \in Seq(Tasks)
    /\ ticks \in 0..(KeyRange - 1) /\ niced \in 0..(KeyRange - 1)
    /\ now \in 0..(TickRange - 1) /\ next \in 0..(TickRange - 1)
    /\ pc \in {"io", "wake", "runnable", "run", "process", "poll"}
    /\ eb \in Tasks \cup {None} /\ cur \in Tasks \cup {None} /\ left \in Nat
    /\ calls \in 0..MaxCalls /\ renices \in 0..MaxRenices
    /\ unseen \subseteq Tasks

QueuesInjective == IsInjective(timers) /\ IsInjective(rqueue)

RunningTask == IF pc = "process" THEN cur \in alive /\ eb # cur ELSE cur = None

SchedulerInv ==
    /\ TypeOK /\ QueuesInjective /\ RunningTask
    /\ ToSet(timers) \subseteq alive /\ ToSet(rqueue) \subseteq alive
    /\ TimersCovered /\ CursorInQueue
============================================================================
