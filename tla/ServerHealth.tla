---------------------------- MODULE ServerHealth ----------------------------
(***************************************************************************)
(* The life of HAProxy's servers: health checks and agent checks           *)
(* (checks.c), operational and administrative states, tracking and slow    *)
(* start (server.c), the commands of the stats socket and page             *)
(* (dumpstats.c) and what the round robin keeps of all that (lb_fwrr.c).   *)
(*                                                                         *)
(* A check is started by its task, answered in an I/O callback that only   *)
(* moves check->health and check->result, and concluded when the task runs *)
(* again; commands, other checks and analysed traffic come between.  The   *)
(* queues a change of state moves are those of SessionQueue.               *)
(*                                                                         *)
(* A server is a record.  state and admin are its two statuses; health,    *)
(* en (CHK_ST_ENABLED), paused (CHK_ST_PAUSED) and res belong to its check *)
(* (res: "idle" when none is in progress, otherwise check->result), agent, *)
(* aen and ares to its agent check; errs is consecutive_errors, uw and ew  *)
(* the user and effective weights, since the time since last_change while  *)
(* it matters, armed the warmup task.  prev is the weight it had when it   *)
(* was last committed as usable (0: srv_was_usable() is false) and tree    *)
(* tells whether the round robin has it queued.                            *)
(***************************************************************************)
EXTENDS Integers, Sequences, FiniteSets, SequencesExt

CONSTANTS
    Backends,       \* the backends
    SrvList,        \* backend -> its servers, in the order of the file
    Resolution,     \* all the servers, in the order their "track" is resolved
    TopDown,        \* all the servers, each one after the one it tracks
    Track,          \* server -> the server it tracks, or None
    None,           \* a NULL pointer
    Checked,        \* the servers with a health check
    Agents,         \* the servers with an agent check
    Backups,        \* the backup servers
    SlowStarters,   \* the servers with a slowstart
    Slow,           \* the length of a slow start
    WDiv,           \* lbprm.wdiv, the scale of effective weights
    Rise, Fall,     \* the thresholds of the health checks
    ErrLimit,       \* error-limit of observed servers, 0 for no observation
    OnError,        \* on-error
    CheckResults,   \* what a check may answer
    Operated,       \* bound: the servers the operator acts upon
    Orders,         \* bound: the commands the operator uses
    Weights,        \* bound: the weights an operator or an agent sets
    MayBeDisabled   \* the servers whose line may say "disabled"

Servers == Range(Resolution)
Be(s) == CHOOSE p \in Backends : s \in Range(SrvList[p])
Pos(s) == CHOOSE i \in DOMAIN SrvList[Be(s)] : SrvList[Be(s)][i] = s

ASSUME HealthAssumption ==
    /\ Resolution \in Seq(Servers) /\ IsInjective(Resolution)
    /\ None \notin Servers \cup {"up", "down"}
    /\ Track \in [Servers -> Servers \cup {None}]
    /\ Checked \cup Agents \cup Backups \subseteq Servers
    /\ SlowStarters \cup Operated \cup MayBeDisabled \subseteq Servers
    /\ \A s \in Checked : Track[s] = None
    /\ {Slow, WDiv, Rise, Fall} \subseteq Nat \ {0} /\ ErrLimit \in Nat
    /\ OnError \in {"fastinter", "sudden-death", "fail-check", "mark-down"}
    /\ CheckResults \subseteq {"failed", "passed", "cond"}
    /\ Weights \subseteq Nat /\ 1 \in Weights

\* Every server belongs to one backend, and once.
ASSUME BackendsAssumption ==
    /\ SrvList \in [Backends -> Seq(Servers)]
    /\ \A p \in Backends : IsInjective(SrvList[p])
    /\ \A s \in Servers : \E p \in Backends :
         s \in Range(SrvList[p]) /\ \A q \in Backends \ {p} : s \notin Range(SrvList[q])

\* Chains do not loop (cfgparse.c 6690; that test lets a server track itself,
\* which is left out).  Their servers may be resolved in any order.
ASSUME TrackingAssumption ==
    /\ TopDown \in Seq(Servers) /\ IsInjective(TopDown) /\ Range(TopDown) = Servers
    /\ \A i, j \in DOMAIN TopDown : Track[TopDown[i]] = TopDown[j] => j < i

VARIABLES
    sv,         \* server -> its record
    px,         \* backend -> what its balancer keeps
    stable      \* the applications answer and nobody gives orders any more

vars == <<sv, px, stable>>

MAINT == {"FMAINT", "IMAINT"}
DRAIN == {"FDRAIN", "IDRAIN"}
Kind(f) == IF f \in MAINT THEN MAINT ELSE DRAIN
Top == Rise + Fall - 1

-----------------------------------------------------------------------------
(* The balancer's view.  b is [sv |-> ..., px |-> ...], f the servers' records. *)

InMaint(r) == r.admin \cap MAINT # {}
SrvIsUsable(r) == r.ew > 0 /\ r.admin = {} /\ r.state \in {"STARTING", "RUNNING"}

\* What a server counts for: its effective weight while it is usable.
Load(r) == IF SrvIsUsable(r) THEN r.ew ELSE 0

\* b once s has the record r.
Put(b, s, r) == [b EXCEPT !.sv = [@ EXCEPT ![s] = r]]

\* The first usable backup server of p after position i.
NextBackup(f, p, i) ==
    LET c == {j \in DOMAIN SrvList[p] :
                j > i /\ SrvList[p][j] \in Backups /\ Load(f[SrvList[p][j]]) > 0}
    IN  IF c = {} THEN None ELSE SrvList[p][CHOOSE j \in c : \A k \in c : j <= k]

\* Which servers are used: the active ones, else the first backup one.
UpdateBackendWeight(k, f) ==
    [k EXCEPT !.tot = IF k.act > 0 THEN k.wact
                      ELSE IF k.fbck # None THEN f[k.fbck].ew ELSE k.wbck]

\* s is committed with the balancer's record k of its backend.
SrvLbCommitStatus(b, s, tree, k) ==
    [ sv |-> [b.sv EXCEPT ![s] = [@ EXCEPT !.prev = Load(b.sv[s]), !.tree = tree]],
      px |-> [b.px EXCEPT ![Be(s)] = k] ]

\* n servers and the weight w come or go on the side of s; first is the first
\* backup server if s is one.
Count(k, s, n, w, first) ==
    IF s \in Backups THEN [k EXCEPT !.bck = @ + n, !.wbck = @ + w, !.fbck = first]
    ELSE [k EXCEPT !.act = @ + n, !.wact = @ + w]

SetServerStatusDown(b, s) ==
    LET p     == Be(s)
        r     == b.sv[s]
        k     == b.px[p]
        first == IF k.fbck = s THEN NextBackup(b.sv, p, Pos(s)) ELSE k.fbck
        gone  == IF r.prev = 0 THEN k ELSE Count(k, s, -1, -r.prev, first)
        left  == UpdateBackendWeight(gone, b.sv)
    IN  IF SrvIsUsable(r) THEN SrvLbCommitStatus(b, s, r.tree, k)
        ELSE SrvLbCommitStatus(b, s, r.tree /\ r.prev = 0, left)

\* Mutant: a backup server that comes back never becomes the first one again.
MutantKeepFirstBackup(b, s) ==
    LET r     == b.sv[s]
        k     == b.px[Be(s)]
        first == IF k.fbck = None THEN s ELSE k.fbck
        on    == IF r.prev > 0 THEN k ELSE Count(k, s, 1, r.ew, first)
    IN  IF ~SrvIsUsable(r) THEN SrvLbCommitStatus(b, s, r.tree, k)
        ELSE SrvLbCommitStatus(b, s, TRUE, UpdateBackendWeight(on, b.sv))

SetServerStatusUp(b, s) ==
    LET r     == b.sv[s]
        k     == b.px[Be(s)]
        first == IF k.fbck = None \/ Pos(k.fbck) > Pos(s) THEN s ELSE k.fbck
        come  == IF r.prev > 0 THEN k ELSE Count(k, s, 1, r.ew, first)
        all   == UpdateBackendWeight(come, b.sv)
    IN  IF ~SrvIsUsable(r) THEN SrvLbCommitStatus(b, s, r.tree, k)
        ELSE SrvLbCommitStatus(b, s, r.tree \/ r.prev = 0, all)

UpdateServerWeight(b, s) ==
    LET r   == b.sv[s]
        k   == b.px[Be(s)]
        was == r.prev > 0
        is  == SrvIsUsable(r)
    IN  CASE ~was /\ ~is -> SrvLbCommitStatus(b, s, r.tree, k)
          [] ~was /\ is  -> SetServerStatusUp(b, s)
          [] was /\ ~is  -> SetServerStatusDown(b, s)
          [] was /\ is   ->
               SrvLbCommitStatus(b, s, r.tree,
                 UpdateBackendWeight(Count(k, s, 0, r.ew - r.prev, k.fbck), b.sv))

-----------------------------------------------------------------------------
(* server.c                                                                *)

\* The throttle of a slow start ends by itself when its time is over.
RecalcEweight(b, s) ==
    LET r  == b.sv[s]
        st == IF r.state = "STARTING" /\ r.since >= Slow THEN "RUNNING" ELSE r.state
        w  == IF st = "STARTING" THEN (WDiv * r.since + Slow) \div Slow ELSE WDiv
    IN  UpdateServerWeight(
          Put(b, s, [r EXCEPT !.state = st,
                              !.since = IF st = "STARTING" THEN @ ELSE 0,
                              !.ew = r.uw * w]), s)

\* STARTING with the warmup task scheduled, or RUNNING at once.
TurnOn(b, s) ==
    LET st == IF s \in SlowStarters THEN "STARTING" ELSE "RUNNING"
    IN  RecalcEweight(
          Put(b, s, [b.sv[s] EXCEPT !.state = st, !.since = 0,
                                    !.armed = @ \/ s \in SlowStarters]), s)

TurnOff(b, s, state) ==
    SetServerStatusDown(Put(b, s, [b.sv[s] EXCEPT !.state = state, !.since = 0]), s)

(* What a call does to one server, and whether it goes on to its trackers. *)

\* srv_set_stopped(), srv_set_running() and srv_set_stopping().
SetStateHere(b, s, state) ==
    LET there == IF state = "RUNNING" THEN {"STARTING", "RUNNING"} ELSE {state}
    IN  IF InMaint(b.sv[s]) \/ b.sv[s].state \in there THEN [b |-> b, tell |-> FALSE]
        ELSE [b |-> IF state = "RUNNING" THEN TurnOn(b, s) ELSE TurnOff(b, s, state),
              tell |-> TRUE]

\* Maintenance pauses an enabled check and stops the server.
EnterMaint(b, s) ==
    LET r == b.sv[s]
        h == IF r.en \/ r.state # "STOPPED" THEN 0 ELSE r.health
        p == Put(b, s, [r EXCEPT !.paused = @ \/ r.en, !.health = h])
    IN  IF r.state = "STOPPED" THEN p ELSE TurnOff(p, s, "STOPPED")

\* Drain is only applied out of maintenance.
EnterDrain(b, s) ==
    IF InMaint(b.sv[s]) THEN b
    ELSE SetServerStatusDown(Put(b, s, [b.sv[s] EXCEPT !.since = 0]), s)

\* srv_set_admin_flag() stops where an equivalent flag is there already.
SetFlagHere(b, s, f) ==
    LET r    == b.sv[s]
        same == Kind(f) \cap r.admin # {}
        b1   == Put(b, s, [r EXCEPT !.admin = @ \cup {f}])
    IN  [b |-> CASE same -> b1
                 [] ~same /\ f \in MAINT -> EnterMaint(b1, s)
                 [] ~same /\ f \notin MAINT -> EnterDrain(b1, s),
         tell |-> ~same]

\* Mutant: the tracked server's state is not looked at.
MutantLeaveMaintUp(b, s) ==
    LET r  == b.sv[s]
        r1 == IF r.en THEN [r EXCEPT !.paused = FALSE, !.health = Rise] ELSE r
        b1 == Put(b, s, r1)
    IN  IF r.aen /\ r.agent = 0 THEN b1 ELSE TurnOn(b1, s)

\* A check that is enabled starts again one failure away from DOWN, and the
\* server is up unless it tracks a stopped one or its agent says otherwise.
LeaveMaint(b, s) ==
    LET r  == b.sv[s]
        r1 == IF r.en THEN [r EXCEPT !.paused = FALSE, !.health = Rise] ELSE r
        t  == IF Track[s] = None THEN "UNTRACKED" ELSE b.sv[Track[s]].state
    IN  CASE t = "STOPPED" \/ (r.aen /\ r.agent = 0) -> Put(b, s, r1)
          [] t = "STOPPING" /\ ~(r.aen /\ r.agent = 0) ->
               RecalcEweight(Put(b, s, [r1 EXCEPT !.state = "STOPPING"]), s)
          [] t \notin {"STOPPED", "STOPPING"} /\ ~(r.aen /\ r.agent = 0) ->
               TurnOn(Put(b, s, r1), s)

LeaveDrain(b, s) == RecalcEweight(Put(b, s, [b.sv[s] EXCEPT !.since = 0]), s)

\* Mutant: clearing one of two equivalent flags clears the trackers' as well.
MutantClrAll(b, s, f) ==
    LET r    == b.sv[s]
        left == r.admin \ {f}
        b1   == Put(b, s, [r EXCEPT !.admin = left])
        still == left \cap MAINT # {} \/ (f \notin MAINT /\ left \cap DRAIN # {})
    IN  [b |-> CASE f \notin r.admin \/ still -> b1
                 [] f \in r.admin /\ ~still /\ f \in MAINT -> LeaveMaint(b1, s)
                 [] f \in r.admin /\ ~still /\ f \notin MAINT -> LeaveDrain(b1, s),
         tell |-> f \in r.admin]

\* srv_clr_admin_flag() stops where the flag is not there or an equivalent one
\* remains.
ClrFlagHere(b, s, f) ==
    LET r     == b.sv[s]
        left  == r.admin \ {f}
        b1    == Put(b, s, [r EXCEPT !.admin = left])
        still == left \cap MAINT # {} \/ (f \notin MAINT /\ left \cap DRAIN # {})
    IN  [b |-> CASE f \notin r.admin \/ still -> b1
                 [] f \in r.admin /\ ~still /\ f \in MAINT -> LeaveMaint(b1, s)
                 [] f \in r.admin /\ ~still /\ f \notin MAINT -> LeaveDrain(b1, s),
         tell |-> f \in r.admin /\ Kind(f) \cap left = {}]

-----------------------------------------------------------------------------
(* The calls recurse over the trackers of each server they change.  They   *)
(* are made once per server, in the order of TopDown, which has a server   *)
(* before its trackers: told are those whose trackers are called.          *)

Inherited(f) == CASE f \in MAINT -> "IMAINT"
                  [] f \in DRAIN -> "IDRAIN"
                  [] f \notin MAINT \cup DRAIN -> f

Here(b, t, call, a) == CASE call = "state" -> SetStateHere(b, t, a)
                         [] call = "set"   -> SetFlagHere(b, t, a)
                         [] call = "clear" -> ClrFlagHere(b, t, a)

Noted(h, t, told) == [b |-> h.b, told |-> IF h.tell THEN told \cup {t} ELSE told]

Visit(c, t, s, call, a) ==
    IF t # s /\ Track[t] \notin c.told THEN c
    ELSE Noted(Here(c.b, t, call, IF t = s THEN a ELSE Inherited(a)), t, c.told)

Spread(b, s, call, a) ==
    LET run[n \in 0..Len(TopDown)] ==
          IF n = 0 THEN [b |-> b, told |-> {}]
          ELSE Visit(run[n - 1], TopDown[n], s, call, a)
    IN  run[Len(TopDown)].b

SrvSetStopped(b, s)      == Spread(b, s, "state", "STOPPED")
SrvSetRunning(b, s)      == Spread(b, s, "state", "RUNNING")
SrvSetStopping(b, s)     == Spread(b, s, "state", "STOPPING")
SrvSetAdminFlag(b, s, f) == Spread(b, s, "set", f)
SrvClrAdminFlag(b, s, f) == Spread(b, s, "clear", f)

SrvAdmSet(b, s, mode) ==
    CASE mode = "maint" -> SrvClrAdminFlag(SrvSetAdminFlag(b, s, "FMAINT"), s, "FDRAIN")
      [] mode = "drain" -> SrvClrAdminFlag(SrvSetAdminFlag(b, s, "FDRAIN"), s, "FMAINT")
      [] mode = "ready" -> SrvClrAdminFlag(SrvClrAdminFlag(b, s, "FDRAIN"), s, "FMAINT")

SetUweight(b, s, w) == RecalcEweight(Put(b, s, [b.sv[s] EXCEPT !.uw = w]), s)

-----------------------------------------------------------------------------
(* The configuration: cfgparse.c resolves "track" server by server, then   *)
(* fwrr_init_server_groups() queues the servers that may be used.          *)

Fresh(s, disabled) ==
    [ state  |-> IF disabled THEN "STOPPED" ELSE "RUNNING",
      admin  |-> IF disabled THEN {"FMAINT"} ELSE {},
      health |-> IF disabled \/ s \notin Checked THEN 0 ELSE Rise,
      en     |-> s \in Checked,
      paused |-> disabled,
      res    |-> "idle",
      agent  |-> IF disabled \/ s \notin Agents THEN 0 ELSE 1,
      aen    |-> s \in Agents,
      ares   |-> "idle",
      errs   |-> 0,
      uw     |-> 1,
      ew     |-> WDiv,
      since  |-> 0,
      armed  |-> FALSE,
      prev   |-> 0,
      tree   |-> FALSE ]

\* A tracker inherits the maintenance its server is in when it is resolved: what
\* that server inherits later does not reach it.
ResolveTrack(f, s) ==
    LET r == f[s]
        q == [r EXCEPT !.admin = @ \cup {"IMAINT"}, !.state = "STOPPED", !.health = 0, !.agent = 0]
    IN  IF Track[s] # None /\ InMaint(f[Track[s]]) THEN [f EXCEPT ![s] = q] ELSE f

Configured(disabled) ==
    LET run[n \in 0..Len(Resolution)] ==
          IF n = 0 THEN [s \in Servers |-> Fresh(s, s \in disabled)]
          ELSE ResolveTrack(run[n - 1], Resolution[n])
    IN  run[Len(Resolution)]

Sum(w) ==
    LET sum[i \in 0..Len(w)] == IF i = 0 THEN 0 ELSE sum[i - 1] + w[i]
    IN  sum[Len(w)]

\* recount_servers() and update_backend_weight().
RecountServers(f, p) ==
    LET l         == SrvList[p]
        servers(S) == Sum([i \in 1..Len(l) |->
                             IF l[i] \in S /\ Load(f[l[i]]) > 0 THEN 1 ELSE 0])
        weight(S) == Sum([i \in 1..Len(l) |-> IF l[i] \in S THEN Load(f[l[i]]) ELSE 0])
    IN  UpdateBackendWeight([ act  |-> servers(Servers \ Backups),
                              bck  |-> servers(Backups),
                              wact |-> weight(Servers \ Backups),
                              wbck |-> weight(Backups),
                              fbck |-> NextBackup(f, p, 0),
                              tot  |-> 0 ], f)

FwrrInitServerGroups(f) ==
    [ sv |-> [s \in Servers |-> [f[s] EXCEPT !.prev = Load(f[s]),
                                             !.tree = SrvIsUsable(f[s])]],
      px |-> [p \in Backends |-> RecountServers(f, p)] ]

Init ==
    /\ \E D \in SUBSET MayBeDisabled :
         LET b == FwrrInitServerGroups(Configured(D))
         IN  sv = b.sv /\ px = b.px
    /\ stable = FALSE

-----------------------------------------------------------------------------
(* checks.c                                                                *)

Now == [sv |-> sv, px |-> px]
Becomes(b) == sv' = b.sv /\ px' = b.px

\* A failed check, and a passed or conditionally passed one: set_server_check_status().
Failed(h) == IF h > Rise THEN h - 1 ELSE IF h = Rise THEN 0 ELSE h

\* Mutant: a passed check makes the first step no more than a conditional one.
MutantNoFirstStep(h, res) ==
    IF h < Top /\ h > 0 THEN IF h + 1 >= Rise THEN Top ELSE h + 1 ELSE h

\* A conditional pass cannot make the first step.
Passed(h, res) ==
    IF h < Top /\ (res = "passed" \/ h > 0)
    THEN IF h + 1 >= Rise THEN Top ELSE h + 1
    ELSE h

SetServerCheckStatus(r, res) ==
    IF res = "failed"
    THEN [r EXCEPT !.health = Failed(@), !.res = IF @ = "idle" THEN @ ELSE res]
    ELSE [r EXCEPT !.health = Passed(@, res), !.res = res, !.errs = 0]

\* Mutant: the first failed check stops the server.
MutantFirstFailure(b, s) == SrvSetStopped(b, s)

CheckNotifyFailure(b, s) == IF b.sv[s].health > 0 THEN b ELSE SrvSetStopped(b, s)

\* May the checks of s turn it on, or into STOPPING?
ChecksComply(b, s) ==
    /\ ~InMaint(b.sv[s])
    /\ Track[s] # None => b.sv[Track[s]].state # "STOPPED"
    /\ b.sv[s].en => b.sv[s].health >= Rise
    /\ b.sv[s].aen => b.sv[s].agent > 0

CheckNotifySuccess(b, s, fromAgent) ==
    IF ChecksComply(b, s) /\ ~(fromAgent /\ b.sv[s].state = "STOPPING")
    THEN SrvSetRunning(b, s) ELSE b

CheckNotifyStopping(b, s) == IF ChecksComply(b, s) THEN SrvSetStopping(b, s) ELSE b

\* process_chk() starts a check; the connection may fail at once.
CheckStart(s) ==
    /\ sv[s].res = "idle" /\ sv[s].en /\ ~sv[s].paused
    /\ \/ Becomes(Put(Now, s, [sv[s] EXCEPT !.res = "unknown"]))
       \/ /\ "failed" \in CheckResults /\ ~stable
          /\ Becomes(CheckNotifyFailure(
               Put(Now, s, SetServerCheckStatus(sv[s], "failed")), s))
    /\ UNCHANGED stable

\* The I/O callbacks, or the check's timeout, find the result.
CheckAnswer(s, res) ==
    /\ sv[s].res = "unknown"
    /\ stable => res = "passed"
    /\ Becomes(Put(Now, s, SetServerCheckStatus(sv[s], res)))
    /\ UNCHANGED stable

\* process_chk() concludes, whatever happened to the server in the meantime.
CheckDone(s) ==
    LET r == sv[s].res
        b == CASE r = "failed" -> CheckNotifyFailure(Now, s)
               [] r = "cond"   -> CheckNotifyStopping(Now, s)
               [] r = "passed" -> CheckNotifySuccess(Now, s, FALSE)
    IN  /\ r \in {"failed", "cond", "passed"}
        /\ Becomes(Put(b, s, [b.sv[s] EXCEPT !.res = "idle"]))
        /\ UNCHANGED stable

\* __health_adjust(): traffic that fails counts; at the limit the server is
\* treated as if a check had failed, or is marked down.
HealthAdjust(s) ==
    LET r    == sv[s]
        full == r.errs + 1 >= ErrLimit
        last == IF OnError = "sudden-death" /\ r.health > Rise THEN Rise + 1 ELSE r.health
        h    == IF OnError = "mark-down" THEN Rise ELSE last
        r1   == SetServerCheckStatus([r EXCEPT !.health = h], "failed")
        hit  == CheckNotifyFailure(Put(Now, s, r1), s)
    IN  /\ ErrLimit > 0 /\ s \in Checked /\ ~stable
        /\ IF ~full THEN Becomes(Put(Now, s, [r EXCEPT !.errs = @ + 1]))
           ELSE IF OnError = "fastinter" THEN Becomes(Put(Now, s, [r EXCEPT !.errs = 0]))
           ELSE Becomes(Put(hit, s, [hit.sv[s] EXCEPT !.errs = 0]))
        /\ UNCHANGED stable

HealthAdjustOk(s) ==
    /\ sv[s].errs > 0
    /\ Becomes(Put(Now, s, [sv[s] EXCEPT !.errs = 0]))
    /\ UNCHANGED stable

AgentStart(s) ==
    /\ sv[s].ares = "idle" /\ sv[s].aen
    /\ Becomes(Put(Now, s, [sv[s] EXCEPT !.ares = "unknown"]))
    /\ UNCHANGED stable

\* The agent's line: a health word, an administrative word and a weight, each of
\* them optional (None).  Parsing already gives the check the health it says; the
\* administrative word, which looks at that health, and the weight follow, and
\* the check's status, which they do not look at, comes last.
ParsedHealth(r, hs) ==
    IF hs = None THEN r ELSE [r EXCEPT !.agent = IF hs = "up" THEN 1 ELSE 0]
AdminWord(b, s, as)  == IF as = None THEN b ELSE SrvAdmSet(b, s, as)
WeightWord(b, s, ps) == IF ps = None THEN b ELSE SetUweight(b, s, ps)
AgentStatus(r, hs) ==
    [r EXCEPT !.ares = IF hs = None THEN "neutral" ELSE hs,
              !.errs = IF hs = "up" THEN 0 ELSE @]

AgentReply(s, as, ps, hs) ==
    LET parsed  == Put(Now, s, ParsedHealth(sv[s], hs))
        applied == WeightWord(AdminWord(parsed, s, as), s, ps)
    IN  /\ sv[s].ares = "unknown" /\ sv[s].aen
        /\ stable => as = None /\ ps = None /\ hs = "up"
        /\ Becomes(Put(applied, s, AgentStatus(applied.sv[s], hs)))
        /\ UNCHANGED stable

\* No answer, or an answer ignored because the agent was disabled meanwhile:
\* the connection failed (no effect) or the answer timed out (a failure that
\* does not stop the server by itself).
AgentFails(s) ==
    /\ sv[s].ares = "unknown"
    /\ stable => ~sv[s].aen
    /\ \E a \in {0, sv[s].agent} :
         Becomes(Put(Now, s, [sv[s] EXCEPT !.agent = a, !.ares = "idle"]))
    /\ UNCHANGED stable

AgentDone(s) ==
    LET r == sv[s].ares
        b == CASE r = "down" -> IF sv[s].agent > 0 THEN Now ELSE SrvSetStopped(Now, s)
               [] r = "up"   -> CheckNotifySuccess(Now, s, TRUE)
               [] r = "neutral" -> Now
    IN  /\ r \in {"down", "up", "neutral"}
        /\ Becomes(Put(b, s, [b.sv[s] EXCEPT !.ares = "idle"]))
        /\ UNCHANGED stable

\* Time passes for a server in slow start.
Tick(s) ==
    /\ sv[s].state = "STARTING" /\ sv[s].since < Slow
    /\ Becomes(Put(Now, s, [sv[s] EXCEPT !.since = @ + 1]))
    /\ UNCHANGED stable

\* The warmup task raises the weight and comes back while STARTING lasts.
ServerWarmup(s) ==
    LET b == RecalcEweight(Now, s)
    IN  /\ sv[s].armed
        /\ IF InMaint(sv[s]) \/ sv[s].state # "STARTING"
           THEN Becomes(Put(Now, s, [sv[s] EXCEPT !.armed = FALSE]))
           ELSE LET again == b.sv[s].state = "STARTING"
                IN  Becomes(Put(b, s, [b.sv[s] EXCEPT !.armed = again]))
        /\ UNCHANGED stable

-----------------------------------------------------------------------------
(* dumpstats.c: the operator                                               *)

Order(s, name) == s \in Operated /\ name \in Orders /\ ~stable /\ UNCHANGED stable

\* "set server state", "disable server", "enable server".
SetState(s, mode) == Order(s, mode) /\ Becomes(SrvAdmSet(Now, s, mode))

\* The stats page's actions on one flag.
SetFlag(s, f) ==
    Order(s, f) /\ f \notin sv[s].admin /\ Becomes(SrvSetAdminFlag(Now, s, f))
ClearFlag(s, f) ==
    Order(s, f) /\ f \in sv[s].admin /\ Becomes(SrvClrAdminFlag(Now, s, f))

\* "set server health", refused on a server that tracks.
SetHealth(s, h) ==
    /\ Order(s, "health") /\ Track[s] = None
    /\ LET full  == Put(Now, s, [sv[s] EXCEPT !.health = Top])
           empty == Put(Now, s, [sv[s] EXCEPT !.health = 0])
       IN  Becomes(CASE h = "up"       -> SrvSetRunning(full, s)
                     [] h = "stopping" -> SrvSetStopping(full, s)
                     [] h = "down"     -> SrvSetStopped(empty, s))

SetAgent(s, up) ==
    /\ Order(s, "agent") /\ sv[s].aen
    /\ IF up THEN Becomes(SrvSetRunning(Put(Now, s, [sv[s] EXCEPT !.agent = 1]), s))
       ELSE Becomes(SrvSetStopped(Put(Now, s, [sv[s] EXCEPT !.agent = 0]), s))

\* "enable health" and "disable health", "enable agent" and "disable agent".
ToggleCheck(s) ==
    /\ Order(s, "check") /\ s \in Checked
    /\ Becomes(Put(Now, s, [sv[s] EXCEPT !.en = ~@]))
ToggleAgent(s) ==
    /\ Order(s, "agent") /\ s \in Agents
    /\ Becomes(Put(Now, s, [sv[s] EXCEPT !.aen = ~@]))

SetWeight(s, w) == Order(s, "weight") /\ Becomes(SetUweight(Now, s, w))

\* From now on the applications are well and nobody gives orders.
Stabilise == ~stable /\ stable' = TRUE /\ UNCHANGED <<sv, px>>

CheckTask(s) ==
    \/ CheckStart(s) \/ CheckDone(s)
    \/ \E res \in CheckResults : CheckAnswer(s, res)

AgentTask(s) ==
    \/ AgentStart(s) \/ AgentFails(s) \/ AgentDone(s)
    \/ \E as \in (Orders \cap {"ready", "drain", "maint"}) \cup {None},
          ps \in Weights \cup {None}, hs \in {"up", "down", None} :
            AgentReply(s, as, ps, hs)

Command(s) ==
    \/ \E mode \in {"ready", "drain", "maint"} : SetState(s, mode)
    \/ \E f \in {"FMAINT", "FDRAIN"} : SetFlag(s, f) \/ ClearFlag(s, f)
    \/ \E h \in {"up", "stopping", "down"} : SetHealth(s, h)
    \/ \E up \in BOOLEAN : SetAgent(s, up)
    \/ ToggleCheck(s) \/ ToggleAgent(s)
    \/ \E w \in Weights : SetWeight(s, w)

Next ==
    \/ \E s \in Servers :
         \/ CheckTask(s) \/ AgentTask(s) \/ Command(s)
         \/ HealthAdjust(s) \/ HealthAdjustOk(s)
         \/ Tick(s) \/ ServerWarmup(s)
    \/ Stabilise

\* The scheduler runs the tasks of checks and of warmups again and again;
\* every check ends by its timeout at the latest; time passes.
Fairness ==
    \A s \in Servers :
        /\ WF_vars(CheckTask(s)) /\ WF_vars(AgentTask(s))
        /\ WF_vars(Tick(s)) /\ WF_vars(ServerWarmup(s))

Spec == Init /\ [][Next]_vars /\ Fairness

-----------------------------------------------------------------------------
\* Was the maintenance of a configuration handed down to s?  The server it tracks
\* has only what is forced on it, or was resolved first (cfgparse.c 6712).
HandedDown(s) ==
    \/ Track[Track[s]] = None
    \/ \A i, j \in DOMAIN Resolution :
         Resolution[i] = s /\ Resolution[j] = Track[s] => j < i

\* A server inherits drain exactly while the server it tracks has it for any
\* reason of its own, and maintenance never without it; and always with it,
\* unless the chain was resolved against its direction.  That holds however
\* forced and inherited flags were set and cleared along the chain:
\* srv_set_admin_flag() and srv_clr_admin_flag() stop going down when an
\* equivalent flag remains.
AdminInherited ==
    \A s \in Servers : Track[s] # None =>
        LET tracked == sv[Track[s]].admin
        IN  /\ "IDRAIN" \in sv[s].admin <=> tracked \cap DRAIN # {}
            /\ "IMAINT" \in sv[s].admin => tracked \cap MAINT # {}
            /\ HandedDown(s) /\ tracked \cap MAINT # {} => "IMAINT" \in sv[s].admin

\* Out of maintenance a server without checks of its own is down, or
\* stopping, exactly when the server it tracks is; but for a chain that was
\* resolved against its direction.
TrackersFollow ==
    \A s \in Servers \ Agents :
        Track[s] # None /\ HandedDown(s) /\ sv[s].admin \cap MAINT = {} =>
            \A st \in {"STOPPED", "STOPPING"} :
                sv[s].state = st <=> sv[Track[s]].state = st

\* The balancer's incremental view is what counting afresh would give: the
\* servers it has queued, their weights, the numbers of active and backup
\* servers, the first backup server and the total weight (recount_servers()
\* and update_backend_weight()), after every path that changes a server.
BalancerView ==
    LET fresh == FwrrInitServerGroups(sv)
    IN  px = fresh.px /\ \A s \in Servers : sv[s].tree = fresh.sv[s].tree

\* "By default, a server is up" (checks.c:328): with no check under way, a
\* checked server that is down is in maintenance, or one of its checks left
\* it there; no order of answers, conclusions and commands forgets it down.
DownHasReason ==
    \A s \in Checked :
        (sv[s].state = "STOPPED" /\ sv[s].res = "idle" /\ sv[s].ares = "idle")
            => InMaint(sv[s]) \/ sv[s].health < Rise \/ (s \in Agents /\ sv[s].agent = 0)

\* Once its application answers and nobody interferes, a server whose check is
\* enabled, that is neither in maintenance nor drained, gets its full weight
\* in the balancer, whatever its checks, its agent and the operator did before.
HealthyServerServes ==
    \A s \in Checked :
        (stable /\ sv[s].en /\ ~sv[s].paused /\ sv[s].admin = {} /\ sv[s].uw > 0)
            ~> (sv[s].tree /\ sv[s].ew = sv[s].uw * WDiv)

-----------------------------------------------------------------------------
(* What the proofs need besides.                                           *)

ServerRecords ==
    [ state : {"STOPPED", "STARTING", "RUNNING", "STOPPING"}, admin : SUBSET (MAINT \cup DRAIN),
      health : 0..Top, en : BOOLEAN, paused : BOOLEAN,
      res : {"idle", "unknown", "failed", "cond", "passed"},
      agent : {0, 1}, aen : BOOLEAN, ares : {"idle", "unknown", "down", "up", "neutral"},
      errs : Nat, uw : Nat, ew : Nat, since : Nat, armed : BOOLEAN,
      prev : Nat, tree : BOOLEAN ]

BackendRecords ==
    [ act : Int, bck : Int, wact : Int, wbck : Int, fbck : Servers \cup {None}, tot : Int ]

TypeOK ==
    sv \in [Servers -> ServerRecords] /\ px \in [Backends -> BackendRecords] /\ stable \in BOOLEAN

\* Every server was last committed with the weight it has now.
Committed == \A s \in Servers : sv[s].prev = Load(sv[s])

MaintStopped == \A s \in Servers : InMaint(sv[s]) => sv[s].state = "STOPPED"

ChecksBelong ==
    \A s \in Servers :
        /\ sv[s].en \/ sv[s].res # "idle" => s \in Checked
        /\ sv[s].aen \/ sv[s].ares # "idle" => s \in Agents

\* What every step keeps: the records and counters have their types, no path
\* leaves a weight uncommitted, maintenance stops a server for good, checks
\* belong to servers that have them, and the three invariants above.
HealthInv ==
    /\ TypeOK /\ Committed /\ BalancerView /\ MaintStopped /\ ChecksBelong
    /\ AdminInherited /\ TrackersFollow
=============================================================================
