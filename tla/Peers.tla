-------------------------------- MODULE Peers --------------------------------
(***************************************************************************)
(* The replication of a stick table between two HAProxy processes          *)
(* (peers.c, stick_table.c).  Either they run on two hosts, each the       *)
(* other's remote peer, or the one is the process that is replaced on a    *)
(* reload and the other its successor: then it is the local peer, which is *)
(* taught everything before the old process leaves.                        *)
(*                                                                         *)
(* ps is a process's record: its table (has, upd: an entry's key in the    *)
(* tree of updates, 0 when it is not in it; update, localupdate), its      *)
(* shared_table (flags, resync_timeout: whether it has passed, and the     *)
(* sync task: woken, armed) and its one peer_session (session, statuscode, *)
(* pf: the flags, and the cursors of the code).  A connection has a state  *)
(* st0 and a receive queue at either end.  The values of the entries are   *)
(* left out, and so are their expiry and the 32-bit wrap of the counters.  *)
(***************************************************************************)
EXTENDS Integers, Sequences, FiniteSets, FiniteSetsExt

CONSTANTS
    Old, New,       \* the processes; Old is the one that ran before
    Keys,           \* keys of the table
    OldUpdates,     \* the updates of Old's table: key -> its key in the tree
    None,           \* no session
    Offset,         \* what is added to the update of a learned entry: (2^31), 29 in C
    Conns,          \* bound: connections that exist at a time
    Touched,        \* bound: the keys that sessions update
    MaxEvents,      \* bound: connects to a remote peer, local updates, lost connections
    MaxFlight       \* the messages an end's buffer holds

Procs == {Old, New}
Other(p) == IF p = Old THEN New ELSE Old

\* The tree of updates has one entry for a key.
ASSUME PeersAssumption ==
    /\ Old # New /\ None \notin Conns \cup {Old, New}
    /\ IsFiniteSet(Keys) /\ Touched \subseteq Keys /\ OldUpdates \in [Keys -> Nat]
    /\ \A j, k \in Keys : OldUpdates[j] = OldUpdates[k] => j = k \/ OldUpdates[j] = 0
    /\ Offset \in Nat \ {0} /\ MaxEvents \in Nat /\ MaxFlight \in Nat \ {0}

VARIABLES
    local,      \* whether the two are the processes of one host
    ps,         \* process -> its record
    cn,         \* connection -> its ends
    events      \* how many of the events of the bound happened

vars == <<local, ps, cn, events>>

Teach == {"TEACH_PROCESS", "TEACH_STAGE1", "TEACH_STAGE2", "TEACH_FINISHED"}
Learn == {"LEARN_ASSIGN", "LEARN_NOTUP2DATE"}
FromLocal(r) == r.flags \cap {"LOCAL", "REMOTE"} = {}
FromRemote(r) == r.flags \cap {"LOCAL", "REMOTE"} = {"LOCAL"}
Finished(r) == {"LOCAL", "REMOTE"} \subseteq r.flags

\* The messages: a status line, or one of WAITMSG.
Status == [t : {"SUCCESS", "TRYAGAIN"}]
Msg == [t : {"D"}, k : Keys, v : Nat] \cup [t : {"A"}, v : Nat] \cup [t : {"R", "F", "C", "c"}]

Process ==
    [ has : SUBSET Keys, upd : [Keys -> Nat], update : Nat, localupdate : Nat,
      flags : SUBSET {"LOCAL", "REMOTE", "ASSIGN", "PROCESS"}, due : BOOLEAN,
      woken : BOOLEAN, armed : SUBSET {"resync", "reconnect"},
      stopping : BOOLEAN, signal : BOOLEAN, donotstop : BOOLEAN,
      session : Conns \cup {None}, reconnect : BOOLEAN,
      statuscode : {"0", "CONNECT", "CONNECTED", "SUCCESS", "TRYAGAIN"},
      pf : SUBSET (Teach \cup Learn \cup {"TEACH_COMPLETE"}),
      acked : Nat, pushack : Nat, lastack : Nat, confirm : Nat, pushed : Nat, origin : Nat ]

Connection ==
    [ client : Procs \cup {None},
      st0 : [Procs -> {"CONNECT", "ACCEPT", "GETSTATUS", "WAITMSG", "END"}],
      in : [Procs -> Seq(Status \cup Msg)], cut : BOOLEAN ]

TypeOK ==
    /\ local \in BOOLEAN
    /\ ps \in [Procs -> Process]
    /\ cn \in [Conns -> Connection]
    /\ events \in 0..MaxEvents

NoConn == [ client |-> None, st0 |-> [p \in Procs |-> "END"],
            in |-> [p \in Procs |-> <<>>], cut |-> FALSE ]

\* peers_register_table(), with the updates of the table.
Registered(upd) ==
    [ has |-> {k \in Keys : upd[k] > 0}, upd |-> upd,
      update |-> Cardinality({k \in Keys : upd[k] > 0}),
      localupdate |-> Max({0} \cup {upd[k] : k \in {x \in Keys : upd[x] <= Offset}}),
      flags |-> {}, due |-> FALSE, woken |-> TRUE, armed |-> {},
      stopping |-> FALSE, signal |-> FALSE, donotstop |-> FALSE,
      session |-> None, statuscode |-> "0", reconnect |-> TRUE, pf |-> {},
      acked |-> 0, pushack |-> 0, lastack |-> 0, confirm |-> 0, pushed |-> 0, origin |-> 0 ]

\* Old has run before, and may or may not be up to date itself.
Init ==
    /\ local \in BOOLEAN
    /\ \E f \in {{"LOCAL"}, {"LOCAL", "REMOTE"}} :
         ps = [p \in Procs |-> IF p = Old THEN [Registered(OldUpdates) EXCEPT !.flags = f]
                               ELSE Registered([k \in Keys |-> 0])]
    /\ cn = [c \in Conns |-> NoConn]
    /\ events = 0

-----------------------------------------------------------------------------
(* The table.                                                              *)

\* eb32_insert(): an entry that has the same key leaves the tree.
Insert(upd, k, u) == [x \in Keys |-> IF x = k THEN u ELSE IF upd[x] = u THEN 0 ELSE upd[x]]

\* stktable_touch() and stktable_store() by a session of the process.
StktableTouch(p, k) ==
    /\ events < MaxEvents
    /\ ps' = [ps EXCEPT ![p].has = @ \cup {k}, ![p].upd = Insert(@, k, ps[p].update + 1),
                        ![p].update = @ + 1, ![p].localupdate = ps[p].update + 1,
                        ![p].woken = TRUE]
    /\ events' = events + 1
    /\ UNCHANGED <<local, cn>>

\* An entry that a peer sent.
Learned(r, k) ==
    IF k \in r.has THEN r
    ELSE [r EXCEPT !.has = @ \cup {k}, !.update = @ + 1,
                   !.upd = Insert(@, k, r.update + 1 + Offset)]

\* eb32_lookup_ge(updates, u + 1); 0 for none.
After(r, u) ==
    LET later == {r.upd[k] : k \in {x \in Keys : r.upd[x] > u}}
    IN  IF later = {} THEN 0 ELSE Min(later)
KeyOf(r, u) == CHOOSE k \in Keys : r.upd[k] = u

-----------------------------------------------------------------------------
(* Sessions.                                                               *)

\* Mutant: a table whose teacher is lost stays assigned to it.
MutantRelease(r, c) ==
    [r EXCEPT !.woken = TRUE, !.session = IF @ = c THEN None ELSE @,
              !.pf = IF r.session = c THEN @ \ (Teach \cup Learn) ELSE @]

\* Mutant: the sync task is woken only for a teacher that is lost.
MutantQuietRelease(r, c) ==
    IF r.session # c THEN r
    ELSE [r EXCEPT !.session = None, !.pf = @ \ (Teach \cup Learn),
                   !.flags = IF "LEARN_ASSIGN" \in r.pf THEN @ \ {"ASSIGN", "PROCESS"} ELSE @,
                   !.woken = @ \/ "LEARN_ASSIGN" \in r.pf]

\* peer_session_release() for the session over c.  The cursors of a session that is
\* over are not read again: the next one sets them.
Idle(r) == [r EXCEPT !.session = None, !.pf = @ \ (Teach \cup Learn), !.pushack = 0,
                     !.lastack = 0, !.confirm = 0, !.pushed = 0]
PeerSessionRelease(r, c) ==
    LET free == Idle(r)
    IN  [ IF r.session # c THEN r
          ELSE IF "LEARN_ASSIGN" \in r.pf
          THEN [free EXCEPT !.flags = @ \ {"ASSIGN", "PROCESS"}, !.due = FALSE]
          ELSE free
          EXCEPT !.woken = TRUE ]

\* An end of a connection that is over; the last one frees it.
Ended(c, p, conn) ==
    IF conn[c].st0[Other(p)] = "END" THEN [conn EXCEPT ![c] = NoConn]
    ELSE [conn EXCEPT ![c].st0[p] = "END", ![c].in[p] = <<>>]

\* peer_session_create() of r's session, over c.
PeerSessionCreate(r, c) == [r EXCEPT !.session = c, !.statuscode = "CONNECT",
                                     !.reconnect = FALSE]
Created(conn, p, c) == [conn EXCEPT ![c] = [NoConn EXCEPT !.client = p, !.st0[p] = "CONNECT"]]
Free(conn) == {c \in Conns : conn[c] = NoConn}
FreeOne(conn) == CHOOSE c \in Conns : conn[c] = NoConn

\* peer_session_forceshutdown() of the session p has, in the connections.
ForceShutdown(p, conn) ==
    IF ps[p].session = None THEN conn ELSE Ended(ps[p].session, p, conn)

\* process_peer_sync() while the process runs: the resync from the local peer is
\* given up, a remote peer is connected to or asked for a lesson, and the resync
\* is over when its timeout passes without a teacher.  Past the bound on connects
\* peer_session_create() fails, as it does without memory.
SyncRunning(p) ==
    LET r0 == [ps[p] EXCEPT !.woken = FALSE, !.armed = {}]
        r1 == IF FromLocal(r0) /\ (~local \/ r0.due) /\ "ASSIGN" \notin r0.flags
              THEN [r0 EXCEPT !.flags = @ \cup {"LOCAL"}, !.due = FALSE] ELSE r0
        connect == /\ ~local /\ r1.session = None
                   /\ \/ r1.statuscode \in {"0", "SUCCESS"}
                      \/ r1.statuscode \in {"CONNECT", "CONNECTED"} /\ r1.reconnect
        assign  == /\ ~local /\ r1.session # None /\ r1.statuscode = "SUCCESS"
                   /\ FromRemote(r1) /\ "ASSIGN" \notin r1.flags
                   /\ "LEARN_NOTUP2DATE" \notin r1.pf
        r2 == IF assign THEN [r1 EXCEPT !.flags = @ \cup {"ASSIGN"},
                                        !.pf = @ \cup {"LEARN_ASSIGN"}] ELSE r1
        r3 == IF FromRemote(r2) /\ "ASSIGN" \notin r2.flags /\ r2.due
              THEN [r2 EXCEPT !.flags = @ \cup {"REMOTE"}, !.due = FALSE] ELSE r2
        r4 == [r3 EXCEPT !.armed =
                 {t \in {"resync", "reconnect"} :
                    \/ t = "resync" /\ ~Finished(r3)
                    \/ /\ t = "reconnect" /\ ~local /\ r1.session = None /\ ~connect
                       /\ r1.statuscode \in {"CONNECT", "CONNECTED"}}]
    IN  /\ ps[p].woken /\ ~ps[p].stopping
        /\ IF connect /\ events < MaxEvents
           THEN /\ Free(cn) # {}
                /\ ps' = [ps EXCEPT ![p] = PeerSessionCreate(r4, FreeOne(cn))]
                /\ cn' = Created(cn, p, FreeOne(cn))
                /\ events' = events + 1
           ELSE ps' = [ps EXCEPT ![p] = r4] /\ UNCHANGED <<cn, events>>
        /\ UNCHANGED local

\* process_peer_sync() after soft_stop(): the process stays until the local peer is
\* taught, or cannot be reached.
SyncStopping(p) ==
    LET r0 == [ps[p] EXCEPT !.woken = FALSE, !.signal = FALSE, !.armed = {}]
        r1 == IF ~ps[p].signal THEN r0
              ELSE [IF r0.session = None THEN r0 ELSE PeerSessionRelease(r0, r0.session)
                    EXCEPT !.donotstop = TRUE]
        cn1 == IF ps[p].signal THEN ForceShutdown(p, cn) ELSE cn
        over == [r1 EXCEPT !.donotstop = FALSE]
    IN  /\ ps[p].woken /\ ps[p].stopping
        /\ \/ /\ "TEACH_COMPLETE" \in r1.pf
              /\ ps' = [ps EXCEPT ![p] = over] /\ cn' = cn1
           \/ /\ "TEACH_COMPLETE" \notin r1.pf /\ r1.session = None
              /\ IF r1.statuscode \in {"0", "SUCCESS", "CONNECTED", "TRYAGAIN"}
                 THEN /\ Free(cn1) # {}
                      /\ ps' = [ps EXCEPT ![p] = PeerSessionCreate(r1, FreeOne(cn1))]
                      /\ cn' = Created(cn1, p, FreeOne(cn1))
                 ELSE ps' = [ps EXCEPT ![p] = over] /\ cn' = cn1
           \/ /\ "TEACH_COMPLETE" \notin r1.pf /\ r1.session # None
              /\ ps' = [ps EXCEPT ![p] = r1] /\ cn' = cn1
        /\ UNCHANGED <<local, events>>

\* A timer passes that the task is armed for.
Expires(p, timer) ==
    /\ timer \in ps[p].armed
    /\ ps' = [ps EXCEPT ![p].armed = {}, ![p].woken = TRUE,
                        ![p].due = ~Finished(ps[p]) /\ (@ \/ timer = "resync"),
                        ![p].reconnect = @ \/ timer = "reconnect"]
    /\ UNCHANGED <<local, cn, events>>

\* soft_stop() of the process that is replaced.
SoftStop ==
    /\ local /\ ~ps[Old].stopping
    /\ ps' = [ps EXCEPT ![Old].stopping = TRUE, ![Old].signal = TRUE, ![Old].woken = TRUE]
    /\ UNCHANGED <<local, cn, events>>

-----------------------------------------------------------------------------
(* The handshake.                                                          *)

\* The connection is established and the presentation sent.
Connects(c) ==
    LET p == cn[c].client
    IN  /\ p # None /\ cn[c].st0[p] = "CONNECT"
        /\ cn' = [cn EXCEPT ![c].st0 = [q \in Procs |-> IF q = p THEN "GETSTATUS" ELSE "ACCEPT"]]
        /\ ps' = [ps EXCEPT ![p].statuscode = "CONNECTED"]
        /\ UNCHANGED <<local, events>>

ConnectFails(c) ==
    LET p == cn[c].client
    IN  /\ p # None /\ cn[c].st0[p] = "CONNECT" /\ events < MaxEvents
        /\ cn' = Ended(c, p, cn)
        /\ ps' = [ps EXCEPT ![p] = PeerSessionRelease(@, c)]
        /\ events' = events + 1
        /\ UNCHANGED local

\* The cursors and flags of a session that begins (SENDSUCCESS, GETSTATUS).
Begun(r) ==
    LET r0 == [r EXCEPT !.statuscode = "SUCCESS", !.woken = TRUE, !.origin = 0, !.lastack = 0,
                        !.pushack = 0, !.pushed = r.acked, !.confirm = 0,
                        !.pf = @ \ (Teach \cup Learn)]
    IN  IF ~local /\ FromRemote(r0) /\ "ASSIGN" \notin r0.flags
        THEN [r0 EXCEPT !.pf = @ \cup {"LEARN_ASSIGN"}, !.flags = @ \cup {"ASSIGN"}]
        ELSE r0

\* ACCEPT to SENDSUCCESS: an active session with a remote peer is replaced, with
\* the local peer it makes the other end try again.
Accept(c) ==
    LET p  == Other(cn[c].client)
        r0 == IF ps[p].session = None THEN ps[p] ELSE PeerSessionRelease(ps[p], ps[p].session)
        r1 == Begun([r0 EXCEPT !.session = c])
        learn == local /\ FromLocal(r1) /\ "ASSIGN" \notin r1.flags
        Says(code, conn) == [conn EXCEPT ![c].in[Other(p)] = Append(@, [t |-> code])]
    IN  /\ cn[c].client # None /\ cn[c].st0[p] = "ACCEPT"
        /\ IF local /\ ps[p].session # None
           THEN /\ cn' = Ended(c, p, Says("TRYAGAIN", cn))
                /\ UNCHANGED ps
           ELSE /\ cn' = [Says("SUCCESS", ForceShutdown(p, cn)) EXCEPT ![c].st0[p] = "WAITMSG"]
                /\ ps' = [ps EXCEPT ![p] =
                             IF learn THEN [r1 EXCEPT !.pf = @ \cup {"LEARN_ASSIGN"},
                                                      !.flags = @ \cup {"ASSIGN", "PROCESS"}]
                             ELSE r1]
        /\ UNCHANGED <<local, events>>

\* A lesson begins: on GETSTATUS from the local peer and on the reset message.
Lesson(r) == [r EXCEPT !.origin = r.update, !.pushed = r.update,
                       !.pf = (@ \ Teach) \cup {"TEACH_PROCESS"}]

GetStatus(c) ==
    LET p    == cn[c].client
        code == Head(cn[c].in[p]).t
    IN  /\ p # None /\ cn[c].st0[p] = "GETSTATUS" /\ cn[c].in[p] # <<>>
        /\ IF code = "SUCCESS"
           THEN /\ ps' = [ps EXCEPT ![p] = IF local THEN Lesson(Begun(@)) ELSE Begun(@)]
                /\ cn' = [cn EXCEPT ![c].st0[p] = "WAITMSG", ![c].in[p] = Tail(@)]
           ELSE /\ ps' = [ps EXCEPT ![p] = PeerSessionRelease([@ EXCEPT !.statuscode = code], c)]
                /\ cn' = Ended(c, p, cn)
        /\ UNCHANGED <<local, events>>

-----------------------------------------------------------------------------
(* WAITMSG: the messages are read, then there is one to write or none.     *)

Unassign(r) == [r EXCEPT !.pf = @ \ {"LEARN_ASSIGN"}, !.flags = @ \ {"ASSIGN", "PROCESS"}]

\* 'C': the teacher has said all it knows and is not up to date itself.
Continue(r) == [Unassign(r) EXCEPT !.pf = @ \cup {"LEARN_NOTUP2DATE"}, !.due = FALSE,
                                   !.woken = TRUE]
\* 'F': it is.
Finish(r) == [Unassign(r) EXCEPT !.flags = @ \cup {"LOCAL", "REMOTE"}, !.due = FALSE]

Received(r, m) ==
    CASE m.t = "D" -> [Learned(r, m.k) EXCEPT !.pushack = m.v]
      [] m.t = "R" -> Lesson(r)
      [] m.t = "F" -> [IF "LEARN_ASSIGN" \in r.pf THEN Finish(r) ELSE r EXCEPT !.confirm = @ + 1]
      [] m.t = "C" -> [IF "LEARN_ASSIGN" \in r.pf THEN Continue(r) ELSE r EXCEPT !.confirm = @ + 1]
      [] m.t = "A" -> [r EXCEPT !.acked = m.v]
      [] m.t = "c" -> [r EXCEPT !.pf = @ \ Teach]

\* 'c' while the process is stopping.
Complete(r) == [r EXCEPT !.pf = @ \cup {"TEACH_COMPLETE"}]

\* Mutant: on a stop the first ack is taken for the end of the lesson.
MutantReadMessage(c, p) ==
    /\ cn[c].st0[p] = "WAITMSG" /\ cn[c].in[p] # <<>>
    /\ LET m == Head(cn[c].in[p])
       IN  IF m.t \in {"c", "A"} /\ ps[p].stopping
           THEN /\ ps' = [ps EXCEPT ![p] = PeerSessionRelease(Complete(@), c)]
                /\ cn' = Ended(c, p, cn)
           ELSE /\ ps' = [ps EXCEPT ![p] = Received(@, m)]
                /\ cn' = [cn EXCEPT ![c].in[p] = Tail(@)]
    /\ UNCHANGED <<local, events>>

ReadMessage(c, p) ==
    /\ cn[c].st0[p] = "WAITMSG" /\ cn[c].in[p] # <<>>
    /\ LET m == Head(cn[c].in[p])
       IN  IF m.t = "c" /\ ps[p].stopping
           THEN /\ ps' = [ps EXCEPT ![p] = PeerSessionRelease(Complete(@), c)]
                /\ cn' = Ended(c, p, cn)
           ELSE /\ ps' = [ps EXCEPT ![p] = Received(@, m)]
                /\ cn' = [cn EXCEPT ![c].in[p] = Tail(@)]
    /\ UNCHANGED <<local, events>>

Taught(r) == {"TEACH_STAGE1", "TEACH_STAGE2"} \subseteq r.pf
Teaching(r) == "TEACH_PROCESS" \in r.pf /\ "TEACH_FINISHED" \notin r.pf

\* Mutant: a lesson leaves out the entries past its origin.
MutantStage1(r) ==
    IF ~Teaching(r) \/ "TEACH_STAGE1" \in r.pf THEN r
    ELSE [r EXCEPT !.pf = @ \cup {"TEACH_STAGE1"}, !.pushed = 0]

\* Stage 1 of a lesson, the entries past its origin, is complete.
Stage1(r) ==
    IF ~Teaching(r) \/ "TEACH_STAGE1" \in r.pf \/ After(r, r.pushed) # 0 THEN r
    ELSE [r EXCEPT !.pf = @ \cup {"TEACH_STAGE1"},
                   !.pushed = IF After(r, 0) = 0 THEN @ ELSE After(r, 0) - 1]

\* Stage 2, those up to the origin, is complete.
Stage2(r) ==
    LET u == After(r, r.pushed)
    IN  IF ~Teaching(r) \/ "TEACH_STAGE1" \notin r.pf \/ (u # 0 /\ u <= r.origin) THEN r
        ELSE [r EXCEPT !.pf = @ \cup {"TEACH_STAGE2"}, !.pushed = r.origin]

PushesLocal(r) ==
    ~Teaching(r) /\ "LEARN_ASSIGN" \notin r.pf /\ r.pushed < r.localupdate

\* No local update is left.
LocalDone(r) ==
    LET u == After(r, r.pushed)
    IN  IF PushesLocal(r) /\ (u = 0 \/ u > r.localupdate)
        THEN [r EXCEPT !.pushed = r.localupdate] ELSE r

\* What the handler does between two messages it writes.
Settled(r) == LocalDone(Stage2(Stage1(r)))

\* The next message: a confirmation, the request for a lesson, an ack, the lesson,
\* the local updates; and the record once it is written.
Put(r) ==
    LET u == After(r, r.pushed)
        Entry == [r |-> [r EXCEPT !.pushed = u], m |-> <<[t |-> "D", k |-> KeyOf(r, u), v |-> u]>>]
    IN  CASE r.confirm > 0 -> [r |-> [r EXCEPT !.confirm = @ - 1], m |-> <<[t |-> "c"]>>]
          [] OTHER ->
        CASE "LEARN_ASSIGN" \in r.pf /\ "ASSIGN" \in r.flags /\ "PROCESS" \notin r.flags ->
               [r |-> [r EXCEPT !.flags = @ \cup {"PROCESS"}], m |-> <<[t |-> "R"]>>]
          [] OTHER ->
        CASE r.pushack # r.lastack ->
               [r |-> [r EXCEPT !.lastack = r.pushack], m |-> <<[t |-> "A", v |-> r.pushack]>>]
          [] OTHER ->
        CASE Teaching(r) /\ ~Taught(r) -> Entry
          [] Teaching(r) /\ Taught(r) ->
               [r |-> [r EXCEPT !.pf = @ \cup {"TEACH_FINISHED"}],
                m |-> <<[t |-> IF Finished(r) THEN "F" ELSE "C"]>>]
          [] ~Teaching(r) /\ PushesLocal(r) -> Entry
          [] OTHER -> [r |-> r, m |-> <<>>]

WriteMessage(c, p) ==
    LET w == Put(Settled(ps[p]))
        q == Other(p)
    IN  /\ cn[c].st0[p] = "WAITMSG" /\ ~cn[c].cut
        /\ Settled(w.r) # ps[p] /\ Len(cn[c].in[q]) < MaxFlight
        /\ ps' = [ps EXCEPT ![p] = Settled(w.r)]
        /\ cn' = IF cn[c].st0[q] = "END" THEN cn ELSE [cn EXCEPT ![c].in[q] = @ \o w.m]
        /\ UNCHANGED <<local, events>>

\* A connection is cut, with what is on its way; either end notices later.
Cut(c) ==
    /\ events < MaxEvents /\ ~cn[c].cut
    /\ \A p \in Procs : cn[c].st0[p] # "END"
    /\ cn' = [cn EXCEPT ![c].cut = TRUE, ![c].in = [p \in Procs |-> <<>>]]
    /\ events' = events + 1
    /\ UNCHANGED <<local, ps>>

\* An end reads that the connection is closed.
Closed(c, p) ==
    /\ cn[c].client # None /\ cn[c].st0[p] \in {"ACCEPT", "GETSTATUS", "WAITMSG"}
    /\ cn[c].in[p] = <<>> /\ (cn[c].cut \/ cn[c].st0[Other(p)] = "END")
    /\ cn' = Ended(c, p, cn)
    /\ ps' = IF cn[c].st0[p] = "ACCEPT" THEN ps
             ELSE [ps EXCEPT ![p] = PeerSessionRelease(@, c)]
    /\ UNCHANGED <<local, events>>

-----------------------------------------------------------------------------

Task(p) == SyncRunning(p) \/ SyncStopping(p)
Io(c) == \/ Connects(c) \/ Accept(c) \/ GetStatus(c)
         \/ \E p \in Procs : ReadMessage(c, p) \/ WriteMessage(c, p) \/ Closed(c, p)

Next ==
    \/ \E p \in Procs :
          \/ Task(p) \/ (\E t \in {"resync", "reconnect"} : Expires(p, t))
          \/ \E k \in Touched : StktableTouch(p, k)
    \/ SoftStop
    \/ \E c \in Conns : Io(c) \/ ConnectFails(c) \/ Cut(c)

Spec == Init /\ [][Next]_vars

-----------------------------------------------------------------------------

(***************************************************************************)
(* A resync is assigned exactly to the session that is to give the lesson, *)
(* and this session is alive: an assignment that outlives its session      *)
(* would keep both the timeout and every other peer from ending it.        *)
(***************************************************************************)
AssignedToLiveSession ==
    \A p \in Procs :
        /\ "ASSIGN" \in ps[p].flags <=> "LEARN_ASSIGN" \in ps[p].pf
        /\ "LEARN_ASSIGN" \in ps[p].pf => ps[p].session # None
        /\ ps[p].session # None => cn[ps[p].session].st0[p] # "END"

(***************************************************************************)
(* The entries that were in the teacher's tree when the lesson began and   *)
(* were not updated since are all known to the learner when it reads that  *)
(* the lesson is over: those the teacher stored and those it learned.      *)
(***************************************************************************)
Subject(r) == {k \in r.has : r.upd[k] > 0 /\ (r.upd[k] <= r.origin \/ r.upd[k] > r.localupdate)}
LessonComplete ==
    \A c \in Conns : \A p \in Procs :
        /\ cn[c].st0[p] = "WAITMSG" /\ cn[c].in[p] # <<>>
        /\ Head(cn[c].in[p]).t \in {"F", "C"} /\ ps[Other(p)].session = c
        => Subject(ps[Other(p)]) \subseteq ps[p].has

(***************************************************************************)
(* The process that is replaced counts the lesson as given only when its   *)
(* successor has the entries.                                              *)
(***************************************************************************)
HandoverComplete ==
    local /\ "TEACH_COMPLETE" \in ps[Old].pf => Subject(ps[Old]) \subseteq ps[New].has

(***************************************************************************)
(* Nothing is waited for in vain: a resync that is not over has a teacher, *)
(* or the sync task runs now or at the timeout; the process that stays for *)
(* its successor's sake has a session, or the task runs.                   *)
(***************************************************************************)
SyncDriven ==
    \A p \in Procs :
        /\ ~ps[p].stopping /\ ~Finished(ps[p]) =>
             \/ ps[p].woken \/ "resync" \in ps[p].armed
             \/ "ASSIGN" \in ps[p].flags
        /\ ps[p].donotstop => ps[p].woken \/ ps[p].session # None

-----------------------------------------------------------------------------
(* What the proofs need besides: the session a connection belongs to, and  *)
(* the order in which the two ends speak.                                  *)

\* A session is over a connection whose end is open.  While it starts it is the
\* client's only one, and no lesson is assigned to it.
Linked(p) == ps[p].session # None =>
    cn[ps[p].session].st0[p] \in {"CONNECT", "GETSTATUS", "WAITMSG"}
Starting(c, p) ==
    cn[c].client = p /\ cn[c].st0[p] \in {"CONNECT", "GETSTATUS"} =>
      /\ ps[p].session = c /\ ps[p].statuscode \in {"CONNECT", "CONNECTED"}
      /\ "LEARN_ASSIGN" \notin ps[p].pf

\* The server's status is the first thing the client reads; the messages of WAITMSG
\* follow it, and the client's own do not come before it.
Handshake(k) ==
    LET p == k.client
        q == Other(p)
    IN  IF p = None THEN k = NoConn
        ELSE /\ k.st0[p] # "ACCEPT" /\ k.st0[q] \in {"ACCEPT", "WAITMSG", "END"}
             /\ k.st0[p] = "CONNECT" => k.st0[q] = "END"
             /\ k.st0[p] = "CONNECT" \/ k.st0[q] = "ACCEPT" => k.in[p] = <<>> /\ k.in[q] = <<>>
             /\ k.st0[q] = "ACCEPT" => k.st0[p] \in {"GETSTATUS", "END"}
             /\ \A e \in Procs : k.st0[e] = "WAITMSG" => k.in[e] \in Seq(Msg)
             /\ k.st0[p] = "GETSTATUS" =>
                   IF k.in[p] = <<>> THEN k.st0[q] # "WAITMSG" \/ k.cut
                   ELSE Head(k.in[p]) \in Status /\ Tail(k.in[p]) \in Seq(Msg)

PeersInv ==
    /\ TypeOK
    /\ \A p \in Procs :
         /\ "ASSIGN" \in ps[p].flags <=> "LEARN_ASSIGN" \in ps[p].pf
         /\ "LEARN_ASSIGN" \in ps[p].pf => ps[p].session # None
         /\ ps[p].donotstop => ps[p].stopping
         /\ Linked(p) /\ \A c \in Conns : Starting(c, p)
    /\ \A c \in Conns : Handshake(cn[c])
    /\ SyncDriven

-----------------------------------------------------------------------------
(* What the proof that a lesson is complete needs: where each entry of the *)
(* teacher's tree is, past or ahead of the cursor, on its way, or known;   *)
(* and that a session asks for one lesson at most.                         *)

\* The messages of the types ts in a queue, and the entries told in it before the n-th.
At(i, ts) == {n \in DOMAIN i : i[n].t \in ts}
Told(i, n) == {i[j].k : j \in {j \in At(i, {"D"}) : j < n}}

\* The entries a lesson owes: the tree's, but for those updated since it began.  And
\* those that the cursor has still to come to.
Owed(r) == {k \in Keys : r.upd[k] > 0 /\ ~(/\ r.origin < r.upd[k] /\ r.upd[k] <= r.update
                                           /\ r.upd[k] <= r.localupdate)}
Ahead(r, k) ==
    IF "TEACH_STAGE1" \notin r.pf THEN r.upd[k] > r.pushed \/ r.upd[k] <= r.origin
    ELSE "TEACH_STAGE2" \notin r.pf /\ r.pushed < r.upd[k] /\ r.upd[k] <= r.origin

\* A lesson that was begun has told every entry that is not ahead of the cursor.
Progress(r, known) ==
    "TEACH_PROCESS" \in r.pf => \A k \in Owed(r) : k \in known \/ Ahead(r, k)

\* The lesson was asked for.
Asked(r) == "LEARN_ASSIGN" \in r.pf /\ "PROCESS" \in r.flags

\* A record on its own: the tree holds stored entries by keys of their own, the
\* stages of a lesson follow each other, and only the old process stops.
Sound(r, p) ==
    /\ \A k \in Keys : r.upd[k] > 0 => k \in r.has
    /\ \A j, k \in Keys : r.upd[j] = r.upd[k] => j = k \/ r.upd[j] = 0
    /\ r.origin <= r.update
    /\ "TEACH_STAGE2" \in r.pf => "TEACH_STAGE1" \in r.pf
    /\ "TEACH_FINISHED" \in r.pf => "TEACH_STAGE2" \in r.pf
    /\ r.stopping => local /\ p = Old
    /\ local /\ "LEARN_ASSIGN" \in r.pf => "PROCESS" \in r.flags

\* The queue of p's end: what an end reads that is over, or waits for the status.
\* t is the record of the other end.
Queued(t, k, p) ==
    /\ k.st0[p] = "END" => At(k.in[p], {"R", "F", "C", "c"}) = {}
    /\ \A n \in At(k.in[p], {"D"}) : k.in[p][n].k \in t.has
    /\ local => At(k.in[p], {"R"}) = {}
    /\ k.st0[p] = "GETSTATUS" =>
         /\ k.in[Other(p)] = <<>> /\ At(k.in[p], {"c", "F", "C"}) = {}
         /\ k.st0[Other(p)] = "WAITMSG" => "TEACH_PROCESS" \notin t.pf /\ t.confirm = 0

\* The lesson that t gives to r over c, whose end is p's.
Lessons(t, r, k, c, p) ==
    LET q == Other(p)
        heard == At(k.in[p], {"F", "C"})
        asks  == At(k.in[q], {"R"})
        gives == k.st0[q] = "WAITMSG" /\ Teaching(t)
    IN  /\ k.st0[q] = "WAITMSG" /\ k.st0[p] # "END" /\ ~k.cut =>
             Progress(t, r.has \cup Told(k.in[p], Len(k.in[p]) + 1))
        /\ t.session = c => \A n \in heard : Owed(t) \subseteq r.has \cup Told(k.in[p], n)
        /\ ~local /\ k.st0[p] = "WAITMSG" =>
             /\ asks # {} => Asked(r) /\ ~gives /\ heard = {} /\ \A m, n \in asks : m = n
             /\ gives => Asked(r) /\ heard = {}
             /\ heard # {} => Asked(r) /\ \A m, n \in heard : m = n
        /\ local /\ t.session = c /\ At(k.in[q], {"c"}) # {} => Owed(t) \subseteq r.has
        /\ local /\ t.session = c /\ k.st0[p] = "WAITMSG" /\ k.st0[q] = "WAITMSG"
             /\ r.confirm > 0 => Owed(t) \subseteq r.has

\* The lesson that was confirmed to the process that stops.
Handed(t, r) ==
    "TEACH_COMPLETE" \in t.pf => t.stopping /\ t.session = None /\ Owed(t) \subseteq r.has

LessonInv ==
    \A p \in Procs :
      /\ Sound(ps[p], p) /\ Handed(ps[Other(p)], ps[p])
      /\ \A c \in Conns :
           /\ cn[c].st0[p] = "WAITMSG" => ps[p].session = c
           /\ Queued(ps[Other(p)], cn[c], p)
           /\ Lessons(ps[Other(p)], ps[p], cn[c], c, p)

\* The new process does not connect to the one it replaces.
OneWay == local => \A c \in Conns : cn[c].client # New
=============================================================================
