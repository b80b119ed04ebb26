----------------------------- MODULE PeersProofs -----------------------------
(***************************************************************************)
(* For any table, any number of connections and any bound on connects,     *)
(* updates, lost connections and messages under way: the types, that a     *)
(* resync is assigned to a session that is alive, that a resync which is   *)
(* not over is never left to nobody, and, in the second part, that a       *)
(* lesson whose end is read is complete, a handover to a successor too.    *)
(***************************************************************************)
EXTENDS Peers, FiniteSetTheorems, WellFoundedInduction, SequenceTheorems, TLAPS

\* What the proofs keep of one process's record.
Assigned(r) ==
    /\ "ASSIGN" \in r.flags <=> "LEARN_ASSIGN" \in r.pf
    /\ "LEARN_ASSIGN" \in r.pf => r.session # None
    /\ r.donotstop => r.stopping
Driven(r) ==
    /\ ~r.stopping /\ ~Finished(r) =>
         r.woken \/ "resync" \in r.armed \/ "ASSIGN" \in r.flags
    /\ r.donotstop => r.woken \/ r.session # None

\* Two records that may differ in the cursors, the stages and the table only.
Alike(r, R) ==
    /\ R.flags = r.flags /\ R.session = r.session /\ R.statuscode = r.statuscode
    /\ R.woken = r.woken /\ R.armed = r.armed /\ R.stopping = r.stopping
    /\ R.donotstop = r.donotstop

-----------------------------------------------------------------------------
(* The tree of updates.                                                    *)

\* A nonempty set of numbers has a least member, and Min gives it.
LEMMA LeastIsMin ==
  ASSUME NEW S \in SUBSET Nat, S # {}
  PROVE  Min(S) \in S /\ \A n \in S : Min(S) <= n
<1>1. PICK x \in S : \A y \in S : <<y, x>> \notin OpToRel(<, Nat)
  BY NatLessThanWellFounded, WFMin
<1>2. \A y \in S : ~(y < x)
  BY <1>1 DEF OpToRel
<1>3. \A y \in S : x <= y
  BY <1>2
<1> QED BY <1>3 DEF Min

\* A lookup in the tree finds the key of an entry past u, or nothing.
LEMMA AfterType ==
  ASSUME NEW r \in Process, NEW u \in Nat
  PROVE  /\ After(r, u) \in Nat
         /\ After(r, u) # 0 => After(r, u) > u /\ KeyOf(r, After(r, u)) \in Keys
<1> DEFINE later == {r.upd[k] : k \in {x \in Keys : r.upd[x] > u}}
<1>1. r.upd \in [Keys -> Nat]
  BY DEF Process
<1>2. later \in SUBSET Nat
  BY <1>1
<1>3. CASE later = {}
  BY <1>3 DEF After
<1>4. CASE later # {}
  <2>1. Min(later) \in later
    BY <1>2, <1>4, LeastIsMin
  <2>2. After(r, u) = Min(later)
    BY <1>4 DEF After
  <2>3. PICK k \in Keys : r.upd[k] = After(r, u) /\ r.upd[k] > u
    BY <2>1, <2>2
  <2>4. KeyOf(r, After(r, u)) \in Keys
    BY <2>3 DEF KeyOf
  <2> QED BY <1>1, <2>3, <2>4
<1> QED BY <1>3, <1>4

\* An entry inserted into the tree leaves a tree.
LEMMA InsertType ==
  ASSUME NEW upd \in [Keys -> Nat], NEW k \in Keys, NEW u \in Nat
  PROVE  Insert(upd, k, u) \in [Keys -> Nat]
BY DEF Insert

\* A record that is registered is one, whatever the updates of its table.
LEMMA RegisteredType ==
  ASSUME NEW upd \in [Keys -> Nat]
  PROVE  /\ Registered(upd) \in Process
         /\ Assigned(Registered(upd)) /\ Driven(Registered(upd))
<1> DEFINE stored == {k \in Keys : upd[k] > 0}
           U == {upd[k] : k \in {x \in Keys : upd[x] <= Offset}}
           S == {0} \cup U
<1>1. Cardinality(stored) \in Nat
  BY PeersAssumption, FS_Subset, FS_CardinalityType
<1>2. Max(S) \in Nat
  <2>1. S \in SUBSET (0..Offset)
    BY PeersAssumption
  <2> DEFINE T == {Offset - n : n \in S}
  <2>2. \A n \in S : n \in Nat /\ Offset - n \in Nat
    BY <2>1, PeersAssumption
  <2>3. T \in SUBSET Nat /\ T # {}
    BY <2>2
  <2>4. Min(T) \in T /\ \A t \in T : Min(T) <= t
    BY <2>3, LeastIsMin
  <2>5. PICK n \in S : Min(T) = Offset - n
    BY <2>4
  <2>6. ASSUME NEW m \in S PROVE n >= m
    <3>1. Offset - n <= Offset - m
      BY <2>4, <2>5
    <3> QED BY <3>1, <2>2, PeersAssumption
  <2>7. \E x \in S : \A y \in S : x >= y
    BY <2>6
  <2>8. Max(S) \in S
    BY <2>7 DEF Max
  <2> QED BY <2>2, <2>8
<1>3. Registered(upd) \in Process
  BY <1>1, <1>2 DEF Registered, Process, Max
<1> QED BY <1>3 DEF Registered, Assigned, Driven

-----------------------------------------------------------------------------
(* The steps of a session, as functions of the record.                     *)

\* A session that is released leaves no assignment, and the sync task awake.
LEMMA ReleaseKeeps ==
  ASSUME NEW r \in Process, Assigned(r), NEW c
  PROVE  LET R == PeerSessionRelease(r, c)
         IN  /\ R \in Process /\ Assigned(R) /\ R.woken
             /\ R.session = IF r.session = c THEN None ELSE r.session
             /\ r.session # c => R.pf = r.pf
             /\ R.statuscode = r.statuscode /\ R.stopping = r.stopping
             /\ R.donotstop = r.donotstop
<1> DEFINE R == PeerSessionRelease(r, c)
<1>0. /\ Idle(r) \in Process /\ Idle(r).session = None
      /\ Idle(r).pf = r.pf \ (Teach \cup Learn) /\ Idle(r).flags = r.flags
      /\ Idle(r).statuscode = r.statuscode /\ Idle(r).stopping = r.stopping
      /\ Idle(r).donotstop = r.donotstop
  BY DEF Process, Idle
<1>1. CASE r.session # c
  <2>1. R = [r EXCEPT !.woken = TRUE]
    BY <1>1 DEF PeerSessionRelease
  <2> QED BY <1>1, <2>1 DEF Process, Assigned
<1>2. CASE r.session = c /\ "LEARN_ASSIGN" \notin r.pf
  <2>1. R = [Idle(r) EXCEPT !.woken = TRUE]
    BY <1>2 DEF PeerSessionRelease
  <2>2. R \in Process /\ R.woken /\ R.session = None
    BY <2>1, <1>0 DEF Process
  <2>3. /\ R.pf = r.pf \ (Teach \cup Learn) /\ R.flags = r.flags
        /\ R.statuscode = r.statuscode /\ R.stopping = r.stopping
        /\ R.donotstop = r.donotstop
    BY <2>1, <1>0 DEF Process
  <2> QED BY <1>2, <2>2, <2>3 DEF Assigned, Learn
<1>3. CASE r.session = c /\ "LEARN_ASSIGN" \in r.pf
  <2> DEFINE l == [Idle(r) EXCEPT !.flags = @ \ {"ASSIGN", "PROCESS"}, !.due = FALSE]
  <2>1. R = [l EXCEPT !.woken = TRUE]
    BY <1>3 DEF PeerSessionRelease
  <2>2. l \in Process
    BY <1>0 DEF Process
  <2>3. /\ l.pf = r.pf \ (Teach \cup Learn) /\ l.flags = r.flags \ {"ASSIGN", "PROCESS"}
        /\ l.statuscode = r.statuscode /\ l.stopping = r.stopping
        /\ l.donotstop = r.donotstop /\ l.session = None
    BY <1>0 DEF Process
  <2> HIDE DEF l
  <2>4. R \in Process /\ R.woken
    BY <2>1, <2>2 DEF Process
  <2>5. /\ R.pf = l.pf /\ R.flags = l.flags /\ R.statuscode = l.statuscode
        /\ R.stopping = l.stopping /\ R.donotstop = l.donotstop /\ R.session = l.session
    BY <2>1, <2>2 DEF Process
  <2> QED BY <1>3, <2>3, <2>4, <2>5 DEF Assigned, Learn
<1> QED BY <1>1, <1>2, <1>3

\* A session is created over a connection.
LEMMA CreateKeeps ==
  ASSUME NEW r \in Process, Assigned(r), NEW c \in Conns, r.session = None
  PROVE  LET R == PeerSessionCreate(r, c)
         IN  /\ R \in Process /\ Assigned(R) /\ R.session = c
             /\ R.statuscode = "CONNECT" /\ "LEARN_ASSIGN" \notin R.pf
             /\ (~r.stopping /\ Driven(r)) \/ r.stopping => Driven(R)
BY PeersAssumption DEF PeerSessionCreate, Process, Assigned, Driven, Finished

\* A session begins without an assignment, or with a new one.
LEMMA BegunKeeps ==
  ASSUME NEW r \in Process, Assigned(r), "LEARN_ASSIGN" \notin r.pf, r.session # None
  PROVE  LET R == Begun(r)
         IN  /\ R \in Process /\ Assigned(R) /\ R.woken /\ R.session = r.session
             /\ R.stopping = r.stopping /\ R.donotstop = r.donotstop
<1> DEFINE r0 == [r EXCEPT !.statuscode = "SUCCESS", !.woken = TRUE, !.origin = 0,
                           !.lastack = 0, !.pushack = 0, !.pushed = r.acked, !.confirm = 0,
                           !.pf = @ \ (Teach \cup Learn)]
<1>1. /\ r0 \in Process /\ Assigned(r0) /\ r0.woken /\ r0.session = r.session
      /\ r0.stopping = r.stopping /\ r0.donotstop = r.donotstop
  BY DEF Process, Assigned, Teach, Learn
<1> DEFINE r1 == [r0 EXCEPT !.pf = @ \cup {"LEARN_ASSIGN"}, !.flags = @ \cup {"ASSIGN"}]
<1>2. Begun(r) = r0 \/ Begun(r) = r1
  BY DEF Begun
<1> HIDE DEF r0
<1>3. /\ r1 \in Process /\ Assigned(r1) /\ r1.woken /\ r1.session = r.session
      /\ r1.stopping = r.stopping /\ r1.donotstop = r.donotstop
  BY <1>1 DEF Process, Assigned, Learn
<1> QED BY <1>1, <1>2, <1>3

\* A lesson that begins changes neither the assignment nor the task.
LEMMA LessonKeeps ==
  ASSUME NEW r \in Process, Assigned(r)
  PROVE  LET R == Lesson(r)
         IN  /\ R \in Process /\ Assigned(R) /\ (Driven(r) => Driven(R))
             /\ R.session = r.session /\ R.woken = r.woken
             /\ R.stopping = r.stopping /\ R.donotstop = r.donotstop
BY DEF Lesson, Process, Assigned, Driven, Finished, Teach

\* Every message of WAITMSG keeps the assignment and the task in step.
LEMMA ReceivedKeeps ==
  ASSUME NEW r \in Process, Assigned(r), Driven(r), NEW m \in Msg
  PROVE  LET R == Received(r, m)
         IN  /\ R \in Process /\ Assigned(R) /\ Driven(R)
             /\ R.session = r.session /\ R.statuscode = r.statuscode
             /\ "LEARN_ASSIGN" \in R.pf => "LEARN_ASSIGN" \in r.pf
<1> DEFINE R == Received(r, m)
<1>8. /\ Unassign(r) \in Process
      /\ Unassign(r).flags = r.flags \ {"ASSIGN", "PROCESS"}
      /\ Unassign(r).pf = r.pf \ {"LEARN_ASSIGN"}
      /\ Unassign(r).session = r.session /\ Unassign(r).stopping = r.stopping
      /\ Unassign(r).woken = r.woken
      /\ Unassign(r).donotstop = r.donotstop /\ Unassign(r).statuscode = r.statuscode
  BY DEF Unassign, Process
<1>1. CASE m.t = "D"
  <2>1. m.k \in Keys /\ m.v \in Nat
    BY <1>1 DEF Msg
  <2>2. r.update + 1 \in Nat /\ r.update + 1 + Offset \in Nat /\ r.upd \in [Keys -> Nat]
    BY PeersAssumption DEF Process
  <2>3. Insert(r.upd, m.k, r.update + 1 + Offset) \in [Keys -> Nat]
    BY <2>1, <2>2, InsertType
  <2>4. R = [Learned(r, m.k) EXCEPT !.pushack = m.v]
    BY <1>1 DEF Received
  <2>5. CASE m.k \in r.has
    BY <2>1, <2>4, <2>5 DEF Learned, Process, Assigned, Driven, Finished
  <2>6. CASE m.k \notin r.has
    <3> DEFINE l == Learned(r, m.k)
    <3>1. l \in Process
      BY <2>1, <2>2, <2>3, <2>6 DEF Learned, Process
    <3>2. /\ l.flags = r.flags /\ l.pf = r.pf /\ l.session = r.session
          /\ l.woken = r.woken /\ l.armed = r.armed /\ l.stopping = r.stopping
          /\ l.donotstop = r.donotstop /\ l.statuscode = r.statuscode
      BY <2>6 DEF Learned, Process
    <3> HIDE DEF l
    <3>3. R \in Process
      BY <2>1, <2>4, <3>1 DEF Process, l
    <3>4. /\ R.flags = r.flags /\ R.pf = r.pf /\ R.session = r.session
          /\ R.woken = r.woken /\ R.armed = r.armed /\ R.stopping = r.stopping
          /\ R.donotstop = r.donotstop /\ R.statuscode = r.statuscode
      BY <2>4, <3>1, <3>2 DEF Process, l
    <3> QED BY <3>3, <3>4 DEF Assigned, Driven, Finished
  <2> QED BY <2>5, <2>6
<1>2. CASE m.t = "R"
  BY <1>2 DEF Received, Lesson, Process, Assigned, Driven, Finished, Teach
<1>3. CASE m.t = "F"
  <2>1. R = [IF "LEARN_ASSIGN" \in r.pf THEN Finish(r) ELSE r EXCEPT !.confirm = @ + 1]
    BY <1>3 DEF Received
  <2>2. CASE "LEARN_ASSIGN" \in r.pf
    <3> DEFINE l == Finish(r)
    <3>1. l \in Process
      BY <1>8 DEF Finish, Process
    <3>2. /\ l.flags = (r.flags \ {"ASSIGN", "PROCESS"}) \cup {"LOCAL", "REMOTE"}
          /\ l.pf = r.pf \ {"LEARN_ASSIGN"}
          /\ l.session = r.session /\ l.stopping = r.stopping
          /\ l.donotstop = r.donotstop /\ l.statuscode = r.statuscode
          /\ l.woken = r.woken
      BY <1>8 DEF Finish, Process
    <3> HIDE DEF l
    <3>3. R = [l EXCEPT !.confirm = @ + 1]
      BY <2>1, <2>2 DEF l
    <3>4. R \in Process
      BY <3>1, <3>3 DEF Process
    <3>5. /\ R.flags = l.flags /\ R.pf = l.pf /\ R.session = l.session
          /\ R.woken = l.woken /\ R.stopping = l.stopping
          /\ R.donotstop = l.donotstop /\ R.statuscode = l.statuscode
      BY <3>1, <3>3 DEF Process
    <3> QED BY <2>2, <3>2, <3>4, <3>5 DEF Assigned, Driven, Finished
  <2>3. CASE "LEARN_ASSIGN" \notin r.pf
    BY <2>1, <2>3 DEF Process, Assigned, Driven, Finished
  <2> QED BY <2>2, <2>3
<1>4. CASE m.t = "C"
  <2>1. R = [IF "LEARN_ASSIGN" \in r.pf THEN Continue(r) ELSE r EXCEPT !.confirm = @ + 1]
    BY <1>4 DEF Received
  <2>2. CASE "LEARN_ASSIGN" \in r.pf
    <3> DEFINE l == Continue(r)
    <3>1. l \in Process
      BY <1>8 DEF Continue, Process, Learn
    <3>2. /\ l.flags = r.flags \ {"ASSIGN", "PROCESS"}
          /\ l.pf = (r.pf \ {"LEARN_ASSIGN"}) \cup {"LEARN_NOTUP2DATE"}
          /\ l.session = r.session /\ l.stopping = r.stopping
          /\ l.donotstop = r.donotstop /\ l.statuscode = r.statuscode /\ l.woken
      BY <1>8 DEF Continue, Process
    <3> HIDE DEF l
    <3>3. R = [l EXCEPT !.confirm = @ + 1]
      BY <2>1, <2>2 DEF l
    <3>4. R \in Process
      BY <3>1, <3>3 DEF Process
    <3>5. /\ R.flags = l.flags /\ R.pf = l.pf /\ R.session = l.session
          /\ R.woken = l.woken /\ R.stopping = l.stopping
          /\ R.donotstop = l.donotstop /\ R.statuscode = l.statuscode
      BY <3>1, <3>3 DEF Process
    <3> QED BY <2>2, <3>2, <3>4, <3>5 DEF Assigned, Driven, Finished
  <2>3. CASE "LEARN_ASSIGN" \notin r.pf
    BY <2>1, <2>3 DEF Process, Assigned, Driven, Finished
  <2> QED BY <2>2, <2>3
<1>5. CASE m.t = "A"
  <2>1. m.v \in Nat
    BY <1>5 DEF Msg
  <2> QED BY <1>5, <2>1 DEF Received, Process, Assigned, Driven, Finished
<1>6. CASE m.t = "c"
  BY <1>6 DEF Received, Process, Assigned, Driven, Finished, Teach
<1>7. m.t \in {"D", "R", "F", "C", "A", "c"}
  BY DEF Msg
<1> QED BY <1>1, <1>2, <1>3, <1>4, <1>5, <1>6, <1>7

SessionFlags == Teach \cup Learn \cup {"TEACH_COMPLETE"}

Moved(r, f, n) == [r EXCEPT !.pf = f, !.pushed = n]

\* The cursor and the flags of a session are moved.
LEMMA CursorMoved ==
  ASSUME NEW r \in Process, NEW f \in SUBSET SessionFlags, NEW n \in Nat
  PROVE  /\ Moved(r, f, n) \in Process /\ Moved(r, f, n).pf = f
         /\ Moved(r, f, n).pushed = n /\ Alike(r, Moved(r, f, n))
         /\ Moved(r, f, n).localupdate = r.localupdate
BY DEF Process, Alike, SessionFlags, Moved

\* Records that are alike and have the same assignment are as good.
LEMMA AlikeKeeps ==
  ASSUME NEW r, NEW R, Alike(r, R), Assigned(r),
         "LEARN_ASSIGN" \in R.pf <=> "LEARN_ASSIGN" \in r.pf
  PROVE  Assigned(R) /\ (Driven(r) => Driven(R))
BY DEF Alike, Assigned, Driven, Finished

\* Between two messages the handler moves only the session's cursors and stages; and
\* when a lesson goes on, or a local update is to be pushed, there is an entry.
LEMMA SettledKeeps ==
  ASSUME NEW r \in Process
  PROVE  LET R == Settled(r)
         IN  /\ R \in Process
             /\ Alike(r, R)
             /\ \A f \in Learn : f \in R.pf <=> f \in r.pf
             /\ Teaching(R) /\ ~Taught(R) => After(R, R.pushed) # 0
             /\ ~Teaching(R) /\ PushesLocal(R) => After(R, R.pushed) # 0
<1> DEFINE r1 == Stage1(r)
           r2 == Stage2(r1)
           R  == LocalDone(r2)
<1>1. /\ r1 \in Process /\ Alike(r, r1)
      /\ r1.pf = r.pf \/ r1.pf = r.pf \cup {"TEACH_STAGE1"}
      /\ Teaching(r1) /\ "TEACH_STAGE1" \notin r1.pf => After(r1, r1.pushed) # 0
  <2>0. r.pushed \in Nat
    BY DEF Process
  <2>1. After(r, r.pushed) \in Nat /\ After(r, 0) \in Nat
    BY <2>0, AfterType
  <2>2. CASE ~Teaching(r) \/ "TEACH_STAGE1" \in r.pf \/ After(r, r.pushed) # 0
    <3>1. r1 = r
      BY <2>2 DEF Stage1
    <3>2. Alike(r, r)
      BY DEF Alike
    <3> QED BY <2>2, <3>1, <3>2
  <2>3. CASE ~(~Teaching(r) \/ "TEACH_STAGE1" \in r.pf \/ After(r, r.pushed) # 0)
    <3> DEFINE n == IF After(r, 0) = 0 THEN r.pushed ELSE After(r, 0) - 1
    <3>1. n \in Nat
      BY <2>0, <2>1
    <3>2. r1 = Moved(r, r.pf \cup {"TEACH_STAGE1"}, n)
      BY <2>3 DEF Stage1, Moved
    <3> HIDE DEF n
    <3>3. r.pf \cup {"TEACH_STAGE1"} \in SUBSET SessionFlags
      BY DEF Process, Teach, SessionFlags
    <3> HIDE DEF r1
    <3>4. r1 \in Process /\ r1.pf = r.pf \cup {"TEACH_STAGE1"} /\ Alike(r, r1)
      BY <3>1, <3>2, <3>3, CursorMoved
    <3> QED BY <3>4
  <2> QED BY <2>2, <2>3
<1> HIDE DEF r1
<1>2. /\ r2 \in Process /\ Alike(r1, r2)
      /\ r2.pf = r1.pf \/ r2.pf = r1.pf \cup {"TEACH_STAGE2"}
      /\ Teaching(r2) /\ ~Taught(r2) => After(r2, r2.pushed) # 0
  <2> DEFINE u == After(r1, r1.pushed)
             stays == ~Teaching(r1) \/ "TEACH_STAGE1" \notin r1.pf \/ (u # 0 /\ u <= r1.origin)
  <2>1. CASE stays
    <3>1. r2 = r1
      BY <2>1 DEF Stage2
    <3>2. Alike(r1, r1)
      BY DEF Alike
    <3> QED BY <1>1, <2>1, <3>1, <3>2
  <2>2. CASE ~stays
    <3>1. r2 = Moved(r1, r1.pf \cup {"TEACH_STAGE2"}, r1.origin)
      BY <2>2 DEF Stage2, Moved
    <3>2. r1.pf \cup {"TEACH_STAGE2"} \in SUBSET SessionFlags /\ r1.origin \in Nat
      BY <1>1 DEF Process, Teach, SessionFlags
    <3> HIDE DEF r2
    <3>3. r2 \in Process /\ r2.pf = r1.pf \cup {"TEACH_STAGE2"} /\ Alike(r1, r2)
      BY <1>1, <3>1, <3>2, CursorMoved
    <3>4. Taught(r2)
      BY <2>2, <3>3 DEF Taught
    <3> QED BY <3>3, <3>4
  <2> QED BY <2>1, <2>2
<1> HIDE DEF r2
<1>3. /\ R \in Process /\ Alike(r2, R)
      /\ R.pf = r2.pf
      /\ Teaching(R) /\ ~Taught(R) => After(R, R.pushed) # 0
      /\ ~Teaching(R) /\ PushesLocal(R) => After(R, R.pushed) # 0
  <2> DEFINE u == After(r2, r2.pushed)
             over == PushesLocal(r2) /\ (u = 0 \/ u > r2.localupdate)
  <2>1. CASE ~over
    <3>1. R = r2
      BY <2>1 DEF LocalDone
    <3>2. Alike(r2, r2)
      BY DEF Alike
    <3> QED BY <1>2, <2>1, <3>1, <3>2
  <2>2. CASE over
    <3>1. R = Moved(r2, r2.pf, r2.localupdate)
      BY <1>2, <2>2 DEF LocalDone, Process, Moved
    <3>2. r2.pf \in SUBSET SessionFlags /\ r2.localupdate \in Nat
      BY <1>2 DEF Process, SessionFlags
    <3> HIDE DEF R
    <3>3. /\ R \in Process /\ R.pf = r2.pf /\ R.pushed = r2.localupdate /\ Alike(r2, R)
          /\ R.localupdate = r2.localupdate
      BY <1>2, <3>1, <3>2, CursorMoved
    <3>4. ~Teaching(R)
      BY <2>2, <3>3 DEF PushesLocal, Teaching
    <3>5. ~PushesLocal(R)
      BY <3>2, <3>3 DEF PushesLocal
    <3> QED BY <3>3, <3>4, <3>5
  <2> QED BY <2>1, <2>2
<1>4. Settled(r) = R
  BY DEF Settled, r1, r2
<1> HIDE DEF R
<1>5. \A f \in Learn : f \in R.pf <=> f \in r.pf
  BY <1>1, <1>2, <1>3 DEF Learn
<1>6. Alike(r, R)
  BY <1>1, <1>2, <1>3 DEF Alike
<1> QED BY <1>3, <1>4, <1>5, <1>6

\* The message that is put is one of WAITMSG, and the record stays a good one.
LEMMA PutKeeps ==
  ASSUME NEW r \in Process, Assigned(r), Driven(r),
         Teaching(r) /\ ~Taught(r) => After(r, r.pushed) # 0,
         ~Teaching(r) /\ PushesLocal(r) => After(r, r.pushed) # 0
  PROVE  LET w == Put(r)
         IN  /\ w.r \in Process /\ Assigned(w.r) /\ Driven(w.r)
             /\ w.r.session = r.session /\ w.r.statuscode = r.statuscode
             /\ "LEARN_ASSIGN" \in w.r.pf <=> "LEARN_ASSIGN" \in r.pf
             /\ w.m \in Seq(Msg)
<1> DEFINE u == After(r, r.pushed)
           d == [t |-> "D", k |-> KeyOf(r, u), v |-> u]
           e == [t |-> IF Finished(r) THEN "F" ELSE "C"]
           a == [t |-> "A", v |-> r.pushack]
           rc == [r EXCEPT !.confirm = @ - 1]
           rr == [r EXCEPT !.flags = @ \cup {"PROCESS"}]
           ra == [r EXCEPT !.lastack = r.pushack]
           rd == [r EXCEPT !.pushed = u]
           re == [r EXCEPT !.pf = @ \cup {"TEACH_FINISHED"}]
<1>1. \/ Put(r) = [r |-> rc, m |-> <<[t |-> "c"]>>] /\ r.confirm > 0
      \/ Put(r) = [r |-> rr, m |-> <<[t |-> "R"]>>]
      \/ Put(r) = [r |-> ra, m |-> <<a>>]
      \/ Put(r) = [r |-> rd, m |-> <<d>>] /\ u # 0
      \/ Put(r) = [r |-> re, m |-> <<e>>]
      \/ Put(r) = [r |-> r, m |-> <<>>]
  BY Zenon DEF Put
<1>2. /\ r.pushed \in Nat /\ r.pushack \in Nat /\ r.confirm \in Nat
      /\ r.pf \cup {"TEACH_FINISHED"} \in SUBSET SessionFlags
      /\ r.flags \cup {"PROCESS"} \in SUBSET {"LOCAL", "REMOTE", "ASSIGN", "PROCESS"}
  BY DEF Process, SessionFlags, Teach
<1>3. u \in Nat /\ (u # 0 => KeyOf(r, u) \in Keys)
  BY <1>2, AfterType
<1>4. /\ [t |-> "c"] \in Msg /\ [t |-> "R"] \in Msg /\ e \in Msg /\ a \in Msg
      /\ u # 0 => d \in Msg
  <2> HIDE DEF u
  <2>1. [t |-> "c"] \in Msg /\ [t |-> "R"] \in Msg /\ e \in Msg
    BY DEF Msg
  <2>2. a \in [t : {"A"}, v : Nat]
    BY <1>2
  <2>4. \A k \in Keys, v \in Nat : [t |-> "D", k |-> k, v |-> v] \in [t : {"D"}, k : Keys, v : Nat]
    OBVIOUS
  <2>3. ASSUME u # 0 PROVE d \in [t : {"D"}, k : Keys, v : Nat]
    BY <1>3, <2>3, <2>4
  <2> QED BY <2>1, <2>2, <2>3 DEF Msg
<1> DEFINE Good(R) == /\ R \in Process /\ Assigned(R) /\ Driven(R)
                      /\ R.session = r.session /\ R.statuscode = r.statuscode
                      /\ "LEARN_ASSIGN" \in R.pf <=> "LEARN_ASSIGN" \in r.pf
<1> HIDE DEF u
<1>5. ASSUME r.confirm > 0 PROVE Good(rc)
  <2>1. r.confirm - 1 \in Nat
    BY <1>2, <1>5
  <2>2. rc \in Process /\ Alike(r, rc) /\ rc.pf = r.pf
    BY <2>1 DEF Process, Alike
  <2>3. Assigned(rc) /\ Driven(rc)
    BY <2>2, AlikeKeeps
  <2> QED BY <2>2, <2>3 DEF Alike
<1>6. Good(ra)
  <2>1. ra \in Process /\ Alike(r, ra) /\ ra.pf = r.pf
    BY <1>2 DEF Process, Alike
  <2>3. Assigned(ra) /\ Driven(ra)
    BY <2>1, AlikeKeeps
  <2> QED BY <2>1, <2>3 DEF Alike
<1>7. Good(rd)
  <2>1. rd \in Process /\ Alike(r, rd) /\ rd.pf = r.pf
    BY <1>3 DEF Process, Alike
  <2>3. Assigned(rd) /\ Driven(rd)
    BY <2>1, AlikeKeeps
  <2> QED BY <2>1, <2>3 DEF Alike
<1>8. Good(re)
  <2>0. re = Moved(r, r.pf \cup {"TEACH_FINISHED"}, r.pushed)
    BY DEF Process, Moved
  <2> HIDE DEF re
  <2>1. re \in Process /\ Alike(r, re) /\ re.pf = r.pf \cup {"TEACH_FINISHED"}
    BY <1>2, <2>0, CursorMoved
  <2>3. Assigned(re) /\ Driven(re)
    BY <2>1, AlikeKeeps
  <2> QED BY <2>1, <2>3 DEF Alike
<1>9. Good(rr)
  <2>1. rr \in Process
    BY <1>2 DEF Process
  <2>2. /\ rr.flags = r.flags \cup {"PROCESS"} /\ rr.pf = r.pf
        /\ rr.session = r.session /\ rr.statuscode = r.statuscode
        /\ rr.woken = r.woken /\ rr.armed = r.armed /\ rr.stopping = r.stopping
        /\ rr.donotstop = r.donotstop
    BY DEF Process
  <2> QED BY <2>1, <2>2 DEF Assigned, Driven, Finished
<1> HIDE DEF rc, rr, ra, rd, re, d, e, a
<1>10. CASE Put(r) = [r |-> rc, m |-> <<[t |-> "c"]>>] /\ r.confirm > 0
  BY <1>10, <1>5, <1>4
<1>11. CASE Put(r) = [r |-> rr, m |-> <<[t |-> "R"]>>]
  BY <1>11, <1>9, <1>4
<1>12. CASE Put(r) = [r |-> ra, m |-> <<a>>]
  BY <1>12, <1>6, <1>4
<1>13. CASE Put(r) = [r |-> rd, m |-> <<d>>] /\ u # 0
  BY <1>13, <1>7, <1>4
<1>14. CASE Put(r) = [r |-> re, m |-> <<e>>]
  BY <1>14, <1>8, <1>4
<1>15. CASE Put(r) = [r |-> r, m |-> <<>>]
  BY <1>15
<1> QED BY <1>1, <1>10, <1>11, <1>12, <1>13, <1>14, <1>15

-----------------------------------------------------------------------------
(* The connections.                                                        *)

\* The tie between p's record and the connections: Linked and Starting.
Tied(r, p, conn) ==
    /\ r.session # None => conn[r.session].st0[p] \in {"CONNECT", "GETSTATUS", "WAITMSG"}
    /\ \A c \in Conns :
         conn[c].client = p /\ conn[c].st0[p] \in {"CONNECT", "GETSTATUS"} =>
           /\ r.session = c /\ r.statuscode \in {"CONNECT", "CONNECTED"}
           /\ "LEARN_ASSIGN" \notin r.pf

\* A connection keeps to the protocol, and so do all of them.
Orderly(conn) == conn \in [Conns -> Connection] /\ \A c \in Conns : Handshake(conn[c])

\* The other process is one, and not this one.
LEMMA OtherProc ==
  ASSUME NEW p \in Procs
  PROVE  /\ Other(p) \in Procs /\ Other(p) # p /\ Other(Other(p)) = p
         /\ Procs = {p, Other(p)} /\ p # None
BY PeersAssumption DEF Procs, Other

\* A connection that does not exist.
LEMMA NoConnType ==
  /\ NoConn \in Connection /\ Handshake(NoConn) /\ NoConn.client = None
  /\ \A p \in Procs : NoConn.st0[p] = "END" /\ NoConn.in[p] = <<>>
BY DEF NoConn, Connection, Handshake

\* The end of p is over: the record of the connection.
EndOf(k, p) == IF k.st0[Other(p)] = "END" THEN NoConn
               ELSE [k EXCEPT !.st0[p] = "END", !.in[p] = <<>>]

\* One end of a connection is over: the two ends still speak in order.
LEMMA EndOfKeeps ==
  ASSUME NEW k \in Connection, Handshake(k), NEW p \in Procs
  PROVE  /\ EndOf(k, p) \in Connection /\ Handshake(EndOf(k, p))
         /\ EndOf(k, p).st0[p] = "END"
         /\ EndOf(k, p).st0[Other(p)] = k.st0[Other(p)]
         /\ EndOf(k, p).client \in {k.client, None}
<1> DEFINE q == Other(p)
           E == [k EXCEPT !.st0[p] = "END", !.in[p] = <<>>]
<1>1. CASE k.st0[q] = "END"
  <2>1. EndOf(k, p) = NoConn
    BY <1>1 DEF EndOf
  <2> QED BY <1>1, <2>1, NoConnType, OtherProc
<1>2. CASE k.st0[q] # "END"
  <2>1. EndOf(k, p) = E
    BY <1>2 DEF EndOf
  <2>2. p \in Procs /\ q \in Procs /\ q # p /\ Procs = {p, q} /\ Other(q) = p
    BY OtherProc
  <2> DEFINE st == [k.st0 EXCEPT ![p] = "END"]
             i == [k.in EXCEPT ![p] = <<>>]
  <2>3. E \in Connection
    <3>1. st \in [Procs -> {"CONNECT", "ACCEPT", "GETSTATUS", "WAITMSG", "END"}]
      BY DEF Connection
    <3>2. k.in \in [Procs -> Seq(Status \cup Msg)]
      BY DEF Connection
    <3>3. i \in [Procs -> Seq(Status \cup Msg)]
      BY <3>2
    <3>4. E = [k EXCEPT !.st0 = st, !.in = i]
      BY DEF Connection
    <3> HIDE DEF st, i
    <3> QED BY <3>1, <3>3, <3>4 DEF Connection
  <2>4. /\ E.st0[p] = "END" /\ E.st0[q] = k.st0[q] /\ E.in[p] = <<>> /\ E.in[q] = k.in[q]
        /\ E.client = k.client /\ E.cut = k.cut
    BY <2>2 DEF Connection
  <2> HIDE DEF E
  <2>5. k.client # None
    <3>1. k.client = None => k = NoConn
      BY DEF Handshake
    <3> QED BY <1>2, <3>1, <2>2, NoConnType
  <2>6. k.client \in {p, q}
    BY <2>2, <2>5 DEF Connection
  <2>7. \A e \in Procs : E.st0[e] = "WAITMSG" => E.in[e] \in Seq(Msg)
    BY <2>2, <2>4, <2>5 DEF Handshake
  <2> HIDE DEF q
  <2>8. CASE k.client = p
    <3>1. Other(p) = q
      BY DEF q
    <3> QED BY <2>1, <2>3, <2>4, <2>5, <2>7, <2>8, <3>1 DEF Handshake
  <2>9. CASE k.client = q
    <3>1. Other(p) = q
      BY DEF q
    <3> QED BY <2>1, <2>2, <2>3, <2>4, <2>5, <2>7, <2>9, <3>1 DEF Handshake
  <2> QED BY <2>6, <2>8, <2>9
<1> QED BY <1>1, <1>2

\* An end that is over, in the connections.
LEMMA EndedKeeps ==
  ASSUME NEW conn, Orderly(conn), NEW c \in Conns, NEW p \in Procs
  PROVE  /\ Orderly(Ended(c, p, conn))
         /\ \A d \in Conns : d # c => Ended(c, p, conn)[d] = conn[d]
         /\ Ended(c, p, conn)[c].st0[p] = "END"
         /\ Ended(c, p, conn)[c].st0[Other(p)] = conn[c].st0[Other(p)]
         /\ Ended(c, p, conn)[c].client \in {conn[c].client, None}
<1>1. conn \in [Conns -> Connection] /\ conn[c] \in Connection /\ Handshake(conn[c])
  BY DEF Orderly
<1>2. Ended(c, p, conn) = [conn EXCEPT ![c] = EndOf(conn[c], p)]
  BY <1>1 DEF Ended, EndOf
<1> DEFINE k == EndOf(conn[c], p)
<1>3. /\ k \in Connection /\ Handshake(k) /\ k.st0[p] = "END"
      /\ k.st0[Other(p)] = conn[c].st0[Other(p)] /\ k.client \in {conn[c].client, None}
  BY <1>1, EndOfKeeps
<1> HIDE DEF k
<1>4. Ended(c, p, conn) = [conn EXCEPT ![c] = k]
  BY <1>2 DEF k
<1> QED BY <1>1, <1>3, <1>4 DEF Orderly

\* A connection that a session creates.
LEMMA CreatedKeeps ==
  ASSUME NEW conn, Orderly(conn), NEW c \in Conns, NEW p \in Procs
  PROVE  /\ Orderly(Created(conn, p, c))
         /\ \A d \in Conns : d # c => Created(conn, p, c)[d] = conn[d]
         /\ Created(conn, p, c)[c].st0[p] = "CONNECT"
         /\ Created(conn, p, c)[c].st0[Other(p)] = "END"
         /\ Created(conn, p, c)[c].client = p
<1> DEFINE k == [NoConn EXCEPT !.client = p, !.st0[p] = "CONNECT"]
           q == Other(p)
<1>1. q \in Procs /\ q # p /\ Procs = {p, q} /\ p # None
  BY OtherProc
<1>2. /\ k.client = p /\ k.st0[p] = "CONNECT" /\ k.st0[q] = "END"
      /\ k.in[p] = <<>> /\ k.in[q] = <<>>
  BY <1>1 DEF NoConn
<1>3. k \in Connection
  <2> DEFINE st == [NoConn.st0 EXCEPT ![p] = "CONNECT"]
  <2>1. NoConn \in Connection
    BY NoConnType
  <2>2. st \in [Procs -> {"CONNECT", "ACCEPT", "GETSTATUS", "WAITMSG", "END"}]
    BY <2>1 DEF Connection
  <2>3. k = [NoConn EXCEPT !.client = p, !.st0 = st]
    BY <2>1 DEF Connection
  <2> HIDE DEF st
  <2> QED BY <2>1, <2>2, <2>3 DEF Connection
<1> HIDE DEF k
<1>4. Handshake(k)
  BY <1>1, <1>2 DEF Handshake
<1>5. Created(conn, p, c) = [conn EXCEPT ![c] = k]
  BY DEF Created, k
<1> QED BY <1>2, <1>3, <1>4, <1>5 DEF Orderly

\* A free connection is nobody's.
LEMMA FreeOneFree ==
  ASSUME NEW conn, Free(conn) # {}
  PROVE  FreeOne(conn) \in Conns /\ conn[FreeOne(conn)] = NoConn
BY DEF Free, FreeOne

\* The tie survives the end of a session over c, for the process that ends it ...
LEMMA EndedTied ==
  ASSUME NEW conn, Orderly(conn), NEW c \in Conns, NEW p \in Procs,
         NEW r \in Process, Tied(r, p, conn), NEW R \in Process,
         \/ r.session = c /\ R.session = None
         \/ /\ r.session # c /\ R.session = r.session /\ R.statuscode = r.statuscode
            /\ "LEARN_ASSIGN" \in R.pf => "LEARN_ASSIGN" \in r.pf
  PROVE  Tied(R, p, Ended(c, p, conn))
<1> DEFINE E == Ended(c, p, conn)
<1>1. (\A d \in Conns : d # c => E[d] = conn[d]) /\ E[c].st0[p] = "END"
  BY EndedKeeps
<1>2. r.session \in Conns \cup {None} /\ R.session \in Conns \cup {None}
  BY DEF Process
<1> HIDE DEF E
<1>3. R.session # None => E[R.session].st0[p] \in {"CONNECT", "GETSTATUS", "WAITMSG"}
  BY <1>1, <1>2 DEF Tied
<1>4. ASSUME NEW d \in Conns, E[d].client = p, E[d].st0[p] \in {"CONNECT", "GETSTATUS"}
      PROVE  /\ R.session = d /\ R.statuscode \in {"CONNECT", "CONNECTED"}
             /\ "LEARN_ASSIGN" \notin R.pf
  <2>1. d # c /\ E[d] = conn[d]
    BY <1>1, <1>4
  <2> QED BY <1>4, <2>1 DEF Tied
<1>5. Tied(R, p, E)
  BY <1>3, <1>4 DEF Tied
<1> QED BY <1>5 DEF E

\* ... and for the other one.
LEMMA EndedOther ==
  ASSUME NEW conn, Orderly(conn), NEW c \in Conns, NEW p \in Procs,
         NEW r \in Process, Tied(r, Other(p), conn)
  PROVE  Tied(r, Other(p), Ended(c, p, conn))
<1> DEFINE E == Ended(c, p, conn)
           q == Other(p)
<1>1. /\ \A d \in Conns : d # c => E[d] = conn[d]
      /\ E[c].st0[q] = conn[c].st0[q] /\ E[c].client \in {conn[c].client, None}
  BY EndedKeeps
<1>2. r.session \in Conns \cup {None} /\ q # None
  BY OtherProc DEF Process
<1> HIDE DEF E
<1>3. Tied(r, q, conn)
  OBVIOUS
<1> HIDE DEF q
<1>4. \A d \in Conns : E[d].st0[q] = conn[d].st0[q] /\ (E[d].client = q => conn[d].client = q)
  BY <1>1, <1>2
<1>5. Tied(r, q, E)
  BY <1>2, <1>3, <1>4 DEF Tied
<1> QED BY <1>5 DEF E, q

\* The tie of a session over a new connection, and of the other process.
LEMMA CreatedTied ==
  ASSUME NEW conn, Orderly(conn), NEW c \in Conns, conn[c] = NoConn, NEW p \in Procs,
         NEW r \in Process, Tied(r, p, conn), r.session = None,
         NEW R \in Process, R.session = c, R.statuscode = "CONNECT",
         "LEARN_ASSIGN" \notin R.pf,
         NEW o \in Process, Tied(o, Other(p), conn)
  PROVE  /\ Tied(R, p, Created(conn, p, c))
         /\ Tied(o, Other(p), Created(conn, p, c))
<1> DEFINE E == Created(conn, p, c)
           q == Other(p)
<1>1. /\ \A d \in Conns : d # c => E[d] = conn[d]
      /\ E[c].st0[p] = "CONNECT" /\ E[c].st0[q] = "END" /\ E[c].client = p
  BY CreatedKeeps
<1>2. o.session \in Conns \cup {None} /\ q # None /\ q # p /\ q \in Procs
  BY OtherProc DEF Process
<1>3. Tied(o, q, conn) /\ conn[c].st0[q] = "END"
  BY <1>2, NoConnType
<1> HIDE DEF E, q
<1>4. \A d \in Conns : d # c =>
        ~(E[d].client = p /\ E[d].st0[p] \in {"CONNECT", "GETSTATUS"})
  BY <1>1, PeersAssumption DEF Tied
<1>5. Tied(R, p, E)
  BY <1>1, <1>4 DEF Tied
<1>6. Tied(o, q, E)
  BY <1>1, <1>2, <1>3 DEF Tied
<1> QED BY <1>5, <1>6 DEF E, q

\* A step that keeps session, status and connections keeps the tie.
LEMMA SameTied ==
  ASSUME NEW conn, NEW p, NEW r, Tied(r, p, conn), NEW R,
         R.session = r.session, R.statuscode = r.statuscode,
         "LEARN_ASSIGN" \in R.pf => "LEARN_ASSIGN" \in r.pf
  PROVE  Tied(R, p, conn)
BY DEF Tied

-----------------------------------------------------------------------------
(* The steps of the specification.                                         *)

\* What the invariant says of each process and of the connections ...
LEMMA Unpacked ==
  ASSUME PeersInv, NEW p \in Procs
  PROVE  /\ ps[p] \in Process /\ Assigned(ps[p]) /\ Driven(ps[p]) /\ Tied(ps[p], p, cn)
         /\ Orderly(cn) /\ ps \in [Procs -> Process]
BY DEF PeersInv, TypeOK, Assigned, Driven, SyncDriven, Tied, Linked, Starting, Orderly

\* ... and a step establishes it again from these parts.
LEMMA Packed ==
  ASSUME PeersInv, NEW p \in Procs, NEW R \in Process, Assigned(R), Driven(R),
         ps' = [ps EXCEPT ![p] = R], Orderly(cn'),
         Tied(R, p, cn'), Tied(ps[Other(p)], Other(p), cn'),
         local' = local, events' \in 0..MaxEvents
  PROVE  PeersInv'
<1> DEFINE q == Other(p)
<1>1. q \in Procs /\ q # p /\ Procs = {p, q}
  BY OtherProc
<1>2. ps \in [Procs -> Process] /\ ps' \in [Procs -> Process]
  BY DEF PeersInv, TypeOK
<1>3. ps'[p] = R /\ ps'[q] = ps[q]
  BY <1>1, <1>2
<1>4. ps[q] \in Process /\ Assigned(ps[q]) /\ Driven(ps[q])
  BY <1>1, Unpacked
<1>5. Tied(ps[q], q, cn')
  OBVIOUS
<1> HIDE DEF q
<1>6. \A e \in Procs : Assigned(ps'[e]) /\ Driven(ps'[e]) /\ Tied(ps'[e], e, cn')
  BY <1>1, <1>3, <1>4, <1>5
<1>7. TypeOK'
  BY <1>2 DEF TypeOK, PeersInv, Orderly
<1>8. SyncDriven'
  BY <1>6 DEF SyncDriven, Driven
<1>9. \A e \in Procs : /\ Linked(e)' /\ \A c \in Conns : Starting(c, e)'
  BY <1>6 DEF Linked, Starting, Tied
<1>10. \A c \in Conns : Handshake(cn[c])'
  BY DEF Orderly
<1> QED BY <1>6, <1>7, <1>8, <1>9, <1>10 DEF PeersInv, Assigned

\* One connection changes, and the other process sees its end as before.
LEMMA OrderlyAt ==
  ASSUME NEW conn, Orderly(conn), NEW c \in Conns, NEW k \in Connection, Handshake(k)
  PROVE  Orderly([conn EXCEPT ![c] = k]) /\ [conn EXCEPT ![c] = k][c] = k
BY DEF Orderly

\* The process whose end of the one connection is as before keeps its tie.
LEMMA TiedAt ==
  ASSUME NEW conn, Orderly(conn), NEW c \in Conns, NEW k, NEW p \in Procs,
         NEW r \in Process, Tied(r, p, conn),
         k.st0[p] = conn[c].st0[p], k.client \in {conn[c].client, None}
  PROVE  Tied(r, p, [conn EXCEPT ![c] = k])
<1> DEFINE E == [conn EXCEPT ![c] = k]
<1>1. \A d \in Conns : E[d] = IF d = c THEN k ELSE conn[d]
  BY DEF Orderly
<1> HIDE DEF E
<1>2. r.session \in Conns \cup {None} /\ p # None
  BY OtherProc DEF Process
<1>3. \A d \in Conns : E[d].st0[p] = conn[d].st0[p] /\ (E[d].client = p => conn[d].client = p)
  BY <1>1, <1>2
<1>4. Tied(r, p, E)
  BY <1>2, <1>3 DEF Tied
<1> QED BY <1>4 DEF E

\* The session's own connection goes on.
LEMMA TiedOver ==
  ASSUME NEW conn, Orderly(conn), NEW c \in Conns, NEW k, NEW p \in Procs,
         NEW r \in Process, Tied(r, p, conn), r.session \in {c, None},
         NEW R \in Process, R.session = c,
         k.st0[p] \in {"CONNECT", "GETSTATUS", "WAITMSG"},
         k.client = p /\ k.st0[p] # "WAITMSG" =>
           R.statuscode \in {"CONNECT", "CONNECTED"} /\ "LEARN_ASSIGN" \notin R.pf
  PROVE  Tied(R, p, [conn EXCEPT ![c] = k])
<1> DEFINE E == [conn EXCEPT ![c] = k]
<1>1. \A d \in Conns : E[d] = IF d = c THEN k ELSE conn[d]
  BY DEF Orderly
<1> HIDE DEF E
<1>2. \A d \in Conns : d # c => ~(E[d].client = p /\ E[d].st0[p] \in {"CONNECT", "GETSTATUS"})
  BY <1>1, PeersAssumption DEF Tied
<1>3. Tied(R, p, E)
  BY <1>1, <1>2 DEF Tied
<1> QED BY <1>3 DEF E

\* The session p has is shut down, if it has one.
LEMMA ShutdownKeeps ==
  ASSUME PeersInv, NEW p \in Procs, NEW x \in Process, Assigned(x),
         x.session = ps[p].session, x.statuscode = ps[p].statuscode, x.pf = ps[p].pf
  PROVE  LET X == IF x.session = None THEN x ELSE PeerSessionRelease(x, x.session)
             E == ForceShutdown(p, cn)
         IN  /\ X \in Process /\ Assigned(X) /\ X.session = None
             /\ X.stopping = x.stopping /\ X.donotstop = x.donotstop
             /\ Orderly(E) /\ Tied(X, p, E) /\ Tied(ps[Other(p)], Other(p), E)
             /\ \A d \in Conns : d # ps[p].session => E[d] = cn[d]
<1>1. /\ ps[p] \in Process /\ Tied(ps[p], p, cn) /\ Orderly(cn)
      /\ Tied(ps[Other(p)], Other(p), cn) /\ ps[Other(p)] \in Process
  BY Unpacked, OtherProc
<1>2. CASE ps[p].session = None
  <2>1. ForceShutdown(p, cn) = cn
    BY <1>2 DEF ForceShutdown
  <2>2. Tied(x, p, cn)
    BY <1>1, SameTied
  <2> QED BY <1>1, <1>2, <2>1, <2>2
<1>3. CASE ps[p].session # None
  <2> DEFINE c == ps[p].session
             X == PeerSessionRelease(x, c)
  <2>1. c \in Conns
    BY <1>1, <1>3 DEF Process
  <2>2. ForceShutdown(p, cn) = Ended(c, p, cn)
    BY <1>3 DEF ForceShutdown
  <2>3. /\ X \in Process /\ Assigned(X) /\ X.session = None
        /\ X.stopping = x.stopping /\ X.donotstop = x.donotstop
    BY ReleaseKeeps
  <2> HIDE DEF X
  <2>4. Tied(X, p, Ended(c, p, cn))
    BY <1>1, <2>1, <2>3, EndedTied
  <2>5. Tied(ps[Other(p)], Other(p), Ended(c, p, cn))
    BY <1>1, <2>1, EndedOther
  <2>6. /\ Orderly(Ended(c, p, cn))
        /\ \A d \in Conns : d # c => Ended(c, p, cn)[d] = cn[d]
    BY <1>1, <2>1, EndedKeeps
  <2> QED BY <1>3, <2>2, <2>3, <2>4, <2>5, <2>6 DEF X
<1> QED BY <1>2, <1>3

\* The processes start without sessions, the new one awake.
LEMMA InitInv == Init => PeersInv
<1> SUFFICES ASSUME Init PROVE PeersInv
  OBVIOUS
<1> DEFINE zero == [k \in Keys |-> 0]
<1>1. PICK f \in {{"LOCAL"}, {"LOCAL", "REMOTE"}} :
        ps = [p \in Procs |-> IF p = Old THEN [Registered(OldUpdates) EXCEPT !.flags = f]
                              ELSE Registered(zero)]
  BY DEF Init
<1>2. /\ Registered(zero) \in Process /\ Assigned(Registered(zero))
      /\ Driven(Registered(zero)) /\ Registered(zero).session = None
  <2>1. zero \in [Keys -> Nat]
    OBVIOUS
  <2>2. Registered(zero).session = None
    BY DEF Registered
  <2> HIDE DEF zero
  <2> QED BY <2>1, <2>2, RegisteredType
<1> DEFINE g == Registered(OldUpdates)
           h == [g EXCEPT !.flags = f]
<1>3. /\ g \in Process /\ Assigned(g) /\ Driven(g)
      /\ g.session = None /\ g.woken /\ ~g.donotstop
  <2>1. g.session = None /\ g.woken /\ ~g.donotstop
    BY DEF Registered
  <2> HIDE DEF g
  <2> QED BY <2>1, RegisteredType, PeersAssumption DEF g
<1> HIDE DEF g
<1>4. h \in Process /\ Assigned(h) /\ Driven(h) /\ h.session = None
  <2>1. h \in Process /\ h.session = None /\ h.pf = g.pf /\ h.flags = f
    BY <1>3 DEF Process
  <2>2. h.woken = g.woken /\ h.donotstop = g.donotstop
    BY <1>3 DEF Process
  <2> QED BY <1>3, <2>1, <2>2 DEF Assigned, Driven
<1>5. \A p \in Procs : /\ ps[p] \in Process /\ Assigned(ps[p]) /\ Driven(ps[p])
                       /\ ps[p].session = None
  <2>1. ps = [p \in Procs |-> IF p = Old THEN h ELSE Registered(zero)]
    BY <1>1 DEF g
  <2> HIDE DEF h, zero
  <2> QED BY <1>2, <1>4, <2>1
<1>6. ps \in [Procs -> Process]
  <2>1. ps = [p \in Procs |-> ps[p]]
    BY <1>1
  <2> QED BY <1>5, <2>1
<1>7. \A c \in Conns : cn[c] = NoConn
  BY DEF Init
<1>8. cn \in [Conns -> Connection] /\ \A c \in Conns : Handshake(cn[c])
  BY NoConnType DEF Init
<1>9. TypeOK
  BY <1>6, <1>8, PeersAssumption DEF TypeOK, Init
<1>10. \A p \in Procs : Linked(p) /\ \A c \in Conns : Starting(c, p)
  BY <1>5, <1>7, NoConnType DEF Linked, Starting
<1>11. SyncDriven
  BY <1>5 DEF SyncDriven, Driven
<1> QED BY <1>5, <1>8, <1>9, <1>10, <1>11 DEF PeersInv, Assigned

\* A local update wakes the sync task and leaves the sessions alone.
LEMMA TouchStep ==
  ASSUME PeersInv, NEW p \in Procs, NEW k \in Keys, StktableTouch(p, k)
  PROVE  PeersInv'
<1> DEFINE r == ps[p]
           n == r.update + 1
           upd == Insert(r.upd, k, n)
           R == [r EXCEPT !.has = @ \cup {k}, !.upd = upd, !.update = n,
                          !.localupdate = n, !.woken = TRUE]
<1>1. /\ r \in Process /\ Assigned(r) /\ Driven(r) /\ Tied(r, p, cn) /\ Orderly(cn)
      /\ ps \in [Procs -> Process]
  BY Unpacked
<1>2. n \in Nat /\ upd \in [Keys -> Nat]
  <2>1. r.upd \in [Keys -> Nat] /\ n \in Nat
    BY <1>1 DEF Process
  <2> QED BY <2>1, InsertType
<1>3. ps' = [ps EXCEPT ![p] = R]
  BY <1>1 DEF StktableTouch
<1> HIDE DEF n, upd
<1>4. /\ R \in Process /\ R.session = r.session /\ R.statuscode = r.statuscode
      /\ R.pf = r.pf /\ R.flags = r.flags /\ R.woken /\ R.stopping = r.stopping
      /\ R.donotstop = r.donotstop
  BY <1>1, <1>2 DEF Process
<1>5. Assigned(R) /\ Driven(R)
  BY <1>1, <1>4 DEF Assigned, Driven
<1> HIDE DEF R
<1>6. Tied(R, p, cn)
  BY <1>1, <1>4, SameTied
<1>7. Tied(ps[Other(p)], Other(p), cn)
  BY OtherProc, Unpacked
<1>8. cn' = cn /\ local' = local /\ events' \in 0..MaxEvents
  BY PeersAssumption DEF StktableTouch, PeersInv, TypeOK
<1> QED BY <1>1, <1>3, <1>4, <1>5, <1>6, <1>7, <1>8, Packed

\* A timer that passes wakes the sync task.
LEMMA ExpiresStep ==
  ASSUME PeersInv, NEW p \in Procs, NEW t \in {"resync", "reconnect"}, Expires(p, t)
  PROVE  PeersInv'
<1> DEFINE r == ps[p]
           due == ~Finished(r) /\ (r.due \/ t = "resync")
           rec == r.reconnect \/ t = "reconnect"
           R == [r EXCEPT !.armed = {}, !.woken = TRUE, !.due = due, !.reconnect = rec]
<1>1. /\ r \in Process /\ Assigned(r) /\ Driven(r) /\ Tied(r, p, cn) /\ Orderly(cn)
      /\ ps \in [Procs -> Process]
  BY Unpacked
<1>2. due \in BOOLEAN /\ rec \in BOOLEAN
  BY <1>1 DEF Process
<1>3. ps' = [ps EXCEPT ![p] = R]
  BY <1>1 DEF Expires
<1> HIDE DEF due, rec
<1>4. /\ R \in Process /\ R.session = r.session /\ R.statuscode = r.statuscode
      /\ R.pf = r.pf /\ R.flags = r.flags /\ R.woken /\ R.stopping = r.stopping
      /\ R.donotstop = r.donotstop
  BY <1>1, <1>2 DEF Process
<1>5. Assigned(R) /\ Driven(R)
  BY <1>1, <1>4 DEF Assigned, Driven
<1> HIDE DEF R
<1>6. Tied(R, p, cn)
  BY <1>1, <1>4, SameTied
<1>7. Tied(ps[Other(p)], Other(p), cn)
  BY OtherProc, Unpacked
<1>8. cn' = cn /\ local' = local /\ events' \in 0..MaxEvents
  BY DEF Expires, PeersInv, TypeOK
<1> QED BY <1>1, <1>3, <1>4, <1>5, <1>6, <1>7, <1>8, Packed

\* soft_stop() wakes the sync task of the old process.
LEMMA SoftStopStep ==
  ASSUME PeersInv, SoftStop
  PROVE  PeersInv'
<1> DEFINE r == ps[Old]
           R == [r EXCEPT !.stopping = TRUE, !.signal = TRUE, !.woken = TRUE]
<1>0. Old \in Procs
  BY DEF Procs
<1>1. /\ r \in Process /\ Assigned(r) /\ Driven(r) /\ Tied(r, Old, cn) /\ Orderly(cn)
      /\ ps \in [Procs -> Process]
  BY <1>0, Unpacked
<1>3. ps' = [ps EXCEPT ![Old] = R]
  BY <1>0, <1>1 DEF SoftStop
<1>4. /\ R \in Process /\ R.session = r.session /\ R.statuscode = r.statuscode
      /\ R.pf = r.pf /\ R.flags = r.flags /\ R.woken /\ R.stopping
  BY <1>1 DEF Process
<1>5. Assigned(R) /\ Driven(R)
  BY <1>1, <1>4 DEF Assigned, Driven
<1> HIDE DEF R
<1>6. Tied(R, Old, cn)
  BY <1>1, <1>4, SameTied
<1>7. Tied(ps[Other(Old)], Other(Old), cn)
  BY <1>0, OtherProc, Unpacked
<1>8. cn' = cn /\ local' = local /\ events' \in 0..MaxEvents
  BY DEF SoftStop, PeersInv, TypeOK
<1> QED BY <1>0, <1>1, <1>3, <1>4, <1>5, <1>6, <1>7, <1>8, Packed

\* The sync task of a running process: it gives up, connects or assigns.
LEMMA SyncRunningStep ==
  ASSUME PeersInv, NEW p \in Procs, SyncRunning(p)
  PROVE  PeersInv'
<1> DEFINE r == ps[p]
           Flags == SUBSET {"LOCAL", "REMOTE", "ASSIGN", "PROCESS"}
           r0 == [r EXCEPT !.woken = FALSE, !.armed = {}]
           r1 == IF FromLocal(r0) /\ (~local \/ r0.due) /\ "ASSIGN" \notin r0.flags
                 THEN [r0 EXCEPT !.flags = @ \cup {"LOCAL"}, !.due = FALSE] ELSE r0
           connect == /\ ~local /\ r1.session = None
                      /\ \/ r1.statuscode \in {"0", "SUCCESS"}
                         \/ r1.statuscode \in {"CONNECT", "CONNECTED"} /\ r1.reconnect
           assign == /\ ~local /\ r1.session # None /\ r1.statuscode = "SUCCESS"
                     /\ FromRemote(r1) /\ "ASSIGN" \notin r1.flags
                     /\ "LEARN_NOTUP2DATE" \notin r1.pf
           r2 == IF assign THEN [r1 EXCEPT !.flags = @ \cup {"ASSIGN"},
                                           !.pf = @ \cup {"LEARN_ASSIGN"}] ELSE r1
           r3 == IF FromRemote(r2) /\ "ASSIGN" \notin r2.flags /\ r2.due
                 THEN [r2 EXCEPT !.flags = @ \cup {"REMOTE"}, !.due = FALSE] ELSE r2
           arms == {t \in {"resync", "reconnect"} :
                      \/ t = "resync" /\ ~Finished(r3)
                      \/ /\ t = "reconnect" /\ ~local /\ r1.session = None /\ ~connect
                         /\ r1.statuscode \in {"CONNECT", "CONNECTED"}}
           r4 == [r3 EXCEPT !.armed = arms]
           c == FreeOne(cn)
<1>1. /\ r \in Process /\ Assigned(r) /\ Driven(r) /\ Tied(r, p, cn) /\ Orderly(cn)
      /\ ps \in [Procs -> Process]
  BY Unpacked
<1>2. /\ ~r.stopping
      /\ \/ /\ connect /\ Free(cn) # {} /\ events < MaxEvents
            /\ ps' = [ps EXCEPT ![p] = PeerSessionCreate(r4, c)]
            /\ cn' = Created(cn, p, c) /\ events' = events + 1
         \/ ps' = [ps EXCEPT ![p] = r4] /\ UNCHANGED <<cn, events>>
      /\ local' = local
  BY Zenon DEF SyncRunning
<1>3. /\ r0 \in Process /\ r0.session = r.session /\ r0.statuscode = r.statuscode
      /\ r0.pf = r.pf /\ r0.flags = r.flags /\ r0.stopping = r.stopping
      /\ r0.donotstop = r.donotstop
  BY <1>1 DEF Process
<1> HIDE DEF r0
<1>4. /\ r1 \in Process /\ r1.session = r.session /\ r1.statuscode = r.statuscode
      /\ r1.pf = r.pf /\ ("ASSIGN" \in r1.flags <=> "ASSIGN" \in r.flags)
      /\ r1.stopping = r.stopping /\ r1.donotstop = r.donotstop
  <2> DEFINE x == [r0 EXCEPT !.flags = @ \cup {"LOCAL"}, !.due = FALSE]
  <2>1. r0.flags \cup {"LOCAL"} \in Flags
    BY <1>3 DEF Process
  <2>2. /\ x \in Process /\ x.session = r.session /\ x.statuscode = r.statuscode
        /\ x.pf = r.pf /\ x.flags = r0.flags \cup {"LOCAL"}
        /\ x.stopping = r.stopping /\ x.donotstop = r.donotstop
    BY <1>3, <2>1 DEF Process
  <2> HIDE DEF x
  <2>3. r1 = x \/ r1 = r0
    BY DEF x
  <2> HIDE DEF r1
  <2> QED BY <1>3, <2>2, <2>3
<1> HIDE DEF r1
<1>5. /\ r2 \in Process /\ r2.session = r.session /\ r2.statuscode = r.statuscode
      /\ Assigned(r2) /\ r2.stopping = r.stopping /\ r2.donotstop = r.donotstop
      /\ "LEARN_ASSIGN" \in r2.pf /\ "LEARN_ASSIGN" \notin r.pf =>
           r.session # None /\ r.statuscode = "SUCCESS"
  <2> DEFINE x == [r1 EXCEPT !.flags = @ \cup {"ASSIGN"}, !.pf = @ \cup {"LEARN_ASSIGN"}]
  <2>1. r1.flags \cup {"ASSIGN"} \in Flags /\ r1.pf \cup {"LEARN_ASSIGN"} \in SUBSET SessionFlags
    BY <1>4 DEF Process, SessionFlags, Learn
  <2>2. /\ x \in Process /\ x.session = r.session /\ x.statuscode = r.statuscode
        /\ x.pf = r1.pf \cup {"LEARN_ASSIGN"} /\ x.flags = r1.flags \cup {"ASSIGN"}
        /\ x.stopping = r.stopping /\ x.donotstop = r.donotstop
    BY <1>4, <2>1 DEF Process, SessionFlags
  <2> HIDE DEF x
  <2>3. CASE assign
    <3>1. r2 = x
      BY <2>3 DEF x
    <3>2. r.session # None /\ r.statuscode = "SUCCESS"
      BY <2>3, <1>4
    <3> HIDE DEF r2
    <3> QED BY <1>1, <2>2, <3>1, <3>2 DEF Assigned
  <2>4. CASE ~assign
    <3>1. r2 = r1
      BY <2>4
    <3> HIDE DEF r2
    <3> QED BY <1>1, <1>4, <3>1 DEF Assigned
  <2> QED BY <2>3, <2>4
<1> HIDE DEF r2
<1>6. /\ r3 \in Process /\ r3.session = r.session /\ r3.statuscode = r.statuscode
      /\ Assigned(r3) /\ r3.stopping = r.stopping /\ r3.pf = r2.pf
  <2> DEFINE x == [r2 EXCEPT !.flags = @ \cup {"REMOTE"}, !.due = FALSE]
  <2>1. r2.flags \cup {"REMOTE"} \in Flags
    BY <1>5 DEF Process
  <2>2. /\ x \in Process /\ x.session = r.session /\ x.statuscode = r.statuscode
        /\ x.pf = r2.pf /\ x.flags = r2.flags \cup {"REMOTE"}
        /\ x.stopping = r.stopping /\ x.donotstop = r.donotstop
    BY <1>5, <2>1 DEF Process
  <2> HIDE DEF x
  <2>3. r3 = x \/ r3 = r2
    BY DEF x
  <2> HIDE DEF r3
  <2> QED BY <1>5, <2>2, <2>3 DEF Assigned
<1> HIDE DEF r3
<1>7. arms \in SUBSET {"resync", "reconnect"} /\ (~Finished(r3) => "resync" \in arms)
  OBVIOUS
<1> HIDE DEF arms
<1>8. /\ r4 \in Process /\ r4.session = r.session /\ r4.statuscode = r.statuscode
      /\ r4.stopping = r.stopping /\ r4.pf = r2.pf /\ r4.flags = r3.flags
      /\ r4.armed = arms /\ r4.donotstop = r3.donotstop
  BY <1>6, <1>7 DEF Process
<1>9. Assigned(r4) /\ Driven(r4)
  BY <1>2, <1>6, <1>7, <1>8 DEF Assigned, Driven, Finished
<1>10. Tied(r4, p, cn)
  <2>1. CASE "LEARN_ASSIGN" \in r4.pf => "LEARN_ASSIGN" \in r.pf
    BY <2>1, <1>1, <1>8, SameTied
  <2>2. CASE "LEARN_ASSIGN" \in r4.pf /\ "LEARN_ASSIGN" \notin r.pf
    <3>1. r.statuscode = "SUCCESS"
      BY <1>5, <1>8, <2>2
    <3> QED BY <1>1, <1>8, <3>1 DEF Tied
  <2> QED BY <2>1, <2>2
<1>11. Tied(ps[Other(p)], Other(p), cn) /\ ps[Other(p)] \in Process
  BY OtherProc, Unpacked
<1> HIDE DEF r4, connect, c
<1>12. CASE ps' = [ps EXCEPT ![p] = r4] /\ UNCHANGED <<cn, events>>
  <2>1. cn' = cn /\ local' = local /\ events' \in 0..MaxEvents
    BY <1>2, <1>12 DEF PeersInv, TypeOK
  <2> QED BY <1>1, <1>8, <1>9, <1>10, <1>11, <1>12, <2>1, Packed
<1>13. CASE /\ connect /\ Free(cn) # {} /\ events < MaxEvents
            /\ ps' = [ps EXCEPT ![p] = PeerSessionCreate(r4, c)]
            /\ cn' = Created(cn, p, c) /\ events' = events + 1
  <2>1. c \in Conns /\ cn[c] = NoConn
    BY <1>13, FreeOneFree DEF c
  <2>2. r4.session = None
    BY <1>4, <1>8, <1>13 DEF connect
  <2> DEFINE R == PeerSessionCreate(r4, c)
  <2>3. /\ R \in Process /\ Assigned(R) /\ R.session = c /\ R.statuscode = "CONNECT"
        /\ "LEARN_ASSIGN" \notin R.pf /\ Driven(R)
    BY <1>2, <1>8, <1>9, <2>1, <2>2, CreateKeeps
  <2>4. ps' = [ps EXCEPT ![p] = R]
    BY <1>13
  <2> HIDE DEF R
  <2>5. Orderly(cn')
    BY <1>1, <1>13, <2>1, CreatedKeeps
  <2>6. Tied(R, p, cn') /\ Tied(ps[Other(p)], Other(p), cn')
    BY <1>1, <1>8, <1>10, <1>11, <1>13, <2>1, <2>2, <2>3, CreatedTied
  <2>7. local' = local /\ events' \in 0..MaxEvents
    BY <1>2, <1>13, PeersAssumption DEF PeersInv, TypeOK
  <2> QED BY <2>3, <2>4, <2>5, <2>6, <2>7, Packed
<1> QED BY <1>2, <1>12, <1>13

\* The steps that end p's end of a connection, with the session over it.
LEMMA ReleaseStep ==
  ASSUME PeersInv, NEW p \in Procs, NEW c \in Conns, NEW x \in Process, Assigned(x),
         x.session = ps[p].session, x.statuscode = ps[p].statuscode \/ x.session = c,
         "LEARN_ASSIGN" \in x.pf => "LEARN_ASSIGN" \in ps[p].pf,
         ps' = [ps EXCEPT ![p] = PeerSessionRelease(x, c)],
         cn' = Ended(c, p, cn), local' = local, events' \in 0..MaxEvents
  PROVE  PeersInv'
<1> DEFINE R == PeerSessionRelease(x, c)
<1>1. /\ ps[p] \in Process /\ Tied(ps[p], p, cn) /\ Orderly(cn)
      /\ Tied(ps[Other(p)], Other(p), cn) /\ ps[Other(p)] \in Process
  BY Unpacked, OtherProc
<1>2. /\ R \in Process /\ Assigned(R) /\ R.woken
      /\ R.session = IF x.session = c THEN None ELSE x.session
      /\ x.session # c => R.pf = x.pf
      /\ R.statuscode = x.statuscode
  BY ReleaseKeeps
<1>3. ps' = [ps EXCEPT ![p] = R]
  OBVIOUS
<1> HIDE DEF R
<1>4. Driven(R)
  BY <1>2 DEF Driven
<1>5. Tied(R, p, cn')
  <2>1. CASE x.session = c
    BY <1>1, <1>2, <2>1, EndedTied
  <2>2. CASE x.session # c
    <3>1. /\ ps[p].session # c /\ R.session = ps[p].session
          /\ R.statuscode = ps[p].statuscode
          /\ "LEARN_ASSIGN" \in R.pf => "LEARN_ASSIGN" \in ps[p].pf
      BY <1>2, <2>2
    <3> QED BY <1>1, <1>2, <3>1, EndedTied
  <2> QED BY <2>1, <2>2
<1>6. Orderly(cn') /\ Tied(ps[Other(p)], Other(p), cn')
  BY <1>1, EndedKeeps, EndedOther
<1> QED BY <1>2, <1>3, <1>4, <1>5, <1>6, Packed

\* The sync task of a stopping process: it shuts down, connects or lets go.
LEMMA SyncStoppingStep ==
  ASSUME PeersInv, NEW p \in Procs, SyncStopping(p)
  PROVE  PeersInv'
<1> DEFINE r == ps[p]
           r0 == [r EXCEPT !.woken = FALSE, !.signal = FALSE, !.armed = {}]
           X  == IF r0.session = None THEN r0 ELSE PeerSessionRelease(r0, r0.session)
           Y  == [X EXCEPT !.donotstop = TRUE]
           r1 == IF ~r.signal THEN r0 ELSE Y
           cn1 == IF r.signal THEN ForceShutdown(p, cn) ELSE cn
           over == [r1 EXCEPT !.donotstop = FALSE]
           c == FreeOne(cn1)
<1>1. /\ r \in Process /\ Assigned(r) /\ Driven(r) /\ Tied(r, p, cn) /\ Orderly(cn)
      /\ ps \in [Procs -> Process]
  BY Unpacked
<1>2. /\ r.stopping
      /\ \/ ps' = [ps EXCEPT ![p] = over] /\ cn' = cn1
         \/ /\ r1.session = None /\ Free(cn1) # {}
            /\ ps' = [ps EXCEPT ![p] = PeerSessionCreate(r1, c)]
            /\ cn' = Created(cn1, p, c)
         \/ r1.session # None /\ ps' = [ps EXCEPT ![p] = r1] /\ cn' = cn1
      /\ local' = local /\ events' = events
  BY Zenon DEF SyncStopping
<1>3. events' \in 0..MaxEvents
  BY <1>2 DEF PeersInv, TypeOK
<1>4. /\ r0 \in Process /\ r0.session = r.session /\ r0.statuscode = r.statuscode
      /\ r0.pf = r.pf /\ r0.flags = r.flags /\ r0.stopping = r.stopping
      /\ r0.donotstop = r.donotstop
  BY <1>1 DEF Process
<1>5. Assigned(r0)
  BY <1>1, <1>4 DEF Assigned
<1> HIDE DEF r0
<1>6. /\ X \in Process /\ Assigned(X) /\ X.session = None /\ X.stopping
      /\ Orderly(ForceShutdown(p, cn)) /\ Tied(X, p, ForceShutdown(p, cn))
      /\ Tied(ps[Other(p)], Other(p), ForceShutdown(p, cn))
  BY <1>2, <1>4, <1>5, ShutdownKeeps
<1> HIDE DEF X
<1>7. /\ Y \in Process /\ Y.session = None /\ Y.pf = X.pf /\ Y.flags = X.flags
      /\ Y.stopping /\ Y.statuscode = X.statuscode
  BY <1>6 DEF Process
<1>8. Assigned(Y)
  BY <1>6, <1>7 DEF Assigned
<1> HIDE DEF Y
<1>9. Tied(Y, p, ForceShutdown(p, cn))
  BY <1>6, <1>7, SameTied
<1>10. Tied(r0, p, cn) /\ Tied(ps[Other(p)], Other(p), cn)
  BY <1>1, <1>4, SameTied, Unpacked, OtherProc
<1>11. /\ r1 \in Process /\ Assigned(r1) /\ r1.stopping /\ Orderly(cn1)
       /\ Tied(r1, p, cn1) /\ Tied(ps[Other(p)], Other(p), cn1)
  BY <1>1, <1>2, <1>4, <1>5, <1>6, <1>7, <1>8, <1>9, <1>10
<1> HIDE DEF r1, cn1
<1>12. /\ over \in Process /\ over.session = r1.session /\ over.pf = r1.pf
       /\ over.flags = r1.flags /\ over.stopping /\ ~over.donotstop
       /\ over.statuscode = r1.statuscode
  BY <1>11 DEF Process
<1>13. Assigned(over) /\ Driven(over)
  BY <1>11, <1>12 DEF Assigned, Driven
<1> HIDE DEF over
<1>14. Tied(over, p, cn1)
  BY <1>11, <1>12, SameTied
<1>15. CASE ps' = [ps EXCEPT ![p] = over] /\ cn' = cn1
  BY <1>2, <1>3, <1>11, <1>12, <1>13, <1>14, <1>15, Packed
<1>16. CASE r1.session # None /\ ps' = [ps EXCEPT ![p] = r1] /\ cn' = cn1
  <2>1. Driven(r1)
    BY <1>11, <1>16 DEF Driven
  <2> QED BY <1>2, <1>3, <1>11, <1>16, <2>1, Packed
<1> HIDE DEF c
<1>17. CASE /\ r1.session = None /\ Free(cn1) # {}
            /\ ps' = [ps EXCEPT ![p] = PeerSessionCreate(r1, c)]
            /\ cn' = Created(cn1, p, c)
  <2>1. c \in Conns /\ cn1[c] = NoConn
    BY <1>17, FreeOneFree DEF c
  <2> DEFINE R == PeerSessionCreate(r1, c)
  <2>2. /\ R \in Process /\ Assigned(R) /\ R.session = c /\ R.statuscode = "CONNECT"
        /\ "LEARN_ASSIGN" \notin R.pf /\ Driven(R)
    BY <1>11, <1>17, <2>1, CreateKeeps
  <2>3. ps' = [ps EXCEPT ![p] = R]
    BY <1>17
  <2> HIDE DEF R
  <2>4. Orderly(cn')
    BY <1>11, <1>17, <2>1, CreatedKeeps
  <2>5. ps[Other(p)] \in Process
    BY Unpacked, OtherProc
  <2>6. Tied(R, p, cn') /\ Tied(ps[Other(p)], Other(p), cn')
    BY <1>11, <1>17, <2>1, <2>2, <2>5, CreatedTied
  <2> QED BY <1>2, <1>3, <2>2, <2>3, <2>4, <2>6, Packed
<1> QED BY <1>2, <1>15, <1>16, <1>17

\* The connection of a session is established.
LEMMA ConnectsStep ==
  ASSUME PeersInv, NEW c \in Conns, Connects(c)
  PROVE  PeersInv'
<1> DEFINE p == cn[c].client
           q == Other(p)
           r == ps[p]
           R == [r EXCEPT !.statuscode = "CONNECTED"]
           st == [e \in Procs |-> IF e = p THEN "GETSTATUS" ELSE "ACCEPT"]
           k == [cn[c] EXCEPT !.st0 = st]
<1>0. cn[c] \in Connection /\ cn[c].client # None
  BY DEF PeersInv, TypeOK, Connects
<1>1. p \in Procs /\ p # None
  BY <1>0 DEF Connection
<1>2. q \in Procs /\ q # p /\ Procs = {p, q}
  BY <1>1, OtherProc
<1>3. /\ r \in Process /\ Assigned(r) /\ Driven(r) /\ Tied(r, p, cn) /\ Orderly(cn)
      /\ ps \in [Procs -> Process] /\ Tied(ps[q], q, cn) /\ ps[q] \in Process
  BY <1>1, <1>2, Unpacked
<1>4. cn[c].st0[p] = "CONNECT" /\ local' = local /\ events' = events
  BY DEF Connects
<1>5. ps' = [ps EXCEPT ![p] = R] /\ cn' = [cn EXCEPT ![c] = k]
  BY <1>1, <1>3 DEF Connects, Orderly
<1>6. cn[c].st0[q] = "END" /\ cn[c].in[p] = <<>> /\ cn[c].in[q] = <<>> /\ Handshake(cn[c])
  BY <1>1, <1>3, <1>4 DEF Orderly, Handshake
<1>7. r.session = c /\ "LEARN_ASSIGN" \notin r.pf
  BY <1>3, <1>4 DEF Tied
<1>8. ps[q].session # c
  BY <1>3, <1>6, PeersAssumption DEF Tied
<1>9. /\ R \in Process /\ R.session = c /\ R.pf = r.pf /\ R.flags = r.flags
      /\ R.stopping = r.stopping /\ R.donotstop = r.donotstop /\ R.woken = r.woken
      /\ R.armed = r.armed /\ R.statuscode = "CONNECTED"
  BY <1>3, <1>7 DEF Process
<1>10. Assigned(R) /\ Driven(R)
  BY <1>3, <1>7, <1>9 DEF Assigned, Driven, Finished
<1>11. st \in [Procs -> {"CONNECT", "ACCEPT", "GETSTATUS", "WAITMSG", "END"}]
  OBVIOUS
<1>12. st[p] = "GETSTATUS" /\ st[q] = "ACCEPT"
  BY <1>1, <1>2
<1> HIDE DEF st
<1>13. /\ k \in Connection /\ k.client = p /\ k.st0[p] = "GETSTATUS" /\ k.st0[q] = "ACCEPT"
       /\ k.in[p] = <<>> /\ k.in[q] = <<>>
  BY <1>0, <1>6, <1>11, <1>12 DEF Connection
<1> HIDE DEF R, k
<1>14. Handshake(k)
  BY <1>1, <1>2, <1>13 DEF Handshake
<1>15. Orderly(cn')
  BY <1>3, <1>5, <1>13, <1>14, OrderlyAt
<1>16. Tied(R, p, cn')
  BY <1>1, <1>3, <1>5, <1>7, <1>9, <1>13, TiedOver
<1>17. Tied(ps[q], q, cn')
  <2>1. \A d \in Conns : cn'[d] = IF d = c THEN k ELSE cn[d]
    BY <1>3, <1>5 DEF Orderly
  <2>2. ps[q].session \in Conns \cup {None}
    BY <1>3 DEF Process
  <2> HIDE DEF q
  <2> QED BY <1>2, <1>3, <1>8, <1>13, <2>1, <2>2 DEF Tied
<1>18. events' \in 0..MaxEvents
  BY <1>4 DEF PeersInv, TypeOK
<1> HIDE DEF p
<1> QED BY <1>1, <1>4, <1>5, <1>9, <1>10, <1>15, <1>16, <1>17, <1>18, Packed

\* The connection of a session is refused.
LEMMA ConnectFailsStep ==
  ASSUME PeersInv, NEW c \in Conns, ConnectFails(c)
  PROVE  PeersInv'
<1> DEFINE p == cn[c].client
<1>1. cn[c] \in Connection /\ p # None
  BY DEF PeersInv, TypeOK, ConnectFails
<1>2. p \in Procs
  BY <1>1 DEF Connection
<1>3. ps[p] \in Process /\ Assigned(ps[p]) /\ ps \in [Procs -> Process]
  BY <1>2, Unpacked
<1>4. /\ ps' = [ps EXCEPT ![p] = PeerSessionRelease(ps[p], c)]
      /\ cn' = Ended(c, p, cn) /\ local' = local
  BY <1>2, <1>3 DEF ConnectFails
<1>5. events' \in 0..MaxEvents
  BY PeersAssumption DEF ConnectFails, PeersInv, TypeOK
<1> HIDE DEF p
<1> QED BY <1>2, <1>3, <1>4, <1>5, ReleaseStep

\* A session reads the end of its connection.
LEMMA ClosedStep ==
  ASSUME PeersInv, NEW c \in Conns, NEW p \in Procs, Closed(c, p)
  PROVE  PeersInv'
<1> DEFINE q == Other(p)
<1>1. /\ ps[p] \in Process /\ Assigned(ps[p]) /\ Driven(ps[p]) /\ Tied(ps[p], p, cn)
      /\ Orderly(cn) /\ ps \in [Procs -> Process]
      /\ ps[q] \in Process /\ Tied(ps[q], q, cn)
  BY Unpacked, OtherProc
<1>2. cn' = Ended(c, p, cn) /\ local' = local /\ events' \in 0..MaxEvents
  BY DEF Closed, PeersInv, TypeOK
<1>3. CASE cn[c].st0[p] = "ACCEPT"
  <2>1. ps[p].session # c
    BY <1>1, <1>3, PeersAssumption DEF Tied
  <2>2. Tied(ps[p], p, cn') /\ Tied(ps[q], q, cn') /\ Orderly(cn')
    BY <1>1, <1>2, <2>1, EndedTied, EndedOther, EndedKeeps
  <2>3. ps' = [ps EXCEPT ![p] = ps[p]]
    BY <1>1, <1>3 DEF Closed
  <2> QED BY <1>1, <1>2, <2>2, <2>3, Packed
<1>4. CASE cn[c].st0[p] # "ACCEPT"
  <2>1. ps' = [ps EXCEPT ![p] = PeerSessionRelease(ps[p], c)]
    BY <1>1, <1>4 DEF Closed
  <2> QED BY <1>1, <1>2, <2>1, ReleaseStep
<1> QED BY <1>3, <1>4

\* The network loses a connection with what is under way.
LEMMA CutStep ==
  ASSUME PeersInv, NEW c \in Conns, Cut(c)
  PROVE  PeersInv'
<1> DEFINE i == [e \in Procs |-> <<>>]
           k == [cn[c] EXCEPT !.cut = TRUE, !.in = i]
<1>0. Old \in Procs /\ Other(Old) \in Procs
  BY OtherProc DEF Procs
<1>1. /\ Orderly(cn) /\ ps \in [Procs -> Process] /\ cn[c] \in Connection
      /\ Handshake(cn[c])
  BY <1>0, Unpacked DEF Orderly
<1>2. \A p \in Procs : /\ ps[p] \in Process /\ Assigned(ps[p]) /\ Driven(ps[p])
                       /\ Tied(ps[p], p, cn)
  BY Unpacked
<1>3. cn' = [cn EXCEPT ![c] = k] /\ ps' = ps /\ local' = local
  BY <1>1 DEF Cut, Orderly
<1>4. events' \in 0..MaxEvents
  BY PeersAssumption DEF Cut, PeersInv, TypeOK
<1>5. i \in [Procs -> Seq(Status \cup Msg)] /\ \A e \in Procs : i[e] = <<>>
  OBVIOUS
<1> HIDE DEF i
<1>6. k \in Connection /\ k.st0 = cn[c].st0 /\ k.client = cn[c].client /\ k.in = i /\ k.cut = TRUE
  BY <1>1, <1>5 DEF Connection
<1> HIDE DEF k
<1>7. k.client # None
  <2>1. cn[c].st0[Old] # "END"
    BY <1>0 DEF Cut
  <2> QED BY <1>0, <1>1, <1>6, <2>1, NoConnType DEF Handshake
<1>8. k.client \in Procs /\ Other(k.client) \in Procs
  BY <1>6, <1>7, OtherProc DEF Connection
<1>9. <<>> \in Seq(Msg)
  OBVIOUS
<1>10. Handshake(k)
  <2>1. k.in[k.client] = <<>> /\ k.in[Other(k.client)] = <<>>
    BY <1>5, <1>6, <1>8
  <2> QED BY <1>1, <1>5, <1>6, <1>7, <1>8, <1>9, <2>1 DEF Handshake
<1>11. Orderly(cn')
  BY <1>1, <1>3, <1>6, <1>10, OrderlyAt
<1>12. \A p \in Procs : Tied(ps[p], p, cn')
  BY <1>1, <1>2, <1>3, <1>6, TiedAt
<1>13. ps' = [ps EXCEPT ![Old] = ps[Old]]
  BY <1>0, <1>1, <1>3
<1> QED BY <1>0, <1>2, <1>3, <1>4, <1>11, <1>12, <1>13, Packed

\* The messages of WAITMSG are messages.
LEMMA MsgSeq ==
  ASSUME NEW m \in Seq(Msg)
  PROVE  m \in Seq(Status \cup Msg)
BY SeqMonotonic

\* An end is in WAITMSG from now on, and a receive queue changes.
Waits(k, e, p, i) == [k EXCEPT !.st0[e] = "WAITMSG", !.in[p] = i]

\* An end that waits for messages, after the status line.
LEMMA WaitsType ==
  ASSUME NEW k \in Connection, NEW e \in Procs, NEW p \in Procs,
         NEW i \in Seq(Status \cup Msg)
  PROVE  /\ Waits(k, e, p, i) \in Connection
         /\ Waits(k, e, p, i).client = k.client /\ Waits(k, e, p, i).cut = k.cut
         /\ Waits(k, e, p, i).in[p] = i /\ Waits(k, e, p, i).st0[e] = "WAITMSG"
         /\ p # Other(p) => Waits(k, e, p, i).in[Other(p)] = k.in[Other(p)]
         /\ e # Other(e) => Waits(k, e, p, i).st0[Other(e)] = k.st0[Other(e)]
<1> DEFINE K == Waits(k, e, p, i)
           s == [k.st0 EXCEPT ![e] = "WAITMSG"]
           n == [k.in EXCEPT ![p] = i]
<1>0. Other(e) \in Procs /\ Other(p) \in Procs
  BY OtherProc
<1>1. /\ s \in [Procs -> {"CONNECT", "ACCEPT", "GETSTATUS", "WAITMSG", "END"}]
      /\ s[e] = "WAITMSG" /\ (e # Other(e) => s[Other(e)] = k.st0[Other(e)])
  BY <1>0 DEF Connection
<1>2. k.in \in [Procs -> Seq(Status \cup Msg)]
  BY DEF Connection
<1>3. /\ n \in [Procs -> Seq(Status \cup Msg)]
      /\ n[p] = i /\ (p # Other(p) => n[Other(p)] = k.in[Other(p)])
  BY <1>0, <1>2
<1>4. K = [k EXCEPT !.st0 = s, !.in = n]
  BY DEF Connection, Waits
<1> HIDE DEF s, n, K
<1>5. K \in Connection
  BY <1>1, <1>3, <1>4 DEF Connection
<1>6. K.client = k.client /\ K.cut = k.cut /\ K.st0 = s /\ K.in = n
  BY <1>4 DEF Connection
<1> QED BY <1>1, <1>3, <1>5, <1>6 DEF K

\* The client reads the status: the session begins, or is to be tried again.
LEMMA GetStatusStep ==
  ASSUME PeersInv, NEW c \in Conns, GetStatus(c)
  PROVE  PeersInv'
<1> DEFINE p == cn[c].client
           q == Other(p)
           r == ps[p]
           code == Head(cn[c].in[p]).t
<1>0. cn[c] \in Connection /\ cn[c].client # None
  BY DEF PeersInv, TypeOK, GetStatus
<1>1. p \in Procs /\ p # None
  BY <1>0 DEF Connection
<1>2. q \in Procs /\ q # p /\ Procs = {p, q}
  BY <1>1, OtherProc
<1>3. /\ r \in Process /\ Assigned(r) /\ Driven(r) /\ Tied(r, p, cn) /\ Orderly(cn)
      /\ ps \in [Procs -> Process] /\ Tied(ps[q], q, cn) /\ ps[q] \in Process
  BY <1>1, <1>2, Unpacked
<1>4. /\ cn[c].st0[p] = "GETSTATUS" /\ cn[c].in[p] # <<>> /\ local' = local
      /\ events' \in 0..MaxEvents
  BY DEF GetStatus, PeersInv, TypeOK
<1>5. r.session = c /\ "LEARN_ASSIGN" \notin r.pf
  BY <1>3, <1>4 DEF Tied
<1>6. Handshake(cn[c])
  BY <1>3 DEF Orderly
<1>7. Head(cn[c].in[p]) \in Status /\ Tail(cn[c].in[p]) \in Seq(Msg)
  BY <1>1, <1>4, <1>6 DEF Handshake
<1>8. code \in {"SUCCESS", "TRYAGAIN"}
  BY <1>7 DEF Status
<1>9. CASE code = "SUCCESS"
  <2> DEFINE R == IF local THEN Lesson(Begun(r)) ELSE Begun(r)
             t == Tail(cn[c].in[p])
             k == [cn[c] EXCEPT !.st0[p] = "WAITMSG", !.in[p] = t]
  <2>1. ps' = [ps EXCEPT ![p] = R]
    BY <1>3, <1>9 DEF GetStatus
  <2>2. cn' = [cn EXCEPT ![c] = k]
    BY <1>3, <1>9 DEF GetStatus, Orderly
  <2>3. /\ Begun(r) \in Process /\ Assigned(Begun(r)) /\ Begun(r).woken
        /\ Begun(r).session = c
    BY <1>3, <1>5, PeersAssumption, BegunKeeps
  <2>4. R \in Process /\ Assigned(R) /\ R.woken /\ R.session = c
    BY <2>3, LessonKeeps
  <2>5. Driven(R)
    BY <2>4 DEF Driven
  <2> HIDE DEF R
  <2>6. t \in Seq(Status \cup Msg) /\ t \in Seq(Msg)
    BY <1>7, MsgSeq
  <2> HIDE DEF t
  <2>7. /\ k \in Connection /\ k.client = p /\ k.cut = cn[c].cut
        /\ k.in[p] = t /\ k.st0[p] = "WAITMSG"
        /\ k.in[q] = cn[c].in[q] /\ k.st0[q] = cn[c].st0[q]
    <3>1. k = Waits(cn[c], p, p, t)
      BY DEF Waits
    <3> HIDE DEF k
    <3> QED BY <1>0, <1>1, <1>2, <2>6, <3>1, WaitsType
  <2> HIDE DEF k
  <2>8. cn[c].st0[q] # "ACCEPT"
    BY <1>1, <1>4, <1>6 DEF Handshake
  <2>9. Handshake(k)
    BY <1>1, <1>2, <1>6, <2>6, <2>7, <2>8 DEF Handshake
  <2>10. Orderly(cn')
    BY <1>3, <2>2, <2>7, <2>9, OrderlyAt
  <2>11. Tied(R, p, cn')
    BY <1>1, <1>3, <1>5, <2>2, <2>4, <2>7, TiedOver
  <2>12. Tied(ps[q], q, cn')
    BY <1>2, <1>3, <2>2, <2>7, TiedAt
  <2> HIDE DEF p
  <2> QED BY <1>1, <1>4, <2>1, <2>4, <2>5, <2>10, <2>11, <2>12, Packed
<1>10. CASE code # "SUCCESS"
  <2> DEFINE x == [r EXCEPT !.statuscode = code]
  <2>1. ps' = [ps EXCEPT ![p] = PeerSessionRelease(x, c)] /\ cn' = Ended(c, p, cn)
    BY <1>3, <1>10 DEF GetStatus
  <2>2. code \in {"0", "CONNECT", "CONNECTED", "SUCCESS", "TRYAGAIN"}
    BY <1>8
  <2> HIDE DEF code
  <2>3. /\ x \in Process /\ x.session = c /\ x.pf = r.pf /\ x.flags = r.flags
        /\ x.donotstop = r.donotstop /\ x.stopping = r.stopping
    BY <1>3, <1>5, <2>2 DEF Process
  <2> HIDE DEF x
  <2>4. Assigned(x)
    BY <1>3, <1>5, <2>3 DEF Assigned
  <2> HIDE DEF p
  <2> QED BY <1>1, <1>4, <1>5, <2>1, <2>3, <2>4, ReleaseStep
<1> QED BY <1>9, <1>10

\* A message is read; the end of the lesson to a stopping process ends the session.
LEMMA ReadStep ==
  ASSUME PeersInv, NEW c \in Conns, NEW p \in Procs, ReadMessage(c, p)
  PROVE  PeersInv'
<1> DEFINE q == Other(p)
           r == ps[p]
           m == Head(cn[c].in[p])
<1>2. q \in Procs /\ q # p /\ Procs = {p, q} /\ Other(q) = p /\ p # None /\ q # None
  BY OtherProc
<1>3. /\ r \in Process /\ Assigned(r) /\ Driven(r) /\ Tied(r, p, cn) /\ Orderly(cn)
      /\ ps \in [Procs -> Process] /\ Tied(ps[q], q, cn) /\ ps[q] \in Process
  BY <1>2, Unpacked
<1>4. /\ cn[c].st0[p] = "WAITMSG" /\ cn[c].in[p] # <<>> /\ local' = local
      /\ events' \in 0..MaxEvents
  BY DEF ReadMessage, PeersInv, TypeOK
<1>5. cn[c] \in Connection /\ Handshake(cn[c])
  BY <1>3 DEF Orderly
<1>6. cn[c].client # None
  BY <1>4, <1>5, NoConnType DEF Handshake
<1>7. cn[c].client \in {p, q} /\ cn[c].in[p] \in Seq(Msg)
  BY <1>2, <1>4, <1>5, <1>6 DEF Connection, Handshake
<1>8. m \in Msg /\ Tail(cn[c].in[p]) \in Seq(Msg)
  BY <1>4, <1>7, HeadTailProperties
<1>9. CASE m.t = "c" /\ r.stopping
  <2> DEFINE x == Complete(r)
  <2>1. ps' = [ps EXCEPT ![p] = PeerSessionRelease(x, c)] /\ cn' = Ended(c, p, cn)
    BY <1>3, <1>9 DEF ReadMessage
  <2>2. /\ x \in Process /\ x.session = r.session /\ x.pf = r.pf \cup {"TEACH_COMPLETE"}
        /\ x.flags = r.flags /\ x.statuscode = r.statuscode
        /\ x.donotstop = r.donotstop /\ x.stopping = r.stopping
    BY <1>3 DEF Process, Complete
  <2> HIDE DEF x
  <2>3. Assigned(x) /\ ("LEARN_ASSIGN" \in x.pf => "LEARN_ASSIGN" \in r.pf)
    BY <1>3, <2>2 DEF Assigned
  <2> QED BY <1>4, <2>1, <2>2, <2>3, ReleaseStep
<1>10. CASE ~(m.t = "c" /\ r.stopping)
  <2> DEFINE R == Received(r, m)
             t == Tail(cn[c].in[p])
             k == [cn[c] EXCEPT !.in[p] = t]
  <2>1. ps' = [ps EXCEPT ![p] = R]
    BY <1>3, <1>10 DEF ReadMessage
  <2>2. cn' = [cn EXCEPT ![c] = k]
    BY <1>3, <1>10 DEF ReadMessage, Orderly
  <2> HIDE DEF m
  <2>3. /\ R \in Process /\ Assigned(R) /\ Driven(R) /\ R.session = r.session
        /\ R.statuscode = r.statuscode
        /\ "LEARN_ASSIGN" \in R.pf => "LEARN_ASSIGN" \in r.pf
    BY <1>3, <1>8, ReceivedKeeps
  <2> HIDE DEF R
  <2>4. Tied(R, p, cn)
    BY <1>3, <2>3, SameTied
  <2>5. t \in Seq(Status \cup Msg) /\ t \in Seq(Msg)
    BY <1>8, MsgSeq
  <2> HIDE DEF t
  <2>6. k = Waits(cn[c], p, p, t)
    BY <1>4, <1>5 DEF Connection, Waits
  <2> HIDE DEF k
  <2>7. /\ k \in Connection /\ k.client = cn[c].client /\ k.cut = cn[c].cut
        /\ k.in[p] = t /\ k.st0[p] = "WAITMSG"
    BY <1>5, <2>5, <2>6, WaitsType
  <2>8. k.in[q] = cn[c].in[q] /\ k.st0[q] = cn[c].st0[q]
    BY <1>2, <1>5, <2>5, <2>6, WaitsType
  <2> HIDE DEF q
  <2>9. Handshake(k)
    <3>1. Other(p) = q
      BY DEF q
    <3>2. \A e \in Procs : k.st0[e] = "WAITMSG" => k.in[e] \in Seq(Msg)
      BY <1>2, <1>5, <1>6, <2>5, <2>7, <2>8 DEF Handshake
    <3>3. CASE cn[c].client = p
      BY <1>2, <1>4, <1>5, <2>7, <2>8, <3>1, <3>2, <3>3 DEF Handshake
    <3>4. CASE cn[c].client = q
      BY <1>2, <1>4, <1>5, <2>7, <2>8, <3>1, <3>2, <3>4 DEF Handshake
    <3> QED BY <1>7, <3>3, <3>4
  <2>10. Orderly(cn')
    BY <1>3, <2>2, <2>7, <2>9, OrderlyAt
  <2>11. Tied(R, p, cn')
    BY <1>3, <1>4, <2>2, <2>3, <2>4, <2>7, TiedAt
  <2>12. Tied(ps[q], q, cn')
    BY <1>2, <1>3, <2>2, <2>7, <2>8, TiedAt
  <2> QED BY <1>4, <2>1, <2>3, <2>10, <2>11, <2>12, Packed DEF q
<1> QED BY <1>9, <1>10

\* A message is sent after others.
LEMMA SentAfter ==
  ASSUME NEW S, NEW i \in Seq(S), i # <<>>, NEW m \in Seq(Msg), Tail(i) \in Seq(Msg)
  PROVE  Head(i \o m) = Head(i) /\ Tail(i \o m) \in Seq(Msg)
<1> DEFINE T == S \cup Msg
<1>1. i \in Seq(T) /\ m \in Seq(T)
  BY SeqMonotonic
<1>2. Len(i) \in Nat \ {0} /\ Len(m) \in Nat
  BY EmptySeq, LenProperties
<1>3. /\ i \o m \in Seq(T) /\ Len(i \o m) = Len(i) + Len(m)
      /\ \A j \in 1..(Len(i) + Len(m)) : (i \o m)[j] = IF j <= Len(i) THEN i[j] ELSE m[j - Len(i)]
  BY <1>1, ConcatProperties
<1>4. i \o m # <<>>
  BY <1>2, <1>3
<1>5. Head(i \o m) = Head(i)
  BY <1>2, <1>3
<1>6. /\ Tail(i) \in Seq(T) /\ Len(Tail(i)) = Len(i) - 1
      /\ \A j \in 1..Len(Tail(i)) : Tail(i)[j] = i[j + 1]
  BY <1>1, HeadTailProperties
<1>7. /\ Tail(i \o m) \in Seq(T) /\ Len(Tail(i \o m)) = Len(i) + Len(m) - 1
      /\ \A j \in 1..Len(Tail(i \o m)) : Tail(i \o m)[j] = (i \o m)[j + 1]
  BY <1>3, <1>4, HeadTailProperties
<1>8. /\ Tail(i) \o m \in Seq(Msg) /\ Tail(i) \o m \in Seq(T)
      /\ Len(Tail(i) \o m) = Len(i) - 1 + Len(m)
      /\ \A j \in 1..(Len(i) - 1 + Len(m)) :
           (Tail(i) \o m)[j] = IF j <= Len(i) - 1 THEN Tail(i)[j] ELSE m[j - (Len(i) - 1)]
  BY <1>1, <1>6, ConcatProperties
<1>9. ASSUME NEW j \in 1..(Len(i) - 1 + Len(m))
      PROVE  Tail(i \o m)[j] = (Tail(i) \o m)[j]
  <2>1. Tail(i \o m)[j] = (i \o m)[j + 1] /\ j + 1 \in 1..(Len(i) + Len(m))
    BY <1>2, <1>7, <1>9
  <2>2. CASE j <= Len(i) - 1
    <3>1. (i \o m)[j + 1] = i[j + 1]
      BY <1>2, <1>3, <2>1, <2>2
    <3>2. Tail(i)[j] = i[j + 1]
      BY <1>2, <1>6, <2>2, <1>9
    <3> QED BY <1>8, <1>9, <2>1, <2>2, <3>1, <3>2
  <2>3. CASE ~(j <= Len(i) - 1)
    <3>1. (i \o m)[j + 1] = m[(j + 1) - Len(i)]
      BY <1>2, <1>3, <2>1, <2>3
    <3>2. (j + 1) - Len(i) = j - (Len(i) - 1)
      BY <1>2
    <3> QED BY <1>8, <1>9, <2>1, <2>3, <3>1, <3>2
  <2> QED BY <2>2, <2>3
<1>10. Tail(i \o m) = Tail(i) \o m
  <2>1. Len(Tail(i \o m)) = Len(Tail(i) \o m)
    BY <1>2, <1>7, <1>8
  <2>2. \A j \in 1..Len(Tail(i \o m)) : Tail(i \o m)[j] = (Tail(i) \o m)[j]
    BY <1>2, <1>7, <1>9
  <2> QED BY <1>7, <1>8, <2>1, <2>2, SeqEqual
<1> QED BY <1>5, <1>8, <1>10

\* A message is written, to an end that still reads or to nobody.
LEMMA WriteStep ==
  ASSUME PeersInv, NEW c \in Conns, NEW p \in Procs, WriteMessage(c, p)
  PROVE  PeersInv'
<1> DEFINE q == Other(p)
           r == ps[p]
           r1 == Settled(r)
           w == Put(r1)
           R == Settled(w.r)
<1>2. q \in Procs /\ q # p /\ Procs = {p, q} /\ Other(q) = p /\ p # None /\ q # None
  BY OtherProc
<1>3. /\ r \in Process /\ Assigned(r) /\ Driven(r) /\ Tied(r, p, cn) /\ Orderly(cn)
      /\ ps \in [Procs -> Process] /\ Tied(ps[q], q, cn) /\ ps[q] \in Process
  BY <1>2, Unpacked
<1>4. /\ cn[c].st0[p] = "WAITMSG" /\ ~cn[c].cut /\ local' = local
      /\ events' \in 0..MaxEvents
  BY DEF WriteMessage, PeersInv, TypeOK
<1>5. /\ ps' = [ps EXCEPT ![p] = R]
      /\ cn' = IF cn[c].st0[q] = "END" THEN cn ELSE [cn EXCEPT ![c].in[q] = @ \o w.m]
  BY DEF WriteMessage
<1>6. /\ r1 \in Process /\ Alike(r, r1)
      /\ \A f \in Learn : f \in r1.pf <=> f \in r.pf
      /\ Teaching(r1) /\ ~Taught(r1) => After(r1, r1.pushed) # 0
      /\ ~Teaching(r1) /\ PushesLocal(r1) => After(r1, r1.pushed) # 0
  BY <1>3, SettledKeeps
<1> HIDE DEF r1
<1>7. "LEARN_ASSIGN" \in r1.pf <=> "LEARN_ASSIGN" \in r.pf
  BY <1>6 DEF Learn
<1>8. Assigned(r1) /\ Driven(r1) /\ r1.session = r.session /\ r1.statuscode = r.statuscode
  <2>1. Assigned(r1) /\ Driven(r1)
    BY <1>3, <1>6, <1>7, AlikeKeeps
  <2> QED BY <1>6, <2>1 DEF Alike
<1>9. /\ w.r \in Process /\ Assigned(w.r) /\ Driven(w.r)
      /\ w.r.session = r.session /\ w.r.statuscode = r.statuscode
      /\ "LEARN_ASSIGN" \in w.r.pf <=> "LEARN_ASSIGN" \in r.pf
      /\ w.m \in Seq(Msg)
  BY <1>6, <1>7, <1>8, PutKeeps
<1> HIDE DEF w
<1>10. /\ R \in Process /\ Alike(w.r, R)
       /\ \A f \in Learn : f \in R.pf <=> f \in w.r.pf
  BY <1>9, SettledKeeps
<1> HIDE DEF R
<1>11. "LEARN_ASSIGN" \in R.pf <=> "LEARN_ASSIGN" \in w.r.pf
  BY <1>10 DEF Learn
<1>12. Assigned(R) /\ Driven(R) /\ R.session = r.session /\ R.statuscode = r.statuscode
  <2>1. Assigned(R) /\ Driven(R)
    BY <1>9, <1>10, <1>11, AlikeKeeps
  <2> QED BY <1>9, <1>10, <2>1 DEF Alike
<1>13. Tied(R, p, cn)
  BY <1>3, <1>9, <1>11, <1>12, SameTied
<1>14. CASE cn[c].st0[q] = "END"
  <2>1. cn' = cn
    BY <1>5, <1>14
  <2> QED BY <1>3, <1>4, <1>5, <1>10, <1>12, <1>13, <2>1, Packed
<1>15. CASE cn[c].st0[q] # "END"
  <2>1. cn[c] \in Connection /\ Handshake(cn[c])
    BY <1>3 DEF Orderly
  <2>2. cn[c].client # None
    BY <1>4, <2>1, NoConnType DEF Handshake
  <2>3. cn[c].client \in {p, q}
    BY <1>2, <2>1, <2>2 DEF Connection
  <2> DEFINE m == w.m
             i == cn[c].in[q] \o m
             n == [cn[c].in EXCEPT ![q] = i]
             k == [cn[c] EXCEPT !.in = n]
  <2>4. cn' = [cn EXCEPT ![c] = k]
    BY <1>3, <1>5, <1>15, <2>1 DEF Orderly, Connection
  <2>5. m \in Seq(Msg)
    BY <1>9
  <2> HIDE DEF m
  <2>6. cn[c].in \in [Procs -> Seq(Status \cup Msg)] /\ cn[c].in[q] \in Seq(Status \cup Msg)
    BY <1>2, <2>1 DEF Connection
  <2>7. i \in Seq(Status \cup Msg)
    BY <2>5, <2>6, MsgSeq, ConcatProperties
  <2>8. cn[c].in[q] \in Seq(Msg) => i \in Seq(Msg)
    BY <2>5, ConcatProperties
  <2>9. cn[c].in[q] # <<>> /\ Head(cn[c].in[q]) \in Status /\ Tail(cn[c].in[q]) \in Seq(Msg) =>
          i # <<>> /\ Head(i) \in Status /\ Tail(i) \in Seq(Msg)
    <3> SUFFICES ASSUME cn[c].in[q] # <<>>, Head(cn[c].in[q]) \in Status,
                        Tail(cn[c].in[q]) \in Seq(Msg)
                 PROVE  i # <<>> /\ Head(i) \in Status /\ Tail(i) \in Seq(Msg)
      OBVIOUS
    <3>1. Head(i) = Head(cn[c].in[q]) /\ Tail(i) \in Seq(Msg)
      BY <2>5, <2>6, SentAfter
    <3>2. i # <<>>
      BY <2>5, <2>6, MsgSeq, ConcatEqualIffEmpty
    <3> QED BY <3>1, <3>2
  <2> HIDE DEF i
  <2>10. /\ n \in [Procs -> Seq(Status \cup Msg)] /\ n[q] = i /\ n[p] = cn[c].in[p]
    BY <1>2, <2>6, <2>7
  <2> HIDE DEF n
  <2>11. /\ k \in Connection /\ k.client = cn[c].client /\ k.cut = cn[c].cut
         /\ k.st0 = cn[c].st0 /\ k.in = n
    BY <2>1, <2>10 DEF Connection
  <2> HIDE DEF k
  <2>12. Handshake(k)
    <3>1. CASE cn[c].client = p
      <4>1. cn[c].st0[q] = "WAITMSG" /\ cn[c].in[q] \in Seq(Msg)
        BY <1>2, <1>4, <1>15, <2>1, <2>2, <3>1 DEF Handshake
      <4>2. \A e \in Procs : k.st0[e] = "WAITMSG" => k.in[e] \in Seq(Msg)
        BY <1>2, <2>1, <2>2, <2>8, <2>10, <2>11, <4>1 DEF Handshake
      <4> QED BY <1>2, <1>4, <2>1, <2>11, <3>1, <4>1, <4>2 DEF Handshake
    <3>2. CASE cn[c].client = q
      <4>1. cn[c].st0[q] \in {"GETSTATUS", "WAITMSG"}
        BY <1>2, <1>4, <1>15, <2>1, <3>2 DEF Handshake, Connection
      <4>2. \A e \in Procs : k.st0[e] = "WAITMSG" => k.in[e] \in Seq(Msg)
        BY <1>2, <2>1, <2>2, <2>8, <2>10, <2>11 DEF Handshake
      <4>3. cn[c].st0[q] = "GETSTATUS" =>
              i # <<>> /\ Head(i) \in Status /\ Tail(i) \in Seq(Msg)
        BY <1>2, <1>4, <2>1, <2>9, <3>2 DEF Handshake
      <4> HIDE DEF q
      <4> QED BY <1>2, <1>4, <2>10, <2>11, <3>2, <4>1, <4>2, <4>3 DEF Handshake
    <3> QED BY <2>3, <3>1, <3>2
  <2>13. Orderly(cn')
    BY <1>3, <2>4, <2>11, <2>12, OrderlyAt
  <2>14. Tied(R, p, cn')
    BY <1>3, <1>10, <1>13, <2>4, <2>11, TiedAt
  <2>15. Tied(ps[q], q, cn')
    BY <1>2, <1>3, <2>4, <2>11, TiedAt
  <2> QED BY <1>4, <1>5, <1>10, <1>12, <2>13, <2>14, <2>15, Packed
<1> QED BY <1>14, <1>15

\* The status line is the one thing the client then has to read.
LEMMA StatusLine ==
  ASSUME NEW code \in {"SUCCESS", "TRYAGAIN"}, NEW i, i = Append(<<>>, [t |-> code])
  PROVE  /\ i \in Seq(Status \cup Msg) /\ i # <<>>
         /\ Head(i) \in Status /\ Tail(i) \in Seq(Msg)
<1> DEFINE x == [t |-> code]
<1>1. x \in Status
  BY DEF Status
<1> HIDE DEF x
<1>2. i = <<x>>
  BY DEF x
<1> QED BY <1>1, <1>2

\* The server accepts: it refuses, or replaces the session it has.
LEMMA AcceptStep ==
  ASSUME PeersInv, NEW c \in Conns, Accept(c)
  PROVE  PeersInv'
<1> DEFINE a == cn[c].client
           p == Other(a)
           r == ps[p]
<1>0. cn[c] \in Connection /\ a # None
  BY DEF PeersInv, TypeOK, Accept
<1>1. a \in Procs
  BY <1>0 DEF Connection
<1>2. p \in Procs /\ p # a /\ Procs = {a, p} /\ Other(p) = a /\ a # None /\ p # None
  BY <1>1, OtherProc
<1>3. /\ r \in Process /\ Assigned(r) /\ Driven(r) /\ Tied(r, p, cn) /\ Orderly(cn)
      /\ ps \in [Procs -> Process] /\ Tied(ps[a], a, cn) /\ ps[a] \in Process
  BY <1>1, <1>2, Unpacked
<1>4. /\ cn[c].st0[p] = "ACCEPT" /\ local' = local /\ events' \in 0..MaxEvents
  BY DEF Accept, PeersInv, TypeOK
<1>5. /\ Handshake(cn[c]) /\ cn[c].st0[a] \in {"GETSTATUS", "END"}
      /\ cn[c].in[a] = <<>> /\ cn[c].in[p] = <<>>
  BY <1>0, <1>3, <1>4 DEF Orderly, Handshake
<1>6. r.session # c
  BY <1>3, <1>4, PeersAssumption DEF Tied
<1>7. CASE local /\ r.session # None
  <2> DEFINE i == Append(<<>>, [t |-> "TRYAGAIN"])
             n == [cn[c].in EXCEPT ![a] = i]
             k1 == [cn[c] EXCEPT !.in = n]
             conn == [cn EXCEPT ![c] = k1]
             k == EndOf(k1, p)
  <2>1. cn' = Ended(c, p, conn) /\ ps' = ps
    <3>1. conn = [cn EXCEPT ![c].in[a] = Append(@, [t |-> "TRYAGAIN"])]
      BY <1>3, <1>5 DEF Orderly
    <3>2. cn' = Ended(c, p, [cn EXCEPT ![c].in[Other(p)] = Append(@, [t |-> "TRYAGAIN"])]) /\ ps' = ps
      BY <1>7 DEF Accept
    <3> HIDE DEF conn, a
    <3> QED BY <1>2, <3>1, <3>2
  <2>2. /\ i \in Seq(Status \cup Msg) /\ i # <<>>
        /\ Head(i) \in Status /\ Tail(i) \in Seq(Msg)
    <3> DEFINE code == "TRYAGAIN"
    <3>1. code \in {"SUCCESS", "TRYAGAIN"} /\ i = Append(<<>>, [t |-> code])
      OBVIOUS
    <3> HIDE DEF code, i
    <3> QED BY <3>1, StatusLine
  <2> HIDE DEF i
  <2>3. n \in [Procs -> Seq(Status \cup Msg)] /\ n[a] = i /\ n[p] = <<>>
    <3>1. cn[c].in \in [Procs -> Seq(Status \cup Msg)]
      BY <1>0 DEF Connection
    <3> QED BY <1>1, <1>2, <1>5, <2>2, <3>1
  <2> HIDE DEF n
  <2>4. /\ k1 \in Connection /\ k1.client = a /\ k1.st0 = cn[c].st0 /\ k1.in = n
        /\ k1.cut = cn[c].cut
    BY <1>0, <2>3 DEF Connection
  <2> HIDE DEF k1
  <2>5. conn \in [Conns -> Connection] /\ conn[c] = k1
    BY <1>3, <2>4 DEF Orderly
  <2>6. cn' = [cn EXCEPT ![c] = k]
    <3>1. Ended(c, p, conn) = [conn EXCEPT ![c] = k]
      BY <2>5 DEF Ended, EndOf
    <3> HIDE DEF k
    <3> QED BY <1>3, <2>1, <3>1 DEF Orderly
  <2>7. /\ k \in Connection /\ Handshake(k) /\ k.st0[p] = "END"
        /\ k.st0[a] = cn[c].st0[a] /\ k.client \in {a, None}
    <3>1. CASE cn[c].st0[a] = "END"
      <4>1. k = NoConn
        BY <1>2, <2>4, <3>1 DEF EndOf
      <4> QED BY <1>1, <1>2, <3>1, <4>1, NoConnType
    <3>2. CASE cn[c].st0[a] # "END"
      <4> DEFINE s == [k1.st0 EXCEPT ![p] = "END"]
                 j == [k1.in EXCEPT ![p] = <<>>]
      <4>1. k = [k1 EXCEPT !.st0 = s, !.in = j]
        BY <1>2, <2>4, <3>2 DEF EndOf, Connection
      <4>2. /\ s \in [Procs -> {"CONNECT", "ACCEPT", "GETSTATUS", "WAITMSG", "END"}]
            /\ s[p] = "END" /\ s[a] = cn[c].st0[a]
        BY <1>1, <1>2, <2>4 DEF Connection
      <4>3. j \in [Procs -> Seq(Status \cup Msg)] /\ j[p] = <<>> /\ j[a] = i
        BY <1>1, <1>2, <2>3, <2>4
      <4> HIDE DEF s, j
      <4>4. k \in Connection /\ k.client = a /\ k.st0 = s /\ k.in = j
        BY <2>4, <4>1, <4>2, <4>3 DEF Connection
      <4> HIDE DEF k
      <4>5. cn[c].st0[a] = "GETSTATUS"
        BY <1>5, <3>2
      <4>6. \A e \in Procs : k.st0[e] # "WAITMSG"
        BY <1>2, <4>2, <4>4, <4>5
      <4> HIDE DEF a
      <4>7. Handshake(k)
        BY <1>2, <2>2, <4>2, <4>3, <4>4, <4>5, <4>6 DEF Handshake
      <4> QED BY <4>2, <4>4, <4>7
    <3> QED BY <3>1, <3>2
  <2> HIDE DEF k
  <2>8. Orderly(cn')
    BY <1>3, <2>6, <2>7, OrderlyAt
  <2>9. Tied(ps[a], a, cn')
    BY <1>1, <1>3, <2>6, <2>7, TiedAt
  <2>10. Tied(r, p, cn')
    <3>1. \A d \in Conns : cn'[d] = IF d = c THEN k ELSE cn[d]
      BY <1>3, <2>6 DEF Orderly
    <3>2. r.session \in Conns \cup {None}
      BY <1>3 DEF Process
    <3> HIDE DEF p
    <3> QED BY <1>3, <1>6, <2>7, <3>1, <3>2 DEF Tied
  <2>11. ps' = [ps EXCEPT ![p] = r]
    BY <1>2, <1>3, <2>1
  <2> HIDE DEF a
  <2> QED BY <1>2, <1>3, <1>4, <2>8, <2>9, <2>10, <2>11, Packed
<1>8. CASE ~(local /\ r.session # None)
  <2> DEFINE r0 == IF r.session = None THEN r ELSE PeerSessionRelease(r, r.session)
             b  == [r0 EXCEPT !.session = c]
             r1 == Begun(b)
             learn == local /\ FromLocal(r1) /\ "ASSIGN" \notin r1.flags
             x == [r1 EXCEPT !.pf = @ \cup {"LEARN_ASSIGN"},
                             !.flags = @ \cup {"ASSIGN", "PROCESS"}]
             R == IF learn THEN x ELSE r1
             E == ForceShutdown(p, cn)
             i == Append(<<>>, [t |-> "SUCCESS"])
             k == Waits(cn[c], p, a, i)
  <2>1. /\ r0 \in Process /\ Assigned(r0) /\ r0.session = None
        /\ r0.stopping = r.stopping /\ r0.donotstop = r.donotstop
        /\ Orderly(E) /\ Tied(r0, p, E) /\ Tied(ps[a], a, E) /\ E[c] = cn[c]
    BY <1>2, <1>3, <1>6, ShutdownKeeps
  <2>2. ps' = [ps EXCEPT ![p] = R]
    BY <1>8, Zenon DEF Accept
  <2>3. cn' = [E EXCEPT ![c] = k]
    <3>1. cn' = [[E EXCEPT ![c].in[Other(p)] = Append(@, [t |-> "SUCCESS"])]
                 EXCEPT ![c].st0[p] = "WAITMSG"]
      BY <1>8, Zenon DEF Accept
    <3> DEFINE g == [E EXCEPT ![c].in[a] = Append(@, [t |-> "SUCCESS"])]
    <3>2. cn' = [g EXCEPT ![c].st0[p] = "WAITMSG"]
      BY <1>2, <3>1, Zenon
    <3> HIDE DEF E
    <3>3. g = [E EXCEPT ![c] = [cn[c] EXCEPT !.in[a] = i]]
      BY <1>5, <2>1 DEF Orderly
    <3>4. g \in [Conns -> {g[d] : d \in Conns}] /\ g[c] = [cn[c] EXCEPT !.in[a] = i]
      BY <2>1, <3>3 DEF Orderly
    <3> HIDE DEF g
    <3>5. cn' = [g EXCEPT ![c] = [g[c] EXCEPT !.st0[p] = "WAITMSG"]]
      BY <3>2, <3>4
    <3>6. [g[c] EXCEPT !.st0[p] = "WAITMSG"] = k
      BY <1>0, <1>1, <1>2, <3>4 DEF Waits, Connection
    <3> HIDE DEF k
    <3> QED BY <2>1, <3>3, <3>5, <3>6 DEF Orderly
  <2>4. /\ i \in Seq(Status \cup Msg) /\ i # <<>>
        /\ Head(i) \in Status /\ Tail(i) \in Seq(Msg)
    <3> DEFINE code == "SUCCESS"
    <3>1. code \in {"SUCCESS", "TRYAGAIN"} /\ i = Append(<<>>, [t |-> code])
      OBVIOUS
    <3> HIDE DEF code, i
    <3> QED BY <3>1, StatusLine
  <2> HIDE DEF i, E, r0
  <2>5. /\ k \in Connection /\ k.client = a /\ k.cut = cn[c].cut
        /\ k.in[a] = i /\ k.st0[p] = "WAITMSG"
        /\ k.in[p] = <<>> /\ k.st0[a] = cn[c].st0[a]
    BY <1>0, <1>1, <1>2, <1>5, <2>4, WaitsType
  <2> HIDE DEF k
  <2>6. Handshake(k)
    <3>1. <<>> \in Seq(Msg)
      OBVIOUS
    <3>2. \A e \in Procs : k.st0[e] = "WAITMSG" => k.in[e] \in Seq(Msg)
      BY <1>2, <1>5, <2>5, <3>1
    <3> HIDE DEF a
    <3> QED BY <1>2, <1>5, <2>4, <2>5, <3>2 DEF Handshake
  <2>7. /\ b \in Process /\ b.session = c /\ b.pf = r0.pf /\ b.flags = r0.flags
        /\ b.stopping = r0.stopping /\ b.donotstop = r0.donotstop
    BY <2>1 DEF Process
  <2> HIDE DEF b
  <2>8. Assigned(b) /\ "LEARN_ASSIGN" \notin b.pf /\ b.session # None
    BY <2>1, <2>7, PeersAssumption DEF Assigned
  <2>9. /\ r1 \in Process /\ Assigned(r1) /\ r1.woken /\ r1.session = c
    BY <2>7, <2>8, BegunKeeps
  <2> HIDE DEF r1
  <2>10. /\ x \in Process /\ x.session = c /\ x.woken = r1.woken
         /\ x.pf = r1.pf \cup {"LEARN_ASSIGN"}
         /\ x.flags = r1.flags \cup {"ASSIGN", "PROCESS"}
         /\ x.stopping = r1.stopping /\ x.donotstop = r1.donotstop
    <3>1. r1.pf \cup {"LEARN_ASSIGN"} \in SUBSET SessionFlags
      BY <2>9 DEF Process, SessionFlags, Learn
    <3>2. r1.flags \cup {"ASSIGN", "PROCESS"} \in SUBSET {"LOCAL", "REMOTE", "ASSIGN", "PROCESS"}
      BY <2>9 DEF Process
    <3> QED BY <2>9, <3>1, <3>2 DEF Process, SessionFlags
  <2> HIDE DEF x
  <2>11. Assigned(x) /\ x.woken
    BY <2>9, <2>10, PeersAssumption DEF Assigned
  <2>12. R \in Process /\ Assigned(R) /\ R.woken /\ R.session = c
    BY <2>9, <2>10, <2>11
  <2> HIDE DEF R
  <2>13. Driven(R)
    BY <2>12 DEF Driven
  <2>14. Orderly(cn')
    BY <2>1, <2>3, <2>5, <2>6, OrderlyAt
  <2>15. Tied(ps[a], a, cn')
    BY <1>1, <1>3, <2>1, <2>3, <2>5, TiedAt
  <2>16. Tied(R, p, cn')
    BY <1>2, <2>1, <2>3, <2>5, <2>12, TiedOver
  <2> HIDE DEF a
  <2> QED BY <1>2, <1>4, <2>2, <2>12, <2>13, <2>14, <2>15, <2>16, Packed
<1> QED BY <1>7, <1>8

-----------------------------------------------------------------------------

\* Every step of the two processes and of the network keeps the invariant.
LEMMA PeersStep == PeersInv /\ [Next]_vars => PeersInv'
<1> SUFFICES ASSUME PeersInv, [Next]_vars PROVE PeersInv'
  OBVIOUS
<1>1. ASSUME NEW p \in Procs, NEW k \in Touched, StktableTouch(p, k) PROVE PeersInv'
  BY <1>1, TouchStep, PeersAssumption
<1>2. ASSUME NEW p \in Procs, NEW t \in {"resync", "reconnect"}, Expires(p, t)
      PROVE PeersInv'
  BY <1>2, ExpiresStep
<1>3. ASSUME NEW p \in Procs, SyncRunning(p) PROVE PeersInv'
  BY <1>3, SyncRunningStep
<1>4. ASSUME NEW p \in Procs, SyncStopping(p) PROVE PeersInv'
  BY <1>4, SyncStoppingStep
<1>5. CASE SoftStop
  BY <1>5, SoftStopStep
<1>6. ASSUME NEW c \in Conns, Connects(c) PROVE PeersInv'
  BY <1>6, ConnectsStep
<1>7. ASSUME NEW c \in Conns, ConnectFails(c) PROVE PeersInv'
  BY <1>7, ConnectFailsStep
<1>8. ASSUME NEW c \in Conns, Accept(c) PROVE PeersInv'
  BY <1>8, AcceptStep
<1>9. ASSUME NEW c \in Conns, GetStatus(c) PROVE PeersInv'
  BY <1>9, GetStatusStep
<1>10. ASSUME NEW c \in Conns, NEW p \in Procs, ReadMessage(c, p) PROVE PeersInv'
  BY <1>10, ReadStep
<1>11. ASSUME NEW c \in Conns, NEW p \in Procs, WriteMessage(c, p) PROVE PeersInv'
  BY <1>11, WriteStep
<1>12. ASSUME NEW c \in Conns, NEW p \in Procs, Closed(c, p) PROVE PeersInv'
  BY <1>12, ClosedStep
<1>13. ASSUME NEW c \in Conns, Cut(c) PROVE PeersInv'
  BY <1>13, CutStep
<1>14. CASE UNCHANGED vars
  BY <1>14 DEF vars, PeersInv, TypeOK, Linked, Starting, Handshake, SyncDriven
<1> QED BY <1>1, <1>2, <1>3, <1>4, <1>5, <1>6, <1>7, <1>8, <1>9, <1>10, <1>11, <1>12,
           <1>13, <1>14 DEF Next, Task, Io

\* The invariant holds of every behaviour.
LEMMA PeersAlways == Spec => []PeersInv
  BY InitInv, PeersStep, PTL DEF Spec

(***************************************************************************)
(* For every set of entries and of connections, and in every interleaving  *)
(* of the two processes with connections that fail, are cut or replaced:   *)
(* a resync is assigned exactly to the session that is to give the lesson, *)
(* and that session's end of its connection is open.                       *)
(***************************************************************************)
THEOREM AssignmentSafety == Spec => []AssignedToLiveSession
<1>1. PeersInv => AssignedToLiveSession
  BY DEF PeersInv, AssignedToLiveSession, Linked
<1> QED BY <1>1, PeersAlways, PTL

(***************************************************************************)
(* A resync that is not over is always driven: the sync task is awake, its *)
(* timer runs or a teacher is assigned; and a process that delays its exit *)
(* for the handover has a session or a task that will decide.              *)
(***************************************************************************)
THEOREM SyncSafety == Spec => []SyncDriven
<1>1. PeersInv => SyncDriven
  BY DEF PeersInv
<1> QED BY <1>1, PeersAlways, PTL

-----------------------------------------------------------------------------
(* The queues.                                                             *)

\* What is left of a queue when its first message is read.
LEMMA TailTells ==
  ASSUME NEW M, NEW i \in Seq(M), i # <<>>
  PROVE  /\ \A ts : \A n \in At(Tail(i), ts) :
                n \in Nat /\ n + 1 \in At(i, ts) /\ Tail(i)[n] = i[n + 1]
         /\ \A ts : Head(i).t \in ts => 1 \in At(i, ts)
         /\ \A n \in Nat : Told(i, n + 1) \subseteq
                Told(Tail(i), n) \cup (IF Head(i).t = "D" THEN {Head(i).k} ELSE {})
         /\ Len(Tail(i)) + 1 = Len(i) /\ Told(i, 1) = {}
<1>1. /\ Len(i) \in Nat \ {0} /\ DOMAIN i = 1..Len(i)
      /\ Tail(i) \in Seq(M) /\ Len(Tail(i)) = Len(i) - 1
      /\ DOMAIN Tail(i) = 1..(Len(i) - 1)
      /\ \A n \in 1..(Len(i) - 1) : Tail(i)[n] = i[n + 1]
      /\ Head(i) = i[1]
  OBVIOUS
<1> DEFINE j == Tail(i)
           h == Head(i)
<1> HIDE DEF j, h
<1>2. /\ DOMAIN j = 1..(Len(i) - 1) /\ Len(j) = Len(i) - 1
      /\ \A n \in 1..(Len(i) - 1) : j[n] = i[n + 1]
      /\ h = i[1]
  BY <1>1 DEF j, h
<1>3. ASSUME NEW ts, NEW n \in At(j, ts)
      PROVE  n \in Nat /\ n + 1 \in At(i, ts) /\ j[n] = i[n + 1]
  BY <1>1, <1>2, <1>3 DEF At
<1>4. ASSUME NEW ts, h.t \in ts PROVE 1 \in At(i, ts)
  BY <1>1, <1>2, <1>4 DEF At
<1>5. ASSUME NEW n \in Nat, NEW x \in Told(i, n + 1)
      PROVE  x \in Told(j, n) \cup (IF h.t = "D" THEN {h.k} ELSE {})
  <2>1. PICK m \in At(i, {"D"}) : m < n + 1 /\ x = i[m].k
    BY <1>5 DEF Told
  <2>2. m \in 1..Len(i) /\ i[m].t = "D"
    BY <1>1, <2>1 DEF At
  <2>3. CASE m = 1
    BY <1>2, <2>1, <2>2, <2>3
  <2>4. CASE m # 1
    <3>1. m - 1 \in 1..(Len(i) - 1) /\ m - 1 < n
      BY <1>1, <2>1, <2>2, <2>4
    <3>2. j[m - 1] = i[m]
      BY <1>2, <2>2, <3>1
    <3>3. m - 1 \in At(j, {"D"})
      BY <1>2, <2>2, <3>1, <3>2 DEF At
    <3> QED BY <2>1, <3>1, <3>2, <3>3 DEF Told
  <2> QED BY <2>3, <2>4
<1>6. Told(i, 1) = {}
  BY <1>1 DEF Told, At
<1>7. Len(j) + 1 = Len(i)
  BY <1>1, <1>2
<1> QED BY <1>3, <1>4, <1>5, <1>6, <1>7 DEF j, h

\* A queue that a message was added to.
LEMMA AppendTells ==
  ASSUME NEW M, NEW i \in Seq(M), NEW m
  PROVE  LET j == Append(i, m)
         IN  /\ \A ts : \A n \in At(j, ts) :
                  \/ n \in At(i, ts) /\ j[n] = i[n]
                  \/ n = Len(i) + 1 /\ j[n] = m /\ m.t \in ts
             /\ \A n \in Nat : n <= Len(i) + 1 => Told(i, n) \subseteq Told(j, n)
             /\ Told(i, Len(i) + 1) \subseteq Told(j, Len(j) + 1)
             /\ m.t = "D" => m.k \in Told(j, Len(j) + 1)
             /\ Len(i) \in Nat /\ \A ts : At(i, ts) \subseteq 1..Len(i)
<1> DEFINE j == Append(i, m)
<1>1. /\ Len(i) \in Nat /\ DOMAIN i = 1..Len(i)
      /\ DOMAIN j = 1..(Len(i) + 1) /\ Len(j) = Len(i) + 1
      /\ \A n \in 1..Len(i) : j[n] = i[n]
      /\ j[Len(i) + 1] = m
  OBVIOUS
<1> HIDE DEF j
<1>2. ASSUME NEW ts, NEW n \in At(j, ts)
      PROVE  \/ n \in At(i, ts) /\ j[n] = i[n]
             \/ n = Len(i) + 1 /\ j[n] = m /\ m.t \in ts
  BY <1>1, <1>2 DEF At
<1>3. \A n \in At(i, {"D"}) : n \in At(j, {"D"}) /\ j[n] = i[n]
  BY <1>1 DEF At
<1>4. ASSUME NEW n \in Nat, NEW x \in Told(i, n) PROVE x \in Told(j, n)
  BY <1>3, <1>4 DEF Told
<1>5. ASSUME NEW x \in Told(i, Len(i) + 1) PROVE x \in Told(j, Len(j) + 1)
  <2>1. PICK n \in At(i, {"D"}) : n < Len(i) + 1 /\ x = i[n].k
    BY <1>5 DEF Told
  <2>2. n \in 1..Len(i)
    BY <1>1, <2>1 DEF At
  <2>3. n < Len(j) + 1
    BY <1>1, <2>1, <2>2
  <2> QED BY <1>3, <2>1, <2>3 DEF Told
<1>6. ASSUME m.t = "D" PROVE m.k \in Told(j, Len(j) + 1)
  <2>1. Len(i) + 1 \in At(j, {"D"})
    BY <1>1, <1>6 DEF At
  <2>2. Len(i) + 1 < Len(j) + 1
    BY <1>1
  <2> QED BY <1>1, <2>1, <2>2 DEF Told
<1>7. \A ts : At(i, ts) \subseteq 1..Len(i)
  BY <1>1 DEF At
<1> QED BY <1>1, <1>2, <1>4, <1>5, <1>6, <1>7 DEF j

\* A queue without messages.
LEMMA EmptyTells == \A ts : At(<<>>, ts) = {}
BY DEF At

-----------------------------------------------------------------------------
(* The two ends of a connection.                                           *)

\* What the invariant says of a connection: x is e's record, y the other's.
Both(x, y, k, c, e) ==
    /\ k.st0[e] = "WAITMSG" => x.session = c
    /\ k.st0[Other(e)] = "WAITMSG" => y.session = c
    /\ Queued(y, k, e) /\ Queued(x, k, Other(e))
    /\ Lessons(y, x, k, c, e) /\ Lessons(x, y, k, c, Other(e))

\* What a step of one process leaves of the lessons it gives and takes, when it may
\* have learned the entries of G.
Carries(x, X, G) ==
    /\ Asked(x) => Asked(X)
    /\ X.confirm = x.confirm /\ X.origin = x.origin /\ X.pushed = x.pushed
    /\ \A f \in Teach : f \in X.pf <=> f \in x.pf
    /\ \A z \in Owed(X) : z \in G \/ (z \in Owed(x) /\ X.upd[z] = x.upd[z])

\* The entries of a lesson are ahead, or known, as before.
LEMMA CarriesProgress ==
  ASSUME NEW x, NEW X, NEW G, Carries(x, X, G), NEW S, Progress(x, S), G \subseteq S
  PROVE  Progress(X, S)
<1> SUFFICES ASSUME "TEACH_PROCESS" \in X.pf, NEW z \in Owed(X)
             PROVE  z \in S \/ Ahead(X, z)
  BY DEF Progress
<1>1. "TEACH_PROCESS" \in x.pf
  BY DEF Carries, Teach
<1>2. CASE z \in G
  BY <1>2
<1>3. CASE z \in Owed(x) /\ X.upd[z] = x.upd[z]
  <2>1. z \in S \/ Ahead(x, z)
    BY <1>1, <1>3 DEF Progress
  <2> QED BY <1>3, <2>1 DEF Ahead, Carries, Teach
<1> QED BY <1>2, <1>3 DEF Carries

\* The connection stays as it is and the end of e, or its lessons, as well.
LEMMA BothKept ==
  ASSUME NEW e \in Procs, NEW x, NEW X, NEW y, NEW k, NEW c,
         Both(x, y, k, c, e), x.has \subseteq X.has,
         X.session = c => x.session = c,
         k.st0[e] = "WAITMSG" => X.session = c,
         X.session = c => Carries(x, X, y.has)
  PROVE  Both(X, y, k, c, e)
<1> DEFINE o == Other(e)
<1>1. Other(o) = e
  BY OtherProc
<1> HIDE DEF o
<1>2. /\ Queued(y, k, e) /\ Queued(x, k, o)
      /\ Lessons(y, x, k, c, e) /\ Lessons(x, y, k, c, o)
      /\ k.st0[o] = "WAITMSG" => y.session = c
  BY DEF Both, o
<1>3. Queued(X, k, o)
  <2>1. ASSUME X.session = c PROVE X.confirm = x.confirm
                                  /\ ("TEACH_PROCESS" \in X.pf <=> "TEACH_PROCESS" \in x.pf)
    BY <2>1 DEF Carries, Teach
  <2> QED BY <1>1, <1>2, <2>1 DEF Queued
<1>4. Lessons(y, X, k, c, e)
  <2>1. ASSUME k.st0[e] = "WAITMSG"
        PROVE  X.confirm = x.confirm /\ (Asked(x) => Asked(X))
    BY <2>1 DEF Carries
  <2>2. ASSUME NEW S, Progress(y, x.has \cup S) PROVE Progress(y, X.has \cup S)
    BY <2>2 DEF Progress
  <2>3. Other(e) = o
    BY DEF o
  <2> QED BY <1>2, <2>1, <2>2, <2>3 DEF Lessons
<1>5. Lessons(X, y, k, c, o)
  <2>1. ASSUME NEW S, Progress(x, y.has \cup S), X.session = c
        PROVE  Progress(X, y.has \cup S)
    BY <2>1, CarriesProgress
  <2>2. ASSUME NEW S, Owed(x) \subseteq y.has \cup S, X.session = c
        PROVE  Owed(X) \subseteq y.has \cup S
    BY <2>2 DEF Carries
  <2>3. ASSUME Owed(x) \subseteq y.has, X.session = c PROVE Owed(X) \subseteq y.has
    BY <2>3 DEF Carries
  <2>4. X.session = c => (Teaching(X) <=> Teaching(x))
    BY DEF Carries, Teach, Teaching
  <2> QED BY <1>1, <1>2, <2>1, <2>2, <2>3, <2>4 DEF Lessons
<1> QED BY <1>2, <1>3, <1>4, <1>5 DEF Both, o

\* A connection over which nothing but a status was said.
LEMMA BothSilent ==
  ASSUME NEW e \in Procs, NEW x, NEW y, NEW k, NEW c,
         \A p \in Procs : /\ k.st0[p] # "WAITMSG"
                          /\ At(k.in[p], {"D", "R", "F", "C", "c"}) = {}
                          /\ k.st0[p] = "GETSTATUS" => k.in[Other(p)] = <<>>
  PROVE  Both(x, y, k, c, e)
<1>1. e \in Procs /\ Other(e) \in Procs /\ Other(Other(e)) = e
  BY OtherProc
<1>2. \A p \in Procs : \A ts \in SUBSET {"D", "R", "F", "C", "c"} : At(k.in[p], ts) = {}
  BY DEF At
<1>3. /\ {"D"} \in SUBSET {"D", "R", "F", "C", "c"}
      /\ {"R"} \in SUBSET {"D", "R", "F", "C", "c"}
      /\ {"c"} \in SUBSET {"D", "R", "F", "C", "c"}
      /\ {"F", "C"} \in SUBSET {"D", "R", "F", "C", "c"}
      /\ {"c", "F", "C"} \in SUBSET {"D", "R", "F", "C", "c"}
      /\ {"R", "F", "C", "c"} \in SUBSET {"D", "R", "F", "C", "c"}
  OBVIOUS
<1>4. \A p \in Procs : /\ At(k.in[p], {"D"}) = {} /\ At(k.in[p], {"R"}) = {}
                       /\ At(k.in[p], {"c"}) = {} /\ At(k.in[p], {"F", "C"}) = {}
                       /\ At(k.in[p], {"c", "F", "C"}) = {}
                       /\ At(k.in[p], {"R", "F", "C", "c"}) = {}
  BY <1>2, <1>3
<1>5. \A t : \A p \in Procs : Queued(t, k, p)
  BY <1>4, OtherProc DEF Queued
<1>6. \A t, r : \A p \in Procs : Lessons(t, r, k, c, p)
  BY <1>4, OtherProc DEF Lessons
<1> QED BY <1>1, <1>5, <1>6 DEF Both

\* The end of e is over, and so is the session it had over the connection.
LEMMA BothEnded ==
  ASSUME NEW e \in Procs, NEW x, NEW X, NEW y, NEW k \in Connection, Handshake(k), NEW c,
         Both(x, y, k, c, e), x.has \subseteq X.has, X.session # c
  PROVE  Both(X, y, EndOf(k, e), c, e)
<1> DEFINE o == Other(e)
           E == [k EXCEPT !.st0[e] = "END", !.in[e] = <<>>]
<1>1. e \in Procs /\ o \in Procs /\ o # e /\ Other(o) = e
  BY OtherProc
<1>2. CASE k.st0[o] = "END"
  <2>1. EndOf(k, e) = NoConn
    BY <1>2 DEF EndOf
  <2>2. \A p \in Procs : /\ NoConn.st0[p] = "END"
                         /\ At(NoConn.in[p], {"D", "R", "F", "C", "c"}) = {}
    BY NoConnType, EmptyTells
  <2> QED BY <2>1, <2>2, BothSilent
<1>3. CASE k.st0[o] # "END"
  <2>1. EndOf(k, e) = E
    BY <1>3 DEF EndOf
  <2>2. /\ E.st0[e] = "END" /\ E.st0[o] = k.st0[o] /\ E.in[e] = <<>> /\ E.in[o] = k.in[o]
        /\ E.cut = k.cut
    BY <1>1 DEF Connection
  <2> HIDE DEF E
  <2>3. /\ Queued(x, k, o) /\ Lessons(y, x, k, c, e) /\ Lessons(x, y, k, c, o)
        /\ k.st0[o] = "WAITMSG" => y.session = c
    BY DEF Both
  <2> HIDE DEF o
  <2>4. \A ts : At(E.in[e], ts) = {}
    BY <2>2, EmptyTells
  <2>5. Queued(y, E, e)
    BY <2>2, <2>4 DEF Queued
  <2>6. Queued(X, E, o)
    BY <1>1, <2>2, <2>3 DEF Queued
  <2>7. Lessons(y, X, E, c, e)
    <3>1. Other(e) = o
      BY DEF o
    <3> QED BY <2>2, <2>3, <2>4, <3>1 DEF Lessons
  <2>8. Lessons(X, y, E, c, o)
    BY <1>1, <2>2, <2>3, <2>4 DEF Lessons
  <2> QED BY <2>1, <2>2, <2>3, <2>5, <2>6, <2>7, <2>8 DEF Both, o
<1> QED BY <1>2, <1>3

-----------------------------------------------------------------------------
(* The cursor of a lesson.                                                 *)

\* A lookup past u finds the least key of the tree past it.
LEMMA AfterLeast ==
  ASSUME NEW r \in Process, NEW u \in Nat
  PROVE  /\ After(r, u) \in Nat
         /\ After(r, u) = 0 => \A k \in Keys : r.upd[k] <= u
         /\ After(r, u) # 0 =>
              /\ \A k \in Keys : r.upd[k] > u => r.upd[k] >= After(r, u)
              /\ After(r, u) > u /\ KeyOf(r, After(r, u)) \in Keys
              /\ r.upd[KeyOf(r, After(r, u))] = After(r, u)
<1> DEFINE later == {r.upd[k] : k \in {x \in Keys : r.upd[x] > u}}
<1>1. r.upd \in [Keys -> Nat]
  BY DEF Process
<1>2. later \in SUBSET Nat
  BY <1>1
<1>3. \A k \in Keys : r.upd[k] > u => r.upd[k] \in later
  OBVIOUS
<1>4. CASE later = {}
  <2>1. After(r, u) = 0
    BY <1>4 DEF After
  <2>2. \A k \in Keys : r.upd[k] <= u
    BY <1>1, <1>3, <1>4
  <2> QED BY <2>1, <2>2
<1>5. CASE later # {}
  <2>1. Min(later) \in later /\ \A n \in later : Min(later) <= n
    BY <1>2, <1>5, LeastIsMin
  <2>2. After(r, u) = Min(later)
    BY <1>5 DEF After
  <2>3. PICK k \in Keys : r.upd[k] = After(r, u) /\ r.upd[k] > u
    BY <2>1, <2>2
  <2>4. /\ KeyOf(r, After(r, u)) \in Keys
        /\ r.upd[KeyOf(r, After(r, u))] = After(r, u)
    BY <2>3 DEF KeyOf
  <2>5. \A j \in Keys : r.upd[j] > u => r.upd[j] >= After(r, u)
    BY <1>1, <1>2, <1>3, <2>1, <2>2
  <2> HIDE DEF later
  <2> QED BY <1>1, <2>3, <2>4, <2>5
<1> QED BY <1>4, <1>5

\* The table of two records is the same.
Table(r, R) == /\ R.has = r.has /\ R.upd = r.upd /\ R.update = r.update
               /\ R.localupdate = r.localupdate

\* What is owed depends on the table and the origin of the lesson.
LEMMA OwedSame ==
  ASSUME NEW r, NEW R, Table(r, R), R.origin = r.origin
  PROVE  Owed(R) = Owed(r)
BY DEF Table, Owed

\* What the handler and a written message leave of a record: all but cursors and stages.
Goes(r, R) ==
    /\ Table(r, R) /\ R.origin = r.origin
    /\ \A f \in SessionFlags \ {"TEACH_STAGE1", "TEACH_STAGE2", "TEACH_FINISHED"} :
          f \in R.pf <=> f \in r.pf

LEMMA MovedGoes ==
  ASSUME NEW r \in Process, NEW n \in Nat,
         NEW f \in SUBSET {"TEACH_STAGE1", "TEACH_STAGE2", "TEACH_FINISHED"},
         NEW g, g = r.pf \cup f
  PROVE  LET R == Moved(r, g, n)
         IN  /\ R \in Process /\ Goes(r, R) /\ Alike(r, R) /\ R.confirm = r.confirm
             /\ R.pushed = n /\ R.pf = g
<1>1. g \in SUBSET SessionFlags
  BY DEF Process, SessionFlags, Teach
<1>2. \A h \in SessionFlags \ {"TEACH_STAGE1", "TEACH_STAGE2", "TEACH_FINISHED"} :
        h \in g <=> h \in r.pf
  OBVIOUS
<1> DEFINE R == Moved(r, g, n)
<1>3. R \in Process /\ Alike(r, R) /\ R.pf = g /\ R.pushed = n
  BY <1>1, CursorMoved
<1>4. Table(r, R) /\ R.origin = r.origin /\ R.confirm = r.confirm
  BY DEF Process, Moved, Table
<1> QED BY <1>2, <1>3, <1>4 DEF Goes

\* The stages follow each other.
Staged(r) == /\ "TEACH_STAGE2" \in r.pf => "TEACH_STAGE1" \in r.pf
             /\ "TEACH_FINISHED" \in r.pf => "TEACH_STAGE2" \in r.pf

\* Between two messages every entry that the cursor passes was told before.
LEMMA SettledTells ==
  ASSUME NEW r \in Process, Staged(r)
  PROVE  LET R == Settled(r)
         IN  /\ R \in Process /\ Goes(r, R) /\ Alike(r, R) /\ R.confirm = r.confirm
             /\ Staged(R) /\ ("TEACH_FINISHED" \in R.pf <=> "TEACH_FINISHED" \in r.pf)
             /\ \A S : Progress(r, S) => Progress(R, S)
<1> DEFINE Good(x, X) ==
      /\ X \in Process /\ Goes(x, X) /\ Alike(x, X) /\ X.confirm = x.confirm /\ Staged(X)
      /\ ("TEACH_FINISHED" \in X.pf <=> "TEACH_FINISHED" \in x.pf)
      /\ \A S : Progress(x, S) => Progress(X, S)
<1>1. ASSUME NEW x \in Process, Staged(x) PROVE Good(x, x)
  BY <1>1 DEF Goes, Alike, Table
<1>2. ASSUME NEW x \in Process, NEW X, NEW Y, Good(x, X), Good(X, Y) PROVE Good(x, Y)
  BY <1>2, Zenon DEF Goes, Alike, Table
<1>3. Good(r, Stage1(r))
  <2> DEFINE n == IF After(r, 0) = 0 THEN r.pushed ELSE After(r, 0) - 1
             R == Stage1(r)
             f == {"TEACH_STAGE1"}
             g == r.pf \cup f
  <2>1. r.pushed \in Nat /\ r.upd \in [Keys -> Nat] /\ r.origin \in Nat
    BY DEF Process
  <2>2. CASE ~Teaching(r) \/ "TEACH_STAGE1" \in r.pf \/ After(r, r.pushed) # 0
    <3>1. R = r
      BY <2>2 DEF Stage1
    <3> QED BY <1>1, <3>1
  <2>3. CASE ~(~Teaching(r) \/ "TEACH_STAGE1" \in r.pf \/ After(r, r.pushed) # 0)
    <3>1. n \in Nat /\ \A k \in Keys : r.upd[k] > 0 => n < r.upd[k] \/ After(r, 0) = 0
      BY <2>1, AfterLeast
    <3>2. R = Moved(r, g, n)
      BY <2>3 DEF Stage1, Moved
    <3>3. \A k \in Keys : r.upd[k] <= r.pushed
      BY <2>1, <2>3, AfterLeast
    <3>4. After(r, 0) = 0 => \A k \in Keys : r.upd[k] = 0
      BY <2>1, AfterLeast
    <3> HIDE DEF n, R
    <3>5. /\ R \in Process /\ Goes(r, R) /\ Alike(r, R) /\ R.confirm = r.confirm
          /\ R.pushed = n /\ R.pf = r.pf \cup f
      <4>1. f \in SUBSET {"TEACH_STAGE1", "TEACH_STAGE2", "TEACH_FINISHED"}
        OBVIOUS
      <4>2. g = r.pf \cup f
        OBVIOUS
      <4> HIDE DEF f, g
      <4> QED BY <3>1, <3>2, <4>1, <4>2, MovedGoes
    <3>6. ASSUME NEW S, Progress(r, S), NEW k \in Owed(R), "TEACH_PROCESS" \in R.pf
          PROVE  k \in S \/ Ahead(R, k)
      <4>1. k \in Owed(r) /\ "TEACH_PROCESS" \in r.pf /\ R.upd = r.upd /\ R.origin = r.origin
        BY <3>5, <3>6, OwedSame DEF Goes, Table
      <4>2. k \in S \/ Ahead(r, k)
        BY <3>6, <4>1 DEF Progress
      <4>3. k \in Keys /\ r.upd[k] > 0
        BY <4>1 DEF Owed
      <4>4. "TEACH_STAGE2" \notin r.pf
        BY <2>3 DEF Staged
      <4>5. CASE Ahead(r, k)
        <5>1. r.upd[k] <= r.origin
          BY <2>1, <2>3, <3>3, <4>3, <4>5 DEF Ahead
        <5>2. n < r.upd[k]
          BY <2>1, <3>1, <3>4, <4>3
        <5> QED BY <3>5, <4>1, <4>4, <5>1, <5>2 DEF Ahead
      <4> QED BY <4>2, <4>5
    <3>7. Staged(R) /\ ("TEACH_FINISHED" \in R.pf <=> "TEACH_FINISHED" \in r.pf)
      BY <3>5 DEF Staged
    <3>8. \A S : Progress(r, S) => Progress(R, S)
      BY <3>6 DEF Progress
    <3> QED BY <3>5, <3>7, <3>8 DEF R
  <2> QED BY <2>2, <2>3
<1>4. ASSUME NEW x \in Process, Staged(x) PROVE Good(x, Stage2(x))
  <2> DEFINE u == After(x, x.pushed)
             R == Stage2(x)
             f == {"TEACH_STAGE2"}
             g == x.pf \cup f
  <2>1. x.pushed \in Nat /\ x.upd \in [Keys -> Nat] /\ x.origin \in Nat
    BY DEF Process
  <2>2. CASE ~Teaching(x) \/ "TEACH_STAGE1" \notin x.pf \/ (u # 0 /\ u <= x.origin)
    <3>1. R = x
      BY <2>2 DEF Stage2
    <3> QED BY <1>1, <1>4, <3>1
  <2>3. CASE ~(~Teaching(x) \/ "TEACH_STAGE1" \notin x.pf \/ (u # 0 /\ u <= x.origin))
    <3>1. R = Moved(x, g, x.origin)
      BY <2>3 DEF Stage2, Moved
    <3>2. \A k \in Keys : ~(x.pushed < x.upd[k] /\ x.upd[k] <= x.origin)
      BY <2>1, <2>3, AfterLeast
    <3> HIDE DEF R
    <3>3. /\ R \in Process /\ Goes(x, R) /\ Alike(x, R) /\ R.confirm = x.confirm
          /\ R.pf = x.pf \cup f
      <4>1. f \in SUBSET {"TEACH_STAGE1", "TEACH_STAGE2", "TEACH_FINISHED"}
        OBVIOUS
      <4>2. g = x.pf \cup f
        OBVIOUS
      <4> HIDE DEF f, g
      <4> QED BY <2>1, <3>1, <4>1, <4>2, MovedGoes
    <3>4. ASSUME NEW S, Progress(x, S), NEW k \in Owed(R), "TEACH_PROCESS" \in R.pf
          PROVE  k \in S
      <4>1. k \in Owed(x) /\ "TEACH_PROCESS" \in x.pf
        BY <3>3, <3>4, OwedSame DEF Goes
      <4>2. k \in S \/ Ahead(x, k)
        BY <3>4, <4>1 DEF Progress
      <4> QED BY <2>3, <3>2, <4>1, <4>2 DEF Ahead, Owed
    <3>5. Staged(R) /\ ("TEACH_FINISHED" \in R.pf <=> "TEACH_FINISHED" \in x.pf)
      BY <1>4, <2>3, <3>3 DEF Staged
    <3>6. \A S : Progress(x, S) => Progress(R, S)
      BY <3>4 DEF Progress
    <3> QED BY <3>3, <3>5, <3>6 DEF R
  <2> QED BY <2>2, <2>3
<1>5. ASSUME NEW x \in Process, Staged(x) PROVE Good(x, LocalDone(x))
  <2> DEFINE u == After(x, x.pushed)
             R == LocalDone(x)
  <2>1. CASE ~(PushesLocal(x) /\ (u = 0 \/ u > x.localupdate))
    <3>1. R = x
      BY <2>1 DEF LocalDone
    <3> QED BY <1>1, <1>5, <3>1
  <2>2. CASE PushesLocal(x) /\ (u = 0 \/ u > x.localupdate)
    <3> DEFINE f == {}
               g == x.pf \cup f
    <3>1. R = Moved(x, g, x.localupdate) /\ x.localupdate \in Nat
      BY <2>2 DEF LocalDone, Moved, Process
    <3> HIDE DEF R
    <3>2. /\ R \in Process /\ Goes(x, R) /\ Alike(x, R) /\ R.confirm = x.confirm
          /\ R.pf = x.pf
      <4>1. f \in SUBSET {"TEACH_STAGE1", "TEACH_STAGE2", "TEACH_FINISHED"} 
        OBVIOUS
      <4>2. g = x.pf \cup f
        OBVIOUS
      <4> HIDE DEF f, g
      <4>3. R \in Process /\ Goes(x, R) /\ Alike(x, R) /\ R.confirm = x.confirm /\ R.pf = g
        BY <3>1, <4>1, <4>2, MovedGoes
      <4> QED BY <4>3 DEF f, g
    <3>3. Staged(R)
      BY <1>5, <3>2 DEF Staged
    <3>4. ASSUME NEW S, Progress(x, S), NEW k \in Owed(R), "TEACH_PROCESS" \in R.pf
          PROVE  k \in S
      <4>1. k \in Owed(x) /\ "TEACH_PROCESS" \in x.pf
        BY <3>2, <3>4, OwedSame DEF Goes
      <4>2. "TEACH_FINISHED" \in x.pf
        BY <2>2, <4>1 DEF PushesLocal, Teaching
      <4>3. ~Ahead(x, k)
        BY <1>5, <4>2 DEF Staged, Ahead
      <4> QED BY <3>4, <4>1, <4>3 DEF Progress
    <3>5. \A S : Progress(x, S) => Progress(R, S)
      BY <3>4 DEF Progress
    <3> QED BY <3>2, <3>3, <3>5 DEF R
  <2> QED BY <2>1, <2>2
<1> DEFINE r1 == Stage1(r)
           r2 == Stage2(r1)
           r3 == LocalDone(r2)
<1> HIDE DEF Good
<1>6. Good(r, r1)
  BY <1>3
<1> HIDE DEF r1
<1>7. Good(r, r2)
  <2>1. r1 \in Process /\ Staged(r1)
    BY <1>6 DEF Good
  <2> QED BY <1>2, <1>4, <1>6, <2>1
<1> HIDE DEF r2
<1>8. Good(r, r3)
  <2>1. r2 \in Process /\ Staged(r2)
    BY <1>7 DEF Good
  <2> QED BY <1>2, <1>5, <1>7, <2>1
<1>9. Settled(r) = r3
  BY DEF Settled, r1, r2
<1> HIDE DEF r3
<1> QED BY <1>8, <1>9 DEF Good

\* What a written message m says of the record r it was put from, R the record after it.
Message(r, R, m) ==
    /\ m.t = "D" => m.k \in r.has
    /\ m.t = "c" => r.confirm > 0
    /\ m.t = "R" => "LEARN_ASSIGN" \in r.pf /\ "PROCESS" \notin r.flags /\ "PROCESS" \in R.flags
    /\ m.t \in {"F", "C"} => /\ Teaching(r) /\ "TEACH_FINISHED" \in R.pf
                             /\ \A S : Progress(r, S) => Owed(r) \subseteq S

\* What no message that is written changes.
Writes(r, R) ==
    /\ R \in Process /\ Goes(r, R) /\ Staged(R) /\ R.session = r.session
    /\ R.stopping = r.stopping /\ R.confirm <= r.confirm
    /\ "PROCESS" \in r.flags => "PROCESS" \in R.flags
    /\ "TEACH_FINISHED" \in r.pf => "TEACH_FINISHED" \in R.pf

\* The entry, or the end of the lesson, that is put is the one the cursor has come to.
LEMMA PutTells ==
  ASSUME NEW r \in Process, Staged(r), \A k \in Keys : r.upd[k] > 0 => k \in r.has,
         \A j, k \in Keys : r.upd[j] = r.upd[k] => j = k \/ r.upd[j] = 0,
         Teaching(r) /\ ~Taught(r) => After(r, r.pushed) # 0,
         ~Teaching(r) /\ PushesLocal(r) => After(r, r.pushed) # 0
  PROVE  LET w == Put(r)
         IN  /\ Writes(r, w.r)
             /\ w.m = <<>> \/ \E m \in Msg : w.m = <<m>> /\ Message(r, w.r, m)
             /\ \A S, T : Progress(r, S) /\ S \subseteq T
                          /\ (\A m \in Msg : w.m = <<m>> /\ m.t = "D" => m.k \in T)
                          => Progress(w.r, T)
<1> DEFINE u == After(r, r.pushed)
           d == [t |-> "D", k |-> KeyOf(r, u), v |-> u]
           e == [t |-> IF Finished(r) THEN "F" ELSE "C"]
           a == [t |-> "A", v |-> r.pushack]
           b == [t |-> "c"]
           q == [t |-> "R"]
           rc == [r EXCEPT !.confirm = @ - 1]
           rr == [r EXCEPT !.flags = @ \cup {"PROCESS"}]
           ra == [r EXCEPT !.lastack = r.pushack]
           rd == [r EXCEPT !.pushed = u]
           re == [r EXCEPT !.pf = @ \cup {"TEACH_FINISHED"}]
           Tells(w) ==
             /\ Writes(r, w.r)
             /\ w.m = <<>> \/ \E m \in Msg : w.m = <<m>> /\ Message(r, w.r, m)
             /\ \A S, T : Progress(r, S) /\ S \subseteq T
                          /\ (\A m \in Msg : w.m = <<m>> /\ m.t = "D" => m.k \in T)
                          => Progress(w.r, T)
<1>1. \/ Put(r) = [r |-> rc, m |-> <<b>>] /\ r.confirm > 0
      \/ /\ Put(r) = [r |-> rr, m |-> <<q>>]
         /\ "LEARN_ASSIGN" \in r.pf /\ "PROCESS" \notin r.flags
      \/ Put(r) = [r |-> ra, m |-> <<a>>]
      \/ Put(r) = [r |-> rd, m |-> <<d>>] /\ u # 0
      \/ Put(r) = [r |-> re, m |-> <<e>>] /\ Teaching(r) /\ Taught(r)
      \/ Put(r) = [r |-> r, m |-> <<>>]
  BY Zenon DEF Put
<1>2. /\ r.pushed \in Nat /\ r.pushack \in Nat /\ r.confirm \in Nat
      /\ r.upd \in [Keys -> Nat] /\ r.origin \in Nat
  BY DEF Process
<1>3. /\ u \in Nat
      /\ u # 0 => /\ \A k \in Keys : r.upd[k] > r.pushed => r.upd[k] >= u
                  /\ u > r.pushed /\ KeyOf(r, u) \in Keys /\ r.upd[KeyOf(r, u)] = u
  BY <1>2, AfterLeast
<1>4. /\ b \in Msg /\ q \in Msg /\ e \in Msg /\ a \in Msg
      /\ u # 0 => d \in Msg
      /\ b.t = "c" /\ q.t = "R" /\ e.t \in {"F", "C"} /\ a.t = "A" /\ d.t = "D" /\ d.k = KeyOf(r, u)
  <2> HIDE DEF u
  <2>1. b \in Msg /\ q \in Msg /\ e \in Msg
    BY DEF Msg
  <2>2. a \in [t : {"A"}, v : Nat]
    BY <1>2
  <2>4. \A k \in Keys, v \in Nat : [t |-> "D", k |-> k, v |-> v] \in [t : {"D"}, k : Keys, v : Nat]
    OBVIOUS
  <2>3. ASSUME u # 0 PROVE d \in [t : {"D"}, k : Keys, v : Nat]
    BY <1>3, <2>3, <2>4
  <2>5. /\ b.t = "c" /\ q.t = "R" /\ e.t \in {"F", "C"} /\ a.t = "A" /\ d.t = "D"
        /\ d.k = KeyOf(r, u)
    OBVIOUS
  <2> QED BY <2>1, <2>2, <2>3, <2>5 DEF Msg
<1>5. ASSUME NEW R \in Process, Table(r, R), R.origin = r.origin, R.pf = r.pf,
             R.pushed = r.pushed
      PROVE  \A S, T : Progress(r, S) /\ S \subseteq T => Progress(R, T)
  <2>1. ASSUME NEW S, NEW T, Progress(r, S), S \subseteq T, NEW k \in Owed(R),
               "TEACH_PROCESS" \in R.pf
        PROVE  k \in T \/ Ahead(R, k)
    <3>1. k \in Owed(r)
      BY <1>5, <2>1, OwedSame
    <3>2. k \in S \/ Ahead(r, k)
      BY <1>5, <2>1, <3>1 DEF Progress
    <3> QED BY <1>5, <2>1, <3>2 DEF Ahead, Table
  <2> QED BY <2>1 DEF Progress
<1>6. CASE Put(r) = [r |-> rc, m |-> <<b>>] /\ r.confirm > 0
  <2>1. /\ rc \in Process /\ Table(r, rc) /\ rc.origin = r.origin /\ rc.pf = r.pf
        /\ rc.pushed = r.pushed /\ rc.flags = r.flags /\ rc.session = r.session
        /\ rc.stopping = r.stopping /\ rc.confirm = r.confirm - 1
    BY <1>2, <1>6 DEF Process, Table
  <2> HIDE DEF rc, b
  <2>2. Writes(r, rc)
    BY <1>2, <2>1 DEF Writes, Goes, Staged
  <2>3. Message(r, rc, b)
    BY <1>4, <1>6 DEF Message
  <2> QED BY <1>4, <1>5, <1>6, <2>1, <2>2, <2>3
<1>7. CASE /\ Put(r) = [r |-> rr, m |-> <<q>>]
           /\ "LEARN_ASSIGN" \in r.pf /\ "PROCESS" \notin r.flags
  <2>1. /\ rr \in Process /\ Table(r, rr) /\ rr.origin = r.origin /\ rr.pf = r.pf
        /\ rr.pushed = r.pushed /\ rr.flags = r.flags \cup {"PROCESS"}
        /\ rr.session = r.session /\ rr.stopping = r.stopping /\ rr.confirm = r.confirm
    <3>1. r.flags \cup {"PROCESS"} \in SUBSET {"LOCAL", "REMOTE", "ASSIGN", "PROCESS"}
      BY DEF Process
    <3> QED BY <3>1 DEF Process, Table
  <2> HIDE DEF rr, q
  <2>2. Writes(r, rr)
    BY <1>2, <2>1 DEF Writes, Goes, Staged
  <2>3. Message(r, rr, q)
    BY <1>4, <1>7, <2>1 DEF Message
  <2> QED BY <1>4, <1>5, <1>7, <2>1, <2>2, <2>3
<1>8. CASE Put(r) = [r |-> ra, m |-> <<a>>]
  <2>1. /\ ra \in Process /\ Table(r, ra) /\ ra.origin = r.origin /\ ra.pf = r.pf
        /\ ra.pushed = r.pushed /\ ra.flags = r.flags /\ ra.session = r.session
        /\ ra.stopping = r.stopping /\ ra.confirm = r.confirm
    BY <1>2 DEF Process, Table
  <2> HIDE DEF ra, a
  <2>2. Writes(r, ra)
    BY <1>2, <2>1 DEF Writes, Goes, Staged
  <2>3. Message(r, ra, a)
    BY <1>4 DEF Message
  <2> QED BY <1>4, <1>5, <1>8, <2>1, <2>2, <2>3
<1>9. CASE Put(r) = [r |-> rd, m |-> <<d>>] /\ u # 0
  <2>0. KeyOf(r, u) \in r.has /\ u \in Nat /\ u # 0
    BY <1>3, <1>9
  <2> HIDE DEF u
  <2>1. /\ rd \in Process /\ Table(r, rd) /\ rd.origin = r.origin /\ rd.pf = r.pf
        /\ rd.pushed = u /\ rd.flags = r.flags /\ rd.session = r.session
        /\ rd.stopping = r.stopping /\ rd.confirm = r.confirm
    BY <2>0 DEF Process, Table
  <2> HIDE DEF rd, d
  <2>2. Writes(r, rd)
    BY <1>2, <2>1 DEF Writes, Goes, Staged
  <2>3. Message(r, rd, d)
    BY <1>4, <2>0 DEF Message
  <2>4. ASSUME NEW S, NEW T, Progress(r, S), S \subseteq T, d.k \in T, NEW k \in Owed(rd),
               "TEACH_PROCESS" \in rd.pf
        PROVE  k \in T \/ Ahead(rd, k)
    <3>1. k \in Owed(r) /\ k \in Keys
      BY <2>1, <2>4, OwedSame DEF Owed
    <3>2. k \in S \/ Ahead(r, k)
      BY <2>1, <2>4, <3>1 DEF Progress
    <3>3. CASE r.upd[k] = u
      <4>1. k = KeyOf(r, u)
        BY <1>3, <2>0, <3>1, <3>3
      <4> QED BY <1>4, <2>4, <4>1
    <3>4. CASE r.upd[k] # u
      <4>1. r.upd[k] > r.pushed => r.upd[k] > u
        BY <1>2, <1>3, <2>0, <3>1, <3>4
      <4> QED BY <2>1, <2>4, <3>1, <3>2, <4>1 DEF Ahead, Table
    <3> QED BY <3>3, <3>4
  <2>5. \A S, T : Progress(r, S) /\ S \subseteq T /\ d.k \in T => Progress(rd, T)
    BY <2>4 DEF Progress
  <2> QED BY <1>4, <1>9, <2>0, <2>2, <2>3, <2>5
<1>10. CASE Put(r) = [r |-> re, m |-> <<e>>] /\ Teaching(r) /\ Taught(r)
  <2>1. /\ re \in Process /\ Table(r, re) /\ re.origin = r.origin
        /\ re.pf = r.pf \cup {"TEACH_FINISHED"}
        /\ re.pushed = r.pushed /\ re.flags = r.flags /\ re.session = r.session
        /\ re.stopping = r.stopping /\ re.confirm = r.confirm
    <3>1. r.pf \cup {"TEACH_FINISHED"} \in SUBSET (Teach \cup Learn \cup {"TEACH_COMPLETE"})
      BY DEF Process, Teach
    <3> QED BY <3>1 DEF Process, Table
  <2> HIDE DEF re, e
  <2>2. Writes(r, re)
    BY <1>2, <1>10, <2>1 DEF Writes, Goes, Staged, Taught
  <2>3. ASSUME NEW S, Progress(r, S) PROVE Owed(r) \subseteq S
    BY <1>10, <2>3 DEF Progress, Ahead, Taught, Teaching
  <2>4. Message(r, re, e)
    BY <1>4, <1>10, <2>1, <2>3 DEF Message
  <2>5. \A S, T : Progress(r, S) /\ S \subseteq T => Progress(re, T)
    BY <2>1, <2>3, OwedSame DEF Progress
  <2> QED BY <1>4, <1>10, <2>2, <2>4, <2>5
<1>11. CASE Put(r) = [r |-> r, m |-> <<>>]
  <2>1. Table(r, r) /\ Writes(r, r)
    BY <1>2 DEF Table, Writes, Goes
  <2> QED BY <1>5, <1>11, <2>1
<1> QED BY <1>1, <1>6, <1>7, <1>8, <1>9, <1>10, <1>11

\* What WriteMessage does to the record, and what it says.
LEMMA WriteTells ==
  ASSUME NEW r \in Process, NEW p, Sound(r, p)
  PROVE  LET w == Put(Settled(r))
             R == Settled(w.r)
         IN  /\ Writes(r, R)
             /\ w.m = <<>> \/ \E m \in Msg : w.m = <<m>> /\ Message(r, R, m)
             /\ \A S, T : Progress(r, S) /\ S \subseteq T
                          /\ (\A m \in Msg : w.m = <<m>> /\ m.t = "D" => m.k \in T)
                          => Progress(R, T)
<1> DEFINE s == Settled(r)
           w == Put(s)
           R == Settled(w.r)
<1>1. Staged(r)
  BY DEF Sound, Staged
<1>2. /\ s \in Process /\ Goes(r, s) /\ Alike(r, s) /\ s.confirm = r.confirm
      /\ Staged(s) /\ ("TEACH_FINISHED" \in s.pf <=> "TEACH_FINISHED" \in r.pf)
      /\ \A S : Progress(r, S) => Progress(s, S)
  BY <1>1, SettledTells
<1>3. /\ Teaching(s) /\ ~Taught(s) => After(s, s.pushed) # 0
      /\ ~Teaching(s) /\ PushesLocal(s) => After(s, s.pushed) # 0
  BY SettledKeeps
<1> HIDE DEF s
<1>4. /\ \A k \in Keys : s.upd[k] > 0 => k \in s.has
      /\ \A j, k \in Keys : s.upd[j] = s.upd[k] => j = k \/ s.upd[j] = 0
  BY <1>2 DEF Sound, Goes, Table
<1>5. /\ Writes(s, w.r)
      /\ w.m = <<>> \/ \E m \in Msg : w.m = <<m>> /\ Message(s, w.r, m)
      /\ \A S, T : Progress(s, S) /\ S \subseteq T
                   /\ (\A m \in Msg : w.m = <<m>> /\ m.t = "D" => m.k \in T)
                   => Progress(w.r, T)
  BY <1>2, <1>3, <1>4, PutTells
<1> HIDE DEF w
<1>6. w.r \in Process /\ Staged(w.r)
  BY <1>5 DEF Writes
<1>7. /\ R \in Process /\ Goes(w.r, R) /\ Alike(w.r, R) /\ R.confirm = w.r.confirm
      /\ Staged(R) /\ ("TEACH_FINISHED" \in R.pf <=> "TEACH_FINISHED" \in w.r.pf)
      /\ \A S : Progress(w.r, S) => Progress(R, S)
  BY <1>6, SettledTells
<1> HIDE DEF R
<1>8. Writes(r, R)
  BY <1>2, <1>5, <1>7 DEF Writes, Goes, Table, Alike
<1>9. ASSUME NEW m \in Msg, Message(s, w.r, m) PROVE Message(r, R, m)
  <2>1. s.has = r.has /\ s.confirm = r.confirm /\ s.flags = r.flags /\ R.flags = w.r.flags
    BY <1>2, <1>7 DEF Goes, Table, Alike
  <2>2. /\ "LEARN_ASSIGN" \in s.pf <=> "LEARN_ASSIGN" \in r.pf
        /\ "TEACH_PROCESS" \in s.pf <=> "TEACH_PROCESS" \in r.pf
    BY <1>2 DEF Goes, SessionFlags, Teach, Learn
  <2>3. Teaching(s) => Teaching(r)
    BY <1>2, <2>2 DEF Teaching
  <2>4. Owed(s) = Owed(r)
    BY <1>2, OwedSame DEF Goes
  <2> QED BY <1>2, <1>7, <1>9, <2>1, <2>2, <2>3, <2>4, Zenon DEF Message
<1>10. w.m = <<>> \/ \E m \in Msg : w.m = <<m>> /\ Message(r, R, m)
  BY <1>5, <1>9
<1>11. \A S, T : Progress(r, S) /\ S \subseteq T
                 /\ (\A m \in Msg : w.m = <<m>> /\ m.t = "D" => m.k \in T)
                 => Progress(R, T)
  BY <1>2, <1>5, <1>7
<1> QED BY <1>8, <1>10, <1>11 DEF w, s, R

-----------------------------------------------------------------------------
(* The steps.                                                              *)

\* What the invariant says of one process and the connections ...
LEMMA Opened ==
  ASSUME LessonInv, NEW e \in Procs
  PROVE  /\ Sound(ps[e], e) /\ Handed(ps[e], ps[Other(e)]) /\ Handed(ps[Other(e)], ps[e])
         /\ \A c \in Conns : Both(ps[e], ps[Other(e)], cn[c], c, e)
<1> DEFINE o == Other(e)
<1>1. o \in Procs /\ Other(o) = e
  BY OtherProc
<1> HIDE DEF o
<1>2. /\ Sound(ps[e], e) /\ Handed(ps[o], ps[e]) /\ Handed(ps[e], ps[o])
  BY <1>1 DEF LessonInv, o
<1>3. ASSUME NEW c \in Conns PROVE Both(ps[e], ps[o], cn[c], c, e)
  <2>1. /\ cn[c].st0[e] = "WAITMSG" => ps[e].session = c
        /\ Queued(ps[o], cn[c], e) /\ Lessons(ps[o], ps[e], cn[c], c, e)
    BY DEF LessonInv, o
  <2>2. /\ cn[c].st0[o] = "WAITMSG" => ps[o].session = c
        /\ Queued(ps[e], cn[c], o) /\ Lessons(ps[e], ps[o], cn[c], c, o)
    BY <1>1 DEF LessonInv
  <2> QED BY <2>1, <2>2 DEF Both, o
<1> QED BY <1>2, <1>3 DEF o

\* ... and a step of that process establishes it again from its new record.
LEMMA Closes ==
  ASSUME PeersInv, LessonInv, NEW e \in Procs, NEW X, ps' = [ps EXCEPT ![e] = X],
         local' = local, Sound(X, e), Handed(X, ps[Other(e)]), ps[e].has \subseteq X.has,
         \A c \in Conns : Both(X, ps[Other(e)], cn'[c], c, e)
  PROVE  LessonInv'
<1> DEFINE o == Other(e)
           y == ps[o]
<1>1. o \in Procs /\ o # e /\ Procs = {e, o} /\ Other(o) = e
  BY OtherProc
<1>2. ps'[e] = X /\ ps'[o] = y
  BY <1>1, Unpacked
<1>3. Sound(y, o) /\ Handed(y, ps[e])
  BY <1>1, Opened
<1>4. Handed(y, X)
  BY <1>3 DEF Handed
<1> HIDE DEF o, y
<1>5. /\ Sound(X, e) /\ Handed(X, y) /\ Sound(y, o) /\ Handed(y, X)
      /\ \A c \in Conns : /\ cn'[c].st0[e] = "WAITMSG" => X.session = c
                          /\ cn'[c].st0[o] = "WAITMSG" => y.session = c
                          /\ Queued(y, cn'[c], e) /\ Queued(X, cn'[c], o)
                          /\ Lessons(y, X, cn'[c], c, e) /\ Lessons(X, y, cn'[c], c, o)
  BY <1>3, <1>4 DEF Both, o, y
<1>6. ASSUME NEW p \in Procs
      PROVE  /\ Sound(ps'[p], p) /\ Handed(ps'[Other(p)], ps'[p])
             /\ \A c \in Conns :
                  /\ cn'[c].st0[p] = "WAITMSG" => ps'[p].session = c
                  /\ Queued(ps'[Other(p)], cn'[c], p)
                  /\ Lessons(ps'[Other(p)], ps'[p], cn'[c], c, p)
  <2>1. CASE p = e
    <3>1. Other(p) = o
      BY <2>1 DEF o
    <3> QED BY <1>2, <1>5, <2>1, <3>1
  <2>2. CASE p = o
    BY <1>1, <1>2, <1>5, <2>2
  <2> QED BY <1>1, <2>1, <2>2
<1>7. ASSUME NEW p \in Procs PROVE Sound(ps[p], p)' /\ Handed(ps[Other(p)], ps[p])'
  <2>1. Sound(ps'[p], p) /\ Handed(ps'[Other(p)], ps'[p])
    BY <1>6
  <2> QED BY <2>1 DEF Sound
<1>8. ASSUME NEW p \in Procs, NEW c \in Conns
      PROVE  /\ (cn[c].st0[p] = "WAITMSG" => ps[p].session = c)'
             /\ Queued(ps[Other(p)], cn[c], p)'
             /\ Lessons(ps[Other(p)], ps[p], cn[c], c, p)'
  <2>1. /\ cn'[c].st0[p] = "WAITMSG" => ps'[p].session = c
        /\ Queued(ps'[Other(p)], cn'[c], p)
        /\ Lessons(ps'[Other(p)], ps'[p], cn'[c], c, p)
    BY <1>6
  <2>2. Queued(ps[Other(p)], cn[c], p)'
    BY <2>1 DEF Queued
  <2>3. Lessons(ps[Other(p)], ps[p], cn[c], c, p)'
    BY <2>1 DEF Lessons
  <2> QED BY <2>1, <2>2, <2>3
<1> QED BY <1>7, <1>8 DEF LessonInv

\* A connection that is not of the process's session, before the step or after it.
LEMMA BothElse ==
  ASSUME NEW e \in Procs, NEW x, NEW X, NEW y, NEW k, NEW c,
         Both(x, y, k, c, e), x.has \subseteq X.has, x.session # c, X.session # c
  PROVE  Both(X, y, k, c, e)
<1>1. k.st0[e] # "WAITMSG"
  BY DEF Both
<1> QED BY <1>1, BothKept

\* A step that touches neither the table nor the lesson.
Light(x, X) ==
    /\ Table(x, X) /\ X.origin = x.origin /\ X.pushed = x.pushed /\ X.confirm = x.confirm
    /\ X.stopping = x.stopping
    /\ \A f \in Teach \cup {"TEACH_COMPLETE"} : f \in X.pf <=> f \in x.pf
    /\ "LEARN_ASSIGN" \in x.pf => "LEARN_ASSIGN" \in X.pf
    /\ "PROCESS" \in x.flags => "PROCESS" \in X.flags
    /\ local /\ "LEARN_ASSIGN" \in X.pf => "LEARN_ASSIGN" \in x.pf

LEMMA LightTrans ==
  ASSUME NEW x, NEW X, NEW Y, Light(x, X), Light(X, Y)
  PROVE  Light(x, Y)
BY Zenon DEF Light, Table

LEMMA LightKeeps ==
  ASSUME NEW x, NEW X, NEW p, Light(x, X), Sound(x, p)
  PROVE  Sound(X, p) /\ (\A G : Carries(x, X, G)) /\ Owed(X) = Owed(x)
<1>1. Owed(X) = Owed(x)
  BY OwedSame DEF Light
<1>2. Sound(X, p)
  BY DEF Light, Table, Sound, Teach
<1> QED BY <1>1, <1>2 DEF Light, Table, Carries, Asked

\* A step that leaves the connections and the session alone.
LEMMA QuietStep ==
  ASSUME PeersInv, LessonInv, NEW e \in Procs, NEW X, ps' = [ps EXCEPT ![e] = X],
         cn' = cn, local' = local, Sound(X, e), ps[e].has \subseteq X.has,
         X.session = ps[e].session, Carries(ps[e], X, {}),
         "TEACH_COMPLETE" \in X.pf => "TEACH_COMPLETE" \in ps[e].pf,
         ps[e].stopping => X.stopping
  PROVE  LessonInv'
<1> DEFINE x == ps[e]
           y == ps[Other(e)]
<1>1. Handed(x, y) /\ \A c \in Conns : Both(x, y, cn[c], c, e)
  BY Opened
<1>2. \A G : Carries(x, X, G)
  BY DEF Carries
<1>3. Owed(X) \subseteq Owed(x)
  BY DEF Carries
<1>4. Handed(X, y)
  BY <1>1, <1>3 DEF Handed
<1>5. ASSUME NEW c \in Conns PROVE Both(X, y, cn'[c], c, e)
  <2>1. Both(x, y, cn[c], c, e)
    BY <1>1
  <2>2. cn[c].st0[e] = "WAITMSG" => X.session = c
    BY <2>1 DEF Both
  <2> HIDE DEF x, y
  <2>3. x.has \subseteq X.has /\ X.session = x.session
    BY DEF x
  <2> QED BY <1>2, <2>1, <2>2, <2>3, BothKept
<1> QED BY <1>4, <1>5, Closes

\* A local update is owed by no lesson, and hides none.
LEMMA TouchLesson ==
  ASSUME PeersInv, LessonInv, NEW p \in Procs, NEW k \in Keys, StktableTouch(p, k)
  PROVE  LessonInv'
<1> DEFINE r == ps[p]
           n == r.update + 1
           upd == Insert(r.upd, k, n)
           R == [r EXCEPT !.has = @ \cup {k}, !.upd = upd, !.update = n,
                          !.localupdate = n, !.woken = TRUE]
<1>1. r \in Process /\ ps \in [Procs -> Process] /\ Sound(r, p)
  BY Unpacked, Opened
<1>2. /\ r.update \in Nat /\ n \in Nat /\ n = r.update + 1 /\ r.upd \in [Keys -> Nat]
      /\ r.origin \in Nat /\ r.localupdate \in Nat
  BY <1>1 DEF Process
<1>3. ps' = [ps EXCEPT ![p] = R] /\ cn' = cn /\ local' = local
  BY <1>1 DEF StktableTouch
<1>4. /\ upd \in [Keys -> Nat] /\ upd[k] = n
      /\ \A z \in Keys : z # k => (upd[z] = r.upd[z] /\ r.upd[z] # n) \/ upd[z] = 0
  BY <1>2 DEF Insert
<1> HIDE DEF n, upd
<1>5. /\ R.has = r.has \cup {k} /\ R.upd = upd /\ R.update = n /\ R.localupdate = n
      /\ R.session = r.session /\ R.pf = r.pf /\ R.flags = r.flags /\ R.stopping = r.stopping
      /\ R.origin = r.origin /\ R.pushed = r.pushed /\ R.confirm = r.confirm
  BY <1>1 DEF Process
<1> HIDE DEF R
<1>6. Sound(R, p)
  <2>1. \A z \in Keys : R.upd[z] > 0 => z \in R.has
    BY <1>1, <1>2, <1>4, <1>5 DEF Sound
  <2>2. \A i, j \in Keys : R.upd[i] = R.upd[j] => i = j \/ R.upd[i] = 0
    BY <1>1, <1>2, <1>4, <1>5 DEF Sound
  <2>3. R.origin <= R.update
    BY <1>1, <1>2, <1>5 DEF Sound
  <2> QED BY <1>1, <1>5, <2>1, <2>2, <2>3 DEF Sound
<1>7. ASSUME NEW z \in Owed(R) PROVE z \in Owed(r) /\ R.upd[z] = r.upd[z]
  <2>1. z \in Keys /\ R.upd[z] > 0
    BY <1>7 DEF Owed
  <2>2. z # k
    BY <1>1, <1>2, <1>4, <1>5, <1>7 DEF Owed, Sound
  <2>3. R.upd[z] = r.upd[z]
    BY <1>4, <1>5, <2>1, <2>2
  <2> QED BY <1>2, <1>5, <1>7, <2>1, <2>3 DEF Owed
<1>8. Carries(r, R, {})
  BY <1>5, <1>7 DEF Carries, Asked
<1> QED BY <1>3, <1>5, <1>6, <1>8, QuietStep

\* A timer and the signal to stop leave tables and lessons alone.
LEMMA ExpiresLesson ==
  ASSUME PeersInv, LessonInv, NEW p \in Procs, NEW t \in {"resync", "reconnect"}, Expires(p, t)
  PROVE  LessonInv'
<1> DEFINE r == ps[p]
           due == ~Finished(r) /\ (r.due \/ t = "resync")
           rec == r.reconnect \/ t = "reconnect"
           R == [r EXCEPT !.armed = {}, !.woken = TRUE, !.due = due, !.reconnect = rec]
<1>1. r \in Process /\ ps \in [Procs -> Process] /\ Sound(r, p)
  BY Unpacked, Opened
<1>2. ps' = [ps EXCEPT ![p] = R] /\ cn' = cn /\ local' = local
  BY <1>1 DEF Expires
<1> HIDE DEF due, rec
<1>3. Light(r, R) /\ R.session = r.session
  BY <1>1 DEF Process, Light, Table
<1> HIDE DEF R
<1>4. Sound(R, p) /\ Carries(r, R, {})
  BY <1>1, <1>3, LightKeeps
<1> QED BY <1>2, <1>3, <1>4, QuietStep DEF Light, Table

LEMMA SoftStopLesson ==
  ASSUME PeersInv, LessonInv, SoftStop
  PROVE  LessonInv'
<1> DEFINE r == ps[Old]
           R == [r EXCEPT !.stopping = TRUE, !.signal = TRUE, !.woken = TRUE]
<1>0. Old \in Procs
  BY DEF Procs
<1>1. r \in Process /\ ps \in [Procs -> Process] /\ Sound(r, Old)
  BY <1>0, Unpacked, Opened
<1>2. ps' = [ps EXCEPT ![Old] = R] /\ cn' = cn /\ local' = local /\ local
  BY <1>1 DEF SoftStop
<1>3. /\ Table(r, R) /\ R.session = r.session /\ R.pf = r.pf /\ R.flags = r.flags /\ R.stopping
      /\ R.origin = r.origin /\ R.pushed = r.pushed /\ R.confirm = r.confirm
  BY <1>1 DEF Process, Table
<1> HIDE DEF R
<1>4. Sound(R, Old)
  BY <1>1, <1>2, <1>3 DEF Sound, Table
<1>5. Carries(r, R, {})
  BY <1>3, OwedSame DEF Carries, Asked, Table
<1> QED BY <1>0, <1>2, <1>3, <1>4, <1>5, QuietStep DEF Table

\* A session that is released leaves the table and what its lesson owed.
LEMMA ReleaseTells ==
  ASSUME NEW r \in Process, NEW c, NEW p, Sound(r, p)
  PROVE  LET R == PeerSessionRelease(r, c)
         IN  /\ Table(r, R) /\ R.origin = r.origin /\ R.stopping = r.stopping
             /\ "TEACH_COMPLETE" \in R.pf <=> "TEACH_COMPLETE" \in r.pf
             /\ R.session = IF r.session = c THEN None ELSE r.session
             /\ Sound(R, p)
             /\ r.session # c => Light(r, R)
<1> DEFINE R == PeerSessionRelease(r, c)
           a == Idle(r)
<1>0. /\ a \in Process /\ a.session = None /\ Table(r, a) /\ a.origin = r.origin
      /\ a.pf = r.pf \ (Teach \cup Learn) /\ a.stopping = r.stopping
  BY DEF Process, Idle, Table
<1>1. CASE r.session # c
  <2>1. R = [r EXCEPT !.woken = TRUE]
    BY <1>1 DEF PeerSessionRelease
  <2>2. Light(r, R) /\ R.session = r.session
    BY <2>1 DEF Process, Light, Table
  <2>3. Sound(R, p)
    BY <2>2, LightKeeps
  <2> QED BY <1>1, <2>2, <2>3 DEF Light
<1>2. CASE r.session = c
  <2> DEFINE l == [a EXCEPT !.flags = @ \ {"ASSIGN", "PROCESS"}, !.due = FALSE]
  <2>1. /\ Table(a, l) /\ l.origin = a.origin /\ l.pf = a.pf /\ l.session = None
        /\ l.stopping = a.stopping /\ l \in Process
    BY <1>0 DEF Process, Table
  <2>2. R = [l EXCEPT !.woken = TRUE] \/ R = [a EXCEPT !.woken = TRUE]
    BY <1>2 DEF PeerSessionRelease
  <2> HIDE DEF l, a, R
  <2>3. /\ Table(r, R) /\ R.origin = r.origin /\ R.stopping = r.stopping /\ R.session = None
        /\ R.pf = r.pf \ (Teach \cup Learn)
    <3>1. CASE R = [l EXCEPT !.woken = TRUE]
      BY <1>0, <2>1, <3>1 DEF Process, Table
    <3>2. CASE R = [a EXCEPT !.woken = TRUE]
      BY <1>0, <3>2 DEF Process, Table
    <3> QED BY <2>2, <3>1, <3>2
  <2>4. /\ "TEACH_COMPLETE" \in R.pf <=> "TEACH_COMPLETE" \in r.pf
        /\ \A f \in Teach \cup Learn : f \notin R.pf
    BY <2>3 DEF Teach, Learn
  <2>5. Sound(R, p)
    BY <2>3, <2>4 DEF Sound, Table, Teach, Learn
  <2> QED BY <1>2, <2>3, <2>4, <2>5 DEF R
<1> QED BY <1>1, <1>2

\* The connections when the end of e over c is over, with the session it had.
LEMMA EndedBoth ==
  ASSUME PeersInv, LessonInv, NEW e \in Procs, NEW c \in Conns, NEW X,
         ps[e].has \subseteq X.has, X.session # c,
         \/ ps[e].session = c /\ X.session = None
         \/ ps[e].session # c /\ X.session = ps[e].session /\ \A G : Carries(ps[e], X, G)
  PROVE  \A d \in Conns : Both(X, ps[Other(e)], Ended(c, e, cn)[d], d, e)
<1> DEFINE x == ps[e]
           y == ps[Other(e)]
<1>1. \A d \in Conns : Both(x, y, cn[d], d, e)
  BY Opened
<1>2. Orderly(cn)
  BY Unpacked
<1>3. Ended(c, e, cn) = [cn EXCEPT ![c] = EndOf(cn[c], e)]
  BY <1>2 DEF Orderly, Ended, EndOf
<1>4. /\ x.has \subseteq X.has
      /\ \/ x.session = c /\ X.session = None
         \/ x.session # c /\ X.session = x.session /\ \A G : Carries(x, X, G)
  OBVIOUS
<1> HIDE DEF x, y
<1>5. ASSUME NEW d \in Conns, d # c PROVE Both(X, y, Ended(c, e, cn)[d], d, e)
  <2>1. Ended(c, e, cn)[d] = cn[d] /\ Both(x, y, cn[d], d, e)
    BY <1>1, <1>2, <1>3, <1>5 DEF Orderly
  <2>2. CASE x.session = c
    <3>1. x.session # d /\ X.session # d
      BY <1>4, <1>5, <2>2, PeersAssumption
    <3> QED BY <1>4, <2>1, <3>1, BothElse
  <2>3. CASE x.session # c
    <3>1. X.session = x.session /\ \A G : Carries(x, X, G)
      BY <1>4, <2>3
    <3>2. cn[d].st0[e] = "WAITMSG" => X.session = d
      BY <2>1, <3>1 DEF Both
    <3> QED BY <1>4, <2>1, <3>1, <3>2, BothKept
  <2> QED BY <2>2, <2>3
<1>6. Both(X, y, Ended(c, e, cn)[c], c, e)
  <2>1. cn[c] \in Connection /\ Handshake(cn[c]) /\ Both(x, y, cn[c], c, e)
    BY <1>1, <1>2 DEF Orderly
  <2>2. Ended(c, e, cn)[c] = EndOf(cn[c], e)
    BY <1>2, <1>3 DEF Orderly
  <2> QED BY <1>4, <2>1, <2>2, BothEnded
<1> QED BY <1>5, <1>6 DEF y

\* The steps that end e's end of a connection; x is e's record before the release.
LEMMA EndLesson ==
  ASSUME PeersInv, LessonInv, NEW e \in Procs, NEW c \in Conns, NEW x \in Process,
         x.session = ps[e].session, Table(ps[e], x), x.origin = ps[e].origin,
         x.stopping = ps[e].stopping, Sound(x, e),
         x.session # c => Light(ps[e], x),
         "TEACH_COMPLETE" \in x.pf =>
            x.stopping /\ x.session \in {c, None} /\ Owed(x) \subseteq ps[Other(e)].has,
         ps' = [ps EXCEPT ![e] = PeerSessionRelease(x, c)],
         cn' = Ended(c, e, cn), local' = local
  PROVE  LessonInv'
<1> DEFINE R == PeerSessionRelease(x, c)
<1>1. /\ Table(x, R) /\ R.origin = x.origin /\ R.stopping = x.stopping
      /\ "TEACH_COMPLETE" \in R.pf <=> "TEACH_COMPLETE" \in x.pf
      /\ R.session = IF x.session = c THEN None ELSE x.session
      /\ Sound(R, e)
      /\ x.session # c => Light(x, R)
  BY ReleaseTells
<1>2. ps' = [ps EXCEPT ![e] = R]
  OBVIOUS
<1> HIDE DEF R
<1>3. Owed(R) = Owed(x)
  BY <1>1, OwedSame
<1>4. Handed(R, ps[Other(e)])
  BY <1>1, <1>3 DEF Handed
<1>5. ps[e].has \subseteq R.has /\ R.session # c
  BY <1>1, PeersAssumption DEF Table
<1>6. x.session # c => \A G : Carries(ps[e], R, G)
  <2>1. Sound(ps[e], e)
    BY Opened
  <2>2. ASSUME x.session # c PROVE Light(ps[e], R)
    BY <1>1, <2>2, LightTrans
  <2> QED BY <2>1, <2>2, LightKeeps
<1>7. \A d \in Conns : Both(R, ps[Other(e)], Ended(c, e, cn)[d], d, e)
  BY <1>1, <1>5, <1>6, EndedBoth
<1> QED BY <1>1, <1>2, <1>4, <1>5, <1>7, Closes

\* A connection that is refused, or that the other end has closed.
LEMMA ConnectFailsLesson ==
  ASSUME PeersInv, LessonInv, NEW c \in Conns, ConnectFails(c)
  PROVE  LessonInv'
<1> DEFINE p == cn[c].client
<1>1. cn[c] \in Connection /\ p # None
  BY DEF PeersInv, TypeOK, ConnectFails
<1>2. p \in Procs
  BY <1>1 DEF Connection
<1>3. /\ ps[p] \in Process /\ ps \in [Procs -> Process] /\ Sound(ps[p], p)
      /\ Handed(ps[p], ps[Other(p)])
  BY <1>2, Unpacked, Opened
<1>4. /\ ps' = [ps EXCEPT ![p] = PeerSessionRelease(ps[p], c)]
      /\ cn' = Ended(c, p, cn) /\ local' = local
  BY <1>2, <1>3 DEF ConnectFails
<1> HIDE DEF p
<1>5. Table(ps[p], ps[p]) /\ Light(ps[p], ps[p])
  BY DEF Table, Light
<1> QED BY <1>2, <1>3, <1>4, <1>5, EndLesson DEF Handed

LEMMA ClosedLesson ==
  ASSUME PeersInv, LessonInv, NEW c \in Conns, NEW p \in Procs, Closed(c, p)
  PROVE  LessonInv'
<1>1. /\ ps[p] \in Process /\ ps \in [Procs -> Process] /\ Sound(ps[p], p)
      /\ Handed(ps[p], ps[Other(p)]) /\ Tied(ps[p], p, cn)
  BY Unpacked, Opened
<1>2. cn' = Ended(c, p, cn) /\ local' = local
  BY DEF Closed
<1>5. Table(ps[p], ps[p]) /\ Light(ps[p], ps[p])
  BY DEF Table, Light
<1>3. CASE cn[c].st0[p] = "ACCEPT"
  <2>1. ps[p].session # c
    BY <1>1, <1>3, PeersAssumption DEF Tied
  <2>2. ps' = [ps EXCEPT ![p] = ps[p]]
    BY <1>1, <1>3 DEF Closed
  <2>3. \A G : Carries(ps[p], ps[p], G)
    BY <1>1, <1>5, LightKeeps
  <2>4. \A d \in Conns : Both(ps[p], ps[Other(p)], Ended(c, p, cn)[d], d, p)
    BY <2>1, <2>3, EndedBoth
  <2> QED BY <1>1, <1>2, <2>2, <2>4, Closes
<1>4. CASE cn[c].st0[p] # "ACCEPT"
  <2>1. ps' = [ps EXCEPT ![p] = PeerSessionRelease(ps[p], c)]
    BY <1>1, <1>4 DEF Closed
  <2> QED BY <1>1, <1>2, <1>5, <2>1, EndLesson DEF Handed
<1> QED BY <1>3, <1>4

\* A connection that is established has carried nothing yet.
LEMMA ConnectsLesson ==
  ASSUME PeersInv, LessonInv, NEW c \in Conns, Connects(c)
  PROVE  LessonInv'
<1> DEFINE p == cn[c].client
           q == Other(p)
           r == ps[p]
           R == [r EXCEPT !.statuscode = "CONNECTED"]
           st == [e \in Procs |-> IF e = p THEN "GETSTATUS" ELSE "ACCEPT"]
           k == [cn[c] EXCEPT !.st0 = st]
<1>0. cn[c] \in Connection /\ cn[c].client # None
  BY DEF PeersInv, TypeOK, Connects
<1>1. p \in Procs /\ p # None
  BY <1>0 DEF Connection
<1>2. q \in Procs /\ q # p /\ Procs = {p, q}
  BY <1>1, OtherProc
<1>3. /\ r \in Process /\ Orderly(cn) /\ ps \in [Procs -> Process] /\ Sound(r, p)
      /\ Handed(r, ps[q]) /\ \A d \in Conns : Both(r, ps[q], cn[d], d, p)
  BY <1>1, Unpacked, Opened
<1>4. cn[c].st0[p] = "CONNECT" /\ local' = local
  BY DEF Connects
<1>5. ps' = [ps EXCEPT ![p] = R] /\ cn' = [cn EXCEPT ![c] = k]
  BY <1>1, <1>3 DEF Connects, Orderly
<1>6. cn[c].in[p] = <<>> /\ cn[c].in[q] = <<>>
  BY <1>1, <1>3, <1>4 DEF Orderly, Handshake
<1>7. Light(r, R) /\ R.session = r.session
  BY <1>3 DEF Process, Light, Table
<1>8. \A e \in Procs : st[e] \in {"GETSTATUS", "ACCEPT"}
  OBVIOUS
<1> HIDE DEF st, R
<1>9. k.st0 = st /\ k.in = cn[c].in
  BY <1>0 DEF Connection
<1>10. cn'[c] = k /\ \A d \in Conns : d # c => cn'[d] = cn[d]
  BY <1>3, <1>5 DEF Orderly
<1> HIDE DEF k
<1>11. Sound(R, p) /\ (\A G : Carries(r, R, G)) /\ Owed(R) = Owed(r) /\ r.has \subseteq R.has
  BY <1>3, <1>7, LightKeeps DEF Light, Table
<1>12. Handed(R, ps[q])
  BY <1>3, <1>7, <1>11 DEF Handed, Light
<1>13. Both(R, ps[q], k, c, p)
  <2>1. \A e \in Procs : k.st0[e] \in {"GETSTATUS", "ACCEPT"} /\ k.in[e] = <<>>
    BY <1>2, <1>6, <1>8, <1>9
  <2>2. \A e \in Procs : Other(e) \in Procs
    BY OtherProc
  <2> HIDE DEF p, q, r
  <2>3. \A e \in Procs : /\ k.st0[e] # "WAITMSG"
                         /\ At(k.in[e], {"D", "R", "F", "C", "c"}) = {}
                         /\ k.st0[e] = "GETSTATUS" => k.in[Other(e)] = <<>>
    BY <2>1, <2>2, EmptyTells
  <2> QED BY <1>1, <2>3, BothSilent
<1> HIDE DEF p
<1>14. ASSUME NEW d \in Conns, d # c PROVE Both(R, ps[q], cn[d], d, p)
  <2>1. Both(r, ps[q], cn[d], d, p)
    BY <1>3
  <2>2. cn[d].st0[p] = "WAITMSG" => R.session = d
    BY <1>7, <2>1 DEF Both
  <2> HIDE DEF r, q
  <2> QED BY <1>1, <1>7, <1>11, <2>1, <2>2, BothKept DEF q
<1>15. \A d \in Conns : Both(R, ps[q], cn'[d], d, p)
  BY <1>10, <1>13, <1>14
<1> QED BY <1>1, <1>4, <1>5, <1>11, <1>12, <1>15, Closes

\* What is under way on a connection is lost as one piece.
LEMMA CutLesson ==
  ASSUME PeersInv, LessonInv, NEW c \in Conns, Cut(c)
  PROVE  LessonInv'
<1> DEFINE i == [e \in Procs |-> <<>>]
           k == [cn[c] EXCEPT !.cut = TRUE, !.in = i]
           x == ps[Old]
           q == Other(Old)
           y == ps[q]
<1>0. Old \in Procs
  BY DEF Procs
<1>1. /\ Orderly(cn) /\ ps \in [Procs -> Process] /\ cn[c] \in Connection /\ Sound(x, Old)
      /\ Handed(x, y) /\ \A d \in Conns : Both(x, y, cn[d], d, Old)
  BY <1>0, Unpacked, Opened DEF Orderly
<1>2. cn' = [cn EXCEPT ![c] = k] /\ ps' = ps /\ local' = local
  BY <1>1 DEF Cut, Orderly
<1>3. \A e \in Procs : i[e] = <<>>
  OBVIOUS
<1> HIDE DEF i
<1>4. k.st0 = cn[c].st0 /\ k.in = i /\ k.cut
  BY <1>1 DEF Connection
<1> HIDE DEF k
<1>5. /\ q \in Procs /\ Other(q) = Old
  BY <1>0, OtherProc
<1>6. Both(x, y, cn[c], c, Old)
  BY <1>1
<1>7. ps' = [ps EXCEPT ![Old] = x] /\ cn'[c] = k /\ \A d \in Conns : d # c => cn'[d] = cn[d]
  BY <1>1, <1>2 DEF Orderly
<1> HIDE DEF x, y, q
<1>8. \A ts : \A e \in Procs : At(k.in[e], ts) = {} /\ k.in[e] = <<>>
  BY <1>3, <1>4, EmptyTells
<1>9. Queued(y, k, Old) /\ Queued(x, k, q)
  BY <1>0, <1>4, <1>5, <1>6, <1>8 DEF Both, Queued, q
<1>10. Lessons(y, x, k, c, Old)
  <2>1. Lessons(y, x, cn[c], c, Old)
    BY <1>6 DEF Both
  <2> QED BY <1>0, <1>4, <1>5, <1>8, <2>1 DEF Lessons, q
<1>11. Lessons(x, y, k, c, q)
  <2>1. Lessons(x, y, cn[c], c, q)
    BY <1>6 DEF Both, q
  <2> QED BY <1>0, <1>4, <1>5, <1>8, <2>1 DEF Lessons
<1>12. Both(x, y, k, c, Old)
  BY <1>4, <1>6, <1>9, <1>10, <1>11 DEF Both, q
<1>13. \A d \in Conns : Both(x, y, cn'[d], d, Old)
  BY <1>1, <1>7, <1>12
<1> QED BY <1>0, <1>1, <1>2, <1>7, <1>13, Closes DEF x, y, q

\* A connection that a session without one creates.
LEMMA CreatedBoth ==
  ASSUME NEW e \in Procs, NEW conn, Orderly(conn), NEW c \in Conns, NEW X, NEW R, NEW y,
         \A d \in Conns : Both(X, y, conn[d], d, e),
         X.session = None, R.session = c, X.has \subseteq R.has
  PROVE  \A d \in Conns : Both(R, y, Created(conn, e, c)[d], d, e)
<1> DEFINE E == Created(conn, e, c)
           k == [NoConn EXCEPT !.client = e, !.st0[e] = "CONNECT"]
<1>1. E = [conn EXCEPT ![c] = k]
  BY DEF Created
<1>2. \A p \in Procs : k.st0[p] \in {"CONNECT", "END"} /\ k.in[p] = <<>>
  BY DEF NoConn
<1> HIDE DEF k
<1>3. E[c] = k /\ \A d \in Conns : d # c => E[d] = conn[d]
  BY <1>1 DEF Orderly
<1> HIDE DEF E
<1>4. Both(R, y, k, c, e)
  <2>1. \A p \in Procs : /\ k.st0[p] # "WAITMSG" /\ k.st0[p] # "GETSTATUS"
                         /\ At(k.in[p], {"D", "R", "F", "C", "c"}) = {}
    BY <1>2, EmptyTells
  <2> QED BY <2>1, BothSilent
<1>5. ASSUME NEW d \in Conns, d # c PROVE Both(R, y, conn[d], d, e)
  BY <1>5, BothElse, PeersAssumption
<1>6. \A d \in Conns : Both(R, y, E[d], d, e)
  BY <1>3, <1>4, <1>5
<1> QED BY <1>6 DEF E

\* The new session leaves the table and the lesson alone.
LEMMA CreateTells ==
  ASSUME NEW r \in Process, NEW c
  PROVE  LET R == PeerSessionCreate(r, c)
         IN  Light(r, R) /\ R.session = c
BY DEF PeerSessionCreate, Process, Light, Table

\* The sync task of a running process asks at most for a teacher, or for a connection.
LEMMA SyncRunningLesson ==
  ASSUME PeersInv, LessonInv, NEW p \in Procs, SyncRunning(p)
  PROVE  LessonInv'
<1> DEFINE r == ps[p]
           y == ps[Other(p)]
           r0 == [r EXCEPT !.woken = FALSE, !.armed = {}]
           r1 == IF FromLocal(r0) /\ (~local \/ r0.due) /\ "ASSIGN" \notin r0.flags
                 THEN [r0 EXCEPT !.flags = @ \cup {"LOCAL"}, !.due = FALSE] ELSE r0
           connect == /\ ~local /\ r1.session = None
                      /\ \/ r1.statuscode \in {"0", "SUCCESS"}
                         \/ r1.statuscode \in {"CONNECT", "CONNECTED"} /\ r1.reconnect
           assign == /\ ~local /\ r1.session # None /\ r1.statuscode = "SUCCESS"
                     /\ FromRemote(r1) /\ "ASSIGN" \notin r1.flags
                     /\ "LEARN_NOTUP2DATE" \notin r1.pf
           r2 == IF assign THEN [r1 EXCEPT !.flags = @ \cup {"ASSIGN"},
                                           !.pf = @ \cup {"LEARN_ASSIGN"}] ELSE r1
           r3 == IF FromRemote(r2) /\ "ASSIGN" \notin r2.flags /\ r2.due
                 THEN [r2 EXCEPT !.flags = @ \cup {"REMOTE"}, !.due = FALSE] ELSE r2
           arms == {t \in {"resync", "reconnect"} :
                      \/ t = "resync" /\ ~Finished(r3)
                      \/ /\ t = "reconnect" /\ ~local /\ r1.session = None /\ ~connect
                         /\ r1.statuscode \in {"CONNECT", "CONNECTED"}}
           r4 == [r3 EXCEPT !.armed = arms]
           c == FreeOne(cn)
           Fits(x) == x \in Process /\ Light(r, x) /\ x.session = r.session
<1>1. /\ r \in Process /\ Orderly(cn) /\ ps \in [Procs -> Process] /\ Sound(r, p)
      /\ Handed(r, y) /\ \A d \in Conns : Both(r, y, cn[d], d, p)
  BY Unpacked, Opened
<1>2. /\ ~r.stopping
      /\ \/ /\ connect /\ Free(cn) # {}
            /\ ps' = [ps EXCEPT ![p] = PeerSessionCreate(r4, c)]
            /\ cn' = Created(cn, p, c)
         \/ ps' = [ps EXCEPT ![p] = r4] /\ cn' = cn
      /\ local' = local
  BY Zenon DEF SyncRunning
<1> HIDE DEF y
<1>3. Fits(r0)
  BY <1>1 DEF Process, Light, Table
<1> HIDE DEF r0
<1>4. Fits(r1)
  <2> DEFINE x == [r0 EXCEPT !.flags = @ \cup {"LOCAL"}, !.due = FALSE]
  <2>1. r0.flags \cup {"LOCAL"} \in SUBSET {"LOCAL", "REMOTE", "ASSIGN", "PROCESS"}
    BY <1>3 DEF Process
  <2>2. x \in Process /\ Light(r0, x) /\ x.session = r0.session
    BY <1>3, <2>1 DEF Process, Light, Table
  <2> HIDE DEF x
  <2>3. r1 = x \/ r1 = r0
    BY DEF x
  <2> HIDE DEF r1
  <2>4. Light(r, x)
    BY <1>3, <2>2, LightTrans
  <2> QED BY <1>3, <2>2, <2>3, <2>4
<1> HIDE DEF r1
<1>5. Fits(r2)
  <2> DEFINE x == [r1 EXCEPT !.flags = @ \cup {"ASSIGN"}, !.pf = @ \cup {"LEARN_ASSIGN"}]
  <2>1. /\ r1.flags \cup {"ASSIGN"} \in SUBSET {"LOCAL", "REMOTE", "ASSIGN", "PROCESS"}
        /\ r1.pf \cup {"LEARN_ASSIGN"} \in SUBSET (Teach \cup Learn \cup {"TEACH_COMPLETE"})
    BY <1>4 DEF Process, Learn
  <2>2. ASSUME ~local PROVE x \in Process /\ Light(r1, x) /\ x.session = r1.session
    <3>1. x \in Process /\ x.session = r1.session
      BY <1>4, <2>1 DEF Process
    <3>2. /\ Table(r1, x) /\ x.origin = r1.origin /\ x.pushed = r1.pushed
          /\ x.confirm = r1.confirm /\ x.stopping = r1.stopping
          /\ x.pf = r1.pf \cup {"LEARN_ASSIGN"} /\ x.flags = r1.flags \cup {"ASSIGN"}
      BY <1>4 DEF Process, Table
    <3> HIDE DEF x
    <3> QED BY <2>2, <3>1, <3>2 DEF Light, Teach
  <2> HIDE DEF x
  <2>3. r2 = r1 \/ (r2 = x /\ ~local)
    BY DEF x
  <2> HIDE DEF r2
  <2>4. ~local => Light(r, x)
    BY <1>4, <2>2, LightTrans
  <2> QED BY <1>4, <2>2, <2>3, <2>4
<1> HIDE DEF r2
<1>6. Fits(r3)
  <2> DEFINE x == [r2 EXCEPT !.flags = @ \cup {"REMOTE"}, !.due = FALSE]
  <2>1. r2.flags \cup {"REMOTE"} \in SUBSET {"LOCAL", "REMOTE", "ASSIGN", "PROCESS"}
    BY <1>5 DEF Process
  <2>2. x \in Process /\ Light(r2, x) /\ x.session = r2.session
    BY <1>5, <2>1 DEF Process, Light, Table
  <2> HIDE DEF x
  <2>3. r3 = x \/ r3 = r2
    BY DEF x
  <2> HIDE DEF r3
  <2>4. Light(r, x)
    BY <1>5, <2>2, LightTrans
  <2> QED BY <1>5, <2>2, <2>3, <2>4
<1> HIDE DEF r3
<1>7. arms \in SUBSET {"resync", "reconnect"}
  OBVIOUS
<1> HIDE DEF arms
<1>8. Fits(r4)
  <2>1. r4 \in Process /\ Light(r3, r4) /\ r4.session = r3.session
    BY <1>6, <1>7 DEF Process, Light, Table
  <2> HIDE DEF r4
  <2> QED BY <1>6, <2>1, LightTrans
<1> HIDE DEF r4, connect, c
<1>9. CASE ps' = [ps EXCEPT ![p] = r4] /\ cn' = cn
  <2>1. Sound(r4, p) /\ Carries(r, r4, {})
    BY <1>1, <1>8, LightKeeps
  <2>2. /\ r.has \subseteq r4.has /\ (r.stopping => r4.stopping)
        /\ "TEACH_COMPLETE" \in r4.pf => "TEACH_COMPLETE" \in r.pf
    BY <1>8 DEF Light, Table
  <2> QED BY <1>2, <1>8, <1>9, <2>1, <2>2, QuietStep
<1>10. CASE /\ connect /\ Free(cn) # {}
            /\ ps' = [ps EXCEPT ![p] = PeerSessionCreate(r4, c)]
            /\ cn' = Created(cn, p, c)
  <2> DEFINE R == PeerSessionCreate(r4, c)
  <2>1. c \in Conns
    BY <1>10, FreeOneFree DEF c
  <2>2. r.session = None
    BY <1>4, <1>10 DEF connect
  <2>3. Light(r4, R) /\ R.session = c
    BY <1>8, CreateTells
  <2>4. ps' = [ps EXCEPT ![p] = R]
    BY <1>10
  <2> HIDE DEF R
  <2>5. Light(r, R)
    BY <1>8, <2>3, LightTrans
  <2>6. Sound(R, p) /\ r.has \subseteq R.has
    BY <1>1, <2>5, LightKeeps DEF Light, Table
  <2>7. "TEACH_COMPLETE" \notin R.pf
    BY <1>1, <1>2, <2>5 DEF Handed, Light
  <2>8. \A d \in Conns : Both(R, y, cn'[d], d, p)
    <3> HIDE DEF r
    <3> QED BY <1>1, <1>10, <2>1, <2>2, <2>3, <2>6, CreatedBoth
  <2>9. Handed(R, y)
    BY <2>7 DEF Handed
  <2> QED BY <1>2, <2>4, <2>6, <2>8, <2>9, Closes DEF y
<1> QED BY <1>2, <1>9, <1>10

\* The session p has is shut down, if it has one; x is p's record.
LEMMA ShutdownTells ==
  ASSUME PeersInv, LessonInv, NEW p \in Procs, NEW x \in Process, Light(ps[p], x),
         x.session = ps[p].session
  PROVE  LET X == IF x.session = None THEN x ELSE PeerSessionRelease(x, x.session)
         IN  /\ Table(x, X) /\ X.origin = x.origin /\ X.stopping = x.stopping
             /\ "TEACH_COMPLETE" \in X.pf <=> "TEACH_COMPLETE" \in x.pf
             /\ X.session = None /\ Sound(X, p)
             /\ \A d \in Conns : Both(X, ps[Other(p)], ForceShutdown(p, cn)[d], d, p)
<1> DEFINE c == x.session
           X == IF c = None THEN x ELSE PeerSessionRelease(x, c)
<1>1. /\ Sound(ps[p], p) /\ \A d \in Conns : Both(ps[p], ps[Other(p)], cn[d], d, p)
  BY Opened
<1>2. Sound(x, p) /\ \A G : Carries(ps[p], x, G)
  BY <1>1, LightKeeps
<1>3. x.has = ps[p].has
  BY DEF Light, Table
<1>4. CASE c = None
  <2>1. ForceShutdown(p, cn) = cn
    BY <1>4 DEF ForceShutdown
  <2>2. ASSUME NEW d \in Conns PROVE Both(x, ps[Other(p)], cn[d], d, p)
    <3>1. Both(ps[p], ps[Other(p)], cn[d], d, p)
      BY <1>1
    <3>2. ps[p].session # d /\ x.session # d
      BY <1>4, PeersAssumption
    <3> QED BY <1>3, <3>1, <3>2, BothElse
  <2> QED BY <1>2, <1>4, <2>1, <2>2 DEF Table
<1>5. CASE c # None
  <2>1. c \in Conns
    BY <1>5 DEF Process
  <2>2. ForceShutdown(p, cn) = Ended(c, p, cn)
    BY <1>5 DEF ForceShutdown
  <2> DEFINE Y == PeerSessionRelease(x, c)
  <2>3. /\ Table(x, Y) /\ Y.origin = x.origin /\ Y.stopping = x.stopping
        /\ "TEACH_COMPLETE" \in Y.pf <=> "TEACH_COMPLETE" \in x.pf
        /\ Y.session = None /\ Sound(Y, p)
    BY <1>2, ReleaseTells
  <2> HIDE DEF Y
  <2>4. \A d \in Conns : Both(Y, ps[Other(p)], Ended(c, p, cn)[d], d, p)
    <3>1. ps[p].has \subseteq Y.has /\ Y.session # c /\ ps[p].session = c
      BY <1>3, <1>5, <2>3 DEF Table
    <3> QED BY <2>1, <2>3, <3>1, EndedBoth
  <2> QED BY <1>5, <2>2, <2>3, <2>4 DEF Y
<1> QED BY <1>4, <1>5

\* The stopping process counts the lesson, tries again, or gives up.
LEMMA SyncStoppingLesson ==
  ASSUME PeersInv, LessonInv, NEW p \in Procs, SyncStopping(p)
  PROVE  LessonInv'
<1> DEFINE r == ps[p]
           y == ps[Other(p)]
           r0 == [r EXCEPT !.woken = FALSE, !.signal = FALSE, !.armed = {}]
           X  == IF r0.session = None THEN r0 ELSE PeerSessionRelease(r0, r0.session)
           Y  == [X EXCEPT !.donotstop = TRUE]
           r1 == IF ~r.signal THEN r0 ELSE Y
           cn1 == IF r.signal THEN ForceShutdown(p, cn) ELSE cn
           over == [r1 EXCEPT !.donotstop = FALSE]
           c == FreeOne(cn1)
           Fits(x) == /\ Table(r, x) /\ x.origin = r.origin /\ x.stopping = r.stopping
                      /\ "TEACH_COMPLETE" \in x.pf <=> "TEACH_COMPLETE" \in r.pf
                      /\ x.session \in {r.session, None} /\ Sound(x, p)
<1>1. /\ r \in Process /\ Assigned(r) /\ Orderly(cn) /\ ps \in [Procs -> Process]
      /\ Sound(r, p) /\ Handed(r, y) /\ \A d \in Conns : Both(r, y, cn[d], d, p)
  BY Unpacked, Opened
<1>2. /\ r.stopping
      /\ \/ ps' = [ps EXCEPT ![p] = over] /\ cn' = cn1
         \/ /\ "TEACH_COMPLETE" \notin r1.pf /\ r1.session = None /\ Free(cn1) # {}
            /\ ps' = [ps EXCEPT ![p] = PeerSessionCreate(r1, c)]
            /\ cn' = Created(cn1, p, c)
         \/ ps' = [ps EXCEPT ![p] = r1] /\ cn' = cn1
      /\ local' = local
  BY Zenon DEF SyncStopping
<1> HIDE DEF y
<1>3. /\ r0 \in Process /\ Light(r, r0) /\ r0.session = r.session /\ r0.statuscode = r.statuscode
      /\ r0.pf = r.pf /\ r0.flags = r.flags
  BY <1>1 DEF Process, Light, Table
<1>4. Assigned(r0)
  BY <1>1, <1>3 DEF Assigned
<1> HIDE DEF r0
<1>5. /\ Table(r0, X) /\ X.origin = r0.origin /\ X.stopping = r0.stopping
      /\ "TEACH_COMPLETE" \in X.pf <=> "TEACH_COMPLETE" \in r0.pf
      /\ X.session = None /\ Sound(X, p)
      /\ \A d \in Conns : Both(X, y, ForceShutdown(p, cn)[d], d, p)
      /\ X \in Process /\ Orderly(ForceShutdown(p, cn))
  BY <1>3, <1>4, ShutdownTells, ShutdownKeeps DEF y
<1> HIDE DEF X
<1>6. Light(X, Y) /\ Y.session = None /\ Y \in Process
  BY <1>5 DEF Process, Light, Table
<1> HIDE DEF Y
<1>7. Sound(r0, p) /\ Sound(Y, p) /\ \A G : Carries(r, r0, G) /\ Carries(X, Y, G)
  BY <1>1, <1>3, <1>5, <1>6, LightKeeps
<1>8. \A d \in Conns : Both(r0, y, cn[d], d, p)
  <2>1. ASSUME NEW d \in Conns PROVE Both(r0, y, cn[d], d, p)
    <3>1. Both(r, y, cn[d], d, p)
      BY <1>1
    <3>2. /\ r.has \subseteq r0.has /\ r0.session = r.session
          /\ cn[d].st0[p] = "WAITMSG" => r0.session = d
      BY <1>3, <3>1 DEF Light, Table, Both
    <3> HIDE DEF r
    <3> QED BY <1>7, <3>1, <3>2, BothKept
  <2> QED BY <2>1
<1>9. \A d \in Conns : Both(Y, y, ForceShutdown(p, cn)[d], d, p)
  <2>1. ASSUME NEW d \in Conns PROVE Both(Y, y, ForceShutdown(p, cn)[d], d, p)
    <3>1. Both(X, y, ForceShutdown(p, cn)[d], d, p)
      BY <1>5
    <3>2. /\ X.has \subseteq Y.has /\ Y.session = X.session /\ X.session # d
      BY <1>5, <1>6, PeersAssumption DEF Light, Table
    <3> QED BY <3>1, <3>2, BothElse
  <2> QED BY <2>1
<1>10. /\ Fits(r0) /\ Fits(Y)
  BY <1>3, <1>5, <1>6, <1>7 DEF Light, Table
<1>11. /\ Fits(r1) /\ Orderly(cn1) /\ r1 \in Process
       /\ \A d \in Conns : Both(r1, y, cn1[d], d, p)
  BY <1>1, <1>3, <1>5, <1>6, <1>8, <1>9, <1>10
<1> HIDE DEF r1, cn1
<1>12. over \in Process /\ Light(r1, over) /\ over.session = r1.session
  BY <1>11 DEF Process, Light, Table
<1> HIDE DEF over
<1>13. /\ Sound(over, p) /\ \A G : Carries(r1, over, G)
  BY <1>11, <1>12, LightKeeps
<1>14. Fits(over)
  BY <1>11, <1>12, <1>13 DEF Light, Table
<1>15. \A d \in Conns : Both(over, y, cn1[d], d, p)
  <2>1. ASSUME NEW d \in Conns PROVE Both(over, y, cn1[d], d, p)
    <3>1. Both(r1, y, cn1[d], d, p)
      BY <1>11
    <3>2. /\ r1.has \subseteq over.has /\ over.session = r1.session
          /\ cn1[d].st0[p] = "WAITMSG" => over.session = d
      BY <1>12, <3>1 DEF Light, Table, Both
    <3> QED BY <1>13, <3>1, <3>2, BothKept
  <2> QED BY <2>1
<1>16. ASSUME NEW x, Fits(x) PROVE Handed(x, y) /\ r.has \subseteq x.has
  <2>1. Owed(x) = Owed(r)
    BY <1>16, OwedSame
  <2> QED BY <1>1, <1>16, <2>1 DEF Handed, Table
<1>17. ASSUME NEW x, Fits(x), \A d \in Conns : Both(x, y, cn1[d], d, p),
              ps' = [ps EXCEPT ![p] = x], cn' = cn1
       PROVE  LessonInv'
  BY <1>2, <1>16, <1>17, Closes DEF y
<1> HIDE DEF c
<1>18. CASE /\ "TEACH_COMPLETE" \notin r1.pf /\ r1.session = None /\ Free(cn1) # {}
            /\ ps' = [ps EXCEPT ![p] = PeerSessionCreate(r1, c)]
            /\ cn' = Created(cn1, p, c)
  <2>1. c \in Conns
    BY <1>18, FreeOneFree DEF c
  <2> DEFINE R == PeerSessionCreate(r1, c)
  <2>2. Light(r1, R) /\ R.session = c
    BY <1>11, CreateTells
  <2>3. ps' = [ps EXCEPT ![p] = R]
    BY <1>18
  <2> HIDE DEF R
  <2>4. Sound(R, p)
    BY <1>11, <2>2, LightKeeps
  <2>5. Handed(R, y) /\ r.has \subseteq R.has /\ r1.has \subseteq R.has
    BY <1>11, <1>18, <2>2 DEF Handed, Light, Table
  <2>6. \A d \in Conns : Both(R, y, cn'[d], d, p)
    <3> HIDE DEF r, Fits
    <3> QED BY <1>11, <1>18, <2>1, <2>2, <2>5, CreatedBoth
  <2> QED BY <1>2, <2>3, <2>4, <2>5, <2>6, Closes DEF y
<1> HIDE DEF Fits
<1> QED BY <1>2, <1>11, <1>14, <1>15, <1>17, <1>18

\* A session that begins gives no lesson yet.
LEMMA BegunTells ==
  ASSUME NEW r \in Process, NEW p, Sound(r, p), "LEARN_ASSIGN" \notin r.pf
  PROVE  LET R == Begun(r)
         IN  /\ R \in Process /\ Table(r, R) /\ R.origin = 0 /\ R.confirm = 0
             /\ R.stopping = r.stopping /\ R.session = r.session
             /\ \A f \in Teach : f \notin R.pf
             /\ "TEACH_COMPLETE" \in R.pf <=> "TEACH_COMPLETE" \in r.pf
             /\ local => "LEARN_ASSIGN" \notin R.pf
             /\ Sound(R, p)
<1> DEFINE R == Begun(r)
           f == r.pf \ (Teach \cup Learn)
           a == [r EXCEPT !.statuscode = "SUCCESS", !.woken = TRUE, !.origin = 0, !.lastack = 0,
                          !.pushack = 0, !.pushed = r.acked, !.confirm = 0, !.pf = f]
           b == [a EXCEPT !.pf = @ \cup {"LEARN_ASSIGN"}, !.flags = @ \cup {"ASSIGN"}]
<1>1. /\ f \in SUBSET (Teach \cup Learn \cup {"TEACH_COMPLETE"})
      /\ \A g \in Teach \cup Learn : g \notin f
      /\ "TEACH_COMPLETE" \in f <=> "TEACH_COMPLETE" \in r.pf
  BY DEF Process, Teach, Learn
<1>2. R = a \/ (R = b /\ ~local)
  BY Zenon DEF Begun
<1> HIDE DEF f
<1>3. /\ a \in Process /\ Table(r, a) /\ a.origin = 0 /\ a.confirm = 0 /\ a.pf = f
      /\ a.stopping = r.stopping /\ a.session = r.session
  BY <1>1 DEF Process, Table
<1> HIDE DEF a
<1>4. /\ b \in Process /\ Table(a, b) /\ b.origin = 0 /\ b.confirm = 0
      /\ b.pf = f \cup {"LEARN_ASSIGN"} /\ b.stopping = r.stopping /\ b.session = r.session
  <2>1. /\ f \cup {"LEARN_ASSIGN"} \in SUBSET (Teach \cup Learn \cup {"TEACH_COMPLETE"})
        /\ a.flags \cup {"ASSIGN"} \in SUBSET {"LOCAL", "REMOTE", "ASSIGN", "PROCESS"}
    BY <1>1, <1>3 DEF Process, Learn
  <2> QED BY <1>3, <2>1 DEF Process, Table
<1> HIDE DEF b, R
<1>5. /\ R \in Process /\ Table(r, R) /\ R.origin = 0 /\ R.confirm = 0
      /\ R.stopping = r.stopping /\ R.session = r.session
      /\ R.pf = f \/ (R.pf = f \cup {"LEARN_ASSIGN"} /\ ~local)
  BY <1>2, <1>3, <1>4 DEF Table
<1>6. /\ \A g \in Teach : g \notin R.pf
      /\ "TEACH_COMPLETE" \in R.pf <=> "TEACH_COMPLETE" \in r.pf
      /\ local => "LEARN_ASSIGN" \notin R.pf
  BY <1>1, <1>5 DEF Teach, Learn
<1>7. Sound(R, p)
  BY <1>5, <1>6 DEF Sound, Table, Process, Teach
<1> QED BY <1>5, <1>6, <1>7 DEF R

\* A connection that is accepted carries the status, and the lesson comes after it.
LEMMA AcceptedBoth ==
  ASSUME NEW p \in Procs, NEW R, NEW y, NEW k, NEW c,
         R.session = c, R.confirm = 0, "TEACH_PROCESS" \notin R.pf,
         k.st0[p] = "WAITMSG", k.st0[Other(p)] \in {"GETSTATUS", "END"},
         k.in[p] = <<>>, At(k.in[Other(p)], {"D", "R", "F", "C", "c"}) = {}
  PROVE  Both(R, y, k, c, p)
<1> DEFINE a == Other(p)
<1>1. a \in Procs /\ Other(a) = p
  BY OtherProc
<1>2. \A ts : At(k.in[p], ts) = {}
  BY EmptyTells
<1>3. \A ts \in SUBSET {"D", "R", "F", "C", "c"} : At(k.in[a], ts) = {}
  BY DEF At
<1>4. /\ At(k.in[a], {"D"}) = {} /\ At(k.in[a], {"R"}) = {}
      /\ At(k.in[a], {"c"}) = {} /\ At(k.in[a], {"F", "C"}) = {}
      /\ At(k.in[a], {"c", "F", "C"}) = {} /\ At(k.in[a], {"R", "F", "C", "c"}) = {}
  <2>1. /\ {"D"} \in SUBSET {"D", "R", "F", "C", "c"}
        /\ {"R"} \in SUBSET {"D", "R", "F", "C", "c"}
        /\ {"c"} \in SUBSET {"D", "R", "F", "C", "c"}
        /\ {"F", "C"} \in SUBSET {"D", "R", "F", "C", "c"}
        /\ {"c", "F", "C"} \in SUBSET {"D", "R", "F", "C", "c"}
        /\ {"R", "F", "C", "c"} \in SUBSET {"D", "R", "F", "C", "c"}
    OBVIOUS
  <2> QED BY <1>3, <2>1
<1>5. k.st0[a] \in {"GETSTATUS", "END"}
  OBVIOUS
<1>6. Queued(y, k, p)
  BY <1>2 DEF Queued
<1> HIDE DEF a
<1>7. Queued(R, k, a)
  BY <1>1, <1>4 DEF Queued
<1>8. Lessons(y, R, k, c, p)
  BY <1>1, <1>2, <1>4, <1>5 DEF Lessons, a
<1>9. Lessons(R, y, k, c, a)
  BY <1>1, <1>2, <1>4, <1>5 DEF Lessons, Progress
<1> QED BY <1>5, <1>6, <1>7, <1>8, <1>9 DEF Both, a

\* A connection is accepted, or refused for the session there is.
LEMMA AcceptLesson ==
  ASSUME PeersInv, LessonInv, OneWay, NEW c \in Conns, Accept(c)
  PROVE  LessonInv'
<1> DEFINE a == cn[c].client
           p == Other(a)
           r == ps[p]
           y == ps[a]
<1>0. cn[c] \in Connection /\ a # None
  BY DEF PeersInv, TypeOK, Accept
<1>1. a \in Procs
  BY <1>0 DEF Connection
<1>2. p \in Procs /\ p # a /\ Procs = {a, p} /\ Other(p) = a
  BY <1>1, OtherProc
<1>3. /\ r \in Process /\ Assigned(r) /\ Tied(r, p, cn) /\ Orderly(cn)
      /\ ps \in [Procs -> Process] /\ Sound(r, p) /\ Handed(r, y)
      /\ \A d \in Conns : Both(r, y, cn[d], d, p)
  BY <1>1, <1>2, Unpacked, Opened
<1>4. cn[c].st0[p] = "ACCEPT" /\ local' = local
  BY DEF Accept
<1>5. /\ cn[c].st0[a] \in {"GETSTATUS", "END"}
      /\ cn[c].in[a] = <<>> /\ cn[c].in[p] = <<>>
  BY <1>0, <1>3, <1>4 DEF Orderly, Handshake
<1>6. r.session # c
  BY <1>3, <1>4, PeersAssumption DEF Tied
<1>7. CASE local /\ r.session # None
  <2> DEFINE i == Append(<<>>, [t |-> "TRYAGAIN"])
             n == [cn[c].in EXCEPT ![a] = i]
             k1 == [cn[c] EXCEPT !.in = n]
             conn == [cn EXCEPT ![c] = k1]
             k == EndOf(k1, p)
  <2>1. cn' = Ended(c, p, conn) /\ ps' = ps
    <3>1. conn = [cn EXCEPT ![c].in[a] = Append(@, [t |-> "TRYAGAIN"])]
      BY <1>3, <1>5 DEF Orderly
    <3>2. cn' = Ended(c, p, [cn EXCEPT ![c].in[Other(p)] = Append(@, [t |-> "TRYAGAIN"])]) /\ ps' = ps
      BY <1>7 DEF Accept
    <3> HIDE DEF conn, a
    <3> QED BY <1>2, <3>1, <3>2
  <2>2. At(i, {"D", "R", "F", "C", "c"}) = {}
    BY DEF At
  <2> HIDE DEF i
  <2>3. n[a] = i /\ n[p] = <<>>
    <3>1. cn[c].in \in [Procs -> Seq(Status \cup Msg)]
      BY <1>0 DEF Connection
    <3> QED BY <1>1, <1>2, <1>5, <3>1
  <2> HIDE DEF n
  <2>4. k1.st0 = cn[c].st0 /\ k1.in = n
    BY <1>0 DEF Connection
  <2>5. conn[c] = k1
    BY <1>3 DEF Orderly
  <2> HIDE DEF k1
  <2>6. cn' = [cn EXCEPT ![c] = k]
    <3>1. Ended(c, p, conn) = [conn EXCEPT ![c] = k]
      BY <2>5 DEF Ended, EndOf
    <3> HIDE DEF k
    <3> QED BY <1>3, <2>1, <3>1 DEF Orderly
  <2>7. Both(r, y, k, c, p)
    <3>1. CASE cn[c].st0[a] = "END"
      <4>1. k = NoConn
        BY <1>2, <2>4, <3>1 DEF EndOf
      <4>2. \A e \in Procs : /\ k.st0[e] # "WAITMSG"
                             /\ At(k.in[e], {"D", "R", "F", "C", "c"}) = {}
                             /\ k.st0[e] = "GETSTATUS" => k.in[Other(e)] = <<>>
        BY <4>1, NoConnType, EmptyTells
      <4> HIDE DEF k, r, y, p
      <4> QED BY <1>2, <4>2, BothSilent
    <3>2. CASE cn[c].st0[a] # "END"
      <4> DEFINE st == [k1.st0 EXCEPT ![p] = "END"]
                 j == [k1.in EXCEPT ![p] = <<>>]
      <4>1. k = [k1 EXCEPT !.st0[p] = "END", !.in[p] = <<>>]
        BY <1>2, <2>4, <3>2 DEF EndOf
      <4>2. st[p] = "END" /\ st[a] = "GETSTATUS"
        BY <1>0, <1>1, <1>2, <1>5, <2>4, <3>2 DEF Connection
      <4>3. j[p] = <<>> /\ j[a] = i
        <5>1. cn[c].in \in [Procs -> Seq(Status \cup Msg)]
          BY <1>0 DEF Connection
        <5>2. DOMAIN n = Procs
          BY <5>1 DEF n
        <5> QED BY <1>1, <1>2, <2>3, <2>4, <5>2
      <4> HIDE DEF st, j
      <4>4. k.st0 = st /\ k.in = j
        BY <1>0, <4>1 DEF Connection, st, j, k1
      <4> HIDE DEF k
      <4>5. \A e \in Procs : /\ k.st0[e] # "WAITMSG"
                             /\ At(k.in[e], {"D", "R", "F", "C", "c"}) = {}
                             /\ k.st0[e] = "GETSTATUS" => k.in[Other(e)] = <<>>
        <5> HIDE DEF a
        <5>1. k.st0[p] = "END" /\ k.st0[a] = "GETSTATUS" /\ k.in[p] = <<>> /\ k.in[a] = i
          BY <4>2, <4>3, <4>4
        <5>2. Other(a) = p
          BY DEF p
        <5> HIDE DEF p
        <5>3. \A e \in Procs : e = p \/ e = a
          BY <1>2
        <5> QED BY <2>2, <5>1, <5>2, <5>3, EmptyTells
      <4> HIDE DEF r, y, p
      <4> QED BY <1>2, <4>5, BothSilent
    <3> QED BY <3>1, <3>2
  <2> HIDE DEF k
  <2>8. \A d \in Conns : Both(r, y, cn'[d], d, p)
    BY <1>3, <2>6, <2>7 DEF Orderly
  <2>9. ps' = [ps EXCEPT ![p] = r] /\ y = ps[Other(p)]
    BY <1>2, <1>3, <2>1
  <2> HIDE DEF a
  <2> QED BY <1>2, <1>3, <1>4, <2>8, <2>9, Closes
<1>8. CASE ~(local /\ r.session # None)
  <2> DEFINE r0 == IF r.session = None THEN r ELSE PeerSessionRelease(r, r.session)
             b  == [r0 EXCEPT !.session = c]
             r1 == Begun(b)
             learn == local /\ FromLocal(r1) /\ "ASSIGN" \notin r1.flags
             x == [r1 EXCEPT !.pf = @ \cup {"LEARN_ASSIGN"},
                             !.flags = @ \cup {"ASSIGN", "PROCESS"}]
             R == IF learn THEN x ELSE r1
             E == ForceShutdown(p, cn)
             i == Append(<<>>, [t |-> "SUCCESS"])
             k == Waits(cn[c], p, a, i)
  <2>1. /\ r0 \in Process /\ Assigned(r0) /\ r0.session = None /\ Orderly(E) /\ E[c] = cn[c]
    BY <1>2, <1>3, <1>6, ShutdownKeeps
  <2>2. ps' = [ps EXCEPT ![p] = R]
    BY <1>8, Zenon DEF Accept
  <2>3. cn' = [E EXCEPT ![c] = k]
    <3>1. cn' = [[E EXCEPT ![c].in[Other(p)] = Append(@, [t |-> "SUCCESS"])]
                 EXCEPT ![c].st0[p] = "WAITMSG"]
      BY <1>8, Zenon DEF Accept
    <3> DEFINE g == [E EXCEPT ![c].in[a] = Append(@, [t |-> "SUCCESS"])]
    <3>2. cn' = [g EXCEPT ![c].st0[p] = "WAITMSG"]
      BY <1>2, <3>1, Zenon
    <3> HIDE DEF E
    <3>3. g = [E EXCEPT ![c] = [cn[c] EXCEPT !.in[a] = i]]
      BY <1>5, <2>1 DEF Orderly
    <3>4. g \in [Conns -> {g[d] : d \in Conns}] /\ g[c] = [cn[c] EXCEPT !.in[a] = i]
      BY <2>1, <3>3 DEF Orderly
    <3> HIDE DEF g
    <3>5. cn' = [g EXCEPT ![c] = [g[c] EXCEPT !.st0[p] = "WAITMSG"]]
      BY <3>2, <3>4
    <3>6. [g[c] EXCEPT !.st0[p] = "WAITMSG"] = k
      BY <1>0, <1>1, <1>2, <3>4 DEF Waits, Connection
    <3> HIDE DEF k
    <3> QED BY <2>1, <3>3, <3>5, <3>6 DEF Orderly
  <2>4. i \in Seq(Status \cup Msg) /\ At(i, {"D", "R", "F", "C", "c"}) = {}
    <3> DEFINE code == "SUCCESS"
    <3>1. code \in {"SUCCESS", "TRYAGAIN"} /\ i = Append(<<>>, [t |-> code])
      OBVIOUS
    <3>2. At(i, {"D", "R", "F", "C", "c"}) = {}
      BY DEF At
    <3> HIDE DEF code, i
    <3> QED BY <3>1, <3>2, StatusLine
  <2> HIDE DEF i
  <2>5. /\ k.in[a] = i /\ k.st0[p] = "WAITMSG" /\ k.in[p] = <<>> /\ k.st0[a] = cn[c].st0[a]
    <3>1. i \in Seq(Status \cup Msg) /\ Other(a) = p
      BY <2>4
    <3> HIDE DEF p, a
    <3> QED BY <1>0, <1>1, <1>2, <1>5, <3>1, WaitsType
  <2> HIDE DEF k
  <2>6. /\ Table(r, r0) /\ r0.origin = r.origin /\ r0.stopping = r.stopping
        /\ "TEACH_COMPLETE" \in r0.pf <=> "TEACH_COMPLETE" \in r.pf
        /\ Sound(r0, p) /\ \A d \in Conns : Both(r0, y, E[d], d, p)
    <3>1. Light(r, r)
      BY DEF Light, Table
    <3>2. ps[Other(p)] = y
      BY <1>2
    <3> HIDE DEF a
    <3> QED BY <1>2, <1>3, <3>1, <3>2, ShutdownTells
  <2> HIDE DEF r0, E
  <2>7. /\ b \in Process /\ b.session = c /\ b.pf = r0.pf /\ b.flags = r0.flags
        /\ Light(r0, b)
    BY <2>1 DEF Process, Light, Table
  <2> HIDE DEF b
  <2>8. "LEARN_ASSIGN" \notin b.pf /\ Sound(b, p)
    BY <2>1, <2>6, <2>7, LightKeeps DEF Assigned
  <2>9. /\ r1 \in Process /\ Table(b, r1) /\ r1.origin = 0 /\ r1.confirm = 0
        /\ r1.stopping = b.stopping /\ r1.session = c
        /\ \A f \in Teach : f \notin r1.pf
        /\ "TEACH_COMPLETE" \in r1.pf <=> "TEACH_COMPLETE" \in b.pf
        /\ Sound(r1, p)
    BY <2>7, <2>8, BegunTells
  <2> HIDE DEF r1
  <2>10. /\ Table(r1, x) /\ x.origin = 0 /\ x.confirm = 0
         /\ x.stopping = r1.stopping /\ x.session = c
         /\ x.pf = r1.pf \cup {"LEARN_ASSIGN"} /\ x.flags = r1.flags \cup {"ASSIGN", "PROCESS"}
    <3>1. r1.pf \cup {"LEARN_ASSIGN"} \in SUBSET SessionFlags
      BY <2>9 DEF Process, SessionFlags, Learn
    <3>2. r1.flags \cup {"ASSIGN", "PROCESS"} \in SUBSET {"LOCAL", "REMOTE", "ASSIGN", "PROCESS"}
      BY <2>9 DEF Process
    <3> QED BY <2>9, <3>1, <3>2 DEF Process, SessionFlags, Table
  <2> HIDE DEF x
  <2>11. /\ \A f \in Teach : f \notin x.pf
         /\ "TEACH_COMPLETE" \in x.pf <=> "TEACH_COMPLETE" \in r1.pf
         /\ Sound(x, p)
    <3>1. /\ \A f \in Teach : f \notin x.pf
          /\ "TEACH_COMPLETE" \in x.pf <=> "TEACH_COMPLETE" \in r1.pf
      BY <2>9, <2>10 DEF Teach
    <3> QED BY <2>9, <2>10, <3>1 DEF Sound, Table, Teach
  <2>12. /\ R.confirm = 0 /\ R.session = c /\ R.has = r.has
         /\ "TEACH_PROCESS" \notin R.pf
         /\ "TEACH_COMPLETE" \in R.pf <=> "TEACH_COMPLETE" \in r.pf
         /\ Sound(R, p)
    BY <2>6, <2>7, <2>9, <2>10, <2>11 DEF Light, Table, Teach
  <2> HIDE DEF R
  <2>13. "TEACH_COMPLETE" \notin r.pf
    <3> SUFFICES ASSUME "TEACH_COMPLETE" \in r.pf PROVE FALSE
      OBVIOUS
    <3>1. local /\ p = Old
      BY <1>3 DEF Handed, Sound
    <3>2. a = New
      BY <1>2, <3>1 DEF Other
    <3> QED BY <3>1, <3>2 DEF OneWay
  <2>14. Handed(R, y)
    BY <2>12, <2>13 DEF Handed
  <2>15. ps[Other(p)] = y
    BY <1>2
  <2>16. Both(R, y, k, c, p)
    <3>1. /\ At(k.in[a], {"D", "R", "F", "C", "c"}) = {}
          /\ k.st0[a] \in {"GETSTATUS", "END"}
      BY <1>5, <2>4, <2>5
    <3> HIDE DEF a, y
    <3>2. /\ At(k.in[Other(p)], {"D", "R", "F", "C", "c"}) = {}
          /\ k.st0[Other(p)] \in {"GETSTATUS", "END"}
      BY <1>2, <3>1
    <3> HIDE DEF p
    <3> QED BY <1>2, <2>5, <2>12, <3>2, AcceptedBoth
  <2> HIDE DEF a, y
  <2>17. ASSUME NEW d \in Conns, d # c PROVE Both(R, y, E[d], d, p)
    <3>1. Both(r0, y, E[d], d, p) /\ r0.session # d /\ R.session # d
      BY <2>1, <2>6, <2>12, <2>17, PeersAssumption
    <3>2. r0.has \subseteq R.has
      BY <2>6, <2>12 DEF Table
    <3> HIDE DEF p
    <3> QED BY <1>2, <3>1, <3>2, BothElse
  <2>18. \A d \in Conns : Both(R, y, cn'[d], d, p)
    BY <2>1, <2>3, <2>16, <2>17 DEF Orderly
  <2> QED BY <1>2, <1>4, <2>2, <2>12, <2>14, <2>15, <2>18, Closes
<1> QED BY <1>7, <1>8

\* A lesson that begins has every entry ahead of it.
LEMMA LessonTells ==
  ASSUME NEW r \in Process, NEW p, Sound(r, p)
  PROVE  LET R == Lesson(r)
         IN  /\ R \in Process /\ Table(r, R) /\ R.confirm = r.confirm
             /\ R.stopping = r.stopping /\ R.session = r.session /\ R.flags = r.flags
             /\ \A f \in Learn \cup {"TEACH_COMPLETE"} : f \in R.pf <=> f \in r.pf
             /\ Teaching(R) /\ Sound(R, p) /\ \A S : Progress(R, S)
<1> DEFINE R == Lesson(r)
           f == (r.pf \ Teach) \cup {"TEACH_PROCESS"}
<1>1. /\ f \in SUBSET (Teach \cup Learn \cup {"TEACH_COMPLETE"})
      /\ \A g \in Learn \cup {"TEACH_COMPLETE"} : g \in f <=> g \in r.pf
      /\ "TEACH_PROCESS" \in f
      /\ \A g \in Teach : g # "TEACH_PROCESS" => g \notin f
  BY DEF Process, Teach, Learn
<1>2. R = [r EXCEPT !.origin = r.update, !.pushed = r.update, !.pf = f]
  BY DEF Process, Lesson
<1> HIDE DEF f, R
<1>3. /\ R \in Process /\ Table(r, R) /\ R.confirm = r.confirm
      /\ R.stopping = r.stopping /\ R.session = r.session /\ R.flags = r.flags
      /\ R.pf = f /\ R.origin = r.update /\ R.pushed = r.update
  BY <1>1, <1>2 DEF Process, Table
<1>4. \A g \in Teach : g # "TEACH_PROCESS" => g \notin R.pf
  BY <1>1, <1>3
<1>5. Sound(R, p)
  BY <1>1, <1>3, <1>4 DEF Sound, Table, Teach, Learn, Process
<1>6. \A S : Progress(R, S)
  <2>1. \A k \in Keys : R.upd[k] \in Nat
    BY <1>3 DEF Process
  <2>2. \A k \in Owed(R) : k \in Keys
    BY DEF Owed
  <2>3. r.update \in Nat
    BY DEF Process
  <2>4. \A k \in Owed(R) : Ahead(R, k)
    BY <1>3, <1>4, <2>1, <2>2, <2>3 DEF Ahead, Teach
  <2> QED BY <2>4 DEF Progress
<1>7. Teaching(R)
  BY <1>1, <1>3, <1>4 DEF Teaching, Teach
<1> QED BY <1>1, <1>3, <1>5, <1>6, <1>7 DEF R

\* The client has read the status: what was said before it reads on.
LEMMA StatusBoth ==
  ASSUME NEW p \in Procs, NEW r, NEW R, NEW y, NEW k \in Connection, NEW K, NEW c,
         Both(r, y, k, c, p), Handshake(k), k.client = p,
         k.st0[p] = "GETSTATUS", k.in[p] # <<>>,
         K.st0[p] = "WAITMSG", K.st0[Other(p)] = k.st0[Other(p)],
         K.in[p] = Tail(k.in[p]), K.in[Other(p)] = k.in[Other(p)],
         R.session = c, R.has = r.has, R.confirm = 0,
         ~local => ~Teaching(R), \A S : Progress(R, S)
  PROVE  Both(R, y, K, c, p)
<1> DEFINE q == Other(p)
<1>1. q \in Procs /\ Other(q) = p /\ p # None
  BY OtherProc
<1> HIDE DEF q
<1>2. /\ Queued(y, k, p) /\ Queued(r, k, q) /\ Lessons(r, y, k, c, q)
      /\ k.st0[q] = "WAITMSG" => y.session = c
      /\ K.st0[q] = k.st0[q] /\ K.in[q] = k.in[q]
  BY DEF Both, q
<1>3. /\ k.in[q] = <<>> /\ At(k.in[p], {"c", "F", "C"}) = {}
      /\ k.st0[q] = "WAITMSG" => "TEACH_PROCESS" \notin y.pf /\ y.confirm = 0
  BY <1>2 DEF Queued, q
<1>4. k.st0[q] # "GETSTATUS"
  BY <1>1 DEF Handshake, q
<1>5. k.in[p] \in Seq(Status \cup Msg)
  BY DEF Connection
<1>6. \A ts : \A n \in At(K.in[p], ts) :
         n \in Nat /\ n + 1 \in At(k.in[p], ts) /\ K.in[p][n] = k.in[p][n + 1]
  <2> DEFINE i == k.in[p]
  <2>1. i \in Seq(Status \cup Msg) /\ i # <<>> /\ K.in[p] = Tail(i)
    BY <1>5
  <2> HIDE DEF i
  <2>2. \A ts : \A n \in At(Tail(i), ts) :
           n \in Nat /\ n + 1 \in At(i, ts) /\ Tail(i)[n] = i[n + 1]
    BY <2>1, TailTells
  <2> QED BY <2>1, <2>2 DEF i
<1>7. \A ts : At(K.in[q], ts) = {}
  BY <1>2, <1>3, EmptyTells
<1>8. At(K.in[p], {"F", "C"}) = {} /\ At(K.in[p], {"c"}) = {}
  <2>1. \A n \in At(k.in[p], {"F", "C"}) \cup At(k.in[p], {"c"}) : n \in At(k.in[p], {"c", "F", "C"})
    BY DEF At
  <2> QED BY <1>3, <1>6, <2>1
<1>9. Queued(y, K, p)
  <2>1. \A n \in At(K.in[p], {"D"}) : K.in[p][n].k \in y.has
    <3>1. \A n \in At(k.in[p], {"D"}) : k.in[p][n].k \in y.has
      BY <1>2 DEF Queued
    <3>2. \A n \in At(K.in[p], {"D"}) :
             n + 1 \in At(k.in[p], {"D"}) /\ K.in[p][n] = k.in[p][n + 1]
      BY <1>6
    <3> QED BY <3>1, <3>2
  <2>2. local => At(K.in[p], {"R"}) = {}
    <3>1. local => At(k.in[p], {"R"}) = {}
      BY <1>2 DEF Queued
    <3> QED BY <1>6, <3>1
  <2> QED BY <2>1, <2>2 DEF Queued
<1>10. Queued(R, K, q)
  BY <1>2, <1>4, <1>7 DEF Queued
<1>11. Lessons(y, R, K, c, p)
  <2>1. k.st0[q] = "WAITMSG" => ~Teaching(y) /\ \A S : Progress(y, S)
    BY <1>3 DEF Teaching, Progress
  <2>2. Other(p) = q
    BY DEF q
  <2> QED BY <1>2, <1>7, <1>8, <2>1, <2>2 DEF Lessons
<1>12. Lessons(R, y, K, c, q)
  <2>1. ASSUME ~local, k.st0[q] = "WAITMSG", At(K.in[p], {"R"}) # {}
        PROVE  Asked(y) /\ \A m, n \in At(K.in[p], {"R"}) : m = n
    <3>1. At(k.in[p], {"R"}) # {}
      BY <1>6, <2>1
    <3>2. Asked(y) /\ \A m, n \in At(k.in[p], {"R"}) : m = n
      BY <1>1, <1>2, <2>1, <3>1 DEF Lessons
    <3>3. ASSUME NEW m \in At(K.in[p], {"R"}), NEW n \in At(K.in[p], {"R"}) PROVE m = n
      <4>1. m \in Nat /\ n \in Nat /\ m + 1 = n + 1
        BY <1>6, <3>2
      <4> QED BY <4>1
    <3> QED BY <3>2, <3>3
  <2> QED BY <1>1, <1>2, <1>3, <1>7, <1>8, <2>1 DEF Lessons
<1> QED BY <1>2, <1>9, <1>10, <1>11, <1>12 DEF Both, q

\* The client reads the status.
LEMMA GetStatusLesson ==
  ASSUME PeersInv, LessonInv, NEW c \in Conns, GetStatus(c)
  PROVE  LessonInv'
<1> DEFINE p == cn[c].client
           q == Other(p)
           r == ps[p]
           y == ps[q]
           code == Head(cn[c].in[p]).t
<1>0. cn[c] \in Connection /\ cn[c].client # None
  BY DEF PeersInv, TypeOK, GetStatus
<1>1. p \in Procs /\ p # None
  BY <1>0 DEF Connection
<1>2. q \in Procs /\ q # p
  BY <1>1, OtherProc
<1>3. /\ r \in Process /\ Tied(r, p, cn) /\ Orderly(cn) /\ ps \in [Procs -> Process]
      /\ Sound(r, p) /\ Handed(r, y) /\ \A d \in Conns : Both(r, y, cn[d], d, p)
  BY <1>1, Unpacked, Opened
<1>4. cn[c].st0[p] = "GETSTATUS" /\ cn[c].in[p] # <<>> /\ local' = local
  BY DEF GetStatus
<1>5. r.session = c /\ "LEARN_ASSIGN" \notin r.pf /\ Handshake(cn[c])
  BY <1>3, <1>4 DEF Tied, Orderly
<1>6. "TEACH_COMPLETE" \notin r.pf
  BY <1>3, <1>5, PeersAssumption DEF Handed
<1>7. CASE code = "SUCCESS"
  <2> DEFINE B == Begun(r)
             R == IF local THEN Lesson(B) ELSE B
             t == Tail(cn[c].in[p])
             k == [cn[c] EXCEPT !.st0[p] = "WAITMSG", !.in[p] = t]
  <2>1. ps' = [ps EXCEPT ![p] = R]
    BY <1>3, <1>7 DEF GetStatus
  <2>2. cn' = [cn EXCEPT ![c] = k]
    BY <1>3, <1>7 DEF GetStatus, Orderly
  <2>3. /\ B \in Process /\ Table(r, B) /\ B.confirm = 0 /\ B.session = c
        /\ \A f \in Teach : f \notin B.pf
        /\ "TEACH_COMPLETE" \notin B.pf /\ Sound(B, p)
    BY <1>3, <1>5, <1>6, BegunTells
  <2> HIDE DEF B
  <2>4. /\ R.has = r.has /\ R.confirm = 0 /\ R.session = c /\ "TEACH_COMPLETE" \notin R.pf
        /\ Sound(R, p) /\ (~local => ~Teaching(R)) /\ \A S : Progress(R, S)
    <3>1. ~Teaching(B) /\ \A S : Progress(B, S)
      BY <2>3 DEF Teaching, Progress, Teach
    <3>2. LET L == Lesson(B)
          IN  /\ Table(B, L) /\ L.confirm = 0 /\ L.session = c /\ "TEACH_COMPLETE" \notin L.pf
              /\ Sound(L, p) /\ \A S : Progress(L, S)
      BY <2>3, LessonTells
    <3> QED BY <2>3, <3>1, <3>2 DEF Table
  <2> HIDE DEF R, t
  <2>5. /\ k.in[p] = t /\ k.st0[p] = "WAITMSG"
        /\ k.in[q] = cn[c].in[q] /\ k.st0[q] = cn[c].st0[q]
    BY <1>0, <1>1, <1>2 DEF Connection
  <2> HIDE DEF k
  <2>6. cn'[c] = k /\ \A d \in Conns : d # c => cn'[d] = cn[d]
    BY <1>3, <2>2 DEF Orderly
  <2>7. Both(R, y, k, c, p)
    <3>1. Both(r, y, cn[c], c, p) /\ cn[c].client = p
      BY <1>3
    <3> HIDE DEF p, r, y
    <3>2. k.in[p] = Tail(cn[c].in[p])
      BY <2>5 DEF t
    <3>3. k.in[Other(p)] = cn[c].in[Other(p)] /\ k.st0[Other(p)] = cn[c].st0[Other(p)]
      BY <2>5
    <3> QED BY <1>0, <1>1, <1>4, <1>5, <2>4, <2>5, <3>1, <3>2, <3>3, StatusBoth
  <2>8. ASSUME NEW d \in Conns, d # c PROVE Both(R, y, cn[d], d, p)
    <3>1. Both(r, y, cn[d], d, p) /\ r.session # d /\ R.session # d
      BY <1>3, <1>5, <2>4, <2>8
    <3> HIDE DEF p, r, y
    <3> QED BY <1>1, <2>4, <3>1, BothElse
  <2>9. \A d \in Conns : Both(R, y, cn'[d], d, p)
    BY <2>6, <2>7, <2>8
  <2>10. Handed(R, y)
    BY <2>4 DEF Handed
  <2> HIDE DEF p
  <2> QED BY <1>1, <1>4, <2>1, <2>4, <2>9, <2>10, Closes
<1>8. CASE code # "SUCCESS"
  <2> DEFINE x == [r EXCEPT !.statuscode = code]
  <2>1. ps' = [ps EXCEPT ![p] = PeerSessionRelease(x, c)] /\ cn' = Ended(c, p, cn)
    BY <1>3, <1>8 DEF GetStatus
  <2>2. code \in {"0", "CONNECT", "CONNECTED", "SUCCESS", "TRYAGAIN"}
    <3>1. Head(cn[c].in[p]) \in Status
      BY <1>1, <1>4, <1>5 DEF Handshake
    <3> QED BY <3>1 DEF Status
  <2> HIDE DEF code
  <2>3. x \in Process /\ x.session = c /\ x.pf = r.pf /\ Light(r, x)
    BY <1>3, <1>5, <2>2 DEF Process, Light, Table
  <2> HIDE DEF x
  <2>4. Sound(x, p)
    BY <1>3, <2>3, LightKeeps
  <2> HIDE DEF p
  <2> QED BY <1>1, <1>4, <1>5, <1>6, <2>1, <2>3, <2>4, EndLesson DEF Light
<1> QED BY <1>7, <1>8

\* What a message that is read does to a record: it learns the entry of G at most, and
\* gives and takes lessons.
Reads(r, R, p, m, G) ==
    /\ r.has \subseteq R.has /\ (m.t = "D" => m.k \in R.has)
    /\ R.session = r.session /\ R.stopping = r.stopping /\ Sound(R, p)
    /\ "TEACH_COMPLETE" \in R.pf <=> "TEACH_COMPLETE" \in r.pf
    /\ m.t \notin {"F", "C"} => R.confirm = r.confirm /\ (Asked(r) => Asked(R))
    /\ m.t # "R" =>
         /\ Teaching(R) => Teaching(r)
         /\ Owed(R) \subseteq Owed(r) \cup G
         /\ \A S : Progress(r, S) /\ G \subseteq S => Progress(R, S)
    /\ m.t = "R" => \A S : Progress(R, S)

\* The messages but for an entry and the request for a lesson leave the table.
LEMMA TableReads ==
  ASSUME NEW r \in Process, NEW R, NEW p, NEW m \in Msg, NEW G, Sound(r, p),
         m.t \in {"F", "C", "A", "c"},
         Table(r, R), R.origin = r.origin, R.pushed = r.pushed,
         R.session = r.session, R.stopping = r.stopping,
         "TEACH_COMPLETE" \in R.pf <=> "TEACH_COMPLETE" \in r.pf,
         \/ \A f \in Teach : f \in R.pf <=> f \in r.pf
         \/ \A f \in Teach : f \notin R.pf,
         m.t \notin {"F", "C"} => R.confirm = r.confirm /\ (Asked(r) => Asked(R)),
         "LEARN_ASSIGN" \in R.pf => "LEARN_ASSIGN" \in r.pf /\ R.flags = r.flags
  PROVE  Reads(r, R, p, m, G)
<1>1. Owed(R) = Owed(r)
  BY OwedSame
<1>2. Sound(R, p)
  BY DEF Sound, Table, Teach
<1>3. Teaching(R) => Teaching(r)
  BY DEF Teaching, Teach
<1>4. \A S : Progress(r, S) => Progress(R, S)
  BY <1>1 DEF Progress, Ahead, Table, Teach
<1> QED BY <1>1, <1>2, <1>3, <1>4 DEF Reads, Table

\* An entry is learned behind the local updates.
LEMMA EntryReads ==
  ASSUME NEW r \in Process, NEW p, NEW m \in Msg, NEW G, Sound(r, p),
         m.t = "D", m.k \in G
  PROVE  Reads(r, Received(r, m), p, m, G)
<1> DEFINE k == m.k
           u == r.update + 1 + Offset
           upd == Insert(r.upd, k, u)
           R == Received(r, m)
           a == [r EXCEPT !.has = @ \cup {k}, !.update = @ + 1, !.upd = upd]
<1>1. /\ k \in Keys /\ m.v \in Nat /\ R = [Learned(r, k) EXCEPT !.pushack = m.v]
      /\ m.t \notin {"F", "C"} /\ m.t # "R"
  BY DEF Msg, Received
<1> HIDE DEF k
<1>2. /\ r.update \in Nat /\ u \in Nat /\ u > r.update + 1 /\ r.upd \in [Keys -> Nat]
      /\ r.origin \in Nat /\ r.localupdate \in Nat
  BY PeersAssumption DEF Process
<1>3. CASE k \in r.has
  <2>1. R = [r EXCEPT !.pushack = m.v]
    BY <1>1, <1>3 DEF Learned
  <2> HIDE DEF R
  <2>2. /\ Table(r, R) /\ R.origin = r.origin /\ R.pushed = r.pushed
        /\ R.session = r.session /\ R.stopping = r.stopping /\ R.pf = r.pf
        /\ R.flags = r.flags /\ R.confirm = r.confirm
    BY <2>1 DEF Process, Table
  <2>3. Owed(R) = Owed(r)
    BY <2>2, OwedSame
  <2>4. Sound(R, p)
    BY <2>2 DEF Sound, Table
  <2>5. \A S : Progress(r, S) => Progress(R, S)
    BY <2>2, <2>3 DEF Progress, Ahead, Table
  <2>6. (Teaching(R) => Teaching(r)) /\ (Asked(r) => Asked(R))
    BY <2>2 DEF Teaching, Asked
  <2>7. k \in R.has /\ r.has \subseteq R.has
    BY <1>3, <2>2 DEF Table
  <2> QED BY <1>1, <2>2, <2>3, <2>4, <2>5, <2>6, <2>7 DEF Reads, R, k
<1>4. CASE k \notin r.has
  <2>1. Learned(r, k) = a
    BY <1>4 DEF Learned
  <2>2. /\ upd \in [Keys -> Nat] /\ upd[k] = u
        /\ \A z \in Keys : z # k => (upd[z] = r.upd[z] /\ r.upd[z] # u) \/ upd[z] = 0
    BY <1>1, <1>2 DEF Insert
  <2> HIDE DEF u, upd
  <2>3. /\ a.has = r.has \cup {k} /\ a.upd = upd /\ a.update = r.update + 1
        /\ a.localupdate = r.localupdate /\ a.session = r.session /\ a.pf = r.pf
        /\ a.flags = r.flags /\ a.stopping = r.stopping
        /\ a.origin = r.origin /\ a.pushed = r.pushed /\ a.confirm = r.confirm /\ a \in Process
    <3> DEFINE h == r.has \cup {k}
               n == r.update + 1
    <3>1. h \in SUBSET Keys /\ n \in Nat
      BY <1>1, <1>2 DEF Process
    <3>2. a = [r EXCEPT !.has = h, !.update = n, !.upd = upd]
      BY DEF Process, a
    <3>0. upd \in [Keys -> Nat]
      BY <2>2
    <3> HIDE DEF h, n, a
    <3>3. /\ a.has = h /\ a.upd = upd /\ a.update = n
          /\ a.localupdate = r.localupdate /\ a.session = r.session /\ a.pf = r.pf
          /\ a.flags = r.flags /\ a.stopping = r.stopping
          /\ a.origin = r.origin /\ a.pushed = r.pushed /\ a.confirm = r.confirm
      BY <3>2 DEF Process
    <3>4. a \in Process
      BY <3>0, <3>1, <3>2 DEF Process
    <3> QED BY <3>3, <3>4 DEF h, n
  <2> HIDE DEF a
  <2>4. /\ R.has = r.has \cup {k} /\ R.upd = upd /\ R.update = r.update + 1
        /\ R.localupdate = r.localupdate /\ R.session = r.session /\ R.pf = r.pf
        /\ R.flags = r.flags /\ R.stopping = r.stopping
        /\ R.origin = r.origin /\ R.pushed = r.pushed /\ R.confirm = r.confirm
    BY <1>1, <2>1, <2>3 DEF Process
  <2> HIDE DEF R
  <2>5. Sound(R, p)
    <3>1. \A z \in Keys : R.upd[z] > 0 => z \in R.has
      BY <1>2, <2>2, <2>4 DEF Sound
    <3>2. \A i, j \in Keys : R.upd[i] = R.upd[j] => i = j \/ R.upd[i] = 0
      BY <1>2, <2>2, <2>4 DEF Sound
    <3>3. R.origin <= R.update
      BY <1>2, <2>4 DEF Sound
    <3> QED BY <2>4, <3>1, <3>2, <3>3 DEF Sound
  <2>6. ASSUME NEW z \in Owed(R), z # k PROVE z \in Owed(r) /\ R.upd[z] = r.upd[z]
    <3>1. z \in Keys /\ R.upd[z] > 0
      BY <2>6 DEF Owed
    <3>2. R.upd[z] = r.upd[z]
      BY <2>2, <2>4, <2>6, <3>1
    <3> QED BY <1>2, <2>4, <2>6, <3>1, <3>2 DEF Owed
  <2>7. k \in G
    BY DEF k
  <2>8. Owed(R) \subseteq Owed(r) \cup G
    BY <2>6, <2>7
  <2>9. ASSUME NEW S, Progress(r, S), G \subseteq S PROVE Progress(R, S)
    <3>1. ASSUME NEW z \in Owed(R), "TEACH_PROCESS" \in R.pf PROVE z \in S \/ Ahead(R, z)
      <4>1. CASE z = k
        BY <2>7, <2>9, <4>1
      <4>2. CASE z # k
        <5>1. z \in Owed(r) /\ R.upd[z] = r.upd[z]
          BY <2>6, <3>1, <4>2
        <5>2. z \in S \/ Ahead(r, z)
          BY <2>4, <2>9, <3>1, <5>1 DEF Progress
        <5> QED BY <2>4, <5>1, <5>2 DEF Ahead
      <4> QED BY <4>1, <4>2
    <3> QED BY <3>1 DEF Progress
  <2>10. (Teaching(R) => Teaching(r)) /\ (Asked(r) => Asked(R))
    BY <2>4 DEF Teaching, Asked
  <2>11. k \in R.has /\ r.has \subseteq R.has
    BY <2>4
  <2> QED BY <1>1, <2>4, <2>5, <2>8, <2>9, <2>10, <2>11 DEF Reads, R, k
<1> QED BY <1>3, <1>4

LEMMA ReceivedTells ==
  ASSUME NEW r \in Process, NEW p, NEW m \in Msg, NEW G, Sound(r, p),
         m.t = "D" => m.k \in G
  PROVE  Reads(r, Received(r, m), p, m, G)
<1> DEFINE R == Received(r, m)
<1>1. CASE m.t = "D"
  BY <1>1, EntryReads
<1>2. CASE m.t = "R"
  <2>1. R = Lesson(r)
    BY <1>2 DEF Received
  <2> HIDE DEF R
  <2>2. /\ Table(r, R) /\ R.confirm = r.confirm
        /\ R.stopping = r.stopping /\ R.session = r.session /\ R.flags = r.flags
        /\ "LEARN_ASSIGN" \in R.pf <=> "LEARN_ASSIGN" \in r.pf
        /\ "TEACH_COMPLETE" \in R.pf <=> "TEACH_COMPLETE" \in r.pf
        /\ Sound(R, p) /\ \A S : Progress(R, S)
    BY <2>1, LessonTells DEF Learn
  <2> QED BY <1>2, <2>2 DEF Reads, Asked, Table, R
<1>3. CASE m.t \in {"F", "C"}
  <2> DEFINE a == Unassign(r)
             b == IF m.t = "F" THEN Finish(r) ELSE Continue(r)
             l == IF "LEARN_ASSIGN" \in r.pf THEN b ELSE r
  <2>1. R = [l EXCEPT !.confirm = @ + 1]
    BY <1>3 DEF Received
  <2>2. /\ a \in Process /\ Table(r, a) /\ a.origin = r.origin /\ a.pushed = r.pushed
        /\ a.session = r.session /\ a.stopping = r.stopping
        /\ a.pf = r.pf \ {"LEARN_ASSIGN"}
    BY DEF Unassign, Process, Table
  <2>3. /\ b = [a EXCEPT !.flags = @ \cup {"LOCAL", "REMOTE"}, !.due = FALSE]
        \/ b = [a EXCEPT !.pf = @ \cup {"LEARN_NOTUP2DATE"}, !.due = FALSE, !.woken = TRUE]
    BY DEF Finish, Continue
  <2> HIDE DEF a, b
  <2>4. /\ b \in Process /\ Table(r, b) /\ b.origin = r.origin /\ b.pushed = r.pushed
        /\ b.session = r.session /\ b.stopping = r.stopping
        /\ b.pf = a.pf \/ b.pf = a.pf \cup {"LEARN_NOTUP2DATE"}
    <3> DEFINE g == a.pf \cup {"LEARN_NOTUP2DATE"}
               h == a.flags \cup {"LOCAL", "REMOTE"}
    <3>1. g \in SUBSET (Teach \cup Learn \cup {"TEACH_COMPLETE"})
      BY <2>2 DEF Process, Learn
    <3>2. h \in SUBSET {"LOCAL", "REMOTE", "ASSIGN", "PROCESS"}
      BY <2>2 DEF Process
    <3>3. \/ b = [a EXCEPT !.flags = h, !.due = FALSE]
          \/ b = [a EXCEPT !.pf = g, !.due = FALSE, !.woken = TRUE]
      BY <2>2, <2>3 DEF Process
    <3> HIDE DEF g, h
    <3>4. /\ b \in Process /\ Table(a, b) /\ b.origin = a.origin /\ b.pushed = a.pushed
          /\ b.session = a.session /\ b.stopping = a.stopping
          /\ b.pf = a.pf \/ b.pf = g
      <4>1. CASE b = [a EXCEPT !.flags = h, !.due = FALSE]
        BY <2>2, <3>2, <4>1 DEF Process, Table
      <4>2. CASE b = [a EXCEPT !.pf = g, !.due = FALSE, !.woken = TRUE]
        BY <2>2, <3>1, <4>2 DEF Process, Table
      <4> QED BY <3>3, <4>1, <4>2
    <3> QED BY <2>2, <3>4 DEF g, Table
  <2>5. /\ l \in Process /\ Table(r, l) /\ l.origin = r.origin /\ l.pushed = r.pushed
        /\ l.session = r.session /\ l.stopping = r.stopping
        /\ \A f \in Teach \cup {"TEACH_COMPLETE"} : f \in l.pf <=> f \in r.pf
        /\ "LEARN_ASSIGN" \notin l.pf
    BY <2>2, <2>4 DEF Table, Teach
  <2> HIDE DEF l, R
  <2>6. /\ Table(l, R) /\ R.origin = l.origin /\ R.pushed = l.pushed
        /\ R.session = l.session /\ R.stopping = l.stopping /\ R.pf = l.pf
    BY <2>1, <2>5 DEF Process, Table
  <2>7. Table(r, R)
    BY <2>5, <2>6 DEF Table
  <2> QED BY <1>3, <2>5, <2>6, <2>7, TableReads DEF R
<1>4. CASE m.t = "A"
  <2>1. m.v \in Nat /\ R = [r EXCEPT !.acked = m.v]
    BY <1>4 DEF Msg, Received
  <2> HIDE DEF R
  <2>2. /\ Table(r, R) /\ R.origin = r.origin /\ R.pushed = r.pushed
        /\ R.session = r.session /\ R.stopping = r.stopping /\ R.pf = r.pf
        /\ R.flags = r.flags /\ R.confirm = r.confirm
    BY <2>1 DEF Process, Table
  <2>3. Asked(r) => Asked(R)
    BY <2>2 DEF Asked
  <2> QED BY <1>4, <2>2, <2>3, TableReads DEF R
<1>5. CASE m.t = "c"
  <2>1. R = [r EXCEPT !.pf = @ \ Teach]
    BY <1>5 DEF Received
  <2> HIDE DEF R
  <2>2. /\ Table(r, R) /\ R.origin = r.origin /\ R.pushed = r.pushed
        /\ R.session = r.session /\ R.stopping = r.stopping /\ R.pf = r.pf \ Teach
        /\ R.flags = r.flags /\ R.confirm = r.confirm
    BY <2>1 DEF Process, Table
  <2>3. /\ Asked(r) => Asked(R)
        /\ "TEACH_COMPLETE" \in R.pf <=> "TEACH_COMPLETE" \in r.pf
        /\ "LEARN_ASSIGN" \in R.pf <=> "LEARN_ASSIGN" \in r.pf
        /\ \A f \in Teach : f \notin R.pf
    BY <2>2 DEF Asked, Teach
  <2> QED BY <1>5, <2>2, <2>3, TableReads DEF R
<1>6. m.t \in {"D", "R", "F", "C", "A", "c"}
  BY DEF Msg
<1> QED BY <1>1, <1>2, <1>3, <1>4, <1>5, <1>6

\* A message was read: what p is taught, and what it teaches.
LEMMA ReadBoth ==
  ASSUME NEW p \in Procs, NEW r, NEW R, NEW y, NEW k \in Connection, NEW K, NEW c, NEW m,
         Both(r, y, k, c, p), Handshake(k), k.st0[p] = "WAITMSG", k.in[p] # <<>>,
         m = Head(k.in[p]), m.t \in {"D", "R", "F", "C", "A", "c"}, Reads(r, R, p, m, y.has),
         K.st0 = k.st0, K.cut = k.cut, K.in[p] = Tail(k.in[p]),
         K.in[Other(p)] = k.in[Other(p)]
  PROVE  Both(R, y, K, c, p)
<1> DEFINE q == Other(p)
           i == k.in[p]
           j == K.in[p]
           g == k.in[q]
<1>1. q \in Procs /\ Other(q) = p /\ p # None /\ q # None /\ q # p
  BY OtherProc
<1> HIDE DEF q
<1>2. /\ Queued(y, k, p) /\ Queued(r, k, q)
      /\ Lessons(y, r, k, c, p) /\ Lessons(r, y, k, c, q)
      /\ k.st0[q] = "WAITMSG" => y.session = c
      /\ r.session = c /\ R.session = c
  BY DEF Both, q, Reads
<1>3. i \in Seq(Status \cup Msg) /\ i # <<>> /\ j = Tail(i) /\ m = Head(i) /\ K.in[q] = g
  BY DEF Connection, q
<1>4. k.st0[q] \in {"WAITMSG", "END"}
  <2>1. k.client # None
    BY NoConnType DEF Handshake
  <2>2. k.client \in Procs
    BY <2>1 DEF Connection
  <2>3. CASE k.client = p
    BY <1>1, <1>3, <2>3 DEF Handshake, q
  <2>4. CASE k.client = q
    <3>1. k.st0[q] # "GETSTATUS"
      BY <1>1, <1>2, <1>3 DEF Queued
    <3>2. k.st0[q] \in {"CONNECT", "ACCEPT", "GETSTATUS", "WAITMSG", "END"}
      BY <1>1 DEF Connection
    <3> QED BY <1>1, <1>3, <2>4, <3>1, <3>2 DEF Handshake
  <2> QED BY <1>1, <2>2, <2>3, <2>4, OtherProc DEF q
<1> HIDE DEF i, j
<1>5. /\ \A ts : \A n \in At(j, ts) : n \in Nat /\ n + 1 \in At(i, ts) /\ j[n] = i[n + 1]
      /\ \A ts : m.t \in ts => 1 \in At(i, ts)
      /\ \A n \in Nat : Told(i, n + 1) \subseteq Told(j, n) \cup (IF m.t = "D" THEN {m.k} ELSE {})
      /\ Len(j) + 1 = Len(i) /\ Told(i, 1) = {}
  <2>1. i \in Seq(Status \cup Msg) /\ i # <<>>
    BY <1>3
  <2>2. /\ \A ts : \A n \in At(Tail(i), ts) :
                n \in Nat /\ n + 1 \in At(i, ts) /\ Tail(i)[n] = i[n + 1]
        /\ \A ts : Head(i).t \in ts => 1 \in At(i, ts)
        /\ \A n \in Nat : Told(i, n + 1) \subseteq
                Told(Tail(i), n) \cup (IF Head(i).t = "D" THEN {Head(i).k} ELSE {})
        /\ Len(Tail(i)) + 1 = Len(i) /\ Told(i, 1) = {}
    BY <2>1, TailTells
  <2> QED BY <1>3, <2>2, Zenon
<1>5a. Len(j) \in Nat
  BY <1>3
<1>6. \A ts : \A n \in At(j, ts) : n # 0
  BY <1>3 DEF At
<1>7. /\ r.has \subseteq R.has /\ (m.t = "D" => m.k \in R.has)
  BY DEF Reads
<1>8. \A n \in Nat : r.has \cup Told(i, n + 1) \subseteq R.has \cup Told(j, n)
  BY <1>5, <1>7
<1> HIDE DEF g
<1>9. K.in[p] = j /\ k.in[p] = i /\ k.in[q] = g /\ K.in[q] = g
  BY <1>3 DEF i, j, g
<1>10. Queued(y, K, p)
  <2>1. \A n \in At(j, {"D"}) : j[n].k \in y.has
    <3>1. \A n \in At(i, {"D"}) : i[n].k \in y.has
      BY <1>2, <1>9 DEF Queued
    <3>2. \A n \in At(j, {"D"}) : n + 1 \in At(i, {"D"}) /\ j[n] = i[n + 1]
      BY <1>5
    <3> QED BY <3>1, <3>2
  <2>2. local => At(j, {"R"}) = {}
    <3>1. local => At(i, {"R"}) = {}
      BY <1>2, <1>9 DEF Queued
    <3> QED BY <1>5, <3>1
  <2> QED BY <1>9, <2>1, <2>2 DEF Queued
<1>11. Queued(R, K, q)
  <2>1. /\ k.st0[q] = "END" => At(g, {"R", "F", "C", "c"}) = {}
        /\ \A n \in At(g, {"D"}) : g[n].k \in r.has
        /\ local => At(g, {"R"}) = {}
    BY <1>2, <1>9 DEF Queued
  <2> QED BY <1>4, <1>7, <1>9, <2>1 DEF Queued
<1>12. ASSUME ~local, (k.st0[q] = "WAITMSG" /\ Teaching(y)) \/ At(g, {"R"}) # {}
       PROVE  Asked(R) /\ At(j, {"F", "C"}) = {}
  <2>1. Asked(r) /\ At(i, {"F", "C"}) = {}
    BY <1>2, <1>9, <1>12 DEF Lessons, q
  <2>2. At(j, {"F", "C"}) = {} /\ m.t \notin {"F", "C"}
    BY <1>5, <2>1
  <2> QED BY <2>1, <2>2 DEF Reads
<1>13. ASSUME ~local, At(j, {"F", "C"}) # {}
       PROVE  Asked(R) /\ \A a, b \in At(j, {"F", "C"}) : a = b
  <2>1. \A n \in At(j, {"F", "C"}) : n \in Nat /\ n # 0 /\ n + 1 \in At(i, {"F", "C"})
    BY <1>5, <1>6
  <2>2. Asked(r) /\ \A a, b \in At(i, {"F", "C"}) : a = b
    BY <1>2, <1>9, <1>13, <2>1 DEF Lessons
  <2>3. m.t \notin {"F", "C"}
    <3>1. \A n \in At(j, {"F", "C"}) : n + 1 # 1
      BY <2>1
    <3> QED BY <1>5, <1>13, <2>1, <2>2, <3>1
  <2>4. ASSUME NEW a \in At(j, {"F", "C"}), NEW b \in At(j, {"F", "C"}) PROVE a = b
    <3>1. a \in Nat /\ b \in Nat /\ a + 1 = b + 1
      BY <2>1, <2>2
    <3> QED BY <3>1
  <2> QED BY <2>2, <2>3, <2>4 DEF Reads
<1>14. Lessons(y, R, K, c, p)
  <2>1. ASSUME Progress(y, r.has \cup Told(i, Len(i) + 1))
        PROVE  Progress(y, R.has \cup Told(j, Len(j) + 1))
    <3>1. r.has \cup Told(i, (Len(j) + 1) + 1) \subseteq R.has \cup Told(j, Len(j) + 1)
      BY <1>5a, <1>8
    <3>2. Len(i) + 1 = (Len(j) + 1) + 1
      BY <1>5, <1>5a
    <3> QED BY <2>1, <3>1, <3>2 DEF Progress
  <2>2. ASSUME y.session = c, NEW n \in At(j, {"F", "C"})
        PROVE  Owed(y) \subseteq R.has \cup Told(j, n)
    <3>1. n \in Nat /\ n + 1 \in At(i, {"F", "C"})
      BY <1>5, <2>2
    <3>2. Owed(y) \subseteq r.has \cup Told(i, n + 1)
      BY <1>2, <1>9, <2>2, <3>1 DEF Lessons
    <3> QED BY <1>8, <3>1, <3>2
  <2>3. ASSUME local, y.session = c, At(g, {"c"}) # {} PROVE Owed(y) \subseteq R.has
    BY <1>2, <1>7, <1>9, <2>3 DEF Lessons, q
  <2>4. ASSUME local, y.session = c, k.st0[q] = "WAITMSG", R.confirm > 0
        PROVE  Owed(y) \subseteq R.has
    <3>1. CASE m.t \in {"F", "C"}
      <4>1. 1 \in At(i, {"F", "C"})
        BY <1>5, <3>1
      <4>2. Owed(y) \subseteq r.has \cup Told(i, 1)
        BY <1>2, <1>9, <2>4, <4>1 DEF Lessons
      <4> QED BY <1>5, <1>7, <4>2
    <3>2. CASE m.t \notin {"F", "C"}
      <4>1. R.confirm = r.confirm
        BY <3>2 DEF Reads
      <4> QED BY <1>2, <1>7, <2>4, <4>1 DEF Lessons, q
    <3> QED BY <3>1, <3>2
  <2>5. /\ k.st0[q] = "WAITMSG" /\ ~k.cut => Progress(y, r.has \cup Told(i, Len(i) + 1))
        /\ ~local /\ At(g, {"R"}) # {} =>
              /\ ~(k.st0[q] = "WAITMSG" /\ Teaching(y))
              /\ \A a, b \in At(g, {"R"}) : a = b
    BY <1>2, <1>9 DEF Lessons, q
  <2>6. Other(p) = q
    BY DEF q
  <2> HIDE DEF i, j
  <2> QED BY <1>9, <1>12, <1>13, <2>1, <2>2, <2>3, <2>4, <2>5, <2>6 DEF Lessons
<1>15. m.t = "R" => ~local /\ At(g, {"F", "C"}) = {}
  <2>1. SUFFICES ASSUME m.t = "R" PROVE ~local /\ At(g, {"F", "C"}) = {}
    OBVIOUS
  <2>2. 1 \in At(i, {"R"})
    BY <1>5, <2>1
  <2>3. ~local
    BY <1>2, <1>9, <2>2 DEF Queued
  <2>4. CASE k.st0[q] = "END"
    <3>1. At(g, {"R", "F", "C", "c"}) = {}
      BY <1>2, <1>9, <2>4 DEF Queued
    <3> QED BY <2>3, <3>1 DEF At
  <2>5. CASE k.st0[q] = "WAITMSG"
    BY <1>1, <1>2, <1>9, <2>2, <2>3, <2>5 DEF Lessons
  <2> QED BY <1>4, <2>4, <2>5
<1>16. m.t # "R" => /\ Teaching(R) => Teaching(r)
                    /\ Owed(R) \subseteq Owed(r) \cup y.has
                    /\ \A S : Progress(r, S) /\ y.has \subseteq S => Progress(R, S)
  BY DEF Reads
<1>17. m.t = "R" => \A S : Progress(R, S)
  BY DEF Reads
<1>18. ASSUME ~local, k.st0[q] = "WAITMSG", At(j, {"R"}) # {}
       PROVE  /\ Asked(y) /\ ~Teaching(R) /\ At(g, {"F", "C"}) = {}
              /\ \A a, b \in At(j, {"R"}) : a = b
  <2>1. \A n \in At(j, {"R"}) : n \in Nat /\ n # 0 /\ n + 1 \in At(i, {"R"})
    BY <1>5, <1>6
  <2>2. /\ Asked(y) /\ ~Teaching(r) /\ At(g, {"F", "C"}) = {}
        /\ \A a, b \in At(i, {"R"}) : a = b
    BY <1>1, <1>2, <1>9, <1>18, <2>1 DEF Lessons
  <2>3. m.t # "R"
    <3>1. \A n \in At(j, {"R"}) : n + 1 # 1
      BY <2>1
    <3> QED BY <1>5, <1>18, <2>1, <2>2, <3>1
  <2>4. ASSUME NEW a \in At(j, {"R"}), NEW b \in At(j, {"R"}) PROVE a = b
    <3>1. a \in Nat /\ b \in Nat /\ a + 1 = b + 1
      BY <2>1, <2>2
    <3> QED BY <3>1
  <2> QED BY <1>16, <2>2, <2>3, <2>4
<1>19. ASSUME ~local, k.st0[q] = "WAITMSG", Teaching(R)
       PROVE  Asked(y) /\ At(g, {"F", "C"}) = {}
  <2>1. CASE m.t = "R"
    <3>1. 1 \in At(i, {"R"})
      BY <1>5, <2>1
    <3> QED BY <1>1, <1>2, <1>9, <1>19, <3>1 DEF Lessons
  <2>2. CASE m.t # "R"
    BY <1>1, <1>2, <1>9, <1>16, <1>19, <2>2 DEF Lessons
  <2> QED BY <2>1, <2>2
<1>20. Lessons(R, y, K, c, q)
  <2>1. ASSUME k.st0[q] = "WAITMSG", ~k.cut
        PROVE  Progress(R, y.has \cup Told(g, Len(g) + 1))
    <3>1. Progress(r, y.has \cup Told(g, Len(g) + 1))
      BY <1>1, <1>2, <1>9, <2>1 DEF Lessons
    <3> QED BY <1>16, <1>17, <3>1
  <2>2. ASSUME NEW n \in At(g, {"F", "C"})
        PROVE  Owed(R) \subseteq y.has \cup Told(g, n)
    <3>1. Owed(r) \subseteq y.has \cup Told(g, n)
      BY <1>2, <1>9, <2>2 DEF Lessons
    <3> QED BY <1>15, <1>16, <2>2, <3>1
  <2>3. ASSUME local, At(j, {"c"}) # {} PROVE Owed(R) \subseteq y.has
    <3>1. At(i, {"c"}) # {}
      BY <1>5, <2>3
    <3>2. Owed(r) \subseteq y.has
      BY <1>1, <1>2, <1>9, <2>3, <3>1 DEF Lessons
    <3> QED BY <1>15, <1>16, <2>3, <3>2
  <2>4. ASSUME local, k.st0[q] = "WAITMSG", y.confirm > 0 PROVE Owed(R) \subseteq y.has
    <3>1. Owed(r) \subseteq y.has
      BY <1>1, <1>2, <1>9, <2>4 DEF Lessons
    <3> QED BY <1>15, <1>16, <2>4, <3>1
  <2>5. ~local /\ k.st0[q] = "WAITMSG" /\ At(g, {"F", "C"}) # {} =>
           Asked(y) /\ \A a, b \in At(g, {"F", "C"}) : a = b
    BY <1>1, <1>2, <1>9 DEF Lessons
  <2>6. k.st0[p] = "WAITMSG"
    OBVIOUS
  <2> QED BY <1>1, <1>4, <1>9, <1>18, <1>19, <2>1, <2>2, <2>3, <2>4, <2>5 DEF Lessons
<1> QED BY <1>2, <1>10, <1>11, <1>14, <1>20 DEF Both, q

\* A message is read.
LEMMA ReadLesson ==
  ASSUME PeersInv, LessonInv, NEW c \in Conns, NEW p \in Procs, ReadMessage(c, p)
  PROVE  LessonInv'
<1> DEFINE q == Other(p)
           r == ps[p]
           y == ps[q]
           m == Head(cn[c].in[p])
<1>2. q \in Procs /\ q # p /\ Other(q) = p
  BY OtherProc
<1>3. /\ r \in Process /\ Orderly(cn) /\ ps \in [Procs -> Process]
      /\ Sound(r, p) /\ Handed(r, y) /\ \A d \in Conns : Both(r, y, cn[d], d, p)
  BY Unpacked, Opened
<1>4. cn[c].st0[p] = "WAITMSG" /\ cn[c].in[p] # <<>> /\ local' = local
  BY DEF ReadMessage
<1>5. cn[c] \in Connection /\ Handshake(cn[c]) /\ r.session = c
  BY <1>3, <1>4 DEF Orderly, Both
<1>6. cn[c].client # None
  BY <1>4, <1>5, NoConnType DEF Handshake
<1>7. cn[c].in[p] \in Seq(Msg)
  BY <1>4, <1>5, <1>6 DEF Connection, Handshake
<1>8. m \in Msg
  BY <1>4, <1>7, HeadTailProperties
<1>9. CASE m.t = "c" /\ r.stopping
  <2> DEFINE x == Complete(r)
             i == cn[c].in[p]
  <2>1. ps' = [ps EXCEPT ![p] = PeerSessionRelease(x, c)] /\ cn' = Ended(c, p, cn)
    BY <1>3, <1>9 DEF ReadMessage
  <2>2. /\ x \in Process /\ x.session = r.session /\ x.pf = r.pf \cup {"TEACH_COMPLETE"}
        /\ Table(r, x) /\ x.origin = r.origin /\ x.stopping = r.stopping /\ x.flags = r.flags
    BY <1>3 DEF Process, Complete, Table
  <2> HIDE DEF x
  <2>3. Sound(x, p)
    BY <1>3, <2>2 DEF Sound, Table
  <2>4. Owed(x) = Owed(r)
    BY <2>2, OwedSame
  <2>5. At(i, {"c"}) # {}
    <3>1. i \in Seq(Msg) /\ i # <<>> /\ Head(i).t = "c"
      BY <1>4, <1>7, <1>9
    <3> HIDE DEF i
    <3>2. \A ts : Head(i).t \in ts => 1 \in At(i, ts)
      BY <3>1, TailTells
    <3> QED BY <3>1, <3>2
  <2>6. Owed(r) \subseteq y.has
    <3>1. Lessons(r, y, cn[c], c, q) /\ local
      BY <1>3, <1>9 DEF Both, Sound
    <3> QED BY <1>2, <1>5, <2>5, <3>1 DEF Lessons
  <2> QED BY <1>3, <1>4, <1>5, <1>9, <2>1, <2>2, <2>3, <2>4, <2>6, EndLesson
<1>10. CASE ~(m.t = "c" /\ r.stopping)
  <2> DEFINE R == Received(r, m)
             t == Tail(cn[c].in[p])
             k == [cn[c] EXCEPT !.in[p] = t]
  <2>1. ps' = [ps EXCEPT ![p] = R]
    BY <1>3, <1>10 DEF ReadMessage
  <2>2. cn' = [cn EXCEPT ![c] = k]
    BY <1>3, <1>10 DEF ReadMessage, Orderly
  <2>3. m.t = "D" => m.k \in y.has
    <3> DEFINE i == cn[c].in[p]
    <3>1. i \in Seq(Msg) /\ i # <<>> /\ m = Head(i) /\ i[1] = Head(i)
      BY <1>4, <1>7
    <3> HIDE DEF i
    <3>2. Queued(y, cn[c], p)
      BY <1>3 DEF Both
    <3>3. \A n \in At(i, {"D"}) : i[n].k \in y.has
      BY <3>2 DEF Queued, i
    <3>4. \A ts : Head(i).t \in ts => 1 \in At(i, ts)
      BY <3>1, TailTells
    <3>5. m.t = "D" => 1 \in At(i, {"D"})
      BY <3>1, <3>4
    <3> HIDE DEF m
    <3> QED BY <3>1, <3>3, <3>5
  <2>4. m.t \in {"D", "R", "F", "C", "A", "c"}
    BY <1>8 DEF Msg
  <2>5. m = Head(cn[c].in[p])
    OBVIOUS
  <2> HIDE DEF m
  <2>6. Reads(r, R, p, m, y.has)
    BY <1>3, <1>8, <2>3, ReceivedTells
  <2> HIDE DEF R
  <2>7. /\ k.st0 = cn[c].st0 /\ k.cut = cn[c].cut
        /\ k.in[p] = Tail(cn[c].in[p]) /\ k.in[q] = cn[c].in[q]
    <3> DEFINE n == [cn[c].in EXCEPT ![p] = t]
    <3>1. n[p] = t /\ n[q] = cn[c].in[q]
      BY <1>2, <1>5 DEF Connection
    <3>2. k = [cn[c] EXCEPT !.in = n]
      BY <1>5 DEF Connection
    <3> HIDE DEF n, k, t
    <3>3. k.st0 = cn[c].st0 /\ k.cut = cn[c].cut /\ k.in = n
      BY <1>5, <3>2 DEF Connection
    <3> QED BY <3>1, <3>3 DEF t
  <2> HIDE DEF k
  <2>8. Both(R, y, k, c, p)
    <3>1. Both(r, y, cn[c], c, p) /\ k.in[Other(p)] = cn[c].in[Other(p)]
      BY <1>3, <2>7
    <3> HIDE DEF r, y, q
    <3> QED BY <1>4, <1>5, <2>4, <2>5, <2>6, <2>7, <3>1, ReadBoth
  <2>9. R.session = r.session /\ r.has \subseteq R.has /\ Sound(R, p)
        /\ ("TEACH_COMPLETE" \in R.pf <=> "TEACH_COMPLETE" \in r.pf)
    BY <2>6 DEF Reads
  <2>10. ASSUME NEW d \in Conns, d # c PROVE Both(R, y, cn[d], d, p)
    <3>1. Both(r, y, cn[d], d, p) /\ r.session # d /\ R.session # d
      BY <1>3, <1>5, <2>9, <2>10
    <3> HIDE DEF r, y
    <3> QED BY <2>9, <3>1, BothElse
  <2>11. cn'[c] = k /\ \A d \in Conns : d # c => cn'[d] = cn[d]
    BY <1>3, <2>2 DEF Orderly
  <2>12. \A d \in Conns : Both(R, y, cn'[d], d, p)
    BY <2>8, <2>10, <2>11
  <2>13. Handed(R, y)
    BY <1>3, <1>5, <2>9, PeersAssumption DEF Handed
  <2> QED BY <1>4, <2>1, <2>9, <2>12, <2>13, Closes
<1> QED BY <1>9, <1>10

\* The queue j is g with a message of M after it, or the same.
Sends(g, j, M) ==
    /\ \A ts : \A n \in At(j, ts) :
         \/ n \in At(g, ts) /\ j[n] = g[n]
         \/ n = Len(g) + 1 /\ j[n] \in M /\ j[n].t \in ts
    /\ \A n \in Nat : n <= Len(g) + 1 => Told(g, n) \subseteq Told(j, n)
    /\ Told(g, Len(g) + 1) \subseteq Told(j, Len(j) + 1)
    /\ \A m \in M : m.t = "D" => m.k \in Told(j, Len(j) + 1)
    /\ Len(g) \in Nat /\ \A ts : At(g, ts) \subseteq 1..Len(g)

LEMMA SendsTells ==
  ASSUME NEW T, NEW g \in Seq(T), NEW w, NEW M, \/ w = <<>> /\ M = {}
                                                \/ \E m : w = <<m>> /\ M = {m}
  PROVE  Sends(g, g \o w, M)
<1>1. CASE w = <<>> /\ M = {}
  <2>1. g \o w = g /\ Len(g) \in Nat /\ \A ts : At(g, ts) \subseteq 1..Len(g)
    BY <1>1 DEF At
  <2> QED BY <1>1, <2>1 DEF Sends
<1>2. ASSUME NEW m, w = <<m>>, M = {m} PROVE Sends(g, g \o w, M)
  <2> DEFINE j == Append(g, m)
  <2>1. g \o w = j
    BY <1>2
  <2>2. j[Len(g) + 1] = m
    OBVIOUS
  <2>3. /\ \A ts : \A n \in At(j, ts) :
             \/ n \in At(g, ts) /\ j[n] = g[n]
             \/ n = Len(g) + 1 /\ j[n] = m /\ m.t \in ts
        /\ \A n \in Nat : n <= Len(g) + 1 => Told(g, n) \subseteq Told(j, n)
        /\ Told(g, Len(g) + 1) \subseteq Told(j, Len(j) + 1)
        /\ m.t = "D" => m.k \in Told(j, Len(j) + 1)
        /\ Len(g) \in Nat /\ \A ts : At(g, ts) \subseteq 1..Len(g)
    BY AppendTells
  <2> HIDE DEF j
  <2> QED BY <1>2, <2>1, <2>3 DEF Sends
<1> QED BY <1>1, <1>2

\* A message was written: what p teaches, and what it is taught.
LEMMA WriteBoth ==
  ASSUME NEW p \in Procs, NEW r \in Process, NEW R, NEW y, NEW k \in Connection, NEW K, NEW c,
         NEW M, Both(r, y, k, c, p), k.st0[p] = "WAITMSG", ~k.cut, Sound(r, p),
         k.st0[Other(p)] \in {"GETSTATUS", "WAITMSG"},
         Writes(r, R), \A m \in M : Message(r, R, m),
         \A S, T : Progress(r, S) /\ S \subseteq T
                   /\ (\A m \in M : m.t = "D" => m.k \in T) => Progress(R, T),
         K.st0 = k.st0, K.cut = k.cut, K.in[p] = k.in[p],
         Sends(k.in[Other(p)], K.in[Other(p)], M)
  PROVE  Both(R, y, K, c, p)
<1> DEFINE q == Other(p)
           i == k.in[p]
           g == k.in[q]
           j == K.in[q]
<1>1. q \in Procs /\ Other(q) = p /\ Other(p) = q
  BY OtherProc
<1>2. /\ Queued(y, k, p) /\ Queued(r, k, q)
      /\ Lessons(y, r, k, c, p) /\ Lessons(r, y, k, c, q)
      /\ k.st0[q] = "WAITMSG" => y.session = c
      /\ r.session = c /\ R.session = c /\ R.has = r.has
  BY DEF Both, Writes, Goes, Table
<1>3. k.st0[q] \in {"GETSTATUS", "WAITMSG"} /\ Sends(g, j, M)
  OBVIOUS
<1> HIDE DEF q, i, g, j
<1>4. K.in[p] = i /\ k.in[p] = i /\ k.in[q] = g /\ K.in[q] = j
  BY DEF i, g, j
<1>5. /\ r.confirm \in Nat /\ R.confirm \in Nat /\ R.confirm <= r.confirm
  BY DEF Writes, Process
<1>6. Owed(R) = Owed(r)
  BY OwedSame DEF Writes, Goes
<1>7. /\ Teaching(R) => Teaching(r)
      /\ "TEACH_PROCESS" \in R.pf <=> "TEACH_PROCESS" \in r.pf
      /\ "LEARN_ASSIGN" \in R.pf <=> "LEARN_ASSIGN" \in r.pf
      /\ Asked(r) => Asked(R)
  <2>1. /\ "TEACH_PROCESS" \in R.pf <=> "TEACH_PROCESS" \in r.pf
        /\ "LEARN_ASSIGN" \in R.pf <=> "LEARN_ASSIGN" \in r.pf
    BY DEF Writes, Goes, SessionFlags, Teach, Learn
  <2> QED BY <2>1 DEF Writes, Teaching, Asked
<1>8. \A ts : \A n \in At(j, ts) :
         n \in At(g, ts) \/ (n = Len(g) + 1 /\ j[n] \in M /\ j[n].t \in ts)
  BY <1>3 DEF Sends
<1>9. \A ts : (\A m \in M : m.t \notin ts) => At(j, ts) \subseteq At(g, ts)
  BY <1>8
<1>10. \A ts : At(g, ts) = {} => \A a, b \in At(j, ts) : a = b
  BY <1>8
<1>11. \A ts : At(j, ts) # {} => At(g, ts) # {} \/ \E m \in M : m.t \in ts
  BY <1>8
<1>12. Queued(y, K, p)
  BY <1>1, <1>2, <1>4 DEF Queued
<1>13. k.st0[q] = "GETSTATUS" => /\ i = <<>> /\ At(g, {"c", "F", "C"}) = {}
                                 /\ "TEACH_PROCESS" \notin r.pf /\ r.confirm = 0
  BY <1>1, <1>2, <1>4 DEF Queued
<1>14. Queued(R, K, q)
  <2>1. ASSUME NEW n \in At(j, {"D"}) PROVE j[n].k \in R.has
    <3>1. CASE n \in At(g, {"D"}) /\ j[n] = g[n]
      BY <1>2, <1>4, <3>1 DEF Queued
    <3>2. CASE n = Len(g) + 1 /\ j[n] \in M /\ j[n].t \in {"D"}
      BY <1>2, <3>2 DEF Message
    <3> QED BY <1>3, <2>1, <3>1, <3>2 DEF Sends
  <2>2. ASSUME local PROVE At(j, {"R"}) = {}
    <3>1. \A m \in M : m.t \notin {"R"}
      BY <2>2 DEF Message, Sound
    <3>2. At(g, {"R"}) = {}
      BY <1>2, <1>4, <2>2 DEF Queued
    <3> QED BY <1>9, <3>1, <3>2
  <2>3. ASSUME k.st0[q] = "GETSTATUS"
        PROVE  At(j, {"c", "F", "C"}) = {} /\ "TEACH_PROCESS" \notin R.pf /\ R.confirm = 0
    <3>1. \A m \in M : m.t \notin {"c", "F", "C"}
      BY <1>13, <2>3 DEF Message, Teaching
    <3> QED BY <1>5, <1>7, <1>9, <1>13, <2>3, <3>1
  <2> QED BY <1>1, <1>3, <1>4, <1>13, <2>1, <2>2, <2>3 DEF Queued
<1>15. Lessons(y, R, K, c, p)
  <2>1. ASSUME ~local, At(j, {"R"}) # {}
        PROVE  /\ Asked(R) /\ ~(k.st0[q] = "WAITMSG" /\ Teaching(y)) /\ At(i, {"F", "C"}) = {}
               /\ \A a, b \in At(j, {"R"}) : a = b
    <3>1. CASE At(g, {"R"}) # {}
      <4>1. /\ Asked(r) /\ ~(k.st0[q] = "WAITMSG" /\ Teaching(y)) /\ At(i, {"F", "C"}) = {}
            /\ \A a, b \in At(g, {"R"}) : a = b
        BY <1>1, <1>2, <1>4, <2>1, <3>1 DEF Lessons
      <4>2. \A m \in M : m.t \notin {"R"}
        BY <4>1 DEF Message, Asked
      <4> QED BY <1>7, <1>9, <4>1, <4>2
    <3>2. CASE At(g, {"R"}) = {}
      <4>1. PICK m \in M : m.t = "R"
        BY <1>11, <2>1, <3>2
      <4>2. "LEARN_ASSIGN" \in r.pf /\ "PROCESS" \notin r.flags /\ "PROCESS" \in R.flags
        BY <4>1 DEF Message
      <4>3. Asked(R) /\ ~Asked(r)
        BY <1>7, <4>2 DEF Asked
      <4> QED BY <1>1, <1>2, <1>4, <1>10, <2>1, <3>2, <4>3 DEF Lessons
    <3> QED BY <3>1, <3>2
  <2>2. ASSUME local, y.session = c, At(j, {"c"}) # {} PROVE Owed(y) \subseteq R.has
    <3>1. CASE At(g, {"c"}) # {}
      BY <1>1, <1>2, <1>4, <2>2, <3>1 DEF Lessons
    <3>2. CASE At(g, {"c"}) = {}
      <4>1. PICK m \in M : m.t = "c"
        BY <1>11, <2>2, <3>2
      <4>2. r.confirm > 0
        BY <4>1 DEF Message
      <4>3. k.st0[q] = "WAITMSG"
        BY <1>3, <1>13, <4>2
      <4> QED BY <1>1, <1>2, <2>2, <4>2, <4>3 DEF Lessons
    <3> QED BY <3>1, <3>2
  <2>3. ~local =>
          /\ k.st0[q] = "WAITMSG" /\ Teaching(y) => Asked(r) /\ At(i, {"F", "C"}) = {}
          /\ At(i, {"F", "C"}) # {} => Asked(r) /\ \A a, b \in At(i, {"F", "C"}) : a = b
    BY <1>1, <1>2, <1>4 DEF Lessons
  <2>4. R.confirm > 0 => r.confirm > 0
    BY <1>5
  <2>5. /\ k.st0[q] = "WAITMSG" => Progress(y, r.has \cup Told(i, Len(i) + 1))
        /\ y.session = c => \A n \in At(i, {"F", "C"}) : Owed(y) \subseteq r.has \cup Told(i, n)
        /\ local /\ y.session = c /\ k.st0[q] = "WAITMSG" /\ r.confirm > 0 => Owed(y) \subseteq r.has
    BY <1>1, <1>2, <1>4 DEF Lessons
  <2> QED BY <1>1, <1>2, <1>4, <1>7, <2>1, <2>2, <2>3, <2>4, <2>5 DEF Lessons
<1>16. Lessons(R, y, K, c, q)
  <2> DEFINE S == y.has \cup Told(g, Len(g) + 1)
             T == y.has \cup Told(j, Len(j) + 1)
  <2>1. Progress(r, S)
    BY <1>1, <1>2, <1>3, <1>4 DEF Lessons
  <2>2. Progress(R, T)
    BY <1>3, <2>1 DEF Sends
  <2>3. ASSUME NEW n \in At(j, {"F", "C"}) PROVE Owed(R) \subseteq y.has \cup Told(j, n)
    <3>1. Len(g) \in Nat /\ \A z \in Nat : z <= Len(g) + 1 => Told(g, z) \subseteq Told(j, z)
      BY <1>3 DEF Sends
    <3>2. CASE n \in At(g, {"F", "C"})
      <4>1. n \in Nat /\ n <= Len(g) + 1
        BY <1>3, <3>1, <3>2 DEF Sends
      <4>2. Owed(r) \subseteq y.has \cup Told(g, n)
        BY <1>2, <1>4, <3>2 DEF Lessons
      <4> QED BY <1>6, <3>1, <4>1, <4>2
    <3>3. CASE n = Len(g) + 1 /\ j[n] \in M /\ j[n].t \in {"F", "C"}
      <4>1. Owed(r) \subseteq S
        BY <2>1, <3>3 DEF Message
      <4>2. n \in Nat /\ n <= Len(g) + 1
        BY <3>1, <3>3
      <4>3. Told(g, n) \subseteq Told(j, n)
        BY <3>1, <4>2
      <4> QED BY <1>6, <3>3, <4>1, <4>3
    <3> QED BY <1>8, <3>2, <3>3
  <2> HIDE DEF S, T
  <2>4. \A m \in M : m.t \in {"F", "C"} => Teaching(r) /\ ~Teaching(R)
    BY DEF Message, Teaching
  <2>5. ASSUME ~local, k.st0[q] = "WAITMSG"
        PROVE  /\ At(i, {"R"}) # {} => /\ Asked(y) /\ ~Teaching(R) /\ At(j, {"F", "C"}) = {}
                                       /\ \A a, b \in At(i, {"R"}) : a = b
               /\ Teaching(R) => Asked(y) /\ At(j, {"F", "C"}) = {}
               /\ At(j, {"F", "C"}) # {} =>
                    Asked(y) /\ \A a, b \in At(j, {"F", "C"}) : a = b
    <3>1. /\ At(i, {"R"}) # {} => /\ Asked(y) /\ ~Teaching(r) /\ At(g, {"F", "C"}) = {}
                                  /\ \A a, b \in At(i, {"R"}) : a = b
          /\ Teaching(r) => Asked(y) /\ At(g, {"F", "C"}) = {}
          /\ At(g, {"F", "C"}) # {} =>
               Asked(y) /\ \A a, b \in At(g, {"F", "C"}) : a = b
      BY <1>1, <1>2, <1>4, <2>5 DEF Lessons
    <3>2. CASE \E m \in M : m.t \in {"F", "C"}
      <4>1. Teaching(r) /\ ~Teaching(R)
        BY <2>4, <3>2
      <4> QED BY <1>10, <3>1, <4>1
    <3>3. CASE \A m \in M : m.t \notin {"F", "C"}
      <4>1. At(j, {"F", "C"}) \subseteq At(g, {"F", "C"})
        BY <1>9, <3>3
      <4> QED BY <1>7, <3>1, <4>1
    <3> QED BY <3>2, <3>3
  <2>6. /\ local /\ At(i, {"c"}) # {} => Owed(r) \subseteq y.has
        /\ local /\ k.st0[q] = "WAITMSG" /\ y.confirm > 0 => Owed(r) \subseteq y.has
    BY <1>1, <1>2, <1>4 DEF Lessons
  <2>7. k.st0[p] = "WAITMSG"
    OBVIOUS
  <2> QED BY <1>1, <1>4, <1>6, <2>2, <2>3, <2>5, <2>6, <2>7 DEF Lessons, T
<1> QED BY <1>2, <1>12, <1>14, <1>15, <1>16 DEF Both, q

\* A session writes on a connection whose other end is over: nothing is sent.
LEMMA WriteOver ==
  ASSUME NEW p \in Procs, NEW r \in Process, NEW R, NEW y, NEW k, NEW c,
         Both(r, y, k, c, p), k.st0[p] = "WAITMSG", k.st0[Other(p)] = "END",
         Writes(r, R), Sound(r, p)
  PROVE  Both(R, y, k, c, p)
<1> DEFINE q == Other(p)
<1>1. q \in Procs /\ Other(q) = p /\ Other(p) = q
  BY OtherProc
<1> HIDE DEF q
<1>2. /\ Queued(y, k, p) /\ Queued(r, k, q)
      /\ Lessons(y, r, k, c, p) /\ Lessons(r, y, k, c, q)
      /\ k.st0[q] = "WAITMSG" => y.session = c
      /\ r.session = c /\ R.session = c /\ R.has = r.has
      /\ k.st0[p] = "WAITMSG" /\ k.st0[q] = "END"
  BY <1>1 DEF Both, Writes, Goes, Table
<1>3. Owed(R) = Owed(r)
  BY OwedSame DEF Writes, Goes
<1>4. /\ Asked(r) => Asked(R)
      /\ R.confirm > 0 => r.confirm > 0
  <2>1. "LEARN_ASSIGN" \in R.pf <=> "LEARN_ASSIGN" \in r.pf
    BY DEF Writes, Goes, SessionFlags, Learn
  <2>2. r.confirm \in Nat /\ R.confirm \in Nat /\ R.confirm <= r.confirm
    BY DEF Writes, Process
  <2> QED BY <2>1, <2>2 DEF Writes, Asked
<1>5. Queued(y, k, p) /\ Queued(R, k, q)
  BY <1>1, <1>2 DEF Queued
<1>6. Lessons(y, R, k, c, p)
  BY <1>1, <1>2, <1>4 DEF Lessons
<1>7. Lessons(R, y, k, c, q)
  BY <1>1, <1>2, <1>3 DEF Lessons
<1> QED BY <1>1, <1>2, <1>5, <1>6, <1>7 DEF Both

\* A message is written.
LEMMA WriteLesson ==
  ASSUME PeersInv, LessonInv, NEW c \in Conns, NEW p \in Procs, WriteMessage(c, p)
  PROVE  LessonInv'
<1> DEFINE q == Other(p)
           r == ps[p]
           y == ps[q]
           w == Put(Settled(r))
           R == Settled(w.r)
           M == {m \in Msg : w.m = <<m>>}
<1>1. q \in Procs /\ q # p /\ Other(q) = p
  BY OtherProc
<1>2. /\ r \in Process /\ Orderly(cn) /\ ps \in [Procs -> Process]
      /\ Sound(r, p) /\ Handed(r, y) /\ \A d \in Conns : Both(r, y, cn[d], d, p)
  BY Unpacked, Opened
<1>3. /\ cn[c].st0[p] = "WAITMSG" /\ ~cn[c].cut /\ local' = local
      /\ ps' = [ps EXCEPT ![p] = R]
      /\ cn' = IF cn[c].st0[q] = "END" THEN cn ELSE [cn EXCEPT ![c].in[q] = @ \o w.m]
  BY DEF WriteMessage
<1>4. cn[c] \in Connection /\ Handshake(cn[c]) /\ r.session = c
  BY <1>2, <1>3 DEF Orderly, Both
<1>5. /\ Writes(r, R)
      /\ w.m = <<>> \/ \E m \in Msg : w.m = <<m>> /\ Message(r, R, m)
      /\ \A S, T : Progress(r, S) /\ S \subseteq T
                   /\ (\A m \in Msg : w.m = <<m>> /\ m.t = "D" => m.k \in T)
                   => Progress(R, T)
  BY <1>2, WriteTells
<1> HIDE DEF r, y, w, R
<1>6. \/ w.m = <<>> /\ M = {}
      \/ \E m \in Msg : w.m = <<m>> /\ M = {m} /\ Message(r, R, m)
  <2>1. CASE w.m = <<>>
    BY <2>1
  <2>2. ASSUME NEW m \in Msg, w.m = <<m>>, Message(r, R, m)
        PROVE  M = {m}
    BY <2>2
  <2> QED BY <1>5, <2>1, <2>2
<1>7. \A m \in M : Message(r, R, m)
  BY <1>6
<1>8. \A S, T : Progress(r, S) /\ S \subseteq T /\ (\A m \in M : m.t = "D" => m.k \in T)
                => Progress(R, T)
  BY <1>5
<1> HIDE DEF M
<1>9. /\ R.session = r.session /\ R.has = r.has /\ R.stopping = r.stopping
       /\ ("TEACH_COMPLETE" \in R.pf <=> "TEACH_COMPLETE" \in r.pf)
       /\ ("LEARN_ASSIGN" \in R.pf <=> "LEARN_ASSIGN" \in r.pf)
  BY <1>5 DEF Writes, Goes, Table, SessionFlags, Learn
<1>10. Sound(R, p)
  BY <1>2, <1>5, <1>9 DEF Sound, Writes, Goes, Table, Staged
<1>11. Handed(R, y)
  BY <1>2, <1>4, <1>9, PeersAssumption DEF Handed
<1>12. ASSUME NEW d \in Conns, d # c PROVE Both(R, y, cn[d], d, p)
  BY <1>2, <1>4, <1>9, <1>12, BothElse
<1>13. CASE cn[c].st0[q] = "END"
  <2>1. cn' = cn
    BY <1>3, <1>13
  <2>2. Both(R, y, cn[c], c, p)
    BY <1>2, <1>3, <1>4, <1>5, <1>13, WriteOver
  <2> QED BY <1>2, <1>3, <1>9, <1>10, <1>11, <1>12, <2>1, <2>2, Closes DEF r, y
<1>14. CASE cn[c].st0[q] # "END"
  <2> DEFINE g == cn[c].in[q]
             j == g \o w.m
             k == [cn[c] EXCEPT !.in[q] = j]
  <2>1. cn' = [cn EXCEPT ![c] = k]
    BY <1>2, <1>3, <1>14 DEF Orderly
  <2>2. /\ k.st0 = cn[c].st0 /\ k.cut = cn[c].cut
        /\ k.in[p] = cn[c].in[p] /\ k.in[q] = j
    <3> DEFINE n == [cn[c].in EXCEPT ![q] = j]
    <3>1. n[q] = j /\ n[p] = cn[c].in[p]
      BY <1>1, <1>4 DEF Connection
    <3>2. k = [cn[c] EXCEPT !.in = n]
      BY <1>4 DEF Connection
    <3> HIDE DEF n, k, j
    <3>3. k.st0 = cn[c].st0 /\ k.cut = cn[c].cut /\ k.in = n
      BY <1>4, <3>2 DEF Connection
    <3> QED BY <3>1, <3>3
  <2> HIDE DEF k
  <2>3. Sends(g, j, M)
    <3>1. g \in Seq(Status \cup Msg)
      BY <1>1, <1>4 DEF Connection
    <3> HIDE DEF g
    <3> QED BY <1>6, <3>1, SendsTells
  <2>4. cn[c].st0[q] \in {"GETSTATUS", "WAITMSG"}
    <3>1. cn[c].client \in Procs
      BY <1>3, <1>4, NoConnType DEF Handshake, Connection
    <3>2. cn[c].st0[q] \in {"CONNECT", "ACCEPT", "GETSTATUS", "WAITMSG", "END"}
      BY <1>1, <1>4 DEF Connection
    <3>3. CASE cn[c].client = p
      BY <1>1, <1>3, <1>4, <1>14, <3>1, <3>3, OtherProc DEF Handshake
    <3>4. CASE cn[c].client = q
      BY <1>1, <1>3, <1>4, <1>14, <3>1, <3>2, <3>4, OtherProc DEF Handshake
    <3> QED BY <1>1, <3>1, <3>3, <3>4, OtherProc
  <2>5. Both(R, y, k, c, p)
    <3>1. /\ Both(r, y, cn[c], c, p)
          /\ cn[c].st0[Other(p)] \in {"GETSTATUS", "WAITMSG"}
          /\ Sends(cn[c].in[Other(p)], k.in[Other(p)], M)
      BY <1>2, <2>2, <2>3, <2>4
    <3> HIDE DEF q, g, j
    <3> QED BY <1>2, <1>3, <1>4, <1>5, <1>7, <1>8, <2>2, <3>1, WriteBoth
  <2>6. \A d \in Conns : Both(R, y, cn'[d], d, p)
    BY <1>2, <1>12, <2>1, <2>5 DEF Orderly
  <2> QED BY <1>2, <1>3, <1>9, <1>10, <1>11, <2>6, Closes DEF r, y
<1> QED BY <1>13, <1>14

\* Connections of E that have the clients they have in conn, if any.
Clients(conn, E) == \A d \in Conns : E[d].client \in {conn[d].client, None}

\* An end that is over leaves the client or frees the connection.
LEMMA EndedClients ==
  ASSUME NEW conn, Orderly(conn), NEW c \in Conns, NEW p \in Procs
  PROVE  Clients(conn, Ended(c, p, conn))
BY EndedKeeps DEF Clients

\* A session that is shut down does too.
LEMMA ShutdownClients ==
  ASSUME PeersInv, NEW p \in Procs
  PROVE  Clients(cn, ForceShutdown(p, cn)) /\ Orderly(ForceShutdown(p, cn))
<1>1. Orderly(cn) /\ ps[p].session \in Conns \cup {None}
  BY Unpacked DEF Process
<1>2. CASE ps[p].session = None
  BY <1>1, <1>2 DEF ForceShutdown, Clients
<1>3. CASE ps[p].session # None
  BY <1>1, <1>3, EndedClients, EndedKeeps DEF ForceShutdown
<1> QED BY <1>2, <1>3

\* The status line is sent, or the connection ended: neither makes a client.
LEMMA AcceptClients ==
  ASSUME PeersInv, NEW c \in Conns, Accept(c)
  PROVE  Clients(cn, cn')
<1> DEFINE p == Other(cn[c].client)
           E == ForceShutdown(p, cn)
           Says(code, conn) == [conn EXCEPT ![c].in[Other(p)] = Append(@, [t |-> code])]
<1>1. cn \in [Conns -> Connection] /\ cn[c].client # None
  BY DEF PeersInv, TypeOK, Accept
<1>2. p \in Procs
  BY <1>1, OtherProc DEF Connection
<1>3. Clients(cn, E) /\ E \in [Conns -> Connection]
  BY <1>2, ShutdownClients DEF Orderly
<1>4. \/ cn' = Ended(c, p, Says("TRYAGAIN", cn))
      \/ cn' = [Says("SUCCESS", E) EXCEPT ![c].st0[p] = "WAITMSG"]
  BY Zenon DEF Accept
<1> HIDE DEF p, E
<1>5. ASSUME NEW conn \in [Conns -> Connection], NEW code
      PROVE  \A d \in Conns : /\ Ended(c, p, Says(code, conn))[d].client \in {conn[d].client, None}
                              /\ [Says(code, conn) EXCEPT ![c].st0[p] = "WAITMSG"][d].client
                                    = conn[d].client
  <2> DEFINE G == Says(code, conn)
             a == [conn[c].in EXCEPT ![Other(p)] = Append(@, [t |-> code])]
             g == [conn[c] EXCEPT !.in = a]
  <2>1. G = [conn EXCEPT ![c] = g]
    OBVIOUS
  <2> HIDE DEF a
  <2>2. /\ g.client = conn[c].client
        /\ [g EXCEPT !.st0[p] = "WAITMSG"].client = conn[c].client
        /\ [g EXCEPT !.st0[p] = "END", !.in[p] = <<>>].client = conn[c].client
    BY DEF Connection
  <2> HIDE DEF g, G
  <2> DEFINE w == [g EXCEPT !.st0[p] = "WAITMSG"]
             e == [g EXCEPT !.st0[p] = "END", !.in[p] = <<>>]
             W == [G EXCEPT ![c].st0[p] = "WAITMSG"]
             F == Ended(c, p, G)
  <2>3. W = [G EXCEPT ![c] = w]
    BY <2>1
  <2>4. F = [G EXCEPT ![c] = NoConn] \/ F = [G EXCEPT ![c] = e]
    BY <2>1 DEF Ended
  <2>5. w.client = conn[c].client /\ e.client = conn[c].client
    BY <2>2
  <2> HIDE DEF w, e, W, F
  <2>6. \A d \in Conns : W[d].client = conn[d].client
    <3>1. W = [conn EXCEPT ![c] = w]
      BY <2>1, <2>3
    <3> QED BY <2>5, <3>1
  <2>7. \A d \in Conns : F[d].client \in {conn[d].client, None}
    <3>1. F = [conn EXCEPT ![c] = NoConn] \/ F = [conn EXCEPT ![c] = e]
      BY <2>1, <2>4
    <3> QED BY <2>5, <3>1, NoConnType
  <2> QED BY <2>6, <2>7 DEF G, W, F
<1>6. CASE cn' = Ended(c, p, Says("TRYAGAIN", cn))
  BY <1>1, <1>5, <1>6 DEF Clients
<1>7. CASE cn' = [Says("SUCCESS", E) EXCEPT ![c].st0[p] = "WAITMSG"]
  BY <1>3, <1>5, <1>7 DEF Clients
<1> QED BY <1>4, <1>6, <1>7

\* Only the sync task connects: with a remote peer, or when the old process stops.
LEMMA OneWayStep ==
  ASSUME PeersInv, LessonInv, OneWay, [Next]_vars
  PROVE  OneWay'
<1>1. Orderly(cn) /\ None # New
  <2>1. Old \in Procs
    BY DEF Procs
  <2> QED BY <2>1, Unpacked, PeersAssumption
<1>2. Clients(cn, cn)
  BY DEF Clients
<1>3. ASSUME Clients(cn, cn'), local' = local PROVE OneWay'
  BY <1>1, <1>3 DEF OneWay, Clients
<1>4. ASSUME cn' = cn, local' = local PROVE OneWay'
  BY <1>2, <1>3, <1>4
<1>5. ASSUME NEW p \in Procs, NEW c \in Conns, cn' = Ended(c, p, cn), local' = local PROVE OneWay'
  BY <1>1, <1>3, <1>5, EndedClients
<1>6. ASSUME NEW c \in Conns, NEW k, k.client = cn[c].client, cn' = [cn EXCEPT ![c] = k],
             local' = local
      PROVE  OneWay'
  BY <1>1, <1>3, <1>6 DEF Clients, Orderly
<1>7. ASSUME NEW p \in Procs, SyncRunning(p) PROVE OneWay'
  <2>1. local' = local /\ (local => cn' = cn)
    BY <1>7, Zenon DEF SyncRunning
  <2> QED BY <1>4, <2>1 DEF OneWay
<1>8. ASSUME NEW p \in Procs, SyncStopping(p) PROVE OneWay'
  <2> DEFINE cn1 == IF ps[p].signal THEN ForceShutdown(p, cn) ELSE cn
             f == FreeOne(cn1)
  <2>1. /\ local' = local /\ ps[p].stopping
        /\ cn' = cn1 \/ (Free(cn1) # {} /\ cn' = Created(cn1, p, f))
    BY <1>8, Zenon DEF SyncStopping
  <2>2. local /\ p = Old
    BY <2>1, Opened DEF Sound
  <2>3. Clients(cn, cn1) /\ Orderly(cn1)
    BY <1>1, <1>2, ShutdownClients
  <2> HIDE DEF cn1
  <2>4. CASE cn' = cn1
    BY <1>3, <2>1, <2>3, <2>4
  <2>5. CASE Free(cn1) # {} /\ cn' = Created(cn1, p, f)
    <3>1. f \in Conns
      BY <2>5, FreeOneFree
    <3> HIDE DEF f
    <3>2. cn'[f].client = Old /\ \A d \in Conns : d # f => cn'[d] = cn1[d]
      BY <2>2, <2>3, <2>5, <3>1, CreatedKeeps
    <3> QED BY <1>1, <2>1, <2>2, <2>3, <3>2, PeersAssumption DEF OneWay, Clients
  <2> QED BY <2>1, <2>4, <2>5
<1>9. ASSUME NEW c \in Conns, Connects(c) PROVE OneWay'
  <2> DEFINE k == [cn[c] EXCEPT !.st0 = [q \in Procs |-> IF q = cn[c].client THEN "GETSTATUS"
                                                         ELSE "ACCEPT"]]
  <2>1. cn' = [cn EXCEPT ![c] = k] /\ local' = local
    BY <1>1, <1>9 DEF Connects, Orderly
  <2>2. k.client = cn[c].client
    BY <1>1 DEF Orderly, Connection
  <2> HIDE DEF k
  <2> QED BY <1>6, <2>1, <2>2
<1>10. ASSUME NEW c \in Conns, ConnectFails(c) PROVE OneWay'
  <2>1. cn' = Ended(c, cn[c].client, cn) /\ local' = local /\ cn[c].client \in Procs
    BY <1>1, <1>10 DEF ConnectFails, Orderly, Connection
  <2> QED BY <1>5, <2>1
<1>11. ASSUME NEW c \in Conns, Accept(c) PROVE OneWay'
  BY <1>3, <1>11, AcceptClients DEF Accept
<1>12. ASSUME NEW c \in Conns, GetStatus(c) PROVE OneWay'
  <2> DEFINE p == cn[c].client
             st == [cn[c].st0 EXCEPT ![p] = "WAITMSG"]
             i == [cn[c].in EXCEPT ![p] = Tail(@)]
             k == [cn[c] EXCEPT !.st0 = st, !.in = i]
  <2>1. /\ local' = local /\ p \in Procs
        /\ \/ cn' = [cn EXCEPT ![c].st0[p] = "WAITMSG", ![c].in[p] = Tail(@)]
           \/ cn' = Ended(c, p, cn)
    BY <1>1, <1>12 DEF GetStatus, Orderly, Connection
  <2>2. k.client = cn[c].client
    BY <1>1 DEF Orderly, Connection
  <2>3. CASE cn' = [cn EXCEPT ![c].st0[p] = "WAITMSG", ![c].in[p] = Tail(@)]
    <3>1. cn' = [cn EXCEPT ![c] = k]
      BY <1>1, <2>3 DEF Orderly, Connection
    <3> HIDE DEF k
    <3> QED BY <1>6, <2>1, <2>2, <3>1
  <2> QED BY <1>5, <2>1, <2>3
<1>13. ASSUME NEW c \in Conns, NEW p \in Procs, ReadMessage(c, p) PROVE OneWay'
  <2> DEFINE i == [cn[c].in EXCEPT ![p] = Tail(@)]
             k == [cn[c] EXCEPT !.in = i]
  <2>1. /\ local' = local
        /\ cn' = [cn EXCEPT ![c].in[p] = Tail(@)] \/ cn' = Ended(c, p, cn)
    BY <1>13 DEF ReadMessage
  <2>2. k.client = cn[c].client
    BY <1>1 DEF Orderly, Connection
  <2>3. CASE cn' = [cn EXCEPT ![c].in[p] = Tail(@)]
    <3>1. cn' = [cn EXCEPT ![c] = k]
      BY <1>1, <2>3 DEF Orderly, Connection
    <3> HIDE DEF k
    <3> QED BY <1>6, <2>1, <2>2, <3>1
  <2> QED BY <1>5, <2>1, <2>3
<1>14. ASSUME NEW c \in Conns, NEW p \in Procs, WriteMessage(c, p) PROVE OneWay'
  <2> DEFINE w == Put(Settled(ps[p]))
             q == Other(p)
             i == [cn[c].in EXCEPT ![q] = @ \o w.m]
             k == [cn[c] EXCEPT !.in = i]
  <2>1. /\ local' = local
        /\ cn' = cn \/ cn' = [cn EXCEPT ![c].in[q] = @ \o w.m]
    BY <1>14, Zenon DEF WriteMessage
  <2> HIDE DEF w
  <2>2. k.client = cn[c].client
    BY <1>1 DEF Orderly, Connection
  <2>3. CASE cn' = [cn EXCEPT ![c].in[q] = @ \o w.m]
    <3>1. cn' = [cn EXCEPT ![c] = k]
      BY <1>1, <2>3 DEF Orderly, Connection
    <3> HIDE DEF k
    <3> QED BY <1>6, <2>1, <2>2, <3>1
  <2> QED BY <1>4, <2>1, <2>3
<1>15. ASSUME NEW c \in Conns, NEW p \in Procs, Closed(c, p) PROVE OneWay'
  BY <1>5, <1>15 DEF Closed
<1>16. ASSUME NEW c \in Conns, Cut(c) PROVE OneWay'
  <2> DEFINE k == [cn[c] EXCEPT !.cut = TRUE, !.in = [p \in Procs |-> <<>>]]
  <2>1. cn' = [cn EXCEPT ![c] = k] /\ local' = local
    BY <1>1, <1>16 DEF Cut, Orderly
  <2>2. k.client = cn[c].client
    BY <1>1 DEF Orderly, Connection
  <2> HIDE DEF k
  <2> QED BY <1>6, <2>1, <2>2
<1>17. CASE \/ \E p \in Procs : \/ \E t \in {"resync", "reconnect"} : Expires(p, t)
                                \/ \E k \in Touched : StktableTouch(p, k)
            \/ SoftStop \/ UNCHANGED vars
  <2>1. cn' = cn /\ local' = local
    BY <1>17 DEF Expires, StktableTouch, SoftStop, vars
  <2> QED BY <1>4, <2>1
<1> QED BY <1>7, <1>8, <1>9, <1>10, <1>11, <1>12, <1>13, <1>14, <1>15, <1>16, <1>17
        DEF Next, Task, Io

-----------------------------------------------------------------------------

\* At the start nothing is taught, and no connection exists.
LEMMA InitLesson == Init => LessonInv /\ OneWay
<1> SUFFICES ASSUME Init PROVE LessonInv /\ OneWay
  OBVIOUS
<1> DEFINE Fresh(r) ==
      /\ \A k \in Keys : r.upd[k] > 0 => k \in r.has
      /\ \A j, k \in Keys : r.upd[j] = r.upd[k] => j = k \/ r.upd[j] = 0
      /\ r.origin = 0 /\ r.update \in Nat /\ r.pf = {} /\ ~r.stopping
<1>1. ASSUME NEW upd \in [Keys -> Nat],
             \A j, k \in Keys : upd[j] = upd[k] => j = k \/ upd[j] = 0
      PROVE  Fresh(Registered(upd))
  <2>1. Registered(upd) \in Process
    BY RegisteredType
  <2>2. /\ Registered(upd).upd = upd /\ Registered(upd).has = {k \in Keys : upd[k] > 0}
        /\ Registered(upd).origin = 0 /\ Registered(upd).pf = {} /\ ~Registered(upd).stopping
    BY DEF Registered
  <2> QED BY <1>1, <2>1, <2>2 DEF Process
<1> DEFINE zero == [k \in Keys |-> 0]
           g == Registered(OldUpdates)
<1>2. Fresh(g) /\ Fresh(Registered(zero)) /\ g \in Process
  <2>1. zero \in [Keys -> Nat] /\ \A k \in Keys : zero[k] = 0
    OBVIOUS
  <2> HIDE DEF zero, Fresh
  <2> QED BY <1>1, <2>1, RegisteredType, PeersAssumption
<1>3. PICK f \in {{"LOCAL"}, {"LOCAL", "REMOTE"}} :
        ps = [p \in Procs |-> IF p = Old THEN [g EXCEPT !.flags = f] ELSE Registered(zero)]
  BY DEF Init
<1> DEFINE h == [g EXCEPT !.flags = f]
<1> HIDE DEF g, zero
<1>4. Fresh(h)
  BY <1>2 DEF Process
<1> HIDE DEF h
<1>5. \A p \in Procs : Fresh(ps[p])
  <2> HIDE DEF Fresh
  <2> QED BY <1>2, <1>3, <1>4 DEF h
<1>6. \A c \in Conns : cn[c] = NoConn
  BY DEF Init
<1>7. OneWay
  BY <1>6, NoConnType, PeersAssumption DEF OneWay
<1>8. ASSUME NEW p \in Procs
      PROVE  /\ Sound(ps[p], p) /\ Handed(ps[Other(p)], ps[p])
             /\ \A c \in Conns : Both(ps[p], ps[Other(p)], cn[c], c, p)
  <2>1. Other(p) \in Procs
    BY OtherProc
  <2>2. Sound(ps[p], p)
    BY <1>5 DEF Sound
  <2>3. Handed(ps[Other(p)], ps[p])
    BY <1>5, <2>1 DEF Handed
  <2>4. ASSUME NEW c \in Conns PROVE Both(ps[p], ps[Other(p)], cn[c], c, p)
    <3>1. \A e \in Procs : /\ cn[c].st0[e] # "WAITMSG"
                           /\ At(cn[c].in[e], {"D", "R", "F", "C", "c"}) = {}
                           /\ cn[c].st0[e] = "GETSTATUS" => cn[c].in[Other(e)] = <<>>
      BY <1>6, NoConnType, EmptyTells
    <3> QED BY <3>1, BothSilent
  <2> QED BY <2>2, <2>3, <2>4
<1> HIDE DEF Fresh
<1> QED BY <1>7, <1>8 DEF LessonInv, Both

\* Every step keeps what is known of the lessons.
LEMMA LessonStep == PeersInv /\ LessonInv /\ OneWay /\ [Next]_vars => LessonInv'
<1> SUFFICES ASSUME PeersInv, LessonInv, OneWay, [Next]_vars PROVE LessonInv'
  OBVIOUS
<1>1. ASSUME NEW p \in Procs, NEW k \in Touched, StktableTouch(p, k) PROVE LessonInv'
  BY <1>1, TouchLesson, PeersAssumption
<1>2. ASSUME NEW p \in Procs, NEW t \in {"resync", "reconnect"}, Expires(p, t)
      PROVE LessonInv'
  BY <1>2, ExpiresLesson
<1>3. ASSUME NEW p \in Procs, SyncRunning(p) PROVE LessonInv'
  BY <1>3, SyncRunningLesson
<1>4. ASSUME NEW p \in Procs, SyncStopping(p) PROVE LessonInv'
  BY <1>4, SyncStoppingLesson
<1>5. CASE SoftStop
  BY <1>5, SoftStopLesson
<1>6. ASSUME NEW c \in Conns, Connects(c) PROVE LessonInv'
  BY <1>6, ConnectsLesson
<1>7. ASSUME NEW c \in Conns, ConnectFails(c) PROVE LessonInv'
  BY <1>7, ConnectFailsLesson
<1>8. ASSUME NEW c \in Conns, Accept(c) PROVE LessonInv'
  BY <1>8, AcceptLesson
<1>9. ASSUME NEW c \in Conns, GetStatus(c) PROVE LessonInv'
  BY <1>9, GetStatusLesson
<1>10. ASSUME NEW c \in Conns, NEW p \in Procs, ReadMessage(c, p) PROVE LessonInv'
  BY <1>10, ReadLesson
<1>11. ASSUME NEW c \in Conns, NEW p \in Procs, WriteMessage(c, p) PROVE LessonInv'
  BY <1>11, WriteLesson
<1>12. ASSUME NEW c \in Conns, NEW p \in Procs, Closed(c, p) PROVE LessonInv'
  BY <1>12, ClosedLesson
<1>13. ASSUME NEW c \in Conns, Cut(c) PROVE LessonInv'
  BY <1>13, CutLesson
<1>14. CASE UNCHANGED vars
  <2>1. Old \in Procs /\ ps \in [Procs -> Process]
    BY Unpacked DEF Procs
  <2>2. /\ Sound(ps[Old], Old) /\ Handed(ps[Old], ps[Other(Old)])
        /\ \A c \in Conns : Both(ps[Old], ps[Other(Old)], cn[c], c, Old)
    BY <2>1, Opened
  <2>3. ps' = [ps EXCEPT ![Old] = ps[Old]] /\ cn' = cn /\ local' = local
    BY <1>14, <2>1 DEF vars
  <2> QED BY <2>1, <2>2, <2>3, Closes
<1> QED BY <1>1, <1>2, <1>3, <1>4, <1>5, <1>6, <1>7, <1>8, <1>9, <1>10, <1>11, <1>12,
           <1>13, <1>14 DEF Next, Task, Io

\* The three invariants hold together of every behaviour.
LEMMA LessonAlways == Spec => [](PeersInv /\ LessonInv /\ OneWay)
  BY InitInv, InitLesson, PeersStep, LessonStep, OneWayStep, PTL DEF Spec

\* What was stored in the tree and not updated since is owed.
LEMMA SubjectOwed ==
  ASSUME PeersInv, NEW p \in Procs
  PROVE  Subject(ps[p]) \subseteq Owed(ps[p])
<1>1. ps[p] \in Process
  BY Unpacked
<1> QED BY <1>1 DEF Process, Subject, Owed

(***************************************************************************)
(* Whatever the tables hold, and in every interleaving of the two          *)
(* processes with updates, timeouts and connections that are cut, fail or  *)
(* are replaced: a learner that reads the end of a lesson ('F' or 'C',     *)
(* peer_io_handler()) has every entry that was in the teacher's tree when  *)
(* the lesson began and was not updated since.                             *)
(***************************************************************************)
THEOREM LessonSafety == Spec => []LessonComplete
<1>1. PeersInv /\ LessonInv => LessonComplete
  <2> SUFFICES ASSUME PeersInv, LessonInv, NEW c \in Conns, NEW p \in Procs,
                      cn[c].st0[p] = "WAITMSG", cn[c].in[p] # <<>>,
                      Head(cn[c].in[p]).t \in {"F", "C"}, ps[Other(p)].session = c
               PROVE  Subject(ps[Other(p)]) \subseteq ps[p].has
    BY DEF LessonComplete
  <2> DEFINE i == cn[c].in[p]
  <2>1. Lessons(ps[Other(p)], ps[p], cn[c], c, p) /\ Other(p) \in Procs
    BY OtherProc DEF LessonInv
  <2>2. i \in Seq(Status \cup Msg)
    BY DEF PeersInv, TypeOK, Connection
  <2>3. i # <<>> /\ Head(i).t \in {"F", "C"}
    OBVIOUS
  <2>4. \A n \in At(i, {"F", "C"}) : Owed(ps[Other(p)]) \subseteq ps[p].has \cup Told(i, n)
    BY <2>1 DEF Lessons
  <2> HIDE DEF i
  <2>5. (\A ts : Head(i).t \in ts => 1 \in At(i, ts)) /\ Told(i, 1) = {}
    BY <2>2, <2>3, TailTells
  <2>6. 1 \in At(i, {"F", "C"})
    BY <2>3, <2>5
  <2>7. Owed(ps[Other(p)]) \subseteq ps[p].has
    BY <2>4, <2>5, <2>6
  <2> QED BY <2>1, <2>7, SubjectOwed
<1> QED BY <1>1, LessonAlways, PTL

(***************************************************************************)
(* The process that is replaced counts its lesson as given, and may leave, *)
(* only when the process that replaces it has every entry that was in the  *)
(* tree when the lesson began and was not updated since.                   *)
(***************************************************************************)
THEOREM HandoverSafety == Spec => []HandoverComplete
<1>1. PeersInv /\ LessonInv => HandoverComplete
  <2> SUFFICES ASSUME PeersInv, LessonInv, "TEACH_COMPLETE" \in ps[Old].pf
               PROVE  Subject(ps[Old]) \subseteq ps[New].has
    BY DEF HandoverComplete
  <2>1. Old \in Procs /\ Other(Old) = New
    BY DEF Procs, Other
  <2>2. Owed(ps[Old]) \subseteq ps[New].has
    BY <2>1, Opened DEF Handed
  <2> QED BY <2>1, <2>2, SubjectOwed
<1> QED BY <1>1, LessonAlways, PTL
=============================================================================
