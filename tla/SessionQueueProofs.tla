------------------------- MODULE SessionQueueProofs -------------------------
(***************************************************************************)
(* Proofs about the queues and slots of a backend: for any number of       *)
(* sessions and servers, any limits and options and any changes of the     *)
(* servers' states, every counter is right, no server has more than its    *)
(* maxconn connections, and nobody waits unseen.                           *)
(***************************************************************************)
EXTENDS SessionQueue, FiniteSetTheorems, WellFoundedInduction, SequenceTheorems, TLAPS

(* Sets, numbers and sequences.                                            *)

\* Two sets of sessions that differ at most in s.
LEMMA CountStep ==
  ASSUME NEW A \in SUBSET Sessions, NEW B \in SUBSET Sessions, NEW s \in Sessions,
         \A t \in Sessions : t # s => (t \in A <=> t \in B)
  PROVE  /\ Cardinality(A) \in Nat /\ Cardinality(B) \in Nat
         /\ Cardinality(B) = Cardinality(A) + (IF s \in B THEN 1 ELSE 0)
                                            - (IF s \in A THEN 1 ELSE 0)
<1>1. IsFiniteSet(A) /\ IsFiniteSet(B)
  BY QueueAssumption, FS_Subset
<1>2. Cardinality(A) \in Nat /\ Cardinality(B) \in Nat
  BY <1>1, FS_CardinalityType
<1>3. CASE s \in A /\ s \notin B
  <2>1. B = A \ {s}
    BY <1>3
  <2> QED BY <1>1, <1>2, <1>3, <2>1, FS_RemoveElement
<1>4. CASE s \notin A /\ s \in B
  <2>1. B = A \cup {s}
    BY <1>4
  <2> QED BY <1>1, <1>2, <1>4, <2>1, FS_AddElement
<1>5. CASE (s \in A) <=> (s \in B)
  <2>1. A = B
    BY <1>5
  <2> QED BY <1>2, <2>1
<1> QED BY <1>2, <1>3, <1>4, <1>5

\* A share of maxconn is at most maxconn.
LEMMA ShareBound ==
  ASSUME NEW n \in Int, NEW m \in Nat, NEW f \in Nat \ {0}, n < f
  PROVE  (n * m) \div f \in Int /\ (n * m) \div f <= m
<1> DEFINE k == (n * m) \div f
<1>1. k \in Int /\ f * k <= n * m
  OBVIOUS
<1>2. n * m <= f * m
  OBVIOUS
<1>3. f * k <= f * m
  BY <1>1, <1>2
<1> HIDE DEF k
<1>4. k <= m
  BY <1>1, <1>3
<1> QED BY <1>1, <1>4 DEF k

\* The limit a server applies is at most its maxconn.
LEMMA DynamicBound ==
  ASSUME NEW b \in Ledgers, NEW v \in Servers
  PROVE  /\ SrvDynamicMaxconn(b, v) \in Int /\ SrvDynamicMaxconn(b, v) <= MaxConn[v]
         /\ SrvDynamicMaxconn(b, v) >= 1
<1>1. /\ MaxConn[v] \in Nat /\ MinConn[v] \in Nat /\ MinConn[v] <= MaxConn[v]
      /\ MinConn[v] >= 1 /\ FullConn \in Nat \ {0}
  BY QueueAssumption
<1>2. b.beconn \in Int
  BY DEF Ledgers
<1>3. CASE b.beconn >= FullConn \/ MinConn[v] = MaxConn[v]
  BY <1>1, <1>3 DEF SrvDynamicMaxconn
<1>4. CASE ~(b.beconn >= FullConn \/ MinConn[v] = MaxConn[v])
  <2> DEFINE k == (b.beconn * MaxConn[v]) \div FullConn
             n == MinConn[v]
  <2>1. k \in Int /\ k <= MaxConn[v]
    BY <1>1, <1>2, <1>4, ShareBound
  <2>2. SrvDynamicMaxconn(b, v) = Max({n, k})
    BY <1>4 DEF SrvDynamicMaxconn
  <2> HIDE DEF k
  <2>3. Max({n, k}) \in {n, k} /\ Max({n, k}) >= n
    <3>1. n \in Int
      BY <1>1
    <3>2. \E x \in {n, k} : \A y \in {n, k} : x >= y
      <4>1. CASE n >= k
        BY <2>1, <3>1, <4>1
      <4>2. CASE k >= n
        BY <2>1, <3>1, <4>2
      <4> QED BY <2>1, <3>1, <4>1, <4>2
    <3> QED BY <3>2 DEF Max
  <2> QED BY <1>1, <2>1, <2>2, <2>3
<1> QED BY <1>3, <1>4

\* A nonempty set of numbers has a least member, and Min gives it.
LEMMA LeastIsMin ==
  ASSUME NEW S \in SUBSET Nat, S # {}
  PROVE  Min(S) \in S /\ \A y \in S : Min(S) <= y
<1>1. PICK x \in S : \A y \in S : <<y, x>> \notin OpToRel(<, Nat)
  BY NatLessThanWellFounded, WFMin
<1>2. \A y \in S : ~(y < x)
  BY <1>1 DEF OpToRel
<1>3. \A y \in S : x <= y
  BY <1>2
<1> QED BY <1>3 DEF Min

\* The members of a sequence.
LEMMA InSeq ==
  ASSUME NEW S, NEW s \in Seq(S), NEW x
  PROVE  x \in Range(s) <=> \E j \in 1..Len(s) : s[j] = x
  BY DEF Range

\* An element taken out of a sequence.
LEMMA RemoveAtIs ==
  ASSUME NEW S, NEW s \in Seq(S), NEW i \in 1..Len(s)
  PROVE  /\ RemoveAt(s, i) \in Seq(S) /\ Len(RemoveAt(s, i)) = Len(s) - 1
         /\ \A j \in 1..(Len(s) - 1) : RemoveAt(s, i)[j] = IF j < i THEN s[j] ELSE s[j + 1]
<1> DEFINE a == SubSeq(s, 1, i - 1)
           b == SubSeq(s, i + 1, Len(s))
<1>1. /\ a \in Seq(S) /\ Len(a) = i - 1 /\ \A j \in 1..(i - 1) : a[j] = s[j]
  BY SubSeqProperties
<1>2. /\ b \in Seq(S) /\ Len(b) = Len(s) - i
      /\ \A j \in 1..(Len(s) - i) : b[j] = s[j + i]
  BY SubSeqProperties
<1> HIDE DEF a, b
<1> DEFINE d == a \o b
<1>3. /\ d \in Seq(S) /\ Len(d) = Len(s) - 1
      /\ \A j \in 1..(Len(s) - 1) : d[j] = IF j <= i - 1 THEN a[j] ELSE b[j - (i - 1)]
  <2>1. d \in Seq(S) /\ Len(d) = Len(a) + Len(b)
    BY <1>1, <1>2, ConcatProperties
  <2>2. \A j \in 1..(Len(a) + Len(b)) : d[j] = IF j <= Len(a) THEN a[j] ELSE b[j - Len(a)]
    BY <1>1, <1>2, ConcatProperties
  <2>3. Len(a) + Len(b) = Len(s) - 1 /\ Len(a) = i - 1
    <3>1. Len(s) \in Nat /\ i \in Nat
      OBVIOUS
    <3> QED BY <1>1, <1>2, <3>1
  <2> QED BY <2>1, <2>2, <2>3
<1>4. d = RemoveAt(s, i)
  BY DEF d, a, b, RemoveAt
<1> HIDE DEF d
<1>5. ASSUME NEW j \in 1..(Len(s) - 1)
      PROVE  d[j] = IF j < i THEN s[j] ELSE s[j + 1]
  <2> DEFINE n == Len(s)
  <2>1. n \in Nat /\ i \in 1..n /\ j \in 1..(n - 1)
    OBVIOUS
  <2>2. d[j] = IF j <= i - 1 THEN a[j] ELSE b[j - (i - 1)]
    BY <1>3
  <2>3. /\ j \in 1..(i - 1) => a[j] = s[j]
        /\ j - (i - 1) \in 1..(n - i) => b[j - (i - 1)] = s[(j - (i - 1)) + i]
    BY <1>1, <1>2
  <2> HIDE DEF n
  <2>4. CASE j < i
    <3>1. j \in 1..(i - 1) /\ j <= i - 1
      BY <2>1, <2>4
    <3> QED BY <2>2, <2>3, <2>4, <3>1
  <2>5. CASE ~(j < i)
    <3>1. ~(j <= i - 1) /\ j - (i - 1) \in 1..(n - i) /\ (j - (i - 1)) + i = j + 1
      BY <2>1, <2>5
    <3> QED BY <2>2, <2>3, <2>5, <3>1
  <2> QED BY <2>4, <2>5
<1> QED BY <1>3, <1>4, <1>5

\* Where a member of a queue is.
LEMMA PlaceOf ==
  ASSUME NEW S, NEW l \in Seq(S), NEW t \in Range(l)
  PROVE  SelectInSeq(l, LAMBDA u : u = t) \in 1..Len(l) /\ l[SelectInSeq(l, LAMBDA u : u = t)] = t
<1> DEFINE I == {i \in 1..Len(l) : l[i] = t}
<1>1. I \in SUBSET Nat /\ I # {}
  BY DEF Range
<1>2. SelectInSeq(l, LAMBDA u : u = t) = Min(I)
  BY <1>1 DEF SelectInSeq
<1> QED BY <1>1, <1>2, LeastIsMin

\* A session that leaves a queue.
LEMMA RemoveIn ==
  ASSUME NEW S, NEW l \in Seq(S), IsInjective(l), NEW t
  PROVE  LET r == RemoveFirst(l, t)
         IN  /\ r \in Seq(S) /\ IsInjective(r) /\ Range(r) = Range(l) \ {t}
             /\ t \in Range(l) => Len(r) = Len(l) - 1
             /\ t \notin Range(l) => r = l
<1>1. CASE t \notin Range(l)
  <2>1. RemoveFirst(l, t) = l
    BY <1>1 DEF RemoveFirst, Range
  <2> QED BY <1>1, <2>1
<1>2. CASE t \in Range(l)
  <2> DEFINE i == SelectInSeq(l, LAMBDA u : u = t)
             r == RemoveAt(l, i)
  <2>1. i \in 1..Len(l) /\ l[i] = t
    BY <1>2, PlaceOf
  <2>2. RemoveFirst(l, t) = r
    BY <1>2 DEF RemoveFirst, Range
  <2> HIDE DEF i
  <2>3. /\ r \in Seq(S) /\ Len(r) = Len(l) - 1
        /\ \A j \in 1..(Len(l) - 1) : r[j] = IF j < i THEN l[j] ELSE l[j + 1]
    BY <2>1, RemoveAtIs
  <2> HIDE DEF r
  <2>4. \A x, y \in 1..Len(l) : l[x] = l[y] => x = y
    BY DEF IsInjective
  <2>5. DOMAIN r = 1..(Len(l) - 1)
    BY <2>3
  <2>6. IsInjective(r)
    <3> SUFFICES ASSUME NEW x \in 1..(Len(l) - 1), NEW y \in 1..(Len(l) - 1), r[x] = r[y], x < y
                 PROVE  FALSE
      BY <2>5 DEF IsInjective
    <3>1. x \in 1..Len(l) /\ y \in 1..Len(l) /\ x + 1 \in 1..Len(l) /\ y + 1 \in 1..Len(l)
      OBVIOUS
    <3>2. CASE y < i
      BY <2>1, <2>3, <2>4, <3>1, <3>2
    <3>3. CASE y >= i /\ x < i
      BY <2>1, <2>3, <2>4, <3>1, <3>3
    <3>4. CASE x >= i
      BY <2>1, <2>3, <2>4, <3>1, <3>4
    <3> QED BY <2>1, <3>2, <3>3, <3>4
  <2>7. Range(r) = Range(l) \ {t}
    <3>1. ASSUME NEW x \in 1..(Len(l) - 1) PROVE r[x] \in Range(l) \ {t}
      <4>1. x \in 1..Len(l) /\ x + 1 \in 1..Len(l)
        OBVIOUS
      <4>2. CASE x < i
        <5>1. r[x] = l[x] /\ x # i
          BY <2>1, <2>3, <4>2
        <5> QED BY <2>1, <2>4, <4>1, <5>1, InSeq
      <4>3. CASE x >= i
        <5>1. r[x] = l[x + 1] /\ x + 1 # i
          BY <2>1, <2>3, <4>3
        <5> QED BY <2>1, <2>4, <4>1, <5>1, InSeq
      <4> QED BY <2>1, <4>2, <4>3
    <3>2. ASSUME NEW x \in 1..Len(l), l[x] # t PROVE \E j \in 1..(Len(l) - 1) : r[j] = l[x]
      <4>1. CASE x < i
        BY <2>1, <2>3, <4>1
      <4>2. CASE x > i
        <5>1. x - 1 \in 1..(Len(l) - 1) /\ r[x - 1] = l[x]
          BY <2>1, <2>3, <4>2
        <5> QED BY <5>1
      <4> QED BY <2>1, <3>2, <4>1, <4>2
    <3>3. ASSUME NEW x PROVE x \in Range(r) <=> x \in Range(l) \ {t}
      <4>1. x \in Range(r) <=> \E j \in 1..(Len(l) - 1) : r[j] = x
        BY <2>3, InSeq
      <4>2. x \in Range(l) <=> \E j \in 1..Len(l) : l[j] = x
        BY InSeq
      <4> QED BY <3>1, <3>2, <4>1, <4>2
    <3> QED BY <3>3
  <2> QED BY <1>2, <2>2, <2>3, <2>6, <2>7
<1> QED BY <1>1, <1>2

-----------------------------------------------------------------------------
(* The ledger.                                                             *)

\* The fields of a session are as they were, and its task is no less woken.
Same(b, c, t) ==
  /\ c.slot[t] = b.slot[t] /\ c.target[t] = b.target[t] /\ c.assigned[t] = b.assigned[t]
  /\ c.psrv[t] = b.psrv[t] /\ c.cur[t] = b.cur[t] /\ (t \in b.woken => t \in c.woken)

\* Nothing changes but one session and the counters of its servers.
LEMMA OneSession ==
  ASSUME NEW b, Booked(b), NEW c \in Ledgers, NEW s \in Sessions,
         c.queue = b.queue, c.nbpend = b.nbpend, c.psrv = b.psrv,
         \A t \in Sessions : t # s => /\ c.slot[t] = b.slot[t] /\ c.target[t] = b.target[t]
                                      /\ c.assigned[t] = b.assigned[t] /\ c.cur[t] = b.cur[t],
         \A v \in Servers : c.served[v] = b.served[v] + (IF c.slot[s] = v THEN 1 ELSE 0)
                                                      - (IF b.slot[s] = v THEN 1 ELSE 0),
         \A v \in Servers : c.served[v] <= MaxConn[v],
         \A v \in Servers :
            c.curSess[v] = b.curSess[v] + (IF c.cur[s] /\ c.target[s] = v THEN 1 ELSE 0)
                                        - (IF b.cur[s] /\ b.target[s] = v THEN 1 ELSE 0),
         Coherent(c, s)
  PROVE  Booked(c)
<1>1. ASSUME NEW t \in Sessions PROVE Coherent(c, t)
  BY DEF Coherent, Booked
<1>2. ASSUME NEW v \in Servers
      PROVE  c.served[v] = Cardinality(Holders(c, v)) /\ c.curSess[v] = Cardinality(Connected(c, v))
  <2> DEFINE A == Holders(b, v)
             B == Holders(c, v)
             C == Connected(b, v)
             D == Connected(c, v)
  <2>1. /\ A \in SUBSET Sessions /\ B \in SUBSET Sessions
        /\ C \in SUBSET Sessions /\ D \in SUBSET Sessions
    BY DEF Holders, Connected
  <2>2. /\ \A t \in Sessions : t # s => (t \in A <=> t \in B)
        /\ (s \in A) <=> (b.slot[s] = v)
        /\ (s \in B) <=> (c.slot[s] = v)
    BY DEF Holders
  <2>3. /\ \A t \in Sessions : t # s => (t \in C <=> t \in D)
        /\ (s \in C) <=> (b.cur[s] /\ b.target[s] = v)
        /\ (s \in D) <=> (c.cur[s] /\ c.target[s] = v)
    BY DEF Connected
  <2>4. b.served[v] = Cardinality(A) /\ b.curSess[v] = Cardinality(C)
    BY DEF Booked
  <2> HIDE DEF A, B, C, D
  <2>5. Cardinality(B) = Cardinality(A) + (IF s \in B THEN 1 ELSE 0)
                                        - (IF s \in A THEN 1 ELSE 0)
    BY <2>1, <2>2, CountStep
  <2>6. Cardinality(D) = Cardinality(C) + (IF s \in D THEN 1 ELSE 0)
                                        - (IF s \in C THEN 1 ELSE 0)
    BY <2>1, <2>3, CountStep
  <2>7. c.served[v] = Cardinality(B)
    BY <2>2, <2>4, <2>5
  <2>8. c.curSess[v] = Cardinality(D)
    BY <2>3, <2>4, <2>6
  <2> QED BY <2>7, <2>8 DEF B, D
<1>3. \A x \in Queues : /\ c.nbpend[x] = Len(c.queue[x]) /\ IsInjective(c.queue[x])
                        /\ Range(c.queue[x]) = {t \in Sessions : c.psrv[t] = x}
  BY DEF Booked
<1> QED BY <1>1, <1>2, <1>3 DEF Booked

\* Nothing changes but queues and what goes with a place in one.
LEMMA QueuesOnly ==
  ASSUME NEW b, Booked(b), NEW c \in Ledgers,
         c.slot = b.slot, c.served = b.served, c.cur = b.cur, c.curSess = b.curSess,
         \A t \in Sessions : c.cur[t] => c.target[t] = b.target[t],
         \A t \in Sessions : Coherent(c, t),
         \A x \in Queues : /\ c.nbpend[x] = Len(c.queue[x]) /\ IsInjective(c.queue[x])
                           /\ Range(c.queue[x]) = {t \in Sessions : c.psrv[t] = x}
  PROVE  Booked(c)
<1>1. ASSUME NEW v \in Servers
      PROVE  Holders(c, v) = Holders(b, v) /\ Connected(c, v) = Connected(b, v)
  BY DEF Holders, Connected
<1> QED BY <1>1 DEF Booked

\* The length of a queue tells whether somebody is in it.
LEMMA QueueHead ==
  ASSUME NEW b, Booked(b), NEW x \in Queues, b.nbpend[x] # 0
  PROVE  Head(b.queue[x]) \in Sessions /\ b.psrv[Head(b.queue[x])] = x
<1>1. b.queue[x] \in Seq(Sessions) /\ b.nbpend[x] = Len(b.queue[x])
  BY DEF Booked, Ledgers
<1>2. 1 \in 1..Len(b.queue[x]) /\ Head(b.queue[x]) = b.queue[x][1]
  BY <1>1
<1>3. Head(b.queue[x]) \in Range(b.queue[x])
  BY <1>1, <1>2, InSeq
<1>4. Range(b.queue[x]) = {t \in Sessions : b.psrv[t] = x}
  BY DEF Booked
<1> QED BY <1>3, <1>4

\* pendconn_free(): the session leaves the one queue it is in.
LEMMA FreeKeeps ==
  ASSUME NEW b, Booked(b), NEW s \in Sessions, b.psrv[s] # None
  PROVE  LET f == PendconnFree(b, s)
         IN  /\ Booked(f) /\ f.psrv[s] = None
             /\ f.slot = b.slot /\ f.target = b.target /\ f.assigned = b.assigned
             /\ f.cur = b.cur /\ f.woken = b.woken /\ f.beconn = b.beconn
             /\ f.served = b.served /\ f.curSess = b.curSess
             /\ \A t \in Sessions : t # s => f.psrv[t] = b.psrv[t]
<1> DEFINE f == PendconnFree(b, s)
           y == b.psrv[s]
           queue == [x \in Queues |-> RemoveFirst(b.queue[x], s)]
           nbpend == [b.nbpend EXCEPT ![y] = @ - 1]
           psrv == [b.psrv EXCEPT ![s] = None]
<1>1. /\ b \in Ledgers /\ y \in Queues /\ b.nbpend \in [Queues -> Int]
      /\ b.psrv \in [Sessions -> Queues \cup {None}]
      /\ \A x \in Queues : b.queue[x] \in Seq(Sessions)
  BY DEF Booked, Ledgers
<1>2. f = [b EXCEPT !.queue = queue, !.nbpend = nbpend, !.psrv = psrv]
  BY <1>1 DEF PendconnFree, Ledgers
<1>3. /\ psrv \in [Sessions -> Queues \cup {None}] /\ psrv[s] = None
      /\ \A t \in Sessions : t # s => psrv[t] = b.psrv[t]
  BY <1>1
<1>4. /\ nbpend \in [Queues -> Int] /\ nbpend[y] = b.nbpend[y] - 1
      /\ \A x \in Queues : x # y => nbpend[x] = b.nbpend[x]
  BY <1>1
<1>5. None \notin Queues
  BY QueueAssumption DEF Queues
<1>6. ASSUME NEW x \in Queues
      PROVE  /\ queue[x] \in Seq(Sessions) /\ nbpend[x] = Len(queue[x]) /\ IsInjective(queue[x])
             /\ Range(queue[x]) = {t \in Sessions : psrv[t] = x}
  <2> DEFINE l == b.queue[x]
             r == RemoveFirst(l, s)
  <2>1. /\ l \in Seq(Sessions) /\ IsInjective(l) /\ b.nbpend[x] = Len(l)
        /\ Range(l) = {t \in Sessions : b.psrv[t] = x}
    BY <1>1 DEF Booked
  <2>2. queue[x] = r
    OBVIOUS
  <2> HIDE DEF l, queue, psrv, nbpend
  <2>3. /\ r \in Seq(Sessions) /\ IsInjective(r) /\ Range(r) = Range(l) \ {s}
        /\ s \in Range(l) => Len(r) = Len(l) - 1
        /\ s \notin Range(l) => r = l
    BY <2>1, RemoveIn
  <2> HIDE DEF r
  <2>4. s \in Range(l) <=> x = y
    BY <2>1
  <2>5. nbpend[x] = Len(r)
    BY <1>4, <2>1, <2>3, <2>4
  <2>6. Range(r) = {t \in Sessions : psrv[t] = x}
    BY <1>3, <1>5, <2>1, <2>3
  <2> QED BY <2>2, <2>3, <2>5, <2>6
<1>7. queue \in [Queues -> Seq(Sessions)]
  <2>1. \A x \in Queues : RemoveFirst(b.queue[x], s) \in Seq(Sessions)
    BY <1>6
  <2> QED BY <2>1
<1> HIDE DEF f, y, queue, nbpend, psrv
<1>8. /\ f \in Ledgers /\ f.queue = queue /\ f.nbpend = nbpend /\ f.psrv = psrv
      /\ f.slot = b.slot /\ f.target = b.target /\ f.assigned = b.assigned
      /\ f.cur = b.cur /\ f.woken = b.woken /\ f.beconn = b.beconn
      /\ f.served = b.served /\ f.curSess = b.curSess
  BY <1>1, <1>2, <1>3, <1>4, <1>7 DEF Ledgers
<1>9. ASSUME NEW t \in Sessions PROVE Coherent(f, t)
  <2>1. Coherent(b, t)
    BY DEF Booked
  <2> QED BY <1>3, <1>8, <2>1 DEF Coherent
<1>10. Booked(f)
  BY <1>6, <1>8, <1>9, QueuesOnly
<1> QED BY <1>3, <1>8, <1>10 DEF f

-----------------------------------------------------------------------------
(* Slots that are handed on.                                               *)

\* A session that waited has been given a slot, and its task has been woken.
Given(b, c, t) ==
  b.psrv[t] # None /\ c.psrv[t] = None /\ c.slot[t] # None /\ t \in c.woken /\ c.cur[t] = b.cur[t]

\* Nothing else happens to any session.
Handed(b, c) == c.beconn = b.beconn /\ \A t \in Sessions : Same(b, c, t) \/ Given(b, c, t)

\* Who was given a slot keeps it.
LEMMA HandedOn ==
  ASSUME NEW b, NEW c, NEW d, Handed(b, c), Handed(c, d)
  PROVE  Handed(b, d)
  BY DEF Handed, Same, Given

\* pendconn_get_next_sess() finds a session that waits.
LEMMA NextWaits ==
  ASSUME NEW b, Booked(b), NEW v \in Servers, PendconnNext(b, v) # None
  PROVE  PendconnNext(b, v) \in Sessions /\ b.psrv[PendconnNext(b, v)] # None
<1>1. v \in Queues /\ Px \in Queues /\ None \notin Queues
  BY QueueAssumption DEF Queues
<1>2. b.nbpend[v] # 0 => Head(b.queue[v]) \in Sessions /\ b.psrv[Head(b.queue[v])] = v
  BY <1>1, QueueHead
<1>3. b.nbpend[Px] # 0 => Head(b.queue[Px]) \in Sessions /\ b.psrv[Head(b.queue[Px])] = Px
  BY <1>1, QueueHead
<1>4. \/ b.nbpend[v] # 0 /\ PendconnNext(b, v) = Head(b.queue[v])
      \/ b.nbpend[Px] # 0 /\ PendconnNext(b, v) = Head(b.queue[Px])
  BY DEF PendconnNext
<1> QED BY <1>1, <1>2, <1>3, <1>4

\* A free slot is given to the next who waits.
LEMMA TakeKeeps ==
  ASSUME NEW b, Booked(b), NEW v \in Servers, PendconnNext(b, v) # None, b.served[v] < MaxConn[v]
  PROVE  Booked(TakeNext(b, v)) /\ Handed(b, TakeNext(b, v))
<1> DEFINE s == PendconnNext(b, v)
           f == PendconnFree(b, s)
           c == TakeNext(b, v)
<1>1. s \in Sessions /\ b.psrv[s] # None
  BY NextWaits
<1>2. c = [f EXCEPT !.assigned[s] = TRUE, !.target[s] = v, !.slot[s] = v,
                    !.served[v] = @ + 1, !.woken = @ \cup {s}]
  BY DEF TakeNext
<1> HIDE DEF s, c
<1>3. /\ Booked(f) /\ f.psrv[s] = None
      /\ f.slot = b.slot /\ f.target = b.target /\ f.assigned = b.assigned
      /\ f.cur = b.cur /\ f.woken = b.woken /\ f.beconn = b.beconn
      /\ f.served = b.served /\ f.curSess = b.curSess
      /\ \A t \in Sessions : t # s => f.psrv[t] = b.psrv[t]
  BY <1>1, FreeKeeps
<1> HIDE DEF f
<1>4. f \in Ledgers /\ None \notin Servers
  BY <1>3, QueueAssumption DEF Booked
<1>5. /\ f.assigned \in [Sessions -> BOOLEAN] /\ f.target \in [Sessions -> Servers \cup {None}]
      /\ f.slot \in [Sessions -> Servers \cup {None}] /\ f.served \in [Servers -> Int]
      /\ f.woken \in SUBSET Sessions
  BY <1>4 DEF Ledgers
<1> DEFINE assigned == [f.assigned EXCEPT ![s] = TRUE]
           target == [f.target EXCEPT ![s] = v]
           slot == [f.slot EXCEPT ![s] = v]
           served == [f.served EXCEPT ![v] = f.served[v] + 1]
           woken == f.woken \cup {s}
<1>6. c = [f EXCEPT !.assigned = assigned, !.target = target, !.slot = slot,
                    !.served = served, !.woken = woken]
  BY <1>2, <1>4 DEF Ledgers
<1>7. /\ assigned \in [Sessions -> BOOLEAN] /\ target \in [Sessions -> Servers \cup {None}]
      /\ slot \in [Sessions -> Servers \cup {None}] /\ served \in [Servers -> Int]
      /\ woken \in SUBSET Sessions
  BY <1>1, <1>5
<1>8. /\ assigned[s] = TRUE /\ target[s] = v /\ slot[s] = v /\ s \in woken
      /\ \A t \in Sessions : t # s => /\ assigned[t] = f.assigned[t] /\ target[t] = f.target[t]
                                      /\ slot[t] = f.slot[t] /\ (t \in f.woken => t \in woken)
      /\ \A w \in Servers : served[w] = IF w = v THEN f.served[v] + 1 ELSE f.served[w]
  BY <1>1, <1>5
<1> HIDE DEF assigned, target, slot, served, woken
<1>9. /\ c \in Ledgers /\ c.queue = f.queue /\ c.nbpend = f.nbpend /\ c.psrv = f.psrv
      /\ c.cur = f.cur /\ c.curSess = f.curSess /\ c.beconn = f.beconn
      /\ c.assigned = assigned /\ c.target = target /\ c.slot = slot /\ c.served = served
      /\ c.woken = woken
  BY <1>4, <1>6, <1>7 DEF Ledgers
<1>10. b.slot[s] = None /\ ~b.cur[s]
  BY <1>1 DEF Booked, Coherent
<1>11. Coherent(c, s)
  BY <1>3, <1>4, <1>8, <1>9, <1>10 DEF Coherent
<1>12. \A w \in Servers : c.served[w] = f.served[w] + (IF c.slot[s] = w THEN 1 ELSE 0)
                                                   - (IF f.slot[s] = w THEN 1 ELSE 0)
  BY <1>3, <1>4, <1>5, <1>8, <1>9, <1>10
<1>13. \A w \in Servers : c.served[w] <= MaxConn[w]
  <2>1. \A w \in Servers : b.served[w] <= MaxConn[w] /\ MaxConn[w] \in Int /\ b.served[w] \in Int
    BY QueueAssumption DEF Booked, Ledgers
  <2> QED BY <1>3, <1>8, <1>9, <2>1
<1>14. \A w \in Servers :
          c.curSess[w] = f.curSess[w] + (IF c.cur[s] /\ c.target[s] = w THEN 1 ELSE 0)
                                      - (IF f.cur[s] /\ f.target[s] = w THEN 1 ELSE 0)
  <2>1. ~f.cur[s] /\ ~c.cur[s] /\ \A w \in Servers : f.curSess[w] \in Int
    BY <1>3, <1>4, <1>9, <1>10 DEF Ledgers
  <2> QED BY <1>9, <2>1
<1>15. Booked(c)
  BY <1>1, <1>3, <1>8, <1>9, <1>11, <1>12, <1>13, <1>14, OneSession
<1>16. Handed(b, c)
  <2>1. Given(b, c, s)
    BY <1>1, <1>3, <1>4, <1>8, <1>9 DEF Given
  <2>2. \A t \in Sessions : t # s => Same(b, c, t)
    BY <1>3, <1>8, <1>9 DEF Same
  <2> QED BY <1>3, <1>9, <2>1, <2>2 DEF Handed
<1> QED BY <1>15, <1>16 DEF c

\* Nothing happens, as a case of it.
LEMMA NothingHanded == \A b : Handed(b, b)
  BY DEF Handed, Same

-----------------------------------------------------------------------------
(* process_srv_queue().                                                    *)

IsRun(h, b, v, max, n) ==
  h = [k \in 0..n |-> IF k = 0 THEN b ELSE Dequeue(h[k - 1], v, max)]

\* The ledgers between the rounds exist, however many sessions there are.
LEMMA RunExists ==
  ASSUME NEW b, NEW v, NEW max, NEW n \in Nat
  PROVE  \E h : IsRun(h, b, v, max, n)
<1> DEFINE D == {m \in Nat : \A h : ~IsRun(h, b, v, max, m)}
<1> SUFFICES ASSUME D # {} PROVE FALSE
  OBVIOUS
<1>1. PICK m \in D : \A y \in D : <<y, m>> \notin OpToRel(<, Nat)
  BY NatLessThanWellFounded, WFMin
<1>2. \A y \in D : ~(y < m)
  BY <1>1 DEF OpToRel
<1>3. CASE m = 0
  <2> DEFINE h == [k \in 0..0 |-> b]
  <2>1. h = [k \in 0..0 |-> IF k = 0 THEN b ELSE Dequeue(h[k - 1], v, max)]
    OBVIOUS
  <2>2. IsRun(h, b, v, max, m)
    BY <1>3, <2>1 DEF IsRun
  <2> QED BY <2>2
<1>4. CASE m > 0
  <2>1. m - 1 \in Nat /\ m - 1 < m
    BY <1>4
  <2>2. PICK g : IsRun(g, b, v, max, m - 1)
    BY <1>2, <2>1
  <2> DEFINE h == [k \in 0..m |-> IF k < m THEN g[k] ELSE Dequeue(g[m - 1], v, max)]
  <2>3. \A k \in 0..(m - 1) : g[k] = IF k = 0 THEN b ELSE Dequeue(g[k - 1], v, max)
    BY <2>2 DEF IsRun
  <2>4. ASSUME NEW k \in 0..m PROVE h[k] = IF k = 0 THEN b ELSE Dequeue(h[k - 1], v, max)
    <3>1. CASE k = 0
      BY <1>4, <2>1, <2>3, <3>1
    <3>2. CASE k > 0 /\ k < m
      <4>1. k \in 0..(m - 1) /\ k - 1 \in 0..m /\ k - 1 < m
        BY <3>2
      <4>2. h[k] = g[k] /\ h[k - 1] = g[k - 1]
        BY <3>2, <4>1
      <4> QED BY <2>3, <3>2, <4>1, <4>2
    <3>3. CASE k = m
      <4>1. m - 1 \in 0..m /\ m - 1 < m /\ ~(m < m) /\ m # 0
        BY <1>4
      <4>2. h[m - 1] = g[m - 1] /\ h[m] = Dequeue(g[m - 1], v, max)
        BY <4>1
      <4> QED BY <3>3, <4>1, <4>2
    <3> QED BY <3>1, <3>2, <3>3
  <2>5. IsRun(h, b, v, max, m)
    BY <2>4 DEF IsRun
  <2> QED BY <2>5
<1> QED BY <1>3, <1>4

\* One round gives a slot only while one is free.
LEMMA DequeueKeeps ==
  ASSUME NEW b, NEW c, Booked(c), Handed(b, c), NEW v \in Servers, NEW max \in Int, max <= MaxConn[v]
  PROVE  Booked(Dequeue(c, v, max)) /\ Handed(b, Dequeue(c, v, max))
<1>1. CASE c.served[v] < max /\ PendconnNext(c, v) # None
  <2>1. Dequeue(c, v, max) = TakeNext(c, v)
    BY <1>1 DEF Dequeue
  <2>2. c.served[v] \in Int /\ MaxConn[v] \in Int
    BY QueueAssumption DEF Booked, Ledgers
  <2>3. c.served[v] < MaxConn[v]
    BY <1>1, <2>2
  <2>4. Booked(TakeNext(c, v)) /\ Handed(c, TakeNext(c, v))
    BY <1>1, <2>3, TakeKeeps
  <2> QED BY <2>1, <2>4, HandedOn
<1>2. CASE ~(c.served[v] < max /\ PendconnNext(c, v) # None)
  <2>1. Dequeue(c, v, max) = c
    BY <1>2 DEF Dequeue
  <2> QED BY <2>1
<1> QED BY <1>1, <1>2

\* process_srv_queue() hands the free slots of a server to waiters.
LEMMA ProcessKeeps ==
  ASSUME NEW b, Booked(b), NEW v \in Servers
  PROVE  Booked(ProcessSrvQueue(b, v)) /\ Handed(b, ProcessSrvQueue(b, v))
<1> DEFINE max == SrvDynamicMaxconn(b, v)
           n == Cardinality(Sessions)
           H == CHOOSE h : h = [k \in 0..n |-> IF k = 0 THEN b ELSE Dequeue(h[k - 1], v, max)]
<1>1. n \in Nat
  BY QueueAssumption, FS_CardinalityType
<1>2. ProcessSrvQueue(b, v) = H[n]
  BY DEF ProcessSrvQueue
<1>3. max \in Int /\ max <= MaxConn[v]
  BY DynamicBound DEF Booked
<1> HIDE DEF max, n
<1>4. H = [k \in 0..n |-> IF k = 0 THEN b ELSE Dequeue(H[k - 1], v, max)]
  <2>1. \E h : h = [k \in 0..n |-> IF k = 0 THEN b ELSE Dequeue(h[k - 1], v, max)]
    <3>1. PICK h : IsRun(h, b, v, max, n)
      BY <1>1, RunExists, Zenon
    <3> QED BY <3>1, Zenon DEF IsRun
  <2> QED BY <2>1, Zenon
<1> HIDE DEF H
<1>5. \A k \in 0..n : H[k] = IF k = 0 THEN b ELSE Dequeue(H[k - 1], v, max)
  BY <1>4
<1> DEFINE D == {m \in 0..n : ~(Booked(H[m]) /\ Handed(b, H[m]))}
<1>6. D = {}
  <2> SUFFICES ASSUME D # {} PROVE FALSE
    OBVIOUS
  <2>1. D \in SUBSET Nat
    BY <1>1
  <2>2. PICK m \in D : \A y \in D : <<y, m>> \notin OpToRel(<, Nat)
    BY <2>1, NatLessThanWellFounded, WFMin
  <2>3. \A y \in D : ~(y < m)
    BY <2>1, <2>2 DEF OpToRel
  <2>4. m # 0
    BY <1>1, <1>5, NothingHanded
  <2>5. m \in 1..n /\ m - 1 \in 0..n /\ m - 1 < m
    BY <1>1, <2>4
  <2>6. Booked(H[m - 1]) /\ Handed(b, H[m - 1])
    BY <2>3, <2>5
  <2>7. H[m] = Dequeue(H[m - 1], v, max)
    BY <1>5, <2>4, <2>5
  <2>8. Booked(H[m]) /\ Handed(b, H[m])
    BY <1>3, <2>6, <2>7, DequeueKeeps
  <2> QED BY <2>8
<1>7. n \in 0..n
  BY <1>1
<1> QED BY <1>2, <1>6, <1>7

\* Whoever offers a server's slot changes nothing but for the waiters it goes to.
LEMMA OfferKeeps ==
  ASSUME NEW b, Booked(b), NEW v
  PROVE  Booked(Offer(b, v)) /\ Handed(b, Offer(b, v))
<1>1. CASE MayDequeueTasks(b, v)
  <2>1. v \in Servers /\ Offer(b, v) = ProcessSrvQueue(b, v)
    BY <1>1 DEF Offer, MayDequeueTasks
  <2> QED BY <2>1, ProcessKeeps
<1>2. CASE ~MayDequeueTasks(b, v)
  BY <1>2, NothingHanded DEF Offer
<1> QED BY <1>1, <1>2

-----------------------------------------------------------------------------
(* The functions that act for one session.                                 *)

\* Whatever happens to s, the others are left alone or given a slot.
Aside(b, c, s) ==
  c.beconn = b.beconn /\ \A t \in Sessions : t # s => Same(b, c, t) \/ Given(b, c, t)

LEMMA AsideAll ==
  ASSUME NEW b, NEW c, NEW s
  PROVE  /\ Handed(b, c) => Aside(b, c, s)
         /\ \A d : Aside(b, c, s) /\ Aside(c, d, s) => Aside(b, d, s)
  BY DEF Handed, Aside, Same, Given

\* Who is in no queue is given nothing.
LEMMA HandedSame ==
  ASSUME NEW b, NEW c, Handed(b, c), NEW s \in Sessions
  PROVE  /\ c.cur[s] = b.cur[s]
         /\ b.psrv[s] = None => Same(b, c, s)
  BY DEF Handed, Same, Given

\* Nothing of a session but what SessChangeServer() sets.
LEMMA ChangeKeeps ==
  ASSUME NEW b, Booked(b), NEW s \in Sessions, NEW new \in Servers \cup {None},
         new # None => /\ b.assigned[s] /\ b.target[s] = new /\ b.psrv[s] = None
                       /\ b.served[new] < MaxConn[new] \/ b.slot[s] = new
  PROVE  LET c == SessChangeServer(b, s, new)
         IN  /\ Booked(c) /\ Aside(b, c, s) /\ c.slot[s] = new
             /\ c.target = b.target /\ c.assigned = b.assigned /\ c.cur = b.cur
             /\ c.psrv = b.psrv /\ c.woken = b.woken
<1> DEFINE c == SessChangeServer(b, s, new)
           old == b.slot[s]
<1>1. b \in Ledgers /\ None \notin Servers
  BY QueueAssumption DEF Booked
<1>2. CASE old = new
  BY <1>2 DEF SessChangeServer, Aside, Same
<1>3. CASE old # new
  <2> DEFINE served == [v \in Servers |-> b.served[v] + (IF v = new THEN 1 ELSE 0)
                                                     - (IF v = old THEN 1 ELSE 0)]
             slot == [b.slot EXCEPT ![s] = new]
  <2>1. c = [b EXCEPT !.served = served, !.slot = slot]
    BY <1>1, <1>3 DEF SessChangeServer, Ledgers
  <2>2. b.served \in [Servers -> Int] /\ b.slot \in [Sessions -> Servers \cup {None}]
    BY <1>1 DEF Ledgers
  <2>3. /\ served \in [Servers -> Int] /\ slot \in [Sessions -> Servers \cup {None}]
        /\ slot[s] = new /\ \A t \in Sessions : t # s => slot[t] = b.slot[t]
    BY <2>2
  <2>4. \A v \in Servers : served[v] = b.served[v] + (IF v = new THEN 1 ELSE 0)
                                                  - (IF v = old THEN 1 ELSE 0)
    OBVIOUS
  <2> HIDE DEF c, served, slot
  <2>5. /\ c \in Ledgers /\ c.served = served /\ c.slot = slot
        /\ c.queue = b.queue /\ c.nbpend = b.nbpend /\ c.psrv = b.psrv /\ c.target = b.target
        /\ c.assigned = b.assigned /\ c.cur = b.cur /\ c.curSess = b.curSess
        /\ c.woken = b.woken /\ c.beconn = b.beconn
    BY <1>1, <2>1, <2>3 DEF Ledgers
  <2>6. Coherent(c, s)
    <3>1. Coherent(b, s)
      BY DEF Booked
    <3> QED BY <2>3, <2>5, <3>1 DEF Coherent
  <2>7. \A v \in Servers : c.served[v] = b.served[v] + (IF c.slot[s] = v THEN 1 ELSE 0)
                                                     - (IF b.slot[s] = v THEN 1 ELSE 0)
    BY <2>3, <2>4, <2>5
  <2>8. ASSUME NEW v \in Servers PROVE c.served[v] <= MaxConn[v]
    <3>1. b.served[v] <= MaxConn[v] /\ b.served[v] \in Int /\ MaxConn[v] \in Int
      BY <2>2, QueueAssumption DEF Booked
    <3>2. v = new => b.served[v] < MaxConn[v]
      BY <1>1, <1>3
    <3> QED BY <2>4, <2>5, <3>1, <3>2
  <2>9. \A v \in Servers :
           c.curSess[v] = b.curSess[v] + (IF c.cur[s] /\ c.target[s] = v THEN 1 ELSE 0)
                                       - (IF b.cur[s] /\ b.target[s] = v THEN 1 ELSE 0)
    <3>1. \A v \in Servers : b.curSess[v] \in Int
      BY <1>1 DEF Ledgers
    <3> QED BY <2>5, <3>1
  <2>10. Booked(c)
    BY <2>3, <2>5, <2>6, <2>7, <2>8, <2>9, OneSession
  <2>11. Aside(b, c, s)
    BY <2>3, <2>5 DEF Aside, Same
  <2> QED BY <2>3, <2>5, <2>10, <2>11 DEF c
<1> QED BY <1>2, <1>3

\* A session's target, its assignment and its connection, with no slot or place changed.
LEMMA FieldsKeep ==
  ASSUME NEW b, Booked(b), NEW s \in Sessions, NEW c \in Ledgers,
         c.queue = b.queue, c.nbpend = b.nbpend, c.psrv = b.psrv,
         c.slot = b.slot, c.served = b.served, c.beconn = b.beconn,
         \A t \in Sessions : t # s => /\ c.target[t] = b.target[t] /\ c.assigned[t] = b.assigned[t]
                                      /\ c.cur[t] = b.cur[t] /\ (t \in b.woken => t \in c.woken),
         \A v \in Servers :
            c.curSess[v] = b.curSess[v] + (IF c.cur[s] /\ c.target[s] = v THEN 1 ELSE 0)
                                        - (IF b.cur[s] /\ b.target[s] = v THEN 1 ELSE 0),
         Coherent(c, s)
  PROVE  Booked(c) /\ Aside(b, c, s)
<1>1. \A v \in Servers : /\ b.served[v] \in Int /\ b.served[v] <= MaxConn[v]
  BY DEF Booked, Ledgers
<1>2. \A v \in Servers : c.served[v] = b.served[v] + (IF c.slot[s] = v THEN 1 ELSE 0)
                                                   - (IF b.slot[s] = v THEN 1 ELSE 0)
  BY <1>1
<1>3. \A v \in Servers : c.served[v] <= MaxConn[v]
  BY <1>1
<1>4. Booked(c)
  BY <1>2, <1>3, OneSession
<1> QED BY <1>4 DEF Aside, Same

\* A task that starts is no longer in the run queue.
LEMMA CalmKeeps ==
  ASSUME NEW b, Booked(b), NEW s \in Sessions
  PROVE  LET c == Calm(b, s)
         IN  /\ Booked(c) /\ Aside(b, c, s)
             /\ c.slot = b.slot /\ c.target = b.target /\ c.assigned = b.assigned
             /\ c.cur = b.cur /\ c.psrv = b.psrv
<1> DEFINE c == Calm(b, s)
           woken == b.woken \ {s}
<1>1. b \in Ledgers /\ Coherent(b, s)
  BY DEF Booked
<1>2. c = [b EXCEPT !.woken = woken]
  BY <1>1 DEF Calm, Ledgers
<1>3. woken \in SUBSET Sessions /\ \A t \in Sessions : t # s => (t \in b.woken => t \in woken)
  BY <1>1 DEF Ledgers
<1> HIDE DEF c, woken
<1>4. /\ c \in Ledgers /\ c.woken = woken
      /\ c.queue = b.queue /\ c.nbpend = b.nbpend /\ c.psrv = b.psrv /\ c.target = b.target
      /\ c.assigned = b.assigned /\ c.cur = b.cur /\ c.curSess = b.curSess
      /\ c.slot = b.slot /\ c.served = b.served /\ c.beconn = b.beconn
  BY <1>1, <1>2, <1>3 DEF Ledgers
<1>5. Coherent(c, s)
  BY <1>1, <1>4 DEF Coherent
<1>6. \A v \in Servers : b.curSess[v] \in Int
  BY <1>1 DEF Ledgers
<1>7. Booked(c) /\ Aside(b, c, s)
  BY <1>3, <1>4, <1>5, <1>6, FieldsKeep
<1> QED BY <1>4, <1>7 DEF c

\* A session's connection is no longer counted.
LEMMA DropKeeps ==
  ASSUME NEW b, Booked(b), NEW s \in Sessions
  PROVE  LET c == DropCurSess(b, s)
         IN  /\ Booked(c) /\ Aside(b, c, s) /\ c.cur[s] = FALSE
             /\ c.slot = b.slot /\ c.target = b.target /\ c.assigned = b.assigned
             /\ c.psrv = b.psrv /\ c.woken = b.woken
<1> DEFINE c == DropCurSess(b, s)
           v == b.target[s]
<1>1. b \in Ledgers /\ Coherent(b, s)
  BY DEF Booked
<1>2. b.cur[s] \in BOOLEAN /\ (b.cur[s] => v \in Servers)
  BY <1>1 DEF Ledgers, Coherent
<1>3. CASE ~b.cur[s]
  <2>1. c = b /\ b.cur[s] = FALSE
    BY <1>2, <1>3 DEF DropCurSess
  <2> QED BY <2>1 DEF Aside, Same
<1>4. CASE b.cur[s]
  <2> DEFINE cur == [b.cur EXCEPT ![s] = FALSE]
             curSess == [b.curSess EXCEPT ![v] = b.curSess[v] - 1]
  <2>1. c = [b EXCEPT !.cur = cur, !.curSess = curSess]
    BY <1>1, <1>2, <1>4 DEF DropCurSess, Ledgers
  <2>2. b.cur \in [Sessions -> BOOLEAN] /\ b.curSess \in [Servers -> Int]
    BY <1>1 DEF Ledgers
  <2>3. /\ cur \in [Sessions -> BOOLEAN] /\ curSess \in [Servers -> Int] /\ cur[s] = FALSE
        /\ \A t \in Sessions : t # s => cur[t] = b.cur[t]
        /\ \A w \in Servers : curSess[w] = b.curSess[w] - (IF v = w THEN 1 ELSE 0)
    BY <1>2, <1>4, <2>2
  <2> HIDE DEF c, cur, curSess
  <2>4. /\ c \in Ledgers /\ c.cur = cur /\ c.curSess = curSess
        /\ c.queue = b.queue /\ c.nbpend = b.nbpend /\ c.psrv = b.psrv /\ c.target = b.target
        /\ c.assigned = b.assigned /\ c.woken = b.woken
        /\ c.slot = b.slot /\ c.served = b.served /\ c.beconn = b.beconn
    BY <1>1, <2>1, <2>3 DEF Ledgers
  <2>5. Coherent(c, s)
    BY <1>1, <2>3, <2>4 DEF Coherent
  <2>6. \A w \in Servers :
           c.curSess[w] = b.curSess[w] + (IF c.cur[s] /\ c.target[s] = w THEN 1 ELSE 0)
                                       - (IF b.cur[s] /\ b.target[s] = w THEN 1 ELSE 0)
    BY <1>4, <2>2, <2>3, <2>4
  <2>7. Booked(c) /\ Aside(b, c, s)
    BY <2>3, <2>4, <2>5, <2>6, FieldsKeep
  <2> QED BY <2>3, <2>4, <2>7 DEF c
<1> QED BY <1>3, <1>4

\* A session without a slot, a place or a connection gets any target.
LEMMA RetargetKeeps ==
  ASSUME NEW b, Booked(b), NEW s \in Sessions, b.slot[s] = None, b.psrv[s] = None, ~b.cur[s],
         NEW c \in Ledgers, c.queue = b.queue, c.nbpend = b.nbpend, c.psrv = b.psrv,
         c.slot = b.slot, c.served = b.served, c.beconn = b.beconn,
         c.cur = b.cur, c.curSess = b.curSess,
         \A t \in Sessions : t # s => /\ c.target[t] = b.target[t] /\ c.assigned[t] = b.assigned[t]
                                      /\ (t \in b.woken => t \in c.woken)
  PROVE  Booked(c) /\ Aside(b, c, s)
<1>1. Coherent(c, s)
  BY DEF Coherent
<1>2. \A v \in Servers :
         c.curSess[v] = b.curSess[v] + (IF c.cur[s] /\ c.target[s] = v THEN 1 ELSE 0)
                                     - (IF b.cur[s] /\ b.target[s] = v THEN 1 ELSE 0)
  <2>1. \A v \in Servers : b.curSess[v] \in Int
    BY DEF Booked, Ledgers
  <2> QED BY <2>1
<1>3. \A t \in Sessions : t # s => c.cur[t] = b.cur[t]
  OBVIOUS
<1> QED BY <1>1, <1>2, <1>3, FieldsKeep

\* The server of a session is given up.
LEMMA UnassignKeeps ==
  ASSUME NEW b, Booked(b), NEW s \in Sessions, b.slot[s] = None, b.psrv[s] = None, ~b.cur[s]
  PROVE  LET c == Unassign(b, s)
         IN  /\ Booked(c) /\ Aside(b, c, s) /\ c.assigned[s] = FALSE
             /\ c.slot = b.slot /\ c.psrv = b.psrv /\ c.cur = b.cur
<1> DEFINE c == Unassign(b, s)
           assigned == [b.assigned EXCEPT ![s] = FALSE]
<1>1. b \in Ledgers
  BY DEF Booked
<1>2. b.assigned \in [Sessions -> BOOLEAN]
  BY <1>1 DEF Ledgers
<1>3. c = [b EXCEPT !.assigned = assigned]
  BY <1>1 DEF Unassign, Ledgers
<1>4. /\ assigned \in [Sessions -> BOOLEAN] /\ assigned[s] = FALSE
      /\ \A t \in Sessions : t # s => assigned[t] = b.assigned[t]
  BY <1>2
<1> HIDE DEF c, assigned
<1>5. /\ c \in Ledgers /\ c.assigned = assigned
      /\ c.queue = b.queue /\ c.nbpend = b.nbpend /\ c.psrv = b.psrv /\ c.target = b.target
      /\ c.cur = b.cur /\ c.curSess = b.curSess /\ c.woken = b.woken
      /\ c.slot = b.slot /\ c.served = b.served /\ c.beconn = b.beconn
  BY <1>1, <1>3, <1>4 DEF Ledgers
<1>6. Booked(c) /\ Aside(b, c, s)
  BY <1>4, <1>5, RetargetKeeps
<1> QED BY <1>4, <1>5, <1>6 DEF c

\* A session that is over leaves nothing behind.
LEMMA ForgetKeeps ==
  ASSUME NEW b, Booked(b), NEW s \in Sessions, b.slot[s] = None, b.psrv[s] = None, ~b.cur[s]
  PROVE  LET c == Forget(b, s)
         IN  /\ Booked(c) /\ Aside(b, c, s)
             /\ c.slot = b.slot /\ c.psrv = b.psrv /\ c.cur = b.cur
<1> DEFINE c == Forget(b, s)
           assigned == [b.assigned EXCEPT ![s] = FALSE]
           target == [b.target EXCEPT ![s] = None]
           woken == b.woken \ {s}
<1>1. b \in Ledgers
  BY DEF Booked
<1>2. /\ b.target \in [Sessions -> Servers \cup {None}] /\ b.woken \in SUBSET Sessions
      /\ b.assigned \in [Sessions -> BOOLEAN]
  BY <1>1 DEF Ledgers
<1>3. c = [b EXCEPT !.target = target, !.assigned = assigned, !.woken = woken]
  BY <1>1 DEF Forget, Ledgers
<1>4. /\ assigned \in [Sessions -> BOOLEAN] /\ target \in [Sessions -> Servers \cup {None}]
      /\ woken \in SUBSET Sessions
      /\ \A t \in Sessions : t # s => /\ target[t] = b.target[t] /\ assigned[t] = b.assigned[t]
                                      /\ (t \in b.woken => t \in woken)
  BY <1>2
<1> HIDE DEF c, assigned, target, woken
<1>5. /\ c \in Ledgers /\ c.target = target /\ c.assigned = assigned /\ c.woken = woken
      /\ c.queue = b.queue /\ c.nbpend = b.nbpend /\ c.psrv = b.psrv
      /\ c.cur = b.cur /\ c.curSess = b.curSess
      /\ c.slot = b.slot /\ c.served = b.served /\ c.beconn = b.beconn
  BY <1>1, <1>3, <1>4 DEF Ledgers
<1>6. Booked(c) /\ Aside(b, c, s)
  BY <1>4, <1>5, RetargetKeeps
<1> QED BY <1>5, <1>6 DEF c

\* Only the backend's own counter changes.
LEMMA BeconnKeeps ==
  ASSUME NEW b, Booked(b), NEW n \in Int
  PROVE  LET c == [b EXCEPT !.beconn = n]
         IN  /\ Booked(c) /\ c.beconn = n
             /\ c.slot = b.slot /\ c.target = b.target /\ c.assigned = b.assigned
             /\ c.psrv = b.psrv /\ c.cur = b.cur /\ c.woken = b.woken
<1> DEFINE c == [b EXCEPT !.beconn = n]
<1>1. b \in Ledgers
  BY DEF Booked
<1>2. /\ c \in Ledgers /\ c.beconn = n
      /\ c.queue = b.queue /\ c.nbpend = b.nbpend /\ c.psrv = b.psrv /\ c.target = b.target
      /\ c.assigned = b.assigned /\ c.cur = b.cur /\ c.curSess = b.curSess
      /\ c.slot = b.slot /\ c.served = b.served /\ c.woken = b.woken
  BY <1>1 DEF Ledgers
<1> HIDE DEF c
<1>3. ASSUME NEW t \in Sessions PROVE Coherent(c, t)
  <2>1. Coherent(b, t)
    BY DEF Booked
  <2> QED BY <1>2, <2>1 DEF Coherent
<1>4. \A x \in Queues : /\ c.nbpend[x] = Len(c.queue[x]) /\ IsInjective(c.queue[x])
                        /\ Range(c.queue[x]) = {t \in Sessions : c.psrv[t] = x}
  BY <1>2 DEF Booked
<1>5. Booked(c)
  BY <1>2, <1>3, <1>4, QueuesOnly
<1> QED BY <1>2, <1>5 DEF c

\* connect_server(): the connection is counted where the slot is.
LEMMA ConnectKeeps ==
  ASSUME NEW b, Booked(b), NEW s \in Sessions, b.slot[s] # None, ~b.cur[s],
         NEW c, c = [b EXCEPT !.cur[s] = TRUE, !.curSess[b.target[s]] = @ + 1]
  PROVE  /\ Booked(c) /\ Aside(b, c, s)
         /\ c.slot = b.slot /\ c.psrv = b.psrv
<1> DEFINE v == b.target[s]
           cur == [b.cur EXCEPT ![s] = TRUE]
           curSess == [b.curSess EXCEPT ![v] = b.curSess[v] + 1]
<1>1. b \in Ledgers /\ Coherent(b, s)
  BY DEF Booked
<1>2. v \in Servers /\ b.psrv[s] = None
  BY <1>1 DEF Coherent, Ledgers
<1>3. c = [b EXCEPT !.cur = cur, !.curSess = curSess]
  BY <1>1, <1>2 DEF Ledgers
<1>4. b.cur \in [Sessions -> BOOLEAN] /\ b.curSess \in [Servers -> Int]
  BY <1>1 DEF Ledgers
<1>5. /\ cur \in [Sessions -> BOOLEAN] /\ curSess \in [Servers -> Int] /\ cur[s] = TRUE
      /\ \A t \in Sessions : t # s => cur[t] = b.cur[t]
      /\ \A w \in Servers : curSess[w] = b.curSess[w] + (IF v = w THEN 1 ELSE 0)
  BY <1>2, <1>4
<1> HIDE DEF cur, curSess
<1>6. /\ c \in Ledgers /\ c.cur = cur /\ c.curSess = curSess
      /\ c.queue = b.queue /\ c.nbpend = b.nbpend /\ c.psrv = b.psrv /\ c.target = b.target
      /\ c.assigned = b.assigned /\ c.woken = b.woken
      /\ c.slot = b.slot /\ c.served = b.served /\ c.beconn = b.beconn
  BY <1>1, <1>3, <1>5 DEF Ledgers
<1>7. Coherent(c, s)
  BY <1>1, <1>2, <1>5, <1>6 DEF Coherent
<1>8. \A w \in Servers :
         c.curSess[w] = b.curSess[w] + (IF c.cur[s] /\ c.target[s] = w THEN 1 ELSE 0)
                                     - (IF b.cur[s] /\ b.target[s] = w THEN 1 ELSE 0)
  BY <1>4, <1>5, <1>6
<1>9. Booked(c) /\ Aside(b, c, s)
  BY <1>5, <1>6, <1>7, <1>8, FieldsKeep
<1> QED BY <1>6, <1>9

\* pendconn_add(): a session without a slot enters one queue.
LEMMA AddKeeps ==
  ASSUME NEW b, Booked(b), NEW s \in Sessions, b.slot[s] = None, b.psrv[s] = None, ~b.cur[s],
         b.assigned[s] <=> b.target[s] \in Servers
  PROVE  LET c == PendconnAdd(b, s)
         IN  /\ Booked(c) /\ Aside(b, c, s) /\ c.psrv[s] # None /\ c.cur = b.cur
<1> DEFINE c == PendconnAdd(b, s)
           y == IF b.target[s] \in Servers THEN b.target[s] ELSE Px
           l == b.queue[y]
           queue == [b.queue EXCEPT ![y] = Append(l, s)]
           nbpend == [b.nbpend EXCEPT ![y] = b.nbpend[y] + 1]
           psrv == [b.psrv EXCEPT ![s] = y]
<1>1. b \in Ledgers
  BY DEF Booked
<1>2. y \in Queues /\ None \notin Queues /\ (y \in Servers <=> b.assigned[s])
  BY QueueAssumption DEF Queues
<1>3. /\ b.psrv \in [Sessions -> Queues \cup {None}] /\ b.nbpend \in [Queues -> Int]
      /\ b.queue \in [Queues -> Seq(Sessions)]
  BY <1>1 DEF Ledgers
<1>4. c = [b EXCEPT !.queue = queue, !.nbpend = nbpend, !.psrv = psrv]
  <2>1. (IF b.assigned[s] THEN y ELSE Px) = y
    OBVIOUS
  <2>2. c = [b EXCEPT !.queue[y] = Append(@, s), !.nbpend[y] = @ + 1, !.psrv[s] = y]
    BY <2>1, Zenon DEF PendconnAdd
  <2> HIDE DEF c, y
  <2> QED BY <1>1, <2>2 DEF Ledgers
<1> HIDE DEF y
<1>5. ASSUME NEW x \in Queues
      PROVE  /\ queue[x] \in Seq(Sessions) /\ nbpend[x] = Len(queue[x]) /\ IsInjective(queue[x])
             /\ Range(queue[x]) = {t \in Sessions : psrv[t] = x}
  <2>1. /\ b.queue[x] \in Seq(Sessions) /\ IsInjective(b.queue[x]) /\ b.nbpend[x] = Len(b.queue[x])
        /\ Range(b.queue[x]) = {t \in Sessions : b.psrv[t] = x}
    BY <1>3 DEF Booked
  <2>2. psrv[s] = y /\ \A t \in Sessions : t # s => psrv[t] = b.psrv[t]
    BY <1>2, <1>3
  <2>3. CASE x # y
    <3>1. queue[x] = b.queue[x] /\ nbpend[x] = b.nbpend[x]
      BY <1>3, <2>3
    <3> QED BY <1>2, <2>1, <2>2, <2>3, <3>1
  <2>4. CASE x = y
    <3> DEFINE k == b.queue[x]
               r == Append(k, s)
    <3>1. queue[x] = r /\ nbpend[x] = b.nbpend[x] + 1
      BY <1>3, <2>4
    <3>2. s \notin Range(k)
      BY <1>2, <2>1
    <3>3. k \in Seq(Sessions) /\ IsInjective(k)
      BY <2>1
    <3> HIDE DEF k, queue, nbpend, psrv
    <3>4. /\ r \in Seq(Sessions) /\ Len(r) = Len(k) + 1 /\ Len(k) \in Nat
          /\ \A i \in 1..(Len(k) + 1) : r[i] = IF i <= Len(k) THEN k[i] ELSE s
      BY <3>3
    <3> HIDE DEF r
    <3>5. \A i \in 1..Len(k) : k[i] # s
      BY <3>2, <3>3, InSeq
    <3>6. IsInjective(r)
      <4>1. \A i, j \in 1..Len(k) : k[i] = k[j] => i = j
        BY <3>3 DEF IsInjective
      <4>2. DOMAIN r = 1..(Len(k) + 1)
        BY <3>4
      <4>3. ASSUME NEW i \in 1..(Len(k) + 1), NEW j \in 1..(Len(k) + 1), r[i] = r[j]
            PROVE  i = j
        <5>1. CASE i <= Len(k) /\ j <= Len(k)
          BY <3>4, <4>1, <4>3, <5>1
        <5>2. CASE i <= Len(k) /\ j > Len(k)
          BY <3>4, <3>5, <4>3, <5>2
        <5>3. CASE i > Len(k) /\ j <= Len(k)
          BY <3>4, <3>5, <4>3, <5>3
        <5>4. CASE i > Len(k) /\ j > Len(k)
          BY <3>4, <5>4
        <5> QED BY <3>4, <5>1, <5>2, <5>3, <5>4
      <4> QED BY <4>2, <4>3 DEF IsInjective
    <3>7. Range(r) = Range(k) \cup {s}
      <4>1. ASSUME NEW z PROVE z \in Range(r) <=> z \in Range(k) \cup {s}
        <5>1. z \in Range(r) <=> \E i \in 1..(Len(k) + 1) : r[i] = z
          BY <3>4, InSeq
        <5>2. z \in Range(k) <=> \E i \in 1..Len(k) : k[i] = z
          BY <3>3, InSeq
        <5>3. r[Len(k) + 1] = s /\ Len(k) + 1 \in 1..(Len(k) + 1)
              /\ \A i \in 1..Len(k) : i \in 1..(Len(k) + 1) /\ r[i] = k[i]
          BY <3>4
        <5>4. \A i \in 1..(Len(k) + 1) : i \in 1..Len(k) \/ r[i] = s
          BY <3>4
        <5> QED BY <5>1, <5>2, <5>3, <5>4
      <4> QED BY <4>1
    <3>8. Range(r) = {t \in Sessions : psrv[t] = x}
      BY <2>1, <2>2, <2>4, <3>7 DEF k
    <3>9. nbpend[x] = Len(r)
      BY <2>1, <3>1, <3>4 DEF k
    <3> QED BY <3>1, <3>4, <3>6, <3>8, <3>9
  <2> QED BY <2>3, <2>4
<1>6. queue \in [Queues -> Seq(Sessions)] /\ nbpend \in [Queues -> Int]
  <2>1. Append(l, s) \in Seq(Sessions) /\ b.nbpend[y] + 1 \in Int
    BY <1>2, <1>3
  <2> QED BY <1>3, <2>1
<1>7. /\ psrv \in [Sessions -> Queues \cup {None}] /\ psrv[s] = y
      /\ \A t \in Sessions : t # s => psrv[t] = b.psrv[t]
  BY <1>2, <1>3
<1> HIDE DEF c, queue, nbpend, psrv
<1>8. /\ c \in Ledgers /\ c.queue = queue /\ c.nbpend = nbpend /\ c.psrv = psrv
      /\ c.slot = b.slot /\ c.target = b.target /\ c.assigned = b.assigned
      /\ c.cur = b.cur /\ c.woken = b.woken /\ c.beconn = b.beconn
      /\ c.served = b.served /\ c.curSess = b.curSess
  BY <1>1, <1>4, <1>6, <1>7 DEF Ledgers
<1>9. ASSUME NEW t \in Sessions PROVE Coherent(c, t)
  <2>1. Coherent(b, t)
    BY DEF Booked
  <2>2. CASE t = s
    BY <1>2, <1>7, <1>8, <2>1, <2>2 DEF Coherent
  <2>3. CASE t # s
    BY <1>7, <1>8, <2>1, <2>3 DEF Coherent
  <2> QED BY <2>2, <2>3
<1>10. Booked(c)
  BY <1>5, <1>8, <1>9, QueuesOnly
<1>11. Aside(b, c, s)
  BY <1>7, <1>8 DEF Aside, Same
<1> QED BY <1>2, <1>7, <1>8, <1>10, <1>11 DEF c

-----------------------------------------------------------------------------
(* A server for a session.                                                 *)

\* What assign_server() leaves: a target, or none.
Asked(b, o, s) ==
  /\ Booked(o.b) /\ Aside(b, o.b, s) /\ o.b.psrv[s] = None /\ ~o.b.cur[s]
  /\ o.err \in {"OK", "FULL", "NOSRV"}
  /\ o.err = "OK" => o.b.assigned[s] /\ o.b.target[s] \in Servers
  /\ o.err # "OK" => ~o.b.assigned[s] /\ o.b.target[s] = None /\ o.b.slot[s] = None

\* What assign_server_and_queue() leaves: a slot, a place in a queue, or nothing.
Seated(b, o, s) ==
  /\ Booked(o.b) /\ Aside(b, o.b, s) /\ ~o.b.cur[s]
  /\ o.err \in {"OK", "QUEUED", "FULL", "NOSRV", "INTERNAL"}
  /\ o.err = "OK" => o.b.slot[s] # None
  /\ o.err = "QUEUED" => o.b.psrv[s] # None
  /\ o.err \notin {"OK", "QUEUED"} => o.b.psrv[s] = None /\ o.b.slot[s] = None

\* The balancer is asked only for a session without a slot.
LEMMA AssignServerIs ==
  ASSUME NEW b, Booked(b), NEW s \in Sessions, ~b.assigned[s], b.psrv[s] = None, ~b.cur[s],
         up \subseteq Servers, NEW o \in AssignServer(b, s)
  PROVE  Asked(b, o, s)
<1> DEFINE target == [b.target EXCEPT ![s] = None]
           clean == [b EXCEPT !.target = target]
<1>1. b \in Ledgers /\ b.slot[s] = None /\ None \notin Servers
  BY QueueAssumption DEF Booked, Coherent
<1>2. b.target \in [Sessions -> Servers \cup {None}] /\ b.assigned \in [Sessions -> BOOLEAN]
  BY <1>1 DEF Ledgers
<1>3. clean = [SessChangeServer(b, s, None) EXCEPT !.target[s] = None]
  <2>1. SessChangeServer(b, s, None) = b
    BY <1>1 DEF SessChangeServer
  <2> QED BY <1>1, <2>1 DEF Ledgers
<1>4. /\ target \in [Sessions -> Servers \cup {None}] /\ target[s] = None
      /\ \A t \in Sessions : t # s => target[t] = b.target[t]
  BY <1>2
<1> HIDE DEF target
<1>5. /\ clean \in Ledgers /\ clean.target = target
      /\ clean.queue = b.queue /\ clean.nbpend = b.nbpend /\ clean.psrv = b.psrv
      /\ clean.cur = b.cur /\ clean.curSess = b.curSess /\ clean.assigned = b.assigned
      /\ clean.slot = b.slot /\ clean.served = b.served /\ clean.beconn = b.beconn
      /\ clean.woken = b.woken
  BY <1>1, <1>4 DEF Ledgers
<1> HIDE DEF clean
<1>6. Booked(clean) /\ Aside(b, clean, s)
  BY <1>1, <1>4, <1>5, RetargetKeeps
<1>7. \/ o = Outcome(clean, "NOSRV") \/ o = Outcome(clean, "FULL")
      \/ \E v \in up : o = Outcome([clean EXCEPT !.target[s] = v, !.assigned[s] = TRUE], "OK")
  <2> DEFINE raw == [SessChangeServer(b, s, None) EXCEPT !.target[s] = None]
             Leaves(c, v) == IF b.slot[s] = None THEN c
                             ELSE IF b.slot[s] = v THEN SessChangeServer(c, s, v)
                             ELSE Offer(c, b.slot[s])
             Found(c, v) == [c EXCEPT !.target[s] = v, !.assigned[s] = TRUE]
  <2>1. /\ up = {} => o = Outcome(Leaves(raw, None), "NOSRV")
        /\ up # {} => \E v \in GetNextServer(raw, b.target[s]) :
                          o = IF v = None THEN Outcome(Leaves(raw, None), "FULL")
                              ELSE Outcome(Leaves(Found(raw, v), v), "OK")
    BY DEF AssignServer
  <2>2. \A c, v : Leaves(c, v) = c
    BY <1>1
  <2>3. \A v \in GetNextServer(clean, b.target[s]) : v = None \/ v \in up
    BY DEF GetNextServer
  <2>4. raw = clean
    BY <1>3
  <2> HIDE DEF Leaves, Found, raw
  <2>5. CASE up = {}
    BY <2>1, <2>2, <2>4, <2>5
  <2>6. CASE up # {}
    <3>1. PICK v \in GetNextServer(clean, b.target[s]) :
             o = IF v = None THEN Outcome(clean, "FULL") ELSE Outcome(Found(clean, v), "OK")
      BY <2>1, <2>2, <2>4, <2>6
    <3>2. CASE v = None
      BY <3>1, <3>2
    <3>3. CASE v # None
      <4>1. v \in up /\ o = Outcome(Found(clean, v), "OK")
        BY <2>3, <3>1, <3>3
      <4> QED BY <4>1 DEF Found
    <3> QED BY <3>2, <3>3
  <2> QED BY <2>5, <2>6
<1>8. CASE o = Outcome(clean, "NOSRV") \/ o = Outcome(clean, "FULL")
  <2>1. o.b = clean /\ o.err \in {"NOSRV", "FULL"}
    BY <1>8 DEF Outcome
  <2> QED BY <1>1, <1>4, <1>5, <1>6, <2>1 DEF Asked
<1>9. ASSUME NEW v \in up,
             o = Outcome([clean EXCEPT !.target[s] = v, !.assigned[s] = TRUE], "OK")
      PROVE  Asked(b, o, s)
  <2> DEFINE goal == [target EXCEPT ![s] = v]
             assigned == [b.assigned EXCEPT ![s] = TRUE]
             c == [clean EXCEPT !.target = goal, !.assigned = assigned]
  <2>1. c = [clean EXCEPT !.target[s] = v, !.assigned[s] = TRUE]
    BY <1>5 DEF Ledgers
  <2>2. o.b = c /\ o.err = "OK"
    BY <1>9, <2>1 DEF Outcome
  <2>3. /\ goal \in [Sessions -> Servers \cup {None}] /\ assigned \in [Sessions -> BOOLEAN]
        /\ goal[s] = v /\ assigned[s] = TRUE /\ v \in Servers
        /\ \A t \in Sessions : t # s => goal[t] = b.target[t] /\ assigned[t] = b.assigned[t]
    BY <1>2, <1>4
  <2> HIDE DEF goal, assigned
  <2>4. /\ c \in Ledgers /\ c.target = goal /\ c.assigned = assigned
        /\ c.queue = b.queue /\ c.nbpend = b.nbpend /\ c.psrv = b.psrv
        /\ c.cur = b.cur /\ c.curSess = b.curSess
        /\ c.slot = b.slot /\ c.served = b.served /\ c.beconn = b.beconn
        /\ c.woken = b.woken
    BY <1>5, <2>3 DEF Ledgers
  <2> HIDE DEF c
  <2>5. Booked(c) /\ Aside(b, c, s)
    BY <1>1, <2>3, <2>4, RetargetKeeps
  <2> QED BY <2>2, <2>3, <2>4, <2>5 DEF Asked
<1> QED BY <1>7, <1>8, <1>9

\* A session that finds no slot enters a queue, unless the pool is exhausted.
LEMMA EnqueueIs ==
  ASSUME NEW a, NEW b, Booked(b), NEW s \in Sessions, Aside(a, b, s),
         b.slot[s] = None, b.psrv[s] = None, ~b.cur[s],
         b.assigned[s] <=> b.target[s] \in Servers, NEW o \in Enqueue(b, s)
  PROVE  Seated(a, o, s)
<1> DEFINE c == PendconnAdd(b, s)
<1>1. Booked(c) /\ Aside(b, c, s) /\ c.psrv[s] # None /\ c.cur = b.cur
  BY AddKeeps
<1> HIDE DEF c
<1>2. Aside(a, c, s)
  BY <1>1, AsideAll
<1>3. o = Outcome(c, "QUEUED") \/ o = Outcome(b, "INTERNAL")
  BY DEF Enqueue, c
<1>4. CASE o = Outcome(c, "QUEUED")
  <2>1. o.b = c /\ o.err = "QUEUED"
    BY <1>4 DEF Outcome
  <2> QED BY <1>1, <1>2, <2>1 DEF Seated
<1>5. CASE o = Outcome(b, "INTERNAL")
  <2>1. o.b = b /\ o.err = "INTERNAL"
    BY <1>5 DEF Outcome
  <2> QED BY <2>1 DEF Seated
<1> QED BY <1>3, <1>4, <1>5

\* A slot is reserved only where one is free.
LEMMA ReserveIs ==
  ASSUME NEW b, NEW s \in Sessions, NEW o, Asked(b, o, s), NEW r \in ReserveOrQueue(o, s)
  PROVE  Seated(b, r, s)
<1> DEFINE v == o.b.target[s]
           d == SessChangeServer(o.b, s, v)
<1>1. /\ Booked(o.b) /\ Aside(b, o.b, s) /\ o.b.psrv[s] = None /\ ~o.b.cur[s]
      /\ o.b \in Ledgers /\ Coherent(o.b, s) /\ None \notin Servers
  BY QueueAssumption DEF Asked, Booked
<1>2. CASE o.err = "FULL"
  <2>1. r \in Enqueue(o.b, s)
    BY <1>2 DEF ReserveOrQueue
  <2>2. ~o.b.assigned[s] /\ o.b.target[s] \notin Servers /\ o.b.slot[s] = None
    BY <1>1, <1>2 DEF Asked
  <2> QED BY <1>1, <2>1, <2>2, EnqueueIs
<1>3. CASE o.err = "NOSRV"
  <2>1. r = o
    BY <1>3 DEF ReserveOrQueue
  <2> QED BY <1>3, <2>1 DEF Asked, Seated
<1>4. CASE o.err = "OK" /\ o.b.slot[s] = v
  <2>1. r = o
    BY <1>4 DEF ReserveOrQueue
  <2>2. o.b.slot[s] # None
    BY <1>1, <1>4 DEF Asked
  <2> QED BY <1>1, <1>4, <2>1, <2>2 DEF Seated
<1>5. CASE o.err = "OK" /\ o.b.slot[s] # v
  <2>1. v \in Servers /\ o.b.assigned[s] /\ o.b.slot[s] = None
    BY <1>1, <1>5 DEF Asked, Coherent
  <2>2. \/ r = Outcome(o.b, "FULL") \/ r \in Enqueue(o.b, s)
        \/ r = Outcome(d, "OK") /\ ~(o.b.served[v] >= SrvDynamicMaxconn(o.b, v))
    BY <1>5 DEF ReserveOrQueue
  <2>3. CASE r = Outcome(o.b, "FULL")
    <3>1. r.b = o.b /\ r.err = "FULL"
      BY <2>3 DEF Outcome
    <3> QED BY <1>1, <2>1, <3>1 DEF Seated
  <2>4. CASE r \in Enqueue(o.b, s)
    BY <1>1, <2>1, <2>4, EnqueueIs
  <2>5. CASE r = Outcome(d, "OK") /\ ~(o.b.served[v] >= SrvDynamicMaxconn(o.b, v))
    <3>1. r.b = d /\ r.err = "OK"
      BY <2>5 DEF Outcome
    <3>2. o.b.served[v] < MaxConn[v]
      <4>1. o.b.served[v] \in Int /\ MaxConn[v] \in Int
        BY <1>1, <2>1, QueueAssumption DEF Ledgers
      <4>2. SrvDynamicMaxconn(o.b, v) \in Int /\ SrvDynamicMaxconn(o.b, v) <= MaxConn[v]
        BY <1>1, <2>1, DynamicBound
      <4> QED BY <2>5, <4>1, <4>2
    <3>3. Booked(d) /\ Aside(o.b, d, s) /\ d.slot[s] = v /\ d.cur = o.b.cur
      BY <1>1, <2>1, <3>2, ChangeKeeps
    <3> HIDE DEF d, v
    <3>4. Aside(b, d, s)
      BY <1>1, <3>3, AsideAll
    <3> QED BY <1>1, <2>1, <3>1, <3>3, <3>4 DEF Seated
  <2> QED BY <2>2, <2>3, <2>4, <2>5
<1> QED BY <1>2, <1>3, <1>4, <1>5 DEF Asked

\* assign_server_and_queue() seats a session that asks.
LEMMA SeatedIs ==
  ASSUME NEW b, Booked(b), NEW s \in Sessions, b.psrv[s] = None, ~b.cur[s],
         b.assigned[s] => b.target[s] \in Servers, up \subseteq Servers,
         NEW r \in AssignServerAndQueue(b, s)
  PROVE  Seated(b, r, s)
<1>1. PICK o : /\ o \in IF b.assigned[s] THEN {Outcome(b, "OK")} ELSE AssignServer(b, s)
               /\ r \in ReserveOrQueue(o, s)
  BY DEF AssignServerAndQueue
<1>2. CASE b.assigned[s]
  <2>1. o.b = b /\ o.err = "OK"
    BY <1>1, <1>2 DEF Outcome
  <2>2. Aside(b, b, s)
    BY DEF Aside, Same
  <2>3. Asked(b, o, s)
    BY <1>2, <2>1, <2>2 DEF Asked
  <2> QED BY <1>1, <2>3, ReserveIs
<1>3. CASE ~b.assigned[s]
  <2>1. Asked(b, o, s)
    BY <1>1, <1>3, AssignServerIs
  <2> QED BY <1>1, <2>1, ReserveIs
<1> QED BY <1>2, <1>3

-----------------------------------------------------------------------------
(* Servers that go down and come up.                                       *)

\* A session has lost its place in a queue and been woken to ask again.
Ousted(b, c, t) ==
  /\ b.psrv[t] # None /\ c.psrv[t] = None /\ ~c.assigned[t]
  /\ c.cur[t] = b.cur[t] /\ t \in c.woken

\* A server's queue that is dissolved: everybody in it is woken.
LEMMA RedistributeKeeps ==
  ASSUME NEW b, Booked(b), NEW v \in Servers
  PROVE  LET c == PendconnRedistribute(b, v)
         IN  /\ Booked(c) /\ c.beconn = b.beconn
             /\ \A t \in Sessions :
                   Same(b, c, t) \/ Ousted(b, c, t)
<1> DEFINE c == PendconnRedistribute(b, v)
           gone == Range(b.queue[v])
           queue == [b.queue EXCEPT ![v] = <<>>]
           nbpend == [b.nbpend EXCEPT ![v] = b.nbpend[v] - Len(b.queue[v])]
           psrv == [t \in Sessions |-> IF t \in gone THEN None ELSE b.psrv[t]]
           assigned == [t \in Sessions |-> b.assigned[t] /\ t \notin gone]
           woken == b.woken \cup gone
<1>1. CASE ~Redisp \/ Persist
  <2>1. c = b
    BY <1>1 DEF PendconnRedistribute
  <2> QED BY <2>1 DEF Same
<1>2. CASE ~(~Redisp \/ Persist)
  <2>1. b \in Ledgers /\ v \in Queues /\ None \notin Queues
    BY QueueAssumption DEF Booked, Queues
  <2>2. /\ b.queue \in [Queues -> Seq(Sessions)] /\ b.nbpend \in [Queues -> Int]
        /\ b.psrv \in [Sessions -> Queues \cup {None}] /\ b.assigned \in [Sessions -> BOOLEAN]
        /\ b.woken \in SUBSET Sessions
    BY <2>1 DEF Ledgers
  <2>3. gone = {t \in Sessions : b.psrv[t] = v}
    BY <2>1 DEF Booked
  <2>4. b.nbpend[v] - Len(b.queue[v]) = 0
    BY <2>1, <2>2 DEF Booked
  <2>5. c = [b EXCEPT !.queue = queue, !.nbpend = nbpend, !.psrv = psrv,
                      !.assigned = assigned, !.woken = woken]
    BY <1>2, <2>1 DEF PendconnRedistribute, Ledgers
  <2> HIDE DEF gone
  <2>6. /\ queue \in [Queues -> Seq(Sessions)] /\ nbpend \in [Queues -> Int]
        /\ psrv \in [Sessions -> Queues \cup {None}] /\ assigned \in [Sessions -> BOOLEAN]
        /\ woken \in SUBSET Sessions
    <3>1. /\ <<>> \in Seq(Sessions) /\ b.nbpend[v] - Len(b.queue[v]) \in Int /\ gone \subseteq Sessions
          /\ \A t \in Sessions : b.assigned[t] \in BOOLEAN /\ b.psrv[t] \in Queues \cup {None}
      BY <2>2, <2>3, <2>4
    <3> QED BY <2>2, <3>1
  <2>7. /\ \A t \in Sessions : /\ t \in gone => psrv[t] = None /\ ~assigned[t] /\ t \in woken
                               /\ t \notin gone => /\ psrv[t] = b.psrv[t]
                                                   /\ assigned[t] <=> b.assigned[t]
                               /\ t \in b.woken => t \in woken
        /\ queue[v] = <<>> /\ nbpend[v] = 0
        /\ \A x \in Queues : x # v => queue[x] = b.queue[x] /\ nbpend[x] = b.nbpend[x]
    BY <2>1, <2>2, <2>4
  <2> HIDE DEF c, queue, nbpend, psrv, assigned, woken
  <2>8. /\ c \in Ledgers /\ c.queue = queue /\ c.nbpend = nbpend /\ c.psrv = psrv
        /\ c.assigned = assigned /\ c.woken = woken
        /\ c.slot = b.slot /\ c.target = b.target
        /\ c.cur = b.cur /\ c.beconn = b.beconn
        /\ c.served = b.served /\ c.curSess = b.curSess
    BY <2>1, <2>5, <2>6 DEF Ledgers
  <2>9. ASSUME NEW t \in Sessions PROVE Coherent(c, t)
    <3>1. Coherent(b, t)
      BY DEF Booked
    <3>2. CASE t \in gone
      <4>1. b.psrv[t] # None
        BY <2>1, <2>3, <3>2
      <4> QED BY <2>7, <2>8, <3>1, <3>2, <4>1 DEF Coherent
    <3>3. CASE t \notin gone
      BY <2>7, <2>8, <3>1, <3>3 DEF Coherent
    <3> QED BY <3>2, <3>3
  <2>10. ASSUME NEW x \in Queues
        PROVE  /\ queue[x] \in Seq(Sessions) /\ nbpend[x] = Len(queue[x]) /\ IsInjective(queue[x])
               /\ Range(queue[x]) = {t \in Sessions : psrv[t] = x}
    <3>1. CASE x = v
      <4>1. \A t \in Sessions : psrv[t] # x
        BY <2>1, <2>3, <2>7, <3>1
      <4>2. /\ <<>> \in Seq(Sessions) /\ Len(<<>>) = 0 /\ IsInjective(<<>>) /\ Range(<<>>) = {}
        BY DEF IsInjective, Range
      <4> QED BY <2>7, <3>1, <4>1, <4>2
    <3>2. CASE x # v
      <4>1. /\ b.nbpend[x] = Len(b.queue[x]) /\ IsInjective(b.queue[x])
            /\ Range(b.queue[x]) = {t \in Sessions : b.psrv[t] = x}
        BY DEF Booked
      <4>2. \A t \in Sessions : psrv[t] = x <=> b.psrv[t] = x
        BY <2>1, <2>3, <2>7, <3>2
      <4> QED BY <2>2, <2>7, <3>2, <4>1, <4>2
    <3> QED BY <3>1, <3>2
  <2>11. Booked(c)
    BY <2>8, <2>9, <2>10, QueuesOnly
  <2>12. ASSUME NEW t \in Sessions
         PROVE  Same(b, c, t) \/ Ousted(b, c, t)
    <3>1. CASE t \in gone
      BY <2>1, <2>3, <2>7, <2>8, <3>1 DEF Ousted
    <3>2. CASE t \notin gone
      <4>1. c.assigned[t] = b.assigned[t]
        <5>1. assigned[t] \in BOOLEAN /\ b.assigned[t] \in BOOLEAN
          BY <2>2, <2>6
        <5>2. assigned[t] <=> b.assigned[t]
          BY <2>7, <3>2
        <5>3. assigned[t] = b.assigned[t]
          BY <5>1, <5>2, Zenon
        <5> QED BY <2>8, <5>3
      <4> QED BY <2>7, <2>8, <3>2, <4>1 DEF Same
    <3> QED BY <3>1, <3>2
  <2> QED BY <2>8, <2>11, <2>12 DEF c
<1> QED BY <1>1, <1>2

\* The tail of a queue, and who was before it.
LEMMA TailIs ==
  ASSUME NEW S, NEW l \in Seq(S), IsInjective(l), NEW n \in 0..Len(l)
  PROVE  LET r == SubSeq(l, n + 1, Len(l))
         IN  /\ r \in Seq(S) /\ Len(r) = Len(l) - n /\ IsInjective(r)
             /\ Range(r) = Range(l) \ {l[i] : i \in 1..n}
             /\ {l[i] : i \in 1..n} \subseteq Range(l)
<1> DEFINE r == SubSeq(l, n + 1, Len(l))
           m == Len(l)
           k == m - n
           first == {l[i] : i \in 1..n}
<1>1. m \in Nat /\ n \in 0..m /\ k \in Nat /\ k + n = m
  OBVIOUS
<1>2. r \in Seq(S) /\ Len(r) = k /\ \A j \in 1..k : r[j] = l[j + n]
  BY SubSeqProperties
<1> HIDE DEF r
<1>3. \A i, j \in 1..m : l[i] = l[j] => i = j
  BY DEF IsInjective
<1> HIDE DEF m, k
<1>4. \A j \in 1..k : j + n \in 1..m
  BY <1>1
<1>5. IsInjective(r)
  <2>1. DOMAIN r = 1..k
    BY <1>1, <1>2
  <2>2. ASSUME NEW i \in 1..k, NEW j \in 1..k, r[i] = r[j] PROVE i = j
    <3>1. i + n = j + n
      BY <1>2, <1>3, <1>4, <2>2
    <3> QED BY <1>1, <3>1
  <2> QED BY <2>1, <2>2 DEF IsInjective
<1>6. ASSUME NEW x PROVE x \in Range(r) <=> x \in Range(l) \ first
  <2>1. x \in Range(r) <=> \E j \in 1..k : r[j] = x
    BY <1>2, InSeq
  <2>2. x \in Range(l) <=> \E j \in 1..m : l[j] = x
    BY InSeq DEF m
  <2>3. x \in first <=> \E i \in 1..n : l[i] = x
    OBVIOUS
  <2> HIDE DEF first
  <2>4. ASSUME x \in Range(r) PROVE x \in Range(l) \ first
    <3>1. PICK j \in 1..k : r[j] = x
      BY <2>1, <2>4
    <3>2. l[j + n] = x /\ j + n \in 1..m
      BY <1>2, <1>4, <3>1
    <3>3. ASSUME NEW i \in 1..n, l[i] = x PROVE FALSE
      <4>1. i \in 1..m /\ i # j + n
        BY <1>1
      <4> QED BY <1>3, <3>2, <3>3, <4>1
    <3> QED BY <2>2, <2>3, <3>2, <3>3
  <2>5. ASSUME x \in Range(l) \ first PROVE x \in Range(r)
    <3>1. PICK j \in 1..m : l[j] = x
      BY <2>2, <2>5
    <3>2. j \notin 1..n
      BY <2>3, <2>5, <3>1
    <3>3. j - n \in 1..k /\ (j - n) + n = j
      BY <1>1, <3>2
    <3> QED BY <1>2, <2>1, <3>1, <3>3
  <2> QED BY <2>4, <2>5
<1>7. first \subseteq Range(l)
  <2>1. \A i \in 1..n : i \in 1..m
    BY <1>1
  <2> QED BY <2>1, InSeq DEF m
<1> QED BY <1>2, <1>5, <1>6, <1>7 DEF r, k, m

\* The sessions a server takes from the backend's queue are woken with it as target.
LEMMA GrabKeeps ==
  ASSUME NEW b, Booked(b), NEW v \in Servers
  PROVE  LET c == PendconnGrabFromPx(b, v)
         IN  /\ Booked(c) /\ c.beconn = b.beconn
             /\ \A t \in Sessions :
                   Same(b, c, t) \/ Ousted(b, c, t)
<1> DEFINE c == PendconnGrabFromPx(b, v)
           l == b.queue[Px]
           n == Min({SrvDynamicMaxconn(b, v), b.nbpend[Px]})
           take == {l[i] : i \in 1..n}
           r == SubSeq(l, n + 1, Len(l))
           queue == [b.queue EXCEPT ![Px] = r]
           nbpend == [b.nbpend EXCEPT ![Px] = b.nbpend[Px] - n]
           psrv == [t \in Sessions |-> IF t \in take THEN None ELSE b.psrv[t]]
           target == [t \in Sessions |-> IF t \in take THEN v ELSE b.target[t]]
           woken == b.woken \cup take
<1>1. b \in Ledgers /\ Px \in Queues /\ None \notin Queues /\ Px \notin Servers
  BY QueueAssumption DEF Booked, Queues
<1>2. /\ b.queue \in [Queues -> Seq(Sessions)] /\ b.nbpend \in [Queues -> Int]
      /\ b.psrv \in [Sessions -> Queues \cup {None}] /\ b.woken \in SUBSET Sessions
      /\ b.target \in [Sessions -> Servers \cup {None}]
  BY <1>1 DEF Ledgers
<1>3. /\ l \in Seq(Sessions) /\ IsInjective(l) /\ b.nbpend[Px] = Len(l)
      /\ Range(l) = {t \in Sessions : b.psrv[t] = Px}
  BY <1>1, <1>2 DEF Booked
<1>4. n \in 0..Len(l)
  <2> DEFINE k == SrvDynamicMaxconn(b, v)
             m == b.nbpend[Px]
  <2>1. k \in Nat /\ m \in Nat /\ m = Len(l)
    BY <1>1, <1>3, DynamicBound
  <2> HIDE DEF k, m
  <2>2. {k, m} \in SUBSET Nat /\ {k, m} # {}
    BY <2>1
  <2>3. Min({k, m}) \in {k, m} /\ Min({k, m}) <= m
    BY <2>2, LeastIsMin
  <2>4. Min({k, m}) \in 0..Len(l)
    BY <2>1, <2>3
  <2> QED BY <2>4 DEF k, m
<1>5. c = [b EXCEPT !.queue = queue, !.nbpend = nbpend, !.psrv = psrv,
                    !.target = target, !.woken = woken]
  BY <1>1 DEF PendconnGrabFromPx, Ledgers
<1> HIDE DEF c, l, n
<1>6. /\ r \in Seq(Sessions) /\ Len(r) = Len(l) - n /\ IsInjective(r)
      /\ Range(r) = Range(l) \ take /\ take \subseteq Range(l)
  BY <1>3, <1>4, TailIs
<1> HIDE DEF r, take
<1>7. take \subseteq {t \in Sessions : b.psrv[t] = Px}
  BY <1>3, <1>6
<1>8. /\ queue \in [Queues -> Seq(Sessions)] /\ nbpend \in [Queues -> Int]
      /\ psrv \in [Sessions -> Queues \cup {None}] /\ target \in [Sessions -> Servers \cup {None}]
      /\ woken \in SUBSET Sessions
  <2>1. b.nbpend[Px] - n \in Int
    BY <1>1, <1>2, <1>4
  <2>2. \A t \in Sessions : b.psrv[t] \in Queues \cup {None} /\ b.target[t] \in Servers \cup {None}
    BY <1>2
  <2> QED BY <1>2, <1>6, <1>7, <2>1, <2>2
<1>9. /\ \A t \in Sessions : /\ t \in take => psrv[t] = None /\ t \in woken
                             /\ t \notin take => psrv[t] = b.psrv[t] /\ target[t] = b.target[t]
                             /\ t \in b.woken => t \in woken
      /\ queue[Px] = r /\ nbpend[Px] = b.nbpend[Px] - n
      /\ \A x \in Queues : x # Px => queue[x] = b.queue[x] /\ nbpend[x] = b.nbpend[x]
  BY <1>1, <1>2
<1> HIDE DEF queue, nbpend, psrv, target, woken
<1>10. /\ c \in Ledgers /\ c.queue = queue /\ c.nbpend = nbpend /\ c.psrv = psrv
       /\ c.target = target /\ c.woken = woken
       /\ c.slot = b.slot /\ c.assigned = b.assigned
       /\ c.cur = b.cur /\ c.beconn = b.beconn
       /\ c.served = b.served /\ c.curSess = b.curSess
  BY <1>1, <1>5, <1>8 DEF Ledgers
<1>11. ASSUME NEW t \in take
       PROVE  /\ t \in Sessions /\ b.slot[t] = None /\ ~b.cur[t] /\ ~b.assigned[t]
              /\ b.psrv[t] # None
  <2>1. t \in Sessions /\ b.psrv[t] = Px
    BY <1>7
  <2>2. Coherent(b, t)
    BY <2>1 DEF Booked
  <2> QED BY <1>1, <2>1, <2>2 DEF Coherent
<1>12. ASSUME NEW t \in Sessions PROVE Coherent(c, t)
  <2>1. Coherent(b, t)
    BY DEF Booked
  <2>2. CASE t \in take
    BY <1>9, <1>10, <1>11, <2>2 DEF Coherent
  <2>3. CASE t \notin take
    BY <1>9, <1>10, <2>1, <2>3 DEF Coherent
  <2> QED BY <2>2, <2>3
<1>13. ASSUME NEW x \in Queues
       PROVE  /\ queue[x] \in Seq(Sessions) /\ nbpend[x] = Len(queue[x]) /\ IsInjective(queue[x])
              /\ Range(queue[x]) = {t \in Sessions : psrv[t] = x}
  <2>1. CASE x = Px
    <3>1. Range(r) = {t \in Sessions : psrv[t] = x}
      BY <1>1, <1>3, <1>6, <1>9, <2>1
    <3> QED BY <1>3, <1>6, <1>9, <2>1, <3>1
  <2>2. CASE x # Px
    <3>1. /\ b.nbpend[x] = Len(b.queue[x]) /\ IsInjective(b.queue[x])
          /\ Range(b.queue[x]) = {t \in Sessions : b.psrv[t] = x}
      BY DEF Booked
    <3>2. \A t \in Sessions : psrv[t] = x <=> b.psrv[t] = x
      BY <1>1, <1>7, <1>9, <2>2
    <3> QED BY <1>2, <1>9, <2>2, <3>1, <3>2
  <2> QED BY <2>1, <2>2
<1>14. \A t \in Sessions : c.cur[t] => c.target[t] = b.target[t]
  BY <1>9, <1>10, <1>11
<1>15. Booked(c)
  BY <1>10, <1>12, <1>13, <1>14, QueuesOnly
<1>16. ASSUME NEW t \in Sessions
       PROVE  Same(b, c, t) \/ Ousted(b, c, t)
  <2>1. CASE t \in take
    BY <1>9, <1>10, <1>11, <2>1 DEF Ousted
  <2>2. CASE t \notin take
    BY <1>9, <1>10, <2>2 DEF Same
  <2> QED BY <2>1, <2>2
<1> QED BY <1>10, <1>15, <1>16 DEF c

-----------------------------------------------------------------------------
(* Every step.                                                             *)

\* What others do to a session fits the state it is in.
LEMMA FitsKept ==
  ASSUME NEW b, NEW c, NEW t, NEW state, Fits(b, t, state),
         Same(b, c, t) \/ Given(b, c, t) \/ Ousted(b, c, t)
  PROVE  Fits(c, t, state)
  BY DEF Fits, Same, Given, Ousted

\* A step of s: the count of the backend's sessions, then what the call does.
LEMMA StepKeeps ==
  ASSUME QueueInv, NEW s \in Sessions, NEW state, st' = [st EXCEPT ![s] = state],
         NEW b, \A t \in Sessions : Same(q, b, t),
         b.beconn = q.beconn + (IF state = "INI" THEN 0 ELSE 1)
                             - (IF st[s] = "INI" THEN 0 ELSE 1),
         Booked(q'), Aside(b, q', s), Fits(q', s, state), up' \subseteq Servers
  PROVE  QueueInv'
<1>1. st \in [Sessions -> States] /\ state \in States
  BY DEF QueueInv, Fits
<1>2. st' \in [Sessions -> States] /\ st'[s] = state /\ \A t \in Sessions : t # s => st'[t] = st[t]
  BY <1>1
<1>3. ASSUME NEW t \in Sessions PROVE Fits(q', t, st'[t])
  <2>1. CASE t = s
    BY <1>2, <2>1
  <2>2. CASE t # s
    <3>1. Fits(q, t, st[t])
      BY DEF QueueInv
    <3>2. Fits(b, t, st[t])
      BY <3>1, FitsKept
    <3>3. Same(b, q', t) \/ Given(b, q', t)
      BY <2>2 DEF Aside
    <3>4. Fits(q', t, st[t])
      BY <3>2, <3>3, FitsKept
    <3> QED BY <1>2, <2>2, <3>4
  <2> QED BY <2>1, <2>2
<1>4. q'.beconn = Cardinality({t \in Sessions : st'[t] # "INI"})
  <2> DEFINE A == {t \in Sessions : st[t] # "INI"}
             B == {t \in Sessions : st'[t] # "INI"}
  <2>1. /\ A \in SUBSET Sessions /\ B \in SUBSET Sessions
        /\ \A t \in Sessions : t # s => (t \in A <=> t \in B)
        /\ s \in A <=> st[s] # "INI"
        /\ s \in B <=> state # "INI"
    BY <1>2
  <2>2. q.beconn = Cardinality(A)
    BY DEF QueueInv
  <2>3. q'.beconn = b.beconn
    BY DEF Aside
  <2> HIDE DEF A, B
  <2>4. /\ Cardinality(A) \in Nat /\ Cardinality(B) \in Nat
        /\ Cardinality(B) = Cardinality(A) + (IF s \in B THEN 1 ELSE 0)
                                          - (IF s \in A THEN 1 ELSE 0)
    BY <2>1, CountStep
  <2>5. q'.beconn = Cardinality(B)
    BY <2>1, <2>2, <2>3, <2>4
  <2> QED BY <2>5 DEF B
<1> QED BY <1>2, <1>3, <1>4 DEF QueueInv

\* A step inside a session's request.
LEMMA InsideKeeps ==
  ASSUME QueueInv, NEW s \in Sessions, NEW state, st' = [st EXCEPT ![s] = state],
         st[s] # "INI", state # "INI",
         Booked(q'), Aside(q, q', s), Fits(q', s, state), up' = up
  PROVE  QueueInv'
<1>1. q.beconn = q.beconn + (IF state = "INI" THEN 0 ELSE 1) - (IF st[s] = "INI" THEN 0 ELSE 1)
  <2>1. q.beconn \in Int
    BY DEF QueueInv, Booked, Ledgers
  <2> QED BY <2>1
<1>2. \A t \in Sessions : Same(q, q, t)
  BY DEF Same
<1>3. up' \subseteq Servers
  BY DEF QueueInv
<1> QED BY <1>1, <1>2, <1>3, StepKeeps

\* A call that starts with an event and moves on.
LEMMA EventKeeps ==
  ASSUME QueueInv, NEW s \in Sessions, NEW from, NEW state, Event(s, from, state),
         from # "INI", state \in {"REQ", "ASS", "EST", "DIS", "CLO"},
         state = "ASS" => from \in {"QUE", "TAR"} /\ q.psrv[s] = None /\ q.assigned[s],
         state = "REQ" => q.psrv[s] = None /\ ~q.assigned[s],
         state = "EST" => from = "CON",
         state \in {"REQ", "ASS", "CLO"} => from \in {"QUE", "TAR"}
  PROVE  QueueInv'
<1> DEFINE c == Calm(q, s)
<1>1. Booked(q) /\ Fits(q, s, from)
  BY DEF QueueInv, Event
<1>2. /\ Booked(c) /\ Aside(q, c, s)
      /\ c.slot = q.slot /\ c.target = q.target /\ c.assigned = q.assigned
      /\ c.cur = q.cur /\ c.psrv = q.psrv
  BY <1>1, CalmKeeps
<1>3. /\ q' = c /\ st' = [st EXCEPT ![s] = state] /\ st[s] = from /\ up' = up
  BY DEF Event, Goto
<1> HIDE DEF c
<1>4. Fits(c, s, state)
  BY <1>1, <1>2 DEF Fits, States
<1> QED BY <1>2, <1>3, <1>4, InsideKeeps

\* The events on the server side.
LEMMA EventsStep ==
  ASSUME QueueInv, NEW s \in Sessions,
         \/ Established(s) \/ ConnAborted(s) \/ ServerClosed(s)
         \/ Dequeued(s) \/ QueueTimeout(s) \/ QueueAborted(s)
         \/ TarExpired(s) \/ TarAborted(s)
  PROVE  QueueInv'
<1> DEFINE next == IF q.assigned[s] THEN "ASS" ELSE "REQ"
<1>1. Fits(q, s, st[s])
  BY DEF QueueInv
<1>2. ASSUME NEW from, NEW state, Event(s, from, state),
             \/ from = "CON" /\ state \in {"EST", "DIS"}
             \/ from = "EST" /\ state = "DIS"
             \/ from \in {"QUE", "TAR"} /\ state \in {"DIS", "CLO"}
             \/ from \in {"QUE", "TAR"} /\ q.psrv[s] = None /\ state = next
      PROVE  QueueInv'
  BY <1>2, EventKeeps
<1> HIDE DEF next
<1>3. CASE Established(s) \/ ConnAborted(s) \/ ServerClosed(s)
  BY <1>2, <1>3 DEF Established, ConnAborted, ServerClosed
<1>4. CASE QueueTimeout(s) \/ QueueAborted(s) \/ TarAborted(s)
  BY <1>2, <1>4 DEF QueueTimeout, QueueAborted, TarAborted
<1>5. CASE Dequeued(s)
  <2>1. q.psrv[s] = None /\ Event(s, "QUE", next)
    BY <1>5 DEF Dequeued, next
  <2> QED BY <1>2, <2>1
<1>6. CASE TarExpired(s)
  <2>1. Event(s, "TAR", next)
    BY <1>6 DEF TarExpired, next
  <2>2. q.psrv[s] = None
    BY <1>1, <2>1 DEF Fits, Event
  <2> QED BY <1>2, <2>1, <2>2
<1> QED BY <1>3, <1>4, <1>5, <1>6

\* A request begins.
LEMMA NewRequestStep ==
  ASSUME QueueInv, NEW s \in Sessions, NEW v \in Sticky \cup {None}, NewRequest(s, v)
  PROVE  QueueInv'
<1> DEFINE b == [q EXCEPT !.beconn = q.beconn + 1]
           c == q'
           target == [q.target EXCEPT ![s] = v]
           assigned == [q.assigned EXCEPT ![s] = (v # None)]
<1>1. /\ Booked(q) /\ q \in Ledgers /\ Fits(q, s, "INI") /\ st[s] = "INI"
      /\ v \in Servers \cup {None}
  BY QueueAssumption DEF QueueInv, Booked, NewRequest
<1>2. /\ q.target \in [Sessions -> Servers \cup {None}] /\ q.assigned \in [Sessions -> BOOLEAN]
      /\ q.beconn + 1 \in Int /\ q.beconn \in Int
  BY <1>1 DEF Ledgers
<1>3. q.slot[s] = None /\ q.psrv[s] = None /\ ~q.cur[s]
  BY <1>1 DEF Fits
<1>4. c = [b EXCEPT !.target = target, !.assigned = assigned]
  BY <1>1 DEF NewRequest, Ledgers
<1>5. /\ Booked(b) /\ b.beconn = q.beconn + 1
      /\ b.slot = q.slot /\ b.target = q.target /\ b.assigned = q.assigned
      /\ b.psrv = q.psrv /\ b.cur = q.cur /\ b.woken = q.woken
  BY <1>1, <1>2, BeconnKeeps
<1>6. /\ target \in [Sessions -> Servers \cup {None}] /\ assigned \in [Sessions -> BOOLEAN]
      /\ target[s] = v /\ (assigned[s] => v # None)
      /\ \A t \in Sessions : t # s => target[t] = q.target[t] /\ assigned[t] = q.assigned[t]
  BY <1>1, <1>2
<1>7. st' = [st EXCEPT ![s] = "REQ"] /\ up' \subseteq Servers
  BY DEF NewRequest, Goto, QueueInv
<1> HIDE DEF b, c, target, assigned
<1>8. b \in Ledgers
  BY <1>5 DEF Booked
<1>9. /\ c \in Ledgers /\ c.target = target /\ c.assigned = assigned
      /\ c.queue = b.queue /\ c.nbpend = b.nbpend /\ c.psrv = b.psrv
      /\ c.cur = b.cur /\ c.curSess = b.curSess
      /\ c.slot = b.slot /\ c.served = b.served /\ c.beconn = b.beconn
      /\ c.woken = b.woken
  BY <1>4, <1>6, <1>8 DEF Ledgers
<1>10. Booked(c) /\ Aside(b, c, s)
  BY <1>3, <1>5, <1>6, <1>9, RetargetKeeps
<1>11. Fits(c, s, "REQ")
  BY <1>1, <1>3, <1>5, <1>6, <1>9 DEF Fits, States
<1>12. \A t \in Sessions : Same(q, b, t)
  BY <1>5 DEF Same
<1> DEFINE state == "REQ"
<1>13. /\ st' = [st EXCEPT ![s] = state] /\ Fits(c, s, state)
       /\ b.beconn = q.beconn + (IF state = "INI" THEN 0 ELSE 1) - (IF st[s] = "INI" THEN 0 ELSE 1)
  BY <1>1, <1>2, <1>5, <1>7, <1>11
<1> HIDE DEF state
<1> QED BY <1>7, <1>10, <1>12, <1>13, StepKeeps DEF c

\* The session asks for a server.
LEMMA PrepareStep ==
  ASSUME QueueInv, NEW s \in Sessions, PrepareConnReq(s)
  PROVE  QueueInv'
<1>1. /\ Booked(q) /\ Fits(q, s, "REQ") /\ st[s] = "REQ" /\ up \subseteq Servers /\ up' = up
  BY DEF QueueInv, PrepareConnReq
<1>2. q.psrv[s] = None /\ ~q.cur[s] /\ (q.assigned[s] => q.target[s] \in Servers)
  BY <1>1 DEF Fits
<1> DEFINE redo(o) == o.err = "FULL" /\ direct[s] /\ Redisp
           ledger(o) == CASE o.err = "INTERNAL" -> Offer(o.b, o.b.target[s])
                          [] redo(o) -> Unassign(o.b, s)
                          [] OTHER -> o.b
           goal(o) == CASE o.err = "OK" -> "ASS"
                        [] o.err = "QUEUED" -> "QUE"
                        [] redo(o) -> "REQ"
                        [] OTHER -> "CLO"
<1>3. PICK o \in AssignServerAndQueue(q, s) : q' = ledger(o) /\ st' = [st EXCEPT ![s] = goal(o)]
  BY DEF PrepareConnReq, Goto
<1>4. Seated(q, o, s)
  BY <1>1, <1>2, SeatedIs
<1> DEFINE c == ledger(o)
           state == goal(o)
<1>5. Booked(c) /\ Aside(q, c, s) /\ Fits(c, s, state) /\ state # "INI"
  <2>1. /\ Booked(o.b) /\ Aside(q, o.b, s) /\ ~o.b.cur[s] /\ Coherent(o.b, s)
        /\ o.err \in {"OK", "QUEUED", "FULL", "NOSRV", "INTERNAL"}
    BY <1>4 DEF Seated, Booked
  <2>2. CASE o.err = "OK"
    <3>1. c = o.b /\ state = "ASS"
      BY <2>2
    <3>2. o.b.slot[s] # None /\ o.b.psrv[s] = None
      BY <1>4, <2>1, <2>2 DEF Seated, Coherent
    <3> QED BY <2>1, <3>1, <3>2 DEF Fits, States
  <2>3. CASE o.err = "QUEUED"
    <3>1. c = o.b /\ state = "QUE"
      BY <2>3
    <3>2. o.b.psrv[s] # None
      BY <1>4, <2>3 DEF Seated
    <3> QED BY <2>1, <3>1, <3>2 DEF Fits, States
  <2>4. CASE redo(o)
    <3>1. c = Unassign(o.b, s) /\ state = "REQ"
      BY <2>4
    <3>2. o.b.psrv[s] = None /\ o.b.slot[s] = None
      BY <1>4, <2>4 DEF Seated
    <3> HIDE DEF ledger, goal
    <3> DEFINE d == Unassign(o.b, s)
    <3>3. /\ Booked(d) /\ Aside(o.b, d, s) /\ d.assigned[s] = FALSE
          /\ d.slot = o.b.slot /\ d.psrv = o.b.psrv /\ d.cur = o.b.cur
      BY <2>1, <3>2, UnassignKeeps
    <3> HIDE DEF d
    <3>4. Aside(q, d, s)
      BY <2>1, <3>3, AsideAll
    <3>5. Fits(d, s, "REQ")
      BY <2>1, <3>2, <3>3 DEF Fits, States
    <3> QED BY <3>1, <3>3, <3>4, <3>5 DEF d
  <2>5. CASE o.err = "INTERNAL"
    <3> DEFINE d == Offer(o.b, o.b.target[s])
    <3>1. c = d /\ state = "CLO"
      BY <2>5
    <3> HIDE DEF ledger, goal
    <3>2. Booked(d) /\ Handed(o.b, d)
      BY <2>1, OfferKeeps
    <3> HIDE DEF d
    <3>3. Aside(q, d, s) /\ ~d.cur[s]
      BY <2>1, <3>2, AsideAll, HandedSame
    <3>4. Fits(d, s, "CLO")
      BY <3>3 DEF Fits, States
    <3> QED BY <3>1, <3>2, <3>3, <3>4
  <2>6. CASE o.err \in {"FULL", "NOSRV"} /\ ~redo(o)
    <3>1. c = o.b /\ state = "CLO"
      BY <2>6
    <3>2. Fits(o.b, s, "CLO")
      BY <2>1 DEF Fits, States
    <3> QED BY <2>1, <3>1, <3>2
  <2> QED BY <2>1, <2>2, <2>3, <2>4, <2>5, <2>6
<1>6. q' = c /\ st' = [st EXCEPT ![s] = state] /\ st[s] # "INI"
  BY <1>1, <1>3
<1> HIDE DEF c, state
<1> QED BY <1>1, <1>5, <1>6, InsideKeeps

\* The connection to the server starts.
LEMMA ConnectStep ==
  ASSUME QueueInv, NEW s \in Sessions, ConnectServer(s)
  PROVE  QueueInv'
<1> DEFINE state == "CON"
<1>1. /\ Booked(q) /\ Fits(q, s, "ASS") /\ st[s] # "INI" /\ up' = up
      /\ st' = [st EXCEPT ![s] = state]
      /\ q' = [q EXCEPT !.cur[s] = TRUE, !.curSess[q.target[s]] = @ + 1]
  BY DEF QueueInv, ConnectServer, Goto
<1>2. q.slot[s] # None /\ ~q.cur[s] /\ q.psrv[s] = None
  BY <1>1 DEF Fits
<1>3. Booked(q') /\ Aside(q, q', s) /\ q'.slot = q.slot /\ q'.psrv = q.psrv
  BY <1>1, <1>2, ConnectKeeps
<1>4. Fits(q', s, state) /\ state # "INI"
  BY <1>2, <1>3 DEF Fits, States
<1> HIDE DEF state
<1> QED BY <1>1, <1>3, <1>4, InsideKeeps

\* A session gives up its slot, and the server is offered to the waiters.
LEMMA ReleaseKeeps ==
  ASSUME NEW b, Booked(b), NEW s \in Sessions, NEW v
  PROVE  LET c == Offer(SessChangeServer(b, s, None), v)
         IN  /\ Booked(c) /\ Aside(b, c, s) /\ c.cur[s] = b.cur[s]
             /\ b.psrv[s] = None => c.slot[s] = None /\ c.psrv[s] = None
<1> DEFINE a == SessChangeServer(b, s, None)
           c == Offer(a, v)
<1>1. /\ Booked(a) /\ Aside(b, a, s) /\ a.slot[s] = None
      /\ a.cur = b.cur /\ a.psrv = b.psrv
  BY ChangeKeeps
<1> HIDE DEF a
<1>2. Booked(c) /\ Handed(a, c)
  BY <1>1, OfferKeeps
<1> HIDE DEF c
<1>3. Aside(b, c, s) /\ c.cur[s] = b.cur[s] /\ (a.psrv[s] = None => Same(a, c, s))
  BY <1>1, <1>2, AsideAll, HandedSame
<1>4. b.psrv[s] = None => c.slot[s] = None /\ c.psrv[s] = None
  BY <1>1, <1>3 DEF Same
<1> QED BY <1>2, <1>3, <1>4 DEF a, c

\* A failed attempt: the slot is kept for a retry on the same server, else it is offered.
LEMMA StCerKeeps ==
  ASSUME QueueInv, NEW s \in Sessions, st[s] \in {"ASS", "CON"}, NEW err, StCer(s, err)
  PROVE  QueueInv'
<1> DEFINE a == Calm(q, s)
           b == DropCurSess(a, s)
           freed == Offer(SessChangeServer(b, s, None), b.target[s])
           gone == Unassign(freed, s)
           last == retries[s] = 0
           redisp == /\ retries[s] = 1 \/ (~direct[s] /\ Cardinality(up) > 1)
                     /\ Redisp
           delay == err /\ (~redisp \/ Cardinality(up) <= 1)
           c == CASE last -> freed
                  [] ~last /\ redisp -> gone
                  [] OTHER -> b
           state == CASE last -> "CLO"
                      [] ~last /\ delay -> "TAR"
                      [] ~last /\ ~delay /\ redisp -> "REQ"
                      [] OTHER -> "ASS"
<1>1. Booked(q) /\ Fits(q, s, st[s])
  BY DEF QueueInv
<1>2. q.slot[s] # None /\ q.psrv[s] = None
  BY <1>1 DEF Fits, Booked, Coherent
<1>3. /\ Booked(a) /\ Aside(q, a, s)
      /\ a.slot = q.slot /\ a.assigned = q.assigned /\ a.psrv = q.psrv
  BY <1>1, CalmKeeps
<1>4. q' = c /\ st' = [st EXCEPT ![s] = state] /\ up' = up
  BY Zenon DEF StCer, Goto
<1> HIDE DEF a
<1>5. /\ Booked(b) /\ Aside(a, b, s) /\ b.cur[s] = FALSE
      /\ b.slot = a.slot /\ b.assigned = a.assigned /\ b.psrv = a.psrv
  BY <1>3, DropKeeps
<1> HIDE DEF b
<1>6. /\ Booked(freed) /\ Aside(b, freed, s) /\ freed.cur[s] = FALSE
      /\ freed.slot[s] = None /\ freed.psrv[s] = None
  BY <1>2, <1>3, <1>5, ReleaseKeeps
<1> HIDE DEF freed
<1>7. /\ Booked(gone) /\ Aside(freed, gone, s) /\ gone.assigned[s] = FALSE
      /\ gone.cur[s] = FALSE /\ gone.slot[s] = None /\ gone.psrv[s] = None
  BY <1>6, UnassignKeeps
<1> HIDE DEF gone, last, redisp, delay
<1>8. Aside(q, b, s) /\ Aside(q, freed, s) /\ Aside(q, gone, s)
  BY <1>3, <1>5, <1>6, <1>7, AsideAll
<1>9. \/ c = freed /\ state = "CLO"
      \/ c = gone /\ state \in {"TAR", "REQ"}
      \/ c = b /\ state \in {"TAR", "ASS"}
  <2>1. CASE last
    BY <2>1
  <2>2. CASE ~last /\ redisp
    BY <2>2
  <2>3. CASE ~last /\ ~redisp
    BY <2>3
  <2> QED BY <2>1, <2>2, <2>3
<1> HIDE DEF c, state
<1>10. Booked(c) /\ Aside(q, c, s) /\ Fits(c, s, state) /\ state # "INI"
  <2>1. CASE c = freed /\ state = "CLO"
    BY <1>6, <1>8, <2>1 DEF Fits, States
  <2>2. CASE c = gone /\ state \in {"TAR", "REQ"}
    BY <1>7, <1>8, <2>2 DEF Fits, States
  <2>3. CASE c = b /\ state \in {"TAR", "ASS"}
    BY <1>2, <1>3, <1>5, <1>8, <2>3 DEF Fits, States
  <2> QED BY <1>9, <2>1, <2>2, <2>3
<1> QED BY <1>4, <1>10, InsideKeeps

\* The attempt fails before or after it starts.
LEMMA FailsStep ==
  ASSUME QueueInv, NEW s \in Sessions,
         ConnectServerFails(s) \/ \E err \in BOOLEAN : ConnFailed(s, err)
  PROVE  QueueInv'
<1>1. CASE \E err \in BOOLEAN : ConnFailed(s, err)
  BY <1>1, StCerKeeps DEF ConnFailed
<1>2. CASE ConnectServerFails(s) /\ StCer(s, FALSE)
  BY <1>2, StCerKeeps DEF ConnectServerFails
<1>3. CASE ConnectServerFails(s) /\ ~StCer(s, FALSE)
  <2> DEFINE state == "CLO"
             c == Offer(SessChangeServer(q, s, None), q.target[s])
  <2>1. /\ Booked(q) /\ Fits(q, s, "ASS") /\ st[s] # "INI" /\ up' = up
        /\ st' = [st EXCEPT ![s] = state] /\ q' = c
    BY <1>3 DEF QueueInv, ConnectServerFails, Goto
  <2>2. Booked(c) /\ Aside(q, c, s) /\ c.cur[s] = q.cur[s]
    BY <2>1, ReleaseKeeps
  <2> HIDE DEF c
  <2>3. Fits(c, s, state) /\ state # "INI"
    BY <2>1, <2>2 DEF Fits, States
  <2> HIDE DEF state
  <2> QED BY <2>1, <2>2, <2>3, InsideKeeps
<1> QED BY <1>1, <1>2, <1>3

\* The server side was closed, perhaps while the session still waits.
LEMMA DisconnectStep ==
  ASSUME QueueInv, NEW s \in Sessions, Disconnect(s)
  PROVE  QueueInv'
<1> DEFINE state == "CLO"
           b == DropCurSess(q, s)
           c == Offer(SessChangeServer(b, s, None), q.target[s])
<1>1. /\ Booked(q) /\ Coherent(q, s) /\ st[s] # "INI" /\ up' = up
      /\ st' = [st EXCEPT ![s] = state]
      /\ q' = IF q.target[s] \in Servers THEN c ELSE q
  BY DEF QueueInv, Booked, Disconnect, Goto
<1>2. CASE q.target[s] \in Servers
  <2>1. Booked(b) /\ Aside(q, b, s) /\ b.cur[s] = FALSE
    BY <1>1, DropKeeps
  <2> HIDE DEF b
  <2>2. Booked(c) /\ Aside(b, c, s) /\ c.cur[s] = b.cur[s]
    BY <2>1, ReleaseKeeps
  <2>3. q' = c
    BY <1>1, <1>2
  <2> HIDE DEF c
  <2>4. Aside(q, c, s)
    BY <2>1, <2>2, AsideAll
  <2>5. Fits(c, s, state) /\ state # "INI"
    BY <2>1, <2>2 DEF Fits, States
  <2> HIDE DEF state
  <2> QED BY <1>1, <2>2, <2>3, <2>4, <2>5, InsideKeeps
<1>3. CASE q.target[s] \notin Servers
  <2>1. q' = q /\ ~q.cur[s]
    BY <1>1, <1>3 DEF Coherent
  <2>2. Aside(q, q', s)
    BY <2>1 DEF Aside, Same
  <2>3. Fits(q', s, state) /\ state # "INI"
    BY <2>1 DEF Fits, States
  <2> HIDE DEF state, c
  <2> QED BY <1>1, <2>1, <2>2, <2>3, InsideKeeps
<1> QED BY <1>2, <1>3

\* A session leaves its queue and its connection.
LEMMA LeaveKeeps ==
  ASSUME NEW b, Booked(b), NEW s \in Sessions
  PROVE  LET c == Leave(b, s)
         IN  /\ Booked(c) /\ Aside(b, c, s)
             /\ c.cur[s] = FALSE /\ c.psrv[s] = None /\ c.slot[s] = b.slot[s]
<1> DEFINE a == IF b.psrv[s] # None THEN PendconnFree(b, s) ELSE b
           f == DropCurSess(a, s)
           c == Offer(f, b.target[s])
<1>1. c = Leave(b, s)
  BY DEF Leave
<1>2. Booked(a) /\ Aside(b, a, s) /\ a.psrv[s] = None /\ a.slot = b.slot
  <2>1. CASE b.psrv[s] # None
    <3> DEFINE d == PendconnFree(b, s)
    <3>1. /\ Booked(d) /\ d.psrv[s] = None
          /\ d.slot = b.slot /\ d.target = b.target /\ d.assigned = b.assigned
          /\ d.cur = b.cur /\ d.woken = b.woken /\ d.beconn = b.beconn
          /\ \A t \in Sessions : t # s => d.psrv[t] = b.psrv[t]
      BY <2>1, FreeKeeps
    <3>2. a = d
      BY <2>1
    <3> HIDE DEF d, a
    <3> QED BY <3>1, <3>2 DEF Aside, Same
  <2>2. CASE b.psrv[s] = None
    <3>1. a = b
      BY <2>2
    <3> QED BY <2>2, <3>1 DEF Aside, Same
  <2> QED BY <2>1, <2>2
<1> HIDE DEF a
<1>3. /\ Booked(f) /\ Aside(a, f, s) /\ f.cur[s] = FALSE
      /\ f.slot = a.slot /\ f.psrv = a.psrv
  BY <1>2, DropKeeps
<1> HIDE DEF f
<1>4. Booked(c) /\ Handed(f, c)
  BY <1>3, OfferKeeps
<1> HIDE DEF c
<1>5. Aside(f, c, s) /\ Same(f, c, s)
  BY <1>2, <1>3, <1>4, AsideAll, HandedSame
<1>6. Aside(b, c, s)
  BY <1>2, <1>3, <1>5, AsideAll
<1>7. c.cur[s] = FALSE /\ c.psrv[s] = None /\ c.slot[s] = b.slot[s]
  BY <1>2, <1>3, <1>5 DEF Same
<1> QED BY <1>1, <1>4, <1>6, <1>7

\* A request is over.
LEMMA OverStep ==
  ASSUME QueueInv, NEW s \in Sessions, EndTransaction(s) \/ SessionFree(s)
  PROVE  QueueInv'
<1> DEFINE state == "INI"
           b == [q EXCEPT !.beconn = q.beconn - 1]
<1>1. Booked(q) /\ Fits(q, s, st[s]) /\ q.beconn \in Int /\ q.beconn - 1 \in Int
  BY DEF QueueInv, Booked, Ledgers
<1>2. /\ Booked(b) /\ b.beconn = q.beconn - 1
      /\ b.slot = q.slot /\ b.target = q.target /\ b.assigned = q.assigned
      /\ b.psrv = q.psrv /\ b.cur = q.cur /\ b.woken = q.woken
  BY <1>1, BeconnKeeps
<1>3. /\ st' = [st EXCEPT ![s] = state] /\ st[s] # "INI" /\ up' \subseteq Servers
      /\ \/ q' = Forget(Leave(SessChangeServer(b, s, None), s), s)
         \/ q' = Forget(SessChangeServer(Leave(b, s), s, None), s)
  BY DEF EndTransaction, SessionFree, Goto, QueueInv
<1> HIDE DEF b
<1>4. ASSUME NEW d, Booked(d), Aside(b, d, s), d.slot[s] = None, d.psrv[s] = None, ~d.cur[s],
             q' = Forget(d, s)
      PROVE  QueueInv'
  <2> DEFINE c == Forget(d, s)
  <2>1. /\ Booked(c) /\ Aside(d, c, s)
        /\ c.slot = d.slot /\ c.psrv = d.psrv /\ c.cur = d.cur
    BY <1>4, ForgetKeeps
  <2>2. q' = c
    BY <1>4
  <2> HIDE DEF c
  <2>3. Aside(b, c, s)
    BY <1>4, <2>1, AsideAll
  <2>4. Fits(c, s, state)
    BY <1>4, <2>1 DEF Fits, States
  <2>5. b.beconn = q.beconn + (IF state = "INI" THEN 0 ELSE 1) - (IF st[s] = "INI" THEN 0 ELSE 1)
    BY <1>1, <1>2, <1>3
  <2>6. \A t \in Sessions : Same(q, b, t)
    BY <1>2 DEF Same
  <2> HIDE DEF state
  <2> QED BY <1>3, <2>1, <2>2, <2>3, <2>4, <2>5, <2>6, StepKeeps
<1>5. CASE q' = Forget(Leave(SessChangeServer(b, s, None), s), s)
  <2> DEFINE a == SessChangeServer(b, s, None)
             d == Leave(a, s)
  <2>1. Booked(a) /\ Aside(b, a, s) /\ a.slot[s] = None
    BY <1>2, ChangeKeeps
  <2>2. q' = Forget(d, s)
    BY <1>5
  <2> HIDE DEF a
  <2>3. /\ Booked(d) /\ Aside(a, d, s)
        /\ d.cur[s] = FALSE /\ d.psrv[s] = None /\ d.slot[s] = None
    BY <2>1, LeaveKeeps
  <2> HIDE DEF d
  <2>4. Aside(b, d, s)
    BY <2>1, <2>3, AsideAll
  <2> QED BY <1>4, <2>2, <2>3, <2>4
<1>6. CASE q' = Forget(SessChangeServer(Leave(b, s), s, None), s)
  <2> DEFINE a == Leave(b, s)
             d == SessChangeServer(a, s, None)
  <2>1. Booked(a) /\ Aside(b, a, s) /\ a.cur[s] = FALSE /\ a.psrv[s] = None
    BY <1>2, LeaveKeeps
  <2>2. q' = Forget(d, s)
    BY <1>6
  <2> HIDE DEF a
  <2>3. Booked(d) /\ Aside(a, d, s) /\ d.slot[s] = None /\ d.cur = a.cur /\ d.psrv = a.psrv
    BY <2>1, ChangeKeeps
  <2> HIDE DEF d
  <2>4. Aside(b, d, s)
    BY <2>1, <2>3, AsideAll
  <2> QED BY <1>4, <2>1, <2>2, <2>3, <2>4
<1> QED BY <1>3, <1>5, <1>6

\* A server changes its state.
LEMMA ServerStep ==
  ASSUME QueueInv, NEW v \in Servers, ServerDown(v) \/ ServerUp(v)
  PROVE  QueueInv'
<1>1. Booked(q) /\ st' = st /\ up' \subseteq Servers
  BY DEF QueueInv, ServerDown, ServerUp
<1>2. /\ Booked(q') /\ q'.beconn = q.beconn
      /\ \A t \in Sessions : Same(q, q', t) \/ Ousted(q, q', t)
  <2>1. CASE ServerDown(v)
    <3>1. q' = PendconnRedistribute(q, v)
      BY <2>1 DEF ServerDown
    <3> QED BY <1>1, <3>1, RedistributeKeeps
  <2>2. CASE ServerUp(v)
    <3>1. q' = PendconnGrabFromPx(q, v)
      BY <2>2 DEF ServerUp
    <3> QED BY <1>1, <3>1, GrabKeeps
  <2> QED BY <2>1, <2>2
<1>3. \A t \in Sessions : Fits(q', t, st[t])
  BY <1>2, FitsKept DEF QueueInv
<1> QED BY <1>1, <1>2, <1>3 DEF QueueInv

\* Nobody asks for a server yet.
LEMMA InitInv == Init => QueueInv
<1> SUFFICES ASSUME Init PROVE QueueInv
  OBVIOUS
<1>1. None \notin Queues /\ None \notin Servers /\ Servers \subseteq Queues
  BY QueueAssumption DEF Queues
<1>2. /\ q.queue = [x \in Queues |-> <<>>] /\ q.nbpend = [x \in Queues |-> 0]
      /\ q.served = [v \in Servers |-> 0] /\ q.curSess = [v \in Servers |-> 0]
      /\ q.slot = [s \in Sessions |-> None] /\ q.target = [s \in Sessions |-> None]
      /\ q.assigned = [s \in Sessions |-> FALSE] /\ q.psrv = [s \in Sessions |-> None]
      /\ q.cur = [s \in Sessions |-> FALSE] /\ q.woken = {} /\ q.beconn = 0
  BY DEF Init
<1>3. q \in Ledgers
  <2>1. <<>> \in Seq(Sessions) /\ 0 \in Int
    OBVIOUS
  <2> QED BY <2>1 DEF Init, Ledgers
<1>4. \A s \in Sessions : Coherent(q, s)
  BY <1>2 DEF Coherent
<1>5. Cardinality({}) = 0
  BY FS_EmptySet
<1>6. ASSUME NEW v \in Servers
      PROVE  /\ q.served[v] = Cardinality(Holders(q, v)) /\ q.served[v] <= MaxConn[v]
             /\ q.curSess[v] = Cardinality(Connected(q, v))
  <2>1. Holders(q, v) = {} /\ Connected(q, v) = {}
    BY <1>1, <1>2 DEF Holders, Connected
  <2>2. MaxConn[v] \in Nat
    BY QueueAssumption
  <2> QED BY <1>2, <1>5, <2>1, <2>2
<1>7. ASSUME NEW x \in Queues
      PROVE  /\ q.nbpend[x] = Len(q.queue[x]) /\ IsInjective(q.queue[x])
             /\ Range(q.queue[x]) = {s \in Sessions : q.psrv[s] = x}
  <2>1. Len(<<>>) = 0 /\ IsInjective(<<>>) /\ Range(<<>>) = {}
    BY DEF IsInjective, Range
  <2>2. {s \in Sessions : q.psrv[s] = x} = {}
    BY <1>1, <1>2
  <2> QED BY <1>2, <2>1, <2>2
<1>8. Booked(q)
  BY <1>3, <1>4, <1>6, <1>7 DEF Booked
<1>9. /\ st = [s \in Sessions |-> "INI"] /\ up = Servers
  BY DEF Init
<1>10. \A s \in Sessions : Fits(q, s, "INI")
  BY <1>2 DEF Fits, States
<1>11. q.beconn = Cardinality({s \in Sessions : st[s] # "INI"})
  <2>1. {s \in Sessions : st[s] # "INI"} = {}
    BY <1>9
  <2> QED BY <1>2, <1>5, <2>1
<1> QED BY <1>8, <1>9, <1>10, <1>11 DEF QueueInv, States

\* Every step of the sessions and of the servers keeps the invariant.
LEMMA QueueStep == QueueInv /\ [Next]_vars => QueueInv'
<1> SUFFICES ASSUME QueueInv, [Next]_vars PROVE QueueInv'
  OBVIOUS
<1>1. ASSUME NEW s \in Sessions, NEW v \in Sticky \cup {None}, NewRequest(s, v) PROVE QueueInv'
  BY <1>1, NewRequestStep
<1>2. ASSUME NEW s \in Sessions, PrepareConnReq(s) PROVE QueueInv'
  BY <1>2, PrepareStep
<1>3. ASSUME NEW s \in Sessions, ConnectServer(s) PROVE QueueInv'
  BY <1>3, ConnectStep
<1>4. ASSUME NEW s \in Sessions,
             ConnectServerFails(s) \/ \E err \in BOOLEAN : ConnFailed(s, err)
      PROVE  QueueInv'
  BY <1>4, FailsStep
<1>5. ASSUME NEW s \in Sessions, Disconnect(s) PROVE QueueInv'
  BY <1>5, DisconnectStep
<1>6. ASSUME NEW s \in Sessions,
             \/ Established(s) \/ ConnAborted(s) \/ ServerClosed(s)
             \/ Dequeued(s) \/ QueueTimeout(s) \/ QueueAborted(s)
             \/ TarExpired(s) \/ TarAborted(s)
      PROVE  QueueInv'
  BY <1>6, EventsStep
<1>7. ASSUME NEW s \in Sessions, EndTransaction(s) \/ SessionFree(s) PROVE QueueInv'
  BY <1>7, OverStep
<1>8. ASSUME NEW v \in Servers, ServerDown(v) \/ ServerUp(v) PROVE QueueInv'
  BY <1>8, ServerStep
<1>9. CASE UNCHANGED vars
  BY <1>9 DEF vars, QueueInv
<1> QED BY <1>1, <1>2, <1>3, <1>4, <1>5, <1>6, <1>7, <1>8, <1>9 DEF Next, Continue

\* The invariant holds of every behaviour.
LEMMA QueueAlways == Spec => []QueueInv
  BY InitInv, QueueStep, PTL DEF Spec

(***************************************************************************)
(* For any number of sessions and servers, with any limits and options:    *)
(* however sessions wait, connect, fail, are redispatched and hand each    *)
(* other their slots (queue.c, session.c), every counter equals what it    *)
(* counts, and the queue functions lose and duplicate nobody.              *)
(***************************************************************************)
THEOREM CounterSafety == Spec => []Accounting
<1>1. QueueInv => Accounting
  BY DEF QueueInv, Accounting, Booked, Holders, Connected
<1> QED BY <1>1, QueueAlways, PTL

(***************************************************************************)
(* No server ever has more slots taken than its maxconn, whatever the      *)
(* backend's load makes of its dynamic limit, and whoever connects to a    *)
(* server or is connected to it holds one of its slots (backend.c).        *)
(***************************************************************************)
THEOREM MaxConnSafety == Spec => []MaxConnRespected
<1>1. QueueInv => MaxConnRespected
  <2> SUFFICES ASSUME QueueInv PROVE MaxConnRespected
    OBVIOUS
  <2>1. \A v \in Servers : q.served[v] <= MaxConn[v]
    BY DEF QueueInv, Booked
  <2>2. ASSUME NEW s \in Sessions, st[s] \in {"ASS", "CON", "EST"}
        PROVE  q.slot[s] # None /\ q.slot[s] = q.target[s]
    <3>1. Fits(q, s, st[s]) /\ Coherent(q, s)
      BY DEF QueueInv, Booked
    <3> QED BY <2>2, <3>1 DEF Fits, Coherent
  <2> QED BY <2>1, <2>2 DEF MaxConnRespected
<1> QED BY <1>1, QueueAlways, PTL

(***************************************************************************)
(* A session that is in SI_ST_QUE is in a queue or has been woken, whoever *)
(* took it out (a freed slot, a server that goes down or comes up), and    *)
(* who is in a queue holds no slot meanwhile.                              *)
(***************************************************************************)
THEOREM WakeupSafety == Spec => []NoLostWakeup
<1>1. QueueInv => NoLostWakeup
  <2> SUFFICES ASSUME QueueInv, NEW s \in Sessions
               PROVE  /\ st[s] = "QUE" => q.psrv[s] # None \/ s \in q.woken
                      /\ q.psrv[s] # None => q.slot[s] = None /\ st[s] \in {"QUE", "DIS", "CLO"}
    BY DEF NoLostWakeup
  <2>1. Fits(q, s, st[s]) /\ Coherent(q, s)
    BY DEF QueueInv, Booked
  <2> QED BY <2>1 DEF Fits, Coherent
<1> QED BY <1>1, QueueAlways, PTL
=============================================================================
