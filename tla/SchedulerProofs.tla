-------------------------- MODULE SchedulerProofs --------------------------
(***************************************************************************)
(* Proofs about HAProxy's tasks: for every number of tasks, every width of *)
(* dates and counters and every nice value, no task that waits for a date  *)
(* is forgotten, and no walk of a queue keeps a pointer to a task that has *)
(* left it.                                                                *)
(***************************************************************************)
EXTENDS Scheduler, FiniteSetTheorems, WellFoundedInduction, SequenceTheorems, TLAPS

(* The trees.                                                              *)

\* A nonempty set of numbers has a least member, and Min gives it.
LEMMA LeastIsMin ==
  ASSUME NEW S \in SUBSET Nat, S # {}
  PROVE  Min(S) \in S /\ \A y \in S : Min(S) <= y
<1>1. PICK x \in S : \A y \in S : <<y, x>> \notin OpToRel(<, Nat)
  BY NatLessThanWellFounded, WFMin
<1>2. \A y \in S : ~(y < x)
  BY <1>1 DEF OpToRel
<1>3. \A y \in S : x <= y
  BY <1>2
<1> QED BY <1>3 DEF Min

\* The members of a sequence.
LEMMA InSeq ==
  ASSUME NEW S, NEW s \in Seq(S), NEW x
  PROVE  x \in ToSet(s) <=> \E j \in 1..Len(s) : s[j] = x
  BY DEF ToSet

\* An element inserted at a place of a sequence.
LEMMA InsertAtIs ==
  ASSUME NEW S, NEW s \in Seq(S), NEW e \in S, NEW i \in 1..(Len(s) + 1)
  PROVE  /\ InsertAt(s, i, e) \in Seq(S) /\ Len(InsertAt(s, i, e)) = Len(s) + 1
         /\ \A j \in 1..(Len(s) + 1) :
               InsertAt(s, i, e)[j] = IF j < i THEN s[j] ELSE IF j = i THEN e ELSE s[j - 1]
<1> DEFINE a == SubSeq(s, 1, i - 1)
           b == SubSeq(s, i, Len(s))
<1>1. /\ a \in Seq(S) /\ Len(a) = i - 1 /\ \A j \in 1..(i - 1) : a[j] = s[j]
  BY SubSeqProperties
<1>2. /\ b \in Seq(S) /\ Len(b) = Len(s) - i + 1
      /\ \A j \in 1..(Len(s) - i + 1) : b[j] = s[j + i - 1]
  BY SubSeqProperties
<1>3. <<e>> \in Seq(S) /\ Len(<<e>>) = 1 /\ <<e>>[1] = e
  OBVIOUS
<1> HIDE DEF a, b
<1> DEFINE c == a \o <<e>>
<1>4. /\ c \in Seq(S) /\ Len(c) = i
      /\ \A j \in 1..i : c[j] = IF j <= i - 1 THEN a[j] ELSE e
  BY <1>1, <1>3
<1> HIDE DEF c
<1> DEFINE d == c \o b
<1>5. /\ d \in Seq(S) /\ Len(d) = Len(s) + 1
      /\ \A j \in 1..(Len(s) + 1) : d[j] = IF j <= i THEN c[j] ELSE b[j - i]
  <2>1. d \in Seq(S) /\ Len(d) = Len(c) + Len(b)
    BY <1>2, <1>4, ConcatProperties
  <2>2. \A j \in 1..(Len(c) + Len(b)) : d[j] = IF j <= Len(c) THEN c[j] ELSE b[j - Len(c)]
    BY <1>2, <1>4, ConcatProperties
  <2>3. Len(c) + Len(b) = Len(s) + 1 /\ Len(c) = i
    <3>1. Len(s) \in Nat /\ i \in Nat
      OBVIOUS
    <3> QED BY <1>2, <1>4, <3>1
  <2> QED BY <2>1, <2>2, <2>3
<1>6. d = InsertAt(s, i, e)
  BY DEF d, c, a, b, InsertAt
<1> HIDE DEF d
<1>7. ASSUME NEW j \in 1..(Len(s) + 1)
      PROVE  d[j] = IF j < i THEN s[j] ELSE IF j = i THEN e ELSE s[j - 1]
  <2>1. CASE j < i
    BY <1>1, <1>4, <1>5, <2>1
  <2>2. CASE j = i
    BY <1>4, <1>5, <2>2
  <2>3. CASE j > i
    BY <1>2, <1>5, <2>3
  <2> QED BY <2>1, <2>2, <2>3
<1> QED BY <1>5, <1>6, <1>7

\* An element taken out of a sequence.
LEMMA RemoveAtIs ==
  ASSUME NEW S, NEW s \in Seq(S), NEW i \in 1..Len(s)
  PROVE  /\ RemoveAt(s, i) \in Seq(S) /\ Len(RemoveAt(s, i)) = Len(s) - 1
         /\ \A j \in 1..(Len(s) - 1) : RemoveAt(s, i)[j] = IF j < i THEN s[j] ELSE s[j + 1]
<1> DEFINE a == SubSeq(s, 1, i - 1)
           b == SubSeq(s, i + 1, Len(s))
<1>1. /\ a \in Seq(S) /\ Len(a) = i - 1 /\ \A j \in 1..(i - 1) : a[j] = s[j]
  BY SubSeqProperties
<1>2. /\ b \in Seq(S) /\ Len(b) = Len(s) - i
      /\ \A j \in 1..(Len(s) - i) : b[j] = s[j + i]
  BY SubSeqProperties
<1> HIDE DEF a, b
<1> DEFINE d == a \o b
<1>3. /\ d \in Seq(S) /\ Len(d) = Len(s) - 1
      /\ \A j \in 1..(Len(s) - 1) : d[j] = IF j <= i - 1 THEN a[j] ELSE b[j - (i - 1)]
  <2>1. d \in Seq(S) /\ Len(d) = Len(a) + Len(b)
    BY <1>1, <1>2, ConcatProperties
  <2>2. \A j \in 1..(Len(a) + Len(b)) : d[j] = IF j <= Len(a) THEN a[j] ELSE b[j - Len(a)]
    BY <1>1, <1>2, ConcatProperties
  <2>3. Len(a) + Len(b) = Len(s) - 1 /\ Len(a) = i - 1
    <3>1. Len(s) \in Nat /\ i \in Nat
      OBVIOUS
    <3> QED BY <1>1, <1>2, <3>1
  <2> QED BY <2>1, <2>2, <2>3
<1>4. d = RemoveAt(s, i)
  BY DEF d, a, b, RemoveAt
<1> HIDE DEF d
<1>5. ASSUME NEW j \in 1..(Len(s) - 1)
      PROVE  d[j] = IF j < i THEN s[j] ELSE s[j + 1]
  <2> DEFINE n == Len(s)
  <2>1. n \in Nat /\ i \in 1..n /\ j \in 1..(n - 1)
    OBVIOUS
  <2>2. d[j] = IF j <= i - 1 THEN a[j] ELSE b[j - (i - 1)]
    BY <1>3
  <2>3. /\ j \in 1..(i - 1) => a[j] = s[j]
        /\ j - (i - 1) \in 1..(n - i) => b[j - (i - 1)] = s[(j - (i - 1)) + i]
    BY <1>1, <1>2
  <2> HIDE DEF n
  <2>4. CASE j < i
    <3>1. j \in 1..(i - 1) /\ j <= i - 1
      BY <2>1, <2>4
    <3> QED BY <2>2, <2>3, <2>4, <3>1
  <2>5. CASE ~(j < i)
    <3>1. ~(j <= i - 1) /\ j - (i - 1) \in 1..(n - i) /\ (j - (i - 1)) + i = j + 1
      BY <2>1, <2>5
    <3> QED BY <2>2, <2>3, <2>5, <3>1
  <2> QED BY <2>4, <2>5
<1> QED BY <1>3, <1>4, <1>5

\* eb32_insert() adds one node, at a place of the queue.
LEMMA InsertIn ==
  ASSUME NEW S, NEW q \in Seq(S), IsInjective(q), NEW t \in S, t \notin ToSet(q), NEW key, NEW k
  PROVE  LET r == Insert(q, key, t, k)
         IN  r \in Seq(S) /\ IsInjective(r) /\ ToSet(r) = ToSet(q) \cup {t}
<1> DEFINE B == {i \in 1..Len(q) : key[q[i]] <= k}
           i == Cardinality(B) + 1
           r == InsertAt(q, i, t)
<1>1. i \in 1..(Len(q) + 1)
  <2>1. IsFiniteSet(1..Len(q)) /\ Cardinality(1..Len(q)) = Len(q)
    <3>1. Len(q) \in Nat
      OBVIOUS
    <3> QED BY <3>1, FS_Interval
  <2>2. B \subseteq 1..Len(q)
    OBVIOUS
  <2> HIDE DEF B
  <2>3. IsFiniteSet(B) /\ Cardinality(B) <= Len(q) /\ Cardinality(B) \in Nat
    BY <2>1, <2>2, FS_Subset, FS_CardinalityType
  <2> QED BY <2>3
<1>2. Insert(q, key, t, k) = r
  BY DEF Insert
<1> HIDE DEF B, i
<1>3. /\ r \in Seq(S) /\ Len(r) = Len(q) + 1
      /\ \A j \in 1..(Len(q) + 1) :
            r[j] = IF j < i THEN q[j] ELSE IF j = i THEN t ELSE q[j - 1]
  BY <1>1, InsertAtIs
<1> HIDE DEF r
<1>4. \A j \in 1..Len(q) : q[j] # t
  BY DEF ToSet
<1>5. \A x, y \in 1..Len(q) : q[x] = q[y] => x = y
  BY DEF IsInjective
<1>6. IsInjective(r)
  <2>1. DOMAIN r = 1..(Len(q) + 1)
    BY <1>3
  <2>2. \A x \in 1..(Len(q) + 1) : (x < i => x \in 1..Len(q)) /\ (x > i => x - 1 \in 1..Len(q))
    BY <1>1
  <2> SUFFICES ASSUME NEW x \in 1..(Len(q) + 1), NEW y \in 1..(Len(q) + 1), r[x] = r[y], x < y
               PROVE  FALSE
    BY <2>1 DEF IsInjective
  <2>3. CASE y < i
    BY <1>1, <1>3, <1>5, <2>2, <2>3
  <2>4. CASE y = i
    BY <1>1, <1>3, <1>4, <2>2, <2>4
  <2>5. CASE y > i /\ x < i
    <3>1. r[x] = q[x] /\ r[y] = q[y - 1] /\ x # y - 1
      BY <1>1, <1>3, <2>5
    <3> QED BY <1>5, <2>2, <2>5, <3>1
  <2>6. CASE y > i /\ x = i
    <3>1. r[x] = t /\ r[y] = q[y - 1]
      BY <1>1, <1>3, <2>6
    <3> QED BY <1>4, <2>2, <2>6, <3>1
  <2>7. CASE y > i /\ x > i
    <3>1. r[x] = q[x - 1] /\ r[y] = q[y - 1] /\ x - 1 # y - 1
      BY <1>1, <1>3, <2>7
    <3> QED BY <1>5, <2>2, <2>7, <3>1
  <2> QED BY <1>1, <2>3, <2>4, <2>5, <2>6, <2>7
<1>7. ToSet(r) = ToSet(q) \cup {t}
  <2>1. ASSUME NEW x \in 1..(Len(q) + 1) PROVE r[x] \in ToSet(q) \cup {t}
    BY <1>1, <1>3 DEF ToSet
  <2>2. t = r[i]
    BY <1>1, <1>3
  <2>3. ASSUME NEW x \in 1..Len(q) PROVE \E j \in 1..(Len(q) + 1) : r[j] = q[x]
    <3>1. CASE x < i
      BY <1>3, <3>1
    <3>2. CASE x >= i
      <4>1. x + 1 \in 1..(Len(q) + 1) /\ r[x + 1] = q[x]
        BY <1>1, <1>3, <3>2
      <4> QED BY <4>1
    <3> QED BY <1>1, <3>1, <3>2
  <2>4. ASSUME NEW x PROVE x \in ToSet(r) <=> x \in ToSet(q) \cup {t}
    <3>1. x \in ToSet(r) <=> \E j \in 1..(Len(q) + 1) : r[j] = x
      BY <1>3, InSeq
    <3>2. x \in ToSet(q) <=> \E j \in 1..Len(q) : q[j] = x
      BY InSeq
    <3> QED BY <1>1, <2>1, <2>2, <2>3, <3>1, <3>2
  <2> QED BY <2>4
<1> QED BY <1>2, <1>3, <1>6, <1>7

\* Where a member of a queue is.
LEMMA PlaceOf ==
  ASSUME NEW S, NEW q \in Seq(S), NEW t \in ToSet(q)
  PROVE  SelectInSeq(q, LAMBDA u : u = t) \in 1..Len(q) /\ q[SelectInSeq(q, LAMBDA u : u = t)] = t
<1> DEFINE I == {i \in 1..Len(q) : q[i] = t}
<1>1. I \in SUBSET Nat /\ I # {}
  BY DEF ToSet
<1>2. SelectInSeq(q, LAMBDA u : u = t) = Min(I)
  BY <1>1 DEF SelectInSeq
<1> QED BY <1>1, <1>2, LeastIsMin

\* A node that leaves the queue.
LEMMA RemoveIn ==
  ASSUME NEW S, NEW q \in Seq(S), IsInjective(q), NEW t
  PROVE  LET r == RemoveFirst(q, t)
         IN  r \in Seq(S) /\ IsInjective(r) /\ ToSet(r) = ToSet(q) \ {t}
<1>1. CASE t \notin ToSet(q)
  <2>1. RemoveFirst(q, t) = q
    BY <1>1 DEF RemoveFirst, ToSet
  <2> QED BY <1>1, <2>1
<1>2. CASE t \in ToSet(q)
  <2> DEFINE i == SelectInSeq(q, LAMBDA u : u = t)
             r == RemoveAt(q, i)
  <2>1. i \in 1..Len(q) /\ q[i] = t
    BY <1>2, PlaceOf
  <2>2. RemoveFirst(q, t) = r
    BY <1>2 DEF RemoveFirst, ToSet
  <2> HIDE DEF i
  <2>3. /\ r \in Seq(S) /\ Len(r) = Len(q) - 1
        /\ \A j \in 1..(Len(q) - 1) : r[j] = IF j < i THEN q[j] ELSE q[j + 1]
    BY <2>1, RemoveAtIs
  <2> HIDE DEF r
  <2>4. \A x, y \in 1..Len(q) : q[x] = q[y] => x = y
    BY DEF IsInjective
  <2>5. DOMAIN r = 1..(Len(q) - 1)
    BY <2>3
  <2>6. IsInjective(r)
    <3> SUFFICES ASSUME NEW x \in 1..(Len(q) - 1), NEW y \in 1..(Len(q) - 1), r[x] = r[y], x < y
                 PROVE  FALSE
      BY <2>5 DEF IsInjective
    <3>1. x \in 1..Len(q) /\ y \in 1..Len(q) /\ x + 1 \in 1..Len(q) /\ y + 1 \in 1..Len(q)
      OBVIOUS
    <3>2. CASE y < i
      BY <2>1, <2>3, <2>4, <3>1, <3>2
    <3>3. CASE y >= i /\ x < i
      BY <2>1, <2>3, <2>4, <3>1, <3>3
    <3>4. CASE x >= i
      BY <2>1, <2>3, <2>4, <3>1, <3>4
    <3> QED BY <2>1, <3>2, <3>3, <3>4
  <2>7. ToSet(r) = ToSet(q) \ {t}
    <3>1. ASSUME NEW x \in 1..(Len(q) - 1) PROVE r[x] \in ToSet(q) \ {t}
      <4>1. x \in 1..Len(q) /\ x + 1 \in 1..Len(q)
        OBVIOUS
      <4>2. CASE x < i
        <5>1. r[x] = q[x] /\ x # i
          BY <2>1, <2>3, <4>2
        <5> QED BY <2>1, <2>4, <4>1, <5>1, InSeq
      <4>3. CASE x >= i
        <5>1. r[x] = q[x + 1] /\ x + 1 # i
          BY <2>1, <2>3, <4>3
        <5> QED BY <2>1, <2>4, <4>1, <5>1, InSeq
      <4> QED BY <2>1, <4>2, <4>3
    <3>2. ASSUME NEW x \in 1..Len(q), q[x] # t PROVE \E j \in 1..(Len(q) - 1) : r[j] = q[x]
      <4>1. CASE x < i
        BY <2>1, <2>3, <4>1
      <4>2. CASE x > i
        <5>1. x - 1 \in 1..(Len(q) - 1) /\ r[x - 1] = q[x]
          BY <2>1, <2>3, <4>2
        <5> QED BY <5>1
      <4> QED BY <2>1, <3>2, <4>1, <4>2
    <3>3. ASSUME NEW x PROVE x \in ToSet(r) <=> x \in ToSet(q) \ {t}
      <4>1. x \in ToSet(r) <=> \E j \in 1..(Len(q) - 1) : r[j] = x
        BY <2>3, InSeq
      <4>2. x \in ToSet(q) <=> \E j \in 1..Len(q) : q[j] = x
        BY InSeq
      <4> QED BY <3>1, <3>2, <4>1, <4>2
    <3> QED BY <3>3
  <2> QED BY <2>2, <2>3, <2>6, <2>7
<1> QED BY <1>1, <1>2

\* What the lookups find is in the queue.
LEMMA LookupIn ==
  ASSUME NEW S, NEW q \in Seq(S), NEW key, NEW k
  PROVE  LookupGe(q, key, k) \in ToSet(q) \cup {None}
<1> DEFINE I == {i \in 1..Len(q) : key[q[i]] >= k}
           i == SelectInSeq(q, LAMBDA t : key[t] >= k)
<1>1. I \in SUBSET Nat
  OBVIOUS
<1>2. i = IF I # {} THEN Min(I) ELSE 0
  BY DEF SelectInSeq
<1>3. LookupGe(q, key, k) = IF i = 0 THEN None ELSE q[i]
  BY DEF LookupGe
<1>4. i = 0 \/ i \in 1..Len(q)
  BY <1>1, <1>2, LeastIsMin
<1> HIDE DEF i, I
<1> QED BY <1>3, <1>4 DEF ToSet

\* The first node, or none.
LEMMA FirstIn ==
  ASSUME NEW S, NEW q \in Seq(S)
  PROVE  First(q) \in ToSet(q) \cup {None} /\ (q # <<>> => First(q) \in ToSet(q))
  BY DEF First, ToSet

\* eb32_next() gives another node than the one it is asked for.
LEMMA SuccessorIn ==
  ASSUME NEW S, NEW q \in Seq(S), IsInjective(q), NEW t \in ToSet(q), None \notin S
  PROVE  Successor(q, t) \in (ToSet(q) \ {t}) \cup {None}
<1> DEFINE i == SelectInSeq(q, LAMBDA u : u = t)
<1>1. i \in 1..Len(q) /\ q[i] = t
  BY PlaceOf
<1>2. Successor(q, t) = IF i = Len(q) THEN None ELSE q[i + 1]
  BY DEF Successor
<1> HIDE DEF i
<1>3. i # Len(q) => i + 1 \in 1..Len(q)
  BY <1>1
<1>4. i # Len(q) => q[i + 1] # t
  BY <1>1, <1>3 DEF IsInjective
<1> QED BY <1>1, <1>2, <1>3, <1>4 DEF ToSet

-----------------------------------------------------------------------------
(* The dates.                                                              *)

Ticks == 0..(TickRange - 1)
Keys == 0..(KeyRange - 1)

\* A date that is computed is a date, and is set.
LEMMA TickAddType ==
  ASSUME NEW date \in Ticks, NEW d \in Timeouts
  PROVE  TickAdd(date, d) \in Ticks /\ TickAdd(date, d) # Eternity /\ Delay(d) \in Int
<1>1. TickRange \in Nat /\ TickRange > 1 /\ d \in Nat
  BY SchedulerAssumption
<1>2. (date + d) % TickRange \in 0..(TickRange - 1)
  BY <1>1 DEF Ticks
<1>3. TickAdd(date, d) \in Ticks /\ TickAdd(date, d) # Eternity
  BY <1>1, <1>2 DEF TickAdd, Ticks, Eternity
<1> QED BY <1>1, <1>3 DEF Delay

\* The earlier one of two dates is one of them.
LEMMA TickFirstType ==
  ASSUME NEW x \in Ticks, NEW y \in Ticks
  PROVE  TickFirst(x, y) \in {x, y} /\ (x # Eternity => TickFirst(x, y) # Eternity)
  BY DEF TickFirst

\* No date is before itself.
LEMMA SameTick ==
  ASSUME NEW x \in Ticks
  PROVE  ~TickIsLt(x, x)
<1>1. TickRange \in Nat /\ TickRange > 1
  BY SchedulerAssumption
<1>2. x - x = 0 /\ 0 % TickRange = 0 /\ 0 < TickRange \div 2
  <2>1. TickRange % 2 = 0
    BY SchedulerAssumption
  <2> QED BY <1>1, <2>1 DEF Ticks
<1> QED BY <1>2 DEF TickIsLt, Signed

-----------------------------------------------------------------------------
(* What the functions of task.h do to the queues.                          *)

Queue(q) == q \in Seq(Tasks) /\ IsInjective(q)

\* __task_queue()
LEMMA RequeueKeeps ==
  ASSUME Queue(timers), wqkey \in [Tasks -> Ticks], NEW t \in Tasks, NEW date \in Ticks,
         Requeue(t, date)
  PROVE  /\ Queue(timers') /\ ToSet(timers') = ToSet(timers) \cup {t}
         /\ wqkey' \in [Tasks -> Ticks] /\ wqkey'[t] = date
         /\ \A u \in Tasks : u # t => wqkey'[u] = wqkey[u]
<1> DEFINE r == RemoveFirst(timers, t)
<1>1. r \in Seq(Tasks) /\ IsInjective(r) /\ ToSet(r) = ToSet(timers) \ {t}
  BY RemoveIn DEF Queue
<1> HIDE DEF r
<1> DEFINE i == Insert(r, wqkey, t, date)
<1>2. i \in Seq(Tasks) /\ IsInjective(i) /\ ToSet(i) = ToSet(r) \cup {t}
  BY <1>1, InsertIn
<1>3. timers' = i
  BY DEF Requeue, r
<1> HIDE DEF i
<1> QED BY <1>1, <1>2, <1>3 DEF Queue, Requeue

\* task_queue()
LEMMA TaskQueueKeeps ==
  ASSUME Queue(timers), wqkey \in [Tasks -> Ticks], NEW t \in Tasks, NEW date \in Ticks,
         TaskQueue(t, date)
  PROVE  /\ Queue(timers') /\ wqkey' \in [Tasks -> Ticks]
         /\ ToSet(timers) \subseteq ToSet(timers')
         /\ ToSet(timers') \subseteq ToSet(timers) \cup {t}
         /\ date # Eternity => t \in ToSet(timers') /\ ~TickIsLt(date, wqkey'[t])
         /\ \A u \in Tasks : u # t => wqkey'[u] = wqkey[u]
<1>1. CASE date # Eternity /\ (~InWq(t) \/ TickIsLt(date, wqkey[t]))
  <2>1. Requeue(t, date)
    BY <1>1 DEF TaskQueue
  <2> QED BY <2>1, RequeueKeeps, SameTick
<1>2. CASE ~(date # Eternity /\ (~InWq(t) \/ TickIsLt(date, wqkey[t])))
  <2>1. timers' = timers /\ wqkey' = wqkey
    BY <1>2 DEF TaskQueue, waitq
  <2> QED BY <1>2, <2>1 DEF InWq, Queue
<1> QED BY <1>1, <1>2

\* A task that leaves the wait queue.
LEMMA UnlinkWqKeeps ==
  ASSUME Queue(timers), wqkey \in [Tasks -> Ticks], NEW t \in Tasks, UnlinkWq(t)
  PROVE  /\ Queue(timers') /\ ToSet(timers') = ToSet(timers) \ {t}
         /\ wqkey' \in [Tasks -> Ticks]
         /\ \A u \in Tasks : u # t => wqkey'[u] = wqkey[u]
<1>1. 0 \in Ticks
  BY SchedulerAssumption DEF Ticks
<1>2. Queue(timers') /\ ToSet(timers') = ToSet(timers) \ {t}
  BY RemoveIn DEF UnlinkWq, Queue
<1> QED BY <1>1, <1>2 DEF UnlinkWq

RqOK ==
  /\ Queue(rqueue) /\ rqkey \in [Tasks -> Keys] /\ ahead \in [Tasks -> Int]
  /\ ticks \in Keys /\ niced \in Keys

\* task_wakeup()
LEMMA TaskWakeupKeeps ==
  ASSUME RqOK, timer \subseteq Tasks, NEW t \in Tasks, NEW n \in Int, NEW b \in BOOLEAN,
         TaskWakeup(t, n, b)
  PROVE  RqOK' /\ ToSet(rqueue') = ToSet(rqueue) \cup {t} /\ timer' \subseteq Tasks
<1>1. timer' \subseteq Tasks
  BY DEF TaskWakeup
<1>2. CASE InRq(t)
  <2>1. /\ rqueue' = rqueue /\ rqkey' = rqkey /\ ticks' = ticks /\ niced' = niced
        /\ ahead' = ahead
    BY <1>2 DEF TaskWakeup
  <2> QED BY <1>1, <1>2, <2>1 DEF RqOK, InRq, Queue
<1>3. CASE ~InRq(t)
  <2> DEFINE tick == (ticks + 1) % KeyRange
             offset == Offset(n, Len(rqueue) + 1)
             key == (tick + offset) % KeyRange
  <2>0. KeyRange \in Nat /\ KeyRange > 0
    BY SchedulerAssumption
  <2>1. /\ rqueue' = Insert(rqueue, rqkey, t, key)
        /\ rqkey' = [rqkey EXCEPT ![t] = key]
        /\ ticks' = tick
        /\ niced' = IF n # 0 THEN (niced + 1) % KeyRange ELSE niced
        /\ ahead' = [u \in Tasks |-> IF u = t THEN offset
                                     ELSE IF InRq(u) THEN ahead[u] - 1 ELSE 0]
    BY <1>3 DEF TaskWakeup
  <2>2. offset \in Int
    <3>1. Len(rqueue) + 1 \in Int
      BY DEF RqOK, Queue
    <3>2. \A m \in Int : m \div 32 \in Int
      OBVIOUS
    <3>3. \A x, y \in Int : x * y \in Int
      OBVIOUS
    <3> QED BY <3>1, <3>2, <3>3 DEF Offset
  <2>3. tick \in Keys
    BY <2>0 DEF RqOK, Keys
  <2> HIDE DEF offset, tick
  <2>4. key \in Keys
    BY <2>0, <2>2, <2>3 DEF Keys
  <2> HIDE DEF key
  <2>5. Queue(rqueue') /\ ToSet(rqueue') = ToSet(rqueue) \cup {t}
    BY <1>3, <2>1, InsertIn DEF RqOK, Queue, InRq
  <2>6. rqkey' \in [Tasks -> Keys]
    BY <2>1, <2>4 DEF RqOK
  <2>7. ahead' \in [Tasks -> Int]
    BY <2>1, <2>2 DEF RqOK
  <2>8. niced' \in Keys
    BY <2>0, <2>1 DEF RqOK, Keys
  <2> QED BY <1>1, <2>1, <2>3, <2>5, <2>6, <2>7, <2>8 DEF RqOK
<1> QED BY <1>2, <1>3

\* __task_unlink_rq()
LEMMA UnlinkRqKeeps ==
  ASSUME RqOK, NEW t \in Tasks, UnlinkRq(t)
  PROVE  RqOK' /\ ToSet(rqueue') = ToSet(rqueue) \ {t}
<1>1. KeyRange \in Nat /\ KeyRange > 0 /\ 0 \in Keys
  BY SchedulerAssumption DEF Keys
<1>2. Queue(rqueue') /\ ToSet(rqueue') = ToSet(rqueue) \ {t}
  BY RemoveIn DEF UnlinkRq, RqOK, Queue
<1>3. rqkey' \in [Tasks -> Keys] /\ ahead' \in [Tasks -> Int] /\ ticks' \in Keys
  BY <1>1 DEF UnlinkRq, RqOK
<1>4. niced' \in Keys
  BY <1>1 DEF UnlinkRq, RqOK, Keys
<1> QED BY <1>2, <1>3, <1>4 DEF RqOK

-----------------------------------------------------------------------------
(* The invariant, part by part.                                            *)

SyncsOK == syncs \subseteq Services

WqOK == Queue(timers) /\ wqkey \in [Tasks -> Ticks]

RestOK ==
  /\ Services \subseteq alive /\ alive \subseteq Tasks
  /\ mini \subseteq alive \cap Sessions /\ timer \subseteq Tasks
  /\ expire \in [Tasks -> Ticks] /\ nice \in [Tasks -> Int] /\ remain \in [Tasks -> Int]
  /\ now \in Ticks /\ next \in Ticks
  /\ pc \in {"io", "wake", "runnable", "run", "process", "poll"}
  /\ eb \in Tasks \cup {None} /\ cur \in Tasks \cup {None} /\ left \in Nat
  /\ calls \in 0..MaxCalls /\ renices \in 0..MaxRenices
  /\ unseen \subseteq Tasks

QueuedAlive == ToSet(timers) \subseteq alive /\ ToSet(rqueue) \subseteq alive

\* What the invariant says of the queues and of the rest ...
LEMMA Unpacked ==
  ASSUME SchedulerInv
  PROVE  /\ WqOK /\ RqOK /\ RestOK /\ RunningTask /\ QueuedAlive
         /\ TimersCovered /\ CursorInQueue /\ SyncsOK
  BY DEF SchedulerInv, TypeOK, QueuesInjective, WqOK, RqOK, RestOK, QueuedAlive, Queue, Ticks, Keys,
         SyncsOK

\* ... and a step establishes it again from these parts.
LEMMA Packed ==
  ASSUME SyncsOK', WqOK', RqOK', RestOK', RunningTask', QueuedAlive', TimersCovered', CursorInQueue'
  PROVE  SchedulerInv'
  BY DEF SchedulerInv, TypeOK, QueuesInjective, WqOK, RqOK, RestOK, QueuedAlive, Queue, Ticks, Keys,
         SyncsOK

\* A date that the wait queue covers, or that needs no cover.
Covered(t) == expire[t] # Eternity /\ ~InRq(t) => InWq(t) /\ ~TickIsLt(expire[t], wqkey[t])

\* A step that leaves dates and queues alone, and leaves no task without cover.
LEMMA SameCover ==
  ASSUME TimersCovered, UNCHANGED <<expire, timers, wqkey, rqueue>>,
         alive' \ {cur'} \subseteq alive \ {cur}
  PROVE  TimersCovered'
  BY DEF TimersCovered, InWq, InRq

\* The dates are covered at first, and the queues empty.
LEMMA InitInv == Init => SchedulerInv
<1> SUFFICES ASSUME Init PROVE SchedulerInv
  OBVIOUS
<1>1. 0 \in 0..(TickRange - 1) /\ 0 \in 0..(KeyRange - 1) /\ 0 \in 0..MaxCalls /\ 0 \in 0..MaxRenices
  BY SchedulerAssumption
<1>2. TypeOK
  BY <1>1 DEF Init, TypeOK, Tasks, Eternity
<1>3. QueuesInjective /\ ToSet(timers) = {} /\ ToSet(rqueue) = {}
  BY DEF Init, QueuesInjective, IsInjective, ToSet
<1> QED BY <1>2, <1>3 DEF Init, SchedulerInv, RunningTask, TimersCovered, CursorInQueue, Tasks

\* wake_expired_tasks() finds the first timer of the walk in the wait queue.
LEMMA WakeExpiredTasksStep ==
  ASSUME SchedulerInv, SyncsOK', WakeExpiredTasks PROVE SchedulerInv'
<1>1. /\ WqOK /\ RqOK /\ RestOK /\ RunningTask /\ QueuedAlive
      /\ TimersCovered /\ CursorInQueue
  BY Unpacked
<1>2. /\ pc = "io" /\ pc' = "wake" /\ calls' = 0
      /\ UNCHANGED <<alive, mini, nice, renices, now, expire, remain, timers, wqkey, rqueue,
                     rqkey, ticks, niced, timer, ahead, next, left, cur, unseen>>
  BY DEF WakeExpiredTasks, life, dates, waitq, runq
<1>3. eb' \in ToSet(timers) \cup {None}
  BY <1>1, LookupIn DEF WakeExpiredTasks, WqOK, Queue
<1>4. WqOK' /\ RqOK' /\ QueuedAlive'
  BY <1>1, <1>2 DEF WqOK, RqOK, QueuedAlive, Queue
<1>5. RestOK'
  BY <1>1, <1>2, <1>3, SchedulerAssumption DEF RestOK, QueuedAlive
<1>6. RunningTask' /\ CursorInQueue' /\ TimersCovered'
  BY <1>1, <1>2, <1>3, SameCover DEF RunningTask, CursorInQueue, InWq
<1> QED BY <1>4, <1>5, <1>6, Packed

\* The walk ends.
LEMMA WakeEndsStep ==
  ASSUME SchedulerInv, SyncsOK', WakeEnds PROVE SchedulerInv'
<1>1. /\ WqOK /\ RqOK /\ RestOK /\ RunningTask /\ QueuedAlive
      /\ TimersCovered /\ CursorInQueue
  BY Unpacked
<1> DEFINE node == IF eb = None THEN First(timers) ELSE eb
<1>2. /\ pc = "wake" /\ pc' = "runnable" /\ eb' = None
      /\ next' = IF node = None THEN Eternity ELSE wqkey[node]
      /\ UNCHANGED <<alive, mini, nice, calls, renices, now, expire, remain, timers, wqkey,
                     rqueue, rqkey, ticks, niced, timer, ahead, left, cur, unseen>>
  BY DEF WakeEnds, life, dates, waitq, runq, bounds
<1>3. node \in Tasks \cup {None}
  BY <1>1, FirstIn DEF WqOK, Queue, RestOK, QueuedAlive
<1>4. next' \in Ticks
  BY <1>1, <1>2, <1>3, SchedulerAssumption DEF WqOK, Eternity, Ticks
<1>5. WqOK' /\ RqOK' /\ QueuedAlive'
  BY <1>1, <1>2 DEF WqOK, RqOK, QueuedAlive, Queue
<1>6. RestOK'
  BY <1>1, <1>2, <1>4 DEF RestOK
<1>7. RunningTask' /\ CursorInQueue' /\ TimersCovered'
  BY <1>1, <1>2, SameCover DEF RunningTask, CursorInQueue
<1> QED BY <1>5, <1>6, <1>7, Packed

\* process_runnable_tasks() finds its first task in the run queue.
LEMMA ProcessRunnableTasksStep ==
  ASSUME SchedulerInv, SyncsOK', ProcessRunnableTasks PROVE SchedulerInv'
<1>1. /\ WqOK /\ RqOK /\ RestOK /\ RunningTask /\ QueuedAlive
      /\ TimersCovered /\ CursorInQueue
  BY Unpacked
<1> DEFINE most == IF Len(rqueue) > MaxProcessed THEN MaxProcessed ELSE Len(rqueue)
<1>2. /\ pc = "runnable" /\ pc' \in {"poll", "run"}
      /\ left' = IF niced # 0 THEN (most + 3) \div 4 ELSE most
      /\ UNCHANGED <<alive, mini, nice, calls, renices, now, expire, remain, timers, wqkey,
                     rqueue, rqkey, ticks, niced, timer, ahead, next, cur, unseen>>
  BY DEF ProcessRunnableTasks, life, dates, waitq, runq, bounds
<1>3. eb' \in ToSet(rqueue) \cup {None}
  BY <1>1, LookupIn DEF ProcessRunnableTasks, RqOK, Queue
<1>4. left' \in Nat
  <2>1. most \in Nat
    BY <1>1, SchedulerAssumption DEF RqOK, Queue
  <2> QED BY <1>2, <2>1
<1>5. WqOK' /\ RqOK' /\ QueuedAlive'
  BY <1>1, <1>2 DEF WqOK, RqOK, QueuedAlive, Queue
<1>6. RestOK'
  BY <1>1, <1>2, <1>3, <1>4 DEF RestOK, QueuedAlive
<1>7. RunningTask' /\ CursorInQueue' /\ TimersCovered'
  BY <1>1, <1>2, <1>3, SameCover DEF RunningTask, CursorInQueue, InRq
<1> QED BY <1>5, <1>6, <1>7, Packed

\* It has run the tasks it may run, or all.
LEMMA RunEndsStep ==
  ASSUME SchedulerInv, SyncsOK', RunEnds PROVE SchedulerInv'
<1>1. /\ WqOK /\ RqOK /\ RestOK /\ RunningTask /\ QueuedAlive
      /\ TimersCovered /\ CursorInQueue
  BY Unpacked
<1>2. /\ pc = "run" /\ pc' = "poll" /\ eb' = None /\ left' = 0
      /\ UNCHANGED <<alive, mini, nice, calls, renices, now, expire, remain, timers, wqkey,
                     rqueue, rqkey, ticks, niced, timer, ahead, next, cur, unseen>>
  BY DEF RunEnds, life, dates, waitq, runq, bounds
<1>3. WqOK' /\ RqOK' /\ QueuedAlive'
  BY <1>1, <1>2 DEF WqOK, RqOK, QueuedAlive, Queue
<1>4. RestOK'
  BY <1>1, <1>2 DEF RestOK
<1>5. RunningTask' /\ CursorInQueue' /\ TimersCovered'
  BY <1>1, <1>2, SameCover DEF RunningTask, CursorInQueue
<1> QED BY <1>3, <1>4, <1>5, Packed

\* A task leaves the run queue and runs; the walk will go on at the next one.
LEMMA RunStepStep ==
  ASSUME SchedulerInv, SyncsOK', RunStep PROVE SchedulerInv'
<1>1. /\ WqOK /\ RqOK /\ RestOK /\ RunningTask /\ QueuedAlive
      /\ TimersCovered /\ CursorInQueue
  BY Unpacked
<1> DEFINE t == IF eb = None THEN First(rqueue) ELSE eb
<1>2. /\ pc = "run" /\ left > 0 /\ rqueue # <<>> /\ cur' = t /\ eb' = Successor(rqueue, t)
      /\ UnlinkRq(t) /\ left' = left - 1 /\ pc' = "process"
      /\ UNCHANGED <<alive, mini, nice, calls, renices, now, expire, remain, timers, wqkey,
                     timer, next, unseen>>
  BY DEF RunStep, life, dates, waitq, bounds
<1>3. t \in ToSet(rqueue)
  BY <1>1, <1>2, FirstIn DEF RqOK, Queue, CursorInQueue, InRq
<1>4. t \in alive /\ t \in Tasks
  BY <1>1, <1>3 DEF QueuedAlive, RestOK
<1> HIDE DEF t
<1>5. eb' \in (ToSet(rqueue) \ {t}) \cup {None}
  BY <1>1, <1>2, <1>3, SuccessorIn, SchedulerAssumption DEF RqOK, Queue, Tasks
<1>6. RqOK' /\ ToSet(rqueue') = ToSet(rqueue) \ {t}
  BY <1>1, <1>2, <1>4, UnlinkRqKeeps
<1>7. WqOK' /\ QueuedAlive'
  BY <1>1, <1>2, <1>6 DEF WqOK, QueuedAlive, Queue
<1>8. RestOK'
  BY <1>1, <1>2, <1>4, <1>5 DEF RestOK, QueuedAlive
<1>9. None \notin Tasks
  BY SchedulerAssumption DEF Tasks
<1>10. RunningTask' /\ CursorInQueue'
  BY <1>2, <1>4, <1>5, <1>6, <1>9 DEF RunningTask, CursorInQueue, InRq
<1>11. TimersCovered'
  <2>1. \A u \in alive : Covered(u)
    BY <1>1, <1>2, <1>9 DEF TimersCovered, Covered, RunningTask, RestOK
  <2>2. ASSUME NEW u \in alive \ {t} PROVE Covered(u)'
    BY <1>2, <1>6, <2>1, <2>2 DEF Covered, InWq, InRq
  <2> QED BY <1>2, <2>2 DEF TimersCovered, Covered
<1> QED BY <1>6, <1>7, <1>8, <1>10, <1>11, Packed

\* A timer that has passed: its task runs, moves to its real date or leaves the queue.
LEMMA WakeStepStep ==
  ASSUME SchedulerInv, SyncsOK', WakeStep PROVE SchedulerInv'
<1>1. /\ WqOK /\ RqOK /\ RestOK /\ RunningTask /\ QueuedAlive
      /\ TimersCovered /\ CursorInQueue
  BY Unpacked
<1> DEFINE t == IF eb = None THEN First(timers) ELSE eb
           following == Successor(timers, t)
<1>2. /\ pc = "wake" /\ pc' = "wake" /\ t # None
      /\ UNCHANGED <<alive, mini, nice, calls, renices, now, expire, remain, next, left, cur>>
  BY DEF WakeStep, life, dates, bounds
<1>3. \/ /\ TickIsExpired(expire[t], now) /\ UnlinkWq(t) /\ TaskWakeup(t, nice[t], TRUE)
         /\ eb' = following /\ UNCHANGED unseen
      \/ /\ expire[t] = Eternity /\ UnlinkWq(t) /\ eb' = following
         /\ UNCHANGED <<rqueue, rqkey, ticks, niced, timer, ahead, unseen>>
      \/ /\ expire[t] # Eternity /\ Requeue(t, expire[t]) /\ eb' \in {t, following}
         /\ unseen' \in {alive, unseen}
         /\ UNCHANGED <<rqueue, rqkey, ticks, niced, timer, ahead>>
  BY DEF WakeStep, runq
<1>4. t \in ToSet(timers)
  BY <1>1, <1>2, FirstIn DEF WqOK, Queue, CursorInQueue, InWq
<1>5. t \in alive /\ t \in Tasks
  BY <1>1, <1>4 DEF QueuedAlive, RestOK
<1>6. following \in (ToSet(timers) \ {t}) \cup {None}
  BY <1>1, <1>4, SuccessorIn, SchedulerAssumption DEF WqOK, Queue, Tasks
<1> HIDE DEF t, following
<1>7. None \notin Tasks
  BY SchedulerAssumption DEF Tasks
<1>8. /\ \A u \in alive : Covered(u)
      /\ cur = None
  BY <1>1, <1>2, <1>7 DEF TimersCovered, Covered, RunningTask, RestOK
<1>9. SUFFICES /\ WqOK' /\ RqOK' /\ QueuedAlive' /\ timer' \subseteq Tasks /\ unseen' \subseteq Tasks
               /\ eb' \in ToSet(timers') \cup {None} /\ \A u \in alive : Covered(u)'
  <2>1. RestOK'
    BY <1>1, <1>2, <1>9 DEF RestOK, QueuedAlive
  <2>2. RunningTask' /\ CursorInQueue'
    BY <1>2, <1>8, <1>9 DEF RunningTask, CursorInQueue, InWq
  <2>3. TimersCovered'
    BY <1>2, <1>9 DEF TimersCovered, Covered
  <2> QED BY <1>9, <2>1, <2>2, <2>3, Packed
<1>10. CASE /\ TickIsExpired(expire[t], now) /\ UnlinkWq(t) /\ TaskWakeup(t, nice[t], TRUE)
            /\ eb' = following /\ UNCHANGED unseen
  <2>1. nice[t] \in Int /\ TRUE \in BOOLEAN
    BY <1>1, <1>5 DEF RestOK
  <2>2. RqOK' /\ ToSet(rqueue') = ToSet(rqueue) \cup {t} /\ timer' \subseteq Tasks
    BY <1>1, <1>5, <1>10, <2>1, TaskWakeupKeeps DEF RestOK
  <2>3. /\ WqOK' /\ ToSet(timers') = ToSet(timers) \ {t}
        /\ \A u \in Tasks : u # t => wqkey'[u] = wqkey[u]
    BY <1>1, <1>5, <1>10, UnlinkWqKeeps DEF WqOK
  <2>4. QueuedAlive' /\ unseen' \subseteq Tasks /\ eb' \in ToSet(timers') \cup {None}
    BY <1>1, <1>2, <1>5, <1>6, <1>10, <2>2, <2>3 DEF QueuedAlive, RestOK
  <2>5. ASSUME NEW u \in alive PROVE Covered(u)'
    BY <1>1, <1>2, <1>8, <2>2, <2>3 DEF Covered, InWq, InRq, RestOK
  <2> QED BY <2>2, <2>3, <2>4, <2>5
<1>11. CASE /\ expire[t] = Eternity /\ UnlinkWq(t) /\ eb' = following
            /\ UNCHANGED <<rqueue, rqkey, ticks, niced, timer, ahead, unseen>>
  <2>1. RqOK' /\ timer' \subseteq Tasks
    BY <1>1, <1>11 DEF RqOK, Queue, RestOK
  <2>2. /\ WqOK' /\ ToSet(timers') = ToSet(timers) \ {t}
        /\ \A u \in Tasks : u # t => wqkey'[u] = wqkey[u]
    BY <1>1, <1>5, <1>11, UnlinkWqKeeps DEF WqOK
  <2>3. QueuedAlive' /\ unseen' \subseteq Tasks /\ eb' \in ToSet(timers') \cup {None}
    BY <1>1, <1>2, <1>6, <1>11, <2>2 DEF QueuedAlive, RestOK
  <2>4. ASSUME NEW u \in alive PROVE Covered(u)'
    BY <1>1, <1>2, <1>8, <1>11, <2>2 DEF Covered, InWq, InRq, RestOK
  <2> QED BY <2>1, <2>2, <2>3, <2>4
<1>12. CASE /\ expire[t] # Eternity /\ Requeue(t, expire[t]) /\ eb' \in {t, following}
            /\ unseen' \in {alive, unseen}
            /\ UNCHANGED <<rqueue, rqkey, ticks, niced, timer, ahead>>
  <2>1. RqOK' /\ timer' \subseteq Tasks
    BY <1>1, <1>12 DEF RqOK, Queue, RestOK
  <2>2. expire[t] \in Ticks
    BY <1>1, <1>5 DEF RestOK
  <2>3. /\ WqOK' /\ ToSet(timers') = ToSet(timers) \cup {t} /\ wqkey'[t] = expire[t]
        /\ \A u \in Tasks : u # t => wqkey'[u] = wqkey[u]
    BY <1>1, <1>5, <1>12, <2>2, RequeueKeeps DEF WqOK
  <2>4. QueuedAlive' /\ unseen' \subseteq Tasks /\ eb' \in ToSet(timers') \cup {None}
    BY <1>1, <1>2, <1>5, <1>6, <1>12, <2>3 DEF QueuedAlive, RestOK
  <2>5. ASSUME NEW u \in alive PROVE Covered(u)'
    BY <1>1, <1>2, <1>5, <1>8, <1>12, <2>2, <2>3, SameTick DEF Covered, InWq, InRq, RestOK
  <2> QED BY <2>1, <2>3, <2>4, <2>5
<1> QED BY <1>3, <1>10, <1>11, <1>12

\* The poller returns: the clock moves, the queues do not.
LEMMA PollStep ==
  ASSUME SchedulerInv, SyncsOK', Poll PROVE SchedulerInv'
<1>1. /\ WqOK /\ RqOK /\ RestOK /\ RunningTask /\ QueuedAlive
      /\ TimersCovered /\ CursorInQueue
  BY Unpacked
<1>2. /\ pc = "poll" /\ pc' = "io" /\ next' = Eternity /\ unseen' = {}
      /\ UNCHANGED <<alive, mini, nice, calls, renices, expire, timers, wqkey, rqueue, rqkey,
                     ticks, niced, timer, ahead, eb, left, cur>>
  BY DEF Poll, life, bounds, waitq, runq
<1>3. now' \in Ticks /\ remain' \in [Tasks -> Int]
  <2>1. PICK busy, interrupted \in BOOLEAN : \E seen \in -1..(WaitTime(busy) + MaxDelay) :
           LET by == Advance(WaitTime(busy), interrupted, seen)
           IN  /\ now' = (now + by) % TickRange
               /\ remain' = [t \in Tasks |-> IF expire[t] = Eternity THEN 0
                                             ELSE remain[t] - by]
    BY DEF Poll
  <2>2. PICK seen \in -1..(WaitTime(busy) + MaxDelay) :
           LET by == Advance(WaitTime(busy), interrupted, seen)
           IN  /\ now' = (now + by) % TickRange
               /\ remain' = [t \in Tasks |-> IF expire[t] = Eternity THEN 0
                                             ELSE remain[t] - by]
    BY <2>1
  <2>3. WaitTime(busy) \in Int
    <3>1. next \in Int /\ now \in Int /\ TickRange \in Nat /\ TickRange > 0 /\ MaxDelay \in Nat
      BY <1>1, SchedulerAssumption DEF RestOK, Ticks
    <3>2. Signed(next - now, TickRange) \in Int
      BY <3>1 DEF Signed
    <3>3. TickRemain(now, next) \in Int
      BY <3>2 DEF TickRemain
    <3> QED BY <3>1, <3>3 DEF WaitTime
  <2> DEFINE by == Advance(WaitTime(busy), interrupted, seen)
  <2>4. by \in Int
    BY <2>2, <2>3, SchedulerAssumption DEF Advance
  <2> HIDE DEF by
  <2>5. now' = (now + by) % TickRange
    BY <2>2 DEF by
  <2>6. remain' = [t \in Tasks |-> IF expire[t] = Eternity THEN 0 ELSE remain[t] - by]
    BY <2>2 DEF by
  <2>7. remain' \in [Tasks -> Int]
    BY <1>1, <2>4, <2>6 DEF RestOK
  <2>8. now' \in Ticks
    BY <1>1, <2>4, <2>5, SchedulerAssumption DEF RestOK, Ticks
  <2> QED BY <2>7, <2>8
<1>4. WqOK' /\ RqOK' /\ QueuedAlive'
  BY <1>1, <1>2 DEF WqOK, RqOK, QueuedAlive, Queue
<1>5. Eternity \in Ticks
  BY SchedulerAssumption DEF Ticks, Eternity
<1>6. RestOK'
  BY <1>1, <1>2, <1>3, <1>5 DEF RestOK
<1>7. RunningTask' /\ CursorInQueue' /\ TimersCovered'
  BY <1>1, <1>2, SameCover DEF RunningTask, CursorInQueue
<1> QED BY <1>4, <1>6, <1>7, Packed

\* process() returned the task with a date: it is queued for it, unless there is none.
LEMMA RequeuedKeeps ==
  ASSUME SchedulerInv, SyncsOK', pc = "process", NEW date \in Ticks, Requeued(date),
         expire' \in [Tasks -> Ticks], remain' \in [Tasks -> Int], expire'[cur] = date,
         \A u \in Tasks : u # cur => expire'[u] = expire[u]
  PROVE  SchedulerInv'
<1>1. /\ WqOK /\ RqOK /\ RestOK /\ RunningTask /\ QueuedAlive
      /\ TimersCovered /\ CursorInQueue
  BY Unpacked
<1>2. /\ TaskQueue(cur, date) /\ pc' = "run" /\ cur' = None /\ calls' = 0
      /\ next' = IF date # Eternity THEN TickFirst(next, date) ELSE next
      /\ timer' = timer \ {cur}
      /\ UNCHANGED <<alive, mini, nice, renices, now, rqueue, rqkey, ticks, niced, ahead,
                     left, unseen>>
  BY DEF Requeued, life
<1>3. eb' \in {eb, LookupGe(rqueue, rqkey, (ticks - KeyRange \div 2) % KeyRange)}
  BY DEF Requeued
<1>4. cur \in alive /\ cur \in Tasks
  BY <1>1 DEF RunningTask, RestOK
<1>5. eb' \in ToSet(rqueue) \cup {None}
  BY <1>1, <1>3, LookupIn DEF RqOK, Queue, CursorInQueue, InRq
<1>6. /\ WqOK' /\ ToSet(timers) \subseteq ToSet(timers')
      /\ ToSet(timers') \subseteq ToSet(timers) \cup {cur}
      /\ date # Eternity => cur \in ToSet(timers') /\ ~TickIsLt(date, wqkey'[cur])
      /\ \A u \in Tasks : u # cur => wqkey'[u] = wqkey[u]
  BY <1>1, <1>2, <1>4, TaskQueueKeeps DEF WqOK
<1>7. RqOK' /\ QueuedAlive'
  BY <1>1, <1>2, <1>4, <1>6 DEF RqOK, Queue, QueuedAlive
<1>8. next' \in Ticks
  BY <1>1, <1>2, TickFirstType DEF RestOK
<1>9. RestOK'
  BY <1>1, <1>2, <1>5, <1>8, SchedulerAssumption DEF RestOK, QueuedAlive
<1>10. RunningTask' /\ CursorInQueue'
  BY <1>2, <1>5 DEF RunningTask, CursorInQueue, InRq
<1>11. TimersCovered'
  <2>1. ASSUME NEW u \in alive PROVE Covered(u)'
    <3>1. CASE u = cur
      BY <1>6, <3>1 DEF Covered, InWq
    <3>2. CASE u # cur
      BY <1>1, <1>2, <1>6, <3>2 DEF Covered, TimersCovered, InWq, InRq, RestOK
    <3> QED BY <3>1, <3>2
  <2> QED BY <1>2, <2>1 DEF TimersCovered, Covered
<1> QED BY <1>6, <1>7, <1>9, <1>10, <1>11, Packed

\* The running task keeps its date, has none, or chooses a new one.
LEMMA ReturnStep ==
  ASSUME SchedulerInv, SyncsOK', Return PROVE SchedulerInv'
<1>1. RestOK /\ RunningTask
  BY Unpacked
<1>2. pc = "process"
  BY DEF Return, ReturnLearning
<1>3. cur \in Tasks /\ Eternity \in Ticks
  BY <1>1, <1>2, SchedulerAssumption DEF RunningTask, RestOK, Ticks, Eternity
<1>4. ASSUME NEW date \in Ticks, NEW n \in Int, SetExpire(cur, date, n), Requeued(date)
      PROVE  SchedulerInv'
  <2>1. /\ expire' \in [Tasks -> Ticks] /\ remain' \in [Tasks -> Int] /\ expire'[cur] = date
        /\ \A u \in Tasks : u # cur => expire'[u] = expire[u]
    BY <1>1, <1>3, <1>4 DEF SetExpire, RestOK
  <2> QED BY <1>2, <1>4, <2>1, RequeuedKeeps
<1>5. CASE Requeued(expire[cur]) /\ UNCHANGED dates
  <2>1. /\ expire' \in [Tasks -> Ticks] /\ remain' \in [Tasks -> Int]
        /\ expire'[cur] = expire[cur] /\ expire[cur] \in Ticks
        /\ \A u \in Tasks : u # cur => expire'[u] = expire[u]
    BY <1>1, <1>3, <1>5 DEF dates, RestOK
  <2> QED BY <1>2, <1>5, <2>1, RequeuedKeeps
<1>6. CASE SetExpire(cur, Eternity, 0) /\ Requeued(Eternity)
  <2>1. 0 \in Int
    OBVIOUS
  <2> QED BY <1>3, <1>4, <1>6, <2>1
<1>7. ASSUME NEW d \in Timeouts, SetExpire(cur, TickAdd(now, d), Delay(d)),
             Requeued(TickAdd(now, d))
      PROVE  SchedulerInv'
  <2>1. TickAdd(now, d) \in Ticks /\ Delay(d) \in Int
    BY <1>1, TickAddType DEF RestOK
  <2> QED BY <1>4, <1>7, <2>1
<1>8. ASSUME NEW late \in 0..MaxLesson, SetExpire(cur, (now - late) % TickRange, -late),
             Requeued((now - late) % TickRange)
      PROVE  SchedulerInv'
  <2>1. (now - late) % TickRange \in Ticks /\ -late \in Int
    BY <1>1, SchedulerAssumption DEF RestOK, Ticks
  <2> QED BY <1>4, <1>8, <2>1
<1> QED BY <1>5, <1>6, <1>7, <1>8 DEF Return, ReturnLearning

\* task_delete() and task_free() leave nothing of the task in a queue.
LEMMA TaskDeleteKeeps ==
  ASSUME SchedulerInv, SyncsOK', NEW t \in Tasks, TaskDelete(t)
  PROVE  /\ WqOK' /\ RqOK' /\ QueuedAlive' /\ alive' = alive \ {t} /\ mini' \subseteq alive' \cap Sessions
         /\ timer' \subseteq Tasks
         /\ expire' \in [Tasks -> Ticks] /\ nice' \in [Tasks -> Int] /\ remain' \in [Tasks -> Int]
         /\ ToSet(timers') = ToSet(timers) \ {t} /\ ToSet(rqueue') = ToSet(rqueue) \ {t}
         /\ \A u \in alive : u # t /\ Covered(u) => Covered(u)'
<1>1. /\ WqOK /\ RqOK /\ RestOK /\ RunningTask /\ QueuedAlive
      /\ TimersCovered /\ CursorInQueue
  BY Unpacked
<1>2. /\ alive' = alive \ {t} /\ mini' = mini \ {t} /\ UnlinkWq(t) /\ timer' = timer \ {t}
      /\ nice' = [nice EXCEPT ![t] = 0] /\ SetExpire(t, Eternity, 0)
  BY DEF TaskDelete
<1>3. /\ WqOK' /\ ToSet(timers') = ToSet(timers) \ {t}
      /\ \A u \in Tasks : u # t => wqkey'[u] = wqkey[u]
  BY <1>1, <1>2, UnlinkWqKeeps DEF WqOK
<1>4. RqOK' /\ ToSet(rqueue') = ToSet(rqueue) \ {t}
  <2>1. CASE InRq(t)
    BY <1>1, <2>1, UnlinkRqKeeps DEF TaskDelete
  <2>2. CASE ~InRq(t)
    BY <1>1, <2>2 DEF TaskDelete, InRq, RqOK, Queue
  <2> QED BY <2>1, <2>2
<1>5. /\ expire' \in [Tasks -> Ticks] /\ nice' \in [Tasks -> Int] /\ remain' \in [Tasks -> Int]
      /\ \A u \in Tasks : u # t => expire'[u] = expire[u]
  BY <1>1, <1>2, SchedulerAssumption DEF RestOK, SetExpire, Eternity, Ticks
<1>6. QueuedAlive' /\ mini' \subseteq alive' \cap Sessions /\ timer' \subseteq Tasks
  BY <1>1, <1>2, <1>3, <1>4 DEF QueuedAlive, RestOK
<1>7. ASSUME NEW u \in alive, u # t, Covered(u) PROVE Covered(u)'
  BY <1>1, <1>3, <1>4, <1>5, <1>7 DEF Covered, InWq, InRq, RestOK
<1> QED BY <1>2, <1>3, <1>4, <1>5, <1>6, <1>7

\* The running task is deleted.  The walk does not visit it next, even if it is in
\* the run queue again.
LEMMA ReturnNullStep ==
  ASSUME SchedulerInv, SyncsOK', ReturnNull PROVE SchedulerInv'
<1>1. /\ WqOK /\ RqOK /\ RestOK /\ RunningTask /\ QueuedAlive
      /\ TimersCovered /\ CursorInQueue
  BY Unpacked
<1>2. /\ pc = "process" /\ cur \in Sessions /\ TaskDelete(cur) /\ pc' = "run" /\ cur' = None /\ calls' = 0
      /\ UNCHANGED <<renices, now, eb, next, left, unseen>>
  BY DEF ReturnNull
<1>3. cur \in alive /\ cur \in Tasks /\ eb # cur
  BY <1>1, <1>2 DEF RunningTask, RestOK
<1>4. /\ WqOK' /\ RqOK' /\ QueuedAlive' /\ alive' = alive \ {cur} /\ mini' \subseteq alive' \cap Sessions
      /\ timer' \subseteq Tasks
      /\ expire' \in [Tasks -> Ticks] /\ nice' \in [Tasks -> Int] /\ remain' \in [Tasks -> Int]
      /\ ToSet(rqueue') = ToSet(rqueue) \ {cur}
      /\ \A u \in alive : u # cur /\ Covered(u) => Covered(u)'
  BY <1>2, <1>3, TaskDeleteKeeps
<1>5. RestOK'
  <2>1. Services \subseteq alive' /\ alive' \subseteq Tasks
    BY <1>1, <1>2, <1>4, SchedulerAssumption DEF RestOK
  <2> QED BY <1>1, <1>2, <1>4, <2>1, SchedulerAssumption DEF RestOK
<1>6. RunningTask' /\ CursorInQueue'
  BY <1>1, <1>2, <1>3, <1>4 DEF RunningTask, CursorInQueue, InRq
<1>7. TimersCovered'
  BY <1>1, <1>2, <1>4 DEF TimersCovered, Covered
<1> QED BY <1>4, <1>5, <1>6, <1>7, Packed

-----------------------------------------------------------------------------
(* What the running task and the callbacks call.                           *)

\* A call leaves the loop alone and the running task running; a queue that lost no
\* task still holds the one that the walk visits next.
LEMMA CallKeeps ==
  ASSUME SchedulerInv, SyncsOK', NEW where, where \subseteq {"process", "io"}, Call(where),
         UNCHANGED <<now, pc, eb, next, left, cur>>,
         WqOK', RqOK', QueuedAlive', mini' \subseteq alive' \cap Sessions, timer' \subseteq Tasks,
         Services \subseteq alive', alive' \subseteq Tasks, pc = "process" => cur \in alive',
         expire' \in [Tasks -> Ticks], nice' \in [Tasks -> Int], remain' \in [Tasks -> Int],
         renices' \in 0..MaxRenices, unseen' \subseteq Tasks,
         pc = "process" => ToSet(rqueue) \subseteq ToSet(rqueue'),
         \A u \in alive' \ {cur} : Covered(u)'
  PROVE  SchedulerInv'
<1>1. RestOK /\ RunningTask /\ CursorInQueue
  BY Unpacked
<1>2. pc \in {"process", "io"} /\ calls' = calls + 1 /\ calls < MaxCalls
  BY DEF Call
<1>3. calls' \in 0..MaxCalls
  BY <1>1, <1>2, SchedulerAssumption DEF RestOK
<1>4. RestOK'
  BY <1>1, <1>3 DEF RestOK
<1>5. RunningTask'
  BY <1>1, <1>2 DEF RunningTask
<1>6. CursorInQueue'
  BY <1>1, <1>2 DEF CursorInQueue, InRq
<1>7. TimersCovered'
  BY DEF TimersCovered, Covered
<1> QED BY <1>4, <1>5, <1>6, <1>7, Packed

\* task_wakeup() by a task or a callback, and session_shutdown().
LEMMA WakeupKeeps ==
  ASSUME SchedulerInv, SyncsOK', NEW where, where \subseteq {"process", "io"}, Call(where),
         NEW t \in alive, NEW n \in Int, TaskWakeup(t, n, FALSE),
         nice' \in [Tasks -> Int], renices' \in 0..MaxRenices, mini' \subseteq alive' \cap Sessions,
         UNCHANGED <<alive, now, timers, wqkey, pc, eb, next, left, cur, unseen>>,
         expire' \in [Tasks -> Ticks], remain' \in [Tasks -> Int],
         \A u \in Tasks : u # t => expire'[u] = expire[u]
  PROVE  SchedulerInv'
<1>1. /\ WqOK /\ RqOK /\ RestOK /\ RunningTask /\ QueuedAlive
      /\ TimersCovered /\ CursorInQueue
  BY Unpacked
<1>2. t \in Tasks /\ FALSE \in BOOLEAN
  BY <1>1 DEF RestOK
<1>3. RqOK' /\ ToSet(rqueue') = ToSet(rqueue) \cup {t} /\ timer' \subseteq Tasks
  BY <1>1, <1>2, TaskWakeupKeeps DEF RestOK
<1>4. /\ WqOK' /\ QueuedAlive' /\ Services \subseteq alive' /\ alive' \subseteq Tasks
      /\ unseen' \subseteq Tasks /\ (pc = "process" => cur \in alive')
  BY <1>1, <1>3 DEF WqOK, Queue, QueuedAlive, RestOK, RunningTask
<1>5. ASSUME NEW u \in alive' \ {cur} PROVE Covered(u)'
  BY <1>1, <1>3 DEF Covered, TimersCovered, InWq, InRq, RestOK
<1> QED BY <1>3, <1>4, <1>5, CallKeeps

\* A callback gives another task a date, and queues it.
LEMMA QueueKeeps ==
  ASSUME SchedulerInv, SyncsOK', NEW where, where \subseteq {"process", "io"}, Call(where),
         NEW t \in Tasks, NEW date \in Ticks, NEW n \in Int,
         SetExpire(t, date, n), TaskQueue(t, date),
         t \in alive', alive \subseteq alive', alive' \subseteq alive \cup {t},
         nice' \in [Tasks -> Int], mini' \subseteq alive' \cap Sessions, unseen' \subseteq Tasks,
         UNCHANGED <<renices, now, rqueue, rqkey, ticks, niced, timer, ahead, pc, eb, next,
                     left, cur>>
  PROVE  SchedulerInv'
<1>1. /\ WqOK /\ RqOK /\ RestOK /\ RunningTask /\ QueuedAlive
      /\ TimersCovered /\ CursorInQueue
  BY Unpacked
<1>2. /\ WqOK' /\ ToSet(timers) \subseteq ToSet(timers')
      /\ ToSet(timers') \subseteq ToSet(timers) \cup {t}
      /\ date # Eternity => t \in ToSet(timers') /\ ~TickIsLt(date, wqkey'[t])
      /\ \A u \in Tasks : u # t => wqkey'[u] = wqkey[u]
  BY <1>1, TaskQueueKeeps DEF WqOK
<1>3. /\ RqOK' /\ QueuedAlive' /\ Services \subseteq alive' /\ alive' \subseteq Tasks
      /\ timer' \subseteq Tasks /\ (pc = "process" => cur \in alive')
  BY <1>1, <1>2 DEF RqOK, Queue, QueuedAlive, RestOK, RunningTask
<1>4. /\ expire' \in [Tasks -> Ticks] /\ remain' \in [Tasks -> Int] /\ expire'[t] = date
      /\ \A u \in Tasks : u # t => expire'[u] = expire[u]
  BY <1>1 DEF SetExpire, RestOK
<1>5. ASSUME NEW u \in alive' \ {cur} PROVE Covered(u)'
  <2>1. CASE u = t
    BY <1>2, <1>4, <2>1 DEF Covered, InWq
  <2>2. CASE u # t
    BY <1>1, <1>2, <1>4, <2>2 DEF Covered, TimersCovered, InWq, InRq, RestOK
  <2> QED BY <2>1, <2>2
<1>6. renices' \in 0..MaxRenices /\ ToSet(rqueue) \subseteq ToSet(rqueue')
  BY <1>1 DEF RestOK
<1> QED BY <1>2, <1>3, <1>4, <1>5, <1>6, CallKeeps

\* task_wakeup() of any task that is allocated.
LEMMA WakeupStep ==
  ASSUME SchedulerInv, SyncsOK', NEW t \in Tasks, Wakeup(t) PROVE SchedulerInv'
<1>1. RestOK
  BY Unpacked
<1>2. /\ Call({"process", "io"}) /\ t \in alive /\ TaskWakeup(t, nice[t], FALSE)
      /\ UNCHANGED <<alive, mini, nice, renices, now, expire, remain, timers, wqkey, pc, eb,
                     next, left, cur, unseen>>
  BY DEF Wakeup, life, dates, waitq, loop
<1>3. /\ nice[t] \in Int /\ nice' \in [Tasks -> Int] /\ renices' \in 0..MaxRenices
      /\ mini' \subseteq alive' \cap Sessions /\ expire' \in [Tasks -> Ticks] /\ remain' \in [Tasks -> Int]
  BY <1>1, <1>2 DEF RestOK
<1>4. {"process", "io"} \subseteq {"process", "io"}
  OBVIOUS
<1> QED BY <1>2, <1>3, <1>4, WakeupKeeps

\* A nice value that is changed.
LEMMA ReniceKeeps ==
  ASSUME RestOK, NEW t \in Tasks, NEW n \in Int, Renice(t, n)
  PROVE  nice' \in [Tasks -> Int] /\ renices' \in 0..MaxRenices
  BY SchedulerAssumption DEF Renice, RestOK

\* session_shutdown(): the session gets another place in the run queue, or its first.
LEMMA SessionShutdownStep ==
  ASSUME SchedulerInv, SyncsOK', NEW t \in Tasks, SessionShutdown(t) PROVE SchedulerInv'
<1>1. RestOK
  BY Unpacked
<1>2. /\ Call({"process"}) /\ t \in alive /\ Renice(t, KillNice)
      /\ TaskWakeup(t, KillNice, FALSE)
      /\ UNCHANGED <<alive, mini, now, expire, remain, timers, wqkey, pc, eb, next, left, cur,
                     unseen>>
  BY DEF SessionShutdown, life, dates, waitq, loop
<1>3. /\ KillNice \in Int /\ mini' \subseteq alive' \cap Sessions
      /\ expire' \in [Tasks -> Ticks] /\ remain' \in [Tasks -> Int]
  BY <1>1, <1>2, SchedulerAssumption DEF RestOK
<1>4. nice' \in [Tasks -> Int] /\ renices' \in 0..MaxRenices
  BY <1>1, <1>2, <1>3, ReniceKeeps
<1>5. {"process"} \subseteq {"process", "io"}
  OBVIOUS
<1> QED BY <1>2, <1>3, <1>4, <1>5, WakeupKeeps

\* A set-nice rule changes no queue.
LEMMA SetNiceStep ==
  ASSUME SchedulerInv, SyncsOK', SetNice PROVE SchedulerInv'
<1>1. /\ WqOK /\ RqOK /\ RestOK /\ RunningTask /\ QueuedAlive
      /\ TimersCovered /\ CursorInQueue
  BY Unpacked
<1>2. /\ Call({"process"}) /\ cur \in Sessions /\ \E n \in RuleNices : Renice(cur, n)
      /\ UNCHANGED <<alive, mini, now, expire, remain, timers, wqkey, rqueue, rqkey, ticks,
                     niced, timer, ahead, pc, eb, next, left, cur, unseen>>
  BY DEF SetNice, life, dates, waitq, runq, loop
<1>3. nice' \in [Tasks -> Int] /\ renices' \in 0..MaxRenices
  BY <1>1, <1>2, ReniceKeeps, SchedulerAssumption DEF Tasks
<1>4. WqOK' /\ RqOK' /\ QueuedAlive'
  BY <1>1, <1>2 DEF WqOK, RqOK, QueuedAlive, Queue
<1>5. /\ mini' \subseteq alive' \cap Sessions /\ timer' \subseteq Tasks
      /\ Services \subseteq alive' /\ alive' \subseteq Tasks /\ (pc = "process" => cur \in alive')
      /\ expire' \in [Tasks -> Ticks] /\ remain' \in [Tasks -> Int] /\ unseen' \subseteq Tasks
      /\ ToSet(rqueue) \subseteq ToSet(rqueue')
  BY <1>1, <1>2 DEF RestOK, RunningTask
<1>6. \A u \in alive' \ {cur} : Covered(u)'
  BY <1>1, <1>2 DEF TimersCovered, Covered, InWq, InRq
<1>7. {"process"} \subseteq {"process", "io"}
  OBVIOUS
<1> QED BY <1>2, <1>3, <1>4, <1>5, <1>6, <1>7, CallKeeps

\* task_schedule() of a service, at the latest at a date.
LEMMA TaskScheduleStep ==
  ASSUME SchedulerInv, SyncsOK', NEW t \in Tasks, TaskSchedule(t) PROVE SchedulerInv'
<1>1. RestOK
  BY Unpacked
<1>2. /\ Call({"process", "io"}) /\ t \in Services /\ Unseen(t)
      /\ UNCHANGED <<alive, mini, nice, renices, now, rqueue, rqkey, ticks, niced, timer, ahead,
                     pc, eb, next, left, cur>>
  BY DEF TaskSchedule, life, runq, loop
<1>3. PICK d \in Timeouts :
         LET when == IF InWq(t) THEN TickFirst(TickAdd(now, d), expire[t]) ELSE TickAdd(now, d)
         IN  /\ SetExpire(t, when, IF when = TickAdd(now, d) THEN Delay(d) ELSE remain[t])
             /\ TaskQueue(t, when)
  BY DEF TaskSchedule
<1> DEFINE when == IF InWq(t) THEN TickFirst(TickAdd(now, d), expire[t]) ELSE TickAdd(now, d)
           n == IF when = TickAdd(now, d) THEN Delay(d) ELSE remain[t]
<1>4. TickAdd(now, d) \in Ticks /\ Delay(d) \in Int
  BY <1>1, TickAddType DEF RestOK
<1>5. expire[t] \in Ticks /\ remain[t] \in Int
  BY <1>1 DEF RestOK
<1>6. when \in Ticks /\ n \in Int
  BY <1>4, <1>5, TickFirstType
<1>7. SetExpire(t, when, n) /\ TaskQueue(t, when)
  BY <1>3
<1> HIDE DEF when, n
<1>8. /\ t \in alive' /\ alive \subseteq alive' /\ alive' \subseteq alive \cup {t}
      /\ nice' \in [Tasks -> Int] /\ mini' \subseteq alive' \cap Sessions /\ unseen' \subseteq Tasks
  BY <1>1, <1>2 DEF RestOK, Unseen
<1>9. {"process", "io"} \subseteq {"process", "io"}
  OBVIOUS
<1> QED BY <1>2, <1>6, <1>7, <1>8, <1>9, QueueKeeps

\* The expiration of a service is moved.
LEMMA PostponeStep ==
  ASSUME SchedulerInv, SyncsOK', NEW t \in Tasks, Postpone(t) PROVE SchedulerInv'
<1>1. RestOK
  BY Unpacked
<1>2. /\ Call({"process", "io"}) /\ t \in Services /\ Unseen(t)
      /\ UNCHANGED <<alive, mini, nice, renices, now, rqueue, rqkey, ticks, niced, timer, ahead,
                     pc, eb, next, left, cur>>
  BY DEF Postpone, life, runq, loop
<1>3. PICK d \in Timeouts :
         SetExpire(t, TickAdd(now, d), Delay(d)) /\ TaskQueue(t, TickAdd(now, d))
  BY DEF Postpone
<1>4. TickAdd(now, d) \in Ticks /\ Delay(d) \in Int
  BY <1>1, TickAddType DEF RestOK
<1>5. /\ t \in alive' /\ alive \subseteq alive' /\ alive' \subseteq alive \cup {t}
      /\ nice' \in [Tasks -> Int] /\ mini' \subseteq alive' \cap Sessions /\ unseen' \subseteq Tasks
  BY <1>1, <1>2 DEF RestOK, Unseen
<1>6. {"process", "io"} \subseteq {"process", "io"}
  OBVIOUS
<1> QED BY <1>2, <1>3, <1>4, <1>5, <1>6, QueueKeeps

\* session_accept(): a task appears, in one of the queues.
LEMMA SessionAcceptStep ==
  ASSUME SchedulerInv, SyncsOK', NEW t \in Tasks, SessionAccept(t) PROVE SchedulerInv'
<1>1. /\ WqOK /\ RqOK /\ RestOK /\ RunningTask /\ QueuedAlive
      /\ TimersCovered /\ CursorInQueue
  BY Unpacked
<1>2. /\ Call({"io"}) /\ t \in Sessions /\ alive' = alive \cup {t}
      /\ UNCHANGED <<renices, now, pc, eb, next, left, cur, unseen>>
  BY DEF SessionAccept, loop
<1>3. PICK n \in Nices :
         /\ nice' = [nice EXCEPT ![t] = n]
         /\ \/ /\ mini' = mini \cup {t}
               /\ \E d \in Timeouts :
                     SetExpire(t, TickAdd(now, d), Delay(d)) /\ TaskQueue(t, TickAdd(now, d))
               /\ UNCHANGED <<rqueue, rqkey, ticks, niced, timer, ahead>>
            \/ /\ TaskWakeup(t, n, FALSE)
               /\ UNCHANGED <<mini, expire, remain, timers, wqkey>>
  BY DEF SessionAccept, runq, dates, waitq
<1>4. n \in Int /\ nice' \in [Tasks -> Int]
  BY <1>1, <1>3, SchedulerAssumption DEF RestOK
<1>5. {"io"} \subseteq {"process", "io"}
  OBVIOUS
<1>6. CASE /\ mini' = mini \cup {t}
           /\ \E d \in Timeouts :
                 SetExpire(t, TickAdd(now, d), Delay(d)) /\ TaskQueue(t, TickAdd(now, d))
           /\ UNCHANGED <<rqueue, rqkey, ticks, niced, timer, ahead>>
  <2>1. PICK d \in Timeouts :
           SetExpire(t, TickAdd(now, d), Delay(d)) /\ TaskQueue(t, TickAdd(now, d))
    BY <1>6
  <2>2. TickAdd(now, d) \in Ticks /\ Delay(d) \in Int
    BY <1>1, TickAddType DEF RestOK
  <2>3. /\ t \in alive' /\ alive \subseteq alive' /\ alive' \subseteq alive \cup {t}
        /\ mini' \subseteq alive' \cap Sessions /\ unseen' \subseteq Tasks
    BY <1>1, <1>2, <1>6 DEF RestOK
  <2> QED BY <1>2, <1>4, <1>5, <1>6, <2>1, <2>2, <2>3, QueueKeeps
<1>7. CASE TaskWakeup(t, n, FALSE) /\ UNCHANGED <<mini, expire, remain, timers, wqkey>>
  <2>1. FALSE \in BOOLEAN
    OBVIOUS
  <2>2. RqOK' /\ ToSet(rqueue') = ToSet(rqueue) \cup {t} /\ timer' \subseteq Tasks
    BY <1>1, <1>4, <1>7, <2>1, TaskWakeupKeeps DEF RestOK
  <2>3. /\ WqOK' /\ QueuedAlive' /\ Services \subseteq alive' /\ alive' \subseteq Tasks
        /\ mini' \subseteq alive' \cap Sessions /\ unseen' \subseteq Tasks
        /\ expire' \in [Tasks -> Ticks] /\ remain' \in [Tasks -> Int]
        /\ renices' \in 0..MaxRenices /\ ToSet(rqueue) \subseteq ToSet(rqueue')
        /\ (pc = "process" => cur \in alive')
    BY <1>1, <1>2, <1>7, <2>2 DEF WqOK, Queue, QueuedAlive, RestOK, RunningTask
  <2>4. ASSUME NEW u \in alive' \ {cur} PROVE Covered(u)'
    BY <1>1, <1>2, <1>7, <2>2 DEF Covered, TimersCovered, InWq, InRq, RestOK
  <2> QED BY <1>2, <1>4, <1>5, <2>2, <2>3, <2>4, CallKeeps
<1> QED BY <1>3, <1>6, <1>7

\* conn_session_complete(): the task has no date any more, and runs.
LEMMA SessionCompleteStep ==
  ASSUME SchedulerInv, SyncsOK', NEW t \in Tasks, SessionComplete(t) PROVE SchedulerInv'
<1>1. RestOK
  BY Unpacked
<1>2. /\ Call({"io"}) /\ t \in mini /\ mini' = mini \ {t} /\ SetExpire(t, Eternity, 0)
      /\ TaskWakeup(t, nice[t], FALSE)
      /\ UNCHANGED <<alive, nice, renices, now, timers, wqkey, pc, eb, next, left, cur, unseen>>
  BY DEF SessionComplete, waitq, loop
<1>3. /\ expire' \in [Tasks -> Ticks] /\ remain' \in [Tasks -> Int]
      /\ \A u \in Tasks : u # t => expire'[u] = expire[u]
  BY <1>1, <1>2, SchedulerAssumption DEF SetExpire, RestOK, Eternity, Ticks
<1>4. /\ t \in alive /\ nice[t] \in Int /\ nice' \in [Tasks -> Int]
      /\ renices' \in 0..MaxRenices /\ mini' \subseteq alive' \cap Sessions
  BY <1>1, <1>2 DEF RestOK
<1>5. {"io"} \subseteq {"process", "io"}
  OBVIOUS
<1> QED BY <1>2, <1>3, <1>4, <1>5, WakeupKeeps

\* kill_mini_session(): the task is deleted while no queue is walked.
LEMMA KillMiniSessionStep ==
  ASSUME SchedulerInv, SyncsOK', NEW t \in Tasks, KillMiniSession(t) PROVE SchedulerInv'
<1>1. /\ WqOK /\ RqOK /\ RestOK /\ RunningTask /\ QueuedAlive
      /\ TimersCovered /\ CursorInQueue
  BY Unpacked
<1>2. /\ Call({"io"}) /\ t \in mini /\ TaskDelete(t)
      /\ UNCHANGED <<renices, now, pc, eb, next, left, cur, unseen>>
  BY DEF KillMiniSession, loop
<1>3. /\ WqOK' /\ RqOK' /\ QueuedAlive' /\ alive' = alive \ {t}
      /\ mini' \subseteq alive' \cap Sessions /\ timer' \subseteq Tasks
      /\ expire' \in [Tasks -> Ticks] /\ nice' \in [Tasks -> Int] /\ remain' \in [Tasks -> Int]
      /\ \A u \in alive : u # t /\ Covered(u) => Covered(u)'
  BY <1>2, TaskDeleteKeeps
<1>4. pc = "io"
  BY <1>2 DEF Call
<1>5. /\ Services \subseteq alive' /\ alive' \subseteq Tasks /\ unseen' \subseteq Tasks
      /\ renices' \in 0..MaxRenices
  BY <1>1, <1>2, <1>3, SchedulerAssumption DEF RestOK
<1>6. ASSUME NEW u \in alive' \ {cur} PROVE Covered(u)'
  BY <1>1, <1>3 DEF TimersCovered, Covered
<1>7. {"io"} \subseteq {"process", "io"}
  OBVIOUS
<1> QED BY <1>2, <1>3, <1>4, <1>5, <1>6, <1>7, CallKeeps

-----------------------------------------------------------------------------

\* Every step of the loop, of a running task and of a callback keeps the invariant.
LEMMA SchedulerStep == SchedulerInv /\ [Next]_vars => SchedulerInv'
<1> SUFFICES ASSUME SchedulerInv, [Next]_vars PROVE SchedulerInv'
  OBVIOUS
<1>0. SyncsOK'
  BY Unpacked DEF Next, vars, SyncsOK
<1>1. CASE WakeExpiredTasks \/ WakeStep \/ WakeEnds
  BY <1>0, <1>1, WakeExpiredTasksStep, WakeStepStep, WakeEndsStep
<1>2. CASE ProcessRunnableTasks \/ RunStep \/ RunEnds
  BY <1>0, <1>2, ProcessRunnableTasksStep, RunStepStep, RunEndsStep
<1>3. CASE Return \/ ReturnNull \/ SetNice
  BY <1>0, <1>3, ReturnStep, ReturnNullStep, SetNiceStep
<1>4. ASSUME NEW t \in Tasks,
             \/ Wakeup(t) \/ TaskSchedule(t) \/ Postpone(t) \/ SessionShutdown(t)
             \/ SessionAccept(t) \/ SessionComplete(t) \/ KillMiniSession(t)
      PROVE  SchedulerInv'
  BY <1>0, <1>4, WakeupStep, TaskScheduleStep, PostponeStep, SessionShutdownStep, SessionAcceptStep,
     SessionCompleteStep, KillMiniSessionStep
<1>5. CASE Poll
  BY <1>0, <1>5, PollStep
<1>6. CASE UNCHANGED vars
  BY <1>6 DEF vars, life, bounds, dates, waitq, runq, loop, SchedulerInv, TypeOK,
     QueuesInjective, RunningTask, TimersCovered, CursorInQueue, InWq, InRq
<1> QED BY <1>1, <1>2, <1>3, <1>4, <1>5, <1>6 DEF Next

\* The invariant holds of every behaviour.
LEMMA SchedulerAlways == Spec => []SchedulerInv
  BY InitInv, SchedulerStep, PTL DEF Spec

(***************************************************************************)
(* Whatever the tasks, the callbacks and the clock do, and wherever dates  *)
(* wrap: a task that waits for a date is about to run, or in the wait      *)
(* queue no later than its date (task_queue(), wake_expired_tasks()).      *)
(***************************************************************************)
THEOREM TimerSafety == Spec => []TimersCovered
<1>1. SchedulerInv => TimersCovered
  BY DEF SchedulerInv
<1> QED BY <1>1, SchedulerAlways, PTL

(***************************************************************************)
(* The pointers that wake_expired_tasks() and process_runnable_tasks()     *)
(* keep from one task to the next stay in the queue they walk, though the  *)
(* tasks wake up, delete and requeue each other and themselves meanwhile.  *)
(***************************************************************************)
THEOREM CursorSafety == Spec => []CursorInQueue
<1>1. SchedulerInv => CursorInQueue
  BY DEF SchedulerInv
<1> QED BY <1>1, SchedulerAlways, PTL

-----------------------------------------------------------------------------
(* The insertion counter.                                                  *)

\* What is left of a number in a range, however often it went round.
LEMMA ModIs ==
  ASSUME NEW K \in Nat, K > 0, NEW x \in Int, NEW y \in 0..(K - 1), NEW n \in Int, x = n * K + y
  PROVE  x % K = y
  OBVIOUS

\* A counter that moves on by one while an offset to it loses one.
LEMMA ModShift ==
  ASSUME NEW K \in Nat, K > 0, NEW tick \in 0..(K - 1), NEW x \in Int
  PROVE  (((tick + 1) % K) + (x - 1)) % K = (tick + x) % K
<1>1. CASE tick + 1 < K
  <2>1. (tick + 1) % K = tick + 1
    BY <1>1
  <2> QED BY <2>1
<1>2. CASE tick + 1 = K
  <2>1. (tick + 1) % K = 0
    BY <1>2
  <2> DEFINE y == (tick + x) % K
             n == (tick + x) \div K
  <2>2. y \in 0..(K - 1) /\ n \in Int /\ tick + x = n * K + y
    OBVIOUS
  <2> HIDE DEF y, n
  <2>3. 0 + (x - 1) = (n - 1) * K + y
    BY <1>2, <2>2
  <2>4. n - 1 \in Int /\ 0 + (x - 1) \in Int
    BY <2>2
  <2>5. (0 + (x - 1)) % K = y
    BY <2>2, <2>3, <2>4, ModIs
  <2> QED BY <2>1, <2>5 DEF y
<1> QED BY <1>1, <1>2

\* The nodes of a tree are in the order of their keys.
Sorted(q, key) == \A i, j \in 1..Len(q) : i < j => key[q[i]] <= key[q[j]]

\* How many numbers there are up to n.
LEMMA UpTo ==
  ASSUME NEW n \in Nat
  PROVE  IsFiniteSet(1..n) /\ Cardinality(1..n) = n
  BY FS_Interval

\* eb32_insert() puts the node between those whose key is not larger and the others.
LEMMA InsertPlace ==
  ASSUME NEW S, NEW q \in Seq(S), NEW key \in [S -> Int], NEW k \in Int, Sorted(q, key)
  PROVE  LET n == Cardinality({i \in 1..Len(q) : key[q[i]] <= k})
         IN  n \in 0..Len(q) /\ \A j \in 1..Len(q) : key[q[j]] <= k <=> j <= n
<1> DEFINE B == {i \in 1..Len(q) : key[q[i]] <= k}
           n == Cardinality(B)
<1>1. Len(q) \in Nat /\ \A j \in 1..Len(q) : q[j] \in S /\ key[q[j]] \in Int
  OBVIOUS
<1>2. IsFiniteSet(1..Len(q)) /\ Cardinality(1..Len(q)) = Len(q)
  <2>1. Len(q) \in Nat
    OBVIOUS
  <2> QED BY <2>1, UpTo
<1>3. B \subseteq 1..Len(q) /\ \A j \in 1..Len(q) : j \in B <=> key[q[j]] <= k
  OBVIOUS
<1>4. \A i, j \in 1..Len(q) : i < j /\ j \in B => i \in B
  BY <1>1, <1>3 DEF Sorted
<1> HIDE DEF B
<1>5. IsFiniteSet(B) /\ n \in 0..Len(q)
  <2>1. B \subseteq 1..Len(q)
    BY <1>3
  <2>2. IsFiniteSet(B) /\ Cardinality(B) <= Len(q) /\ Cardinality(B) \in Nat
    BY <1>2, <2>1, FS_Subset, FS_CardinalityType
  <2> QED BY <2>2
<1>6. ASSUME NEW j \in 1..Len(q) PROVE j \in B <=> j <= n
  <2>1. CASE j \in B
    <3>1. 1..j \subseteq B
      BY <1>1, <1>3, <1>4, <2>1
    <3>2. IsFiniteSet(1..j) /\ Cardinality(1..j) = j
      BY <1>1, UpTo
    <3>3. Cardinality(1..j) <= Cardinality(B)
      BY <1>5, <3>1, FS_Subset
    <3> QED BY <2>1, <3>2, <3>3
  <2>2. CASE j \notin B
    <3>1. \A i \in B : ~(j <= i)
      BY <1>1, <1>3, <1>4, <2>2
    <3>2. B \subseteq 1..(j - 1)
      BY <1>1, <1>3, <3>1
    <3>3. IsFiniteSet(1..(j - 1)) /\ Cardinality(1..(j - 1)) = j - 1
      <4>1. j - 1 \in Nat /\ 1 \in Nat
        OBVIOUS
      <4> QED BY <4>1, UpTo
    <3>4. Cardinality(B) <= Cardinality(1..(j - 1))
      BY <3>2, <3>3, FS_Subset
    <3>5. n <= j - 1
      BY <3>3, <3>4
    <3> QED BY <1>5, <2>2, <3>5
  <2> QED BY <2>1, <2>2
<1> QED BY <1>3, <1>5, <1>6 DEF B

\* The queue stays in the order of its keys when a node is added ...
LEMMA InsertSorted ==
  ASSUME NEW S, NEW q \in Seq(S), NEW key \in [S -> Int], NEW k \in Int, NEW t \in S,
         t \notin ToSet(q), Sorted(q, key)
  PROVE  Sorted(Insert(q, key, t, k), [key EXCEPT ![t] = k])
<1> DEFINE n == Cardinality({i \in 1..Len(q) : key[q[i]] <= k})
           r == InsertAt(q, n + 1, t)
           new == [key EXCEPT ![t] = k]
<1>1. n \in 0..Len(q) /\ \A j \in 1..Len(q) : key[q[j]] <= k <=> j <= n
  BY InsertPlace
<1>2. Insert(q, key, t, k) = r
  BY DEF Insert
<1> HIDE DEF n
<1>3. n + 1 \in 1..(Len(q) + 1) /\ Len(q) \in Nat
  BY <1>1
<1>4. /\ Len(r) = Len(q) + 1
      /\ \A j \in 1..(Len(q) + 1) :
            r[j] = IF j < n + 1 THEN q[j] ELSE IF j = n + 1 THEN t ELSE q[j - 1]
  <2> DEFINE m == n + 1
  <2>1. m \in 1..(Len(q) + 1)
    BY <1>3
  <2> HIDE DEF m
  <2>2. /\ Len(InsertAt(q, m, t)) = Len(q) + 1
        /\ \A j \in 1..(Len(q) + 1) :
              InsertAt(q, m, t)[j] = IF j < m THEN q[j] ELSE IF j = m THEN t ELSE q[j - 1]
    BY <2>1, InsertAtIs
  <2> QED BY <2>2 DEF m
<1> HIDE DEF r
<1>5. \A j \in 1..Len(q) : q[j] # t /\ q[j] \in S
  BY InSeq
<1>6. new[t] = k /\ \A j \in 1..Len(q) : new[q[j]] = key[q[j]] /\ key[q[j]] \in Int
  BY <1>5
<1> HIDE DEF new
<1> DEFINE L == Len(q)
           f == [j \in 1..L |-> key[q[j]]]
<1>7. /\ L \in Nat /\ n \in 0..L
      /\ \A j \in 1..L : f[j] \in Int /\ (f[j] <= k <=> j <= n)
      /\ \A i, j \in 1..L : i < j => f[i] <= f[j]
  BY <1>1, <1>3, <1>6 DEF Sorted
<1>8. ASSUME NEW j \in 1..(L + 1)
      PROVE  /\ j <= n => j \in 1..L /\ new[r[j]] = f[j]
             /\ j = n + 1 => new[r[j]] = k
             /\ j > n + 1 => j - 1 \in 1..L /\ new[r[j]] = f[j - 1]
  <2>1. CASE j <= n
    <3>1. j \in 1..L /\ r[j] = q[j]
      BY <1>4, <1>7, <2>1
    <3> QED BY <1>6, <1>7, <2>1, <3>1
  <2>2. CASE j = n + 1
    <3>1. r[j] = t
      BY <1>4, <1>7, <2>2
    <3> QED BY <1>6, <1>7, <2>2, <3>1
  <2>3. CASE j > n + 1
    <3>1. j - 1 \in 1..L /\ r[j] = q[j - 1]
      BY <1>4, <1>7, <2>3
    <3> QED BY <1>6, <1>7, <2>3, <3>1
  <2> QED BY <1>7, <2>1, <2>2, <2>3
<1> HIDE DEF L, f
<1>9. \A i, j \in 1..(L + 1) : i < j => new[r[i]] <= new[r[j]]
  <2> SUFFICES ASSUME NEW i \in 1..(L + 1), NEW j \in 1..(L + 1), i < j PROVE new[r[i]] <= new[r[j]]
    OBVIOUS
  <2>1. CASE j <= n
    <3>1. i <= n /\ i \in 1..L /\ j \in 1..L
      BY <1>7, <2>1
    <3> QED BY <1>7, <1>8, <2>1, <3>1
  <2>2. CASE j = n + 1
    <3>1. i <= n /\ i \in 1..L
      BY <1>7, <2>2
    <3> QED BY <1>7, <1>8, <2>2, <3>1
  <2>3. CASE j > n + 1 /\ i <= n
    BY <1>7, <1>8, <2>3
  <2>4. CASE j > n + 1 /\ i = n + 1
    <3>1. new[r[i]] = k /\ new[r[j]] = f[j - 1] /\ ~(f[j - 1] <= k) /\ f[j - 1] \in Int
      BY <1>7, <1>8, <2>4
    <3> QED BY <3>1
  <2>5. CASE j > n + 1 /\ i > n + 1
    BY <1>7, <1>8, <2>5
  <2> QED BY <1>7, <2>1, <2>2, <2>3, <2>4, <2>5
<1> QED BY <1>2, <1>4, <1>9 DEF Sorted, L, new


\* ... and when one is taken out.
LEMMA RemoveSorted ==
  ASSUME NEW S, NEW q \in Seq(S), IsInjective(q), NEW key \in [S -> Int], NEW t \in S, NEW k,
         Sorted(q, key)
  PROVE  Sorted(RemoveFirst(q, t), [key EXCEPT ![t] = k])
<1> DEFINE new == [key EXCEPT ![t] = k]
<1>1. \A j \in 1..Len(q) : q[j] \in S /\ (q[j] # t => new[q[j]] = key[q[j]])
  OBVIOUS
<1>2. CASE t \notin ToSet(q)
  <2>1. RemoveFirst(q, t) = q
    BY <1>2 DEF RemoveFirst, ToSet
  <2>2. \A j \in 1..Len(q) : q[j] # t
    BY <1>2, InSeq
  <2> HIDE DEF new
  <2> QED BY <1>1, <2>1, <2>2 DEF Sorted, new
<1>3. CASE t \in ToSet(q)
  <2> DEFINE i == SelectInSeq(q, LAMBDA u : u = t)
             r == RemoveAt(q, i)
  <2>1. i \in 1..Len(q) /\ q[i] = t
    BY <1>3, PlaceOf
  <2>2. RemoveFirst(q, t) = r
    BY <1>3 DEF RemoveFirst, ToSet
  <2> HIDE DEF i
  <2>3. /\ Len(r) = Len(q) - 1
        /\ \A j \in 1..(Len(q) - 1) : r[j] = IF j < i THEN q[j] ELSE q[j + 1]
    BY <2>1, RemoveAtIs
  <2> HIDE DEF r, new
  <2>4. \A x \in 1..Len(q) : x # i => q[x] # t
    BY <2>1 DEF IsInjective
  <2> DEFINE L == Len(q)
             place(j) == IF j < i THEN j ELSE j + 1
  <2>5. L \in Nat /\ i \in 1..L /\ \A x, y \in 1..L : x < y => key[q[x]] <= key[q[y]]
    BY <2>1 DEF Sorted
  <2>6. ASSUME NEW j \in 1..(L - 1)
        PROVE  place(j) \in 1..L /\ place(j) # i /\ r[j] = q[place(j)]
    <3>1. place(j) \in 1..L /\ place(j) # i
      BY <2>5
    <3>2. r[j] = IF j < i THEN q[j] ELSE q[j + 1]
      BY <2>3
    <3> QED BY <3>1, <3>2
  <2>7. \A x, y \in 1..(L - 1) : x < y => place(x) < place(y)
    BY <2>5
  <2> HIDE DEF L, place
  <2>8. \A j \in 1..(L - 1) : new[r[j]] = key[q[place(j)]]
    BY <1>1, <2>4, <2>6 DEF L
  <2>9. \A x, y \in 1..(L - 1) : x < y => new[r[x]] <= new[r[y]]
    BY <2>5, <2>6, <2>7, <2>8
  <2> QED BY <2>2, <2>3, <2>9 DEF Sorted, L, new
<1> QED BY <1>2, <1>3

\* A key, counted from half the range before the insertion counter: at most once round.
LEMMA KeyFrom ==
  ASSUME NEW K \in Nat, K > 0, K % 2 = 0, NEW tick \in 0..(K - 1), NEW x \in Int,
         -(K \div 2) <= x, x < K \div 2
  PROVE  LET h == K \div 2
             k == (tick - h) % K
         IN  /\ k \in 0..(K - 1)
             /\ (tick + x) % K = IF k + (x + h) < K THEN k + (x + h)
                                        ELSE k + (x + h) - K
<1> DEFINE h == K \div 2
           k == (tick - h) % K
           n == (tick - h) \div K
<1>1. K \in Nat /\ K > 0 /\ h \in Nat /\ 2 * h = K
  OBVIOUS
<1> HIDE DEF h
<1>3. k \in 0..(K - 1) /\ n \in Int /\ tick - h = n * K + k
  BY <1>1
<1> HIDE DEF k, n
<1>4. x + h \in 0..(K - 1) /\ tick + x \in Int
  BY <1>1 DEF h
<1>5. tick + x = n * K + (k + (x + h))
  BY <1>1, <1>3
<1>6. CASE k + (x + h) < K
  <2>1. k + (x + h) \in 0..(K - 1)
    BY <1>1, <1>3, <1>4, <1>6
  <2>2. (tick + x) % K = k + (x + h)
    <3> DEFINE z == tick + x
               y == k + (x + h)
    <3>1. z \in Int /\ y \in 0..(K - 1) /\ z = n * K + y
      BY <1>4, <1>5, <2>1
    <3> HIDE DEF z, y
    <3>2. z % K = y
      BY <1>1, <1>3, <3>1, ModIs
    <3> QED BY <3>2 DEF z, y
  <2> QED BY <1>3, <1>6, <2>2 DEF h, k
<1>7. CASE ~(k + (x + h) < K)
  <2>1. k + (x + h) - K \in 0..(K - 1)
    BY <1>1, <1>3, <1>4, <1>7
  <2>2. n + 1 \in Int /\ tick + x = (n + 1) * K + (k + (x + h) - K)
    BY <1>1, <1>3, <1>4, <1>5
  <2>3. (tick + x) % K = k + (x + h) - K
    <3> DEFINE z == tick + x
               y == k + (x + h) - K
               m == n + 1
    <3>1. z \in Int /\ y \in 0..(K - 1) /\ m \in Int /\ z = m * K + y
      BY <1>4, <2>1, <2>2
    <3> HIDE DEF z, y, m
    <3>2. z % K = y
      BY <1>1, <3>1, ModIs
    <3> QED BY <3>2 DEF z, y
  <2> QED BY <1>3, <1>7, <2>3 DEF h, k
<1> QED BY <1>6, <1>7

\* The order of two keys that start before the counter and go round at most once.
LEMMA Rounds ==
  ASSUME NEW K \in Nat, NEW k \in 0..(K - 1), NEW h \in Int, 2 * h = K,
         NEW x \in Int, NEW y \in Int, NEW i \in Int, NEW j \in Int,
         -h <= x, x < h, -h <= y, y < h,
         i = IF k + (x + h) < K THEN k + (x + h) ELSE k + (x + h) - K,
         j = IF k + (y + h) < K THEN k + (y + h) ELSE k + (y + h) - K,
         \/ j < k /\ i < k /\ i <= j
         \/ i >= k /\ (j < k \/ i <= j)
  PROVE  x <= y /\ (j < k /\ i >= k => x < y)
  OBVIOUS

\* eb32_lookup_ge() finds the first of the larger keys.
LEMMA LookupIs ==
  ASSUME NEW S, NEW q \in Seq(S), None \notin S, NEW key \in [S -> Int], NEW k \in Int, Sorted(q, key)
  PROVE  LET e == LookupGe(q, key, k)
         IN  IF e = None THEN \A j \in 1..Len(q) : key[q[j]] < k
             ELSE \E i \in 1..Len(q) : /\ e = q[i] /\ key[e] >= k
                                       /\ \A j \in 1..Len(q) : IF j < i THEN key[q[j]] < k
                                                              ELSE key[e] <= key[q[j]]
<1> DEFINE I == {i \in 1..Len(q) : key[q[i]] >= k}
           i == SelectInSeq(q, LAMBDA t : key[t] >= k)
           e == LookupGe(q, key, k)
<1>1. I \in SUBSET Nat /\ \A j \in 1..Len(q) : j \in I <=> key[q[j]] >= k
  OBVIOUS
<1>2. i = IF I # {} THEN Min(I) ELSE 0
  BY DEF SelectInSeq
<1>3. e = IF i = 0 THEN None ELSE q[i]
  BY DEF LookupGe
<1>4. I \subseteq 1..Len(q)
  OBVIOUS
<1>5. \A j \in 1..Len(q) : q[j] \in S /\ key[q[j]] \in Int
  OBVIOUS
<1> HIDE DEF i, I, e
<1>6. CASE I = {}
  <2>1. e = None
    BY <1>2, <1>3, <1>6
  <2> QED BY <1>1, <1>4, <1>5, <1>6, <2>1 DEF e
<1>7. CASE I # {}
  <2>1. i \in I /\ \A y \in I : i <= y
    BY <1>1, <1>2, <1>7, LeastIsMin
  <2>2. i \in 1..Len(q) /\ i # 0
    BY <1>4, <2>1
  <2>3. e = q[i] /\ e # None /\ key[e] >= k
    BY <1>1, <1>3, <1>5, <2>1, <2>2
  <2>4. ASSUME NEW j \in 1..Len(q) PROVE IF j < i THEN key[q[j]] < k ELSE key[e] <= key[q[j]]
    <3>1. CASE j < i
      <4>1. j \notin I
        BY <1>4, <2>1, <2>2, <3>1
      <4> QED BY <1>1, <1>5, <3>1, <4>1
    <3>2. CASE i = j
      BY <1>5, <2>3, <3>2
    <3>3. CASE i < j
      BY <2>2, <2>3, <3>3 DEF Sorted
    <3> QED BY <2>2, <3>1, <3>2, <3>3
  <2> QED BY <2>2, <2>3, <2>4 DEF e
<1> QED BY <1>6, <1>7

\* The node the walk of a queue is at: the first of all those that are farthest behind.
Leads(q, a, node) ==
  \E i \in 1..Len(q) : /\ q[i] = node
                       /\ \A j \in 1..Len(q) : a[node] <= a[q[j]] /\ (j < i => a[node] < a[q[j]])

\* It is a member of the queue, and none is farther behind.
LEMMA LeadsAll ==
  ASSUME NEW S, NEW q \in Seq(S), NEW a, NEW node, Leads(q, a, node)
  PROVE  node \in ToSet(q) /\ \A u \in ToSet(q) : a[node] <= a[u]
  BY InSeq DEF Leads

\* The keys of a queue, counted from tick: they go round at most once.
KeyedBy(K, q, key, tick, a) ==
  /\ Sorted(q, key)
  /\ \A t \in ToSet(q) : /\ key[t] = (tick + a[t]) % K
                         /\ -(K \div 2) <= a[t] /\ a[t] < K \div 2

\* The walks start at the node that is farthest behind, wherever the keys have wrapped.
LEMMA WalkStart ==
  ASSUME NEW K \in Nat, K > 0, K % 2 = 0, NEW q \in Seq(Tasks), q # <<>>,
         NEW key \in [Tasks -> 0..(K - 1)], NEW a \in [Tasks -> Int],
         NEW tick \in 0..(K - 1), KeyedBy(K, q, key, tick, a)
  PROVE  LET e == LookupGe(q, key, (tick - K \div 2) % K)
         IN  Leads(q, a, IF e = None THEN First(q) ELSE e)
<1> DEFINE h == K \div 2
           k == (tick - h) % K
           e == LookupGe(q, key, k)
           node == IF e = None THEN First(q) ELSE e
<1>1. None \notin Tasks /\ key \in [Tasks -> Int]
  BY SchedulerAssumption DEF Tasks
<1>2. Len(q) \in Nat /\ Len(q) > 0 /\ \A j \in 1..Len(q) : q[j] \in Tasks /\ q[j] \in ToSet(q)
  BY InSeq
<1>3. ASSUME NEW j \in 1..Len(q)
      PROVE  /\ k \in 0..(K - 1) /\ key[q[j]] \in 0..(K - 1) /\ a[q[j]] \in Int
             /\ -h <= a[q[j]] /\ a[q[j]] < h
             /\ key[q[j]] = IF k + (a[q[j]] + h) < K THEN k + (a[q[j]] + h)
                            ELSE k + (a[q[j]] + h) - K
  <2>1. q[j] \in Tasks /\ q[j] \in ToSet(q)
    BY <1>2
  <2>2. a[q[j]] \in Int /\ key[q[j]] = (tick + a[q[j]]) % K /\ -h <= a[q[j]] /\ a[q[j]] < h
    BY <2>1 DEF KeyedBy
  <2> QED BY <2>1, <2>2, KeyFrom
<1>4. h \in Int /\ 2 * h = K
  OBVIOUS
<1>5. k \in 0..(K - 1)
  BY <1>2, <1>3
<1> HIDE DEF h, k
<1>6. ASSUME NEW i \in 1..Len(q), NEW j \in 1..Len(q),
             \/ key[q[j]] < k /\ key[q[i]] < k /\ key[q[i]] <= key[q[j]]
             \/ key[q[i]] >= k /\ (key[q[j]] < k \/ key[q[i]] <= key[q[j]])
      PROVE  a[q[i]] <= a[q[j]] /\ (key[q[j]] < k /\ key[q[i]] >= k => a[q[i]] < a[q[j]])
  <2> DEFINE x == a[q[i]]
             y == a[q[j]]
             v == key[q[i]]
             w == key[q[j]]
  <2>1. /\ x \in Int /\ y \in Int /\ v \in Int /\ w \in Int
        /\ -h <= x /\ x < h /\ -h <= y /\ y < h
        /\ v = IF k + (x + h) < K THEN k + (x + h) ELSE k + (x + h) - K
        /\ w = IF k + (y + h) < K THEN k + (y + h) ELSE k + (y + h) - K
    BY <1>3, SMTT(30)
  <2>2. \/ w < k /\ v < k /\ v <= w
        \/ v >= k /\ (w < k \/ v <= w)
    BY <1>6
  <2> HIDE DEF x, y, v, w
  <2>3. x <= y /\ (w < k /\ v >= k => x < y)
    BY <1>4, <1>5, <2>1, <2>2, Rounds
  <2> QED BY <2>3 DEF x, y, v, w
<1>7. Sorted(q, key) /\ k \in Int
  BY <1>5 DEF KeyedBy
<1>8. IF e = None THEN \A j \in 1..Len(q) : key[q[j]] < k
      ELSE \E i \in 1..Len(q) : /\ e = q[i] /\ key[e] >= k
                                /\ \A j \in 1..Len(q) : IF j < i THEN key[q[j]] < k
                                                       ELSE key[e] <= key[q[j]]
  BY <1>1, <1>7, LookupIs
<1> HIDE DEF e
<1>9. CASE e = None
  <2>1. node = q[1] /\ 1 \in 1..Len(q)
    BY <1>2, <1>9 DEF First
  <2>2. ASSUME NEW j \in 1..Len(q) PROVE a[q[1]] <= a[q[j]] /\ ~(j < 1)
    <3>1. key[q[1]] <= key[q[j]]
      BY <1>3, <1>7, <2>1 DEF Sorted
    <3> QED BY <1>6, <1>8, <1>9, <2>1, <3>1
  <2> QED BY <2>1, <2>2 DEF Leads, e, k, h
<1>10. CASE e # None
  <2>1. PICK i \in 1..Len(q) : /\ e = q[i] /\ key[e] >= k
                               /\ \A j \in 1..Len(q) : IF j < i THEN key[q[j]] < k
                                                      ELSE key[e] <= key[q[j]]
    BY <1>8, <1>10
  <2>2. ASSUME NEW j \in 1..Len(q) PROVE a[e] <= a[q[j]] /\ (j < i => a[e] < a[q[j]])
    BY <1>6, <2>1
  <2>3. Leads(q, a, e)
    BY <2>1, <2>2 DEF Leads
  <2> QED BY <1>10, <2>3 DEF e, k, h
<1> QED BY <1>9, <1>10

\* The tasks there may be.
Crowd == Cardinality(Tasks)

\* The nice values a task may have.
AllNices == {0, KillNice} \cup Nices \cup RuleNices

\* The wakeups there may be between two tasks that process_runnable_tasks() takes from
\* the start of its walk: the calls of the tasks it runs and of one round of I/O, and
\* the timers that expire.
Burst == MaxProcessed * MaxCalls + MaxCalls + Crowd

(***************************************************************************)
(* The insertion counter is wide enough: D bounds the place a nice value   *)
(* gives, and every task may wait while each of the others goes before it. *)
(* With 2^32 values, nice values in -1024..1024 and 200 tasks per loop,    *)
(* that leaves room for tens of thousands of tasks.                        *)
(***************************************************************************)
Wide(D) ==
  /\ IsFiniteSet(Tasks) /\ D \in Nat
  /\ \A n \in AllNices, size \in 1..Crowd : -D <= Offset(n, size) /\ Offset(n, size) <= D
  /\ D + Burst * Crowd <= KeyRange \div 2

\* The tasks that will run before t, and t.
InFront(q, a, t) == {u \in ToSet(q) : a[u] <= a[t]}

\* Every task has room for the r that is still to come, and for B more for each task
\* that goes before it: D bounds how far it is behind then.
Slack(D, B, q, a, r) ==
  \A t \in ToSet(q) : r <= a[t] + D + B * (Crowd + 1 - Cardinality(InFront(q, a, t)))

\* The tree is in order, and its keys are where the tasks stand.
Keyed(D, q, key, tick, a) ==
  /\ Sorted(q, key)
  /\ \A t \in ToSet(q) : key[t] = (tick + a[t]) % KeyRange /\ a[t] <= D

\* The numbers there are to reckon with.
LEMMA WideIs ==
  ASSUME NEW D, Wide(D)
  PROVE  Crowd \in Nat /\ Burst \in Nat /\ D \in Nat /\ Crowd <= Burst
         /\ MaxProcessed \in Nat \ {0} /\ MaxCalls \in Nat /\ Burst * Crowd \in Nat
         /\ IsFiniteSet(Tasks)
<1>1. Crowd \in Nat
  BY FS_CardinalityType DEF Crowd, Wide
<1>2. MaxProcessed \in Nat \ {0} /\ MaxCalls \in Nat /\ D \in Nat
  BY SchedulerAssumption DEF Wide
<1>3. MaxProcessed * MaxCalls \in Nat
  BY <1>2
<1>4. Burst \in Nat /\ Crowd <= Burst
  BY <1>1, <1>2, <1>3 DEF Burst
<1> HIDE DEF Burst
<1>5. Burst * Crowd \in Nat
  BY <1>1, <1>4
<1> QED BY <1>1, <1>2, <1>4, <1>5 DEF Wide

\* A queue has no more members than there are tasks.
LEMMA QueueSize ==
  ASSUME IsFiniteSet(Tasks), NEW q, Queue(q)
  PROVE  /\ IsFiniteSet(ToSet(q)) /\ Cardinality(ToSet(q)) \in 0..Crowd /\ ToSet(q) \subseteq Tasks
         /\ \A t \in Tasks \ ToSet(q) : Len(q) < Crowd
<1>1. Len(q) \in Nat /\ q \in [1..Len(q) -> ToSet(q)] /\ ToSet(q) \subseteq Tasks
  BY DEF Queue, ToSet
<1>2. IsFiniteSet(1..Len(q)) /\ Cardinality(1..Len(q)) = Len(q)
  BY <1>1, UpTo
<1>3. IsFiniteSet(ToSet(q)) /\ Cardinality(ToSet(q)) <= Crowd /\ Cardinality(ToSet(q)) \in Nat
  BY <1>1, FS_Subset, FS_CardinalityType DEF Crowd
<1>4. q \in Injection(1..Len(q), ToSet(q))
  BY <1>1 DEF Queue, IsInjective, Injection
<1>5. Len(q) <= Cardinality(ToSet(q))
  BY <1>2, <1>3, <1>4, FS_Injection
<1>6. ASSUME NEW t \in Tasks \ ToSet(q) PROVE Len(q) < Crowd
  <2>1. IsFiniteSet(Tasks \ {t}) /\ Cardinality(Tasks \ {t}) = Crowd - 1
    BY FS_RemoveElement DEF Crowd
  <2>2. Cardinality(ToSet(q)) <= Cardinality(Tasks \ {t})
    BY <1>1, <1>6, <2>1, FS_Subset
  <2>3. Crowd \in Nat
    BY FS_CardinalityType DEF Crowd
  <2> QED BY <1>1, <1>3, <1>5, <2>1, <2>2, <2>3
<1>7. Crowd \in Nat
  BY FS_CardinalityType DEF Crowd
<1> QED BY <1>1, <1>3, <1>6, <1>7

\* More wakeups fit where fewer have to.
LEMMA SlackLess ==
  ASSUME IsFiniteSet(Tasks), NEW D \in Nat, NEW B \in Nat, NEW q, Queue(q),
         NEW a \in [Tasks -> Int], NEW r \in Int, NEW s \in Int,
         s <= r, Slack(D, B, q, a, r)
  PROVE  Slack(D, B, q, a, s)
<1> DEFINE room(t) == a[t] + D + B * (Crowd + 1 - Cardinality(InFront(q, a, t)))
<1>1. \A t \in ToSet(q) : r <= room(t)
  BY DEF Slack
<1>2. ASSUME NEW t \in ToSet(q) PROVE room(t) \in Int
  <2>1. IsFiniteSet(InFront(q, a, t))
    BY QueueSize, FS_Subset DEF InFront
  <2>2. Cardinality(InFront(q, a, t)) \in Nat
    BY <2>1, FS_CardinalityType
  <2>3. B \in Nat /\ Crowd \in Nat /\ D \in Nat
    BY FS_CardinalityType DEF Crowd
  <2>4. a[t] \in Int
    BY QueueSize
  <2>5. Crowd + 1 - Cardinality(InFront(q, a, t)) \in Int
    BY <2>2, <2>3
  <2>6. B * (Crowd + 1 - Cardinality(InFront(q, a, t))) \in Int
    BY <2>3, <2>5
  <2> QED BY <2>3, <2>4, <2>6
<1> HIDE DEF room
<1>3. \A t \in ToSet(q) : s <= room(t)
  BY <1>1, <1>2
<1> QED BY <1>3 DEF Slack, room

\* The tasks in front of a task: itself, and at most all.
LEMMA FrontIs ==
  ASSUME IsFiniteSet(Tasks), NEW q, Queue(q), NEW a \in [Tasks -> Int], NEW t \in ToSet(q)
  PROVE  /\ IsFiniteSet(InFront(q, a, t)) /\ t \in InFront(q, a, t) /\ a[t] \in Int
         /\ Cardinality(InFront(q, a, t)) \in 1..Crowd /\ Crowd \in Nat
<1>1. ToSet(q) \subseteq Tasks /\ a[t] \in Int
  BY QueueSize
<1>2. t \in InFront(q, a, t) /\ InFront(q, a, t) \subseteq Tasks
  BY <1>1 DEF InFront
<1>3. /\ IsFiniteSet(InFront(q, a, t)) /\ Cardinality(InFront(q, a, t)) \in Nat
      /\ Cardinality(InFront(q, a, t)) <= Crowd /\ Crowd \in Nat
  BY <1>2, FS_Subset, FS_CardinalityType DEF Crowd
<1>4. Cardinality(InFront(q, a, t)) # 0
  BY <1>2, <1>3, FS_EmptySet
<1> QED BY <1>1, <1>2, <1>3, <1>4

\* A task that is woken up uses up one of the wakeups to come, and has room itself.
LEMMA WokenSlack ==
  ASSUME IsFiniteSet(Tasks), NEW D \in Nat, NEW B \in Nat, NEW q, Queue(q), NEW p, Queue(p),
         NEW a \in [Tasks -> Int],
         NEW b \in [Tasks -> Int], NEW t \in Tasks, t \notin ToSet(q), ToSet(p) = ToSet(q) \cup {t},
         NEW o \in Int, -D <= o, b[t] = o, \A u \in ToSet(q) : b[u] = a[u] - 1,
         NEW r \in Int, r <= B, Slack(D, B, q, a, r)
  PROVE  Slack(D, B, p, b, r - 1)
<1>1. Crowd \in Nat /\ B \in Nat /\ D \in Nat
  BY FS_CardinalityType DEF Crowd
<1> SUFFICES ASSUME NEW u \in ToSet(p)
             PROVE  r - 1 <= b[u] + D + B * (Crowd + 1 - Cardinality(InFront(p, b, u)))
  BY DEF Slack
<1> DEFINE c == Cardinality(InFront(p, b, u))
           n == Crowd + 1 - c
<1>2. IsFiniteSet(InFront(p, b, u)) /\ c \in 1..Crowd /\ b[u] \in Int
  BY FrontIs
<1>3. n \in 1..Crowd
  BY <1>1, <1>2
<1>4. B * n \in Int /\ B <= B * n
  <2> HIDE DEF n
  <2> QED BY <1>1, <1>3
<1>5. CASE b[u] >= -D
  <2> HIDE DEF n
  <2>1. r - 1 <= b[u] + D + B * n
    BY <1>1, <1>2, <1>4, <1>5
  <2> QED BY <2>1 DEF n
<1>6. CASE b[u] < -D
  <2>1. u # t /\ u \in ToSet(q) /\ ~(o <= b[u]) /\ b[u] = a[u] - 1 /\ a[u] \in Int
    <3>1. ~(o <= b[u])
      BY <1>1, <1>2, <1>6
    <3>2. u # t
      BY <1>2, <3>1
    <3>3. u \in ToSet(q) /\ ToSet(q) \subseteq Tasks
      BY <3>2, QueueSize
    <3> QED BY <3>1, <3>2, <3>3
  <2>2. ASSUME NEW w \in ToSet(q) PROVE b[w] <= b[u] <=> a[w] <= a[u]
    <3>1. a[w] \in Int
      BY QueueSize
    <3>2. b[w] = a[w] - 1
      OBVIOUS
    <3> QED BY <2>1, <3>1, <3>2
  <2>3. InFront(p, b, u) = InFront(q, a, u)
    BY <2>1, <2>2 DEF InFront
  <2>4. r <= a[u] + D + B * n
    BY <2>1, <2>3 DEF Slack
  <2> HIDE DEF n
  <2>5. r - 1 <= b[u] + D + B * n
    BY <1>1, <1>4, <2>1, <2>4
  <2> QED BY <2>5 DEF n
<1> QED BY <1>1, <1>2, <1>5, <1>6

\* A task that leaves the queue takes no room away ...
LEMMA LeftSlack ==
  ASSUME IsFiniteSet(Tasks), NEW D \in Nat, NEW B \in Nat, NEW q, Queue(q), NEW p, Queue(p),
         NEW a \in [Tasks -> Int],
         NEW b \in [Tasks -> Int], NEW t \in Tasks, ToSet(p) = ToSet(q) \ {t},
         \A u \in ToSet(p) : b[u] = a[u], NEW r \in Int, Slack(D, B, q, a, r)
  PROVE  Slack(D, B, p, b, r)
<1>1. Crowd \in Nat /\ B \in Nat /\ D \in Nat
  BY FS_CardinalityType DEF Crowd
<1> SUFFICES ASSUME NEW u \in ToSet(p)
             PROVE  r <= b[u] + D + B * (Crowd + 1 - Cardinality(InFront(p, b, u)))
  BY DEF Slack
<1> DEFINE c == Cardinality(InFront(p, b, u))
           d == Cardinality(InFront(q, a, u))
           n == Crowd + 1 - c
           m == Crowd + 1 - d
<1>2. /\ c \in 1..Crowd /\ d \in 1..Crowd /\ b[u] \in Int /\ a[u] \in Int /\ b[u] = a[u]
      /\ IsFiniteSet(InFront(q, a, u))
  BY FrontIs
<1>3. InFront(p, b, u) \subseteq InFront(q, a, u)
  BY DEF InFront
<1>4. c <= d
  BY <1>2, <1>3, FS_Subset
<1>5. r <= a[u] + D + B * m
  BY DEF Slack
<1>6. n \in 1..Crowd /\ m \in 1..Crowd /\ m <= n
  BY <1>1, <1>2, <1>4
<1> HIDE DEF n, m
<1>7. B * m <= B * n /\ B * m \in Int /\ B * n \in Int
  BY <1>1, <1>6
<1>8. r <= b[u] + D + B * n
  BY <1>1, <1>2, <1>5, <1>7
<1> QED BY <1>8 DEF n

\* ... and the first of the walk gives every other one room for a burst.
LEMMA FirstLeftSlack ==
  ASSUME IsFiniteSet(Tasks), NEW D \in Nat, NEW B \in Nat, NEW q, Queue(q), NEW p, Queue(p),
         NEW a \in [Tasks -> Int],
         NEW b \in [Tasks -> Int], NEW t \in ToSet(q), ToSet(p) = ToSet(q) \ {t},
         \A u \in ToSet(p) : b[u] = a[u], \A u \in ToSet(q) : a[t] <= a[u], Slack(D, B, q, a, 0)
  PROVE  Slack(D, B, p, b, B)
<1>1. Crowd \in Nat /\ B \in Nat /\ D \in Nat
  BY FS_CardinalityType DEF Crowd
<1> SUFFICES ASSUME NEW u \in ToSet(p)
             PROVE  B <= b[u] + D + B * (Crowd + 1 - Cardinality(InFront(p, b, u)))
  BY DEF Slack
<1> DEFINE c == Cardinality(InFront(p, b, u))
           m == Crowd + 1 - Cardinality(InFront(q, a, u))
           n == Crowd + 1 - c
<1>2. /\ c \in 1..Crowd /\ Cardinality(InFront(q, a, u)) \in 1..Crowd /\ b[u] \in Int
      /\ b[u] = a[u] /\ IsFiniteSet(InFront(q, a, u))
  BY FrontIs
<1>3. InFront(p, b, u) = InFront(q, a, u) \ {t} /\ t \in InFront(q, a, u)
  BY DEF InFront
<1>4. c = Cardinality(InFront(q, a, u)) - 1
  <2>1. Cardinality(InFront(q, a, u) \ {t}) = Cardinality(InFront(q, a, u)) - 1
    BY <1>2, <1>3, FS_RemoveElement
  <2> QED BY <1>3, <2>1
<1>5. n = m + 1 /\ m \in Int /\ n \in Int
  BY <1>1, <1>2, <1>4
<1>6. 0 <= a[u] + D + B * m
  BY DEF Slack
<1> HIDE DEF m, n
<1>7. B * n = B * m + B /\ B * m \in Int
  BY <1>1, <1>5
<1>8. B <= b[u] + D + B * n
  BY <1>1, <1>2, <1>6, <1>7
<1> QED BY <1>8 DEF n
\* No task waits so long that the counter goes half round.
LEMMA InHalf ==
  ASSUME NEW D, Wide(D), NEW q, Queue(q), NEW key, NEW tick, NEW a \in [Tasks -> Int],
         Keyed(D, q, key, tick, a), Slack(D, Burst, q, a, 0), NEW t \in ToSet(q)
  PROVE  -(KeyRange \div 2) <= a[t] /\ a[t] < KeyRange \div 2 /\ a[t] \in Int
<1> DEFINE n == Crowd + 1 - Cardinality(InFront(q, a, t))
           h == KeyRange \div 2
<1>1. /\ Crowd \in Nat /\ Burst \in Nat /\ D \in Nat /\ Crowd <= Burst /\ Burst * Crowd \in Nat
      /\ D + Burst * Crowd <= h
  BY WideIs DEF Wide
<1>2. Cardinality(InFront(q, a, t)) \in 1..Crowd /\ a[t] \in Int
  BY FrontIs DEF Wide
<1>3. n \in 1..Crowd
  BY <1>1, <1>2
<1>4. 0 <= a[t] + D + Burst * n /\ a[t] <= D
  BY DEF Slack, Keyed
<1>5. h \in Int
  BY SchedulerAssumption
<1> HIDE DEF n, h
<1>6. Burst * n <= Burst * Crowd /\ Burst * n \in Int
  BY <1>1, <1>3
<1>7. -h <= a[t]
  BY <1>1, <1>2, <1>4, <1>5, <1>6
<1>8. Burst >= 1 /\ Burst * Crowd >= 1
  BY <1>1, <1>3
<1>9. a[t] < h
  BY <1>1, <1>2, <1>4, <1>5, <1>8
<1> QED BY <1>2, <1>7, <1>9 DEF h

\* The run queue is in order.
QueueKeyed(D) == Keyed(D, rqueue, rqkey, ticks, ahead)

\* However many wakeups r are still to come before the next task from the start of the
\* walk, every task has room left for them, and for one burst for each task before it.
RoomFor(D, r) == Slack(D, Burst, rqueue, ahead, r)

\* task_wakeup() puts a task where its nice value says, behind those already there.
LEMMA WokenKeyed ==
  ASSUME NEW D, Wide(D), RqOK, timer \subseteq Tasks, QueueKeyed(D), NEW t \in Tasks,
         NEW n \in AllNices, NEW b \in BOOLEAN, TaskWakeup(t, n, b),
         NEW r \in Int, r <= Burst, RoomFor(D, r)
  PROVE  QueueKeyed(D)' /\ RoomFor(D, r - 1)'
<1>1. CASE InRq(t)
  <2>1. /\ rqueue' = rqueue /\ rqkey' = rqkey /\ ticks' = ticks /\ ahead' = ahead
    BY <1>1 DEF TaskWakeup
  <2>2. Slack(D, Burst, rqueue, ahead, r - 1)
    BY WideIs, SlackLess DEF RqOK, RoomFor
  <2> QED BY <2>1, <2>2 DEF QueueKeyed, RoomFor
<1>2. CASE ~InRq(t)
  <2> DEFINE tick == (ticks + 1) % KeyRange
             offset == Offset(n, Len(rqueue) + 1)
             key == (tick + offset) % KeyRange
  <2>1. /\ rqueue' = Insert(rqueue, rqkey, t, key)
        /\ rqkey' = [rqkey EXCEPT ![t] = key]
        /\ ticks' = tick
        /\ ahead' = [u \in Tasks |-> IF u = t THEN offset
                                     ELSE IF InRq(u) THEN ahead[u] - 1 ELSE 0]
    BY <1>2 DEF TaskWakeup
  <2>2. KeyRange \in Nat /\ KeyRange > 0 /\ ticks \in 0..(KeyRange - 1)
    BY SchedulerAssumption DEF RqOK, Keys
  <2>3. /\ Queue(rqueue) /\ t \notin ToSet(rqueue) /\ ToSet(rqueue) \subseteq Tasks
        /\ rqkey \in [Tasks -> Int] /\ ahead \in [Tasks -> Int] /\ Sorted(rqueue, rqkey)
    BY <1>2, QueueSize DEF RqOK, InRq, Keys, QueueKeyed, Keyed, Wide
  <2>4. Len(rqueue) + 1 \in 1..Crowd
    <3>1. Len(rqueue) < Crowd /\ Len(rqueue) \in Nat /\ Crowd \in Nat
      BY <2>3, QueueSize, WideIs DEF Wide, Queue
    <3> QED BY <3>1
  <2>5. D \in Nat /\ -D <= offset /\ offset <= D
    BY <2>4 DEF Wide
  <2>6. RqOK' /\ ToSet(rqueue') = ToSet(rqueue) \cup {t}
    <3>1. n \in Int
      BY SchedulerAssumption DEF AllNices
    <3> QED BY <3>1, TaskWakeupKeeps
  <2>7. ahead' \in [Tasks -> Int] /\ Queue(rqueue') /\ ahead'[t] = offset
    BY <2>1, <2>6 DEF RqOK
  <2>8. offset \in Int
    BY <2>7
  <2> HIDE DEF offset
  <2>9. tick \in Int /\ key \in Int
    BY <2>2, <2>8
  <2>10. \A u \in ToSet(rqueue) : u # t /\ ahead'[u] = ahead[u] - 1 /\ rqkey'[u] = rqkey[u]
    BY <2>1, <2>3 DEF InRq
  <2>11. Sorted(rqueue', rqkey')
    <3> HIDE DEF key
    <3> QED BY <2>1, <2>3, <2>9, InsertSorted DEF Queue
  <2>12. ASSUME NEW u \in ToSet(rqueue)
         PROVE  rqkey'[u] = (ticks' + ahead'[u]) % KeyRange /\ ahead'[u] <= D
    <3>1. ahead[u] \in Int /\ rqkey[u] = (ticks + ahead[u]) % KeyRange /\ ahead[u] <= D
      BY <2>3 DEF QueueKeyed, Keyed
    <3>2. (((ticks + 1) % KeyRange) + (ahead[u] - 1)) % KeyRange = (ticks + ahead[u]) % KeyRange
      BY <2>2, <3>1, ModShift
    <3>3. ahead'[u] <= D
      BY <2>5, <2>10, <3>1
    <3> QED BY <2>1, <2>10, <3>1, <3>2, <3>3
  <2>13. rqkey'[t] = (ticks' + ahead'[t]) % KeyRange /\ ahead'[t] <= D
    BY <2>1, <2>3, <2>5, <2>7
  <2>14. QueueKeyed(D)'
    BY <2>6, <2>11, <2>12, <2>13 DEF QueueKeyed, Keyed
  <2>15. Slack(D, Burst, rqueue', ahead', r - 1)
    BY <2>3, <2>5, <2>6, <2>7, <2>8, <2>10, WideIs, WokenSlack DEF RoomFor
  <2> QED BY <2>14, <2>15 DEF RoomFor
<1> QED BY <1>1, <1>2

\* __task_unlink_rq() leaves the others where they are.
LEMMA UnlinkedKeyed ==
  ASSUME NEW D, Wide(D), RqOK, QueueKeyed(D), NEW t \in Tasks, UnlinkRq(t)
  PROVE  /\ QueueKeyed(D)' /\ RqOK' /\ ToSet(rqueue') = ToSet(rqueue) \ {t}
         /\ \A u \in ToSet(rqueue') : ahead'[u] = ahead[u]
         /\ \A r \in Int : RoomFor(D, r) => RoomFor(D, r)'
<1>1. /\ rqueue' = RemoveFirst(rqueue, t) /\ rqkey' = [rqkey EXCEPT ![t] = 0]
      /\ ahead' = [ahead EXCEPT ![t] = 0] /\ ticks' = ticks
  BY DEF UnlinkRq
<1>2. RqOK' /\ ToSet(rqueue') = ToSet(rqueue) \ {t}
  BY UnlinkRqKeeps
<1>3. /\ Queue(rqueue) /\ Queue(rqueue') /\ rqkey \in [Tasks -> Int] /\ ToSet(rqueue) \subseteq Tasks
      /\ ahead \in [Tasks -> Int] /\ ahead' \in [Tasks -> Int] /\ Sorted(rqueue, rqkey)
  BY <1>2, QueueSize DEF RqOK, Keys, QueueKeyed, Keyed, Wide
<1>4. \A u \in ToSet(rqueue') : ahead'[u] = ahead[u] /\ rqkey'[u] = rqkey[u]
  BY <1>1, <1>2, <1>3
<1>5. Sorted(rqueue', rqkey')
  BY <1>1, <1>3, RemoveSorted DEF Queue
<1>6. QueueKeyed(D)'
  BY <1>1, <1>2, <1>4, <1>5 DEF QueueKeyed, Keyed
<1>7. ASSUME NEW r \in Int, RoomFor(D, r) PROVE Slack(D, Burst, rqueue', ahead', r)
  BY <1>2, <1>3, <1>4, <1>7, WideIs, LeftSlack DEF RoomFor
<1> QED BY <1>2, <1>4, <1>6, <1>7 DEF RoomFor

\* The wakeups that may still come before process_runnable_tasks() starts its next walk:
\* by the tasks it runs, by one round of I/O, by the timers that expire.
Coming ==
  CASE pc = "run" -> left * MaxCalls + MaxCalls + Crowd
    [] pc = "process" -> left * MaxCalls + (MaxCalls - calls) + MaxCalls + Crowd
    [] pc = "poll" -> MaxCalls + Crowd
    [] pc = "io" -> (MaxCalls - calls) + Crowd
    [] pc = "wake" -> Cardinality(ToSet(timers))
    [] pc = "runnable" -> 0

\* The task that process_runnable_tasks() takes next.
Walked == IF eb = None THEN First(rqueue) ELSE eb

\* A walk that has run a task, or is over, has left room for all that may come ...
Underway(D) ==
  /\ pc \in {"run", "process"} => left < MaxProcessed
  /\ RoomFor(D, Coming)

\* ... and one that begins runs the task that is farthest behind.
Begins(D) ==
  /\ pc = "run" /\ left \in 1..MaxProcessed /\ rqueue # <<>> /\ RoomFor(D, 0)
  /\ Leads(rqueue, ahead, Walked)

\* The invariant of the run queue.
Order(D) ==
  /\ nice \in [Tasks -> AllNices]
  /\ QueueKeyed(D)
  /\ Underway(D) \/ Begins(D)

\* No more wakeups may come than a burst has.
LEMMA ComingIs ==
  ASSUME NEW D, Wide(D), RestOK, WqOK, pc \in {"run", "process"} => left < MaxProcessed
  PROVE  Coming \in 0..Burst
<1>1. /\ Crowd \in Nat /\ Burst \in Nat /\ Crowd <= Burst
      /\ MaxProcessed \in Nat \ {0} /\ MaxCalls \in Nat
  BY WideIs
<1>2. left \in Nat /\ calls \in 0..MaxCalls
  BY DEF RestOK
<1>3. MaxProcessed * MaxCalls \in Nat /\ left * MaxCalls \in Nat
  BY <1>1, <1>2
<1>4. left < MaxProcessed => left * MaxCalls + MaxCalls <= MaxProcessed * MaxCalls
  <2> SUFFICES ASSUME left < MaxProcessed
               PROVE  left * MaxCalls + MaxCalls <= MaxProcessed * MaxCalls
    OBVIOUS
  <2>1. left + 1 <= MaxProcessed
    BY <1>1, <1>2
  <2>2. (left + 1) * MaxCalls <= MaxProcessed * MaxCalls
    BY <1>1, <1>2, <2>1
  <2>3. (left + 1) * MaxCalls = left * MaxCalls + MaxCalls
    BY <1>1, <1>2
  <2> QED BY <2>2, <2>3
<1>5. CASE pc = "run"
  <2>1. Coming = left * MaxCalls + MaxCalls + Crowd
    BY <1>5 DEF Coming
  <2>2. left * MaxCalls + MaxCalls <= MaxProcessed * MaxCalls
    BY <1>4, <1>5
  <2> QED BY <1>1, <1>3, <2>1, <2>2 DEF Burst
<1>6. CASE pc = "process"
  <2>1. Coming = left * MaxCalls + (MaxCalls - calls) + MaxCalls + Crowd
    BY <1>6 DEF Coming
  <2>2. left * MaxCalls + MaxCalls <= MaxProcessed * MaxCalls
    BY <1>4, <1>6
  <2> QED BY <1>1, <1>2, <1>3, <2>1, <2>2 DEF Burst
<1>7. CASE pc = "poll"
  <2>1. Coming = MaxCalls + Crowd
    BY <1>7 DEF Coming
  <2> QED BY <1>1, <1>3, <2>1 DEF Burst
<1>8. CASE pc = "io"
  <2>1. Coming = (MaxCalls - calls) + Crowd
    BY <1>8 DEF Coming
  <2> QED BY <1>1, <1>2, <1>3, <2>1 DEF Burst
<1>9. CASE pc = "wake"
  <2>1. Coming = Cardinality(ToSet(timers))
    BY <1>9 DEF Coming
  <2>2. Cardinality(ToSet(timers)) \in 0..Crowd
    BY QueueSize DEF WqOK, Wide
  <2> QED BY <1>1, <2>1, <2>2
<1>10. CASE pc = "runnable"
  BY <1>1, <1>10 DEF Coming
<1> QED BY <1>5, <1>6, <1>7, <1>8, <1>9, <1>10 DEF RestOK

\* What the two invariants say of the parts of the state.
LEMMA Parts ==
  ASSUME NEW D, Wide(D), SchedulerInv, Order(D)
  PROVE  /\ WqOK /\ RqOK /\ RestOK /\ nice \in [Tasks -> AllNices] /\ QueueKeyed(D)
         /\ Underway(D) => Coming \in 0..Burst
         /\ pc # "run" => Underway(D)
  BY Unpacked, ComingIs DEF Order, Underway, Begins

\* A step that leaves the run queue alone, and after which no more wakeups may come.
LEMMA Quiet ==
  ASSUME NEW D, Wide(D), SchedulerInv, Order(D), Underway(D),
         UNCHANGED <<rqueue, rqkey, ticks, ahead>>, nice' \in [Tasks -> AllNices],
         pc' \in {"run", "process"} => left' < MaxProcessed, Coming' \in Int, Coming' <= Coming
  PROVE  Order(D)'
<1>1. RqOK /\ QueueKeyed(D) /\ Coming \in Int
  BY Parts
<1>2. Slack(D, Burst, rqueue, ahead, Coming')
  BY <1>1, WideIs, SlackLess DEF RqOK, RoomFor, Underway
<1>3. QueueKeyed(D)'
  BY <1>1 DEF QueueKeyed
<1>4. Slack(D, Burst, rqueue', ahead', Coming')
  BY <1>2
<1>5. Underway(D)'
  BY <1>4 DEF Underway, RoomFor
<1> QED BY <1>3, <1>5 DEF Order

\* A step that wakes a task, and after which one wakeup less may come.
LEMMA Woken ==
  ASSUME NEW D, Wide(D), SchedulerInv, Order(D), Underway(D),
         NEW t \in Tasks, NEW n \in AllNices, NEW b \in BOOLEAN, TaskWakeup(t, n, b),
         nice' \in [Tasks -> AllNices],
         pc' \in {"run", "process"} => left' < MaxProcessed, Coming' = Coming - 1
  PROVE  Order(D)'
<1>1. RqOK /\ timer \subseteq Tasks /\ QueueKeyed(D) /\ Coming \in Int /\ Coming <= Burst
  <2>1. Coming \in 0..Burst /\ Burst \in Nat
    BY Parts, WideIs
  <2> QED BY <2>1, Parts DEF RestOK
<1>2. PICK s \in Int : s = Coming
  BY <1>1
<1>3. QueueKeyed(D)' /\ RoomFor(D, s - 1)'
  BY <1>1, <1>2, WokenKeyed DEF Underway
<1>4. Slack(D, Burst, rqueue', ahead', Coming')
  BY <1>2, <1>3 DEF RoomFor
<1> QED BY <1>3, <1>4 DEF Order, Underway, RoomFor

\* A step that takes a task out of the run queue, and after which no more may come.
LEMMA TakenOut ==
  ASSUME NEW D, Wide(D), SchedulerInv, Order(D), Underway(D),
         NEW t \in Tasks, UnlinkRq(t), nice' \in [Tasks -> AllNices],
         pc' \in {"run", "process"} => left' < MaxProcessed, Coming' \in Int, Coming' <= Coming
  PROVE  Order(D)'
<1>1. RqOK /\ QueueKeyed(D) /\ Coming \in Int
  BY Parts
<1>2. PICK s \in Int : s = Coming'
  OBVIOUS
<1>3. RoomFor(D, s)
  BY <1>1, <1>2, WideIs, SlackLess DEF RqOK, RoomFor, Underway
<1>4. QueueKeyed(D)' /\ RoomFor(D, s)'
  BY <1>1, <1>3, UnlinkedKeyed
<1>5. Slack(D, Burst, rqueue', ahead', Coming')
  BY <1>2, <1>4 DEF RoomFor
<1> QED BY <1>4, <1>5 DEF Order, Underway, RoomFor

\* A call of a running task, or of a callback, uses up one of the wakeups to come.
LEMMA CallComing ==
  ASSUME NEW D, Wide(D), SchedulerInv, Order(D), NEW where, where \subseteq {"process", "io"},
         Call(where), UNCHANGED <<pc, left>>
  PROVE  /\ Underway(D) /\ Coming \in Int /\ Coming' \in Int /\ Coming' = Coming - 1
         /\ Coming' <= Coming /\ (pc' \in {"run", "process"} => left' < MaxProcessed)
<1>1. pc \in {"process", "io"} /\ calls' = calls + 1
  BY DEF Call
<1>2. Underway(D) /\ Coming \in Int /\ RestOK
  BY <1>1, Parts
<1>3. Crowd \in Nat /\ MaxCalls \in Nat /\ calls \in Int /\ left \in Nat
  BY <1>2, WideIs DEF RestOK
<1>4. left * MaxCalls \in Int
  BY <1>3
<1>5. Coming' = Coming - 1
  <2>1. CASE pc = "process"
    <3>1. /\ Coming = left * MaxCalls + (MaxCalls - calls) + MaxCalls + Crowd
          /\ Coming' = left * MaxCalls + (MaxCalls - (calls + 1)) + MaxCalls + Crowd
      BY <1>1, <2>1 DEF Coming, Crowd
    <3> QED BY <1>3, <1>4, <3>1
  <2>2. CASE pc = "io"
    <3>1. Coming = (MaxCalls - calls) + Crowd /\ Coming' = (MaxCalls - (calls + 1)) + Crowd
      BY <1>1, <2>2 DEF Coming, Crowd
    <3> QED BY <1>3, <3>1
  <2> QED BY <1>1, <2>1, <2>2
<1> QED BY <1>2, <1>5 DEF Underway

\* Nothing is queued at first.
LEMMA InitOrder ==
  ASSUME NEW D, Wide(D), Init PROVE Order(D)
<1>1. ToSet(rqueue) = {} /\ Len(rqueue) = 0 /\ pc = "io"
  BY DEF Init, ToSet
<1>2. nice \in [Tasks -> AllNices]
  BY DEF Init, AllNices
<1> QED BY <1>1, <1>2 DEF Order, QueueKeyed, Keyed, Sorted, Underway, RoomFor, Slack

\* The timers that expired are no more than the tasks there are.
LEMMA WakeExpiredTasksOrder ==
  ASSUME NEW D, Wide(D), SchedulerInv, Order(D), WakeExpiredTasks PROVE Order(D)'
<1>1. /\ pc = "io" /\ pc' = "wake"
      /\ UNCHANGED <<nice, timers, rqueue, rqkey, ticks, ahead, left>>
  BY DEF WakeExpiredTasks, waitq, runq
<1>2. WqOK /\ RestOK /\ Underway(D) /\ nice \in [Tasks -> AllNices]
  BY <1>1, Parts
<1>3. Coming = (MaxCalls - calls) + Crowd /\ Coming' = Cardinality(ToSet(timers))
  BY <1>1 DEF Coming
<1>4. Cardinality(ToSet(timers)) \in 0..Crowd /\ calls \in 0..MaxCalls /\ MaxCalls \in Nat /\ Crowd \in Nat
  BY <1>2, QueueSize, WideIs DEF WqOK, RestOK, Wide
<1>5. Coming' \in Int /\ Coming' <= Coming
  BY <1>3, <1>4
<1> QED BY <1>1, <1>2, <1>5, Quiet

\* The walk of the timers is over.
LEMMA WakeEndsOrder ==
  ASSUME NEW D, Wide(D), SchedulerInv, Order(D), WakeEnds PROVE Order(D)'
<1>1. /\ pc = "wake" /\ pc' = "runnable"
      /\ UNCHANGED <<nice, rqueue, rqkey, ticks, ahead, left>>
  BY DEF WakeEnds, runq
<1>2. Underway(D) /\ nice \in [Tasks -> AllNices] /\ Coming \in 0..Burst
  BY <1>1, Parts
<1>3. Coming' = 0
  BY <1>1 DEF Coming
<1> QED BY <1>1, <1>2, <1>3, Quiet

\* A timer that expired wakes its task, and is a timer no more.
LEMMA WakeStepOrder ==
  ASSUME NEW D, Wide(D), SchedulerInv, Order(D), WakeStep PROVE Order(D)'
<1> DEFINE t == IF eb = None THEN First(timers) ELSE eb
<1>1. /\ pc = "wake" /\ t # None
      /\ \/ UnlinkWq(t) /\ TaskWakeup(t, nice[t], TRUE)
         \/ UnlinkWq(t) /\ UNCHANGED <<rqueue, rqkey, ticks, ahead>>
         \/ \E date \in {expire[t]} :
               Requeue(t, date) /\ UNCHANGED <<rqueue, rqkey, ticks, ahead>>
      /\ UNCHANGED <<nice, pc, left>>
  BY DEF WakeStep, runq
<1>2. WqOK /\ RestOK /\ Underway(D) /\ nice \in [Tasks -> AllNices] /\ CursorInQueue
  BY <1>1, Parts, Unpacked
<1>3. t \in ToSet(timers) /\ t \in Tasks
  <2>1. t \in ToSet(timers)
    BY <1>1, <1>2, FirstIn DEF CursorInQueue, InWq, WqOK, Queue
  <2> QED BY <1>2, <2>1, QueueSize DEF WqOK, Wide
<1>4. /\ IsFiniteSet(ToSet(timers)) /\ Cardinality(ToSet(timers)) \in Nat
      /\ Cardinality(ToSet(timers) \ {t}) = Cardinality(ToSet(timers)) - 1
  BY <1>2, <1>3, QueueSize, FS_RemoveElement, FS_CardinalityType DEF WqOK, Wide
<1>5. Coming = Cardinality(ToSet(timers)) /\ Coming' = Cardinality(ToSet(timers'))
  BY <1>1 DEF Coming
<1>6. pc' \notin {"run", "process"} /\ nice' \in [Tasks -> AllNices]
  BY <1>1, <1>2
<1> HIDE DEF t
<1>7. CASE UnlinkWq(t)
  <2>1. ToSet(timers') = ToSet(timers) \ {t}
    BY <1>2, <1>3, <1>7, UnlinkWqKeeps DEF WqOK
  <2>2. Coming' = Coming - 1 /\ Coming' \in Int /\ Coming' <= Coming
    BY <1>4, <1>5, <2>1
  <2>3. CASE TaskWakeup(t, nice[t], TRUE)
    <3>1. nice[t] \in AllNices /\ TRUE \in BOOLEAN
      BY <1>2, <1>3
    <3> QED BY <1>2, <1>3, <1>6, <2>2, <2>3, <3>1, Woken
  <2>4. CASE UNCHANGED <<rqueue, rqkey, ticks, ahead>>
    BY <1>2, <1>6, <2>2, <2>4, Quiet
  <2>5. CASE \E date \in {expire[t]} : Requeue(t, date) /\ UNCHANGED <<rqueue, rqkey, ticks, ahead>>
    BY <2>4, <2>5
  <2> QED BY <1>1, <2>3, <2>4, <2>5
<1>8. CASE \E date \in {expire[t]} : Requeue(t, date) /\ UNCHANGED <<rqueue, rqkey, ticks, ahead>>
  <2>1. Requeue(t, expire[t]) /\ UNCHANGED <<rqueue, rqkey, ticks, ahead>>
    BY <1>8
  <2>2. expire[t] \in Ticks
    BY <1>2, <1>3 DEF RestOK
  <2>3. ToSet(timers') = ToSet(timers) \cup {t}
    BY <1>2, <1>3, <2>1, <2>2, RequeueKeeps DEF WqOK
  <2>4. ToSet(timers') = ToSet(timers)
    BY <1>3, <2>3
  <2>5. Coming' = Coming /\ Coming' \in Int /\ Coming' <= Coming
    BY <1>4, <1>5, <2>4
  <2> QED BY <1>2, <1>6, <2>1, <2>5, Quiet
<1> QED BY <1>1, <1>7, <1>8

\* process_runnable_tasks() starts its walk at the task that is farthest behind.
LEMMA ProcessRunnableTasksOrder ==
  ASSUME NEW D, Wide(D), SchedulerInv, Order(D), ProcessRunnableTasks
  PROVE  Order(D)' /\ (rqueue # <<>> => Begins(D)')
<1> DEFINE most == IF Len(rqueue) > MaxProcessed THEN MaxProcessed ELSE Len(rqueue)
           e == LookupGe(rqueue, rqkey, (ticks - KeyRange \div 2) % KeyRange)
<1>1. /\ pc = "runnable"
      /\ left' = IF niced # 0 THEN (most + 3) \div 4 ELSE most
      /\ IF rqueue = <<>> THEN pc' = "poll" /\ eb' = None ELSE pc' = "run" /\ eb' = e
      /\ UNCHANGED <<nice, rqueue, rqkey, ticks, ahead>>
  BY DEF ProcessRunnableTasks, runq
<1>2. /\ RqOK /\ QueueKeyed(D) /\ Underway(D) /\ nice \in [Tasks -> AllNices]
  BY <1>1, Parts
<1>3. RoomFor(D, 0)
  BY <1>1, <1>2 DEF Underway, Coming
<1>4. QueueKeyed(D)' /\ nice' \in [Tasks -> AllNices]
  BY <1>1, <1>2 DEF QueueKeyed
<1>5. CASE rqueue = <<>>
  <2>1. ToSet(rqueue') = {} /\ pc' = "poll"
    BY <1>1, <1>5 DEF ToSet
  <2>2. Underway(D)'
    BY <2>1 DEF Underway, RoomFor, Slack
  <2> QED BY <1>4, <1>5, <2>2 DEF Order
<1>6. CASE rqueue # <<>>
  <2>1. Len(rqueue) \in Nat /\ Len(rqueue) > 0 /\ MaxProcessed \in Nat /\ MaxProcessed > 0
    <3>1. rqueue \in Seq(Tasks)
      BY <1>2 DEF RqOK, Queue
    <3> QED BY <1>6, <3>1, SchedulerAssumption
  <2>2. most \in 1..MaxProcessed
    BY <2>1
  <2> HIDE DEF most
  <2>3. left' \in 1..MaxProcessed
    <3>1. (most + 3) \div 4 \in 1..MaxProcessed
      BY <2>1, <2>2
    <3> QED BY <1>1, <2>2, <3>1
  <2>4. KeyedBy(KeyRange, rqueue, rqkey, ticks, ahead)
    BY <1>2, <1>3, InHalf DEF QueueKeyed, Keyed, KeyedBy, RoomFor, RqOK
  <2>5. Walked' = IF e = None THEN First(rqueue) ELSE e
    BY <1>1, <1>6 DEF Walked
  <2>6. Leads(rqueue, ahead, IF e = None THEN First(rqueue) ELSE e)
    <3>1. /\ KeyRange \in Nat /\ KeyRange > 0 /\ KeyRange % 2 = 0
          /\ ticks \in 0..(KeyRange - 1) /\ rqkey \in [Tasks -> 0..(KeyRange - 1)]
          /\ rqueue \in Seq(Tasks) /\ ahead \in [Tasks -> Int]
      BY <1>2, SchedulerAssumption DEF RqOK, Keys, Queue
    <3> QED BY <1>6, <2>4, <3>1, WalkStart
  <2> HIDE DEF e
  <2>7. Leads(rqueue', ahead', Walked')
    BY <1>1, <2>5, <2>6
  <2>8. RoomFor(D, 0)'
    BY <1>1, <1>3 DEF RoomFor
  <2>9. Begins(D)'
    BY <1>1, <1>6, <2>3, <2>7, <2>8 DEF Begins
  <2> QED BY <1>4, <2>9 DEF Order
<1> QED BY <1>5, <1>6

\* The walk is over: it has run a task, or there was none.
LEMMA RunEndsOrder ==
  ASSUME NEW D, Wide(D), SchedulerInv, Order(D), RunEnds PROVE Order(D)'
<1>1. /\ pc = "run" /\ pc' = "poll" /\ (left = 0 \/ rqueue = <<>>)
      /\ UNCHANGED <<nice, rqueue, rqkey, ticks, ahead>>
  BY DEF RunEnds, runq
<1>2. QueueKeyed(D)' /\ nice' \in [Tasks -> AllNices] /\ RestOK
  BY <1>1, Parts DEF QueueKeyed
<1>3. CASE rqueue = <<>>
  <2>1. ToSet(rqueue') = {} /\ pc' = "poll"
    BY <1>1, <1>3 DEF ToSet
  <2>2. Underway(D)'
    BY <2>1 DEF Underway, RoomFor, Slack
  <2> QED BY <1>2, <2>2 DEF Order
<1>4. CASE left = 0
  <2>1. Underway(D)
    BY <1>4 DEF Order, Begins
  <2>2. Crowd \in Nat /\ MaxCalls \in Nat
    BY WideIs
  <2>3. left * MaxCalls = 0
    BY <1>4, <2>2
  <2>4. Coming = left * MaxCalls + MaxCalls + Crowd /\ Coming' = MaxCalls + Crowd
    BY <1>1 DEF Coming
  <2>5. Coming' \in Int /\ Coming' <= Coming
    BY <2>2, <2>3, <2>4
  <2> QED BY <1>1, <1>2, <2>1, <2>5, Quiet
<1> QED BY <1>1, <1>3, <1>4

\* The first task of a walk leaves room for a burst, every other one what there was.
LEMMA RunStepOrder ==
  ASSUME NEW D, Wide(D), SchedulerInv, Order(D), RunStep PROVE Order(D)'
<1>1. /\ pc = "run" /\ pc' = "process" /\ left > 0 /\ rqueue # <<>> /\ left' = left - 1
      /\ UnlinkRq(Walked) /\ UNCHANGED <<nice, calls>>
  BY DEF RunStep, Walked, bounds
<1>2. /\ WqOK /\ RqOK /\ RestOK /\ QueueKeyed(D) /\ nice' \in [Tasks -> AllNices] /\ CursorInQueue
      /\ left \in Nat /\ calls \in 0..MaxCalls
  BY <1>1, Parts, Unpacked DEF RestOK
<1>3. Walked \in ToSet(rqueue) /\ Walked \in Tasks
  <2>1. Walked \in ToSet(rqueue)
    BY <1>1, <1>2, FirstIn DEF Walked, CursorInQueue, InRq, RqOK, Queue
  <2> QED BY <1>2, <2>1, QueueSize DEF RqOK, Wide
<1>4. /\ Crowd \in Nat /\ MaxCalls \in Nat /\ Burst \in Nat /\ D \in Nat /\ MaxProcessed \in Nat
  BY WideIs
<1> DEFINE m == left' * MaxCalls
           p == MaxProcessed * MaxCalls
<1>5. m \in Nat /\ p \in Nat /\ left * MaxCalls = m + MaxCalls /\ left' \in Nat
  BY <1>1, <1>2, <1>4
<1>6. Coming' = m + (MaxCalls - calls) + MaxCalls + Crowd
  BY <1>1 DEF Coming, Crowd
<1>11. ASSUME left' < MaxProcessed PROVE m + MaxCalls <= p
  <2>1. PICK l \in Nat : l = left'
    BY <1>5
  <2>2. l < MaxProcessed
    BY <1>11, <2>1
  <2>3. l + 1 <= MaxProcessed /\ l + 1 \in Nat
    BY <1>4, <2>2
  <2>4. (l + 1) * MaxCalls <= MaxProcessed * MaxCalls
    BY <1>4, <2>3
  <2>5. (l + 1) * MaxCalls = l * MaxCalls + MaxCalls
    BY <1>4
  <2> QED BY <2>1, <2>4, <2>5
<1> HIDE DEF m
<1>7. Coming' \in Int
  BY <1>2, <1>4, <1>5, <1>6
<1>8. CASE Underway(D)
  <2>1. Coming = left * MaxCalls + MaxCalls + Crowd /\ left < MaxProcessed
    BY <1>1, <1>8 DEF Coming, Underway
  <2>2. Coming' <= Coming
    <3>1. Coming = (m + MaxCalls) + MaxCalls + Crowd
      BY <1>5, <2>1
    <3> QED BY <1>2, <1>4, <1>5, <1>6, <3>1
  <2>3. left' < MaxProcessed
    BY <1>1, <1>2, <1>4, <2>1
  <2> QED BY <1>1, <1>2, <1>3, <1>7, <1>8, <2>2, <2>3, TakenOut
<1>9. CASE Begins(D)
  <2>1. /\ left \in 1..MaxProcessed /\ Slack(D, Burst, rqueue, ahead, 0)
        /\ \A u \in ToSet(rqueue) : ahead[Walked] <= ahead[u]
    <3>1. Leads(rqueue, ahead, Walked) /\ left \in 1..MaxProcessed /\ Slack(D, Burst, rqueue, ahead, 0)
      BY <1>9 DEF Begins, RoomFor
    <3> QED BY <1>2, <3>1, LeadsAll DEF RqOK, Queue
  <2>2. left' < MaxProcessed
    BY <1>1, <1>4, <2>1
  <2>3. /\ QueueKeyed(D)' /\ RqOK' /\ ToSet(rqueue') = ToSet(rqueue) \ {Walked}
        /\ \A u \in ToSet(rqueue') : ahead'[u] = ahead[u]
    BY <1>1, <1>2, <1>3, UnlinkedKeyed
  <2>4. Slack(D, Burst, rqueue', ahead', Burst)
    BY <1>2, <1>3, <2>1, <2>3, WideIs, FirstLeftSlack DEF RqOK
  <2>5. Coming' <= Burst
    <3>1. m + MaxCalls <= p /\ Burst = p + MaxCalls + Crowd
      BY <1>11, <2>2 DEF Burst
    <3> HIDE DEF p
    <3> QED BY <1>2, <1>4, <1>5, <1>6, <3>1
  <2>6. Slack(D, Burst, rqueue', ahead', Coming')
    BY <1>4, <1>7, <2>3, <2>4, <2>5, WideIs, SlackLess DEF RqOK
  <2>7. Underway(D)'
    BY <2>2, <2>6 DEF Underway, RoomFor
  <2> QED BY <1>2, <2>3, <2>7 DEF Order
<1> QED BY <1>8, <1>9 DEF Order

\* After a task has run, fewer may still do.
LEMMA ReturnComing ==
  ASSUME NEW D, Wide(D), SchedulerInv, Order(D), pc = "process", pc' = "run", UNCHANGED left
  PROVE  /\ Underway(D) /\ Coming' \in Int /\ Coming' <= Coming
         /\ (pc' \in {"run", "process"} => left' < MaxProcessed)
<1>1. Underway(D) /\ RestOK
  BY Parts
<1>2. calls \in 0..MaxCalls /\ left \in Nat /\ MaxCalls \in Nat /\ Crowd \in Nat
  BY <1>1, WideIs DEF RestOK
<1>3. left * MaxCalls \in Nat
  BY <1>2
<1>4. /\ Coming = left * MaxCalls + (MaxCalls - calls) + MaxCalls + Crowd
      /\ Coming' = left * MaxCalls + MaxCalls + Crowd
  BY DEF Coming, Crowd
<1>5. Coming' \in Int /\ Coming' <= Coming
  BY <1>2, <1>3, <1>4
<1> QED BY <1>1, <1>5 DEF Underway

\* process() returned the task.
LEMMA ReturnOrder ==
  ASSUME NEW D, Wide(D), SchedulerInv, Order(D), Return PROVE Order(D)'
<1>1. pc = "process" /\ \E date : Requeued(date)
  BY DEF Return, ReturnLearning
<1>2. pc' = "run" /\ UNCHANGED <<nice, rqueue, rqkey, ticks, ahead, left>>
  BY <1>1 DEF Requeued
<1>3. nice' \in [Tasks -> AllNices]
  BY <1>2, Parts
<1> QED BY <1>1, <1>2, <1>3, ReturnComing, Quiet

\* task_delete() and task_free() take the task out of the run queue, if it is there.
LEMMA DeletedOrder ==
  ASSUME NEW D, Wide(D), SchedulerInv, Order(D), Underway(D), NEW t \in Tasks, TaskDelete(t),
         pc' \in {"run", "process"} => left' < MaxProcessed, Coming' \in Int, Coming' <= Coming
  PROVE  Order(D)'
<1>1. nice' \in [Tasks -> AllNices]
  BY Parts DEF TaskDelete, AllNices
<1>2. CASE InRq(t)
  BY <1>1, <1>2, TakenOut DEF TaskDelete
<1>3. CASE ~InRq(t)
  <2>1. UNCHANGED <<rqueue, rqkey, ticks, ahead>>
    BY <1>3 DEF TaskDelete
  <2> QED BY <1>1, <2>1, Quiet
<1> QED BY <1>2, <1>3

\* process() deleted the task.
LEMMA ReturnNullOrder ==
  ASSUME NEW D, Wide(D), SchedulerInv, Order(D), ReturnNull PROVE Order(D)'
<1>1. /\ pc = "process" /\ pc' = "run" /\ TaskDelete(cur) /\ UNCHANGED left /\ cur \in Tasks
  BY DEF ReturnNull, Tasks
<1> QED BY <1>1, ReturnComing, DeletedOrder

\* A call that leaves the run queue alone ...
LEMMA QuietCall ==
  ASSUME NEW D, Wide(D), SchedulerInv, Order(D), NEW where, where \subseteq {"process", "io"},
         Call(where), UNCHANGED <<pc, left, rqueue, rqkey, ticks, ahead>>,
         nice' \in [Tasks -> AllNices]
  PROVE  Order(D)'
  BY CallComing, Quiet

\* ... and one that wakes a task.
LEMMA WakingCall ==
  ASSUME NEW D, Wide(D), SchedulerInv, Order(D), NEW where, where \subseteq {"process", "io"},
         Call(where), UNCHANGED <<pc, left>>, NEW t \in Tasks, NEW n \in AllNices,
         TaskWakeup(t, n, FALSE), nice' \in [Tasks -> AllNices]
  PROVE  Order(D)'
  BY CallComing, Woken

\* The nice values there are.
LEMMA ReniceAll ==
  ASSUME nice \in [Tasks -> AllNices], NEW t, NEW n \in AllNices, Renice(t, n)
  PROVE  nice' \in [Tasks -> AllNices]
  BY DEF Renice

\* task_wakeup(), with or without a new nice value.
LEMMA WakeupOrder ==
  ASSUME NEW D, Wide(D), SchedulerInv, Order(D), NEW t \in Tasks, Wakeup(t) PROVE Order(D)'
<1>1. /\ Call({"process", "io"}) /\ TaskWakeup(t, nice[t], FALSE) /\ UNCHANGED <<nice, pc, left>>
  BY DEF Wakeup, loop
<1>2. nice[t] \in AllNices /\ nice' \in [Tasks -> AllNices]
  BY <1>1, Parts
<1> QED BY <1>1, <1>2, WakingCall

\* session_shutdown(): the nice value changes first.
LEMMA SessionShutdownOrder ==
  ASSUME NEW D, Wide(D), SchedulerInv, Order(D), NEW t \in Tasks, SessionShutdown(t)
  PROVE  Order(D)'
<1>1. /\ Call({"process"}) /\ Renice(t, KillNice) /\ TaskWakeup(t, KillNice, FALSE)
      /\ UNCHANGED <<pc, left>>
  BY DEF SessionShutdown, loop
<1>2. KillNice \in AllNices /\ nice' \in [Tasks -> AllNices]
  BY <1>1, Parts, ReniceAll DEF AllNices
<1>3. {"process"} \subseteq {"process", "io"}
  OBVIOUS
<1> QED BY <1>1, <1>2, <1>3, WakingCall

\* A nice value that changes moves no task that is queued.
LEMMA SetNiceOrder ==
  ASSUME NEW D, Wide(D), SchedulerInv, Order(D), SetNice PROVE Order(D)'
<1>1. /\ Call({"process"}) /\ \E n \in RuleNices : Renice(cur, n)
      /\ UNCHANGED <<pc, left, rqueue, rqkey, ticks, ahead>>
  BY DEF SetNice, loop, runq
<1>2. nice' \in [Tasks -> AllNices]
  BY <1>1, Parts, ReniceAll DEF AllNices
<1>3. {"process"} \subseteq {"process", "io"}
  OBVIOUS
<1> QED BY <1>1, <1>2, <1>3, QuietCall

\* conn_session_complete()
LEMMA SessionCompleteOrder ==
  ASSUME NEW D, Wide(D), SchedulerInv, Order(D), NEW t \in Tasks, SessionComplete(t)
  PROVE  Order(D)'
<1>1. Call({"io"}) /\ TaskWakeup(t, nice[t], FALSE) /\ UNCHANGED <<nice, pc, left>>
  BY DEF SessionComplete, loop
<1>2. nice[t] \in AllNices /\ nice' \in [Tasks -> AllNices]
  BY <1>1, Parts
<1>3. {"io"} \subseteq {"process", "io"}
  OBVIOUS
<1> QED BY <1>1, <1>2, <1>3, WakingCall

\* session_accept(): the nice value of the listener.
LEMMA SessionAcceptOrder ==
  ASSUME NEW D, Wide(D), SchedulerInv, Order(D), NEW t \in Tasks, SessionAccept(t)
  PROVE  Order(D)'
<1>1. Call({"io"}) /\ UNCHANGED <<pc, left>>
  BY DEF SessionAccept, loop
<1>2. PICK n \in Nices :
         /\ nice' = [nice EXCEPT ![t] = n]
         /\ TaskWakeup(t, n, FALSE) \/ UNCHANGED <<rqueue, rqkey, ticks, ahead>>
  BY DEF SessionAccept, runq
<1>3. n \in AllNices /\ nice' \in [Tasks -> AllNices]
  BY <1>2, Parts DEF AllNices
<1>4. {"io"} \subseteq {"process", "io"}
  OBVIOUS
<1>5. CASE TaskWakeup(t, n, FALSE)
  BY <1>1, <1>3, <1>4, <1>5, WakingCall
<1>6. CASE UNCHANGED <<rqueue, rqkey, ticks, ahead>>
  BY <1>1, <1>3, <1>4, <1>6, QuietCall
<1> QED BY <1>2, <1>5, <1>6

\* kill_mini_session()
LEMMA KillMiniSessionOrder ==
  ASSUME NEW D, Wide(D), SchedulerInv, Order(D), NEW t \in Tasks, KillMiniSession(t)
  PROVE  Order(D)'
<1>1. Call({"io"}) /\ TaskDelete(t) /\ UNCHANGED <<pc, left>>
  BY DEF KillMiniSession, loop
<1>2. {"io"} \subseteq {"process", "io"}
  OBVIOUS
<1> QED BY <1>1, <1>2, CallComing, DeletedOrder

\* A date that is moved moves no key.
LEMMA DatesOrder ==
  ASSUME NEW D, Wide(D), SchedulerInv, Order(D), NEW t \in Tasks, TaskSchedule(t) \/ Postpone(t)
  PROVE  Order(D)'
<1>1. Call({"process", "io"}) /\ UNCHANGED <<nice, pc, left, rqueue, rqkey, ticks, ahead>>
  BY DEF TaskSchedule, Postpone, loop, runq
<1>2. nice' \in [Tasks -> AllNices]
  BY <1>1, Parts
<1> QED BY <1>1, <1>2, QuietCall

\* The poller begins a round of I/O.
LEMMA PollOrder ==
  ASSUME NEW D, Wide(D), SchedulerInv, Order(D), Poll PROVE Order(D)'
<1>1. /\ pc = "poll" /\ pc' = "io" /\ UNCHANGED <<nice, calls, left, rqueue, rqkey, ticks, ahead>>
  BY DEF Poll, runq, bounds
<1>2. RestOK /\ Underway(D) /\ nice' \in [Tasks -> AllNices]
  BY <1>1, Parts
<1>3. Coming = MaxCalls + Crowd /\ Coming' = (MaxCalls - calls) + Crowd
  BY <1>1 DEF Coming, Crowd
<1>4. calls \in 0..MaxCalls /\ MaxCalls \in Nat /\ Crowd \in Nat
  BY <1>2, WideIs DEF RestOK
<1>5. Coming' \in Int /\ Coming' <= Coming
  BY <1>3, <1>4
<1> QED BY <1>1, <1>2, <1>5, Quiet

\* Every step keeps the order of the run queue, and the room there is.
LEMMA OrderStep ==
  ASSUME NEW D, Wide(D) PROVE SchedulerInv /\ Order(D) /\ [Next]_vars => Order(D)'
<1> SUFFICES ASSUME SchedulerInv, Order(D), [Next]_vars PROVE Order(D)'
  OBVIOUS
<1>1. CASE WakeExpiredTasks \/ WakeStep \/ WakeEnds
  BY <1>1, WakeExpiredTasksOrder, WakeStepOrder, WakeEndsOrder
<1>2. CASE ProcessRunnableTasks \/ RunStep \/ RunEnds
  BY <1>2, ProcessRunnableTasksOrder, RunStepOrder, RunEndsOrder
<1>3. CASE Return \/ ReturnNull \/ SetNice
  BY <1>3, ReturnOrder, ReturnNullOrder, SetNiceOrder
<1>4. ASSUME NEW t \in Tasks,
             \/ Wakeup(t) \/ TaskSchedule(t) \/ Postpone(t) \/ SessionShutdown(t)
             \/ SessionAccept(t) \/ SessionComplete(t) \/ KillMiniSession(t)
      PROVE  Order(D)'
  BY <1>4, WakeupOrder, DatesOrder, SessionShutdownOrder, SessionAcceptOrder,
     SessionCompleteOrder, KillMiniSessionOrder
<1>5. CASE Poll
  BY <1>5, PollOrder
<1>6. CASE UNCHANGED vars
  BY <1>6 DEF vars, life, bounds, dates, waitq, runq, loop, Order, QueueKeyed, Underway, Begins,
     RoomFor, Coming, Walked
<1> QED BY <1>1, <1>2, <1>3, <1>4, <1>5, <1>6 DEF Next

\* What the sign of a difference tells, if the counter does not go half round meanwhile.
LEMMA SignTells ==
  ASSUME NEW K \in Nat, K > 0, K % 2 = 0, NEW tick \in Int, NEW x \in Int,
         -(K \div 2) <= x, x < K \div 2
  PROVE  Signed(((tick + x) % K) - tick, K) = x
<1> DEFINE h == K \div 2
           y == (tick + x) % K
           n == (tick + x) \div K
<1>1. h \in Nat /\ 2 * h = K
  OBVIOUS
<1>2. y \in Int /\ n \in Int /\ tick + x = n * K + y
  OBVIOUS
<1>3. -h <= x /\ x < h
  OBVIOUS
<1> HIDE DEF h, y, n
<1> DEFINE z == y - tick
           m == z % K
<1>4. CASE x >= 0
  <2>1. PICK l \in Int : l = -n
    BY <1>2
  <2>2. z \in Int /\ x \in 0..(K - 1) /\ z = l * K + x
    BY <1>1, <1>2, <1>3, <1>4, <2>1
  <2> HIDE DEF z
  <2>3. m = x
    BY <2>2, ModIs
  <2> QED BY <1>3, <2>3 DEF Signed, h, y, z
<1>5. CASE x < 0
  <2>1. PICK l \in Int : l = -n - 1
    BY <1>2
  <2>2. PICK w \in Int : w = x + K
    OBVIOUS
  <2>3. z \in Int /\ w \in 0..(K - 1) /\ z = l * K + w
    BY <1>1, <1>2, <1>3, <1>5, <2>1, <2>2
  <2> HIDE DEF z
  <2>4. m = w
    BY <2>3, ModIs
  <2>5. ~(w < h) /\ w - K = x
    BY <1>1, <1>3, <2>2
  <2> QED BY <2>4, <2>5 DEF Signed, h, y, z
<1> QED BY <1>4, <1>5

\* Where a runnable task stands can be read from its key.
LEMMA OrderTells ==
  ASSUME NEW D, Wide(D) PROVE SchedulerInv /\ Order(D) => KeysTellOrder
<1> SUFFICES ASSUME SchedulerInv, Order(D), NEW t \in alive, InRq(t)
             PROVE  Signed(rqkey[t] - ticks, KeyRange) = ahead[t]
  BY DEF KeysTellOrder
<1>1. RqOK /\ QueueKeyed(D) /\ t \in ToSet(rqueue)
  BY Parts DEF InRq
<1>2. Slack(D, Burst, rqueue, ahead, 0)
  <2>1. CASE Underway(D)
    <3>1. Coming \in 0..Burst /\ Burst \in Nat
      BY <2>1, Parts, WideIs
    <3>2. Coming \in Int /\ 0 <= Coming
      BY <3>1
    <3> QED BY <1>1, <2>1, <3>2, WideIs, SlackLess DEF RqOK, Underway, RoomFor
  <2>2. CASE Begins(D)
    BY <2>2 DEF Begins, RoomFor
  <2> QED BY <2>1, <2>2 DEF Order
<1>3. /\ -(KeyRange \div 2) <= ahead[t] /\ ahead[t] < KeyRange \div 2 /\ ahead[t] \in Int
      /\ rqkey[t] = (ticks + ahead[t]) % KeyRange
  BY <1>1, <1>2, InHalf DEF RqOK, QueueKeyed, Keyed
<1>4. ticks \in Int /\ KeyRange \in Nat /\ KeyRange > 0 /\ KeyRange % 2 = 0
  BY <1>1, SchedulerAssumption DEF RqOK, Keys
<1> QED BY <1>3, <1>4, SignTells

(***************************************************************************)
(* However tasks are niced, woken up and deleted, and wherever the         *)
(* insertion counter wraps: the sign of a difference to it tells where     *)
(* every runnable task stands (task_wakeup(), process_runnable_tasks()),   *)
(* if the counter is wide enough for the tasks there may be.               *)
(***************************************************************************)
THEOREM KeySafety == ASSUME NEW CONSTANT D, Wide(D) PROVE Spec => []KeysTellOrder
<1>1. Init => Order(D)
  BY InitOrder
<1>2. SchedulerInv /\ SchedulerInv' /\ Order(D) /\ [Next]_vars => Order(D)'
  BY OrderStep
<1>3. SchedulerInv /\ Order(D) => KeysTellOrder
  BY OrderTells
<1> QED BY <1>1, <1>2, <1>3, SchedulerAlways, PTL DEF Spec

-----------------------------------------------------------------------------
(* The dates: what the order of the wait queue tells.                      *)

\* The sign of a difference tells a distance of less than half the range ...
LEMMA SignedIs ==
  ASSUME NEW K \in Nat, K > 0, K % 2 = 0, NEW x \in Int, NEW n \in Int, NEW z \in Int,
         z = n * K + x, -(K \div 2) <= x, x < K \div 2
  PROVE  Signed(z, K) = x
<1> DEFINE h == K \div 2
           m == z % K
<1>1. h \in Nat /\ 2 * h = K /\ -h <= x /\ x < h
  OBVIOUS
<1> HIDE DEF h
<1>2. CASE x >= 0
  <2>1. x \in 0..(K - 1)
    BY <1>1, <1>2
  <2>2. m = x
    BY <2>1, ModIs
  <2> QED BY <1>1, <2>2 DEF Signed, h
<1>3. CASE x < 0
  <2>1. PICK l \in Int : l = n - 1
    OBVIOUS
  <2>2. PICK w \in Int : w = x + K
    OBVIOUS
  <2>3. w \in 0..(K - 1) /\ z = l * K + w
    BY <1>1, <1>3, <2>1, <2>2
  <2>4. m = w
    BY <2>3, ModIs
  <2>5. ~(w < h) /\ w - K = x
    BY <1>1, <2>2
  <2> QED BY <2>4, <2>5 DEF Signed, h
<1> QED BY <1>2, <1>3

\* ... and is always one.
LEMMA SignedType ==
  ASSUME NEW K \in Nat, K > 0, K % 2 = 0, NEW z \in Int
  PROVE  /\ Signed(z, K) \in Int /\ -(K \div 2) <= Signed(z, K) /\ Signed(z, K) < K \div 2
         /\ \E n \in Int : z = n * K + Signed(z, K)
<1> DEFINE h == K \div 2
           m == z % K
           n == z \div K
           s == Signed(z, K)
<1>1. h \in Nat /\ 2 * h = K
  OBVIOUS
<1>2. m \in 0..(K - 1) /\ n \in Int /\ z = n * K + m
  OBVIOUS
<1>3. s = IF m < h THEN m ELSE m - K
  BY DEF Signed
<1> HIDE DEF h, m, n, s
<1>4. s \in Int /\ -h <= s /\ s < h
  BY <1>1, <1>2, <1>3
<1>5. \E l \in Int : z = l * K + s
  <2>1. CASE m < h
    BY <1>2, <1>3, <2>1
  <2>2. CASE ~(m < h)
    <3>1. PICK l \in Int : l = n + 1
      BY <1>2
    <3>2. z = l * K + s
      BY <1>2, <1>3, <2>2, <3>1
    <3> QED BY <3>2
  <2> QED BY <2>1, <2>2
<1> QED BY <1>4, <1>5 DEF h, s

\* A date is where the sign of its difference to another one tells.
LEMMA SignedBack ==
  ASSUME NEW K \in Nat, K > 0, K % 2 = 0, NEW tick \in Int, NEW key \in 0..(K - 1)
  PROVE  (tick + Signed(key - tick, K)) % K = key
<1> DEFINE s == Signed(key - tick, K)
<1>1. PICK d \in Int : d = key - tick
  OBVIOUS
<1>2. PICK n \in Int : d = n * K + Signed(d, K)
  BY SignedType
<1>3. s \in Int /\ s = Signed(d, K)
  BY <1>1, SignedType
<1> HIDE DEF s
<1>4. PICK l \in Int : l = -n
  OBVIOUS
<1>5. PICK z \in Int : z = tick + s
  BY <1>3
<1>6. z = l * K + key
  <2>1. n * K \in Int /\ l * K = -(n * K)
    BY <1>4
  <2>2. d = n * K + s
    BY <1>2, <1>3
  <2> QED BY <1>1, <1>3, <1>5, <2>1, <2>2
<1>7. z % K = key
  BY <1>6, ModIs
<1> QED BY <1>5, <1>7 DEF s

\* The key of a node that stands x away from tick.
At(K, tick, x, v) == v = (tick + x) % K

\* The sign of a difference tells how far apart two nodes are.
LEMMA Apart ==
  ASSUME NEW K \in Nat, K > 0, K % 2 = 0, NEW tick \in Int, NEW x \in Int, NEW y \in Int,
         NEW v \in Int, NEW w \in Int, At(K, tick, x, v), At(K, tick, y, w),
         -(K \div 2) <= y - x, y - x < K \div 2
  PROVE  Signed(w - v, K) = y - x
<1> DEFINE m == (tick + x) \div K
           n == (tick + y) \div K
<1>1. m \in Int /\ n \in Int /\ tick + x = m * K + v /\ tick + y = n * K + w
  BY DEF At
<1> HIDE DEF m, n
<1>2. PICK l \in Int : l = m - n
  BY <1>1
<1>3. w - v \in Int /\ y - x \in Int /\ w - v = l * K + (y - x)
  <2>1. l * K = m * K - n * K
    BY <1>1, <1>2
  <2>2. m * K \in Int /\ n * K \in Int
    BY <1>1
  <2> QED BY <1>1, <2>1, <2>2
<1>4. PICK d \in Int : d = y - x
  OBVIOUS
<1>5. PICK z \in Int : z = w - v
  BY <1>1
<1>6. Signed(z, K) = d
  BY <1>3, <1>4, <1>5, SignedIs
<1> QED BY <1>4, <1>5, <1>6

\* Which of two keys is the larger number tells whether the range ends between them.
LEMMA Gap ==
  ASSUME NEW K \in Nat, K > 0, NEW tick \in Int, NEW x \in Int, NEW y \in Int,
         NEW v \in Int, NEW w \in Int, At(K, tick, x, v), At(K, tick, y, w), x <= y, y - x < K
  PROVE  y - x = IF v <= w THEN w - v ELSE w - v + K
<1> DEFINE m == (tick + x) \div K
           n == (tick + y) \div K
<1>1. /\ v \in 0..(K - 1) /\ w \in 0..(K - 1) /\ m \in Int /\ n \in Int
      /\ tick + x = m * K + v /\ tick + y = n * K + w
  BY DEF At
<1> HIDE DEF m, n
<1>2. PICK l \in Int : l = n - m
  BY <1>1
<1>3. y - x = l * K + (w - v)
  <2>1. l * K = n * K - m * K
    BY <1>1, <1>2
  <2>2. m * K \in Int /\ n * K \in Int
    BY <1>1
  <2> QED BY <1>1, <2>1, <2>2
<1>4. l \in {0, 1}
  <2>1. l * K > -K /\ l * K < K + K
    BY <1>1, <1>3
  <2>2. l > -1 /\ l < 2
    <3>1. l <= -1 => l * K <= -K
      OBVIOUS
    <3>2. l >= 2 => l * K >= K + K
      OBVIOUS
    <3> QED BY <2>1, <3>1, <3>2
  <2> QED BY <2>2
<1>5. l * K = IF l = 0 THEN 0 ELSE K
  BY <1>4
<1>6. y - x = IF l = 0 THEN w - v ELSE w - v + K
  BY <1>1, <1>3, <1>5
<1>7. y - x = IF v <= w THEN w - v ELSE w - v + K
  BY <1>1, <1>6
<1> QED BY <1>7

\* eb32_next() gives the node at the next place.
LEMMA SuccessorIs ==
  ASSUME NEW S, NEW q \in Seq(S), IsInjective(q), NEW i \in 1..Len(q)
  PROVE  Successor(q, q[i]) = IF i = Len(q) THEN None ELSE q[i + 1]
<1> DEFINE t == q[i]
           k == SelectInSeq(q, LAMBDA u : u = t)
<1>1. t \in ToSet(q)
  BY InSeq
<1>2. k \in 1..Len(q) /\ q[k] = t
  BY <1>1, PlaceOf
<1>3. Successor(q, t) = IF k = Len(q) THEN None ELSE q[k + 1]
  BY DEF Successor
<1> HIDE DEF k
<1>4. k = i
  BY <1>2 DEF IsInjective
<1> QED BY <1>3, <1>4

\* Taking out the node at a place.
LEMMA RemoveFirstIs ==
  ASSUME NEW S, NEW q \in Seq(S), IsInjective(q), NEW i \in 1..Len(q)
  PROVE  LET p == RemoveFirst(q, q[i])
         IN  /\ p \in Seq(S) /\ Len(p) = Len(q) - 1
             /\ \A j \in 1..(Len(q) - 1) : p[j] = IF j < i THEN q[j] ELSE q[j + 1]
<1> DEFINE t == q[i]
           k == SelectInSeq(q, LAMBDA u : u = t)
<1>1. t \in ToSet(q)
  BY InSeq
<1>2. k \in 1..Len(q) /\ q[k] = t
  BY <1>1, PlaceOf
<1>3. RemoveFirst(q, t) = RemoveAt(q, k)
  BY <1>1 DEF RemoveFirst, ToSet
<1> HIDE DEF k
<1>4. k = i
  BY <1>2 DEF IsInjective
<1>5. /\ RemoveAt(q, i) \in Seq(S) /\ Len(RemoveAt(q, i)) = Len(q) - 1
      /\ \A j \in 1..(Len(q) - 1) : RemoveAt(q, i)[j] = IF j < i THEN q[j] ELSE q[j + 1]
  BY RemoveAtIs
<1> QED BY <1>3, <1>4, <1>5

\* The node at place i is the first of all those that are farthest behind.
FirstAt(q, a, i) ==
  \A j \in 1..Len(q) : a[q[i]] <= a[q[j]] /\ (j < i => a[q[i]] < a[q[j]])

\* How far the others are ahead of it: the difference of the keys, or one round more.
Gaps(K, q, key, a, i) ==
  \A j \in 1..Len(q) :
     a[q[j]] - a[q[i]] = IF j < i THEN key[q[j]] - key[q[i]] + K ELSE key[q[j]] - key[q[i]]

\* The first of those that are farthest behind has the others that far ahead.
LEMMA LeadsGap ==
  ASSUME NEW K \in Nat, K > 0, K % 2 = 0, NEW q \in Seq(Tasks), NEW a \in [Tasks -> Int],
         NEW key \in [Tasks -> 0..(K - 1)], NEW tick \in 0..(K - 1), KeyedBy(K, q, key, tick, a),
         NEW i \in 1..Len(q), FirstAt(q, a, i)
  PROVE  Gaps(K, q, key, a, i)
<1> SUFFICES ASSUME NEW j \in 1..Len(q)
             PROVE  a[q[j]] - a[q[i]] =
                       IF j < i THEN key[q[j]] - key[q[i]] + K ELSE key[q[j]] - key[q[i]]
  BY DEF Gaps
<1>1. q[i] \in Tasks /\ q[j] \in Tasks /\ q[i] \in ToSet(q) /\ q[j] \in ToSet(q)
  BY InSeq
<1>2. PICK x \in Int, y \in Int, v \in 0..(K - 1), w \in 0..(K - 1) :
         x = a[q[i]] /\ y = a[q[j]] /\ v = key[q[i]] /\ w = key[q[j]]
  BY <1>1
<1>3. At(K, tick, x, v) /\ At(K, tick, y, w)
  BY <1>1, <1>2 DEF KeyedBy, At
<1>10. PICK h \in Int : h = K \div 2
  OBVIOUS
<1>11. -h <= x /\ x < h /\ -h <= y /\ y < h
  BY <1>1, <1>2, <1>10 DEF KeyedBy
<1>12. 2 * h = K
  BY <1>10
<1>4. x <= y /\ (j < i => x < y)
  BY <1>2 DEF FirstAt
<1>5. j < i => w <= v
  BY <1>2 DEF KeyedBy, Sorted
<1>6. j >= i => v <= w
  <2>1. CASE j = i
    BY <1>2, <2>1
  <2>2. CASE j > i
    BY <1>2, <2>2 DEF KeyedBy, Sorted
  <2> QED BY <2>1, <2>2
<1>7. (v <= w => y - x = w - v) /\ (x < y /\ w <= v => y - x = w - v + K)
  <2>4. x <= y
    BY <1>4
  <2>1. y - x < K
    <3>1. K = h + h
      BY <1>12
    <3>2. -h <= x /\ y < h
      BY <1>11
    <3> HIDE <1>1, <1>3
    <3> QED BY <3>1, <3>2
  <2>2. tick \in Int /\ v \in Int /\ w \in Int
    OBVIOUS
  <2>3. y - x = IF v <= w THEN w - v ELSE w - v + K
    BY <1>3, <2>1, <2>2, <2>4, Gap, SMTT(30)
  <2> QED BY <2>3, <2>4
<1>8. CASE j < i
  <2>1. y - x = w - v + K
    BY <1>4, <1>5, <1>7, <1>8
  <2> QED BY <1>2, <1>8, <2>1
<1>9. CASE ~(j < i)
  <2>1. y - x = w - v
    BY <1>6, <1>7, <1>9
  <2> QED BY <1>2, <1>9, <2>1
<1> QED BY <1>8, <1>9

\* Which node leads when the one at place i has left.
LEMMA LeadsWithout ==
  ASSUME NEW q \in Seq(Tasks), IsInjective(q), NEW a \in [Tasks -> Int], NEW i \in 1..Len(q),
         NEW m \in 1..Len(q), m # i,
         \A j \in 1..Len(q) : j # i => a[q[m]] <= a[q[j]] /\ (j < m => a[q[m]] < a[q[j]])
  PROVE  Leads(RemoveFirst(q, q[i]), a, q[m])
<1> DEFINE p == RemoveFirst(q, q[i])
<1>1. /\ p \in Seq(Tasks) /\ Len(p) = Len(q) - 1
      /\ \A j \in 1..(Len(q) - 1) : p[j] = IF j < i THEN q[j] ELSE q[j + 1]
  BY RemoveFirstIs
<1> HIDE DEF p
<1>2. PICK L \in Nat : L = Len(q)
  OBVIOUS
<1>3. PICK n \in 1..(L - 1) : n = IF m < i THEN m ELSE m - 1
  BY <1>2
<1>4. p[n] = q[m]
  <2>1. CASE m < i
    <3>1. n = m /\ n < i /\ n \in 1..(Len(q) - 1)
      BY <1>2, <1>3, <2>1
    <3> QED BY <1>1, <3>1
  <2>2. CASE ~(m < i)
    <3>1. ~(n < i) /\ n + 1 = m /\ n \in 1..(Len(q) - 1)
      BY <1>2, <1>3, <2>2
    <3> QED BY <1>1, <3>1
  <2> QED BY <2>1, <2>2
<1>5. ASSUME NEW j \in 1..(L - 1)
      PROVE  \E k \in 1..L : k # i /\ p[j] = q[k] /\ (j < n => k < m)
  <2>1. CASE j < i
    <3>1. p[j] = q[j]
      BY <1>1, <1>2, <2>1
    <3>3. j \in 1..L /\ j # i
      BY <2>1
    <3>2. j < n => j < m
      BY <1>2, <1>3, <2>1
    <3> QED BY <3>1, <3>2, <3>3
  <2>2. CASE ~(j < i)
    <3>1. p[j] = q[j + 1] /\ j + 1 \in 1..L /\ j + 1 # i
      BY <1>1, <1>2, <2>2
    <3>2. j < n => j + 1 < m
      BY <1>2, <1>3, <2>2
    <3> QED BY <3>1, <3>2
  <2> QED BY <2>1, <2>2
<1>6. ASSUME NEW j \in 1..(L - 1) PROVE a[p[n]] <= a[p[j]] /\ (j < n => a[p[n]] < a[p[j]])
  <2>1. PICK k \in 1..L : k # i /\ p[j] = q[k] /\ (j < n => k < m)
    BY <1>5
  <2> QED BY <1>2, <1>4, <2>1
<1> QED BY <1>1, <1>2, <1>4, <1>6 DEF Leads, p

\* The node a walk is at, by its place.
LEMMA LeadsAt ==
  ASSUME NEW q, NEW a, NEW t
  PROVE  Leads(q, a, t) <=> \E i \in 1..Len(q) : q[i] = t /\ FirstAt(q, a, i)
  BY DEF Leads, FirstAt

\* The node after the one at place i leads the others, or else the first of the queue.
LEMMA NextAt ==
  ASSUME NEW K \in Nat, K > 0, K % 2 = 0, NEW q \in Seq(Tasks), IsInjective(q),
         NEW a \in [Tasks -> Int], NEW key \in [Tasks -> 0..(K - 1)], NEW tick \in 0..(K - 1),
         KeyedBy(K, q, key, tick, a), NEW i \in 1..Len(q), FirstAt(q, a, i), Len(q) > 1
  PROVE  Leads(RemoveFirst(q, q[i]), a, q[IF i = Len(q) THEN 1 ELSE i + 1])
<1> DEFINE m == IF i = Len(q) THEN 1 ELSE i + 1
<1>1. m \in 1..Len(q) /\ m # i
  OBVIOUS
<1>4. i = Len(q) => m = 1 /\ m < i
  BY <1>1
<1>5. i # Len(q) => m = i + 1 /\ ~(m < i)
  BY <1>1
<1> HIDE DEF m
<1>6. Gaps(K, q, key, a, i)
  BY LeadsGap
<1>2. ASSUME NEW j \in 1..Len(q), j # i
      PROVE  a[q[m]] <= a[q[j]] /\ (j < m => a[q[m]] < a[q[j]])
  <2> DEFINE x == a[q[i]]
             y == a[q[j]]
             z == a[q[m]]
             u == key[q[i]]
             v == key[q[j]]
             w == key[q[m]]
  <2>1. q[i] \in Tasks /\ q[j] \in Tasks /\ q[m] \in Tasks
    <3>1. \A n \in 1..Len(q) : q[n] \in Tasks
      OBVIOUS
    <3> QED BY <1>1, <3>1
  <2>2. x \in Int /\ y \in Int /\ z \in Int
    BY <2>1
  <2>3. u \in 0..(K - 1) /\ v \in 0..(K - 1) /\ w \in 0..(K - 1)
    <3>1. \A s \in Tasks : key[s] \in 0..(K - 1)
      OBVIOUS
    <3> QED BY <2>1, <3>1
  <2>7. y - x = IF j < i THEN v - u + K ELSE v - u
    BY <1>6 DEF Gaps
  <2>8. z - x = IF m < i THEN w - u + K ELSE w - u
    BY <1>1, <1>6 DEF Gaps
  <2>9. m < j => w <= v
    BY <1>1 DEF KeyedBy, Sorted
  <2>10. m = j => w = v
    OBVIOUS
  <2>11. i = Len(q) => m = 1 /\ m < i /\ j < i /\ m <= j
    BY <1>2, <1>4
  <2>12. i # Len(q) => m = i + 1 /\ ~(m < i) /\ (j < m <=> j < i)
    BY <1>2, <1>5
  <2> HIDE DEF x, y, z, u, v, w
  <2>13. z <= y /\ (j < m => z < y)
    <3>1. CASE i = Len(q)
      <4>1. z - x = w - u + K /\ y - x = v - u + K /\ w <= v /\ ~(j < m)
        BY <1>1, <2>2, <2>3, <2>7, <2>8, <2>9, <2>10, <2>11, <3>1
      <4> QED BY <2>2, <2>3, <4>1
    <3>2. CASE i # Len(q) /\ j < i
      <4>1. z - x = w - u /\ y - x = v - u + K
        BY <1>1, <2>7, <2>8, <2>12, <3>2
      <4> QED BY <2>2, <2>3, <2>12, <3>2, <4>1
    <3>3. CASE i # Len(q) /\ ~(j < i)
      <4>1. z - x = w - u /\ y - x = v - u /\ w <= v /\ ~(j < m)
        BY <1>1, <2>2, <2>3, <2>7, <2>8, <2>9, <2>10, <2>12, <3>3
      <4> QED BY <2>2, <2>3, <4>1
    <3> QED BY <3>1, <3>2, <3>3
  <2> QED BY <2>13 DEF x, y, z
<1>3. Leads(RemoveFirst(q, q[i]), a, q[m])
  BY <1>1, <1>2, LeadsWithout
<1> QED BY <1>3 DEF m

\* When the node a walk is at leaves the queue, the walk goes on with the one that is
\* farthest behind then: the next, or the first of the tree.
LEMMA NextLeads ==
  ASSUME NEW K \in Nat, K > 0, K % 2 = 0, NEW q \in Seq(Tasks), IsInjective(q),
         NEW a \in [Tasks -> Int], NEW key \in [Tasks -> 0..(K - 1)], NEW tick \in 0..(K - 1),
         KeyedBy(K, q, key, tick, a), NEW t \in Tasks, Leads(q, a, t), RemoveFirst(q, t) # <<>>
  PROVE  LET p == RemoveFirst(q, t)
             f == Successor(q, t)
         IN  Leads(p, a, IF f = None THEN First(p) ELSE f)
<1> DEFINE p == RemoveFirst(q, t)
           f == Successor(q, t)
<1>1. PICK i \in 1..Len(q) : q[i] = t /\ FirstAt(q, a, i)
  BY LeadsAt
<1>2. /\ p \in Seq(Tasks) /\ Len(p) = Len(q) - 1
      /\ \A j \in 1..(Len(q) - 1) : p[j] = IF j < i THEN q[j] ELSE q[j + 1]
  BY <1>1, RemoveFirstIs
<1>3. f = IF i = Len(q) THEN None ELSE q[i + 1]
  BY <1>1, SuccessorIs
<1>4. p # <<>>
  OBVIOUS
<1> HIDE DEF p, f
<1>5. Len(q) > 1 /\ Len(q) \in Nat
  BY <1>2, <1>4
<1>6. Leads(p, a, q[IF i = Len(q) THEN 1 ELSE i + 1])
  BY <1>1, <1>5, NextAt DEF p
<1>7. (IF f = None THEN First(p) ELSE f) = q[IF i = Len(q) THEN 1 ELSE i + 1]
  <2>1. None \notin Tasks
    BY SchedulerAssumption DEF Tasks
  <2>2. CASE i = Len(q)
    <3>1. 1 \in 1..(Len(q) - 1) /\ 1 < i
      BY <1>5, <2>2
    <3>2. p[1] = q[1]
      BY <1>2, <3>1
    <3> QED BY <1>3, <1>4, <2>2, <3>2 DEF First
  <2>3. CASE i # Len(q)
    <3>1. q[i + 1] \in Tasks
      BY <2>3
    <3> QED BY <1>3, <2>1, <2>3, <3>1
  <2> QED BY <2>2, <2>3
<1> QED BY <1>6, <1>7 DEF p, f

\* The queue without one node is still in order.
LEMMA RestSorted ==
  ASSUME NEW q \in Seq(Tasks), IsInjective(q), NEW key \in [Tasks -> Int], NEW t \in Tasks,
         Sorted(q, key)
  PROVE  Sorted(RemoveFirst(q, t), key)
<1>1. Sorted(RemoveFirst(q, t), [key EXCEPT ![t] = key[t]])
  BY RemoveSorted
<1>2. [key EXCEPT ![t] = key[t]] = key
  OBVIOUS
<1> QED BY <1>1, <1>2

\* What the queue q is like when t is put where key k belongs.
Placed(q, key, k, t, r) ==
  \E n \in 0..Len(q) :
     /\ \A j \in 1..Len(q) : key[q[j]] <= k <=> j <= n
     /\ Len(r) = Len(q) + 1
     /\ \A j \in 1..(Len(q) + 1) :
           r[j] = IF j < n + 1 THEN q[j] ELSE IF j = n + 1 THEN t ELSE q[j - 1]

\* Where the nodes of a queue are when one is added.
LEMMA InsertIs ==
  ASSUME NEW q \in Seq(Tasks), NEW key \in [Tasks -> Int], NEW k \in Int, NEW t \in Tasks,
         Sorted(q, key)
  PROVE  Placed(q, key, k, t, Insert(q, key, t, k))
<1>1. PICK n \in 0..Len(q) :
         /\ n = Cardinality({i \in 1..Len(q) : key[q[i]] <= k})
         /\ \A j \in 1..Len(q) : key[q[j]] <= k <=> j <= n
  BY InsertPlace
<1>2. Insert(q, key, t, k) = InsertAt(q, n + 1, t)
  BY <1>1 DEF Insert
<1>3. PICK m \in 1..(Len(q) + 1) : m = n + 1
  OBVIOUS
<1>4. /\ Len(InsertAt(q, m, t)) = Len(q) + 1
      /\ \A j \in 1..(Len(q) + 1) :
            InsertAt(q, m, t)[j] = IF j < m THEN q[j] ELSE IF j = m THEN t ELSE q[j - 1]
  BY InsertAtIs
<1> QED BY <1>1, <1>2, <1>3, <1>4 DEF Placed

\* A node that is put farther ahead than the one the walk is at stays after it.
LEMMA InsertLeads ==
  ASSUME NEW q \in Seq(Tasks), NEW key \in [Tasks -> Int], NEW k \in Int, NEW t \in Tasks,
         Sorted(q, key), NEW a \in [Tasks -> Int], NEW x \in Int, t \notin ToSet(q), NEW f,
         Leads(q, a, f), key[f] <= k, a[f] <= x
  PROVE  Leads(Insert(q, key, t, k), [a EXCEPT ![t] = x], f)
<1> DEFINE r == Insert(q, key, t, k)
           b == [a EXCEPT ![t] = x]
<1>1. PICK m \in 1..Len(q) : q[m] = f /\ \A j \in 1..Len(q) : a[f] <= a[q[j]] /\ (j < m => a[f] < a[q[j]])
  BY DEF Leads
<1>2. PICK n \in 0..Len(q) :
         /\ \A j \in 1..Len(q) : key[q[j]] <= k <=> j <= n
         /\ Len(r) = Len(q) + 1
         /\ \A j \in 1..(Len(q) + 1) : r[j] = IF j < n + 1 THEN q[j] ELSE IF j = n + 1 THEN t ELSE q[j - 1]
  <2>1. Placed(q, key, k, t, r)
    BY InsertIs
  <2> HIDE DEF r
  <2> QED BY <2>1 DEF Placed
<1> HIDE DEF r
<1>3. m <= n
  BY <1>1, <1>2
<1>4. \A j \in 1..Len(q) : q[j] # t /\ q[j] \in Tasks
  BY InSeq
<1>5. b[t] = x /\ b[f] = a[f] /\ \A j \in 1..Len(q) : b[q[j]] = a[q[j]]
  BY <1>1, <1>4
<1> HIDE DEF b
<1>6. PICK L \in Nat : L = Len(q)
  OBVIOUS
<1>7. m \in 1..L /\ n \in 0..L /\ m \in 1..(L + 1)
  BY <1>6
<1>8. r[m] = f
  <2>1. m < n + 1
    BY <1>3, <1>7
  <2> QED BY <1>1, <1>2, <1>6, <1>7, <2>1
<1>9. ASSUME NEW j \in 1..(L + 1) PROVE b[f] <= b[r[j]] /\ (j < m => b[f] < b[r[j]])
  <2>1. CASE j < n + 1
    <3>1. r[j] = q[j] /\ j \in 1..Len(q)
      BY <1>2, <1>6, <1>7, <2>1
    <3> QED BY <1>1, <1>5, <3>1
  <2>2. CASE j = n + 1
    <3>1. r[j] = t /\ ~(j < m)
      BY <1>2, <1>3, <1>6, <1>7, <2>2
    <3> QED BY <1>5, <3>1
  <2>3. CASE j > n + 1
    <3>1. r[j] = q[j - 1] /\ j - 1 \in 1..Len(q)
      BY <1>2, <1>6, <1>7, <2>3, SMTT(30)
    <3>2. ~(j < m)
      BY <1>3, <1>7, <2>3
    <3> QED BY <1>1, <1>5, <3>1, <3>2
  <2> QED BY <1>7, <2>1, <2>2, <2>3
<1>10. Len(r) = L + 1
  BY <1>2, <1>6
<1> QED BY <1>7, <1>8, <1>9, <1>10 DEF Leads, r, b

\* A node that is behind all others leads them, wherever it is.
LEMMA AloneLeads ==
  ASSUME NEW q \in Seq(Tasks), NEW a \in [Tasks -> Int], NEW t \in ToSet(q),
         \A u \in ToSet(q) : u = t \/ a[t] < a[u]
  PROVE  Leads(q, a, t)
<1>1. \A j \in 1..Len(q) : q[j] \in ToSet(q) /\ q[j] \in Tasks
  BY InSeq
<1>2. PICK k \in 1..Len(q) : q[k] = t /\ \A j \in 1..Len(q) : j < k => q[j] # t
  <2> DEFINE I == {j \in 1..Len(q) : q[j] = t}
             m == Min(I)
  <2>1. I \in SUBSET Nat /\ I # {}
    BY InSeq
  <2>2. m \in I /\ \A j \in I : m <= j
    BY <2>1, LeastIsMin
  <2> HIDE DEF m
  <2>3. m \in 1..Len(q) /\ q[m] = t
    BY <2>2
  <2>4. ASSUME NEW j \in 1..Len(q), j < m PROVE q[j] # t
    BY <2>2, <2>3, <2>4
  <2> QED BY <2>3, <2>4
<1>3. a[t] \in Int
  BY <1>1, <1>2
<1>4. \A j \in 1..Len(q) : a[t] <= a[q[j]] /\ (j < k => a[t] < a[q[j]])
  BY <1>1, <1>2, <1>3
<1> QED BY <1>2, <1>4 DEF Leads

\* A node that is put elsewhere in its queue.
LEMMA PutIn ==
  ASSUME NEW q \in Seq(Tasks), IsInjective(q), NEW t \in Tasks, NEW key, NEW e
  PROVE  LET p == RemoveFirst(q, t)
             r == Insert(p, key, t, e)
         IN  /\ p \in Seq(Tasks) /\ IsInjective(p) /\ ToSet(p) = ToSet(q) \ {t}
             /\ r \in Seq(Tasks) /\ IsInjective(r) /\ ToSet(r) = ToSet(p) \cup {t}
<1> DEFINE p == RemoveFirst(q, t)
<1>1. p \in Seq(Tasks) /\ IsInjective(p) /\ ToSet(p) = ToSet(q) \ {t}
  BY RemoveIn
<1> HIDE DEF p
<1> DEFINE r == Insert(p, key, t, e)
<1>2. r \in Seq(Tasks) /\ IsInjective(r) /\ ToSet(r) = ToSet(p) \cup {t}
  BY <1>1, InsertIn
<1> QED BY <1>1, <1>2 DEF p

\* The node a walk is at moves forward by e - key[t]: the walk goes on with the node that
\* followed it, if that is not farther ahead then, or with the moved node itself.
LEMMA MovedLeads ==
  ASSUME NEW K \in Nat, K > 0, K % 2 = 0, NEW q \in Seq(Tasks), IsInjective(q),
         NEW a \in [Tasks -> Int], NEW key \in [Tasks -> 0..(K - 1)], NEW tick \in 0..(K - 1),
         KeyedBy(K, q, key, tick, a), NEW t \in Tasks, Leads(q, a, t),
         NEW e \in 0..(K - 1), NEW x \in Int, key[t] <= e, x - a[t] = e - key[t]
  PROVE  LET f == Successor(q, t)
         IN  Leads(Insert(RemoveFirst(q, t), key, t, e), [a EXCEPT ![t] = x],
                   IF f = None \/ key[f] > e THEN t ELSE f)
<1> DEFINE p == RemoveFirst(q, t)
           f == Successor(q, t)
           r == Insert(p, key, t, e)
           b == [a EXCEPT ![t] = x]
<1>1. PICK i \in 1..Len(q) : q[i] = t /\ FirstAt(q, a, i)
  BY LeadsAt
<1>2. f = IF i = Len(q) THEN None ELSE q[i + 1]
  BY <1>1, SuccessorIs
<1>3. Gaps(K, q, key, a, i)
  BY <1>1, LeadsGap
<1>4. /\ p \in Seq(Tasks) /\ IsInjective(p) /\ ToSet(p) = ToSet(q) \ {t}
      /\ r \in Seq(Tasks) /\ ToSet(r) = ToSet(p) \cup {t}
  BY PutIn
<1>5. \A j \in 1..Len(q) : q[j] \in Tasks
  OBVIOUS
<1>6. key \in [Tasks -> Int] /\ e \in Int
  OBVIOUS
<1>7. \A j, k \in 1..Len(q) : j < k => key[q[j]] <= key[q[k]]
  BY DEF KeyedBy, Sorted
<1>8. i # Len(q) => i + 1 \in 1..Len(q) /\ f = q[i + 1]
  BY <1>2
<1>9. None \notin Tasks
  BY SchedulerAssumption DEF Tasks
<1>10. ASSUME NEW u \in ToSet(p)
       PROVE  \/ a[u] - a[t] = key[u] - key[t] + K
              \/ f # None /\ a[u] - a[t] = key[u] - key[t] /\ key[f] <= key[u]
  <2>1. PICK j \in 1..Len(q) : q[j] = u
    BY <1>4, InSeq
  <2>2. j # i
    BY <1>1, <1>4, <2>1
  <2>3. a[u] - a[t] = IF j < i THEN key[u] - key[t] + K ELSE key[u] - key[t]
    BY <1>1, <1>3, <2>1 DEF Gaps
  <2>4. CASE j < i
    BY <2>3, <2>4
  <2>5. CASE ~(j < i)
    <3>1. i # Len(q) /\ i + 1 <= j
      BY <2>2, <2>5
    <3>2. f # None
      BY <1>5, <1>8, <1>9, <3>1
    <3>3. key[f] <= key[u]
      <4>1. CASE i + 1 = j
        <5>1. f = u /\ key[u] \in Int
          BY <1>5, <1>6, <1>8, <2>1, <3>1, <4>1
        <5> QED BY <5>1
      <4>2. CASE i + 1 < j
        BY <1>7, <1>8, <2>1, <3>1, <4>2
      <4> QED BY <3>1, <4>1, <4>2
    <3> QED BY <2>3, <2>5, <3>2, <3>3
  <2> QED BY <2>4, <2>5
<1>11. /\ a[t] \in Int /\ key[t] \in 0..(K - 1)
       /\ \A u \in ToSet(p) : u \in Tasks /\ a[u] \in Int /\ key[u] \in 0..(K - 1)
  <2>1. \A s \in Tasks : a[s] \in Int /\ key[s] \in 0..(K - 1)
    OBVIOUS
  <2>2. \A u \in ToSet(p) : u \in Tasks
    <3>1. ToSet(q) \subseteq Tasks
      BY DEF ToSet
    <3> QED BY <1>4, <3>1
  <2> QED BY <2>1, <2>2
<1>12. b[t] = x /\ \A u \in ToSet(p) : b[u] = a[u]
  BY <1>4, <1>11
<1>13. b \in [Tasks -> Int] /\ t \in ToSet(r)
  BY <1>4
<1> HIDE DEF p, f, r, b
<1>14. CASE f = None \/ key[f] > e
  <2>1. ASSUME NEW u \in ToSet(p) PROVE x < a[u]
    <3> DEFINE y == a[t]
               z == a[u]
               k == key[t]
               l == key[u]
    <3>3. y \in Int /\ z \in Int /\ k \in 0..(K - 1) /\ l \in 0..(K - 1)
      BY <1>11
    <3>4. x - y = e - k
      OBVIOUS
    <3>1. CASE a[u] - a[t] = key[u] - key[t] + K
      <4>1. z - y = l - k + K
        BY <3>1
      <4> HIDE DEF y, z, k, l
      <4>2. x < z
        BY <3>3, <3>4, <4>1
      <4> QED BY <4>2 DEF z
    <3>2. CASE f # None /\ a[u] - a[t] = key[u] - key[t] /\ key[f] <= key[u]
      <4>1. f \in Tasks
        BY <1>2, <1>5, <1>8, <3>2
      <4>2. PICK m \in Int : m = key[f]
        BY <1>6, <4>1
      <4>3. z - y = l - k /\ m <= l /\ m > e
        BY <1>14, <3>2, <4>2
      <4> HIDE DEF y, z, k, l
      <4>4. x < z
        BY <3>3, <3>4, <4>3
      <4> QED BY <4>4 DEF z
    <3> QED BY <1>10, <3>1, <3>2
  <2>2. \A u \in ToSet(r) : u = t \/ b[t] < b[u]
    BY <1>4, <1>12, <2>1
  <2>3. Leads(r, b, t)
    BY <1>4, <1>13, <2>2, AloneLeads
  <2> QED BY <1>14, <2>3 DEF r, b, p, f
<1>15. CASE ~(f = None \/ key[f] > e)
  <2>1. i # Len(q) /\ i + 1 \in 1..Len(q) /\ f = q[i + 1] /\ f \in Tasks
    BY <1>2, <1>5, <1>8, <1>15
  <2>2. Len(q) > 1 /\ p # <<>>
    <3>1. f # t
      <4>1. q[i + 1] # q[i]
        <5>1. i + 1 # i /\ DOMAIN q = 1..Len(q)
          OBVIOUS
        <5> QED BY <2>1, <5>1 DEF IsInjective
      <4> QED BY <1>1, <2>1, <4>1, ZenonT(30)
    <3>2. f \in ToSet(p)
      BY <1>4, <2>1, <3>1, InSeq
    <3>3. p # <<>>
      BY <3>2 DEF ToSet
    <3> QED BY <2>1, <3>3
  <2>3. Leads(p, a, f)
    BY <1>15, <2>2, NextLeads DEF p, f
  <2>4. key[f] <= e
    <3>1. PICK m \in Int : m = key[f]
      BY <1>6, <2>1
    <3>2. ~(m > e)
      BY <1>15, <3>1
    <3> QED BY <3>1, <3>2
  <2>5. a[f] <= x
    <3>1. ~(i + 1 < i)
      OBVIOUS
    <3>2. a[f] - a[t] = key[f] - key[t]
      BY <1>1, <1>3, <2>1, <3>1 DEF Gaps
    <3> DEFINE y == a[t]
               z == a[f]
               k == key[t]
               m == key[f]
    <3>3. y \in Int /\ z \in Int /\ k \in Int /\ m \in Int
      BY <1>6, <1>11, <2>1
    <3>4. z - y = m - k /\ m <= e /\ x - y = e - k
      BY <2>4, <3>2
    <3> HIDE DEF y, z, k, m
    <3>5. z <= x
      BY <3>3, <3>4
    <3> QED BY <3>5 DEF z
  <2>6. Sorted(p, key)
    BY <1>6, RestSorted DEF p, KeyedBy
  <2>7. t \notin ToSet(p)
    BY <1>4
  <2>8. Leads(r, b, f)
    BY <1>4, <1>6, <2>3, <2>4, <2>5, <2>6, <2>7, InsertLeads DEF r, b
  <2> QED BY <1>15, <2>8 DEF r, b, p, f
<1> QED BY <1>14, <1>15

\* The sign of a difference tells how far a node is from where the count has come to.
LEMMA SignedAt ==
  ASSUME NEW K \in Nat, K > 0, K % 2 = 0, NEW tick \in 0..(K - 1), NEW x \in Int, NEW v \in Int,
         At(K, tick, x, v), -(K \div 2) <= x, x < K \div 2
  PROVE  Signed(v - tick, K) = x
<1>1. At(K, tick, 0, tick)
  BY DEF At
<1>2. -(K \div 2) <= x - 0 /\ x - 0 < K \div 2
  OBVIOUS
<1>3. Signed(v - tick, K) = x - 0
  BY <1>1, <1>2, Apart
<1> QED BY <1>3

\* A key is where its sign tells.
LEMMA AtSigned ==
  ASSUME NEW K \in Nat, K > 0, K % 2 = 0, NEW tick \in Int, NEW v \in 0..(K - 1)
  PROVE  /\ At(K, tick, Signed(v - tick, K), v) /\ Signed(v - tick, K) \in Int
         /\ -(K \div 2) <= Signed(v - tick, K) /\ Signed(v - tick, K) < K \div 2
<1>1. v - tick \in Int
  OBVIOUS
<1> QED BY <1>1, SignedBack, SignedType DEF At

\* When the count moves on, the nodes are that much nearer.
LEMMA AtPasses ==
  ASSUME NEW K \in Nat, K > 0, NEW tick \in Int, NEW x \in Int, NEW v, NEW by \in Int,
         At(K, tick, x, v)
  PROVE  At(K, (tick + by) % K, x - by, v)
<1> DEFINE m == (tick + by) % K
           n == (tick + by) \div K
           k == (tick + x) % K
           l == (tick + x) \div K
<1>1. m \in Int /\ n \in Int /\ k \in 0..(K - 1) /\ l \in Int
      /\ tick + by = n * K + m /\ tick + x = l * K + k
  OBVIOUS
<1> HIDE DEF m, n, k, l
<1>2. PICK d \in Int : d = l - n
  BY <1>1
<1>3. m + (x - by) = d * K + k
  <2>1. d * K = l * K - n * K /\ l * K \in Int /\ n * K \in Int
    BY <1>1, <1>2
  <2> QED BY <1>1, <2>1
<1>4. PICK z \in Int : z = m + (x - by)
  BY <1>1
<1>5. z % K = k
  <2>1. z = d * K + k /\ k \in 0..(K - 1)
    BY <1>1, <1>3, <1>4
  <2> QED BY <2>1, ModIs
<1> QED BY <1>4, <1>5 DEF At, m, k

\* How many rounds of the loop may begin before a queued task runs: every round runs a task
\* that is in front of it, or one that was woken up since; the latter can only be while the
\* task is not yet D places behind the insertion counter.
Turns(D, q, a, t) ==
  Cardinality(InFront(q, a, t)) + (IF a[t] + D + 1 > 0 THEN a[t] + D + 1 ELSE 0)

\* The most turns a queued task may have to wait.
Most(D) == Crowd + 2 * D + 1

\* The turns of a queued task are a number with a bound.
LEMMA TurnsIs ==
  ASSUME IsFiniteSet(Tasks), NEW D \in Nat, NEW q, Queue(q), NEW a \in [Tasks -> Int],
         NEW t \in ToSet(q), a[t] <= D
  PROVE  Turns(D, q, a, t) \in 1..Most(D) /\ Most(D) \in Nat /\ Crowd \in Nat
<1>1. Cardinality(InFront(q, a, t)) \in 1..Crowd /\ a[t] \in Int /\ Crowd \in Nat
  BY FrontIs
<1> DEFINE c == Cardinality(InFront(q, a, t))
<1> HIDE DEF c
<1>2. c \in 1..Crowd
  BY <1>1 DEF c
<1>3. c + (IF a[t] + D + 1 > 0 THEN a[t] + D + 1 ELSE 0) \in 1..(Crowd + 2 * D + 1)
  BY <1>1, <1>2
<1> QED BY <1>1, <1>3 DEF Turns, Most, c

\* A task that is woken up puts off no other one.
LEMMA TurnsWoken ==
  ASSUME IsFiniteSet(Tasks), NEW D \in Nat, NEW q, Queue(q), NEW p, Queue(p),
         NEW a \in [Tasks -> Int], NEW b \in [Tasks -> Int], NEW t \in Tasks, t \notin ToSet(q),
         ToSet(p) = ToSet(q) \cup {t}, -D <= b[t], \A v \in ToSet(q) : b[v] = a[v] - 1,
         NEW u \in ToSet(q)
  PROVE  Turns(D, p, b, u) <= Turns(D, q, a, u)
<1> DEFINE c == Cardinality(InFront(q, a, u))
           d == Cardinality(InFront(p, b, u))
<1>1. /\ IsFiniteSet(InFront(q, a, u)) /\ c \in 1..Crowd /\ d \in 1..Crowd /\ Crowd \in Nat
      /\ a[u] \in Int /\ b[u] \in Int
  BY FrontIs
<1>2. b[u] = a[u] - 1 /\ b[t] \in Int /\ u \in Tasks
  BY QueueSize
<1>3. \A v \in ToSet(q) : a[v] \in Int /\ b[v] = a[v] - 1
  BY QueueSize
<1>4. CASE b[t] <= b[u]
  <2>1. InFront(p, b, u) = InFront(q, a, u) \cup {t}
    BY <1>1, <1>3, <1>4 DEF InFront
  <2>2. d <= c + 1
    <3>1. t \notin InFront(q, a, u)
      BY DEF InFront
    <3>2. Cardinality(InFront(q, a, u) \cup {t}) = Cardinality(InFront(q, a, u)) + 1
      BY <1>1, <3>1, FS_AddElement
    <3> QED BY <1>1, <2>1, <3>2
  <2> HIDE DEF c, d
  <2>3. d + (IF b[u] + D + 1 > 0 THEN b[u] + D + 1 ELSE 0)
          <= c + (IF a[u] + D + 1 > 0 THEN a[u] + D + 1 ELSE 0)
    BY <1>1, <1>2, <1>4, <2>2
  <2> QED BY <2>3 DEF Turns, c, d
<1>5. CASE ~(b[t] <= b[u])
  <2>1. InFront(p, b, u) = InFront(q, a, u)
    BY <1>1, <1>3, <1>5 DEF InFront
  <2>2. d = c
    BY <2>1
  <2> HIDE DEF c, d
  <2>3. d + (IF b[u] + D + 1 > 0 THEN b[u] + D + 1 ELSE 0)
          <= c + (IF a[u] + D + 1 > 0 THEN a[u] + D + 1 ELSE 0)
    BY <1>1, <1>2, <2>2
  <2> QED BY <2>3 DEF Turns, c, d
<1> QED BY <1>4, <1>5

\* A task that leaves the queue puts off no other one, and brings those it was in front of
\* one round nearer.
LEMMA TurnsLeft ==
  ASSUME IsFiniteSet(Tasks), NEW D \in Nat, NEW q, Queue(q), NEW p, Queue(p),
         NEW a \in [Tasks -> Int], NEW b \in [Tasks -> Int], NEW t \in Tasks,
         ToSet(p) = ToSet(q) \ {t}, \A v \in ToSet(p) : b[v] = a[v], NEW u \in ToSet(p)
  PROVE  /\ Turns(D, p, b, u) <= Turns(D, q, a, u)
         /\ t \in ToSet(q) /\ a[t] <= a[u] => Turns(D, p, b, u) <= Turns(D, q, a, u) - 1
<1> DEFINE c == Cardinality(InFront(q, a, u))
           d == Cardinality(InFront(p, b, u))
<1>1. /\ IsFiniteSet(InFront(q, a, u)) /\ c \in 1..Crowd /\ d \in 1..Crowd /\ Crowd \in Nat
      /\ a[u] \in Int /\ b[u] \in Int
  BY FrontIs
<1>2. b[u] = a[u]
  OBVIOUS
<1>3. InFront(p, b, u) = InFront(q, a, u) \ {t}
  BY DEF InFront
<1>4. d <= c
  BY <1>1, <1>3, FS_Subset
<1>5. t \in ToSet(q) /\ a[t] <= a[u] => d <= c - 1
  <2> SUFFICES ASSUME t \in ToSet(q), a[t] <= a[u] PROVE d <= c - 1
    OBVIOUS
  <2>1. t \in InFront(q, a, u)
    BY DEF InFront
  <2>2. Cardinality(InFront(q, a, u) \ {t}) = Cardinality(InFront(q, a, u)) - 1
    BY <1>1, <2>1, FS_RemoveElement
  <2>3. d = c - 1
    BY <1>3, <2>2
  <2> HIDE DEF c, d
  <2> QED BY <1>1, <2>3
<1> HIDE DEF c, d
<1> DEFINE m == d + (IF b[u] + D + 1 > 0 THEN b[u] + D + 1 ELSE 0)
           n == c + (IF a[u] + D + 1 > 0 THEN a[u] + D + 1 ELSE 0)
<1>6. m <= n
  BY <1>1, <1>2, <1>4
<1>7. d <= c - 1 => m <= n - 1
  BY <1>1, <1>2
<1>8. Turns(D, p, b, u) = m /\ Turns(D, q, a, u) = n
  BY DEF Turns, c, d
<1> HIDE DEF m, n
<1> QED BY <1>5, <1>6, <1>7, <1>8

\* The most by which now_ms moves on in one round of the loop.
Lag == 2 * MaxDelay - 1

\* How far behind a task may leave its date when it returns.
Extra == [t \in Tasks |-> IF t \in syncs THEN MaxLesson ELSE 0]

\* The longest a task that has a date may be late: as far as a lesson leaves it behind;
\* until its timer is found expired, as many rounds as there are tasks; from then on,
\* those it waits to run.
Late(D) == MaxLesson + Lag * (Crowd + Most(D))

(***************************************************************************)
(* Half of the ticks holds the longest delay and the longest lateness.     *)
(* With 2^32 milliseconds, MAX_DELAY_MS of a second and nice values in     *)
(* -1024..1024 that leaves room for thousands of tasks, and for lessons    *)
(* whose teacher is silent for days.                                       *)
(***************************************************************************)
Timely(D) ==
  /\ Wide(D)
  /\ \A d \in Timeouts : Late(D) + d + 1 < TickRange \div 2

\* No task waits longer than for a timeout; a date that would be 0 is one tick later.
Near(x) == \E d \in Timeouts : x <= d + 1

\* A date that is x ticks away.
InTime(D, x, date) ==
  x \in Int /\ -Late(D) <= x /\ Near(x) /\ date \in Int /\ At(TickRange, now, x, date)

\* How far away the dates are that the wait queue is sorted by.
Dist(key, tick) == [t \in Tasks |-> Signed(key[t] - tick, TickRange)]

\* How far away the timers in the wait queue are.
Off == Dist(wqkey, now)

\* The numbers there are to reckon with.
LEMMA TimelyIs ==
  ASSUME NEW D, Timely(D)
  PROVE  /\ Wide(D) /\ D \in Nat /\ IsFiniteSet(Tasks) /\ Crowd \in Nat /\ Most(D) \in Nat
         /\ Lag \in Nat /\ Late(D) \in Nat /\ Lag * Crowd \in Nat /\ MaxLesson \in Nat
         /\ Lag * Crowd + MaxLesson <= Late(D)
         /\ MaxLesson + Lag * (Crowd + Most(D)) = Late(D) /\ MaxDelay \in Nat
<1>1. Wide(D) /\ D \in Nat /\ IsFiniteSet(Tasks) /\ Crowd \in Nat
  BY WideIs DEF Timely
<1>2. MaxDelay \in Nat /\ Lag \in Nat /\ MaxLesson \in Nat
  BY SchedulerAssumption DEF Lag
<1>3. Most(D) \in Nat
  BY <1>1 DEF Most
<1>4. PICK l \in Nat, c \in Nat, m \in Nat : l = Lag /\ c = Crowd /\ m = Most(D)
  BY <1>1, <1>2, <1>3
<1>5. l * c \in Nat /\ l * m \in Nat /\ l * (c + m) = l * c + l * m
  BY <1>4
<1>6. Late(D) = MaxLesson + l * (c + m)
  BY <1>4 DEF Late
<1> QED BY <1>1, <1>2, <1>3, <1>4, <1>5, <1>6

\* What the assumptions on the constants say of dates.
LEMMA TicksAre ==
  /\ TickRange \in Nat /\ TickRange > 1 /\ TickRange % 2 = 0 /\ TickRange \div 2 \in Nat
  /\ 2 * (TickRange \div 2) = TickRange /\ 0 \in Ticks /\ Eternity = 0
  /\ Timeouts \subseteq Nat /\ Ticks \subseteq Int /\ \A d \in Timeouts : d >= 1
  BY SchedulerAssumption DEF Ticks, Eternity

\* The comparisons of ticks.h tell which of two dates comes first ...
LEMMA Compares ==
  ASSUME NEW D, Timely(D), NEW x, NEW y, NEW v, NEW w, InTime(D, x, v), InTime(D, y, w),
         now \in Ticks
  PROVE  Signed(v - w, TickRange) = x - y /\ (TickIsLt(v, w) <=> x < y)
<1> DEFINE h == TickRange \div 2
<1>1. PICK d \in Timeouts : x <= d + 1
  BY DEF InTime, Near
<1>2. PICK e \in Timeouts : y <= e + 1
  BY DEF InTime, Near
<1>3. d \in Int /\ e \in Int /\ h \in Int
  BY TicksAre
<1>4. PICK l \in Int : l = Late(D) /\ l + d + 1 < h /\ l + e + 1 < h
  <2>1. Late(D) \in Int
    BY TimelyIs
  <2> QED BY <2>1 DEF Timely
<1>5. x \in Int /\ y \in Int /\ -l <= x /\ -l <= y
  BY <1>4 DEF InTime
<1> HIDE DEF h
<1>6. -h <= x - y /\ x - y < h
  BY <1>1, <1>2, <1>3, <1>4, <1>5
<1>7. now \in Int /\ v \in Int /\ w \in Int /\ At(TickRange, now, x, v) /\ At(TickRange, now, y, w)
  BY TicksAre DEF InTime
<1>8. Signed(v - w, TickRange) = x - y
  BY <1>5, <1>6, <1>7, TicksAre, Apart DEF h
<1> QED BY <1>5, <1>8 DEF TickIsLt

\* ... and whether a date has passed.
LEMMA Passes ==
  ASSUME NEW D, Timely(D), NEW x, NEW v, InTime(D, x, v), now \in Ticks
  PROVE  /\ Signed(v - now, TickRange) = x
         /\ TickIsLt(now, v) <=> 0 < x
         /\ TickIsExpired(v, now) <=> v # Eternity /\ x <= 0
<1>1. PICK d \in Timeouts : x <= d + 1
  BY DEF InTime, Near
<1>2. PICK l \in Int : l = Late(D)
  BY TimelyIs
<1>3. InTime(D, 0, now)
  <2>1. 0 <= d + 1 /\ -Late(D) <= 0
    BY TicksAre, TimelyIs
  <2>2. At(TickRange, now, 0, now)
    <3>1. now \in 0..(TickRange - 1)
      BY DEF Ticks
    <3> QED BY <3>1, TicksAre DEF At
  <2> QED BY <2>1, <2>2, TicksAre DEF InTime, Near
<1>4. x \in Int
  BY DEF InTime
<1>5. Signed(v - now, TickRange) = x - 0
  BY <1>3, Compares
<1>6. TickIsLt(now, v) <=> 0 < x
  BY <1>3, Compares
<1> QED BY <1>4, <1>5, <1>6 DEF TickIsExpired

\* The distances are where the keys are.
LEMMA DistIs ==
  ASSUME NEW key \in [Tasks -> Ticks], NEW tick \in Ticks
  PROVE  /\ Dist(key, tick) \in [Tasks -> Int]
         /\ \A t \in Tasks : /\ At(TickRange, tick, Dist(key, tick)[t], key[t])
                             /\ -(TickRange \div 2) <= Dist(key, tick)[t]
                             /\ Dist(key, tick)[t] < TickRange \div 2
<1>1. TickRange \in Nat /\ TickRange > 0 /\ TickRange % 2 = 0 /\ tick \in Int
  BY SchedulerAssumption DEF Ticks
<1>2. ASSUME NEW t \in Tasks
      PROVE  /\ At(TickRange, tick, Signed(key[t] - tick, TickRange), key[t])
             /\ Signed(key[t] - tick, TickRange) \in Int
             /\ -(TickRange \div 2) <= Signed(key[t] - tick, TickRange)
             /\ Signed(key[t] - tick, TickRange) < TickRange \div 2
  <2>1. PICK v \in 0..(TickRange - 1) : v = key[t]
    BY DEF Ticks
  <2> QED BY <1>1, <2>1, AtSigned
<1>3. \A t \in Tasks : Dist(key, tick)[t] = Signed(key[t] - tick, TickRange)
  BY DEF Dist
<1>4. Dist(key, tick) \in [Tasks -> Int]
  BY <1>2 DEF Dist
<1> QED BY <1>2, <1>3, <1>4

\* The tree of the timers goes round at most once.
LEMMA DistKeyed ==
  ASSUME NEW q, Queue(q), NEW key \in [Tasks -> Ticks], NEW tick \in Ticks, Sorted(q, key)
  PROVE  KeyedBy(TickRange, q, key, tick, Dist(key, tick))
<1>1. \A t \in ToSet(q) : t \in Tasks
  BY InSeq DEF Queue
<1>2. \A t \in Tasks : /\ At(TickRange, tick, Dist(key, tick)[t], key[t])
                       /\ -(TickRange \div 2) <= Dist(key, tick)[t]
                       /\ Dist(key, tick)[t] < TickRange \div 2
  BY DistIs
<1> QED BY <1>1, <1>2 DEF KeyedBy, At

\* What the wait queue is sorted by are dates, none farther away than a timeout.
Waits(q, key, a) == Sorted(q, key) /\ \A u \in ToSet(q) : key[u] # Eternity /\ Near(a[u])

\* The tasks that are in the wait queue, or may go back to it with the date they had ...
Waiting == ToSet(timers) \cup {t \in syncs : expire[t] # Eternity}

\* ... and how far away they are.
Stand == [t \in Tasks |-> IF t \in ToSet(timers) THEN Off[t] ELSE remain[t]]

\* Those in Q have room for r more ticks, and for a round of the loop less for each one of W
\* that is not after them.
Eased(Q, a, e, W, s, r) ==
  \A t \in Q : r <= a[t] + e[t] + Lag * (Crowd + 1 - Cardinality({u \in W : s[u] <= a[t]}))

\* Every timer has room for r more ticks before the range ends.
Room(r) == Eased(ToSet(timers), Off, Extra, Waiting, Stand, r)

\* There are never more in front of a task than there are tasks.
LEMMA EasedFront ==
  ASSUME IsFiniteSet(Tasks), NEW F, F \subseteq Tasks
  PROVE  IsFiniteSet(F) /\ Crowd \in Nat /\ Cardinality(F) \in 0..Crowd
  BY FS_Subset, FS_CardinalityType DEF Crowd

\* A date that is to come, or not too late, has room; so have those that stay where they
\* are, if others come only to where there is nothing to lose.
LEMMA EasedKept ==
  ASSUME IsFiniteSet(Tasks), Lag \in Nat, NEW Q, NEW P, NEW W, NEW V, Q \subseteq Tasks,
         P \subseteq Tasks, W \subseteq Tasks, V \subseteq Tasks, NEW a \in [Tasks -> Int],
         NEW b \in [Tasks -> Int], NEW e \in [Tasks -> Nat], NEW s \in [Tasks -> Int],
         NEW z \in [Tasks -> Int], \A u \in P : 0 <= b[u] + e[u] \/ (u \in Q /\ b[u] = a[u]),
         \A v \in V : 0 <= z[v] \/ (v \in W /\ s[v] <= z[v]),
         NEW r \in Int, NEW m \in Int, m <= r, m <= Lag, Eased(Q, a, e, W, s, r)
  PROVE  Eased(P, b, e, V, z, m)
<1> SUFFICES ASSUME NEW u \in P
             PROVE  m <= b[u] + e[u] + Lag * (Crowd + 1 - Cardinality({v \in V : z[v] <= b[u]}))
  BY DEF Eased
<1> DEFINE F == {v \in W : s[v] <= b[u]}
           G == {v \in V : z[v] <= b[u]}
<1>0. F \subseteq Tasks /\ G \subseteq Tasks
  OBVIOUS
<1> HIDE DEF F, G
<1>1. /\ IsFiniteSet(F) /\ IsFiniteSet(G) /\ Crowd \in Nat
      /\ Cardinality(F) \in 0..Crowd /\ Cardinality(G) \in 0..Crowd
  BY <1>0, EasedFront
<1>2. PICK l \in Nat, k \in Nat, n \in Nat :
         l = Lag /\ k = Crowd + 1 - Cardinality(F) /\ n = Crowd + 1 - Cardinality(G) /\ n >= 1
  BY <1>1
<1>3. PICK x \in Int, y \in Nat : x = b[u] /\ y = e[u]
  OBVIOUS
<1>4. l * k \in Nat /\ l * n \in Nat /\ l <= l * n
  BY <1>2
<1>5. CASE 0 <= b[u] + e[u]
  <2>1. m <= x + y + l * n
    BY <1>2, <1>3, <1>4, <1>5
  <2> QED BY <1>2, <1>3, <2>1 DEF G
<1>6. CASE ~(0 <= b[u] + e[u])
  <2>1. u \in Q /\ b[u] = a[u] /\ b[u] < 0
    BY <1>3, <1>6
  <2>2. G \subseteq F
    <3> SUFFICES ASSUME NEW v \in G PROVE v \in F
      OBVIOUS
    <3>1. v \in V /\ v \in Tasks /\ z[v] <= b[u] /\ z[v] \in Int
      BY DEF G
    <3>2. ~(0 <= z[v])
      BY <1>3, <2>1, <3>1
    <3>3. v \in W /\ s[v] <= z[v] /\ s[v] \in Int
      BY <3>1, <3>2
    <3> QED BY <1>3, <3>1, <3>3 DEF F
  <2>3. Cardinality(G) <= Cardinality(F)
    BY <1>1, <2>2, FS_Subset
  <2>4. k <= n
    BY <1>1, <1>2, <2>3
  <2>5. l * k <= l * n
    BY <1>2, <2>4
  <2>6. r <= x + y + l * k
    BY <1>2, <1>3, <2>1 DEF Eased, F
  <2>7. m <= x + y + l * n
    BY <1>3, <1>4, <2>5, <2>6
  <2> QED BY <1>2, <1>3, <2>7 DEF G
<1> QED BY <1>5, <1>6

\* Who has room for a round of the loop has room for none.
LEMMA EasedLess ==
  ASSUME IsFiniteSet(Tasks), Lag \in Nat, NEW Q, NEW W, Q \subseteq Tasks, W \subseteq Tasks,
         NEW a \in [Tasks -> Int], NEW e \in [Tasks -> Nat], NEW s \in [Tasks -> Int],
         Eased(Q, a, e, W, s, Lag)
  PROVE  Eased(Q, a, e, W, s, 0)
<1>1. \A u \in Q : 0 <= a[u] + e[u] \/ (u \in Q /\ a[u] = a[u])
  OBVIOUS
<1>2. \A v \in W : 0 <= s[v] \/ (v \in W /\ s[v] <= s[v])
  OBVIOUS
<1>3. Lag \in Int /\ 0 \in Int /\ 0 <= Lag
  OBVIOUS
<1> QED BY <1>1, <1>2, <1>3, EasedKept

\* When the one that is farthest behind has left, or is to come, all others have room for a
\* round of the loop.
LEMMA EasedGained ==
  ASSUME IsFiniteSet(Tasks), Lag \in Nat, NEW Q, NEW P, NEW W, NEW V, Q \subseteq Tasks,
         P \subseteq Tasks, W \subseteq Tasks, V \subseteq Tasks, NEW a \in [Tasks -> Int],
         NEW b \in [Tasks -> Int], NEW e \in [Tasks -> Nat], NEW s \in [Tasks -> Int],
         NEW z \in [Tasks -> Int], \A u \in P : 0 <= b[u] + e[u] \/ (u \in Q /\ b[u] = a[u]),
         \A v \in V : 0 <= z[v] \/ (v \in W /\ s[v] <= z[v]),
         NEW t \in W, \A u \in Q : s[t] <= a[u], t \notin V \/ 0 <= z[t],
         Eased(Q, a, e, W, s, 0)
  PROVE  Eased(P, b, e, V, z, Lag)
<1> SUFFICES ASSUME NEW u \in P
             PROVE  Lag <= b[u] + e[u] + Lag * (Crowd + 1 - Cardinality({v \in V : z[v] <= b[u]}))
  BY DEF Eased
<1> DEFINE F == {v \in W : s[v] <= b[u]}
           G == {v \in V : z[v] <= b[u]}
<1>0. F \subseteq Tasks /\ G \subseteq Tasks
  OBVIOUS
<1> HIDE DEF F, G
<1>1. /\ IsFiniteSet(F) /\ IsFiniteSet(G) /\ Crowd \in Nat
      /\ Cardinality(F) \in 0..Crowd /\ Cardinality(G) \in 0..Crowd
  BY <1>0, EasedFront
<1>2. PICK l \in Nat, k \in Nat, n \in Nat :
         l = Lag /\ k = Crowd + 1 - Cardinality(F) /\ n = Crowd + 1 - Cardinality(G) /\ n >= 1
  BY <1>1
<1>3. PICK x \in Int, y \in Nat : x = b[u] /\ y = e[u]
  OBVIOUS
<1>4. l * k \in Nat /\ l * n \in Nat /\ l <= l * n
  BY <1>2
<1>5. CASE 0 <= b[u] + e[u]
  <2>1. l <= x + y + l * n
    BY <1>3, <1>4, <1>5
  <2> QED BY <1>2, <1>3, <2>1 DEF G
<1>6. CASE ~(0 <= b[u] + e[u])
  <2>1. u \in Q /\ b[u] = a[u] /\ b[u] < 0
    BY <1>3, <1>6
  <2>2. G \subseteq F \ {t}
    <3> SUFFICES ASSUME NEW v \in G PROVE v \in F \ {t}
      OBVIOUS
    <3>1. v \in V /\ v \in Tasks /\ z[v] <= b[u] /\ z[v] \in Int
      BY DEF G
    <3>2. ~(0 <= z[v])
      BY <1>3, <2>1, <3>1
    <3>3. v \in W /\ s[v] <= z[v] /\ s[v] \in Int /\ v # t
      BY <3>1, <3>2
    <3> QED BY <1>3, <3>1, <3>3 DEF F
  <2>3. t \in F
    BY <2>1 DEF F
  <2>4. Cardinality(F \ {t}) = Cardinality(F) - 1 /\ IsFiniteSet(F \ {t})
    BY <1>1, <2>3, FS_RemoveElement
  <2>5. Cardinality(G) <= Cardinality(F \ {t})
    BY <2>2, <2>4, FS_Subset
  <2>6. k + 1 <= n
    BY <1>1, <1>2, <2>4, <2>5
  <2>7. l * (k + 1) <= l * n
    BY <1>2, <2>6
  <2>8. l * (k + 1) = l * k + l
    BY <1>2
  <2>9. 0 <= x + y + l * k
    BY <1>2, <1>3, <2>1 DEF Eased, F
  <2>10. l <= x + y + l * n
    BY <1>3, <1>4, <2>7, <2>8, <2>9
  <2> QED BY <1>2, <1>3, <2>10 DEF G
<1> QED BY <1>5, <1>6

\* Time that passes uses up the room there is.
LEMMA EasedPassed ==
  ASSUME IsFiniteSet(Tasks), Lag \in Nat, NEW Q, NEW W, Q \subseteq Tasks, W \subseteq Tasks,
         NEW a \in [Tasks -> Int], NEW b \in [Tasks -> Int], NEW e \in [Tasks -> Nat],
         NEW s \in [Tasks -> Int], NEW z \in [Tasks -> Int], NEW by \in Int,
         \A u \in Q : b[u] = a[u] - by, \A v \in W : z[v] = s[v] - by,
         NEW r \in Int, Eased(Q, a, e, W, s, r)
  PROVE  Eased(Q, b, e, W, z, r - by)
<1> SUFFICES ASSUME NEW u \in Q
             PROVE  r - by <= b[u] + e[u] + Lag * (Crowd + 1 - Cardinality({v \in W : z[v] <= b[u]}))
  BY DEF Eased
<1> DEFINE F == {v \in W : s[v] <= a[u]}
<1>0. F \subseteq Tasks
  OBVIOUS
<1> HIDE DEF F
<1>1. Crowd \in Nat /\ Cardinality(F) \in 0..Crowd
  BY <1>0, EasedFront
<1>2. PICK l \in Nat, k \in Nat : l = Lag /\ k = Crowd + 1 - Cardinality(F)
  <2>1. Crowd + 1 - Cardinality(F) \in Nat
    BY <1>1
  <2> QED BY <2>1
<1>3. PICK x \in Int, y \in Nat : x = a[u] /\ y = e[u] /\ b[u] = x - by
  OBVIOUS
<1>4. \A v \in W : z[v] = s[v] - by /\ s[v] \in Int
  OBVIOUS
<1>5. {v \in W : z[v] <= b[u]} = F
  BY <1>3, <1>4 DEF F
<1>6. r <= x + y + l * k
  BY <1>2, <1>3 DEF Eased, F
<1>7. l * k \in Nat
  BY <1>2
<1>8. r - by <= (x - by) + y + l * k
  BY <1>3, <1>6, <1>7
<1> QED BY <1>2, <1>3, <1>5, <1>8

\* How far behind a timer may be.
LEMMA EasedBound ==
  ASSUME IsFiniteSet(Tasks), Lag \in Nat, NEW Q, NEW W, Q \subseteq W, W \subseteq Tasks,
         NEW a \in [Tasks -> Int], NEW e \in [Tasks -> Nat], NEW s \in [Tasks -> Int],
         \A u \in Q : s[u] = a[u], Eased(Q, a, e, W, s, 0), NEW u \in Q
  PROVE  -(Lag * Crowd) <= a[u] + e[u]
<1> DEFINE F == {v \in W : s[v] <= a[u]}
<1>0. F \subseteq Tasks
  OBVIOUS
<1> HIDE DEF F
<1>1. Crowd \in Nat /\ IsFiniteSet(F) /\ Cardinality(F) \in 0..Crowd
  BY <1>0, EasedFront
<1>2. PICK x \in Int, y \in Nat : x = a[u] /\ y = e[u]
  OBVIOUS
<1>3. u \in F
  BY <1>2 DEF F
<1>4. Cardinality(F) # 0
  BY <1>1, <1>3, FS_EmptySet
<1>5. PICK l \in Nat, c \in Nat, k \in Nat : l = Lag /\ c = Crowd /\ k = Crowd + 1 - Cardinality(F) /\ k <= c
  BY <1>1, <1>4
<1>6. 0 <= x + y + l * k
  BY <1>2, <1>5 DEF Eased, F
<1>7. l * k <= l * c /\ l * k \in Nat /\ l * c \in Nat
  BY <1>5
<1>8. -(l * c) <= x + y
  BY <1>2, <1>6, <1>7
<1> QED BY <1>2, <1>5, <1>8

\* What the room is reckoned with ...
LEMMA RoomIs ==
  ASSUME NEW D, Timely(D), WqOK, now \in Ticks, SyncsOK, remain \in [Tasks -> Int]
  PROVE  /\ Off \in [Tasks -> Int] /\ Stand \in [Tasks -> Int] /\ Extra \in [Tasks -> Nat]
         /\ ToSet(timers) \subseteq Waiting /\ Waiting \subseteq Tasks
         /\ \A u \in ToSet(timers) : Stand[u] = Off[u]
         /\ IsFiniteSet(Tasks) /\ Lag \in Nat
<1>1. Off \in [Tasks -> Int]
  BY DistIs DEF WqOK, Off
<1>2. IsFiniteSet(Tasks) /\ Lag \in Nat /\ MaxLesson \in Nat
  BY TimelyIs
<1>3. ToSet(timers) \subseteq Tasks
  BY <1>2, QueueSize DEF WqOK
<1> QED BY <1>1, <1>2, <1>3 DEF Stand, Extra, Waiting, SyncsOK, Tasks

\* ... before a step and after it.
LEMMA RoomNext ==
  ASSUME NEW D, Timely(D), WqOK', now' \in Ticks, SyncsOK, syncs' = syncs,
         remain' \in [Tasks -> Int]
  PROVE  /\ Off' \in [Tasks -> Int] /\ Stand' \in [Tasks -> Int] /\ Extra' = Extra
         /\ ToSet(timers') \subseteq Waiting' /\ Waiting' \subseteq Tasks
         /\ \A u \in ToSet(timers') : Stand'[u] = Off'[u]
<1>1. Off' \in [Tasks -> Int]
  <2>1. wqkey' \in [Tasks -> Ticks]
    BY DEF WqOK
  <2>2. PICK n \in Ticks : n = now'
    OBVIOUS
  <2>3. Dist(wqkey', n) \in [Tasks -> Int]
    BY <2>1, DistIs
  <2>4. Off' = Dist(wqkey', n)
    BY <2>2 DEF Off, Dist
  <2> QED BY <2>3, <2>4
<1>2. IsFiniteSet(Tasks)
  BY TimelyIs
<1>3. ToSet(timers') \subseteq Tasks
  BY <1>2, QueueSize DEF WqOK
<1> QED BY <1>1, <1>3 DEF Stand, Extra, Waiting, SyncsOK, Tasks

\* A step that gives one task another place, to come or not farther behind, leaves the others
\* their room, and gives them more when that task was farthest behind.
LEMMA MovedRoom ==
  ASSUME NEW D, Timely(D), WqOK, WqOK', now \in Ticks, now' \in Ticks, SyncsOK, syncs' = syncs,
         remain \in [Tasks -> Int], remain' \in [Tasks -> Int], NEW t \in Tasks,
         \A u \in Tasks \ {t} : /\ Off'[u] = Off[u] /\ (u \in ToSet(timers') <=> u \in ToSet(timers))
                                /\ expire'[u] = expire[u] /\ remain'[u] = remain[u],
         t \in ToSet(timers') => 0 <= Off'[t] + Extra[t] \/ (t \in ToSet(timers) /\ Off'[t] = Off[t]),
         t \in Waiting' => 0 <= Stand'[t] \/ (t \in Waiting /\ Stand[t] <= Stand'[t])
  PROVE  /\ \A r \in {0, Lag} : Room(r) => Room(r)'
         /\ /\ t \in Waiting /\ (t \notin Waiting' \/ 0 <= Stand'[t])
            /\ \A u \in ToSet(timers) : Stand[t] <= Off[u]
            /\ Room(0)
            => Room(Lag)'
<1>1. /\ Off \in [Tasks -> Int] /\ Stand \in [Tasks -> Int] /\ Extra \in [Tasks -> Nat]
      /\ ToSet(timers) \subseteq Waiting /\ Waiting \subseteq Tasks
      /\ IsFiniteSet(Tasks) /\ Lag \in Nat
  BY RoomIs
<1>2. /\ Off' \in [Tasks -> Int] /\ Stand' \in [Tasks -> Int] /\ Extra' = Extra
      /\ ToSet(timers') \subseteq Waiting' /\ Waiting' \subseteq Tasks
  BY RoomNext
<1>3. \A u \in ToSet(timers') : 0 <= Off'[u] + Extra[u] \/ (u \in ToSet(timers) /\ Off'[u] = Off[u])
  BY <1>2
<1>4. \A v \in Waiting' : 0 <= Stand'[v] \/ (v \in Waiting /\ Stand[v] <= Stand'[v])
  <2>1. ASSUME NEW v \in Waiting', v # t PROVE v \in Waiting /\ Stand[v] <= Stand'[v]
    <3>1. v \in Tasks /\ Off'[v] = Off[v] /\ (v \in ToSet(timers') <=> v \in ToSet(timers))
          /\ expire'[v] = expire[v] /\ remain'[v] = remain[v]
      BY <1>2, <2>1
    <3>2. v \in Waiting
      BY <2>1, <3>1 DEF Waiting
    <3>3. Stand'[v] = Stand[v] /\ Stand[v] \in Int
      BY <1>1, <3>1 DEF Stand
    <3> QED BY <3>2, <3>3
  <2> QED BY <2>1
<1> DEFINE Q == ToSet(timers)
           P == ToSet(timers')
           W == Waiting
           V == Waiting'
<1>5. PICK b \in [Tasks -> Int], z \in [Tasks -> Int] : b = Off' /\ z = Stand'
  BY <1>2
<1>6. \A r : Room(r) <=> Eased(Q, Off, Extra, W, Stand, r)
  BY DEF Room
<1>7. \A r : Room(r)' <=> Eased(P, b, Extra, V, z, r)
  BY <1>2, <1>5 DEF Room, Eased, Lag
<1>8. Q \subseteq Tasks /\ P \subseteq Tasks /\ W \subseteq Tasks /\ V \subseteq Tasks
  BY <1>1, <1>2
<1>9. /\ \A u \in P : 0 <= b[u] + Extra[u] \/ (u \in Q /\ b[u] = Off[u])
      /\ \A v \in V : 0 <= z[v] \/ (v \in W /\ Stand[v] <= z[v])
  BY <1>3, <1>4, <1>5
<1>10. /\ t \in Waiting /\ (t \notin Waiting' \/ 0 <= Stand'[t])
       /\ \A u \in ToSet(timers) : Stand[t] <= Off[u]
       => t \in W /\ (t \notin V \/ 0 <= z[t]) /\ \A u \in Q : Stand[t] <= Off[u]
  BY <1>5
<1> HIDE DEF Q, P, W, V
<1>11. ASSUME NEW r \in {0, Lag}, Room(r) PROVE Room(r)'
  <2>1. r \in Int /\ r <= r /\ r <= Lag /\ Eased(Q, Off, Extra, W, Stand, r)
    BY <1>1, <1>6, <1>11
  <2>2. Eased(P, b, Extra, V, z, r)
    BY <1>1, <1>8, <1>9, <2>1, EasedKept
  <2> QED BY <1>7, <2>2
<1>12. ASSUME t \in Waiting, t \notin Waiting' \/ 0 <= Stand'[t],
              \A u \in ToSet(timers) : Stand[t] <= Off[u], Room(0)
       PROVE  Room(Lag)'
  <2>1. t \in W /\ (t \notin V \/ 0 <= z[t]) /\ \A u \in Q : Stand[t] <= Off[u]
    BY <1>10, <1>12
  <2>2. Eased(Q, Off, Extra, W, Stand, 0)
    BY <1>6, <1>12
  <2>3. Eased(P, b, Extra, V, z, Lag)
    BY <1>1, <1>8, <1>9, <2>1, <2>2, EasedGained
  <2> QED BY <1>7, <2>3
<1> QED BY <1>11, <1>12

\* A queue whose timers are all to come has room for a round of the loop.
LEMMA AheadRoom ==
  ASSUME NEW D, Timely(D), WqOK, now \in Ticks, SyncsOK, remain \in [Tasks -> Int],
         \A u \in ToSet(timers) : 0 <= Off[u]
  PROVE  Room(Lag)
<1>1. /\ Off \in [Tasks -> Int] /\ Extra \in [Tasks -> Nat] /\ Waiting \subseteq Tasks
      /\ ToSet(timers) \subseteq Waiting /\ IsFiniteSet(Tasks) /\ Lag \in Nat
  BY RoomIs
<1> SUFFICES ASSUME NEW u \in ToSet(timers)
             PROVE  Lag <= Off[u] + Extra[u]
                           + Lag * (Crowd + 1 - Cardinality({v \in Waiting : Stand[v] <= Off[u]}))
  BY DEF Room, Eased
<1> DEFINE F == {v \in Waiting : Stand[v] <= Off[u]}
<1> HIDE DEF F
<1>2. Crowd \in Nat /\ Cardinality(F) \in 0..Crowd
  <2>1. F \subseteq Tasks
    BY <1>1 DEF F
  <2> QED BY <1>1, <2>1, EasedFront
<1>3. PICK l \in Nat, k \in Nat :
         l = Lag /\ k = Crowd + 1 - Cardinality(F) /\ k >= 1
  BY <1>1, <1>2
<1>4. l <= l * k /\ l * k \in Nat
  BY <1>3
<1>5. PICK x \in Int, y \in Nat : x = Off[u] /\ y = Extra[u] /\ 0 <= x
  BY <1>1
<1>6. l <= x + y + l * k
  BY <1>4, <1>5
<1> QED BY <1>3, <1>5, <1>6 DEF F

\* The dates in the wait queue can be compared.
LEMMA OffIn ==
  ASSUME NEW D, Timely(D), WqOK, now \in Ticks, SyncsOK, remain \in [Tasks -> Int],
         Waits(timers, wqkey, Off), Room(0), NEW u \in ToSet(timers)
  PROVE  /\ InTime(D, Off[u], wqkey[u]) /\ -(Lag * Crowd) <= Off[u] + Extra[u]
         /\ wqkey[u] # Eternity /\ u \in Tasks
<1>1. \A t \in Tasks : At(TickRange, now, Off[t], wqkey[t])
  BY DistIs DEF WqOK, Off
<1>2. Lag * Crowd \in Nat /\ Lag * Crowd + MaxLesson <= Late(D) /\ Late(D) \in Nat /\ MaxLesson \in Nat
  BY TimelyIs
<1>3. /\ Off \in [Tasks -> Int] /\ Stand \in [Tasks -> Int] /\ Extra \in [Tasks -> Nat]
      /\ ToSet(timers) \subseteq Waiting /\ Waiting \subseteq Tasks
      /\ \A v \in ToSet(timers) : Stand[v] = Off[v]
      /\ IsFiniteSet(Tasks) /\ Lag \in Nat
  BY RoomIs
<1>4. u \in Tasks
  BY <1>3
<1>5. -(Lag * Crowd) <= Off[u] + Extra[u]
  BY <1>3, EasedBound DEF Room
<1>6. Off[u] \in Int /\ Extra[u] \in Nat /\ Extra[u] <= MaxLesson
  BY <1>2, <1>3, <1>4 DEF Extra
<1>7. wqkey[u] # Eternity /\ Near(Off[u])
  BY DEF Waits
<1>8. wqkey[u] \in Int
  BY <1>4, TicksAre DEF WqOK
<1>9. -Late(D) <= Off[u]
  BY <1>2, <1>5, <1>6
<1> QED BY <1>1, <1>4, <1>5, <1>6, <1>7, <1>8, <1>9 DEF InTime

\* A date is as far away as it is said to be.
LEMMA DateOff ==
  ASSUME NEW D, Timely(D), now \in Ticks, NEW x, NEW date, InTime(D, x, date),
         NEW key \in [Tasks -> Ticks], NEW t \in Tasks, key[t] = date
  PROVE  Dist(key, now)[t] = x
  BY Passes DEF Dist

\* Keys that do not change stay as far away.
LEMMA SameDist ==
  ASSUME NEW key, NEW new, NEW tick, NEW t \in Tasks, new[t] = key[t]
  PROVE  Dist(new, tick)[t] = Dist(key, tick)[t]
  BY DEF Dist

\* What is left of the tree when a node leaves it.
LEMMA RestTime ==
  ASSUME NEW D, Timely(D), WqOK, Waits(timers, wqkey, Off), NEW t \in Tasks
  PROVE  LET p == RemoveFirst(timers, t)
         IN  /\ Queue(p) /\ ToSet(p) = ToSet(timers) \ {t} /\ Sorted(p, wqkey)
             /\ \A u \in ToSet(p) : u \in ToSet(timers) /\ u \in Tasks /\ u # t
<1> DEFINE p == RemoveFirst(timers, t)
<1>1. Queue(p) /\ ToSet(p) = ToSet(timers) \ {t}
  BY RemoveIn DEF WqOK, Queue
<1>2. wqkey \in [Tasks -> Int] /\ Queue(timers) /\ Sorted(timers, wqkey) /\ IsFiniteSet(Tasks)
  BY TicksAre, TimelyIs DEF WqOK, Waits
<1>3. Sorted(p, wqkey)
  BY <1>2, RestSorted DEF Queue
<1> HIDE DEF p
<1>4. \A u \in ToSet(p) : u \in ToSet(timers) /\ u \in Tasks /\ u # t
  BY <1>1, <1>2, QueueSize
<1> QED BY <1>1, <1>3, <1>4 DEF p

\* __task_queue(): the task waits as far away as its date is.
LEMMA RequeueTime ==
  ASSUME NEW D, Timely(D), WqOK, now \in Ticks, Waits(timers, wqkey, Off), NEW t \in Tasks,
         NEW date \in Ticks, date # Eternity, NEW x, InTime(D, x, date), Requeue(t, date), now' = now
  PROVE  /\ WqOK' /\ Waits(timers, wqkey, Off)' /\ ToSet(timers') = ToSet(timers) \cup {t}
         /\ Off' = [Off EXCEPT ![t] = x]
<1> DEFINE p == RemoveFirst(timers, t)
<1>1. timers' = Insert(p, wqkey, t, date) /\ wqkey' = [wqkey EXCEPT ![t] = date]
  BY DEF Requeue
<1>2. WqOK' /\ ToSet(timers') = ToSet(timers) \cup {t}
  BY RequeueKeeps DEF WqOK
<1>3. /\ Queue(p) /\ ToSet(p) = ToSet(timers) \ {t} /\ Sorted(p, wqkey)
      /\ \A u \in ToSet(p) : u \in ToSet(timers) /\ u \in Tasks /\ u # t
  BY RestTime
<1> HIDE DEF p
<1>4. wqkey \in [Tasks -> Int] /\ date \in Int /\ t \notin ToSet(p)
  BY <1>3, TicksAre DEF WqOK
<1>5. Sorted(timers', wqkey')
  BY <1>1, <1>3, <1>4, InsertSorted DEF Queue
<1>6. Off' = [Off EXCEPT ![t] = x]
  <2>1. wqkey \in [Tasks -> Ticks] /\ wqkey' \in [Tasks -> Ticks] /\ wqkey'[t] = date
    BY <1>1 DEF WqOK
  <2>2. Dist(wqkey', now)[t] = x
    BY <2>1, DateOff
  <2>3. \A u \in Tasks : u # t => Dist(wqkey', now)[u] = Dist(wqkey, now)[u]
    <3>1. \A u \in Tasks : u # t => wqkey'[u] = wqkey[u]
      BY <1>1, <2>1
    <3> QED BY <3>1, SameDist
  <2>4. Dist(wqkey', now) = [Dist(wqkey, now) EXCEPT ![t] = x]
    BY <2>2, <2>3 DEF Dist
  <2> QED BY <2>4 DEF Off
<1>7. Off \in [Tasks -> Int]
  BY DistIs DEF WqOK, Off
<1>8. ASSUME NEW u \in ToSet(timers') PROVE wqkey'[u] # Eternity /\ Near(Off'[u])
  <2>1. CASE u = t
    BY <1>1, <1>6, <1>7, <2>1 DEF WqOK, InTime
  <2>2. CASE u # t
    <3>1. u \in ToSet(timers) /\ u \in Tasks
      BY <1>2, <1>3, <2>2
    <3>2. wqkey'[u] = wqkey[u] /\ Off'[u] = Off[u]
      BY <1>1, <1>6, <1>7, <2>2, <3>1 DEF WqOK
    <3> QED BY <3>1, <3>2 DEF Waits
  <2> QED BY <2>1, <2>2
<1> QED BY <1>2, <1>5, <1>6, <1>8 DEF Waits

\* task_unlink_wq()
LEMMA UnlinkWqTime ==
  ASSUME NEW D, Timely(D), WqOK, now \in Ticks, Waits(timers, wqkey, Off), NEW t \in Tasks,
         UnlinkWq(t), now' = now
  PROVE  /\ WqOK' /\ Waits(timers, wqkey, Off)' /\ ToSet(timers') = ToSet(timers) \ {t}
         /\ \A u \in Tasks \ {t} : Off'[u] = Off[u]
<1> DEFINE p == RemoveFirst(timers, t)
<1>1. timers' = p /\ wqkey' = [wqkey EXCEPT ![t] = 0]
  BY DEF UnlinkWq
<1>2. /\ Queue(p) /\ ToSet(p) = ToSet(timers) \ {t} /\ Sorted(p, wqkey)
      /\ \A u \in ToSet(p) : u \in ToSet(timers) /\ u \in Tasks /\ u # t
  BY RestTime
<1> HIDE DEF p
<1>3. WqOK'
  BY UnlinkWqKeeps DEF WqOK
<1>4. \A u \in Tasks : u # t => wqkey'[u] = wqkey[u]
  BY <1>1 DEF WqOK
<1>5. \A u \in Tasks : u # t => Off'[u] = Off[u]
  BY <1>4, SameDist DEF Off
<1>6. Sorted(p, wqkey')
  <2>1. \A i \in 1..Len(p) : p[i] \in ToSet(p)
    BY <1>2, InSeq DEF Queue
  <2>2. \A i \in 1..Len(p) : wqkey'[p[i]] = wqkey[p[i]]
    BY <1>2, <1>4, <2>1
  <2> QED BY <1>2, <2>2 DEF Sorted
<1>7. Waits(timers', wqkey', Off')
  BY <1>1, <1>2, <1>4, <1>5, <1>6 DEF Waits
<1> QED BY <1>1, <1>2, <1>3, <1>5, <1>7 DEF p

\* task_queue(): afterwards the task waits no longer than for its date.
LEMMA TaskQueueTime ==
  ASSUME NEW D, Timely(D), WqOK, now \in Ticks, SyncsOK, remain \in [Tasks -> Int],
         Waits(timers, wqkey, Off), Room(0), NEW t \in Tasks, NEW date \in Ticks, date # Eternity,
         NEW x, InTime(D, x, date), TaskQueue(t, date), now' = now
  PROVE  /\ WqOK' /\ Waits(timers, wqkey, Off)'
         /\ ToSet(timers') = ToSet(timers) \cup {t} /\ Off'[t] <= x
         /\ Off'[t] = x \/ (InWq(t) /\ Off'[t] = Off[t])
         /\ InWq(t) /\ Off[t] <= x => Off'[t] = Off[t]
         /\ \A u \in Tasks \ {t} : Off'[u] = Off[u]
<1>1. Off \in [Tasks -> Int] /\ x \in Int
  BY DistIs DEF WqOK, Off, InTime
<1>2. InWq(t) => /\ Off[t] \in Int /\ InTime(D, Off[t], wqkey[t])
                 /\ (TickIsLt(date, wqkey[t]) <=> x < Off[t])
  <2> SUFFICES ASSUME InWq(t) PROVE Off[t] \in Int /\ InTime(D, Off[t], wqkey[t])
                                    /\ (TickIsLt(date, wqkey[t]) <=> x < Off[t])
    OBVIOUS
  <2>1. InTime(D, Off[t], wqkey[t])
    BY OffIn DEF InWq
  <2>2. TickIsLt(date, wqkey[t]) <=> x < Off[t]
    BY <2>1, Compares
  <2> QED BY <1>1, <2>1, <2>2
<1>3. CASE ~InWq(t) \/ TickIsLt(date, wqkey[t])
  <2>1. Requeue(t, date)
    BY <1>3 DEF TaskQueue
  <2>2. /\ WqOK' /\ Waits(timers, wqkey, Off)' /\ ToSet(timers') = ToSet(timers) \cup {t}
        /\ Off' = [Off EXCEPT ![t] = x]
    BY <2>1, RequeueTime
  <2>3. Off'[t] = x /\ \A u \in Tasks \ {t} : Off'[u] = Off[u]
    BY <1>1, <2>2
  <2>4. InWq(t) => ~(Off[t] <= x)
    BY <1>1, <1>2, <1>3
  <2> QED BY <1>1, <2>2, <2>3, <2>4
<1>4. CASE InWq(t) /\ ~TickIsLt(date, wqkey[t])
  <2>1. timers' = timers /\ wqkey' = wqkey
    BY <1>4 DEF TaskQueue, waitq
  <2>2. Off' = Off
    BY <2>1 DEF Off
  <2>3. ToSet(timers') = ToSet(timers) \cup {t}
    BY <1>4, <2>1 DEF InWq
  <2>4. Off[t] <= x
    BY <1>1, <1>2, <1>4
  <2>5. WqOK' /\ Waits(timers, wqkey, Off)'
    BY <2>1, <2>2 DEF WqOK, Queue, Waits
  <2> QED BY <1>4, <2>2, <2>3, <2>4, <2>5
<1> QED BY <1>3, <1>4

\* A timeout from now is a date in time, and in the future.
LEMMA TickAddTime ==
  ASSUME NEW D, Timely(D), now \in Ticks, NEW d \in Timeouts
  PROVE  /\ InTime(D, Delay(d), TickAdd(now, d)) /\ 0 < Delay(d) /\ Delay(d) \in Int
         /\ TickAdd(now, d) \in Ticks /\ TickAdd(now, d) # Eternity
<1> DEFINE m == (now + d) % TickRange
           n == (now + d) \div TickRange
<1>1. /\ TickRange \in Nat /\ TickRange > 1 /\ now \in 0..(TickRange - 1)
      /\ d \in Nat /\ d >= 1
  BY TicksAre DEF Ticks
<1>2. m \in 0..(TickRange - 1) /\ n \in Int /\ now + d = n * TickRange + m
  BY <1>1
<1>3. TickAdd(now, d) = (IF m = 0 THEN 1 ELSE m) /\ Delay(d) = IF m = 0 THEN d + 1 ELSE d
  BY DEF TickAdd, Delay
<1> HIDE DEF m, n
<1>4. At(TickRange, now, Delay(d), TickAdd(now, d))
  <2>1. m = 0 => At(TickRange, now, Delay(d), TickAdd(now, d))
    <3> SUFFICES ASSUME m = 0 PROVE At(TickRange, now, Delay(d), TickAdd(now, d))
      OBVIOUS
    <3>1. PICK z \in Int : z = now + (d + 1)
      BY <1>1
    <3>2. PICK y \in 0..(TickRange - 1) : y = 1
      BY <1>1
    <3>3. z = n * TickRange + y /\ TickRange > 0
      BY <1>1, <1>2, <3>1, <3>2
    <3>4. z % TickRange = y
      BY <1>1, <1>2, <3>3, ModIs
    <3> QED BY <1>3, <3>1, <3>2, <3>4 DEF At
  <2>2. m # 0 => At(TickRange, now, Delay(d), TickAdd(now, d))
    BY <1>3 DEF At, m
  <2> QED BY <2>1, <2>2
<1>5. Delay(d) \in Int /\ 0 < Delay(d) /\ Delay(d) <= d + 1
  BY <1>1, <1>3
<1>6. Near(Delay(d)) /\ -Late(D) <= Delay(d)
  BY <1>5, TimelyIs DEF Near
<1>7. TickAdd(now, d) \in Ticks /\ TickAdd(now, d) # Eternity
  BY TickAddType
<1> QED BY <1>4, <1>5, <1>6, <1>7, TicksAre DEF InTime

\* The earlier of two dates is the nearer one.
LEMMA TickFirstTime ==
  ASSUME NEW D, Timely(D), now \in Ticks, NEW x, NEW y, NEW v, NEW w, InTime(D, x, v),
         InTime(D, y, w), v # Eternity, w # Eternity
  PROVE  TickFirst(v, w) = IF x <= y THEN v ELSE w
<1>1. Signed(v - w, TickRange) = x - y
  BY Compares
<1>2. x \in Int /\ y \in Int
  BY DEF InTime
<1> QED BY <1>1, <1>2 DEF TickFirst

\* How late a task may be that still has n turns to wait.
Spare(D, n) == Lag * (Crowd + Most(D) + 1 - n)

\* That is time for a round of the loop, and for one per task, at least.
LEMMA SpareIs ==
  ASSUME NEW D, Timely(D), NEW n \in 1..Most(D)
  PROVE  /\ Spare(D, n) \in Int /\ Lag <= Spare(D, n) /\ Lag * Crowd <= Spare(D, n)
         /\ Spare(D, n) + MaxLesson <= Late(D)
<1>1. PICK l \in Nat, c \in Nat, m \in Nat : l = Lag /\ c = Crowd /\ m = Most(D)
  BY TimelyIs
<1>2. PICK k \in 1..m : k = m + 1 - n
  BY <1>1
<1>3. Spare(D, n) = l * (c + k) /\ Late(D) = MaxLesson + l * (c + m) /\ MaxLesson \in Nat
  BY <1>1, <1>2, TimelyIs DEF Spare, Late
<1>4. /\ l * (c + k) = l * c + l * k /\ l * (c + m) = l * c + l * m
      /\ l <= l * k /\ l * k <= l * m /\ l * c \in Nat /\ l * k \in Nat /\ l * m \in Nat
  BY <1>1, <1>2
<1> QED BY <1>1, <1>3, <1>4

\* Fewer turns leave more time, and each one less as much as a round of the loop takes.
LEMMA SpareMore ==
  ASSUME NEW D, Timely(D), NEW n \in 1..Most(D), NEW k \in 1..Most(D)
  PROVE  /\ k <= n => Spare(D, n) <= Spare(D, k)
         /\ k <= n - 1 => Spare(D, n) + Lag <= Spare(D, k)
<1>1. PICK l \in Nat, c \in Nat, m \in Nat : l = Lag /\ c = Crowd /\ m = Most(D)
  BY TimelyIs
<1>2. PICK i \in Nat, j \in Nat : i = c + m + 1 - n /\ j = c + m + 1 - k
  <2>1. c + m + 1 - n \in Nat /\ c + m + 1 - k \in Nat
    BY <1>1
  <2> QED BY <2>1
<1>3. Spare(D, n) = l * i /\ Spare(D, k) = l * j
  BY <1>1, <1>2 DEF Spare
<1>4. i <= j => l * i <= l * j
  BY <1>1, <1>2
<1>5. i + 1 <= j => l * (i + 1) <= l * j
  BY <1>1, <1>2
<1>6. l * (i + 1) = l * i + l
  BY <1>1, <1>2
<1>7. (k <= n => i <= j) /\ (k <= n - 1 => i + 1 <= j)
  BY <1>1, <1>2
<1> QED BY <1>1, <1>3, <1>4, <1>5, <1>6, <1>7

-----------------------------------------------------------------------------
(* The dates: the invariant.                                               *)

\* Where the walk of the timers goes on.
Node == IF eb = None THEN First(timers) ELSE eb

\* It is at the timer that is farthest behind.
AtFirst == timers = <<>> \/ Leads(timers, Off, Node)

\* Between two walks of the timers there is room for the time that will pass.  The walk
\* itself starts without, and has it again when the timer that is farthest behind left.
WaitInv ==
  /\ Waits(timers, wqkey, Off)
  /\ \/ pc # "io" /\ Room(Lag)
     \/ pc \in {"io", "wake"} /\ Room(0) /\ (pc = "wake" => AtFirst)
  /\ pc = "wake" => unseen = alive \/ AtFirst

\* The history of a date is true, and its timer no later, unless the timer has expired; one
\* that learns is in the wait queue again only when it returned.
Dated(t) ==
  /\ expire[t] # Eternity =>
       /\ At(TickRange, now, remain[t], expire[t]) /\ Near(remain[t])
       /\ t \notin timer => InWq(t) /\ Off[t] <= remain[t]
  /\ t \in timer /\ t \in syncs => ~InWq(t)

\* A date belongs to a task that is there; one whose timer expired runs, or will.
DateInv ==
  /\ timer \subseteq alive /\ timer \ {cur} \subseteq ToSet(rqueue)
  /\ \A t \in Tasks \ alive : expire[t] = Eternity
  /\ \A t \in alive : Dated(t)

\* A task whose timer expired will have s ticks left when its turns are over, and as many
\* more as it was left behind.
Soon(D, t, s) ==
  expire[t] # Eternity => s <= remain[t] + Extra[t] + Spare(D, Turns(D, rqueue, ahead, t))

\* Every round of the loop takes a turn of those that wait to run.
TurnInv(D) ==
  /\ cur \in timer /\ expire[cur] # Eternity => 0 <= remain[cur] + Late(D)
  /\ \/ pc \in {"run", "process", "poll"} /\ \A t \in timer \ {cur} : Soon(D, t, Lag)
     \/ (pc \in {"io", "wake", "runnable"} \/ Begins(D)) /\ \A t \in timer \ {cur} : Soon(D, t, 0)

\* How far away the next event is.
NextOff == Signed(next - now, TickRange)

\* The date of the next event is no later than any this round has seen.
PinInv(D) ==
  pc \in {"runnable", "run", "process", "poll"} =>
    /\ next # Eternity => InTime(D, NextOff, next)
    /\ \A t \in alive \ (unseen \cup {cur}) :
          expire[t] # Eternity /\ ~InRq(t) => next # Eternity /\ NextOff <= remain[t]

\* The invariant of the dates.
TimeInv(D) == WaitInv /\ DateInv /\ TurnInv(D) /\ PinInv(D)

\* The turns of a queued task can be counted.
LEMMA TurnsAre ==
  ASSUME NEW D, Timely(D), RqOK, QueueKeyed(D), NEW t \in ToSet(rqueue)
  PROVE  Turns(D, rqueue, ahead, t) \in 1..Most(D) /\ t \in Tasks
<1>1. Wide(D) /\ D \in Nat /\ IsFiniteSet(Tasks)
  BY TimelyIs
<1>2. ahead[t] <= D /\ Queue(rqueue) /\ ahead \in [Tasks -> Int]
  BY DEF QueueKeyed, Keyed, RqOK
<1> QED BY <1>1, <1>2, TurnsIs, QueueSize

\* What the invariants say of the parts of the state.
LEMMA TimeParts ==
  ASSUME NEW D, Timely(D), SchedulerInv, Order(D), TimeInv(D)
  PROVE  /\ Wide(D) /\ WqOK /\ RqOK /\ RestOK /\ RunningTask /\ QueuedAlive /\ QueueKeyed(D)
         /\ now \in Ticks /\ next \in Ticks /\ alive \subseteq Tasks /\ timer \subseteq Tasks
         /\ expire \in [Tasks -> Ticks] /\ remain \in [Tasks -> Int] /\ None \notin Tasks
         /\ Off \in [Tasks -> Int] /\ Lag \in Nat /\ Waits(timers, wqkey, Off) /\ Room(0)
         /\ SyncsOK /\ Extra \in [Tasks -> Nat]
         /\ WaitInv /\ DateInv /\ TurnInv(D) /\ PinInv(D)
<1>1. /\ Wide(D) /\ WqOK /\ RqOK /\ RestOK /\ RunningTask /\ QueuedAlive /\ QueueKeyed(D)
      /\ Lag \in Nat /\ IsFiniteSet(Tasks) /\ SyncsOK
  BY Unpacked, TimelyIs DEF Order
<1>2. /\ now \in Ticks /\ next \in Ticks /\ alive \subseteq Tasks /\ timer \subseteq Tasks
      /\ expire \in [Tasks -> Ticks] /\ remain \in [Tasks -> Int] /\ None \notin Tasks
  BY <1>1, SchedulerAssumption DEF RestOK, Tasks
<1>3. /\ Off \in [Tasks -> Int] /\ Stand \in [Tasks -> Int] /\ Extra \in [Tasks -> Nat]
      /\ ToSet(timers) \subseteq Waiting /\ Waiting \subseteq Tasks
  BY <1>1, <1>2, RoomIs
<1>4. Room(0)
  <2>1. Room(Lag) => Room(0)
    BY <1>1, <1>3, EasedLess DEF Room
  <2> QED BY <2>1 DEF TimeInv, WaitInv
<1> QED BY <1>1, <1>2, <1>3, <1>4 DEF TimeInv, WaitInv

\* The date of every task can be compared: before its timer expires the wait queue bounds
\* how late it is, then the turns it has to wait.
LEMMA DateIn ==
  ASSUME NEW D, Timely(D), SchedulerInv, Order(D), TimeInv(D), NEW t \in alive,
         expire[t] # Eternity
  PROVE  InTime(D, remain[t], expire[t])
<1>1. /\ WqOK /\ RqOK /\ QueueKeyed(D) /\ now \in Ticks /\ t \in Tasks /\ DateInv /\ TurnInv(D)
      /\ expire[t] \in Int /\ remain[t] \in Int /\ Waits(timers, wqkey, Off) /\ Room(0) /\ Lag \in Nat
      /\ Off \in [Tasks -> Int] /\ SyncsOK /\ remain \in [Tasks -> Int]
      /\ Extra[t] \in Nat /\ Extra[t] <= MaxLesson
  <2>1. MaxLesson \in Nat /\ t \in Tasks
    BY TimeParts, TimelyIs
  <2>2. Extra[t] \in Nat /\ Extra[t] <= MaxLesson
    BY <2>1 DEF Extra
  <2> QED BY <2>2, TimeParts, TicksAre
<1>2. /\ At(TickRange, now, remain[t], expire[t]) /\ Near(remain[t])
      /\ t \notin timer => InWq(t) /\ Off[t] <= remain[t]
  BY <1>1 DEF DateInv, Dated
<1>3. Late(D) \in Nat /\ Lag * Crowd \in Nat /\ MaxLesson \in Nat /\ Lag * Crowd + MaxLesson <= Late(D)
  BY TimelyIs
<1>4. -Late(D) <= remain[t]
  <2>1. CASE t \notin timer
    <3>1. -(Lag * Crowd) <= Off[t] + Extra[t]
      BY <1>1, <1>2, <2>1, OffIn DEF InWq
    <3> QED BY <1>1, <1>2, <1>3, <2>1, <3>1
  <2>2. CASE t \in timer /\ t = cur
    BY <1>1, <1>3, <2>2 DEF TurnInv
  <2>3. CASE t \in timer \ {cur}
    <3>1. t \in ToSet(rqueue)
      BY <1>1, <2>3 DEF DateInv
    <3> DEFINE s == Spare(D, Turns(D, rqueue, ahead, t))
    <3>2. s \in Int /\ s + MaxLesson <= Late(D)
      BY <1>1, <3>1, TurnsAre, SpareIs
    <3>3. Lag <= remain[t] + Extra[t] + s \/ 0 <= remain[t] + Extra[t] + s
      BY <1>1, <2>3 DEF TurnInv, Soon
    <3> HIDE DEF s
    <3> QED BY <1>1, <1>3, <3>2, <3>3
  <2> QED BY <2>1, <2>2, <2>3
<1> QED BY <1>1, <1>2, <1>4 DEF InTime

\* What the dates tell.
LEMMA TimeTells ==
  ASSUME NEW D, Timely(D), SchedulerInv, Order(D), TimeInv(D)
  PROVE  TicksTellTime /\ PollsInTime
<1>1. now \in Ticks /\ PinInv(D) /\ RunningTask /\ alive \subseteq Tasks /\ None \notin Tasks
  BY TimeParts
<1>2. TicksTellTime
  <2> SUFFICES ASSUME NEW t \in alive, expire[t] # Eternity
               PROVE  Signed(expire[t] - now, TickRange) = remain[t]
    BY DEF TicksTellTime
  <2> QED BY <1>1, DateIn, Passes
<1>3. PollsInTime
  <2> SUFFICES ASSUME pc = "poll", NEW t \in alive \ unseen, expire[t] # Eternity, ~InRq(t)
               PROVE  next # Eternity /\ ~TickIsLt(expire[t], next)
    BY DEF PollsInTime
  <2>1. cur = None /\ t # cur
    BY <1>1 DEF RunningTask
  <2>2. next # Eternity /\ InTime(D, NextOff, next) /\ NextOff <= remain[t]
    BY <1>1, <2>1 DEF PinInv
  <2>3. InTime(D, remain[t], expire[t])
    BY DateIn
  <2>4. TickIsLt(expire[t], next) <=> remain[t] < NextOff
    BY <1>1, <2>2, <2>3, Compares
  <2>5. remain[t] \in Int /\ NextOff \in Int
    BY <2>2, <2>3 DEF InTime
  <2> QED BY <2>2, <2>4, <2>5
<1> QED BY <1>2, <1>3

\* A step that leaves the wait queue and the clock alone leaves the distances ...
LEMMA SameOff ==
  ASSUME UNCHANGED <<timers, wqkey, now>>
  PROVE  Off' = Off /\ Waits(timers, wqkey, Off)' = Waits(timers, wqkey, Off)
  BY DEF Off, Waits

\* ... and one that leaves the dates alone as well the room there is.
LEMMA SameWaits ==
  ASSUME UNCHANGED <<syncs, timers, wqkey, now, expire, remain>>
  PROVE  /\ Off' = Off /\ Waits(timers, wqkey, Off)' = Waits(timers, wqkey, Off)
         /\ \A r : Room(r)' = Room(r)
<1>1. Off' = Off /\ Waits(timers, wqkey, Off)' = Waits(timers, wqkey, Off)
  BY SameOff
<1>2. Extra' = Extra /\ Waiting' = Waiting /\ Stand' = Stand
  BY <1>1 DEF Extra, Waiting, Stand
<1> QED BY <1>1, <1>2 DEF Room, Eased, Lag

\* A date that is taken back leaves it to the others.
LEMMA DroppedRoom ==
  ASSUME NEW D, Timely(D), WqOK, now \in Ticks, SyncsOK, remain \in [Tasks -> Int],
         WqOK', remain' \in [Tasks -> Int], UNCHANGED <<syncs, timers, wqkey, now>>,
         \A u \in Tasks : \/ expire'[u] = Eternity
                          \/ expire'[u] = expire[u] /\ remain'[u] = remain[u]
  PROVE  \A r \in {0, Lag} : Room(r) => Room(r)'
<1>1. /\ Off \in [Tasks -> Int] /\ Stand \in [Tasks -> Int] /\ Extra \in [Tasks -> Nat]
      /\ ToSet(timers) \subseteq Waiting /\ Waiting \subseteq Tasks
      /\ IsFiniteSet(Tasks) /\ Lag \in Nat
  BY RoomIs
<1>2. /\ Stand' \in [Tasks -> Int] /\ Extra' = Extra /\ Waiting' \subseteq Tasks
  <2>1. now' \in Ticks
    OBVIOUS
  <2> QED BY <2>1, RoomNext
<1>3. Off' = Off
  BY SameOff
<1>4. ASSUME NEW v \in Waiting' PROVE v \in Waiting /\ Stand[v] <= Stand'[v]
  <2>1. v \in Tasks /\ Stand[v] \in Int
    BY <1>1, <1>2
  <2>2. CASE v \in ToSet(timers)
    BY <1>1, <1>3, <2>1, <2>2 DEF Stand
  <2>3. CASE v \notin ToSet(timers)
    <3>1. v \in syncs /\ expire'[v] # Eternity
      BY <2>3 DEF Waiting
    <3>2. expire'[v] = expire[v] /\ remain'[v] = remain[v]
      BY <2>1, <3>1
    <3>3. v \in Waiting /\ Stand'[v] = Stand[v]
      BY <2>1, <2>3, <3>1, <3>2 DEF Waiting, Stand
    <3> QED BY <2>1, <3>3
  <2> QED BY <2>2, <2>3
<1> DEFINE Q == ToSet(timers)
           W == Waiting
           V == Waiting'
<1>5. PICK z \in [Tasks -> Int] : z = Stand'
  BY <1>2
<1>6. \A r : Room(r) <=> Eased(Q, Off, Extra, W, Stand, r)
  BY DEF Room
<1>7. \A r : Room(r)' <=> Eased(Q, Off, Extra, V, z, r)
  BY <1>2, <1>3, <1>5 DEF Room, Eased, Lag
<1>8. Q \subseteq Tasks /\ W \subseteq Tasks /\ V \subseteq Tasks
  BY <1>1, <1>2
<1>9. /\ \A u \in Q : 0 <= Off[u] + Extra[u] \/ (u \in Q /\ Off[u] = Off[u])
      /\ \A v \in V : 0 <= z[v] \/ (v \in W /\ Stand[v] <= z[v])
  BY <1>4, <1>5
<1> HIDE DEF Q, W, V
<1> SUFFICES ASSUME NEW r \in {0, Lag}, Room(r) PROVE Room(r)'
  OBVIOUS
<1>10. r \in Int /\ r <= r /\ r <= Lag /\ Eased(Q, Off, Extra, W, Stand, r)
  BY <1>1, <1>6
<1>11. Eased(Q, Off, Extra, V, z, r)
  BY <1>1, <1>8, <1>9, <1>10, EasedKept
<1> QED BY <1>7, <1>11

\* Between the walks of the timers, the wait queue only has to leave room.
LEMMA KeepWaits ==
  ASSUME WaitInv, Waits(timers, wqkey, Off)', pc # "wake", pc' # "wake", pc' = "io" <=> pc = "io",
         \A r \in {0, Lag} : Room(r) => Room(r)'
  PROVE  WaitInv'
<1>1. CASE pc = "io"
  <2>1. Room(0)'
    BY <1>1 DEF WaitInv
  <2> QED BY <1>1, <2>1 DEF WaitInv
<1>2. CASE pc # "io"
  <2>1. Room(Lag)'
    BY <1>2 DEF WaitInv
  <2> QED BY <1>2, <2>1 DEF WaitInv, Lag
<1> QED BY <1>1, <1>2

\* task_wakeup() puts off no other task.
LEMMA WokenTurns ==
  ASSUME NEW D, Timely(D), RqOK, QueueKeyed(D), RqOK', timer \subseteq Tasks,
         NEW t \in Tasks, NEW n \in AllNices, NEW b \in BOOLEAN, TaskWakeup(t, n, b)
  PROVE  /\ ToSet(rqueue') = ToSet(rqueue) \cup {t}
         /\ \A u \in ToSet(rqueue) : Turns(D, rqueue', ahead', u) <= Turns(D, rqueue, ahead, u)
<1>1. ToSet(rqueue') = ToSet(rqueue) \cup {t}
  <2>1. n \in Int
    BY SchedulerAssumption DEF AllNices
  <2> QED BY <2>1, TaskWakeupKeeps
<1>2. Wide(D) /\ D \in Nat /\ IsFiniteSet(Tasks) /\ Crowd \in Nat
  BY TimelyIs
<1>3. /\ Queue(rqueue) /\ ahead \in [Tasks -> Int] /\ Queue(rqueue') /\ ahead' \in [Tasks -> Int]
      /\ ToSet(rqueue) \subseteq Tasks
  BY <1>2, QueueSize DEF RqOK
<1>4. CASE InRq(t)
  <2>1. rqueue' = rqueue /\ ahead' = ahead
    BY <1>4 DEF TaskWakeup
  <2>2. ASSUME NEW u \in ToSet(rqueue)
        PROVE  Turns(D, rqueue', ahead', u) <= Turns(D, rqueue, ahead, u)
    <3>1. Turns(D, rqueue, ahead, u) \in 1..Most(D) /\ Most(D) \in Nat
      BY TurnsAre, TimelyIs
    <3> QED BY <2>1, <3>1
  <2> QED BY <1>1, <2>2
<1>5. CASE ~InRq(t)
  <2>1. t \notin ToSet(rqueue)
    BY <1>5 DEF InRq
  <2>2. ahead'[t] = Offset(n, Len(rqueue) + 1) /\ \A u \in ToSet(rqueue) : ahead'[u] = ahead[u] - 1
    BY <1>3, <1>5 DEF TaskWakeup, InRq
  <2>3. Len(rqueue) + 1 \in 1..Crowd
    <3>1. Len(rqueue) < Crowd /\ Len(rqueue) \in Nat
      BY <1>2, <1>3, <2>1, QueueSize DEF Queue
    <3> QED BY <1>2, <3>1
  <2>4. -D <= ahead'[t]
    BY <1>2, <2>2, <2>3 DEF Wide
  <2>5. ASSUME NEW u \in ToSet(rqueue)
        PROVE  Turns(D, rqueue', ahead', u) <= Turns(D, rqueue, ahead, u)
    BY <1>1, <1>2, <1>3, <2>1, <2>2, <2>4, TurnsWoken
  <2> QED BY <1>1, <2>5
<1> QED BY <1>4, <1>5

\* Nor does __task_unlink_rq(): it brings nearer those that come after the task.
LEMMA LeftTurns ==
  ASSUME NEW D, Timely(D), RqOK, QueueKeyed(D), NEW t \in Tasks, UnlinkRq(t)
  PROVE  /\ RqOK' /\ ToSet(rqueue') = ToSet(rqueue) \ {t}
         /\ \A u \in ToSet(rqueue') :
               /\ Turns(D, rqueue', ahead', u) <= Turns(D, rqueue, ahead, u)
               /\ t \in ToSet(rqueue) /\ ahead[t] <= ahead[u] =>
                     Turns(D, rqueue', ahead', u) <= Turns(D, rqueue, ahead, u) - 1
<1>1. Wide(D) /\ D \in Nat /\ IsFiniteSet(Tasks)
  BY TimelyIs
<1>2. /\ RqOK' /\ ToSet(rqueue') = ToSet(rqueue) \ {t}
      /\ \A u \in ToSet(rqueue') : ahead'[u] = ahead[u]
  BY <1>1, UnlinkedKeyed
<1>3. Queue(rqueue) /\ ahead \in [Tasks -> Int] /\ Queue(rqueue') /\ ahead' \in [Tasks -> Int]
  BY <1>2 DEF RqOK
<1>4. ASSUME NEW u \in ToSet(rqueue')
      PROVE  /\ Turns(D, rqueue', ahead', u) <= Turns(D, rqueue, ahead, u)
             /\ t \in ToSet(rqueue) /\ ahead[t] <= ahead[u] =>
                   Turns(D, rqueue', ahead', u) <= Turns(D, rqueue, ahead, u) - 1
  BY <1>1, <1>2, <1>3, TurnsLeft
<1> QED BY <1>2, <1>4

\* The turns after a step can be counted, too.
LEMMA TurnsNext ==
  ASSUME NEW D, Timely(D), RqOK', QueueKeyed(D)', NEW t \in ToSet(rqueue')
  PROVE  Turns(D, rqueue', ahead', t) \in 1..Most(D) /\ t \in Tasks
<1>1. Wide(D) /\ D \in Nat /\ IsFiniteSet(Tasks)
  BY TimelyIs
<1>2. ahead'[t] <= D /\ Queue(rqueue') /\ ahead' \in [Tasks -> Int]
  BY DEF QueueKeyed, Keyed, RqOK
<1> QED BY <1>1, <1>2, TurnsIs, QueueSize

\* A task that has no more turns to wait than before runs as soon ...
LEMMA SoonStill ==
  ASSUME NEW D, Timely(D), RqOK, QueueKeyed(D), RqOK', QueueKeyed(D)',
         NEW t \in ToSet(rqueue), t \in ToSet(rqueue'),
         Turns(D, rqueue', ahead', t) <= Turns(D, rqueue, ahead, t),
         expire'[t] = expire[t], remain'[t] = remain[t], remain[t] \in Int, Extra' = Extra,
         Extra[t] \in Nat,
         NEW s \in Int, Soon(D, t, s)
  PROVE  /\ Soon(D, t, s)'
         /\ Turns(D, rqueue', ahead', t) <= Turns(D, rqueue, ahead, t) - 1 => Soon(D, t, s + Lag)'
<1>1. PICK n \in 1..Most(D), k \in 1..Most(D) :
         n = Turns(D, rqueue, ahead, t) /\ k = Turns(D, rqueue', ahead', t)
  BY TurnsAre, TurnsNext
<1>2. PICK a \in Int, b \in Int : a = Spare(D, n) /\ b = Spare(D, k)
  BY SpareIs
<1>3. a <= b /\ (k <= n - 1 => a + Lag <= b) /\ Lag \in Nat
  BY <1>1, <1>2, SpareMore, TimelyIs
<1>4. expire[t] # Eternity => s <= remain[t] + Extra[t] + a
  BY <1>1, <1>2 DEF Soon
<1>5. Spare(D, Turns(D, rqueue', ahead', t)) = b
  BY <1>1, <1>2
<1>6. expire'[t] # Eternity => s <= remain'[t] + Extra'[t] + b
  BY <1>2, <1>3, <1>4
<1>7. k <= n - 1 => (expire'[t] # Eternity => s + Lag <= remain'[t] + Extra'[t] + b)
  BY <1>2, <1>3, <1>4
<1> QED BY <1>1, <1>5, <1>6, <1>7 DEF Soon, Spare, Lag, Most

\* ... and one whose date is to come, or just passed, in time.
LEMMA SoonNew ==
  ASSUME NEW D, Timely(D), RqOK', QueueKeyed(D)', NEW t \in ToSet(rqueue'), remain'[t] \in Int,
         Extra' = Extra, Extra[t] \in Nat
  PROVE  /\ 0 <= remain'[t] => Soon(D, t, Lag)' /\ Soon(D, t, 0)'
         /\ -(Lag * Crowd) <= remain'[t] + Extra[t] => Soon(D, t, 0)'
<1>1. PICK k \in 1..Most(D) : k = Turns(D, rqueue', ahead', t)
  BY TurnsNext
<1>2. PICK b \in Int : b = Spare(D, k) /\ Lag <= b /\ Lag * Crowd <= b
  BY SpareIs
<1>3. PICK l \in Nat, m \in Nat : l = Lag /\ m = Lag * Crowd
  BY TimelyIs
<1>4. Spare(D, Turns(D, rqueue', ahead', t)) = b
  BY <1>1, <1>2
<1>5. 0 <= remain'[t] => Lag <= remain'[t] + Extra'[t] + b /\ 0 <= remain'[t] + Extra'[t] + b
  BY <1>2, <1>3
<1>6. -(Lag * Crowd) <= remain'[t] + Extra[t] => 0 <= remain'[t] + Extra'[t] + b
  BY <1>2, <1>3
<1> QED BY <1>4, <1>5, <1>6 DEF Soon, Spare, Lag, Most

\* What the invariants say of the queues after a step.
LEMMA PartsNext ==
  ASSUME NEW D, SchedulerInv', Order(D)'
  PROVE  /\ WqOK' /\ RqOK' /\ QueueKeyed(D)' /\ alive' \subseteq Tasks /\ now' \in Ticks
         /\ expire' \in [Tasks -> Ticks] /\ remain' \in [Tasks -> Int]
  BY DEF SchedulerInv, TypeOK, QueuesInjective, WqOK, RqOK, Queue, Ticks, Keys, Order

\* The part of a step that puts off none of the tasks whose timer expired.
LEMMA KeepTurns ==
  ASSUME NEW D, TurnInv(D), pc # "run", pc' = pc \/ (pc = "process" /\ pc' = "run"),
         cur' \in timer' /\ expire'[cur'] # Eternity => 0 <= remain'[cur'] + Late(D),
         \A s \in {0, Lag} : \A t \in timer' \ {cur'} :
            Soon(D, t, s)' \/ (t \in timer \ {cur} /\ (Soon(D, t, s) => Soon(D, t, s)'))
  PROVE  TurnInv(D)'
<1>1. CASE \A t \in timer \ {cur} : Soon(D, t, Lag)
  <2>1. \A t \in timer' \ {cur'} : Soon(D, t, Lag)'
    BY <1>1
  <2>2. CASE pc \in {"run", "process", "poll"}
    BY <2>1, <2>2 DEF TurnInv, Late, Lag, Most
  <2>3. CASE pc \notin {"run", "process", "poll"}
    <3>1. \A t \in timer \ {cur} : Soon(D, t, 0)
      BY <2>3 DEF TurnInv, Begins
    <3>2. \A t \in timer' \ {cur'} : Soon(D, t, 0)'
      BY <3>1
    <3> QED BY <2>3, <3>2 DEF TurnInv, Begins, Late, Lag, Most
  <2> QED BY <2>2, <2>3
<1>2. CASE ~\A t \in timer \ {cur} : Soon(D, t, Lag)
  <2>1. pc \in {"io", "wake", "runnable"} /\ \A t \in timer \ {cur} : Soon(D, t, 0)
    BY <1>2 DEF TurnInv, Begins
  <2>2. \A t \in timer' \ {cur'} : Soon(D, t, 0)'
    BY <2>1
  <2> QED BY <2>1, <2>2 DEF TurnInv, Late, Lag, Most
<1> QED BY <1>1, <1>2

\* A call that wakes a task, and takes its date at most.
LEMMA WakingTime ==
  ASSUME NEW D, Timely(D), SchedulerInv, Order(D), TimeInv(D), SchedulerInv', Order(D)',
         pc \in {"process", "io"}, UNCHANGED <<syncs, now, pc, next, cur, unseen, timers,
                                      wqkey>>,
         NEW t \in Tasks, NEW n \in AllNices, TaskWakeup(t, n, FALSE),
         alive \subseteq alive', alive' \subseteq alive \cup {t},
         \A u \in Tasks : \/ expire'[u] = Eternity
                          \/ expire'[u] = expire[u] /\ remain'[u] = remain[u]
  PROVE  TimeInv(D)'
<1>1. /\ RqOK /\ QueueKeyed(D) /\ alive \subseteq Tasks /\ timer \subseteq Tasks
      /\ WaitInv /\ DateInv /\ TurnInv(D) /\ PinInv(D) /\ remain \in [Tasks -> Int] /\ Lag \in Int
      /\ Waits(timers, wqkey, Off) /\ RunningTask /\ WqOK /\ now \in Ticks /\ SyncsOK
      /\ Extra \in [Tasks -> Nat]
  BY TimeParts
<1>2. RqOK' /\ QueueKeyed(D)' /\ alive' \subseteq Tasks /\ WqOK' /\ remain' \in [Tasks -> Int]
  BY PartsNext
<1>3. timer' = timer
  BY DEF TaskWakeup
<1>4. /\ ToSet(rqueue') = ToSet(rqueue) \cup {t}
      /\ \A u \in ToSet(rqueue) : Turns(D, rqueue', ahead', u) <= Turns(D, rqueue, ahead, u)
  BY <1>1, <1>2, WokenTurns
<1>5. Off' = Off /\ Waits(timers, wqkey, Off)' /\ \A r \in {0, Lag} : Room(r) => Room(r)'
  BY <1>1, <1>2, SameOff, DroppedRoom
<1>6. WaitInv'
  BY <1>1, <1>5, KeepWaits
<1>7. DateInv'
  <2>1. timer' \subseteq alive' /\ timer' \ {cur'} \subseteq ToSet(rqueue')
    BY <1>1, <1>3, <1>4 DEF DateInv
  <2>2. \A u \in Tasks \ alive : expire'[u] = Eternity
    BY <1>1 DEF DateInv
  <2>3. ASSUME NEW u \in alive PROVE Dated(u)'
    BY <1>1, <1>3, <1>5 DEF DateInv, Dated, InWq
  <2>4. \A u \in alive' : Dated(u)'
    BY <1>1, <1>2, <1>3, <2>2, <2>3 DEF Dated, DateInv
  <2> QED BY <2>1, <2>2, <2>4 DEF DateInv
<1>8. TurnInv(D)'
  <2>1. cur' \in timer' /\ expire'[cur'] # Eternity => 0 <= remain'[cur'] + Late(D)
    BY <1>1, <1>3 DEF TurnInv
  <2>2. ASSUME NEW s \in {0, Lag}, NEW u \in timer' \ {cur'}, Soon(D, u, s)
        PROVE  Soon(D, u, s)'
    <3>1. u \in ToSet(rqueue) /\ u \in ToSet(rqueue') /\ u \in Tasks /\ s \in Int
      BY <1>1, <1>3, <1>4 DEF DateInv
    <3>2. CASE expire'[u] = Eternity
      BY <3>2 DEF Soon
    <3>3. CASE expire'[u] = expire[u] /\ remain'[u] = remain[u]
      <4>1. remain[u] \in Int /\ Extra' = Extra /\ Extra[u] \in Nat
        BY <1>1, <3>1 DEF Extra
      <4> QED BY <1>1, <1>2, <1>4, <2>2, <3>1, <3>3, <4>1, SoonStill
    <3> QED BY <3>1, <3>2, <3>3
  <2>3. \A s \in {0, Lag} : \A u \in timer' \ {cur'} :
           u \in timer \ {cur} /\ (Soon(D, u, s) => Soon(D, u, s)')
    BY <1>3, <2>2
  <2> QED BY <1>1, <2>1, <2>3, KeepTurns
<1>9. PinInv(D)'
  <2> SUFFICES ASSUME pc' \in {"runnable", "run", "process", "poll"} PROVE PinInv(D)'
    BY DEF PinInv
  <2>1. next' # Eternity => InTime(D, NextOff, next)'
    BY <1>1 DEF PinInv, InTime, NextOff, Late, Lag, Most
  <2>2. ASSUME NEW u \in alive' \ (unseen' \cup {cur'}), expire'[u] # Eternity, ~InRq(u)'
        PROVE  next' # Eternity /\ NextOff' <= remain'[u]
    <3>1. u \in Tasks /\ expire'[u] = expire[u] /\ remain'[u] = remain[u] /\ ~InRq(u)
      BY <1>2, <1>4, <2>2 DEF InRq
    <3>2. u \in alive
      BY <2>2, <3>1, <1>1 DEF DateInv
    <3> QED BY <1>1, <2>2, <3>1, <3>2 DEF PinInv, NextOff
  <2> QED BY <2>1, <2>2 DEF PinInv
<1> QED BY <1>6, <1>7, <1>8, <1>9 DEF TimeInv

\* A call that gives a task another date, to come or, at the least, known to the wait queue.
LEMMA QueueingTime ==
  ASSUME NEW D, Timely(D), SchedulerInv, Order(D), TimeInv(D), SchedulerInv', Order(D)',
         pc \in {"process", "io"}, UNCHANGED <<syncs, now, pc, next, cur, rqueue, ahead, timer>>,
         NEW t \in Tasks \ {cur}, t \notin syncs, NEW date \in Ticks, date # Eternity, NEW x, InTime(D, x, date),
         SetExpire(t, date, x), TaskQueue(t, date),
         0 <= x \/ (t \notin timer /\ InWq(t) /\ Off[t] <= x),
         alive' = alive \cup {t}, unseen \subseteq unseen', pc = "process" => t \in unseen'
  PROVE  TimeInv(D)'
<1>1. /\ RqOK /\ QueueKeyed(D) /\ alive \subseteq Tasks /\ timer \subseteq Tasks /\ WqOK /\ now \in Ticks
      /\ WaitInv /\ DateInv /\ TurnInv(D) /\ PinInv(D) /\ remain \in [Tasks -> Int] /\ Lag \in Nat
      /\ Waits(timers, wqkey, Off) /\ Room(0) /\ expire \in [Tasks -> Ticks]
      /\ SyncsOK /\ Extra \in [Tasks -> Nat] /\ Off \in [Tasks -> Int]
  BY TimeParts
<1>2. RqOK' /\ QueueKeyed(D)' /\ alive' \subseteq Tasks /\ remain' \in [Tasks -> Int]
  BY PartsNext
<1>3. /\ expire'[t] = date /\ remain'[t] = x /\ x \in Int
      /\ \A u \in Tasks \ {t} : expire'[u] = expire[u] /\ remain'[u] = remain[u]
  BY <1>1 DEF SetExpire, InTime
<1>4. 0 <= x \/ (InWq(t) /\ Off[t] <= x)
  OBVIOUS
<1>5. /\ WqOK' /\ Waits(timers, wqkey, Off)'
      /\ ToSet(timers') = ToSet(timers) \cup {t} /\ Off'[t] <= x
      /\ Off'[t] = x \/ (InWq(t) /\ Off'[t] = Off[t])
      /\ InWq(t) /\ Off[t] <= x => Off'[t] = Off[t]
      /\ \A u \in Tasks \ {t} : Off'[u] = Off[u]
  <2>1. now' = now /\ t \in Tasks
    OBVIOUS
  <2> QED BY <1>1, <2>1, TaskQueueTime
<1>6. WaitInv'
  <2>1. 0 <= Off'[t] \/ (t \in ToSet(timers) /\ Off'[t] = Off[t])
    BY <1>3, <1>4, <1>5 DEF InWq
  <2>2. /\ t \in Tasks /\ Off'[t] \in Int /\ Off[t] \in Int /\ Extra[t] \in Nat
    BY <1>1, <1>3, <1>5
  <2>3. t \in ToSet(timers') => 0 <= Off'[t] + Extra[t] \/ (t \in ToSet(timers) /\ Off'[t] = Off[t])
    BY <2>1, <2>2
  <2>4. t \in Waiting' => 0 <= Stand'[t] \/ (t \in Waiting /\ Stand[t] <= Stand'[t])
    <3>1. Stand'[t] = Off'[t]
      BY <1>5, <2>2 DEF Stand
    <3>2. t \in ToSet(timers) => t \in Waiting /\ Stand[t] = Off[t]
      BY <2>2 DEF Waiting, Stand
    <3> QED BY <2>1, <2>2, <3>1, <3>2
  <2>5. \A u \in Tasks \ {t} : /\ Off'[u] = Off[u] /\ (u \in ToSet(timers') <=> u \in ToSet(timers))
                               /\ expire'[u] = expire[u] /\ remain'[u] = remain[u]
    BY <1>3, <1>5
  <2>6. now' \in Ticks
    BY <1>1
  <2>7. \A r \in {0, Lag} : Room(r) => Room(r)'
    BY <1>1, <1>2, <1>5, <2>2, <2>3, <2>4, <2>5, <2>6, MovedRoom
  <2> QED BY <1>1, <1>5, <2>7, KeepWaits
<1>7. DateInv'
  <2>1. /\ timer' \subseteq alive' /\ timer' \ {cur'} \subseteq ToSet(rqueue')
        /\ \A u \in Tasks \ alive' : expire'[u] = Eternity
    BY <1>1, <1>3 DEF DateInv
  <2>2. ASSUME NEW u \in alive, u # t PROVE Dated(u)'
    <3>1. u \in Tasks /\ Off'[u] = Off[u] /\ (InWq(u) <=> InWq(u)')
      BY <1>1, <1>5, <2>2 DEF InWq
    <3>2. Dated(u)
      BY <1>1 DEF DateInv
    <3> QED BY <1>3, <2>2, <3>1, <3>2 DEF Dated
  <2>3. Dated(t)'
    BY <1>1, <1>3, <1>5 DEF Dated, InTime, InWq
  <2>4. \A u \in alive' : Dated(u)'
    BY <2>2, <2>3
  <2> QED BY <2>1, <2>4 DEF DateInv
<1>8. TurnInv(D)'
  <2>1. cur' \in timer' /\ expire'[cur'] # Eternity => 0 <= remain'[cur'] + Late(D)
    <3>1. cur \in timer => cur \in Tasks \ {t}
      BY <1>1
    <3> QED BY <1>1, <1>3, <3>1 DEF TurnInv
  <2>2. ASSUME NEW s \in {0, Lag}, NEW u \in timer' \ {cur'}
        PROVE  Soon(D, u, s)' \/ (u \in timer \ {cur} /\ (Soon(D, u, s) => Soon(D, u, s)'))
    <3>1. u \in ToSet(rqueue') /\ u \in Tasks
      BY <1>1 DEF DateInv
    <3>2. CASE u = t
      <4>1. 0 <= remain'[u] /\ remain'[u] \in Int /\ Extra' = Extra /\ Extra[u] \in Nat
        BY <1>1, <1>3, <2>2, <3>1, <3>2 DEF Extra
      <4> QED BY <1>2, <3>1, <4>1, SoonNew
    <3>3. CASE u # t
      <4>1. expire'[u] = expire[u] /\ remain'[u] = remain[u]
        BY <1>3, <3>1, <3>3
      <4>2. Soon(D, u, s) => Soon(D, u, s)'
        BY <4>1 DEF Soon, Extra, Spare, Lag, Most
      <4> QED BY <2>2, <4>2
    <3> QED BY <3>2, <3>3
  <2> QED BY <1>1, <2>1, <2>2, KeepTurns
<1>9. PinInv(D)'
  <2> SUFFICES ASSUME pc' \in {"runnable", "run", "process", "poll"} PROVE PinInv(D)'
    BY DEF PinInv
  <2>1. next' # Eternity => InTime(D, NextOff, next)'
    BY <1>1 DEF PinInv, InTime, NextOff, Late, Lag, Most
  <2>2. ASSUME NEW u \in alive' \ (unseen' \cup {cur'}), expire'[u] # Eternity, ~InRq(u)'
        PROVE  next' # Eternity /\ NextOff' <= remain'[u]
    <3>1. u \in alive \ (unseen \cup {cur}) /\ u \in Tasks \ {t} /\ ~InRq(u)
      BY <1>2, <2>2 DEF InRq
    <3> QED BY <1>1, <1>3, <2>2, <3>1 DEF PinInv, NextOff
  <2> QED BY <2>1, <2>2 DEF PinInv
<1> QED BY <1>6, <1>7, <1>8, <1>9 DEF TimeInv

\* task_delete() and task_free(), of the running task or in a callback.
LEMMA DeletingTime ==
  ASSUME NEW D, Timely(D), SchedulerInv, Order(D), TimeInv(D), SchedulerInv', Order(D)',
         NEW t \in Tasks, TaskDelete(t), UNCHANGED <<syncs, now, next, unseen>>, cur' = None,
         \/ pc = "io" /\ pc' = "io"
         \/ pc = "process" /\ pc' = "run" /\ t = cur
  PROVE  TimeInv(D)'
<1>1. /\ RqOK /\ QueueKeyed(D) /\ alive \subseteq Tasks /\ timer \subseteq Tasks /\ WqOK /\ now \in Ticks
      /\ WaitInv /\ DateInv /\ TurnInv(D) /\ PinInv(D) /\ remain \in [Tasks -> Int] /\ Lag \in Nat
      /\ Waits(timers, wqkey, Off) /\ expire \in [Tasks -> Ticks] /\ RunningTask /\ None \notin Tasks
      /\ SyncsOK /\ Extra \in [Tasks -> Nat]
  BY TimeParts
<1>2. RqOK' /\ QueueKeyed(D)' /\ alive' \subseteq Tasks /\ WqOK' /\ remain' \in [Tasks -> Int]
  BY PartsNext
<1>3. /\ alive' = alive \ {t} /\ timer' = timer \ {t} /\ UnlinkWq(t) /\ expire'[t] = Eternity
      /\ \A u \in Tasks \ {t} : expire'[u] = expire[u] /\ remain'[u] = remain[u]
  BY <1>1 DEF TaskDelete, SetExpire
<1>4. timer' \subseteq timer \ {cur, t}
  BY <1>1, <1>3 DEF RunningTask
<1>5. /\ Waits(timers, wqkey, Off)' /\ ToSet(timers') = ToSet(timers) \ {t}
      /\ \A u \in Tasks \ {t} : Off'[u] = Off[u]
  BY <1>1, <1>3, UnlinkWqTime
<1>6. /\ ToSet(rqueue') = ToSet(rqueue) \ {t}
      /\ \A u \in ToSet(rqueue') : Turns(D, rqueue', ahead', u) <= Turns(D, rqueue, ahead, u)
  <2>1. CASE InRq(t)
    <3>1. UnlinkRq(t)
      BY <2>1 DEF TaskDelete
    <3> QED BY <1>1, <3>1, LeftTurns
  <2>2. CASE ~InRq(t)
    <3>1. rqueue' = rqueue /\ ahead' = ahead /\ t \notin ToSet(rqueue)
      BY <2>2 DEF TaskDelete, InRq
    <3>2. \A u \in ToSet(rqueue) : Turns(D, rqueue, ahead, u) \in 1..Most(D)
      BY <1>1, TurnsAre
    <3> QED BY <3>1, <3>2, TimelyIs
  <2> QED BY <2>1, <2>2
<1>7. WaitInv'
  <2>1. t \notin ToSet(timers') /\ t \notin Waiting'
    BY <1>3, <1>5 DEF Waiting
  <2>2. \A u \in Tasks \ {t} : /\ Off'[u] = Off[u] /\ (u \in ToSet(timers') <=> u \in ToSet(timers))
                               /\ expire'[u] = expire[u] /\ remain'[u] = remain[u]
    BY <1>3, <1>5
  <2>3. now' \in Ticks
    BY <1>1
  <2>4. \A r \in {0, Lag} : Room(r) => Room(r)'
    BY <1>1, <1>2, <2>1, <2>2, <2>3, MovedRoom
  <2> QED BY <1>1, <1>5, <2>4, KeepWaits
<1>8. DateInv'
  <2>1. /\ timer' \subseteq alive' /\ timer' \ {cur'} \subseteq ToSet(rqueue')
        /\ \A u \in Tasks \ alive' : expire'[u] = Eternity
    BY <1>1, <1>3, <1>4, <1>6 DEF DateInv
  <2>2. ASSUME NEW u \in alive, u # t PROVE Dated(u)'
    <3>1. u \in Tasks /\ Off'[u] = Off[u] /\ (InWq(u) <=> InWq(u)')
      BY <1>1, <1>5, <2>2 DEF InWq
    <3>2. Dated(u)
      BY <1>1 DEF DateInv
    <3> QED BY <1>3, <2>2, <3>1, <3>2 DEF Dated
  <2> QED BY <1>3, <2>1, <2>2 DEF DateInv
<1>9. TurnInv(D)'
  <2>1. cur' \notin timer' /\ pc # "run"
    BY <1>1, <1>3
  <2>2. ASSUME NEW s \in {0, Lag}, NEW u \in timer' \ {cur'}
        PROVE  u \in timer \ {cur} /\ (Soon(D, u, s) => Soon(D, u, s)')
    <3>1. /\ u \in timer \ {cur} /\ u # t /\ u \in Tasks /\ u \in ToSet(rqueue)
          /\ u \in ToSet(rqueue') /\ s \in Int /\ remain[u] \in Int
          /\ Extra' = Extra /\ Extra[u] \in Nat
      BY <1>1, <1>4, <1>6, <2>2 DEF DateInv, Extra
    <3> QED BY <1>1, <1>2, <1>3, <1>6, <3>1, SoonStill
  <2>3. pc' = pc \/ (pc = "process" /\ pc' = "run")
    OBVIOUS
  <2> QED BY <1>1, <2>1, <2>2, <2>3, KeepTurns
<1>10. PinInv(D)'
  <2> SUFFICES ASSUME pc' = "run", pc = "process", t = cur PROVE PinInv(D)'
    BY DEF PinInv
  <2>1. next' # Eternity => InTime(D, NextOff, next)'
    BY <1>1 DEF PinInv, InTime, NextOff, Late, Lag, Most
  <2>2. ASSUME NEW u \in alive' \ (unseen' \cup {cur'}), expire'[u] # Eternity, ~InRq(u)'
        PROVE  next' # Eternity /\ NextOff' <= remain'[u]
    <3>1. u \in alive \ (unseen \cup {cur}) /\ u \in Tasks \ {t} /\ ~InRq(u)
      BY <1>1, <1>3, <1>6, <2>2 DEF InRq
    <3> QED BY <1>1, <1>3, <2>2, <3>1 DEF PinInv, NextOff
  <2> QED BY <2>1, <2>2 DEF PinInv
<1> QED BY <1>7, <1>8, <1>9, <1>10 DEF TimeInv

\* task_wakeup()
LEMMA WakeupTime ==
  ASSUME NEW D, Timely(D), SchedulerInv, Order(D), TimeInv(D), SchedulerInv', Order(D)',
         NEW t \in Tasks, Wakeup(t), syncs' = syncs
  PROVE  TimeInv(D)'
<1>1. /\ pc \in {"process", "io"} /\ TaskWakeup(t, nice[t], FALSE)
      /\ UNCHANGED <<alive, now, pc, next, cur, unseen, timers, wqkey, expire, remain>>
  BY DEF Wakeup, Call, loop, waitq, dates, life
<1>2. nice[t] \in AllNices
  BY TimelyIs, Parts
<1> QED BY <1>1, <1>2, WakingTime

\* session_shutdown()
LEMMA SessionShutdownTime ==
  ASSUME NEW D, Timely(D), SchedulerInv, Order(D), TimeInv(D), SchedulerInv', Order(D)',
         NEW t \in Tasks, SessionShutdown(t), syncs' = syncs
  PROVE  TimeInv(D)'
<1>1. /\ pc \in {"process", "io"} /\ TaskWakeup(t, KillNice, FALSE)
      /\ UNCHANGED <<alive, now, pc, next, cur, unseen, timers, wqkey, expire, remain>>
  BY DEF SessionShutdown, Call, loop, waitq, dates, life
<1>2. KillNice \in AllNices
  BY DEF AllNices
<1> QED BY <1>1, <1>2, WakingTime

\* conn_session_complete(): the timeout of the handshake is no more.
LEMMA SessionCompleteTime ==
  ASSUME NEW D, Timely(D), SchedulerInv, Order(D), TimeInv(D), SchedulerInv', Order(D)',
         NEW t \in Tasks, SessionComplete(t), syncs' = syncs
  PROVE  TimeInv(D)'
<1>1. /\ pc \in {"process", "io"} /\ TaskWakeup(t, nice[t], FALSE) /\ SetExpire(t, Eternity, 0)
      /\ UNCHANGED <<alive, now, pc, next, cur, unseen, timers, wqkey>>
  BY DEF SessionComplete, Call, loop, waitq
<1>2. nice[t] \in AllNices /\ expire \in [Tasks -> Ticks] /\ remain \in [Tasks -> Int]
  BY TimelyIs, Parts, TimeParts
<1>3. \A u \in Tasks : expire'[u] = Eternity \/ (expire'[u] = expire[u] /\ remain'[u] = remain[u])
  BY <1>1, <1>2 DEF SetExpire
<1> QED BY <1>1, <1>2, <1>3, WakingTime

\* A nice value moves no date.
LEMMA SetNiceTime ==
  ASSUME NEW D, Timely(D), SchedulerInv, Order(D), TimeInv(D), SetNice,
         syncs' = syncs
  PROVE  TimeInv(D)'
<1>1. /\ pc = "process"
      /\ UNCHANGED <<alive, now, pc, next, cur, unseen, timers, wqkey, expire, remain, timer,
                     rqueue, ahead>>
  BY DEF SetNice, Call, loop, waitq, runq, dates, life
<1>2. WaitInv /\ DateInv /\ TurnInv(D) /\ PinInv(D) /\ Waits(timers, wqkey, Off)
  BY TimeParts
<1>3. Off' = Off /\ Waits(timers, wqkey, Off)' /\ \A r : Room(r)' = Room(r)
  BY <1>1, <1>2, SameWaits
<1>4. WaitInv' /\ DateInv'
  BY <1>1, <1>2, <1>3, KeepWaits DEF DateInv, Dated, InWq
<1>5. TurnInv(D)'
  <2>1. \A s \in {0, Lag} : \A t \in timer' \ {cur'} :
           t \in timer \ {cur} /\ (Soon(D, t, s) => Soon(D, t, s)')
    BY <1>1 DEF Soon, Extra, Spare, Lag, Most
  <2>2. cur' \in timer' /\ expire'[cur'] # Eternity => 0 <= remain'[cur'] + Late(D)
    BY <1>1, <1>2 DEF TurnInv
  <2> QED BY <1>1, <1>2, <2>1, <2>2, KeepTurns
<1>6. PinInv(D)'
  BY <1>1, <1>2 DEF PinInv, InTime, NextOff, Late, Lag, Most, InRq
<1> QED BY <1>4, <1>5, <1>6 DEF TimeInv

\* A callback moves a date to one to come.
LEMMA PostponeTime ==
  ASSUME NEW D, Timely(D), SchedulerInv, Order(D), TimeInv(D), SchedulerInv', Order(D)',
         NEW t \in Tasks, Postpone(t), syncs' = syncs
  PROVE  TimeInv(D)'
<1>1. /\ pc \in {"process", "io"} /\ t \in Services \ (syncs \cup {cur}) /\ Unseen(t)
      /\ UNCHANGED <<alive, now, pc, next, cur, rqueue, ahead, timer>>
  BY DEF Postpone, Call, loop, runq, life
<1>2. PICK d \in Timeouts : /\ SetExpire(t, TickAdd(now, d), Delay(d))
                            /\ TaskQueue(t, TickAdd(now, d))
  BY DEF Postpone
<1>3. now \in Ticks /\ RestOK
  BY TimeParts
<1>4. /\ InTime(D, Delay(d), TickAdd(now, d)) /\ 0 <= Delay(d)
      /\ TickAdd(now, d) \in Ticks /\ TickAdd(now, d) # Eternity
  BY <1>3, TickAddTime
<1>5. unseen \subseteq unseen' /\ (pc = "process" => t \in unseen')
  BY <1>1 DEF Unseen
<1>6. alive' = alive \cup {t} /\ t \in Tasks \ {cur} /\ t \notin syncs
  BY <1>1, <1>3 DEF RestOK
<1> QED BY <1>1, <1>2, <1>4, <1>5, <1>6, QueueingTime

\* task_schedule(): to the earlier of two dates, the one the task has and one to come.
LEMMA TaskScheduleTime ==
  ASSUME NEW D, Timely(D), SchedulerInv, Order(D), TimeInv(D), SchedulerInv', Order(D)',
         NEW t \in Tasks, TaskSchedule(t), syncs' = syncs
  PROVE  TimeInv(D)'
<1>1. /\ pc \in {"process", "io"} /\ t \in Services \ (syncs \cup {cur}) /\ Unseen(t) /\ ~InRq(t)
      /\ UNCHANGED <<alive, now, pc, next, cur, rqueue, ahead, timer>>
  BY DEF TaskSchedule, Call, loop, runq, life
<1>2. PICK d \in Timeouts :
         LET when == IF InWq(t) THEN TickFirst(TickAdd(now, d), expire[t]) ELSE TickAdd(now, d)
         IN  /\ SetExpire(t, when, IF when = TickAdd(now, d) THEN Delay(d) ELSE remain[t])
             /\ TaskQueue(t, when)
  BY DEF TaskSchedule
<1> DEFINE add == TickAdd(now, d)
           when == IF InWq(t) THEN TickFirst(add, expire[t]) ELSE add
           x == IF when = add THEN Delay(d) ELSE remain[t]
<1>3. now \in Ticks /\ RestOK /\ DateInv /\ expire \in [Tasks -> Ticks]
  BY TimeParts
<1>4. InTime(D, Delay(d), add) /\ 0 <= Delay(d) /\ add \in Ticks /\ add # Eternity
  BY <1>3, TickAddTime
<1>5. unseen \subseteq unseen' /\ (pc = "process" => t \in unseen')
  BY <1>1 DEF Unseen
<1>6. alive' = alive \cup {t} /\ t \in Tasks \ {cur} /\ t \notin syncs /\ t \in alive
  BY <1>1, <1>3 DEF RestOK
<1>7. t \notin timer
  BY <1>1, <1>3 DEF DateInv, InRq
<1>8. SetExpire(t, when, x) /\ TaskQueue(t, when)
  BY <1>2
<1> HIDE DEF add
<1>9. /\ when \in Ticks /\ when # Eternity /\ InTime(D, x, when)
      /\ 0 <= x \/ (t \notin timer /\ InWq(t) /\ Off[t] <= x)
  <2>1. CASE when = add
    BY <1>4, <2>1
  <2>2. CASE when # add
    <3>1. InWq(t) /\ when = expire[t]
      BY <2>2 DEF TickFirst
    <3>2. expire[t] # Eternity
      BY <1>4, <2>2, <3>1 DEF TickFirst
    <3>3. InTime(D, remain[t], expire[t])
      BY <1>6, <3>2, DateIn
    <3>4. Off[t] <= remain[t]
      BY <1>3, <1>6, <1>7, <3>2 DEF DateInv, Dated
    <3> QED BY <1>3, <1>6, <1>7, <2>2, <3>1, <3>2, <3>3, <3>4
  <2> QED BY <2>1, <2>2
<1> HIDE DEF when, x
<1> QED BY <1>1, <1>5, <1>6, <1>8, <1>9, QueueingTime

\* session_accept(): the new task waits for its timeout, or to run.
LEMMA SessionAcceptTime ==
  ASSUME NEW D, Timely(D), SchedulerInv, Order(D), TimeInv(D), SchedulerInv', Order(D)',
         NEW t \in Tasks, SessionAccept(t), syncs' = syncs
  PROVE  TimeInv(D)'
<1>1. /\ pc = "io" /\ t \in Sessions /\ t \notin alive /\ alive' = alive \cup {t}
      /\ UNCHANGED <<now, pc, next, cur, unseen>>
  BY DEF SessionAccept, Call, loop
<1>2. PICK n \in Nices :
         \/ /\ \E d \in Timeouts : /\ SetExpire(t, TickAdd(now, d), Delay(d))
                                   /\ TaskQueue(t, TickAdd(now, d))
            /\ UNCHANGED <<rqueue, ahead, timer>>
         \/ TaskWakeup(t, n, FALSE) /\ UNCHANGED <<expire, remain, timers, wqkey>>
  BY DEF SessionAccept, runq, dates, waitq
<1>3. now \in Ticks /\ RunningTask /\ None \notin Tasks /\ n \in AllNices /\ SyncsOK
  BY TimeParts DEF AllNices
<1>4. CASE TaskWakeup(t, n, FALSE) /\ UNCHANGED <<expire, remain, timers, wqkey>>
  BY <1>1, <1>3, <1>4, WakingTime
<1>5. CASE /\ \E d \in Timeouts : /\ SetExpire(t, TickAdd(now, d), Delay(d))
                                  /\ TaskQueue(t, TickAdd(now, d))
           /\ UNCHANGED <<rqueue, ahead, timer>>
  <2>1. PICK d \in Timeouts : /\ SetExpire(t, TickAdd(now, d), Delay(d))
                              /\ TaskQueue(t, TickAdd(now, d))
    BY <1>5
  <2>2. /\ InTime(D, Delay(d), TickAdd(now, d)) /\ 0 <= Delay(d)
        /\ TickAdd(now, d) \in Ticks /\ TickAdd(now, d) # Eternity
    BY <1>3, TickAddTime
  <2>3. t \in Tasks \ {cur} /\ t \notin syncs
    BY <1>1, <1>3, SchedulerAssumption DEF RunningTask, SyncsOK
  <2>4. unseen \subseteq unseen' /\ pc \in {"process", "io"} /\ pc # "process"
    BY <1>1
  <2> QED BY <1>1, <1>5, <2>1, <2>2, <2>3, <2>4, QueueingTime
<1> QED BY <1>2, <1>4, <1>5

\* kill_mini_session()
LEMMA KillMiniSessionTime ==
  ASSUME NEW D, Timely(D), SchedulerInv, Order(D), TimeInv(D), SchedulerInv', Order(D)',
         NEW t \in Tasks, KillMiniSession(t), syncs' = syncs
  PROVE  TimeInv(D)'
<1>1. pc = "io" /\ TaskDelete(t) /\ UNCHANGED <<now, pc, next, cur, unseen>>
  BY DEF KillMiniSession, Call, loop
<1>2. cur' = None
  BY <1>1, TimeParts DEF RunningTask
<1> QED BY <1>1, <1>2, DeletingTime

\* process() deleted the task.
LEMMA ReturnNullTime ==
  ASSUME NEW D, Timely(D), SchedulerInv, Order(D), TimeInv(D), SchedulerInv', Order(D)', ReturnNull,
         syncs' = syncs
  PROVE  TimeInv(D)'
<1>1. /\ pc = "process" /\ cur \in Tasks /\ TaskDelete(cur) /\ pc' = "run" /\ cur' = None
      /\ UNCHANGED <<now, next, unseen>>
  BY DEF ReturnNull, Tasks
<1> QED BY <1>1, DeletingTime

\* The next event is the earlier one of two.
LEMMA NextTime ==
  ASSUME NEW D, Timely(D), now \in Ticks, NEW n, n # Eternity => InTime(D, Signed(n - now, TickRange), n),
         NEW x, NEW date, date # Eternity, InTime(D, x, date)
  PROVE  LET f == TickFirst(n, date)
         IN  /\ f # Eternity /\ InTime(D, Signed(f - now, TickRange), f)
             /\ Signed(f - now, TickRange) <= x
             /\ n # Eternity => Signed(f - now, TickRange) <= Signed(n - now, TickRange)
<1>1. Signed(date - now, TickRange) = x /\ x \in Int
  BY Passes DEF InTime
<1>2. CASE n = Eternity
  BY <1>1, <1>2 DEF TickFirst
<1>3. CASE n # Eternity
  <2>1. PICK y \in Int : y = Signed(n - now, TickRange) /\ InTime(D, y, n)
    BY <1>3 DEF InTime
  <2>2. TickFirst(n, date) = IF y <= x THEN n ELSE date
    BY <1>3, <2>1, TickFirstTime
  <2> QED BY <1>1, <1>3, <2>1, <2>2
<1> QED BY <1>2, <1>3

\* process() returned the task with a date, known to the wait queue or to come, or with none.
LEMMA RequeuedTime ==
  ASSUME NEW D, Timely(D), SchedulerInv, Order(D), TimeInv(D), SchedulerInv', Order(D)',
         pc = "process", NEW t \in Tasks, t = cur, NEW date \in Ticks, NEW x \in Int, Requeued(date),
         expire' = [expire EXCEPT ![t] = date], remain' = [remain EXCEPT ![t] = x],
         syncs' = syncs,
         date # Eternity =>
            /\ InTime(D, x, date)
            /\ \/ 0 <= x
               \/ InWq(t) /\ Off[t] <= x
               \/ /\ t \in syncs /\ ~InWq(t) /\ expire[t] # Eternity
                  /\ remain[t] <= x /\ -MaxLesson <= x
  PROVE  TimeInv(D)'
<1>1. /\ RqOK /\ QueueKeyed(D) /\ alive \subseteq Tasks /\ timer \subseteq Tasks /\ WqOK /\ now \in Ticks
      /\ WaitInv /\ DateInv /\ TurnInv(D) /\ PinInv(D) /\ remain \in [Tasks -> Int] /\ Lag \in Nat
      /\ Waits(timers, wqkey, Off) /\ expire \in [Tasks -> Ticks] /\ RunningTask /\ None \notin Tasks
      /\ SyncsOK /\ Extra \in [Tasks -> Nat] /\ Off \in [Tasks -> Int] /\ Room(0)
  BY TimeParts
<1>2. /\ alive' \subseteq Tasks /\ t \in alive /\ WqOK' /\ remain' \in [Tasks -> Int] /\ now' \in Ticks
  BY <1>1, PartsNext DEF RunningTask
<1>3. /\ TaskQueue(t, date) /\ pc' = "run" /\ cur' = None /\ timer' = timer \ {t}
      /\ next' = IF date # Eternity THEN TickFirst(next, date) ELSE next
      /\ UNCHANGED <<alive, now, rqueue, ahead, unseen>>
  BY DEF Requeued, life
<1>4. /\ expire'[t] = date /\ remain'[t] = x
      /\ \A u \in Tasks \ {t} : expire'[u] = expire[u] /\ remain'[u] = remain[u]
  BY <1>1, <1>2
<1>5. /\ Waits(timers, wqkey, Off)'
      /\ \A u \in Tasks \ {t} : Off'[u] = Off[u] /\ (InWq(u) <=> InWq(u)')
      /\ date = Eternity => (InWq(t)' => InWq(t)) /\ Off'[t] = Off[t]
      /\ date # Eternity =>
            /\ InWq(t)' /\ Off'[t] <= x /\ (Off'[t] = x \/ (InWq(t) /\ Off'[t] = Off[t]))
            /\ InWq(t) /\ Off[t] <= x => Off'[t] = Off[t]
  <2>1. CASE date = Eternity
    <3>1. UNCHANGED <<timers, wqkey, now>>
      BY <1>3, <2>1 DEF TaskQueue, waitq
    <3>2. Off' = Off /\ Waits(timers, wqkey, Off)'
      BY <1>1, <3>1, SameOff
    <3> QED BY <2>1, <3>1, <3>2 DEF InWq
  <2>2. CASE date # Eternity
    <3>1. InTime(D, x, date)
      BY <2>2
    <3>2. /\ Waits(timers, wqkey, Off)'
          /\ ToSet(timers') = ToSet(timers) \cup {t} /\ Off'[t] <= x
          /\ Off'[t] = x \/ (InWq(t) /\ Off'[t] = Off[t])
          /\ InWq(t) /\ Off[t] <= x => Off'[t] = Off[t]
          /\ \A u \in Tasks \ {t} : Off'[u] = Off[u]
      BY <1>1, <1>2, <1>3, <2>2, <3>1, TaskQueueTime
    <3> QED BY <2>2, <3>2 DEF InWq
  <2> QED BY <2>1, <2>2
<1>6. Room(Lag)
  BY <1>1 DEF WaitInv
<1>7. WaitInv'
  <2>1. /\ t \in Tasks /\ Off'[t] \in Int /\ Off[t] \in Int /\ Extra[t] \in Nat /\ remain[t] \in Int
        /\ t \in syncs => Extra[t] = MaxLesson
    <3>1. Off'[t] \in Int
      BY <1>1, <1>5
    <3> QED BY <1>1, <3>1 DEF Extra
  <2>2. \/ InWq(t) /\ Off'[t] = Off[t]
        \/ date # Eternity /\ Off'[t] = x /\ 0 <= x
        \/ /\ date # Eternity /\ Off'[t] = x /\ t \in syncs /\ ~InWq(t) /\ expire[t] # Eternity
           /\ remain[t] <= x /\ -MaxLesson <= x
        \/ date = Eternity /\ ~InWq(t)'
    BY <1>5
  <2>3. InWq(t)' => 0 <= Off'[t] + Extra[t] \/ (InWq(t) /\ Off'[t] = Off[t])
    BY <2>1, <2>2, TimelyIs
  <2>4. t \in Waiting' => 0 <= Stand'[t] \/ (t \in Waiting /\ Stand[t] <= Stand'[t])
    <3>1. InWq(t)' => Stand'[t] = Off'[t]
      BY <2>1 DEF Stand, InWq
    <3>2. InWq(t) => t \in Waiting /\ Stand[t] = Off[t]
      BY <2>1 DEF Waiting, Stand, InWq
    <3>3. t \in syncs /\ ~InWq(t) /\ expire[t] # Eternity => t \in Waiting /\ Stand[t] = remain[t]
      BY <2>1 DEF Waiting, Stand, InWq
    <3>4. t \in Waiting' /\ date = Eternity => InWq(t)'
      BY <1>4 DEF Waiting, InWq
    <3> QED BY <1>5, <2>1, <2>2, <3>1, <3>2, <3>3, <3>4
  <2>5. \A u \in Tasks \ {t} : /\ Off'[u] = Off[u] /\ (u \in ToSet(timers') <=> u \in ToSet(timers))
                               /\ expire'[u] = expire[u] /\ remain'[u] = remain[u]
    BY <1>4, <1>5 DEF InWq
  <2>6. t \in ToSet(timers') => 0 <= Off'[t] + Extra[t] \/ (t \in ToSet(timers) /\ Off'[t] = Off[t])
    BY <2>3 DEF InWq
  <2>7. Room(Lag)'
    BY <1>1, <1>2, <1>6, <2>1, <2>4, <2>5, <2>6, MovedRoom
  <2> QED BY <1>1, <1>3, <1>5, <2>7 DEF WaitInv, Lag
<1>8. DateInv'
  <2>1. /\ timer' \subseteq alive' /\ timer' \ {cur'} \subseteq ToSet(rqueue')
        /\ \A u \in Tasks \ alive' : expire'[u] = Eternity
    BY <1>1, <1>2, <1>3, <1>4 DEF DateInv
  <2>2. ASSUME NEW u \in alive, u # t PROVE Dated(u)'
    <3>1. u \in Tasks /\ Off'[u] = Off[u] /\ (InWq(u) <=> InWq(u)')
      BY <1>1, <1>5, <2>2
    <3>2. Dated(u)
      BY <1>1 DEF DateInv
    <3> QED BY <1>3, <1>4, <2>2, <3>1, <3>2 DEF Dated
  <2>3. Dated(t)'
    BY <1>3, <1>4, <1>5 DEF Dated, InTime
  <2> QED BY <1>3, <2>1, <2>2, <2>3 DEF DateInv
<1>9. TurnInv(D)'
  <2>1. cur' \notin timer'
    BY <1>1, <1>3
  <2>2. ASSUME NEW s \in {0, Lag}, NEW u \in timer' \ {cur'}
        PROVE  u \in timer \ {cur} /\ (Soon(D, u, s) => Soon(D, u, s)')
    <3>1. u \in timer \ {cur} /\ u \in Tasks
      BY <1>1, <1>3
    <3>2. expire'[u] = expire[u] /\ remain'[u] = remain[u]
      BY <1>4, <3>1
    <3> QED BY <1>3, <3>1, <3>2 DEF Soon, Extra, Spare, Lag, Most
  <2> QED BY <1>1, <1>3, <2>1, <2>2, KeepTurns
<1>10. PinInv(D)'
  <2>1. next # Eternity => InTime(D, NextOff, next)
    BY <1>1 DEF PinInv
  <2>2. /\ next' # Eternity => InTime(D, NextOff, next)'
        /\ next # Eternity => next' # Eternity /\ NextOff' <= NextOff
        /\ date # Eternity => next' # Eternity /\ NextOff' <= x
    <3>1. CASE date = Eternity
      <4>1. next' = next /\ NextOff' = NextOff
        BY <1>3, <3>1 DEF NextOff
      <4>2. next # Eternity => NextOff <= NextOff
        BY <2>1 DEF InTime
      <4> QED BY <1>3, <2>1, <3>1, <4>1, <4>2 DEF InTime, Late, Lag, Most
    <3>2. CASE date # Eternity
      <4>1. next' = TickFirst(next, date) /\ NextOff' = Signed(next' - now, TickRange)
        BY <1>3, <3>2 DEF NextOff
      <4>2. InTime(D, x, date)
        BY <3>2
      <4>3. /\ next' # Eternity /\ InTime(D, NextOff', next') /\ NextOff' <= x
            /\ next # Eternity => NextOff' <= NextOff
        BY <1>1, <2>1, <3>2, <4>1, <4>2, NextTime DEF NextOff
      <4>4. InTime(D, NextOff, next)'
        BY <1>3, <4>3 DEF InTime, Late, Lag, Most
      <4> QED BY <4>3, <4>4
    <3> QED BY <3>1, <3>2
  <2>3. ASSUME NEW u \in alive' \ (unseen' \cup {cur'}), expire'[u] # Eternity, ~InRq(u)'
        PROVE  next' # Eternity /\ NextOff' <= remain'[u]
    <3>1. CASE u = t
      BY <1>4, <2>2, <2>3, <3>1
    <3>2. CASE u # t
      <4>1. u \in alive \ (unseen \cup {cur}) /\ u \in Tasks \ {t} /\ ~InRq(u)
        BY <1>2, <1>3, <2>3, <3>2 DEF InRq
      <4>2. next # Eternity /\ NextOff <= remain[u] /\ remain[u] \in Int
        BY <1>1, <1>4, <2>3, <4>1 DEF PinInv
      <4>3. NextOff \in Int /\ NextOff' \in Int
        BY <2>1, <2>2, <4>2 DEF InTime
      <4> QED BY <1>4, <2>2, <4>1, <4>2, <4>3
    <3> QED BY <3>1, <3>2
  <2> QED BY <2>2, <2>3 DEF PinInv
<1> QED BY <1>7, <1>8, <1>9, <1>10 DEF TimeInv

\* The date the task returned with.
LEMMA ReturnTime ==
  ASSUME NEW D, Timely(D), SchedulerInv, Order(D), TimeInv(D), SchedulerInv', Order(D)', Return,
         syncs' = syncs
  PROVE  TimeInv(D)'
<1>1. /\ DateInv /\ now \in Ticks /\ expire \in [Tasks -> Ticks] /\ remain \in [Tasks -> Int]
      /\ RunningTask /\ alive \subseteq Tasks /\ SyncsOK
  BY TimeParts
<1>2. pc = "process" /\ cur \in alive /\ cur \in Tasks
  BY <1>1 DEF Return, ReturnLearning, RunningTask
<1>3. CASE /\ cur \notin timer \/ ~TickIsExpired(expire[cur], now)
           /\ Requeued(expire[cur]) /\ UNCHANGED dates
  <2>1. expire' = [expire EXCEPT ![cur] = expire[cur]] /\ remain' = [remain EXCEPT ![cur] = remain[cur]]
    BY <1>1, <1>2, <1>3 DEF dates
  <2>2. ASSUME expire[cur] # Eternity
        PROVE  /\ InTime(D, remain[cur], expire[cur])
               /\ 0 <= remain[cur] \/ (InWq(cur) /\ Off[cur] <= remain[cur])
    <3>1. InTime(D, remain[cur], expire[cur])
      BY <1>2, <2>2, DateIn
    <3>2. CASE cur \notin timer
      BY <1>1, <1>2, <2>2, <3>1, <3>2 DEF DateInv, Dated
    <3>3. CASE ~TickIsExpired(expire[cur], now)
      <4>1. ~(remain[cur] <= 0)
        BY <1>1, <2>2, <3>1, <3>3, Passes
      <4> QED BY <1>1, <1>2, <3>1, <4>1
    <3> QED BY <1>3, <3>2, <3>3
  <2>3. expire[cur] \in Ticks /\ remain[cur] \in Int
    BY <1>1, <1>2
  <2> QED BY <1>2, <1>3, <2>1, <2>2, <2>3, RequeuedTime
<1>4. CASE SetExpire(cur, Eternity, 0) /\ Requeued(Eternity)
  <2>1. Eternity \in Ticks
    BY TicksAre
  <2>2. Eternity = 0 /\ 0 \in Int
    BY TicksAre
  <2> QED BY <1>2, <1>4, <2>1, <2>2, RequeuedTime DEF SetExpire
<1>5. CASE \E d \in Timeouts : SetExpire(cur, TickAdd(now, d), Delay(d)) /\ Requeued(TickAdd(now, d))
  <2>1. PICK d \in Timeouts : SetExpire(cur, TickAdd(now, d), Delay(d)) /\ Requeued(TickAdd(now, d))
    BY <1>5
  <2>2. /\ InTime(D, Delay(d), TickAdd(now, d)) /\ 0 <= Delay(d) /\ Delay(d) \in Int
        /\ TickAdd(now, d) \in Ticks
    BY <1>1, TickAddTime
  <2> QED BY <1>2, <2>1, <2>2, RequeuedTime DEF SetExpire
<1>6. CASE \E late \in 0..MaxLesson :
              /\ cur \in syncs /\ expire[cur] # Eternity /\ remain[cur] <= -late
              /\ (now - late) % TickRange # Eternity
              /\ SetExpire(cur, (now - late) % TickRange, -late)
              /\ Requeued((now - late) % TickRange)
  <2>1. PICK late \in 0..MaxLesson :
              /\ cur \in syncs /\ expire[cur] # Eternity /\ remain[cur] <= -late
              /\ SetExpire(cur, (now - late) % TickRange, -late)
              /\ Requeued((now - late) % TickRange)
    BY <1>6
  <2>2. late \in Nat /\ late <= MaxLesson /\ MaxLesson \in Nat
    BY <2>1, TimelyIs
  <2>3. PICK date \in Ticks, x \in Int : date = (now - late) % TickRange /\ x = -late
    <3>1. (now - late) % TickRange \in 0..(TickRange - 1)
      BY <1>1, <2>2, TicksAre DEF Ticks
    <3> QED BY <2>2, <3>1 DEF Ticks
  <2>4. InTime(D, remain[cur], expire[cur])
    BY <1>2, <2>1, DateIn
  <2>5. InTime(D, x, date)
    <3>1. x <= 0 /\ -Late(D) <= x
      BY <2>2, <2>3, TimelyIs
    <3>2. PICK d \in Timeouts : remain[cur] <= d + 1
      BY <2>4 DEF InTime, Near
    <3>3. Near(x)
      <4>1. x <= d + 1
        BY <2>3, <3>1, <3>2, TicksAre
      <4> QED BY <4>1 DEF Near
    <3>4. At(TickRange, now, x, date)
      <4>1. now + x = now - late
        BY <1>1, <2>2, <2>3, TicksAre
      <4> QED BY <2>3, <4>1 DEF At
    <3> QED BY <2>3, <3>1, <3>3, <3>4, TicksAre DEF InTime
  <2>6. /\ cur \in syncs /\ expire[cur] # Eternity /\ remain[cur] <= x /\ -MaxLesson <= x
        /\ remain[cur] \in Int
    BY <1>1, <1>2, <2>1, <2>2, <2>3
  <2>7. Dated(cur)
    BY <1>1, <1>2 DEF DateInv
  <2>8. \/ InWq(cur) /\ Off[cur] <= x
        \/ ~InWq(cur)
    <3>1. CASE cur \in timer
      BY <2>6, <2>7, <3>1 DEF Dated
    <3>2. CASE cur \notin timer
      <4>1. InWq(cur) /\ Off[cur] <= remain[cur]
        BY <2>6, <2>7, <3>2 DEF Dated
      <4>2. Off[cur] \in Int
        BY <1>2, TimeParts
      <4> QED BY <2>3, <2>6, <4>1, <4>2
    <3> QED BY <3>1, <3>2
  <2>9. /\ expire' = [expire EXCEPT ![cur] = date] /\ remain' = [remain EXCEPT ![cur] = x]
        /\ Requeued(date)
    BY <2>1, <2>3 DEF SetExpire
  <2> QED BY <1>2, <2>5, <2>6, <2>8, <2>9, RequeuedTime
<1> QED BY <1>3, <1>4, <1>5, <1>6 DEF Return, ReturnLearning

\* No task has a date at first.
LEMMA InitTime ==
  ASSUME NEW D, Timely(D), Init PROVE TimeInv(D)
<1>1. /\ ToSet(timers) = {} /\ Len(timers) = 0 /\ pc = "io" /\ timer = {} /\ cur = None
      /\ \A t \in Tasks : expire[t] = Eternity
  BY DEF Init, ToSet
<1>2. alive \subseteq Tasks
  BY DEF Init, Tasks
<1>3. WaitInv
  BY <1>1 DEF WaitInv, Waits, Sorted, Room, Eased
<1>4. DateInv
  BY <1>1, <1>2 DEF DateInv, Dated
<1>5. TurnInv(D) /\ PinInv(D)
  BY <1>1 DEF TurnInv, PinInv
<1> QED BY <1>3, <1>4, <1>5 DEF TimeInv

\* wake_expired_tasks() starts at the timer that is farthest behind.
LEMMA WakeExpiredTasksTime ==
  ASSUME NEW D, Timely(D), SchedulerInv, Order(D), TimeInv(D), WakeExpiredTasks,
         syncs' = syncs
  PROVE  TimeInv(D)'
<1> DEFINE e == LookupGe(timers, wqkey, (now - TickRange \div 2) % TickRange)
<1>1. /\ pc = "io" /\ pc' = "wake" /\ eb' = e
      /\ UNCHANGED <<alive, now, cur, unseen, timers, wqkey, expire, remain, timer, rqueue, ahead>>
  BY DEF WakeExpiredTasks, life, waitq, runq, dates
<1>2. /\ WqOK /\ now \in Ticks /\ WaitInv /\ DateInv /\ TurnInv(D) /\ Waits(timers, wqkey, Off)
      /\ Room(0) /\ Off \in [Tasks -> Int]
  BY TimeParts
<1>3. Off' = Off /\ Waits(timers, wqkey, Off)' /\ Room(0)'
  BY <1>1, <1>2, SameWaits
<1>4. AtFirst'
  <2>1. CASE timers = <<>>
    BY <1>1, <2>1 DEF AtFirst
  <2>2. CASE timers # <<>>
    <3>1. KeyedBy(TickRange, timers, wqkey, now, Off)
      BY <1>2, DistKeyed DEF WqOK, Waits, Off
    <3>2. /\ TickRange \in Nat /\ TickRange > 0 /\ TickRange % 2 = 0 /\ timers \in Seq(Tasks)
          /\ wqkey \in [Tasks -> 0..(TickRange - 1)] /\ now \in 0..(TickRange - 1)
      BY <1>2, TicksAre DEF WqOK, Ticks, Queue
    <3>3. Leads(timers, Off, IF e = None THEN First(timers) ELSE e)
      BY <1>2, <2>2, <3>1, <3>2, WalkStart
    <3> HIDE DEF e
    <3>4. Node' = IF e = None THEN First(timers) ELSE e
      BY <1>1 DEF Node
    <3> QED BY <1>1, <1>3, <3>3, <3>4 DEF AtFirst
  <2> QED BY <2>1, <2>2
<1>5. WaitInv'
  BY <1>1, <1>3, <1>4 DEF WaitInv
<1>6. DateInv'
  BY <1>1, <1>2, <1>3 DEF DateInv, Dated, InWq
<1>7. TurnInv(D)'
  <2>1. \A t \in timer \ {cur} : Soon(D, t, 0) => Soon(D, t, 0)'
    BY <1>1 DEF Soon, Extra, Spare, Lag, Most
  <2> QED BY <1>1, <1>2, <2>1 DEF TurnInv, Begins, Late, Lag, Most
<1>8. PinInv(D)'
  BY <1>1 DEF PinInv
<1> QED BY <1>5, <1>6, <1>7, <1>8 DEF TimeInv

\* The walk ends at a date to come, and no timer is before it unless the walk missed them.
LEMMA WakeEndsTime ==
  ASSUME NEW D, Timely(D), SchedulerInv, Order(D), TimeInv(D), WakeEnds,
         syncs' = syncs
  PROVE  TimeInv(D)'
<1>1. /\ pc = "wake" /\ pc' = "runnable" /\ (Node # None => TickIsLt(now, wqkey[Node]))
      /\ next' = (IF Node = None THEN Eternity ELSE wqkey[Node])
      /\ UNCHANGED <<alive, now, cur, unseen, timers, wqkey, expire, remain, timer, rqueue, ahead>>
  BY DEF WakeEnds, life, waitq, runq, dates, Node
<1>2. /\ WqOK /\ now \in Ticks /\ WaitInv /\ DateInv /\ TurnInv(D) /\ Waits(timers, wqkey, Off)
      /\ Room(0) /\ Off \in [Tasks -> Int] /\ Lag \in Nat /\ alive \subseteq Tasks /\ None \notin Tasks
      /\ RunningTask /\ remain \in [Tasks -> Int] /\ SyncsOK
  BY TimeParts
<1>3. Off' = Off /\ Waits(timers, wqkey, Off)' /\ \A r : Room(r)' = Room(r)
  BY <1>1, <1>2, SameWaits
<1>4. Node = None \/ Node \in ToSet(timers)
  <2>1. CursorInQueue
    BY Unpacked
  <2> QED BY <1>1, <1>2, <2>1, FirstIn DEF Node, CursorInQueue, InWq, WqOK, Queue
<1>5. timers # <<>> => Node # None
  <2>1. timers # <<>> => First(timers) \in ToSet(timers)
    BY <1>2, FirstIn DEF WqOK, Queue
  <2>2. ToSet(timers) \subseteq Tasks
    BY <1>2, QueueSize, TimelyIs DEF WqOK
  <2> QED BY <1>2, <2>1, <2>2 DEF Node
<1>6. PICK n : n = Node
  OBVIOUS
<1>7. n # None => InTime(D, Off[n], wqkey[n]) /\ wqkey[n] # Eternity /\ n \in Tasks /\ 0 < Off[n]
  <2> SUFFICES ASSUME n # None
               PROVE  InTime(D, Off[n], wqkey[n]) /\ wqkey[n] # Eternity /\ n \in Tasks /\ 0 < Off[n]
    OBVIOUS
  <2>1. InTime(D, Off[n], wqkey[n]) /\ wqkey[n] # Eternity /\ n \in Tasks
    BY <1>2, <1>4, <1>6, OffIn
  <2> QED BY <1>1, <1>2, <1>6, <2>1, Passes
<1>8. AtFirst => \A u \in ToSet(timers) : n # None /\ Off[n] <= Off[u]
  <2> SUFFICES ASSUME AtFirst, NEW u \in ToSet(timers) PROVE n # None /\ Off[n] <= Off[u]
    OBVIOUS
  <2>1. timers # <<>>
    BY DEF ToSet
  <2> QED BY <1>2, <1>5, <1>6, <2>1, LeadsAll DEF AtFirst, WqOK, Queue
<1>9. Room(Lag)
  <2>1. CASE AtFirst
    <3>1. \A u \in ToSet(timers) : u \in Tasks
      BY <1>2, QueueSize, TimelyIs DEF WqOK
    <3>2. \A u \in ToSet(timers) : 0 <= Off[u]
      BY <1>2, <1>7, <1>8, <2>1, <3>1
    <3> QED BY <1>2, <3>2, AheadRoom
  <2>2. CASE ~AtFirst
    BY <1>1, <1>2, <2>2 DEF WaitInv
  <2> QED BY <2>1, <2>2
<1>10. WaitInv'
  BY <1>1, <1>3, <1>9 DEF WaitInv, Lag
<1>11. DateInv'
  BY <1>1, <1>2, <1>3 DEF DateInv, Dated, InWq
<1>12. TurnInv(D)'
  <2>1. \A t \in timer \ {cur} : Soon(D, t, 0) => Soon(D, t, 0)'
    BY <1>1 DEF Soon, Extra, Spare, Lag, Most
  <2> QED BY <1>1, <1>2, <2>1 DEF TurnInv, Begins, Late, Lag, Most
<1>13. n # None => NextOff' = Off[n]
  BY <1>1, <1>2, <1>6, <1>7 DEF NextOff, Off, Dist
<1>14. PinInv(D)'
  <2>1. next' # Eternity => InTime(D, NextOff, next)'
    BY <1>1, <1>6, <1>7, <1>13 DEF InTime, Late, Lag, Most
  <2>2. ASSUME NEW u \in alive' \ (unseen' \cup {cur'}), expire'[u] # Eternity, ~InRq(u)'
        PROVE  next' # Eternity /\ NextOff' <= remain'[u]
    <3>1. u \in alive /\ u \notin unseen /\ expire[u] # Eternity /\ ~InRq(u)
      BY <1>1, <2>2 DEF InRq
    <3>2. AtFirst /\ u \in ToSet(timers) /\ Off[u] <= remain[u]
      BY <1>1, <1>2, <2>2, <3>1 DEF WaitInv, DateInv, Dated, InRq, InWq
    <3>3. n # None /\ Off[n] <= Off[u] /\ u \in Tasks
      BY <1>2, <1>8, <3>1, <3>2
    <3>4. next' # Eternity /\ NextOff' <= remain[u]
      BY <1>1, <1>2, <1>6, <1>7, <1>13, <3>2, <3>3
    <3> QED BY <1>1, <3>4
  <2> QED BY <2>1, <2>2 DEF PinInv
<1> QED BY <1>10, <1>11, <1>12, <1>14 DEF TimeInv

\* process_runnable_tasks() starts its walk, or there is nothing to run.
LEMMA ProcessRunnableTasksTime ==
  ASSUME NEW D, Timely(D), SchedulerInv, Order(D), TimeInv(D), ProcessRunnableTasks,
         syncs' = syncs
  PROVE  TimeInv(D)'
<1>1. /\ pc = "runnable" /\ pc' = IF rqueue = <<>> THEN "poll" ELSE "run"
      /\ UNCHANGED <<alive, now, next, cur, unseen, timers, wqkey, expire, remain, timer, rqueue,
                     ahead>>
  BY DEF ProcessRunnableTasks, life, waitq, runq, dates
<1>2. /\ WaitInv /\ DateInv /\ TurnInv(D) /\ PinInv(D) /\ Waits(timers, wqkey, Off) /\ Wide(D)
  BY TimeParts
<1>3. Off' = Off /\ Waits(timers, wqkey, Off)' /\ \A r : Room(r)' = Room(r)
  BY <1>1, <1>2, SameWaits
<1>4. WaitInv' /\ DateInv'
  BY <1>1, <1>2, <1>3, KeepWaits DEF DateInv, Dated, InWq
<1>5. TurnInv(D)'
  <2>1. /\ \A t \in timer \ {cur} : Soon(D, t, 0)
        /\ cur \in timer /\ expire[cur] # Eternity => 0 <= remain[cur] + Late(D)
    BY <1>1, <1>2 DEF TurnInv
  <2>2. CASE rqueue = <<>>
    <3>1. timer \ {cur} = {}
      BY <1>2, <2>2 DEF DateInv, ToSet
    <3> QED BY <1>1, <2>1, <2>2, <3>1 DEF TurnInv, Late, Lag, Most
  <2>3. CASE rqueue # <<>>
    <3>1. Begins(D)'
      BY <1>2, <2>3, ProcessRunnableTasksOrder
    <3>2. \A t \in timer \ {cur} : Soon(D, t, 0)'
      BY <1>1, <2>1 DEF Soon, Extra, Spare, Lag, Most
    <3> QED BY <1>1, <2>1, <3>1, <3>2 DEF TurnInv, Late, Lag, Most
  <2> QED BY <2>2, <2>3
<1>6. PinInv(D)'
  BY <1>1, <1>2 DEF PinInv, InTime, NextOff, Late, Lag, Most, InRq
<1> QED BY <1>4, <1>5, <1>6 DEF TimeInv

\* The walk of the run queue is over.
LEMMA RunEndsTime ==
  ASSUME NEW D, Timely(D), SchedulerInv, Order(D), TimeInv(D), RunEnds,
         syncs' = syncs
  PROVE  TimeInv(D)'
<1>1. /\ pc = "run" /\ (left = 0 \/ rqueue = <<>>) /\ pc' = "poll"
      /\ UNCHANGED <<alive, now, next, cur, unseen, timers, wqkey, expire, remain, timer, rqueue,
                     ahead>>
  BY DEF RunEnds, life, waitq, runq, dates
<1>2. /\ WaitInv /\ DateInv /\ TurnInv(D) /\ PinInv(D) /\ Waits(timers, wqkey, Off)
  BY TimeParts
<1>3. Off' = Off /\ Waits(timers, wqkey, Off)' /\ \A r : Room(r)' = Room(r)
  BY <1>1, <1>2, SameWaits
<1>4. WaitInv' /\ DateInv'
  BY <1>1, <1>2, <1>3, KeepWaits DEF DateInv, Dated, InWq
<1>5. TurnInv(D)'
  <2>1. ~Begins(D)
    BY <1>1 DEF Begins
  <2>2. \A t \in timer \ {cur} : Soon(D, t, Lag)
    BY <1>1, <1>2, <2>1 DEF TurnInv
  <2>3. \A t \in timer \ {cur} : Soon(D, t, Lag)'
    BY <1>1, <2>2 DEF Soon, Extra, Spare, Lag, Most
  <2> QED BY <1>1, <1>2, <2>3 DEF TurnInv, Late, Lag, Most
<1>6. PinInv(D)'
  BY <1>1, <1>2 DEF PinInv, InTime, NextOff, Late, Lag, Most, InRq
<1> QED BY <1>4, <1>5, <1>6 DEF TimeInv

\* The first task of a walk takes a turn of all those that wait to run.
LEMMA RunStepTime ==
  ASSUME NEW D, Timely(D), SchedulerInv, Order(D), TimeInv(D), SchedulerInv', Order(D)', RunStep,
         syncs' = syncs
  PROVE  TimeInv(D)'
<1>1. /\ pc = "run" /\ pc' = "process" /\ rqueue # <<>> /\ cur' = Walked /\ UnlinkRq(Walked)
      /\ UNCHANGED <<alive, now, next, unseen, timers, wqkey, expire, remain, timer>>
  BY DEF RunStep, life, waitq, dates, Walked
<1>2. /\ WaitInv /\ DateInv /\ TurnInv(D) /\ PinInv(D) /\ Waits(timers, wqkey, Off)
      /\ RqOK /\ QueueKeyed(D) /\ RunningTask /\ None \notin Tasks /\ Lag \in Nat
      /\ timer \subseteq Tasks /\ remain \in [Tasks -> Int] /\ Extra \in [Tasks -> Nat]
  BY TimeParts
<1>3. RqOK' /\ QueueKeyed(D)'
  BY PartsNext
<1>4. PICK w \in Tasks : w = Walked /\ w \in ToSet(rqueue)
  <2>1. CursorInQueue
    BY Unpacked
  <2>2. Walked \in ToSet(rqueue)
    BY <1>1, <1>2, <2>1, FirstIn DEF Walked, CursorInQueue, InRq, RqOK, Queue
  <2> QED BY <1>2, <2>2, QueueSize, TimelyIs DEF RqOK
<1>5. /\ ToSet(rqueue') = ToSet(rqueue) \ {w}
      /\ \A u \in ToSet(rqueue') :
            /\ Turns(D, rqueue', ahead', u) <= Turns(D, rqueue, ahead, u)
            /\ w \in ToSet(rqueue) /\ ahead[w] <= ahead[u] =>
                  Turns(D, rqueue', ahead', u) <= Turns(D, rqueue, ahead, u) - 1
  BY <1>1, <1>2, <1>4, LeftTurns
<1>6. Off' = Off /\ Waits(timers, wqkey, Off)' /\ \A r : Room(r)' = Room(r)
  BY <1>1, <1>2, SameWaits
<1>7. WaitInv'
  BY <1>1, <1>2, <1>6, KeepWaits
<1>8. DateInv'
  <2>1. cur = None /\ cur' = w
    BY <1>1, <1>2, <1>4 DEF RunningTask
  <2>2. timer' \subseteq alive' /\ timer' \ {cur'} \subseteq ToSet(rqueue')
    BY <1>1, <1>2, <1>5, <2>1 DEF DateInv
  <2> QED BY <1>1, <1>2, <1>6, <2>2 DEF DateInv, Dated, InWq
<1>9. cur = None /\ cur' = w /\ timer \ {cur} = timer
  BY <1>1, <1>2, <1>4 DEF RunningTask
<1>10. ASSUME NEW u \in timer, u # w
       PROVE  /\ u \in ToSet(rqueue) /\ u \in ToSet(rqueue') /\ remain[u] \in Int
              /\ Turns(D, rqueue', ahead', u) <= Turns(D, rqueue, ahead, u)
              /\ ahead[w] <= ahead[u] => Turns(D, rqueue', ahead', u) <= Turns(D, rqueue, ahead, u) - 1
              /\ expire'[u] = expire[u] /\ remain'[u] = remain[u]
              /\ Extra' = Extra /\ Extra[u] \in Nat
  <2>1. u \in ToSet(rqueue) /\ u \in Tasks
    BY <1>2, <1>9 DEF DateInv
  <2>2. Extra' = Extra
    BY DEF Extra
  <2> QED BY <1>1, <1>2, <1>4, <1>5, <1>10, <2>1, <2>2
<1>11. \A u \in timer \ {w} : Soon(D, u, Lag)'
  <2>1. CASE \A u \in timer : Soon(D, u, Lag)
    <3>1. ASSUME NEW u \in timer \ {w} PROVE Soon(D, u, Lag)'
      <4>1. Soon(D, u, Lag) /\ Lag \in Int
        BY <1>2, <2>1
      <4> QED BY <1>2, <1>3, <1>10, <4>1, SoonStill
    <3> QED BY <3>1
  <2>2. CASE Begins(D) /\ \A u \in timer : Soon(D, u, 0)
    <3>1. \A u \in ToSet(rqueue) : ahead[w] <= ahead[u]
      BY <1>2, <1>4, <2>2, LeadsAll DEF Begins, RqOK, Queue
    <3>2. ASSUME NEW u \in timer \ {w} PROVE Soon(D, u, Lag)'
      <4>1. Soon(D, u, 0)
        BY <2>2
      <4>2. Turns(D, rqueue', ahead', u) <= Turns(D, rqueue, ahead, u) - 1
        BY <1>10, <3>1
      <4>3. Soon(D, u, 0 + Lag)'
        BY <1>2, <1>3, <1>10, <4>1, <4>2, SoonStill
      <4>4. 0 + Lag = Lag
        BY <1>2
      <4> QED BY <4>3, <4>4
    <3> QED BY <3>2
  <2> QED BY <1>1, <1>2, <1>9, <2>1, <2>2 DEF TurnInv
<1>12. w \in timer /\ expire[w] # Eternity => 0 <= remain[w] + Late(D)
  <2> SUFFICES ASSUME w \in timer, expire[w] # Eternity PROVE 0 <= remain[w] + Late(D)
    OBVIOUS
  <2>1. PICK n \in 1..Most(D) : n = Turns(D, rqueue, ahead, w)
    BY <1>2, <1>4, TurnsAre
  <2>2. PICK s \in Int : s = Spare(D, n) /\ s + MaxLesson <= Late(D)
    BY SpareIs
  <2>3. Lag <= remain[w] + Extra[w] + s \/ 0 <= remain[w] + Extra[w] + s
    BY <1>1, <1>2, <1>9, <2>1, <2>2 DEF TurnInv, Soon
  <2>4. /\ remain[w] \in Int /\ Late(D) \in Int /\ MaxLesson \in Nat
        /\ Extra[w] \in Nat /\ Extra[w] <= MaxLesson
    <3>1. MaxLesson \in Nat /\ Late(D) \in Int
      BY TimelyIs
    <3> QED BY <1>2, <3>1 DEF Extra
  <2> QED BY <1>2, <2>2, <2>3, <2>4
<1>13. TurnInv(D)'
  <2>1. cur' \in timer' /\ expire'[cur'] # Eternity => 0 <= remain'[cur'] + Late(D)
    BY <1>1, <1>9, <1>12
  <2>2. \A u \in timer' \ {cur'} : Soon(D, u, Lag)'
    BY <1>1, <1>9, <1>11
  <2> QED BY <1>1, <2>1, <2>2 DEF TurnInv, Late, Lag, Most
<1>14. PinInv(D)'
  <2>1. next' # Eternity => InTime(D, NextOff, next)'
    BY <1>1, <1>2 DEF PinInv, InTime, NextOff, Late, Lag, Most
  <2>2. ASSUME NEW u \in alive' \ (unseen' \cup {cur'}), expire'[u] # Eternity, ~InRq(u)'
        PROVE  next' # Eternity /\ NextOff' <= remain'[u]
    <3>1. u \in alive \ (unseen \cup {cur}) /\ ~InRq(u)
      <4>1. u \in alive /\ u \notin unseen /\ u # w /\ u \in Tasks
        BY <1>1, <1>9, <2>2, TimeParts
      <4> QED BY <1>2, <1>5, <1>9, <2>2, <4>1 DEF InRq
    <3> QED BY <1>1, <1>2, <2>2, <3>1 DEF PinInv, NextOff
  <2> QED BY <2>1, <2>2 DEF PinInv
<1> QED BY <1>7, <1>8, <1>13, <1>14 DEF TimeInv

\* The clock never moves back, nor on by more than a round of the loop may take.
LEMMA PollMoves ==
  ASSUME NEW D, Timely(D), now \in Ticks, next # Eternity => InTime(D, NextOff, next), Poll
  PROVE  \E by \in 0..Lag :
            /\ now' = (now + by) % TickRange
            /\ remain' = [t \in Tasks |-> IF expire[t] = Eternity THEN 0 ELSE remain[t] - by]
<1>1. PICK busy \in BOOLEAN, interrupted \in BOOLEAN :
         \E seen \in -1..(WaitTime(busy) + MaxDelay) :
           LET by == Advance(WaitTime(busy), interrupted, seen)
           IN  /\ now' = (now + by) % TickRange
               /\ remain' = [t \in Tasks |-> IF expire[t] = Eternity THEN 0 ELSE remain[t] - by]
  BY DEF Poll
<1>2. PICK seen \in -1..(WaitTime(busy) + MaxDelay) :
           LET by == Advance(WaitTime(busy), interrupted, seen)
           IN  /\ now' = (now + by) % TickRange
               /\ remain' = [t \in Tasks |-> IF expire[t] = Eternity THEN 0 ELSE remain[t] - by]
  BY <1>1
<1>3. MaxDelay \in Nat /\ MaxDelay > 0
  BY SchedulerAssumption
<1>4. next # Eternity /\ ~TickIsExpired(next, now) =>
         TickRemain(now, next) \in Int /\ 0 < TickRemain(now, next)
  <2> SUFFICES ASSUME next # Eternity, ~TickIsExpired(next, now)
               PROVE  TickRemain(now, next) \in Int /\ 0 < TickRemain(now, next)
    OBVIOUS
  <2>1. TickRemain(now, next) = NextOff
    BY DEF TickRemain, NextOff
  <2>2. NextOff \in Int /\ ~(NextOff <= 0)
    BY Passes DEF InTime
  <2> QED BY <2>1, <2>2
<1>5. WaitTime(busy) \in 0..MaxDelay
  BY <1>3, <1>4 DEF WaitTime
<1> DEFINE by == Advance(WaitTime(busy), interrupted, seen)
<1>6. by \in 0..Lag
  BY <1>2, <1>3, <1>5 DEF Advance, Lag
<1> QED BY <1>2, <1>6

\* epoll_wait() returns: all dates come nearer, and none by more than there was room for.
LEMMA PollTime ==
  ASSUME NEW D, Timely(D), SchedulerInv, Order(D), TimeInv(D), SchedulerInv', Order(D)', Poll,
         syncs' = syncs
  PROVE  TimeInv(D)'
<1>1. /\ pc = "poll" /\ pc' = "io" /\ unseen' = {}
      /\ UNCHANGED <<alive, cur, timers, wqkey, expire, timer, rqueue, ahead>>
  BY DEF Poll, life, waitq, runq
<1>2. /\ WqOK /\ now \in Ticks /\ WaitInv /\ DateInv /\ TurnInv(D) /\ PinInv(D) /\ RunningTask
      /\ Waits(timers, wqkey, Off) /\ Room(0) /\ Off \in [Tasks -> Int] /\ remain \in [Tasks -> Int]
      /\ alive \subseteq Tasks /\ timer \subseteq Tasks /\ None \notin Tasks /\ RqOK /\ QueueKeyed(D)
      /\ RestOK /\ SyncsOK /\ Extra \in [Tasks -> Nat]
  BY TimeParts
<1>3. cur = None
  BY <1>1, <1>2 DEF RunningTask
<1>4. next # Eternity => InTime(D, NextOff, next)
  BY <1>1, <1>2 DEF PinInv
<1>5. PICK by \in 0..Lag :
         /\ now' = (now + by) % TickRange
         /\ remain' = [t \in Tasks |-> IF expire[t] = Eternity THEN 0 ELSE remain[t] - by]
  BY <1>2, <1>4, PollMoves
<1>6. Lag \in Nat /\ by \in Nat /\ by <= Lag /\ IsFiniteSet(Tasks)
  BY <1>5, TimelyIs
<1>7. \A x : Near(x) /\ x \in Int => Near(x - by)
  BY <1>6, TicksAre DEF Near
<1>8. now' \in Ticks /\ WqOK' /\ remain' \in [Tasks -> Int]
  BY PartsNext
<1>9. ASSUME NEW u \in ToSet(timers) PROVE Off'[u] = Off[u] - by /\ u \in Tasks /\ Near(Off[u])
  <2>1. /\ InTime(D, Off[u], wqkey[u]) /\ -(Lag * Crowd) <= Off[u] + Extra[u] /\ u \in Tasks
        /\ Extra[u] \in Nat /\ Extra[u] <= MaxLesson /\ MaxLesson \in Nat
    <3>1. InTime(D, Off[u], wqkey[u]) /\ -(Lag * Crowd) <= Off[u] + Extra[u] /\ u \in Tasks
      BY <1>2, OffIn
    <3>2. MaxLesson \in Nat
      BY TimelyIs
    <3> QED BY <1>2, <3>1, <3>2 DEF Extra
  <2>2. PICK x \in Int : x = Off[u] /\ Near(x) /\ At(TickRange, now, x, wqkey[u]) /\ wqkey[u] \in Int
    BY <2>1 DEF InTime
  <2>3. PICK d \in Timeouts : x <= d + 1
    BY <2>2 DEF Near
  <2>4. PICK l \in Nat, c \in Nat, m \in Nat : l = Lag /\ c = Crowd /\ m = Most(D) /\ m >= 1
    <3>1. Crowd \in Nat /\ Most(D) \in Nat /\ D \in Nat
      BY TimelyIs
    <3> QED BY <1>6, <3>1 DEF Most
  <2>5. l * c \in Nat /\ l * m \in Nat /\ l <= l * m /\ l * (c + m) = l * c + l * m
    BY <2>4
  <2>6. Late(D) = MaxLesson + l * (c + m) /\ l * c = Lag * Crowd
    BY <2>4 DEF Late
  <2>7. PICK h \in Int : h = TickRange \div 2 /\ Late(D) + d + 1 < h
    BY TicksAre DEF Timely
  <2>8. PICK o \in Int, g \in Int : o = l * c /\ g = Late(D) /\ MaxLesson + o + l <= g /\ 0 <= o
    BY <2>1, <2>5, <2>6
  <2>9. d \in Int /\ d >= 1
    BY TicksAre
  <2>10. -h <= x - by /\ x - by < h
    BY <1>6, <2>1, <2>2, <2>3, <2>4, <2>6, <2>7, <2>8, <2>9
  <2>11. now \in Int /\ now' \in 0..(TickRange - 1)
    BY <1>2, <1>8, TicksAre DEF Ticks
  <2>12. At(TickRange, now', x - by, wqkey[u])
    <3>1. PICK n \in Int, k \in Int : n = now /\ k = wqkey[u]
      BY <2>2, <2>11
    <3>2. At(TickRange, n, x, k) /\ by \in Int /\ TickRange \in Nat /\ TickRange > 0
      BY <1>6, <2>2, <3>1, TicksAre
    <3>3. At(TickRange, (n + by) % TickRange, x - by, k)
      BY <2>2, <3>1, <3>2, AtPasses
    <3> QED BY <1>5, <3>1, <3>3
  <2>13. Signed(wqkey[u] - now', TickRange) = x - by
    <3>1. PICK n \in 0..(TickRange - 1), k \in Int, z \in Int : n = now' /\ k = wqkey[u] /\ z = x - by
      BY <1>6, <2>2, <2>11
    <3>2. /\ At(TickRange, n, z, k) /\ TickRange \in Nat /\ TickRange > 0 /\ TickRange % 2 = 0
          /\ -(TickRange \div 2) <= z /\ z < TickRange \div 2
      BY <2>7, <2>10, <2>12, <3>1, TicksAre
    <3>3. Signed(k - n, TickRange) = z
      BY <3>1, <3>2, SignedAt
    <3> QED BY <3>1, <3>3
  <2>14. Off'[u] = x - by
    BY <1>1, <2>1, <2>13 DEF Off, Dist
  <2> QED BY <2>1, <2>2, <2>14
<1>10. Off' \in [Tasks -> Int]
  <2>1. wqkey \in [Tasks -> Ticks]
    BY <1>2 DEF WqOK
  <2>2. PICK n \in Ticks : n = now'
    BY <1>8
  <2>3. Dist(wqkey, n) \in [Tasks -> Int]
    BY <2>1, DistIs
  <2>4. Off' = Dist(wqkey, n)
    BY <1>1, <2>2 DEF Off, Dist
  <2> QED BY <2>3, <2>4
<1>11. WaitInv'
  <2>1. Waits(timers, wqkey, Off)'
    BY <1>1, <1>2, <1>7, <1>9 DEF Waits
  <2>2. Room(0)'
    <3>1. /\ Stand \in [Tasks -> Int] /\ ToSet(timers) \subseteq Waiting /\ Waiting \subseteq Tasks
          /\ \A u \in ToSet(timers) : Stand[u] = Off[u]
      BY <1>2, RoomIs
    <3>2. Stand' \in [Tasks -> Int] /\ Extra' = Extra
      BY <1>2, <1>8, RoomNext
    <3>3. Waiting' = Waiting
      BY <1>1 DEF Waiting
    <3>4. ASSUME NEW v \in Waiting PROVE Stand'[v] = Stand[v] - by
      <4>1. v \in Tasks
        BY <3>1
      <4>2. CASE v \in ToSet(timers)
        BY <1>1, <1>9, <4>1, <4>2 DEF Stand
      <4>3. CASE v \notin ToSet(timers)
        <5>1. expire[v] # Eternity
          BY <4>3 DEF Waiting
        <5>2. remain'[v] = remain[v] - by
          BY <1>2, <1>5, <4>1, <5>1
        <5> QED BY <1>1, <4>1, <4>3, <5>2 DEF Stand
      <4> QED BY <4>2, <4>3
    <3> DEFINE Q == ToSet(timers)
               W == Waiting
    <3>5. PICK b \in [Tasks -> Int], z \in [Tasks -> Int] : b = Off' /\ z = Stand'
      BY <1>10, <3>2
    <3>6. Eased(Q, Off, Extra, W, Stand, Lag)
      BY <1>1, <1>2 DEF WaitInv, Room
    <3>7. Room(0)' <=> Eased(Q, b, Extra, W, z, 0)
      BY <1>1, <3>2, <3>3, <3>5 DEF Room, Eased, Lag
    <3>8. /\ Q \subseteq Tasks /\ W \subseteq Tasks
          /\ \A u \in Q : b[u] = Off[u] - by
          /\ \A v \in W : z[v] = Stand[v] - by
      BY <1>9, <3>1, <3>4, <3>5
    <3> HIDE DEF Q, W
    <3>9. by \in Int /\ Lag \in Int /\ Lag - by \in Int /\ 0 <= Lag - by /\ 0 \in Int /\ 0 <= Lag
      BY <1>6
    <3>10. Eased(Q, b, Extra, W, z, Lag - by)
      BY <1>2, <1>6, <3>1, <3>6, <3>8, <3>9, EasedPassed
    <3>11. /\ \A u \in Q : 0 <= b[u] + Extra[u] \/ (u \in Q /\ b[u] = b[u])
           /\ \A v \in W : 0 <= z[v] \/ (v \in W /\ z[v] <= z[v])
      BY <3>8
    <3>12. Eased(Q, b, Extra, W, z, 0)
      BY <1>2, <1>6, <3>8, <3>9, <3>10, <3>11, EasedKept
    <3> QED BY <3>7, <3>12
  <2> QED BY <1>1, <2>1, <2>2 DEF WaitInv
<1>12. ASSUME NEW t \in Tasks, expire[t] # Eternity PROVE remain'[t] = remain[t] - by /\ remain[t] \in Int
  BY <1>2, <1>5, <1>12
<1>13. DateInv'
  <2>1. ASSUME NEW t \in alive, expire[t] # Eternity
        PROVE  /\ At(TickRange, now', remain'[t], expire[t]) /\ Near(remain'[t])
               /\ t \notin timer => InWq(t) /\ Off'[t] <= remain'[t]
    <3>1. t \in Tasks
      BY <1>2
    <3>2. /\ At(TickRange, now, remain[t], expire[t]) /\ Near(remain[t])
          /\ t \notin timer => InWq(t) /\ Off[t] <= remain[t]
      BY <1>2, <2>1 DEF DateInv, Dated
    <3>3. remain'[t] = remain[t] - by /\ remain[t] \in Int
      BY <1>12, <2>1, <3>1
    <3>4. At(TickRange, now', remain[t] - by, expire[t])
      <4>1. PICK n \in Int, x \in Int, k \in Int : n = now /\ x = remain[t] /\ k = expire[t]
        BY <1>2, <3>1, <3>3, TicksAre DEF RestOK
      <4>2. At(TickRange, n, x, k) /\ by \in Int /\ TickRange \in Nat /\ TickRange > 0
        BY <1>6, <3>2, <4>1, TicksAre
      <4>3. At(TickRange, (n + by) % TickRange, x - by, k)
        BY <4>1, <4>2, AtPasses
      <4> QED BY <1>5, <4>1, <4>3
    <3>5. t \notin timer => Off'[t] <= remain'[t]
      BY <1>2, <1>6, <1>9, <3>1, <3>2, <3>3 DEF InWq
    <3> QED BY <1>7, <3>2, <3>3, <3>4, <3>5
  <2>2. \A t \in alive' : t \in timer' /\ t \in syncs' => ~InWq(t)'
    BY <1>1, <1>2 DEF DateInv, Dated, InWq
  <2>3. \A t \in alive' : Dated(t)'
    BY <1>1, <2>1, <2>2 DEF Dated, InWq
  <2> QED BY <1>1, <1>2, <2>3 DEF DateInv
<1>14. TurnInv(D)'
  <2>1. ~Begins(D) /\ cur \notin timer
    BY <1>1, <1>2, <1>3 DEF Begins
  <2>2. ASSUME NEW t \in timer \ {cur} PROVE Soon(D, t, 0)'
    <3>1. Soon(D, t, Lag) /\ t \in Tasks /\ t \in ToSet(rqueue)
      BY <1>1, <1>2, <2>1, <2>2 DEF TurnInv, DateInv
    <3>2. PICK n \in 1..Most(D) : n = Turns(D, rqueue, ahead, t)
      BY <1>2, <3>1, TurnsAre
    <3>3. PICK s \in Int : s = Spare(D, n)
      BY SpareIs
    <3>4. expire[t] # Eternity => 0 <= remain'[t] + Extra[t] + s
      BY <1>2, <1>6, <1>12, <3>1, <3>2, <3>3 DEF Soon
    <3>5. Extra'[t] = Extra[t]
      BY DEF Extra
    <3> QED BY <1>1, <3>2, <3>3, <3>4, <3>5 DEF Soon, Spare, Lag, Most
  <2> QED BY <1>1, <2>1, <2>2 DEF TurnInv, Late, Lag, Most
<1>15. PinInv(D)'
  BY <1>1 DEF PinInv
<1> QED BY <1>11, <1>13, <1>14, <1>15 DEF TimeInv

\* Who leads a queue depends on where its members are.
LEMMA SameLeads ==
  ASSUME NEW q \in Seq(Tasks), NEW a, NEW b, \A u \in ToSet(q) : b[u] = a[u], NEW f, Leads(q, a, f)
  PROVE  Leads(q, b, f)
<1>1. PICK i \in 1..Len(q) : /\ q[i] = f
                             /\ \A j \in 1..Len(q) : a[f] <= a[q[j]] /\ (j < i => a[f] < a[q[j]])
  BY DEF Leads
<1>2. \A j \in 1..Len(q) : b[q[j]] = a[q[j]]
  BY InSeq
<1>3. b[f] = a[f]
  BY <1>1, <1>2
<1> QED BY <1>1, <1>2, <1>3 DEF Leads

\* The tree of the timers is one that goes round at most once.
LEMMA TimersKeyed ==
  ASSUME WqOK, now \in Ticks, Waits(timers, wqkey, Off)
  PROVE  /\ KeyedBy(TickRange, timers, wqkey, now, Off)
         /\ TickRange \in Nat /\ TickRange > 0 /\ TickRange % 2 = 0
         /\ timers \in Seq(Tasks) /\ IsInjective(timers) /\ Off \in [Tasks -> Int]
         /\ wqkey \in [Tasks -> 0..(TickRange - 1)] /\ now \in 0..(TickRange - 1)
<1>1. KeyedBy(TickRange, timers, wqkey, now, Off)
  BY DistKeyed DEF WqOK, Waits, Off
<1>2. Off \in [Tasks -> Int]
  BY DistIs DEF WqOK, Off
<1> QED BY <1>1, <1>2, TicksAre DEF WqOK, Ticks, Queue

\* The first timer leaves the wait queue, and the walk goes on with the next ...
LEMMA UnlinkFirst ==
  ASSUME NEW D, Timely(D), WqOK, now \in Ticks, Waits(timers, wqkey, Off), NEW t \in ToSet(timers),
         t = Node, AtFirst, UnlinkWq(t), now' = now, eb' = Successor(timers, t)
  PROVE  AtFirst'
<1>1. t \in Tasks /\ timers # <<>>
  <2>1. timers # <<>>
    BY DEF ToSet
  <2> QED BY <2>1, QueueSize, TimelyIs DEF WqOK
<1>2. Leads(timers, Off, t)
  BY <1>1 DEF AtFirst
<1> DEFINE p == RemoveFirst(timers, t)
           f == Successor(timers, t)
<1>3. timers' = p /\ eb' = f
  BY DEF UnlinkWq
<1>4. Queue(p) /\ ToSet(p) = ToSet(timers) \ {t} /\ \A u \in ToSet(p) : u \in Tasks
  BY <1>1, RestTime
<1>5. \A u \in Tasks \ {t} : Off'[u] = Off[u]
  BY <1>1, UnlinkWqTime
<1>6. CASE p = <<>>
  BY <1>3, <1>6 DEF AtFirst
<1>7. CASE p # <<>>
  <2>1. Leads(p, Off, IF f = None THEN First(p) ELSE f)
    BY <1>1, <1>2, <1>7, TimersKeyed, NextLeads
  <2> HIDE DEF p, f
  <2>2. \A u \in ToSet(p) : Off'[u] = Off[u]
    BY <1>4, <1>5
  <2>3. Leads(p, Off', IF f = None THEN First(p) ELSE f)
    BY <1>4, <2>1, <2>2, SameLeads DEF Queue
  <2>4. Node' = IF f = None THEN First(p) ELSE f
    BY <1>3 DEF Node
  <2> QED BY <1>3, <2>3, <2>4 DEF AtFirst
<1> QED BY <1>6, <1>7

\* ... or moves to the date of its task, and the walk goes on with the earlier of the two,
\* unless the date lies beyond the end of the tree.
LEMMA RequeueFirst ==
  ASSUME NEW D, Timely(D), WqOK, now \in Ticks, Waits(timers, wqkey, Off), Room(0),
         SyncsOK, remain \in [Tasks -> Int],
         NEW t \in ToSet(timers), t = Node, AtFirst, NEW date \in Ticks, date # Eternity,
         NEW x, InTime(D, x, date), Off[t] <= x, wqkey[t] <= date, Requeue(t, date), now' = now,
         LET f == Successor(timers, t)
         IN  eb' = IF f = None \/ wqkey[f] > date THEN t ELSE f
  PROVE  AtFirst'
<1>1. t \in Tasks /\ timers # <<>>
  <2>1. timers # <<>>
    BY DEF ToSet
  <2> QED BY <2>1, QueueSize, TimelyIs DEF WqOK
<1>2. Leads(timers, Off, t)
  BY <1>1 DEF AtFirst
<1>3. InTime(D, Off[t], wqkey[t])
  BY OffIn
<1>4. PICK y \in Int, z \in Int, k \in Int, n \in Int :
         /\ y = Off[t] /\ z = x /\ k = wqkey[t] /\ n = now
         /\ At(TickRange, n, y, k) /\ At(TickRange, n, z, date)
  BY <1>3, TicksAre DEF InTime
<1>5. z - y < TickRange
  <2>1. PICK d \in Timeouts : z <= d + 1
    BY <1>4 DEF InTime, Near
  <2>2. PICK l \in Nat : l = Late(D) /\ l + d + 1 < TickRange \div 2
    BY TimelyIs DEF Timely
  <2>3. -l <= y
    BY <1>3, <1>4, <2>2 DEF InTime
  <2>4. PICK h \in Nat : h = TickRange \div 2 /\ 2 * h = TickRange
    BY TicksAre
  <2>5. d \in Int
    BY TicksAre
  <2> QED BY <1>4, <2>1, <2>2, <2>3, <2>4, <2>5
<1>6. z - y = date - k
  <2>1. date \in Int /\ TickRange \in Nat /\ TickRange > 0
    BY TicksAre
  <2>2. y <= z /\ k <= date
    BY <1>4
  <2>3. z - y = IF k <= date THEN date - k ELSE date - k + TickRange
    BY <1>4, <1>5, <2>1, <2>2, Gap
  <2> QED BY <2>2, <2>3
<1>7. x - Off[t] = date - wqkey[t] /\ x \in Int /\ date \in 0..(TickRange - 1)
  BY <1>4, <1>6 DEF Ticks
<1> DEFINE f == Successor(timers, t)
           node == IF f = None \/ wqkey[f] > date THEN t ELSE f
           r == Insert(RemoveFirst(timers, t), wqkey, t, date)
<1>8. Leads(r, [Off EXCEPT ![t] = x], node)
  BY <1>1, <1>2, <1>7, TimersKeyed, MovedLeads
<1>9. timers' = r /\ eb' = node
  BY DEF Requeue
<1>10. Off' = [Off EXCEPT ![t] = x]
  BY <1>1, RequeueTime
<1>11. node # None
  BY <1>1, SchedulerAssumption DEF Tasks
<1> HIDE DEF r, node
<1>12. Node' = node
  BY <1>9, <1>11 DEF Node
<1> QED BY <1>8, <1>9, <1>10, <1>12 DEF AtFirst

\* A key that has passed: the walk loses nothing but the dates it does not reach.
LEMMA WakeStepTime ==
  ASSUME NEW D, Timely(D), SchedulerInv, Order(D), TimeInv(D), SchedulerInv', Order(D)', WakeStep,
         syncs' = syncs
  PROVE  TimeInv(D)'
<1>1. /\ WqOK /\ RqOK /\ RestOK /\ QueueKeyed(D) /\ now \in Ticks /\ alive \subseteq Tasks
      /\ timer \subseteq Tasks /\ expire \in [Tasks -> Ticks] /\ remain \in [Tasks -> Int]
      /\ None \notin Tasks /\ Off \in [Tasks -> Int] /\ Lag \in Nat /\ Waits(timers, wqkey, Off)
      /\ Room(0) /\ WaitInv /\ DateInv /\ TurnInv(D) /\ RunningTask /\ QueuedAlive
      /\ SyncsOK /\ Extra \in [Tasks -> Nat]
  BY TimeParts
<1>2. /\ RqOK' /\ QueueKeyed(D)' /\ alive' \subseteq Tasks /\ WqOK' /\ remain' \in [Tasks -> Int]
      /\ now' \in Ticks
  BY PartsNext
<1>3. Node \in ToSet(timers)
  <2>1. CursorInQueue /\ pc = "wake" /\ Node # None
    BY Unpacked DEF WakeStep, Node
  <2> QED BY <1>1, <2>1, FirstIn DEF Node, CursorInQueue, InWq, WqOK, Queue
<1>4. PICK t \in Tasks : t = Node
  BY <1>1, <1>3, QueueSize, TimelyIs DEF WqOK
<1> DEFINE f == Successor(timers, t)
<1>5. /\ pc = "wake" /\ pc' = "wake" /\ cur = None /\ ~TickIsLt(now, wqkey[t])
      /\ UNCHANGED <<alive, now, cur, expire, remain>>
  BY <1>1, <1>4 DEF WakeStep, life, dates, Node, RunningTask
<1>6. \/ /\ TickIsExpired(expire[t], now) /\ UnlinkWq(t) /\ TaskWakeup(t, nice[t], TRUE)
         /\ eb' = f /\ unseen' = unseen
      \/ /\ expire[t] = Eternity /\ UnlinkWq(t) /\ eb' = f
         /\ UNCHANGED <<rqueue, ahead, timer, unseen>>
      \/ /\ expire[t] # Eternity /\ ~TickIsExpired(expire[t], now) /\ Requeue(t, expire[t])
         /\ eb' = IF f = None \/ wqkey[f] > expire[t] THEN t ELSE f
         /\ unseen' = IF expire[t] < wqkey[t] THEN alive ELSE unseen
         /\ UNCHANGED <<rqueue, ahead, timer>>
  BY <1>4 DEF WakeStep, runq, Node
<1> HIDE DEF f
<1>7. t \in ToSet(timers) /\ t \in alive
  BY <1>1, <1>3, <1>4 DEF QueuedAlive
<1>8. /\ InTime(D, Off[t], wqkey[t]) /\ -(Lag * Crowd) <= Off[t] + Extra[t] /\ Off[t] <= 0
  <2>1. InTime(D, Off[t], wqkey[t]) /\ -(Lag * Crowd) <= Off[t] + Extra[t]
    BY <1>1, <1>7, OffIn
  <2>2. ~(0 < Off[t])
    BY <1>1, <1>5, <2>1, Passes
  <2> QED BY <1>1, <2>1, <2>2
<1>9. expire[t] # Eternity => InTime(D, remain[t], expire[t]) /\ remain[t] \in Int
  BY <1>1, <1>7, DateIn
<1>10. /\ t \in Waiting /\ Stand[t] = Off[t]
       /\ Room(Lag) \/ (AtFirst /\ \A u \in ToSet(timers) : Stand[t] <= Off[u])
  <2>1. t \in Waiting /\ Stand[t] = Off[t]
    BY <1>7 DEF Waiting, Stand
  <2>2. AtFirst => \A u \in ToSet(timers) : Off[t] <= Off[u]
    <3> SUFFICES ASSUME AtFirst PROVE \A u \in ToSet(timers) : Off[t] <= Off[u]
      OBVIOUS
    <3>1. timers # <<>>
      BY <1>7 DEF ToSet
    <3>2. Leads(timers, Off, t)
      BY <1>4, <3>1 DEF AtFirst
    <3> QED BY <1>1, <3>2, LeadsAll DEF WqOK, Queue
  <2>3. Room(Lag) \/ AtFirst
    BY <1>1, <1>5 DEF WaitInv
  <2> QED BY <2>1, <2>2, <2>3
<1>11. unseen = alive \/ AtFirst
  BY <1>1, <1>5 DEF WaitInv
<1>12. Dated(t)
  BY <1>1, <1>7 DEF DateInv
\* The wait queue, when the timer left it ...
<1>13. ASSUME UnlinkWq(t), eb' = f, unseen' = unseen
       PROVE  /\ WaitInv' /\ ~InWq(t)'
              /\ \A u \in alive \ {t} : Off'[u] = Off[u] /\ (InWq(u) <=> InWq(u)')
  <2>1. /\ Waits(timers, wqkey, Off)' /\ ToSet(timers') = ToSet(timers) \ {t}
        /\ \A u \in Tasks \ {t} : Off'[u] = Off[u]
    BY <1>1, <1>5, <1>13, UnlinkWqTime
  <2>2. AtFirst => AtFirst'
    BY <1>1, <1>4, <1>5, <1>7, <1>13, UnlinkFirst DEF f
  <2>3. t \notin ToSet(timers')
    BY <2>1
  <2>4. t \in Waiting' => t \in syncs /\ expire[t] # Eternity
    BY <1>5, <2>3 DEF Waiting
  <2>5. t \in Waiting' => Stand[t] <= Stand'[t]
    <3> SUFFICES ASSUME t \in Waiting' PROVE Stand[t] <= Stand'[t]
      OBVIOUS
    <3>1. t \notin timer
      BY <1>7, <1>12, <2>4 DEF Dated, InWq
    <3>2. Off[t] <= remain[t]
      BY <1>12, <2>4, <3>1 DEF Dated
    <3>3. Stand'[t] = remain[t]
      BY <1>5, <2>3 DEF Stand
    <3> QED BY <1>10, <3>2, <3>3
  <2>6. \A u \in Tasks \ {t} : /\ Off'[u] = Off[u] /\ (u \in ToSet(timers') <=> u \in ToSet(timers))
                               /\ expire'[u] = expire[u] /\ remain'[u] = remain[u]
    BY <1>5, <2>1
  <2>7. t \in Waiting' => 0 <= Stand'[t] \/ (t \in Waiting /\ Stand[t] <= Stand'[t])
    BY <1>10, <2>5
  <2>8. /\ \A r \in {0, Lag} : Room(r) => Room(r)'
        /\ /\ t \in Waiting /\ (t \notin Waiting' \/ 0 <= Stand'[t])
           /\ \A u \in ToSet(timers) : Stand[t] <= Off[u]
           /\ Room(0)
           => Room(Lag)'
    BY <1>1, <1>2, <2>3, <2>6, <2>7, MovedRoom
  <2>9. Room(Lag)' \/ (Room(0)' /\ AtFirst')
    BY <1>1, <1>10, <2>2, <2>8
  <2>10. WaitInv'
    BY <1>5, <1>11, <1>13, <2>1, <2>2, <2>9 DEF WaitInv, Lag
  <2> QED BY <1>1, <2>1, <2>10 DEF InWq
\* ... and when it moved.
<1>14. ASSUME expire[t] # Eternity, ~TickIsExpired(expire[t], now), Requeue(t, expire[t]),
              eb' = IF f = None \/ wqkey[f] > expire[t] THEN t ELSE f,
              unseen' = IF expire[t] < wqkey[t] THEN alive ELSE unseen
       PROVE  /\ WaitInv' /\ InWq(t)' /\ Off'[t] = remain[t]
              /\ \A u \in alive \ {t} : Off'[u] = Off[u] /\ (InWq(u) <=> InWq(u)')
  <2>1. PICK date \in Ticks, x \in Int : date = expire[t] /\ x = remain[t]
    BY <1>1
  <2>2. InTime(D, x, date) /\ date # Eternity /\ Requeue(t, date)
    BY <1>9, <1>14, <2>1
  <2>3. 0 <= x
    <3>1. ~(x <= 0)
      BY <1>1, <1>14, <2>1, <2>2, Passes
    <3> QED BY <3>1
  <2>4. /\ Waits(timers, wqkey, Off)' /\ ToSet(timers') = ToSet(timers) \cup {t}
        /\ Off' = [Off EXCEPT ![t] = x]
    BY <1>1, <1>5, <2>2, RequeueTime
  <2>5. Room(Lag)'
    <3>1. Off'[t] = x /\ 0 <= Off'[t] + Extra[t]
      <4>1. Extra[t] \in Nat /\ Off'[t] = x
        BY <1>1, <2>4
      <4> QED BY <2>3, <4>1
    <3>2. t \in ToSet(timers') /\ Stand'[t] = x
      BY <2>4, <3>1 DEF Stand
    <3>3. \A u \in Tasks \ {t} : /\ Off'[u] = Off[u] /\ (u \in ToSet(timers') <=> u \in ToSet(timers))
                                 /\ expire'[u] = expire[u] /\ remain'[u] = remain[u]
      BY <1>1, <1>5, <2>4
    <3>4. 0 <= Stand'[t]
      BY <2>3, <3>2
    <3>5. /\ \A r \in {0, Lag} : Room(r) => Room(r)'
          /\ /\ t \in Waiting /\ (t \notin Waiting' \/ 0 <= Stand'[t])
             /\ \A u \in ToSet(timers) : Stand[t] <= Off[u]
             /\ Room(0)
             => Room(Lag)'
      BY <1>1, <1>2, <3>1, <3>3, <3>4, MovedRoom
    <3> QED BY <1>1, <1>10, <3>4, <3>5
  <2>6. AtFirst /\ wqkey[t] <= date => AtFirst'
    <3> SUFFICES ASSUME AtFirst, wqkey[t] <= date PROVE AtFirst'
      OBVIOUS
    <3>1. Off[t] <= x
      BY <1>1, <1>8, <2>3
    <3>2. eb' = IF f = None \/ wqkey[f] > date THEN t ELSE f
      BY <1>14, <2>1
    <3> QED BY <1>1, <1>4, <1>5, <1>7, <2>2, <3>1, <3>2, RequeueFirst DEF f
  <2>7. unseen' = alive' \/ AtFirst'
    <3>1. wqkey[t] \in Int /\ date \in Int
      BY <1>1, TicksAre DEF WqOK
    <3> QED BY <1>5, <1>11, <1>14, <2>1, <2>6, <3>1
  <2>8. WaitInv'
    BY <1>5, <2>4, <2>5, <2>7 DEF WaitInv, Lag
  <2> QED BY <1>1, <2>1, <2>4, <2>8 DEF InWq
<1>15. PinInv(D)'
  BY <1>5 DEF PinInv
<1>16. \A u \in timer : Soon(D, u, 0)
  BY <1>1, <1>5 DEF TurnInv
<1>17. cur' = None /\ timer \ {cur} = timer
  BY <1>1, <1>5
\* The timer expired.
<1>18. CASE /\ TickIsExpired(expire[t], now) /\ UnlinkWq(t) /\ TaskWakeup(t, nice[t], TRUE)
            /\ eb' = f /\ unseen' = unseen
  <2>1. timer' = timer \cup {t} /\ timer' \ {cur'} = timer'
    BY <1>1, <1>17, <1>18 DEF TaskWakeup
  <2>2. nice[t] \in AllNices /\ TRUE \in BOOLEAN
    BY DEF Order
  <2>3. /\ ToSet(rqueue') = ToSet(rqueue) \cup {t}
        /\ \A u \in ToSet(rqueue) : Turns(D, rqueue', ahead', u) <= Turns(D, rqueue, ahead, u)
    BY <1>1, <1>2, <1>18, <2>2, WokenTurns
  <2>4. /\ WaitInv' /\ ~InWq(t)'
        /\ \A u \in alive \ {t} : Off'[u] = Off[u] /\ (InWq(u) <=> InWq(u)')
    BY <1>13, <1>18
  <2>5. DateInv'
    <3>1. \A u \in alive : Dated(u)'
      BY <1>1, <1>5, <2>1, <2>4 DEF DateInv, Dated
    <3> QED BY <1>1, <1>5, <1>7, <1>17, <2>1, <2>3, <3>1 DEF DateInv
  <2>6. ASSUME NEW u \in timer PROVE Soon(D, u, 0)'
    <3>1. u \in ToSet(rqueue) /\ u \in ToSet(rqueue') /\ u \in Tasks /\ remain[u] \in Int
      BY <1>1, <1>17, <2>3 DEF DateInv
    <3>2. /\ Soon(D, u, 0) /\ expire'[u] = expire[u] /\ remain'[u] = remain[u]
          /\ Extra' = Extra /\ Extra[u] \in Nat
      BY <1>1, <1>5, <1>16, <3>1 DEF Extra
    <3>3. 0 \in Int /\ Turns(D, rqueue', ahead', u) <= Turns(D, rqueue, ahead, u)
      BY <2>3, <3>1
    <3> QED BY <1>1, <1>2, <3>1, <3>2, <3>3, SoonStill
  <2>7. t \notin timer => Soon(D, t, 0)'
    <3> SUFFICES ASSUME t \notin timer PROVE Soon(D, t, 0)'
      OBVIOUS
    <3>1. /\ t \in ToSet(rqueue') /\ remain'[t] \in Int /\ remain'[t] = remain[t]
          /\ Extra' = Extra /\ Extra[t] \in Nat
      BY <1>1, <1>5, <2>3 DEF Extra
    <3>2. expire[t] # Eternity
      BY <1>18 DEF TickIsExpired
    <3>3. Off[t] <= remain[t]
      BY <1>1, <1>7, <3>2 DEF DateInv, Dated
    <3>4. -(Lag * Crowd) <= remain'[t] + Extra[t]
      BY <1>1, <1>8, <3>1, <3>3, TimelyIs
    <3> QED BY <1>2, <3>1, <3>4, SoonNew
  <2>8. TurnInv(D)'
    <3>1. \A u \in timer' \ {cur'} : Soon(D, u, 0)'
      BY <2>1, <2>6, <2>7
    <3>2. cur' \notin timer'
      BY <1>1, <1>17, <2>1
    <3> QED BY <1>5, <3>1, <3>2 DEF TurnInv, Late, Lag, Most
  <2> QED BY <1>15, <2>4, <2>5, <2>8 DEF TimeInv
\* It did not: no other task is concerned.
<1>19. ASSUME UNCHANGED <<rqueue, ahead, timer>>, WaitInv', Dated(t)',
              \A u \in alive \ {t} : Off'[u] = Off[u] /\ (InWq(u) <=> InWq(u)')
       PROVE  TimeInv(D)'
  <2>1. DateInv'
    <3>1. \A u \in alive : Dated(u)'
      BY <1>1, <1>5, <1>19 DEF DateInv, Dated
    <3> QED BY <1>1, <1>5, <1>19, <3>1 DEF DateInv
  <2>2. TurnInv(D)'
    <3>1. \A u \in timer' \ {cur'} : Soon(D, u, 0)'
      BY <1>5, <1>16, <1>19 DEF Soon, Extra, Spare, Lag, Most
    <3>2. cur' \notin timer'
      BY <1>1, <1>17, <1>19
    <3> QED BY <1>5, <3>1, <3>2 DEF TurnInv, Late, Lag, Most
  <2> QED BY <1>15, <1>19, <2>1, <2>2 DEF TimeInv
<1>20. CASE /\ expire[t] = Eternity /\ UnlinkWq(t) /\ eb' = f
            /\ UNCHANGED <<rqueue, ahead, timer, unseen>>
  <2>1. Dated(t)'
    BY <1>5, <1>13, <1>20 DEF Dated
  <2> QED BY <1>13, <1>19, <1>20, <2>1
<1>21. CASE /\ expire[t] # Eternity /\ ~TickIsExpired(expire[t], now) /\ Requeue(t, expire[t])
            /\ eb' = IF f = None \/ wqkey[f] > expire[t] THEN t ELSE f
            /\ unseen' = IF expire[t] < wqkey[t] THEN alive ELSE unseen
            /\ UNCHANGED <<rqueue, ahead, timer>>
  <2>1. /\ WaitInv' /\ InWq(t)' /\ Off'[t] = remain[t]
        /\ \A u \in alive \ {t} : Off'[u] = Off[u] /\ (InWq(u) <=> InWq(u)')
    BY <1>14, <1>21
  <2>2. Dated(t)'
    BY <1>1, <1>5, <1>7, <1>9, <1>21, <1>12, <2>1 DEF Dated, InWq
  <2> QED BY <1>19, <1>21, <2>1, <2>2
<1> QED BY <1>6, <1>18, <1>20, <1>21

\* A step of something else keeps the dates.
LEMMA StutterTime ==
  ASSUME NEW D, TimeInv(D), UNCHANGED vars PROVE TimeInv(D)'
<1>1. UNCHANGED <<syncs, alive, now, next, pc, eb, left, cur, unseen, timers, wqkey, expire, remain,
                  timer, rqueue, ahead>>
  BY DEF vars, life, bounds, dates, waitq, runq, loop
<1>2. Off' = Off /\ Waits(timers, wqkey, Off)' = Waits(timers, wqkey, Off)
      /\ \A r : Room(r)' = Room(r)
  BY <1>1, SameWaits
<1>3. WaitInv'
  <2>1. WaitInv /\ AtFirst' = AtFirst
    BY <1>1, <1>2 DEF TimeInv, AtFirst, Node
  <2> QED BY <1>1, <1>2, <2>1 DEF WaitInv, Lag
<1>4. DateInv'
  BY <1>1, <1>2 DEF TimeInv, DateInv, Dated, InWq
<1>5. TurnInv(D)'
  <2>1. Begins(D)' = Begins(D)
    BY <1>1 DEF Begins, RoomFor, Walked
  <2>2. \A t \in timer, s \in {0, Lag} : Soon(D, t, s) => Soon(D, t, s)'
    BY <1>1 DEF Soon, Extra, Spare, Lag, Most
  <2> QED BY <1>1, <2>1, <2>2 DEF TimeInv, TurnInv, Late, Lag, Most
<1>6. PinInv(D)'
  BY <1>1 DEF TimeInv, PinInv, InTime, NextOff, Late, Lag, Most, InRq
<1> QED BY <1>3, <1>4, <1>5, <1>6 DEF TimeInv

\* Every step keeps the dates, and the room there is.
LEMMA TimeStep ==
  ASSUME NEW D, Timely(D)
  PROVE  SchedulerInv /\ SchedulerInv' /\ Order(D) /\ TimeInv(D) /\ [Next]_vars => TimeInv(D)'
<1>1. SUFFICES ASSUME SchedulerInv, SchedulerInv', Order(D), TimeInv(D), [Next]_vars PROVE TimeInv(D)'
  OBVIOUS
<1>2. Order(D)'
  BY <1>1, OrderStep, TimelyIs
<1>3. syncs' = syncs
  BY <1>1 DEF Next, vars
<1>4. CASE WakeExpiredTasks \/ WakeStep \/ WakeEnds
  BY <1>1, <1>2, <1>3, <1>4, WakeExpiredTasksTime, WakeStepTime, WakeEndsTime
<1>5. CASE ProcessRunnableTasks \/ RunStep \/ RunEnds
  BY <1>1, <1>2, <1>3, <1>5, ProcessRunnableTasksTime, RunStepTime, RunEndsTime
<1>6. CASE Return \/ ReturnNull \/ SetNice
  BY <1>1, <1>2, <1>3, <1>6, ReturnTime, ReturnNullTime, SetNiceTime
<1>7. ASSUME NEW t \in Tasks,
             \/ Wakeup(t) \/ TaskSchedule(t) \/ Postpone(t) \/ SessionShutdown(t)
             \/ SessionAccept(t) \/ SessionComplete(t) \/ KillMiniSession(t)
      PROVE  TimeInv(D)'
  BY <1>1, <1>2, <1>3, <1>7, WakeupTime, TaskScheduleTime, PostponeTime, SessionShutdownTime,
     SessionAcceptTime, SessionCompleteTime, KillMiniSessionTime
<1>8. CASE Poll
  BY <1>1, <1>2, <1>3, <1>8, PollTime
<1>9. CASE UNCHANGED vars
  BY <1>1, <1>9, StutterTime
<1> QED BY <1>1, <1>4, <1>5, <1>6, <1>7, <1>8, <1>9 DEF Next

\* The invariants hold of every behaviour.
LEMMA TimeAlways ==
  ASSUME NEW CONSTANT D, Timely(D) PROVE Spec => [](SchedulerInv /\ Order(D) /\ TimeInv(D))
<1>1. Init => Order(D) /\ TimeInv(D)
  BY InitOrder, InitTime, TimelyIs
<1>2. SchedulerInv /\ SchedulerInv' /\ Order(D) /\ [Next]_vars => Order(D)'
  BY OrderStep, TimelyIs
<1>3. SchedulerInv /\ SchedulerInv' /\ Order(D) /\ TimeInv(D) /\ [Next]_vars => TimeInv(D)'
  BY TimeStep
<1> QED BY <1>1, <1>2, <1>3, SchedulerAlways, PTL DEF Spec

(***************************************************************************)
(* However late tasks run, and wherever dates wrap: the sign of a          *)
(* difference to now_ms tells how far away every expiration is (ticks.h,   *)
(* task_queue(), wake_expired_tasks()), if half of the ticks holds the     *)
(* longest delay and the time the tasks there may be can take.             *)
(***************************************************************************)
THEOREM TimeSafety == ASSUME NEW CONSTANT D, Timely(D) PROVE Spec => []TicksTellTime
<1>1. SchedulerInv /\ Order(D) /\ TimeInv(D) => TicksTellTime
  BY TimeTells
<1> QED BY <1>1, TimeAlways, PTL

(***************************************************************************)
(* The loop asks the poller to come back no later than the first           *)
(* expiration of any task the round has seen (wake_expired_tasks(),        *)
(* process_runnable_tasks(), run_poll_loop()).                             *)
(***************************************************************************)
THEOREM PollSafety == ASSUME NEW CONSTANT D, Timely(D) PROVE Spec => []PollsInTime
<1>1. SchedulerInv /\ Order(D) /\ TimeInv(D) => PollsInTime
  BY TimeTells
<1> QED BY <1>1, TimeAlways, PTL
============================================================================
