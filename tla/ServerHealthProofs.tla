------------------------- MODULE ServerHealthProofs -------------------------
EXTENDS ServerHealth, WellFoundedInduction, SequenceTheorems, TLAPS

-----------------------------------------------------------------------------
(* Places and sums.                                                        *)

\* Every server has one place in one backend.
LEMMA Places ==
  \A s \in Servers :
    /\ Be(s) \in Backends /\ Pos(s) \in DOMAIN SrvList[Be(s)] /\ SrvList[Be(s)][Pos(s)] = s
    /\ \A p \in Backends : \A j \in DOMAIN SrvList[p] :
         SrvList[p][j] = s => p = Be(s) /\ j = Pos(s)
<1> SUFFICES ASSUME NEW s \in Servers
             PROVE  /\ Be(s) \in Backends /\ Pos(s) \in DOMAIN SrvList[Be(s)]
                    /\ SrvList[Be(s)][Pos(s)] = s
                    /\ \A p \in Backends : \A j \in DOMAIN SrvList[p] :
                         SrvList[p][j] = s => p = Be(s) /\ j = Pos(s)
  OBVIOUS
<1>1. PICK p \in Backends : s \in Range(SrvList[p]) /\ \A q \in Backends \ {p} : s \notin Range(SrvList[q])
  BY BackendsAssumption
<1>2. Be(s) \in Backends /\ s \in Range(SrvList[Be(s)])
  BY <1>1 DEF Be
<1>3. Be(s) = p
  BY <1>1, <1>2
<1>4. \E i \in DOMAIN SrvList[Be(s)] : SrvList[Be(s)][i] = s
  BY <1>2 DEF Range
<1>5. Pos(s) \in DOMAIN SrvList[Be(s)] /\ SrvList[Be(s)][Pos(s)] = s
  BY <1>4 DEF Pos
<1>6. ASSUME NEW q \in Backends, NEW j \in DOMAIN SrvList[q], SrvList[q][j] = s
      PROVE  q = Be(s) /\ j = Pos(s)
  <2>1. s \in Range(SrvList[q])
    BY <1>6 DEF Range
  <2>2. q = Be(s)
    BY <1>1, <1>3, <2>1
  <2>3. IsInjective(SrvList[q])
    BY BackendsAssumption
  <2> QED BY <1>5, <1>6, <2>2, <2>3 DEF IsInjective
<1> QED BY <1>2, <1>5, <1>6

\* A list has a length, positions and servers in it.
LEMMA Lists ==
  \A p \in Backends :
    /\ Len(SrvList[p]) \in Nat /\ DOMAIN SrvList[p] = 1..Len(SrvList[p])
    /\ \A j \in 1..Len(SrvList[p]) : SrvList[p][j] \in Servers
<1> TAKE p \in Backends
<1>1. SrvList[p] \in Seq(Servers)
  BY BackendsAssumption
<1>2. Len(SrvList[p]) \in Nat /\ DOMAIN SrvList[p] = 1..Len(SrvList[p])
  BY <1>1, LenProperties
<1>3. ASSUME NEW j \in 1..Len(SrvList[p]) PROVE SrvList[p][j] \in Servers
  BY <1>1, <1>2, ElementOfSeq
<1> QED BY <1>2, <1>3

IsSum(h, w, n) == h = [k \in 0..n |-> IF k = 0 THEN 0 ELSE h[k - 1] + w[k]]

\* The partial sums of a list exist, and are integers.
LEMMA SumExists ==
  ASSUME NEW w, NEW n \in Nat
  PROVE  \E h : IsSum(h, w, n)
<1> DEFINE D == {m \in Nat : \A h : ~IsSum(h, w, m)}
<1> SUFFICES ASSUME D # {} PROVE FALSE
  OBVIOUS
<1>1. PICK m \in D : \A y \in D : <<y, m>> \notin OpToRel(<, Nat)
  BY NatLessThanWellFounded, WFMin
<1>2. \A y \in D : ~(y < m)
  BY <1>1 DEF OpToRel
<1>3. CASE m = 0
  <2> DEFINE h == [k \in 0..0 |-> 0]
  <2>1. h = [k \in 0..0 |-> IF k = 0 THEN 0 ELSE h[k - 1] + w[k]]
    OBVIOUS
  <2>2. IsSum(h, w, m)
    BY <1>3, <2>1 DEF IsSum
  <2> QED BY <2>2
<1>4. CASE m > 0
  <2>1. m - 1 \in Nat /\ m - 1 < m
    BY <1>4
  <2>2. PICK g : IsSum(g, w, m - 1)
    BY <1>2, <2>1
  <2> DEFINE h == [k \in 0..m |-> IF k < m THEN g[k] ELSE g[m - 1] + w[m]]
  <2>3. \A k \in 0..(m - 1) : g[k] = IF k = 0 THEN 0 ELSE g[k - 1] + w[k]
    BY <2>2 DEF IsSum
  <2>4. ASSUME NEW k \in 0..m PROVE h[k] = IF k = 0 THEN 0 ELSE h[k - 1] + w[k]
    <3>1. CASE k = 0
      BY <1>4, <2>1, <2>3, <3>1
    <3>2. CASE k > 0 /\ k < m
      <4>1. k \in 0..(m - 1) /\ k - 1 \in 0..m /\ k - 1 < m
        BY <3>2
      <4>2. h[k] = g[k] /\ h[k - 1] = g[k - 1]
        BY <3>2, <4>1
      <4> QED BY <2>3, <3>2, <4>1, <4>2
    <3>3. CASE k = m
      <4>1. m - 1 \in 0..m /\ m - 1 < m /\ ~(m < m) /\ m # 0
        BY <1>4
      <4>2. h[m - 1] = g[m - 1] /\ h[m] = g[m - 1] + w[m]
        BY <4>1
      <4> QED BY <3>3, <4>1, <4>2
    <3> QED BY <3>1, <3>2, <3>3
  <2>5. IsSum(h, w, m)
    BY <2>4 DEF IsSum
  <2> QED BY <2>5
<1> QED BY <1>3, <1>4

Sums(w, n) == CHOOSE h : h = [k \in 0..n |-> IF k = 0 THEN 0 ELSE h[k - 1] + w[k]]

LEMMA SumsAre ==
  ASSUME NEW n \in Nat, NEW w \in [1..n -> Int]
  PROVE  /\ Sum(w) = Sums(w, n)[n]
         /\ \A k \in 0..n : Sums(w, n)[k] = IF k = 0 THEN 0 ELSE Sums(w, n)[k - 1] + w[k]
<1>1. Len(w) = n
  <2>1. w \in Seq(Int)
    BY SeqDef
  <2> QED BY <2>1, LenProperties
<1>2. Sum(w) = Sums(w, n)[n]
  BY <1>1 DEF Sum, Sums
<1> DEFINE H == Sums(w, n)
<1>3. H = [k \in 0..n |-> IF k = 0 THEN 0 ELSE H[k - 1] + w[k]]
  <2>1. \E h : h = [k \in 0..n |-> IF k = 0 THEN 0 ELSE h[k - 1] + w[k]]
    <3>1. PICK h : IsSum(h, w, n)
      BY SumExists, Zenon
    <3> QED BY <3>1, Zenon DEF IsSum
  <2> QED BY <2>1, Zenon DEF Sums
<1> HIDE DEF H
<1>4. \A k \in 0..n : H[k] = IF k = 0 THEN 0 ELSE H[k - 1] + w[k]
  BY <1>3
<1> QED BY <1>2, <1>4 DEF H

LEMMA ShiftOn ==
  \A a, b, c, d, e \in Int : b = a + c - d => b + e = a + e + c - d
  OBVIOUS

\* A number of a list that changes shifts its sum by as much.
LEMMA SumShift ==
  ASSUME NEW n \in Nat, NEW u \in [1..n -> Int], NEW w \in [1..n -> Int],
         NEW i \in 1..n, \A j \in 1..n : j # i => u[j] = w[j]
  PROVE  Sum(u) \in Int /\ Sum(w) \in Int /\ Sum(w) = Sum(u) + w[i] - u[i]
<1> DEFINE U == Sums(u, n)
           W == Sums(w, n)
<1>1. Sum(u) = U[n] /\ Sum(w) = W[n]
  BY SumsAre
<1>2. \A k \in 0..n : U[k] = IF k = 0 THEN 0 ELSE U[k - 1] + u[k]
  BY SumsAre
<1>3. \A k \in 0..n : W[k] = IF k = 0 THEN 0 ELSE W[k - 1] + w[k]
  BY SumsAre
<1> HIDE DEF U, W
<1> DEFINE Good(k) == /\ U[k] \in Int /\ W[k] \in Int
                      /\ k < i => W[k] = U[k]
                      /\ k >= i => W[k] = U[k] + w[i] - u[i]
           D == {k \in 0..n : ~Good(k)}
<1>4. D = {}
  <2> SUFFICES ASSUME D # {} PROVE FALSE
    OBVIOUS
  <2>0. D \in SUBSET Nat
    OBVIOUS
  <2>1. PICK m \in D : \A y \in D : <<y, m>> \notin OpToRel(<, Nat)
    BY <2>0, NatLessThanWellFounded, WFMin
  <2>2. \A y \in D : ~(y < m)
    BY <2>0, <2>1 DEF OpToRel
  <2>3. m \in 0..n /\ ~Good(m)
    OBVIOUS
  <2>4. CASE m = 0
    BY <1>2, <1>3, <2>3, <2>4
  <2>5. CASE m > 0
    <3>1. m - 1 \in 0..n /\ m - 1 < m /\ m \in 1..n
      BY <2>3, <2>5
    <3>2. Good(m - 1)
      BY <2>2, <3>1
    <3>3. U[m] = U[m - 1] + u[m] /\ W[m] = W[m - 1] + w[m]
      BY <1>2, <1>3, <2>3, <2>5
    <3>4. u[m] \in Int /\ w[m] \in Int /\ u[i] \in Int /\ w[i] \in Int
      BY <3>1
    <3>5. CASE m = i
      BY <2>3, <3>1, <3>2, <3>3, <3>4, <3>5
    <3>6. CASE m # i
      <4>1. u[m] = w[m]
        BY <3>1, <3>6
      <4>2. CASE m < i
        <5>1. U[m - 1] \in Int /\ W[m - 1] = U[m - 1]
          BY <3>1, <3>2, <4>2
        <5> QED BY <2>3, <3>3, <3>4, <4>1, <4>2, <5>1
      <4>3. CASE m > i
        <5>1. m - 1 >= i
          BY <3>1, <4>3
        <5>2. U[m - 1] \in Int /\ W[m - 1] = U[m - 1] + w[i] - u[i]
          BY <3>2, <5>1
        <5>3. U[m] \in Int /\ W[m] \in Int /\ W[m] = U[m] + w[i] - u[i]
          <6> DEFINE a == U[m - 1]
                     b == W[m - 1]
                     c == w[i]
                     d == u[i]
                     e == u[m]
          <6>1. {a, b, c, d, e} \subseteq Int /\ b = a + c - d
            BY <3>2, <3>4, <5>2
          <6>2. U[m] = a + e /\ W[m] = b + e
            BY <3>3, <4>1
          <6> HIDE DEF a, b, c, d, e
          <6>3. a + e \in Int /\ b + e \in Int
            BY <6>1
          <6>4. b + e = a + e + c - d
            BY <6>1, ShiftOn
          <6>5. U[m] \in Int /\ W[m] \in Int /\ W[m] = U[m] + c - d
            BY <6>2, <6>3, <6>4
          <6> QED BY <6>5 DEF c, d
        <5>4. m >= i /\ ~(m < i)
          BY <3>1, <4>3
        <5>5. Good(m)
          BY <5>3, <5>4
        <5> QED BY <2>3, <5>5
      <4> QED BY <3>1, <3>6, <4>2, <4>3
    <3> QED BY <3>5, <3>6
  <2> QED BY <2>3, <2>4, <2>5
<1>5. Good(n)
  BY <1>4
<1> QED BY <1>1, <1>5

\* The sum of a list of integers is one.
LEMMA SumInt ==
  ASSUME NEW n \in Nat, NEW u \in [1..n -> Int]
  PROVE  Sum(u) \in Int
<1>1. CASE n = 0
  <2>1. Sum(u) = Sums(u, n)[n] /\ Sums(u, n)[0] = 0
    BY SumsAre
  <2> QED BY <1>1, <2>1
<1>2. CASE n > 0
  <2>1. 1 \in 1..n
    BY <1>2
  <2> QED BY <2>1, SumShift
<1> QED BY <1>1, <1>2

-----------------------------------------------------------------------------
(* What a balancer keeps, from the weights its servers count for.          *)

Loads == [Servers -> Nat]

Ones(L, p, S) ==
  [i \in 1..Len(SrvList[p]) |-> IF SrvList[p][i] \in S /\ L[SrvList[p][i]] > 0 THEN 1 ELSE 0]
Shares(L, p, S) ==
  [i \in 1..Len(SrvList[p]) |-> IF SrvList[p][i] \in S THEN L[SrvList[p][i]] ELSE 0]

Candidates(L, p, i) ==
  {j \in 1..Len(SrvList[p]) : j > i /\ SrvList[p][j] \in Backups /\ L[SrvList[p][j]] > 0}
AtFirst(p, c) == IF c = {} THEN None ELSE SrvList[p][CHOOSE j \in c : \A k \in c : j <= k]
FirstBackup(L, p, i) == AtFirst(p, Candidates(L, p, i))

Total(L, act, wact, fbck, wbck) ==
  IF act > 0 THEN wact ELSE IF fbck # None THEN L[fbck] ELSE wbck

\* The record k is what the weights L make of p: its counts, and the total too.
Counts(L, p, k) ==
  /\ k.act = Sum(Ones(L, p, Servers \ Backups)) /\ k.bck = Sum(Ones(L, p, Backups))
  /\ k.wact = Sum(Shares(L, p, Servers \ Backups)) /\ k.wbck = Sum(Shares(L, p, Backups))
  /\ k.fbck = FirstBackup(L, p, 0)
Tallies(L, p, k) ==
  /\ Counts(L, p, k)
  /\ k.tot = Total(L, k.act, k.wact, k.fbck, k.wbck)

LEMMA ListTypes ==
  ASSUME NEW L \in Loads, NEW p \in Backends, NEW S
  PROVE  Ones(L, p, S) \in [1..Len(SrvList[p]) -> Int] /\ Shares(L, p, S) \in [1..Len(SrvList[p]) -> Int]
<1>1. \A i \in 1..Len(SrvList[p]) : L[SrvList[p][i]] \in Nat
  BY Lists DEF Loads
<1> QED BY <1>1 DEF Ones, Shares

\* One server's weight changes: the sums of the lists with it shift.
LEMMA SumsShift ==
  ASSUME NEW L \in Loads, NEW K \in Loads, NEW s \in Servers, NEW S,
         \A t \in Servers : t # s => K[t] = L[t]
  PROVE  /\ Sum(Ones(L, Be(s), S)) \in Int /\ Sum(Shares(L, Be(s), S)) \in Int
         /\ s \in S =>
              /\ Sum(Ones(K, Be(s), S)) = Sum(Ones(L, Be(s), S)) + (IF K[s] > 0 THEN 1 ELSE 0)
                                            - (IF L[s] > 0 THEN 1 ELSE 0)
              /\ Sum(Shares(K, Be(s), S)) = Sum(Shares(L, Be(s), S)) + K[s] - L[s]
         /\ s \notin S => /\ Sum(Ones(K, Be(s), S)) = Sum(Ones(L, Be(s), S))
                          /\ Sum(Shares(K, Be(s), S)) = Sum(Shares(L, Be(s), S))
<1> DEFINE p == Be(s)
           n == Len(SrvList[p])
           i == Pos(s)
           x == Ones(L, p, S)
           y == Ones(K, p, S)
           u == Shares(L, p, S)
           w == Shares(K, p, S)
<1>1. p \in Backends /\ i \in 1..n /\ SrvList[p][i] = s /\ n \in Nat
  BY Places, Lists
<1>2. x \in [1..n -> Int] /\ y \in [1..n -> Int] /\ u \in [1..n -> Int] /\ w \in [1..n -> Int]
  BY <1>1, ListTypes
<1>3. ASSUME NEW j \in 1..n, j # i PROVE x[j] = y[j] /\ u[j] = w[j]
  <2>1. SrvList[p][j] # s /\ SrvList[p][j] \in Servers
    BY <1>1, <1>3, Places, Lists
  <2>2. L[SrvList[p][j]] = K[SrvList[p][j]]
    BY <2>1
  <2> QED BY <2>2 DEF Ones, Shares
<1>4. /\ x[i] = IF s \in S /\ L[s] > 0 THEN 1 ELSE 0
      /\ y[i] = IF s \in S /\ K[s] > 0 THEN 1 ELSE 0
      /\ u[i] = IF s \in S THEN L[s] ELSE 0
      /\ w[i] = IF s \in S THEN K[s] ELSE 0
  BY <1>1 DEF Ones, Shares
<1> HIDE DEF n, i, x, y, u, w
<1>5. Sum(x) \in Int /\ Sum(y) \in Int /\ Sum(y) = Sum(x) + y[i] - x[i]
  BY <1>1, <1>2, <1>3, SumShift
<1>6. Sum(u) \in Int /\ Sum(w) \in Int /\ Sum(w) = Sum(u) + w[i] - u[i]
  BY <1>1, <1>2, <1>3, SumShift
<1>7. L[s] \in Nat /\ K[s] \in Nat
  BY DEF Loads
<1>8. CASE s \in S
  <2>1. Sum(y) = Sum(x) + (IF K[s] > 0 THEN 1 ELSE 0) - (IF L[s] > 0 THEN 1 ELSE 0)
    BY <1>4, <1>5, <1>8
  <2>2. Sum(w) = Sum(u) + K[s] - L[s]
    BY <1>4, <1>6, <1>8
  <2> QED BY <1>5, <1>6, <1>8, <2>1, <2>2 DEF x, y, u, w
<1>9. CASE s \notin S
  <2>1. Sum(y) = Sum(x) /\ Sum(w) = Sum(u)
    BY <1>4, <1>5, <1>6, <1>9
  <2> QED BY <1>5, <1>6, <1>9, <2>1 DEF x, y, u, w
<1> QED BY <1>8, <1>9

\* A set of positions that is not empty has a least one.
LEMMA LeastPosition ==
  ASSUME NEW c \in SUBSET Nat, c # {}
  PROVE  \E j \in c : \A k \in c : j <= k
<1>1. PICK j \in c : \A y \in c : <<y, j>> \notin OpToRel(<, Nat)
  BY NatLessThanWellFounded, WFMin
<1>2. \A y \in c : ~(y < j)
  BY <1>1 DEF OpToRel
<1>3. \A y \in c : j <= y
  BY <1>2
<1> QED BY <1>3

\* The first backup server is the one at the least position.
LEMMA FirstIs ==
  ASSUME NEW L, NEW p \in Backends, NEW i \in Nat
  PROVE  /\ Candidates(L, p, i) = {} => FirstBackup(L, p, i) = None
         /\ Candidates(L, p, i) # {} =>
              \E j \in Candidates(L, p, i) : /\ \A k \in Candidates(L, p, i) : j <= k
                                            /\ FirstBackup(L, p, i) = SrvList[p][j]
<1> DEFINE c == Candidates(L, p, i)
<1>1. c = {} => FirstBackup(L, p, i) = None
  BY DEF FirstBackup, AtFirst
<1>2. ASSUME c # {}
      PROVE  \E j \in c : (\A k \in c : j <= k) /\ FirstBackup(L, p, i) = SrvList[p][j]
  <2>1. c \in SUBSET Nat
    BY DEF Candidates
  <2>2. \E j \in c : \A k \in c : j <= k
    BY <1>2, <2>1, LeastPosition
  <2> DEFINE m == CHOOSE j \in c : \A k \in c : j <= k
  <2>3. m \in c /\ \A k \in c : m <= k
    BY <2>2
  <2>4. FirstBackup(L, p, i) = SrvList[p][m]
    BY <1>2 DEF FirstBackup, AtFirst
  <2> QED BY <2>3, <2>4
<1> QED BY <1>1, <1>2

LEMMA FirstBy ==
  ASSUME NEW L, NEW p \in Backends, NEW i \in Nat, NEW j \in Candidates(L, p, i),
         \A k \in Candidates(L, p, i) : j <= k
  PROVE  FirstBackup(L, p, i) = SrvList[p][j]
<1>1. PICK m \in Candidates(L, p, i) : /\ \A k \in Candidates(L, p, i) : m <= k
                                       /\ FirstBackup(L, p, i) = SrvList[p][m]
  BY FirstIs
<1>2. m <= j /\ j <= m /\ m \in Nat /\ j \in Nat
  BY <1>1 DEF Candidates
<1>3. m = j
  BY <1>2
<1> QED BY <1>1, <1>3

LEMMA FirstType ==
  ASSUME NEW L, NEW p \in Backends
  PROVE  LET f == FirstBackup(L, p, 0)
         IN  /\ f \in Servers \cup {None}
             /\ f # None => f \in Servers \cap Backups /\ L[f] > 0 /\ Be(f) = p
<1>1. CASE Candidates(L, p, 0) = {}
  BY <1>1, FirstIs
<1>2. CASE Candidates(L, p, 0) # {}
  <2>1. PICK j \in Candidates(L, p, 0) : FirstBackup(L, p, 0) = SrvList[p][j]
    BY <1>2, FirstIs
  <2>2. /\ j \in 1..Len(SrvList[p]) /\ SrvList[p][j] \in Backups /\ L[SrvList[p][j]] > 0
        /\ SrvList[p][j] \in Servers
    BY <2>1, Lists DEF Candidates
  <2>3. Be(SrvList[p][j]) = p
    BY <2>2, Places, Lists
  <2> QED BY <2>1, <2>2, <2>3
<1> QED BY <1>1, <1>2

\* The other backends do not see the change.
LEMMA OthersTally ==
  ASSUME NEW L \in Loads, NEW K \in Loads, NEW s \in Servers, NEW q \in Backends, q # Be(s),
         \A t \in Servers : t # s => K[t] = L[t], NEW k, Tallies(L, q, k)
  PROVE  Tallies(K, q, k)
<1>1. ASSUME NEW i \in 1..Len(SrvList[q])
      PROVE  SrvList[q][i] \in Servers /\ K[SrvList[q][i]] = L[SrvList[q][i]]
  BY Lists, Places
<1>2. ASSUME NEW S PROVE Ones(K, q, S) = Ones(L, q, S) /\ Shares(K, q, S) = Shares(L, q, S)
  <2> DEFINE n == Len(SrvList[q])
             l(i) == SrvList[q][i]
  <2>1. \A i \in 1..n : /\ (IF l(i) \in S /\ K[l(i)] > 0 THEN 1 ELSE 0)
                             = (IF l(i) \in S /\ L[l(i)] > 0 THEN 1 ELSE 0)
                        /\ (IF l(i) \in S THEN K[l(i)] ELSE 0) = (IF l(i) \in S THEN L[l(i)] ELSE 0)
    BY <1>1
  <2>2. Ones(K, q, S) = Ones(L, q, S)
    BY <2>1 DEF Ones
  <2>3. Shares(K, q, S) = Shares(L, q, S)
    BY <2>1 DEF Shares
  <2> QED BY <2>2, <2>3
<1>3. Candidates(K, q, 0) = Candidates(L, q, 0)
  BY <1>1 DEF Candidates
<1>4. FirstBackup(K, q, 0) = FirstBackup(L, q, 0)
  BY <1>3 DEF FirstBackup
<1>5. ASSUME k.fbck # None PROVE K[k.fbck] = L[k.fbck]
  <2> DEFINE f == FirstBackup(L, q, 0)
  <2>1. k.fbck = f
    BY DEF Tallies, Counts
  <2>2. f # None => f \in Servers /\ Be(f) = q
    BY FirstType
  <2> HIDE DEF f
  <2> QED BY <1>5, <2>1, <2>2
<1> QED BY <1>2, <1>4, <1>5 DEF Tallies, Counts, Total

\* The first backup server once the weight of s has changed from L to K.
NewFirst(L, K, s, first) ==
  IF s \notin Backups THEN first
  ELSE IF K[s] = 0 THEN IF first = s THEN FirstBackup(K, Be(s), Pos(s)) ELSE first
  ELSE IF first = None \/ Pos(first) > Pos(s) THEN s ELSE first

LEMMA FirstShift ==
  ASSUME NEW L \in Loads, NEW K \in Loads, NEW s \in Servers,
         \A t \in Servers : t # s => K[t] = L[t]
  PROVE  FirstBackup(K, Be(s), 0) = NewFirst(L, K, s, FirstBackup(L, Be(s), 0))
<1> DEFINE p == Be(s)
           i == Pos(s)
           first == FirstBackup(L, p, 0)
           c == Candidates(L, p, 0)
           d == Candidates(K, p, 0)
           e == Candidates(K, p, i)
<1>1. p \in Backends /\ i \in 1..Len(SrvList[p]) /\ SrvList[p][i] = s
  BY Places, Lists
<1>2. \A j \in 1..Len(SrvList[p]) : j # i => K[SrvList[p][j]] = L[SrvList[p][j]]
  BY <1>1, Places, Lists
<1>3. \A j \in 1..Len(SrvList[p]) : j # i => (j \in c <=> j \in d)
  BY <1>2 DEF Candidates
<1>4. c \subseteq 1..Len(SrvList[p]) /\ d \subseteq 1..Len(SrvList[p]) /\ Len(SrvList[p]) \in Nat
  BY <1>1, Lists DEF Candidates
<1>5. e = {j \in d : j > i}
  BY <1>1, <1>4 DEF Candidates
<1>6. /\ i \in d <=> s \in Backups /\ K[s] > 0
      /\ i \in c <=> s \in Backups /\ L[s] > 0
  BY <1>1 DEF Candidates
<1>7. K[s] \in Nat /\ L[s] \in Nat
  BY DEF Loads
<1>8. c = {} => first = None
  BY <1>1, FirstIs
<1>9. ASSUME c # {} PROVE \E m \in c : (\A k \in c : m <= k) /\ first = SrvList[p][m] /\ Pos(first) = m
  <2>1. PICK m \in c : (\A k \in c : m <= k) /\ first = SrvList[p][m]
    BY <1>1, <1>9, FirstIs
  <2>2. SrvList[p][m] \in Servers /\ m \in DOMAIN SrvList[p]
    BY <1>1, <1>4, Lists
  <2>3. Pos(SrvList[p][m]) = m
    BY <1>1, <2>2, Places
  <2> QED BY <2>1, <2>3
<1>10. first # None => first \in Servers
  BY <1>1, FirstType
<1>11. c # {} => first # None
  BY <1>1, <1>4, <1>9, Lists, HealthAssumption
<1>12. \A m \in d : (\A k \in d : m <= k) => FirstBackup(K, p, 0) = SrvList[p][m]
  BY <1>1, FirstBy
<1>13. d = {} => FirstBackup(K, p, 0) = None
  BY <1>1, FirstIs
<1>14. s # None
  BY HealthAssumption
<1>15. \A m \in e : (\A k \in e : m <= k) => FirstBackup(K, p, i) = SrvList[p][m]
  BY <1>1, FirstBy
<1>16. e = {} => FirstBackup(K, p, i) = None
  BY <1>1, FirstIs
<1>17. e # {} => \E m \in e : \A k \in e : m <= k
  <2>1. e \in SUBSET Nat
    BY <1>4, <1>5
  <2> QED BY <2>1, LeastPosition
<1> DEFINE new == NewFirst(L, K, s, first)
           is == FirstBackup(K, p, 0)
           from == FirstBackup(K, p, i)
<1> HIDE DEF c, d, e, is, from
\* s is no candidate of its own before or after.
<1>18. CASE s \notin Backups
  <2>1. new = first
    BY <1>18 DEF NewFirst
  <2>2. c = d
    <3>1. i \notin c /\ i \notin d
      BY <1>6, <1>18
    <3>2. ASSUME NEW j \in 1..Len(SrvList[p]) PROVE j \in c <=> j \in d
      BY <1>3, <3>1
    <3> QED BY <1>4, <3>2
  <2>3. CASE c = {}
    BY <1>8, <1>13, <2>1, <2>2, <2>3 DEF is
  <2>4. CASE c # {}
    BY <1>9, <1>12, <2>1, <2>2, <2>4 DEF is
  <2> QED BY <2>3, <2>4 DEF is
<1>19. CASE s \in Backups /\ K[s] = 0 /\ first # s
  <2>1. new = first
    BY <1>19 DEF NewFirst
  <2>2. i \notin d
    BY <1>6, <1>19
  <2>3. CASE c = {}
    BY <1>3, <1>4, <1>8, <1>13, <2>1, <2>2, <2>3 DEF is
  <2>4. CASE c # {}
    <3>1. PICK m \in c : (\A k \in c : m <= k) /\ first = SrvList[p][m]
      BY <1>9, <2>4
    <3>2. m # i
      BY <1>1, <1>19, <3>1
    <3>3. m \in d /\ \A k \in d : m <= k
      BY <1>3, <1>4, <2>2, <3>1, <3>2
    <3> QED BY <1>12, <2>1, <3>1, <3>3 DEF is
  <2> QED BY <2>3, <2>4 DEF is
<1>20. CASE s \in Backups /\ K[s] = 0 /\ first = s
  <2>1. new = from
    BY <1>20 DEF NewFirst, from
  <2>2. i \notin d
    BY <1>6, <1>20
  <2>3. c # {}
    BY <1>8, <1>14, <1>20
  <2>4. \A k \in c : i <= k
    BY <1>9, <1>20, <2>3
  <2>5. d = e
    <3>1. ASSUME NEW j \in d PROVE j > i
      <4>1. j \in 1..Len(SrvList[p]) /\ j # i
        BY <1>4, <2>2
      <4>2. j \in c
        BY <1>3, <4>1
      <4> QED BY <1>1, <2>4, <4>1, <4>2
    <3> QED BY <1>5, <3>1
  <2>6. CASE d = {}
    BY <1>13, <1>16, <2>1, <2>5, <2>6 DEF is, from
  <2>7. CASE d # {}
    <3>1. PICK m \in e : \A k \in e : m <= k
      BY <1>17, <2>5, <2>7
    <3> QED BY <1>12, <1>15, <2>1, <2>5, <3>1 DEF is, from
  <2> QED BY <2>6, <2>7 DEF is
<1>21. CASE s \in Backups /\ K[s] # 0
  <2>1. i \in d
    BY <1>6, <1>7, <1>21
  <2>2. new = IF first = None \/ Pos(first) > i THEN s ELSE first
    BY <1>21 DEF NewFirst
  <2>3. CASE c = {}
    <3>1. d = {i}
      BY <1>3, <1>4, <2>1, <2>3
    <3>2. new = s
      BY <1>8, <2>2, <2>3
    <3> QED BY <1>1, <1>12, <3>1, <3>2 DEF is
  <2>4. CASE c # {}
    <3>1. PICK m \in c : (\A k \in c : m <= k) /\ first = SrvList[p][m] /\ Pos(first) = m
      BY <1>9, <2>4
    <3>2. first # None
      BY <1>11, <2>4
    <3>3. CASE m > i
      <4>1. new = s
        BY <2>2, <3>1, <3>3
      <4>2. \A k \in d : i <= k
        BY <1>1, <1>3, <1>4, <3>1, <3>3
      <4> QED BY <1>1, <1>12, <2>1, <4>1, <4>2 DEF is
    <3>4. CASE ~(m > i)
      <4>1. new = first
        BY <2>2, <3>1, <3>2, <3>4
      <4>2. m \in d
        BY <1>3, <1>4, <2>1, <3>1
      <4>3. \A k \in d : m <= k
        BY <1>1, <1>3, <1>4, <3>1, <3>4
      <4> QED BY <1>12, <3>1, <4>1, <4>2, <4>3 DEF is
    <3> QED BY <3>3, <3>4
  <2> QED BY <2>3, <2>4 DEF is
<1> QED BY <1>18, <1>19, <1>20, <1>21 DEF is

-----------------------------------------------------------------------------
(* lb_fwrr.c: what is committed for one server is what counting afresh     *)
(* gives, when it was so for all the others.                               *)

States == [sv : [Servers -> ServerRecords], px : [Backends -> BackendRecords]]

Prevs(f) == [t \in Servers |-> f[t].prev]
LoadsOf(f) == [t \in Servers |-> Load(f[t])]

\* The balancers agree with the weights that were committed.
Agreed(b) ==
  /\ \A p \in Backends : Tallies(Prevs(b.sv), p, b.px[p])
  /\ \A t \in Servers : b.sv[t].tree <=> b.sv[t].prev > 0

Balanced(b) == Agreed(b) /\ \A t \in Servers : b.sv[t].prev = Load(b.sv[t])
Near(b, s) == b \in States /\ Agreed(b) /\ \A t \in Servers : t # s => b.sv[t].prev = Load(b.sv[t])

\* Two records alike but for what the balancer keeps in them.
Alike(r, q) ==
  /\ q.state = r.state /\ q.admin = r.admin /\ q.health = r.health /\ q.en = r.en
  /\ q.paused = r.paused /\ q.res = r.res /\ q.agent = r.agent /\ q.aen = r.aen
  /\ q.ares = r.ares /\ q.errs = r.errs /\ q.uw = r.uw /\ q.ew = r.ew
  /\ q.since = r.since /\ q.armed = r.armed

LEMMA LoadType ==
  ASSUME NEW r \in ServerRecords
  PROVE  Load(r) \in Nat /\ (SrvIsUsable(r) <=> Load(r) > 0) /\ (SrvIsUsable(r) => Load(r) = r.ew)
<1>1. r.ew \in Nat
  BY DEF ServerRecords
<1> QED BY <1>1 DEF Load, SrvIsUsable

LEMMA CommitIs ==
  ASSUME NEW b \in States, NEW s \in Servers, NEW tree \in BOOLEAN, NEW k \in BackendRecords
  PROVE  LET c == SrvLbCommitStatus(b, s, tree, k)
         IN  /\ c \in States /\ \A t \in Servers : t # s => c.sv[t] = b.sv[t]
             /\ Alike(b.sv[s], c.sv[s]) /\ c.sv[s].prev = Load(b.sv[s]) /\ c.sv[s].tree = tree
             /\ c.px[Be(s)] = k /\ \A q \in Backends : q # Be(s) => c.px[q] = b.px[q]
<1> DEFINE c == SrvLbCommitStatus(b, s, tree, k)
           q == [b.sv[s] EXCEPT !.prev = Load(b.sv[s]), !.tree = tree]
<1>1. b.sv \in [Servers -> ServerRecords] /\ b.px \in [Backends -> BackendRecords]
  BY DEF States
<1>2. b.sv[s] \in ServerRecords
  BY <1>1
<1>3. Load(b.sv[s]) \in Nat
  BY <1>2, LoadType
<1>4. q \in ServerRecords /\ Alike(b.sv[s], q) /\ q.prev = Load(b.sv[s]) /\ q.tree = tree
  <2> DEFINE r == b.sv[s]
             w == Load(r)
  <2>1. r \in ServerRecords /\ w \in Nat
    BY <1>2, <1>3
  <2> HIDE DEF r, w
  <2>2. LET z == [r EXCEPT !.prev = w, !.tree = tree]
        IN  z \in ServerRecords /\ Alike(r, z) /\ z.prev = w /\ z.tree = tree
    BY <2>1 DEF ServerRecords, Alike
  <2> QED BY <2>2 DEF r, w
<1>5. c = [sv |-> [b.sv EXCEPT ![s] = q], px |-> [b.px EXCEPT ![Be(s)] = k]]
  BY DEF SrvLbCommitStatus
<1> HIDE DEF c, q
<1>6. Be(s) \in Backends
  BY Places
<1>7. c \in States
  BY <1>1, <1>4, <1>5 DEF States
<1>8. c.sv = [b.sv EXCEPT ![s] = q] /\ c.px = [b.px EXCEPT ![Be(s)] = k]
  BY <1>5
<1>9. c.sv[s] = q /\ \A t \in Servers : t # s => c.sv[t] = b.sv[t]
  BY <1>1, <1>8
<1>10. c.px[Be(s)] = k /\ \A p \in Backends : p # Be(s) => c.px[p] = b.px[p]
  BY <1>1, <1>6, <1>8
<1> QED BY <1>4, <1>7, <1>9, <1>10 DEF c

\* update_backend_weight() completes the counts.
LEMMA WeightCompletes ==
  ASSUME NEW f \in [Servers -> ServerRecords], NEW p \in Backends,
         NEW k \in BackendRecords, Counts(LoadsOf(f), p, k)
  PROVE  UpdateBackendWeight(k, f) \in BackendRecords /\ Tallies(LoadsOf(f), p, UpdateBackendWeight(k, f))
<1> DEFINE L == LoadsOf(f)
           tot == IF k.act > 0 THEN k.wact ELSE IF k.fbck # None THEN f[k.fbck].ew ELSE k.wbck
           u == UpdateBackendWeight(k, f)
<1>1. k.fbck # None => k.fbck \in Servers /\ L[k.fbck] > 0
  <2> DEFINE first == FirstBackup(L, p, 0)
  <2>1. k.fbck = first
    BY DEF Counts
  <2>2. first # None => first \in Servers /\ L[first] > 0
    BY FirstType
  <2> HIDE DEF first
  <2> QED BY <2>1, <2>2
<1>2. k.fbck # None => f[k.fbck].ew = L[k.fbck] /\ f[k.fbck].ew \in Nat
  <2> SUFFICES ASSUME k.fbck # None PROVE f[k.fbck].ew = L[k.fbck] /\ f[k.fbck].ew \in Nat
    OBVIOUS
  <2>1. k.fbck \in Servers /\ f[k.fbck] \in ServerRecords
    BY <1>1
  <2>2. L[k.fbck] = Load(f[k.fbck]) /\ L[k.fbck] > 0
    BY <1>1, <2>1 DEF LoadsOf
  <2>3. f[k.fbck].ew \in Nat
    BY <2>1 DEF ServerRecords
  <2> QED BY <2>1, <2>2, <2>3, LoadType
<1>3. tot = Total(L, k.act, k.wact, k.fbck, k.wbck)
  BY <1>2 DEF Total
<1>4. tot \in Int
  BY <1>2 DEF BackendRecords
<1>5. u = [k EXCEPT !.tot = tot]
  BY DEF UpdateBackendWeight
<1> HIDE DEF L, tot, u
<1>6. /\ u \in BackendRecords /\ u.act = k.act /\ u.bck = k.bck /\ u.wact = k.wact
      /\ u.wbck = k.wbck /\ u.fbck = k.fbck /\ u.tot = tot
  BY <1>4, <1>5 DEF BackendRecords
<1>7. Counts(L, p, u)
  BY <1>6 DEF Counts, L
<1>8. Tallies(L, p, u)
  BY <1>3, <1>6, <1>7 DEF Tallies
<1> QED BY <1>6, <1>8 DEF u, L

\* Committing s with the counts its weight calls for leaves all balanced.
LEMMA CommitBalances ==
  ASSUME NEW b, NEW s \in Servers, Near(b, s), NEW tree \in BOOLEAN,
         tree <=> Load(b.sv[s]) > 0, NEW k \in BackendRecords, Tallies(LoadsOf(b.sv), Be(s), k)
  PROVE  Balanced(SrvLbCommitStatus(b, s, tree, k))
<1> DEFINE c == SrvLbCommitStatus(b, s, tree, k)
           L == Prevs(b.sv)
           K == LoadsOf(b.sv)
<1>0. b \in States
  BY DEF Near
<1>1. /\ c \in States /\ \A t \in Servers : t # s => c.sv[t] = b.sv[t]
      /\ Alike(b.sv[s], c.sv[s]) /\ c.sv[s].prev = Load(b.sv[s]) /\ c.sv[s].tree = tree
      /\ c.px[Be(s)] = k /\ \A q \in Backends : q # Be(s) => c.px[q] = b.px[q]
  BY <1>0, CommitIs
<1> HIDE DEF c
<1>2. b.sv \in [Servers -> ServerRecords]
  BY <1>0 DEF States
<1>3. L \in Loads /\ K \in Loads
  <2>1. \A t \in Servers : b.sv[t].prev \in Nat
    BY <1>2 DEF ServerRecords
  <2>2. \A t \in Servers : Load(b.sv[t]) \in Nat
    BY <1>2, LoadType
  <2> QED BY <2>1, <2>2 DEF Loads, Prevs, LoadsOf
<1>4. \A t \in Servers : t # s => K[t] = L[t]
  BY DEF Near, Prevs, LoadsOf
<1>5. Load(c.sv[s]) = Load(b.sv[s])
  BY <1>1 DEF Alike, Load, SrvIsUsable
<1>6. \A t \in Servers : c.sv[t].prev = Load(c.sv[t])
  BY <1>1, <1>5 DEF Near
<1>7. Prevs(c.sv) = K
  <2>1. \A t \in Servers : c.sv[t].prev = Load(b.sv[t])
    BY <1>1, <1>6
  <2> QED BY <2>1 DEF Prevs, LoadsOf
<1>8. ASSUME NEW p \in Backends PROVE Tallies(Prevs(c.sv), p, c.px[p])
  <2>1. CASE p = Be(s)
    BY <1>1, <1>7, <2>1
  <2>2. CASE p # Be(s)
    <3>1. Tallies(L, p, b.px[p])
      BY DEF Near, Agreed
    <3>2. Tallies(K, p, b.px[p])
      BY <1>3, <1>4, <2>2, <3>1, OthersTally
    <3> QED BY <1>1, <1>7, <2>2, <3>2
  <2> QED BY <2>1, <2>2
<1>9. ASSUME NEW t \in Servers PROVE c.sv[t].tree <=> c.sv[t].prev > 0
  BY <1>1 DEF Near, Agreed
<1> QED BY <1>6, <1>8, <1>9 DEF Balanced, Agreed, c

\* The next backup server, from the weights the servers count for.
LEMMA NextIs ==
  ASSUME NEW f, NEW p \in Backends, NEW i
  PROVE  NextBackup(f, p, i) = FirstBackup(LoadsOf(f), p, i)
<1>1. \A j \in 1..Len(SrvList[p]) : LoadsOf(f)[SrvList[p][j]] = Load(f[SrvList[p][j]])
  BY Lists DEF LoadsOf
<1>2. {j \in DOMAIN SrvList[p] : j > i /\ SrvList[p][j] \in Backups /\ Load(f[SrvList[p][j]]) > 0}
        = Candidates(LoadsOf(f), p, i)
  BY <1>1, Lists DEF Candidates
<1>3. NextBackup(f, p, i)
        = AtFirst(p, {j \in DOMAIN SrvList[p] :
                        j > i /\ SrvList[p][j] \in Backups /\ Load(f[SrvList[p][j]]) > 0})
  BY DEF NextBackup, AtFirst
<1> QED BY <1>2, <1>3 DEF FirstBackup

LEMMA CountRecord ==
  ASSUME NEW j \in BackendRecords, NEW s, NEW n \in Int, NEW w \in Int,
         NEW first \in Servers \cup {None}
  PROVE  /\ Count(j, s, n, w, first) \in BackendRecords
         /\ s \in Backups =>
              /\ Count(j, s, n, w, first).act = j.act /\ Count(j, s, n, w, first).wact = j.wact
              /\ Count(j, s, n, w, first).bck = j.bck + n
              /\ Count(j, s, n, w, first).wbck = j.wbck + w
              /\ Count(j, s, n, w, first).fbck = first
         /\ s \notin Backups =>
              /\ Count(j, s, n, w, first).act = j.act + n
              /\ Count(j, s, n, w, first).wact = j.wact + w
              /\ Count(j, s, n, w, first).bck = j.bck /\ Count(j, s, n, w, first).wbck = j.wbck
              /\ Count(j, s, n, w, first).fbck = j.fbck
<1> DEFINE k == Count(j, s, n, w, first)
<1>0. {j.act, j.bck, j.wact, j.wbck} \subseteq Int
  BY DEF BackendRecords
<1>1. CASE s \in Backups
  <2> DEFINE x == j.bck + n
             y == j.wbck + w
  <2>1. x \in Int /\ y \in Int
    BY <1>0
  <2>2. k = [j EXCEPT !.bck = x, !.wbck = y, !.fbck = first]
    BY <1>1 DEF Count
  <2> HIDE DEF k, x, y
  <2>3. /\ k \in BackendRecords /\ k.act = j.act /\ k.wact = j.wact /\ k.bck = x
        /\ k.wbck = y /\ k.fbck = first
    BY <2>1, <2>2 DEF BackendRecords
  <2> QED BY <1>1, <2>3 DEF k, x, y
<1>2. CASE s \notin Backups
  <2> DEFINE x == j.act + n
             y == j.wact + w
  <2>1. x \in Int /\ y \in Int
    BY <1>0
  <2>2. k = [j EXCEPT !.act = x, !.wact = y]
    BY <1>2 DEF Count
  <2> HIDE DEF k, x, y
  <2>3. /\ k \in BackendRecords /\ k.act = x /\ k.wact = y /\ k.bck = j.bck
        /\ k.wbck = j.wbck /\ k.fbck = j.fbck
    BY <2>1, <2>2 DEF BackendRecords
  <2> QED BY <1>2, <2>3 DEF k, x, y
<1> QED BY <1>1, <1>2

\* What n servers and the weight w are, and the first backup server.
Shifts(b, s, n, w, first) ==
  /\ n = (IF Load(b.sv[s]) > 0 THEN 1 ELSE 0) - (IF b.sv[s].prev > 0 THEN 1 ELSE 0)
  /\ w = Load(b.sv[s]) - b.sv[s].prev
  /\ s \in Backups => first = FirstBackup(LoadsOf(b.sv), Be(s), 0)

\* A server that comes, goes or changes its weight, in the counts of its side.
LEMMA CountShift ==
  ASSUME NEW b, NEW s \in Servers, Near(b, s), NEW n \in Int, NEW w \in Int,
         NEW first \in Servers \cup {None}, Shifts(b, s, n, w, first)
  PROVE  LET k == Count(b.px[Be(s)], s, n, w, first)
         IN  k \in BackendRecords /\ Counts(LoadsOf(b.sv), Be(s), k)
<1> DEFINE p == Be(s)
           j == b.px[p]
           k == Count(j, s, n, w, first)
           L == Prevs(b.sv)
           K == LoadsOf(b.sv)
<1>0. b.sv \in [Servers -> ServerRecords] /\ j \in BackendRecords /\ p \in Backends
  BY Places DEF Near, States
<1>1. L \in Loads /\ K \in Loads
  <2>1. \A t \in Servers : b.sv[t].prev \in Nat
    BY <1>0 DEF ServerRecords
  <2>2. \A t \in Servers : Load(b.sv[t]) \in Nat
    BY <1>0, LoadType
  <2> QED BY <2>1, <2>2 DEF Loads, Prevs, LoadsOf
<1>2. \A t \in Servers : t # s => K[t] = L[t]
  BY DEF Near, Prevs, LoadsOf
<1>3. L[s] = b.sv[s].prev /\ K[s] = Load(b.sv[s]) /\ L[s] \in Nat /\ K[s] \in Nat
  BY <1>1 DEF Prevs, LoadsOf, Loads
<1>4. Counts(L, p, j)
  BY <1>0 DEF Near, Agreed, Tallies
<1>5. FirstBackup(K, p, 0) = NewFirst(L, K, s, FirstBackup(L, p, 0))
  BY <1>1, <1>2, FirstShift
<1>6. /\ s \in Backups =>
           /\ Sum(Ones(K, p, Backups)) = Sum(Ones(L, p, Backups)) + n
           /\ Sum(Shares(K, p, Backups)) = Sum(Shares(L, p, Backups)) + w
           /\ Sum(Ones(K, p, Servers \ Backups)) = Sum(Ones(L, p, Servers \ Backups))
           /\ Sum(Shares(K, p, Servers \ Backups)) = Sum(Shares(L, p, Servers \ Backups))
      /\ s \notin Backups =>
           /\ Sum(Ones(K, p, Backups)) = Sum(Ones(L, p, Backups))
           /\ Sum(Shares(K, p, Backups)) = Sum(Shares(L, p, Backups))
           /\ Sum(Ones(K, p, Servers \ Backups)) = Sum(Ones(L, p, Servers \ Backups)) + n
           /\ Sum(Shares(K, p, Servers \ Backups)) = Sum(Shares(L, p, Servers \ Backups)) + w
  <2>1. ASSUME NEW S
        PROVE  /\ s \in S => /\ Sum(Ones(K, p, S)) = Sum(Ones(L, p, S)) + n
                             /\ Sum(Shares(K, p, S)) = Sum(Shares(L, p, S)) + w
               /\ s \notin S => /\ Sum(Ones(K, p, S)) = Sum(Ones(L, p, S))
                                /\ Sum(Shares(K, p, S)) = Sum(Shares(L, p, S))
    <3>1. /\ Sum(Ones(L, p, S)) \in Int /\ Sum(Shares(L, p, S)) \in Int
          /\ s \in S =>
               /\ Sum(Ones(K, p, S)) = Sum(Ones(L, p, S)) + (IF K[s] > 0 THEN 1 ELSE 0)
                                         - (IF L[s] > 0 THEN 1 ELSE 0)
               /\ Sum(Shares(K, p, S)) = Sum(Shares(L, p, S)) + K[s] - L[s]
          /\ s \notin S => /\ Sum(Ones(K, p, S)) = Sum(Ones(L, p, S))
                           /\ Sum(Shares(K, p, S)) = Sum(Shares(L, p, S))
      BY <1>1, <1>2, SumsShift
    <3> DEFINE x == Sum(Ones(L, p, S))
               y == Sum(Shares(L, p, S))
               x1 == Sum(Ones(K, p, S))
               y1 == Sum(Shares(K, p, S))
               d == K[s]
               a == L[s]
    <3>2. n = (IF d > 0 THEN 1 ELSE 0) - (IF a > 0 THEN 1 ELSE 0) /\ w = d - a /\ d \in Nat /\ a \in Nat
      BY <1>3 DEF Shifts
    <3>3. /\ x \in Int /\ y \in Int
          /\ s \in S => /\ x1 = x + (IF d > 0 THEN 1 ELSE 0) - (IF a > 0 THEN 1 ELSE 0)
                        /\ y1 = y + d - a
          /\ s \notin S => x1 = x /\ y1 = y
      BY <3>1
    <3> HIDE DEF x, y, x1, y1, d, a
    <3>4. s \in S => x1 = x + n /\ y1 = y + w
      BY <3>2, <3>3
    <3>5. s \notin S => x1 = x /\ y1 = y
      BY <3>3
    <3> QED BY <3>4, <3>5 DEF x, y, x1, y1
  <2> QED BY <2>1
<1>9. /\ j.act = Sum(Ones(L, p, Servers \ Backups)) /\ j.bck = Sum(Ones(L, p, Backups))
      /\ j.wact = Sum(Shares(L, p, Servers \ Backups)) /\ j.wbck = Sum(Shares(L, p, Backups))
  BY <1>4 DEF Counts
<1> HIDE DEF K, L
<1>7. CASE s \in Backups
  <2>2. /\ k \in BackendRecords /\ k.act = j.act /\ k.wact = j.wact /\ k.bck = j.bck + n
        /\ k.wbck = j.wbck + w /\ k.fbck = first
    BY <1>0, <1>7, CountRecord
  <2> HIDE DEF k
  <2>3. first = FirstBackup(K, p, 0)
    BY <1>7 DEF K, Shifts
  <2>4. k.act = Sum(Ones(K, p, Servers \ Backups)) /\ k.bck = Sum(Ones(K, p, Backups))
    BY <1>6, <1>7, <1>9, <2>2
  <2>5. k.wact = Sum(Shares(K, p, Servers \ Backups)) /\ k.wbck = Sum(Shares(K, p, Backups))
    BY <1>6, <1>7, <1>9, <2>2
  <2>6. Counts(K, p, k)
    BY <2>2, <2>3, <2>4, <2>5 DEF Counts
  <2> QED BY <2>2, <2>6 DEF k, K
<1>8. CASE s \notin Backups
  <2>2. /\ k \in BackendRecords /\ k.act = j.act + n /\ k.wact = j.wact + w /\ k.bck = j.bck
        /\ k.wbck = j.wbck /\ k.fbck = j.fbck
    BY <1>0, <1>8, CountRecord
  <2> HIDE DEF k
  <2>3. j.fbck = FirstBackup(K, p, 0)
    BY <1>4, <1>5, <1>8 DEF Counts, NewFirst
  <2>4. k.act = Sum(Ones(K, p, Servers \ Backups)) /\ k.bck = Sum(Ones(K, p, Backups))
    BY <1>6, <1>8, <1>9, <2>2
  <2>5. k.wact = Sum(Shares(K, p, Servers \ Backups)) /\ k.wbck = Sum(Shares(K, p, Backups))
    BY <1>6, <1>8, <1>9, <2>2
  <2>6. Counts(K, p, k)
    BY <2>2, <2>3, <2>4, <2>5 DEF Counts
  <2> QED BY <2>2, <2>6 DEF k, K
<1> QED BY <1>7, <1>8

\* s is committed and the balancers agree; nothing else has changed.
Settled(b, c, s) ==
  /\ c \in States /\ Balanced(c) /\ Alike(b.sv[s], c.sv[s])
  /\ \A t \in Servers : t # s => c.sv[t] = b.sv[t]

LEMMA NearTypes ==
  ASSUME NEW b, NEW s \in Servers, Near(b, s)
  PROVE  /\ b \in States /\ b.sv \in [Servers -> ServerRecords] /\ b.sv[s] \in ServerRecords
         /\ b.px[Be(s)] \in BackendRecords /\ b.px[Be(s)].fbck \in Servers \cup {None}
         /\ Be(s) \in Backends /\ b.sv[s].prev \in Nat /\ Load(b.sv[s]) \in Nat
         /\ b.sv[s].tree \in BOOLEAN /\ (b.sv[s].tree <=> b.sv[s].prev > 0)
<1>1. b \in States /\ b.sv \in [Servers -> ServerRecords] /\ b.px \in [Backends -> BackendRecords]
  BY DEF Near, States
<1>2. Be(s) \in Backends
  BY Places
<1>3. b.sv[s] \in ServerRecords /\ b.px[Be(s)] \in BackendRecords
  BY <1>1, <1>2
<1>4. b.px[Be(s)].fbck \in Servers \cup {None}
  BY <1>3 DEF BackendRecords
<1>5. b.sv[s].prev \in Nat /\ b.sv[s].tree \in BOOLEAN
  BY <1>3 DEF ServerRecords
<1>6. Load(b.sv[s]) \in Nat
  BY <1>3, LoadType
<1>7. b.sv[s].tree <=> b.sv[s].prev > 0
  BY DEF Near, Agreed
<1> QED BY <1>1, <1>2, <1>3, <1>4, <1>5, <1>6, <1>7

\* The weights that were committed and those that count now differ for s only.
LEMMA NearLoads ==
  ASSUME NEW b, NEW s \in Servers, Near(b, s)
  PROVE  /\ Prevs(b.sv) \in Loads /\ LoadsOf(b.sv) \in Loads
         /\ LoadsOf(b.sv)[s] = Load(b.sv[s])
         /\ b.px[Be(s)].fbck = FirstBackup(Prevs(b.sv), Be(s), 0)
         /\ FirstBackup(LoadsOf(b.sv), Be(s), 0)
              = NewFirst(Prevs(b.sv), LoadsOf(b.sv), s, b.px[Be(s)].fbck)
<1>1. b.sv \in [Servers -> ServerRecords] /\ Be(s) \in Backends
  BY NearTypes
<1>2. \A t \in Servers : b.sv[t].prev \in Nat
  BY <1>1 DEF ServerRecords
<1>3. \A t \in Servers : Load(b.sv[t]) \in Nat
  BY <1>1, LoadType
<1>4. Prevs(b.sv) \in Loads /\ LoadsOf(b.sv) \in Loads
  BY <1>2, <1>3 DEF Loads, Prevs, LoadsOf
<1>5. \A t \in Servers : t # s => LoadsOf(b.sv)[t] = Prevs(b.sv)[t]
  BY DEF Near, Prevs, LoadsOf
<1>6. LoadsOf(b.sv)[s] = Load(b.sv[s])
  BY DEF LoadsOf
<1>7. b.px[Be(s)].fbck = FirstBackup(Prevs(b.sv), Be(s), 0)
  BY <1>1 DEF Near, Agreed, Tallies, Counts
<1>8. FirstBackup(LoadsOf(b.sv), Be(s), 0)
        = NewFirst(Prevs(b.sv), LoadsOf(b.sv), s, b.px[Be(s)].fbck)
  BY <1>4, <1>5, <1>7, FirstShift
<1> QED BY <1>4, <1>6, <1>7, <1>8

\* The counts k, completed and committed.
LEMMA CommitSettles ==
  ASSUME NEW b, NEW s \in Servers, Near(b, s), NEW tree \in BOOLEAN, tree <=> Load(b.sv[s]) > 0,
         NEW k \in BackendRecords, Counts(LoadsOf(b.sv), Be(s), k)
  PROVE  Settled(b, SrvLbCommitStatus(b, s, tree, UpdateBackendWeight(k, b.sv)), s)
<1> DEFINE u == UpdateBackendWeight(k, b.sv)
<1>1. b \in States /\ b.sv \in [Servers -> ServerRecords] /\ Be(s) \in Backends
  BY NearTypes
<1>2. u \in BackendRecords /\ Tallies(LoadsOf(b.sv), Be(s), u)
  BY <1>1, WeightCompletes
<1> HIDE DEF u
<1>3. Balanced(SrvLbCommitStatus(b, s, tree, u))
  BY <1>2, CommitBalances
<1>4. /\ SrvLbCommitStatus(b, s, tree, u) \in States
      /\ Alike(b.sv[s], SrvLbCommitStatus(b, s, tree, u).sv[s])
      /\ \A t \in Servers : t # s => SrvLbCommitStatus(b, s, tree, u).sv[t] = b.sv[t]
  BY <1>1, <1>2, CommitIs
<1>5. Settled(b, SrvLbCommitStatus(b, s, tree, u), s)
  BY <1>3, <1>4 DEF Settled
<1> QED BY <1>5 DEF u

\* The same weight as the one that was committed.
LEMMA SameSettles ==
  ASSUME NEW b, NEW s \in Servers, Near(b, s), Load(b.sv[s]) = b.sv[s].prev
  PROVE  /\ Settled(b, SrvLbCommitStatus(b, s, b.sv[s].tree, b.px[Be(s)]), s)
         /\ Counts(LoadsOf(b.sv), Be(s), b.px[Be(s)])
<1> DEFINE k == b.px[Be(s)]
           tree == b.sv[s].tree
<1>1. b \in States /\ k \in BackendRecords /\ Be(s) \in Backends /\ tree \in BOOLEAN
  BY NearTypes
<1>2. tree <=> Load(b.sv[s]) > 0
  BY NearTypes
<1>3. LoadsOf(b.sv) = Prevs(b.sv)
  <2>1. \A t \in Servers : Load(b.sv[t]) = b.sv[t].prev
    BY DEF Near
  <2> QED BY <2>1 DEF LoadsOf, Prevs
<1>4. Tallies(LoadsOf(b.sv), Be(s), k)
  BY <1>1, <1>3 DEF Near, Agreed
<1> HIDE DEF k, tree
<1>5. Balanced(SrvLbCommitStatus(b, s, tree, k))
  BY <1>1, <1>2, <1>4, CommitBalances
<1>6. /\ SrvLbCommitStatus(b, s, tree, k) \in States
      /\ Alike(b.sv[s], SrvLbCommitStatus(b, s, tree, k).sv[s])
      /\ \A t \in Servers : t # s => SrvLbCommitStatus(b, s, tree, k).sv[t] = b.sv[t]
  BY <1>1, CommitIs
<1>7. Settled(b, SrvLbCommitStatus(b, s, tree, k), s)
  BY <1>5, <1>6 DEF Settled
<1> QED BY <1>4, <1>7 DEF k, tree, Tallies

\* fwrr_set_server_status_down().
LEMMA DownSettles ==
  ASSUME NEW b, NEW s \in Servers, Near(b, s), ~SrvIsUsable(b.sv[s])
  PROVE  Settled(b, SetServerStatusDown(b, s), s)
<1> DEFINE p == Be(s)
           r == b.sv[s]
           k == b.px[p]
           first == IF k.fbck = s THEN NextBackup(b.sv, p, Pos(s)) ELSE k.fbck
           gone == IF r.prev = 0 THEN k ELSE Count(k, s, -1, -r.prev, first)
           tree == r.tree /\ r.prev = 0
<1>1. /\ r \in ServerRecords /\ k \in BackendRecords /\ k.fbck \in Servers \cup {None}
      /\ p \in Backends /\ r.prev \in Nat /\ (r.tree <=> r.prev > 0)
  BY NearTypes
<1>2. Load(r) = 0
  BY DEF Load
<1>3. SetServerStatusDown(b, s) = SrvLbCommitStatus(b, s, tree, UpdateBackendWeight(gone, b.sv))
  BY DEF SetServerStatusDown
<1>4. tree \in BOOLEAN /\ (tree <=> Load(r) > 0)
  BY <1>1, <1>2
<1>5. gone \in BackendRecords /\ Counts(LoadsOf(b.sv), p, gone)
  <2>1. CASE r.prev = 0
    <3>1. gone = k
      BY <2>1
    <3>2. Load(r) = r.prev
      BY <1>2, <2>1
    <3> HIDE DEF gone
    <3> QED BY <1>1, <3>1, <3>2, SameSettles
  <2>2. CASE r.prev # 0
    <3>1. gone = Count(k, s, -1, -r.prev, first)
      BY <2>2
    <3>2. LoadsOf(b.sv)[s] = 0
      BY <1>2, NearLoads
    <3>3. k.fbck = FirstBackup(Prevs(b.sv), p, 0)
      BY NearLoads
    <3>4. FirstBackup(LoadsOf(b.sv), p, 0) = NewFirst(Prevs(b.sv), LoadsOf(b.sv), s, k.fbck)
      BY NearLoads
    <3>7. NextBackup(b.sv, p, Pos(s)) = FirstBackup(LoadsOf(b.sv), p, Pos(s))
      BY <1>1, NextIs
    <3>8. s \in Backups => first = FirstBackup(LoadsOf(b.sv), p, 0)
      BY <3>2, <3>4, <3>7 DEF NewFirst
    <3>9. first \in Servers \cup {None}
      <4>1. CASE k.fbck = s /\ s \in Backups
        BY <1>1, <3>8, <4>1, FirstType
      <4>2. CASE k.fbck = s /\ s \notin Backups
        <5>1. s # None
          BY HealthAssumption
        <5>2. FALSE
          BY <1>1, <3>3, <4>2, <5>1, FirstType
        <5> QED BY <5>2
      <4>3. CASE k.fbck # s
        BY <1>1, <4>3
      <4> QED BY <4>1, <4>2, <4>3
    <3> DEFINE w == -r.prev
    <3>10. w \in Int /\ w = Load(r) - r.prev
      BY <1>1, <1>2
    <3>11. -1 = (IF Load(r) > 0 THEN 1 ELSE 0) - (IF r.prev > 0 THEN 1 ELSE 0)
      BY <1>1, <1>2, <2>2
    <3> HIDE DEF first, w
    <3>12. Shifts(b, s, -1, w, first)
      BY <3>8, <3>10, <3>11 DEF Shifts
    <3>13. -1 \in Int
      OBVIOUS
    <3>14. LET c == Count(k, s, -1, w, first)
           IN  c \in BackendRecords /\ Counts(LoadsOf(b.sv), p, c)
      BY <3>9, <3>10, <3>12, <3>13, CountShift
    <3> QED BY <3>1, <3>14 DEF w
  <2> QED BY <2>1, <2>2
<1> HIDE DEF gone, tree
<1>6. Settled(b, SrvLbCommitStatus(b, s, tree, UpdateBackendWeight(gone, b.sv)), s)
  BY <1>4, <1>5, CommitSettles
<1> QED BY <1>3, <1>6

\* fwrr_set_server_status_up(), for a server that was not usable.
LEMMA UpSettles ==
  ASSUME NEW b, NEW s \in Servers, Near(b, s), SrvIsUsable(b.sv[s]), b.sv[s].prev = 0
  PROVE  Settled(b, SetServerStatusUp(b, s), s)
<1> DEFINE p == Be(s)
           r == b.sv[s]
           k == b.px[p]
           first == IF k.fbck = None \/ Pos(k.fbck) > Pos(s) THEN s ELSE k.fbck
           come == Count(k, s, 1, r.ew, first)
           tree == r.tree \/ r.prev = 0
<1>1. /\ r \in ServerRecords /\ k \in BackendRecords /\ k.fbck \in Servers \cup {None}
      /\ p \in Backends
  BY NearTypes
<1>2. Load(r) = r.ew /\ Load(r) > 0 /\ r.ew \in Nat
  BY <1>1, LoadType
<1>3. SetServerStatusUp(b, s) = SrvLbCommitStatus(b, s, tree, UpdateBackendWeight(come, b.sv))
  BY DEF SetServerStatusUp
<1>4. tree \in BOOLEAN /\ (tree <=> Load(r) > 0)
  BY <1>2
<1>5. s \in Backups => first = FirstBackup(LoadsOf(b.sv), p, 0)
  <2>1. LoadsOf(b.sv)[s] # 0
    BY <1>2, NearLoads
  <2>2. FirstBackup(LoadsOf(b.sv), p, 0) = NewFirst(Prevs(b.sv), LoadsOf(b.sv), s, k.fbck)
    BY NearLoads
  <2> QED BY <2>1, <2>2 DEF NewFirst
<1>6. first \in Servers \cup {None}
  BY <1>1
<1> DEFINE w == r.ew
<1>7. w \in Int /\ w = Load(r) - r.prev
  BY <1>2
<1>8. 1 = (IF Load(r) > 0 THEN 1 ELSE 0) - (IF r.prev > 0 THEN 1 ELSE 0)
  BY <1>2
<1> HIDE DEF first, w
<1>9. Shifts(b, s, 1, w, first)
  BY <1>5, <1>7, <1>8 DEF Shifts
<1>10. come \in BackendRecords /\ Counts(LoadsOf(b.sv), p, come)
  <2>1. LET c == Count(k, s, 1, w, first)
        IN  c \in BackendRecords /\ Counts(LoadsOf(b.sv), p, c)
    BY <1>6, <1>7, <1>9, CountShift
  <2> QED BY <2>1 DEF w
<1> HIDE DEF come, tree
<1>11. Settled(b, SrvLbCommitStatus(b, s, tree, UpdateBackendWeight(come, b.sv)), s)
  BY <1>4, <1>10, CommitSettles
<1> QED BY <1>3, <1>11

\* fwrr_update_server_weight().
LEMMA UpdateSettles ==
  ASSUME NEW b, NEW s \in Servers, Near(b, s)
  PROVE  Settled(b, UpdateServerWeight(b, s), s)
<1> DEFINE p == Be(s)
           r == b.sv[s]
           k == b.px[p]
           was == r.prev > 0
           is == SrvIsUsable(r)
<1>1. /\ r \in ServerRecords /\ k \in BackendRecords /\ k.fbck \in Servers \cup {None}
      /\ p \in Backends /\ r.prev \in Nat /\ r.tree \in BOOLEAN /\ (r.tree <=> r.prev > 0)
  BY NearTypes
<1>2. is \in BOOLEAN /\ (is <=> Load(r) > 0) /\ (is => Load(r) = r.ew) /\ Load(r) \in Nat /\ r.ew \in Nat
  <2>1. r.ew \in Nat
    BY <1>1 DEF ServerRecords
  <2> QED BY <1>1, <2>1, LoadType DEF SrvIsUsable
<1>3. CASE ~was /\ ~is
  <2>1. UpdateServerWeight(b, s) = SrvLbCommitStatus(b, s, r.tree, k)
    BY <1>3, Zenon DEF UpdateServerWeight
  <2>2. Load(r) = r.prev
    BY <1>1, <1>2, <1>3
  <2> QED BY <2>1, <2>2, SameSettles
<1>4. CASE ~was /\ is
  <2>1. UpdateServerWeight(b, s) = SetServerStatusUp(b, s)
    BY <1>4, Zenon DEF UpdateServerWeight
  <2>2. r.prev = 0
    BY <1>1, <1>4
  <2> QED BY <1>4, <2>1, <2>2, UpSettles
<1>5. CASE was /\ ~is
  <2>1. UpdateServerWeight(b, s) = SetServerStatusDown(b, s)
    BY <1>5, Zenon DEF UpdateServerWeight
  <2> QED BY <1>5, <2>1, DownSettles
<1>6. CASE was /\ is
  <2> DEFINE d == r.ew - r.prev
             c == Count(k, s, 0, d, k.fbck)
  <2>1. UpdateServerWeight(b, s) = SrvLbCommitStatus(b, s, r.tree, UpdateBackendWeight(c, b.sv))
    BY <1>6, Zenon DEF UpdateServerWeight
  <2>2. d \in Int /\ d = Load(r) - r.prev
    BY <1>1, <1>2, <1>6
  <2>3. 0 = (IF Load(r) > 0 THEN 1 ELSE 0) - (IF r.prev > 0 THEN 1 ELSE 0)
    BY <1>2, <1>6
  <2>4. s \in Backups => k.fbck = FirstBackup(LoadsOf(b.sv), p, 0)
    <3> SUFFICES ASSUME s \in Backups PROVE k.fbck = FirstBackup(LoadsOf(b.sv), p, 0)
      OBVIOUS
    <3>1. LoadsOf(b.sv)[s] # 0
      BY <1>2, <1>6, NearLoads
    <3>2. FirstBackup(LoadsOf(b.sv), p, 0) = NewFirst(Prevs(b.sv), LoadsOf(b.sv), s, k.fbck)
      BY NearLoads
    <3>3. k.fbck = FirstBackup(Prevs(b.sv), p, 0)
      BY NearLoads
    \* s was a candidate itself: the first one is there, and not after s.
    <3>4. p \in Backends /\ Pos(s) \in 1..Len(SrvList[p]) /\ SrvList[p][Pos(s)] = s
      BY Places, Lists
    <3>5. Prevs(b.sv)[s] > 0
      BY <1>6 DEF Prevs
    <3>6. Pos(s) \in Candidates(Prevs(b.sv), p, 0)
      BY <3>4, <3>5 DEF Candidates
    <3>7. PICK m \in Candidates(Prevs(b.sv), p, 0) :
            m <= Pos(s) /\ FirstBackup(Prevs(b.sv), p, 0) = SrvList[p][m]
      BY <3>4, <3>6, FirstIs
    <3>8. SrvList[p][m] \in Servers /\ Pos(SrvList[p][m]) = m /\ m \in Nat /\ Pos(s) \in Nat
      BY <3>4, <3>7, Lists, Places DEF Candidates
    <3>9. k.fbck # None /\ ~(Pos(k.fbck) > Pos(s))
      BY <3>3, <3>7, <3>8, HealthAssumption
    <3> QED BY <3>1, <3>2, <3>9 DEF NewFirst
  <2> DEFINE f == k.fbck
  <2>5. f \in Servers \cup {None} /\ (s \in Backups => f = FirstBackup(LoadsOf(b.sv), p, 0))
    BY <1>1, <2>4
  <2> HIDE DEF d, f
  <2>6. Shifts(b, s, 0, d, f)
    BY <2>2, <2>3, <2>5 DEF Shifts
  <2>7. c \in BackendRecords /\ Counts(LoadsOf(b.sv), p, c)
    <3>1. LET j == Count(k, s, 0, d, f)
          IN  j \in BackendRecords /\ Counts(LoadsOf(b.sv), p, j)
      <4>1. d \in Int /\ 0 \in Int /\ f \in Servers \cup {None}
        BY <2>2, <2>5
      <4> QED BY <4>1, <2>6, CountShift
    <3> QED BY <3>1 DEF f
  <2>8. r.tree \in BOOLEAN /\ (r.tree <=> Load(r) > 0)
    BY <1>1, <1>2, <1>6
  <2> DEFINE tree == r.tree
  <2> HIDE DEF c, tree
  <2>9. Settled(b, SrvLbCommitStatus(b, s, tree, UpdateBackendWeight(c, b.sv)), s)
    BY <2>7, <2>8, CommitSettles DEF tree
  <2> QED BY <2>1, <2>9 DEF tree
<1> QED BY <1>3, <1>4, <1>5, <1>6, <1>2

-----------------------------------------------------------------------------
(* server.c, one server at a time.                                         *)

\* c is b but for the record of s, and the balancers agree.
Moved(b, c, s) ==
  c \in States /\ Balanced(c) /\ \A t \in Servers : t # s => c.sv[t] = b.sv[t]

\* What only the callers of the functions of this part change.
Kept(r, q) == q.en = r.en /\ q.res = r.res /\ q.agent = r.agent /\ q.aen = r.aen /\ q.ares = r.ares
KeptMore(r, q) == Kept(r, q) /\ q.admin = r.admin /\ q.health = r.health

SameInTree(r, q) == q.prev = r.prev /\ q.tree = r.tree

LEMMA PutIs ==
  ASSUME NEW b \in States, NEW s \in Servers, NEW r \in ServerRecords
  PROVE  /\ Put(b, s, r) \in States /\ Put(b, s, r).sv[s] = r /\ Put(b, s, r).px = b.px
         /\ \A t \in Servers : t # s => Put(b, s, r).sv[t] = b.sv[t]
<1> DEFINE c == Put(b, s, r)
<1>1. b.sv \in [Servers -> ServerRecords] /\ b.px \in [Backends -> BackendRecords]
  BY DEF States
<1>2. c = [b EXCEPT !.sv = [b.sv EXCEPT ![s] = r]]
  BY DEF Put
<1> DEFINE f == [b.sv EXCEPT ![s] = r]
<1>3. f \in [Servers -> ServerRecords] /\ f[s] = r /\ \A t \in Servers : t # s => f[t] = b.sv[t]
  BY <1>1
<1> HIDE DEF c, f
<1>4. c = [b EXCEPT !.sv = f]
  BY <1>2 DEF f
<1>5. c \in States /\ c.sv = f /\ c.px = b.px
  BY <1>3, <1>4 DEF States
<1> QED BY <1>3, <1>5 DEF c

\* A record that is put leaves the other servers committed.
LEMMA PutNear ==
  ASSUME NEW b, NEW s \in Servers, Near(b, s), NEW r \in ServerRecords, SameInTree(b.sv[s], r)
  PROVE  Near(Put(b, s, r), s)
<1> DEFINE c == Put(b, s, r)
<1>1. b \in States
  BY DEF Near
<1>2. c \in States /\ c.sv[s] = r /\ c.px = b.px /\ \A t \in Servers : t # s => c.sv[t] = b.sv[t]
  BY <1>1, PutIs
<1> HIDE DEF c
<1>3. \A t \in Servers : c.sv[t].prev = b.sv[t].prev /\ c.sv[t].tree = b.sv[t].tree
  BY <1>2 DEF SameInTree
<1>4. Prevs(c.sv) = Prevs(b.sv)
  BY <1>3 DEF Prevs
<1>5. \A p \in Backends : Tallies(Prevs(c.sv), p, c.px[p])
  BY <1>2, <1>4 DEF Near, Agreed
<1>6. \A t \in Servers : c.sv[t].tree <=> c.sv[t].prev > 0
  BY <1>3 DEF Near, Agreed
<1>7. \A t \in Servers : t # s => c.sv[t].prev = Load(c.sv[t])
  BY <1>2 DEF Near
<1>8. Near(c, s)
  BY <1>2, <1>5, <1>6, <1>7 DEF Near, Agreed
<1> QED BY <1>8 DEF c

LEMMA BalancedNear ==
  ASSUME NEW b \in States, Balanced(b), NEW s \in Servers
  PROVE  Near(b, s) /\ b.sv[s] \in ServerRecords /\ b.sv[s].prev = Load(b.sv[s])
BY DEF Near, Balanced, States

\* It leaves all of them so when it counts for as much as before.
LEMMA PutMoves ==
  ASSUME NEW b, NEW s \in Servers, Near(b, s), NEW r \in ServerRecords,
         SameInTree(b.sv[s], r), Load(r) = r.prev
  PROVE  Moved(b, Put(b, s, r), s) /\ Put(b, s, r).sv[s] = r
<1>1. Near(Put(b, s, r), s)
  BY PutNear
<1>2. b \in States
  BY DEF Near
<1>3. /\ Put(b, s, r) \in States /\ Put(b, s, r).sv[s] = r
      /\ \A t \in Servers : t # s => Put(b, s, r).sv[t] = b.sv[t]
  BY <1>2, PutIs
<1> QED BY <1>1, <1>3 DEF Moved, Balanced, Near

LEMMA ProductNat == \A m, n \in Nat : m * n \in Nat
OBVIOUS

LEMMA QuotientNat == \A m \in Nat : \A n \in Nat \ {0} : m \div n \in Nat
OBVIOUS

\* server_recalc_eweight(): the weight, and the end of a slow start.
LEMMA RecalcMoves ==
  ASSUME NEW b, NEW s \in Servers, Near(b, s)
  PROVE  LET c == RecalcEweight(b, s)
         IN  /\ Moved(b, c, s) /\ KeptMore(b.sv[s], c.sv[s])
             /\ \/ c.sv[s].state = b.sv[s].state
                \/ b.sv[s].state = "STARTING" /\ c.sv[s].state = "RUNNING"
<1> DEFINE r == b.sv[s]
           st == IF r.state = "STARTING" /\ r.since >= Slow THEN "RUNNING" ELSE r.state
           w == IF st = "STARTING" THEN (WDiv * r.since + Slow) \div Slow ELSE WDiv
           since == IF st = "STARTING" THEN r.since ELSE 0
           ew == r.uw * w
           q == [r EXCEPT !.state = st, !.since = since, !.ew = ew]
<1>1. r \in ServerRecords /\ b \in States
  BY NearTypes
<1>2. st \in {"STOPPED", "STARTING", "RUNNING", "STOPPING"} /\ r.since \in Nat /\ r.uw \in Nat
  BY <1>1 DEF ServerRecords
<1>3. Slow \in Nat \ {0} /\ WDiv \in Nat
  BY HealthAssumption
<1>4. w \in Nat
  <2>1. WDiv * r.since \in Nat
    BY <1>2, <1>3, ProductNat
  <2>2. WDiv * r.since + Slow \in Nat
    BY <1>3, <2>1
  <2>3. (WDiv * r.since + Slow) \div Slow \in Nat
    BY <1>3, <2>2, QuotientNat
  <2> QED BY <1>3, <2>3
<1>5. ew \in Nat /\ since \in Nat
  BY <1>2, <1>4, ProductNat
<1>6. RecalcEweight(b, s) = UpdateServerWeight(Put(b, s, q), s)
  BY DEF RecalcEweight
<1>7. st = r.state \/ (r.state = "STARTING" /\ st = "RUNNING")
  OBVIOUS
<1> HIDE DEF st, w, since, ew
<1>8. q \in ServerRecords /\ SameInTree(r, q) /\ KeptMore(r, q) /\ q.state = st
  <2> HIDE DEF r
  <2> QED BY <1>1, <1>2, <1>5 DEF ServerRecords, SameInTree, KeptMore, Kept
<1> HIDE DEF q
<1>9. Near(Put(b, s, q), s)
  BY <1>8, PutNear
<1>10. Put(b, s, q).sv[s] = q /\ \A t \in Servers : t # s => Put(b, s, q).sv[t] = b.sv[t]
  BY <1>1, <1>8, PutIs
<1>11. Settled(Put(b, s, q), UpdateServerWeight(Put(b, s, q), s), s)
  BY <1>9, UpdateSettles
<1> DEFINE c == RecalcEweight(b, s)
<1> HIDE DEF c
<1>12. c \in States /\ Balanced(c) /\ Alike(q, c.sv[s]) /\ \A t \in Servers : t # s => c.sv[t] = b.sv[t]
  BY <1>6, <1>10, <1>11 DEF Settled, c
<1>13. Moved(b, c, s)
  BY <1>12 DEF Moved
<1>14. KeptMore(r, c.sv[s]) /\ c.sv[s].state = st
  BY <1>8, <1>12 DEF Alike, KeptMore, Kept
<1> QED BY <1>7, <1>13, <1>14 DEF c

LEMMA TurnOnMoves ==
  ASSUME NEW b, NEW s \in Servers, Near(b, s)
  PROVE  LET c == TurnOn(b, s)
         IN  /\ Moved(b, c, s) /\ KeptMore(b.sv[s], c.sv[s])
             /\ c.sv[s].state \in {"STARTING", "RUNNING"}
<1> DEFINE r == b.sv[s]
           st == IF s \in SlowStarters THEN "STARTING" ELSE "RUNNING"
           armed == r.armed \/ s \in SlowStarters
           q == [r EXCEPT !.state = st, !.since = 0, !.armed = armed]
           m == Put(b, s, q)
           c == TurnOn(b, s)
<1>1. r \in ServerRecords /\ b \in States
  BY NearTypes
<1>2. c = RecalcEweight(m, s)
  BY DEF TurnOn
<1>3. st \in {"STARTING", "RUNNING"} /\ armed \in BOOLEAN
  OBVIOUS
<1> HIDE DEF st, armed
<1>4. q \in ServerRecords /\ SameInTree(r, q) /\ KeptMore(r, q) /\ q.state = st
  <2> HIDE DEF r
  <2> QED BY <1>1, <1>3 DEF ServerRecords, SameInTree, KeptMore, Kept
<1> HIDE DEF q
<1>5. Near(m, s)
  BY <1>4, PutNear
<1>6. m.sv[s] = q /\ \A t \in Servers : t # s => m.sv[t] = b.sv[t]
  BY <1>1, <1>4, PutIs
<1> HIDE DEF m
<1>7. /\ Moved(m, RecalcEweight(m, s), s) /\ KeptMore(m.sv[s], RecalcEweight(m, s).sv[s])
      /\ \/ RecalcEweight(m, s).sv[s].state = m.sv[s].state
         \/ m.sv[s].state = "STARTING" /\ RecalcEweight(m, s).sv[s].state = "RUNNING"
  BY <1>5, RecalcMoves
<1> HIDE DEF c
<1>8. Moved(b, c, s) /\ KeptMore(q, c.sv[s]) /\ (c.sv[s].state = st \/ c.sv[s].state = "RUNNING")
  BY <1>2, <1>4, <1>6, <1>7 DEF Moved
<1>9. KeptMore(r, c.sv[s])
  BY <1>4, <1>8 DEF KeptMore, Kept
<1> QED BY <1>3, <1>8, <1>9 DEF c

\* A record that is out of use is put and committed.
LEMMA DownMoves ==
  ASSUME NEW b, NEW s \in Servers, Near(b, s), NEW q \in ServerRecords,
         SameInTree(b.sv[s], q), ~SrvIsUsable(q)
  PROVE  LET c == SetServerStatusDown(Put(b, s, q), s)
         IN  Moved(b, c, s) /\ KeptMore(q, c.sv[s]) /\ c.sv[s].state = q.state
<1> DEFINE m == Put(b, s, q)
           c == SetServerStatusDown(m, s)
<1>1. b \in States
  BY NearTypes
<1>2. m.sv[s] = q /\ \A t \in Servers : t # s => m.sv[t] = b.sv[t]
  BY <1>1, PutIs
<1>3. Near(m, s)
  BY PutNear
<1> HIDE DEF m
<1>4. Settled(m, c, s)
  BY <1>2, <1>3, DownSettles
<1> HIDE DEF c
<1>5. Moved(b, c, s) /\ Alike(q, c.sv[s])
  BY <1>2, <1>4 DEF Settled, Moved
<1>6. KeptMore(q, c.sv[s]) /\ c.sv[s].state = q.state
  BY <1>5 DEF Alike, KeptMore, Kept
<1> QED BY <1>5, <1>6 DEF c, m

LEMMA TurnOffMoves ==
  ASSUME NEW b, NEW s \in Servers, Near(b, s), NEW state \in {"STOPPED", "STOPPING"}
  PROVE  LET c == TurnOff(b, s, state)
         IN  Moved(b, c, s) /\ KeptMore(b.sv[s], c.sv[s]) /\ c.sv[s].state = state
<1> DEFINE r == b.sv[s]
           q == [r EXCEPT !.state = state, !.since = 0]
           c == TurnOff(b, s, state)
<1>1. r \in ServerRecords
  BY NearTypes
<1>2. c = SetServerStatusDown(Put(b, s, q), s)
  BY DEF TurnOff
<1>3. q \in ServerRecords /\ SameInTree(r, q) /\ KeptMore(r, q) /\ q.state = state
  <2> HIDE DEF r
  <2> QED BY <1>1 DEF ServerRecords, SameInTree, KeptMore, Kept
<1> HIDE DEF q, c
<1>4. ~SrvIsUsable(q)
  BY <1>3 DEF SrvIsUsable
<1>5. Moved(b, c, s) /\ KeptMore(q, c.sv[s]) /\ c.sv[s].state = q.state
  BY <1>2, <1>3, <1>4, DownMoves
<1>6. KeptMore(r, c.sv[s])
  BY <1>3, <1>5 DEF KeptMore, Kept
<1> QED BY <1>3, <1>5, <1>6 DEF c

There(a) == IF a = "RUNNING" THEN {"STARTING", "RUNNING"} ELSE {a}

\* What srv_set_stopped() and its likes make of a record.
StateRel(r, q, a) ==
  /\ InMaint(r) \/ r.state \in There(a) => q = r
  /\ ~(InMaint(r) \/ r.state \in There(a)) => KeptMore(r, q) /\ q.state \in There(a)

LEMMA StateHereMoves ==
  ASSUME NEW b \in States, Balanced(b), NEW s \in Servers,
         NEW a \in {"STOPPED", "RUNNING", "STOPPING"}
  PROVE  LET h == SetStateHere(b, s, a)
         IN  /\ Moved(b, h.b, s) /\ StateRel(b.sv[s], h.b.sv[s], a)
             /\ h.tell <=> ~(InMaint(b.sv[s]) \/ b.sv[s].state \in There(a))
<1> DEFINE h == SetStateHere(b, s, a)
           r == b.sv[s]
           stays == InMaint(r) \/ r.state \in There(a)
           on == IF a = "RUNNING" THEN TurnOn(b, s) ELSE TurnOff(b, s, a)
<1>1. Near(b, s)
  BY BalancedNear
<1>2. h = IF stays THEN [b |-> b, tell |-> FALSE] ELSE [b |-> on, tell |-> TRUE]
  BY DEF SetStateHere, There
<1>3. Moved(b, on, s) /\ KeptMore(r, on.sv[s]) /\ on.sv[s].state \in There(a)
  <2>1. CASE a = "RUNNING"
    <3>1. on = TurnOn(b, s)
      BY <2>1
    <3> HIDE DEF on
    <3> QED BY <1>1, <2>1, <3>1, TurnOnMoves DEF There
  <2>2. CASE a # "RUNNING"
    <3>1. on = TurnOff(b, s, a) /\ a \in {"STOPPED", "STOPPING"}
      BY <2>2
    <3> HIDE DEF on
    <3> QED BY <1>1, <2>2, <3>1, TurnOffMoves DEF There
  <2> QED BY <2>1, <2>2
<1> HIDE DEF h, on
<1>4. CASE stays
  <2>1. h.b = b /\ h.tell = FALSE
    BY <1>2, <1>4
  <2>2. Moved(b, b, s) /\ StateRel(r, r, a)
    BY <1>4 DEF Moved, StateRel
  <2> QED BY <1>4, <2>1, <2>2 DEF h
<1>5. CASE ~stays
  <2>1. h.b = on /\ h.tell = TRUE
    BY <1>2, <1>5
  <2>2. StateRel(r, on.sv[s], a)
    BY <1>3, <1>5 DEF StateRel
  <2> QED BY <1>3, <1>5, <2>1, <2>2 DEF h
<1> QED BY <1>4, <1>5

LEMMA NearMoves ==
  ASSUME NEW b, NEW s \in Servers, Near(b, s), Load(b.sv[s]) = b.sv[s].prev
  PROVE  Moved(b, b, s)
BY DEF Near, Moved, Balanced

\* Maintenance stops a server.
LEMMA EnterMaintMoves ==
  ASSUME NEW b, NEW s \in Servers, Near(b, s), b.sv[s].state = "STOPPED" => b.sv[s].prev = 0
  PROVE  LET c == EnterMaint(b, s)
         IN  /\ Moved(b, c, s) /\ Kept(b.sv[s], c.sv[s])
             /\ c.sv[s].admin = b.sv[s].admin /\ c.sv[s].state = "STOPPED"
<1> DEFINE r == b.sv[s]
           health == IF r.en \/ r.state # "STOPPED" THEN 0 ELSE r.health
           paused == r.paused \/ r.en
           q == [r EXCEPT !.paused = paused, !.health = health]
           m == Put(b, s, q)
           c == EnterMaint(b, s)
<1>1. r \in ServerRecords /\ b \in States
  BY NearTypes
<1>2. c = IF r.state = "STOPPED" THEN m ELSE TurnOff(m, s, "STOPPED")
  BY DEF EnterMaint
<1>3. health \in 0..Top /\ paused \in BOOLEAN
  <2>1. 0 \in 0..Top
    BY HealthAssumption DEF Top
  <2> QED BY <1>1, <2>1 DEF ServerRecords
<1> HIDE DEF health, paused
<1>4. /\ q \in ServerRecords /\ SameInTree(r, q) /\ Kept(r, q) /\ q.admin = r.admin
      /\ q.state = r.state /\ q.prev = r.prev
  <2> HIDE DEF r
  <2> QED BY <1>1, <1>3 DEF ServerRecords, SameInTree, Kept
<1> HIDE DEF q
<1>5. Near(m, s)
  BY <1>4, PutNear
<1>6. m.sv[s] = q /\ \A t \in Servers : t # s => m.sv[t] = b.sv[t]
  BY <1>1, <1>4, PutIs
<1> HIDE DEF m, c
<1>7. CASE r.state = "STOPPED"
  <2>1. Load(q) = 0 /\ q.prev = 0
    BY <1>4, <1>7 DEF Load, SrvIsUsable
  <2>2. Moved(m, m, s)
    BY <1>5, <1>6, <2>1, NearMoves
  <2>3. Moved(b, m, s)
    BY <1>6, <2>2 DEF Moved
  <2> QED BY <1>2, <1>4, <1>6, <1>7, <2>3 DEF c
<1>8. CASE r.state # "STOPPED"
  <2>1. /\ Moved(m, TurnOff(m, s, "STOPPED"), s) /\ KeptMore(m.sv[s], TurnOff(m, s, "STOPPED").sv[s])
        /\ TurnOff(m, s, "STOPPED").sv[s].state = "STOPPED"
    BY <1>5, TurnOffMoves
  <2>2. Moved(b, c, s) /\ KeptMore(q, c.sv[s]) /\ c.sv[s].state = "STOPPED"
    BY <1>2, <1>6, <1>8, <2>1 DEF Moved
  <2>3. Kept(r, c.sv[s]) /\ c.sv[s].admin = r.admin
    BY <1>4, <2>2 DEF KeptMore, Kept
  <2> QED BY <2>2, <2>3 DEF c
<1> QED BY <1>7, <1>8

\* Drain takes a server out of use and leaves its state alone.
LEMMA EnterDrainMoves ==
  ASSUME NEW b, NEW s \in Servers, Near(b, s), b.sv[s].admin # {},
         InMaint(b.sv[s]) => b.sv[s].prev = 0
  PROVE  LET c == EnterDrain(b, s)
         IN  Moved(b, c, s) /\ KeptMore(b.sv[s], c.sv[s]) /\ c.sv[s].state = b.sv[s].state
<1> DEFINE r == b.sv[s]
           q == [r EXCEPT !.since = 0]
           c == EnterDrain(b, s)
<1>1. r \in ServerRecords
  BY NearTypes
<1>2. c = IF InMaint(r) THEN b ELSE SetServerStatusDown(Put(b, s, q), s)
  BY DEF EnterDrain
<1>3. q \in ServerRecords /\ SameInTree(r, q) /\ KeptMore(r, q) /\ q.state = r.state
  <2> HIDE DEF r
  <2> QED BY <1>1 DEF ServerRecords, SameInTree, KeptMore, Kept
<1> HIDE DEF q, c
<1>4. CASE InMaint(r)
  <2>1. Load(r) = 0 /\ r.prev = 0
    BY <1>4 DEF Load, SrvIsUsable
  <2>2. Moved(b, b, s)
    BY <2>1, NearMoves
  <2> QED BY <1>2, <1>4, <2>2 DEF KeptMore, Kept, c
<1>5. CASE ~InMaint(r)
  <2>1. ~SrvIsUsable(q)
    BY <1>3 DEF SrvIsUsable, KeptMore
  <2>2. Moved(b, c, s) /\ KeptMore(q, c.sv[s]) /\ c.sv[s].state = q.state
    BY <1>2, <1>3, <1>5, <2>1, DownMoves
  <2>3. KeptMore(r, c.sv[s])
    BY <1>3, <2>2 DEF KeptMore, Kept
  <2> QED BY <1>3, <2>2, <2>3 DEF c
<1> QED BY <1>4, <1>5

\* What srv_set_admin_flag() makes of a record.
SetRel(r, q, f) ==
  /\ q.admin = r.admin \cup {f} /\ Kept(r, q)
  /\ Kind(f) \cap r.admin = {} /\ f \in MAINT => q.state = "STOPPED"
  /\ ~(Kind(f) \cap r.admin = {} /\ f \in MAINT) => q.state = r.state /\ q.health = r.health

\* A record with other flags, as long as it counts for nothing before and after.
LEMMA FlagsRecord ==
  ASSUME NEW r \in ServerRecords, NEW a \in SUBSET (MAINT \cup DRAIN)
  PROVE  LET q == [r EXCEPT !.admin = a]
         IN  /\ q \in ServerRecords /\ SameInTree(r, q) /\ Kept(r, q) /\ q.admin = a
             /\ q.state = r.state /\ q.health = r.health /\ q.prev = r.prev /\ q.ew = r.ew
BY DEF ServerRecords, SameInTree, Kept

LEMMA IdleRecord ==
  ASSUME NEW r, r.admin # {} \/ r.state \notin {"STARTING", "RUNNING"}
  PROVE  Load(r) = 0
BY DEF Load, SrvIsUsable

LEMMA SetHereMoves ==
  ASSUME NEW b \in States, Balanced(b), NEW s \in Servers, NEW f \in MAINT \cup DRAIN
  PROVE  LET h == SetFlagHere(b, s, f)
         IN  /\ Moved(b, h.b, s) /\ SetRel(b.sv[s], h.b.sv[s], f)
             /\ h.tell <=> Kind(f) \cap b.sv[s].admin = {}
<1> DEFINE h == SetFlagHere(b, s, f)
           r == b.sv[s]
           same == Kind(f) \cap r.admin # {}
           admin == r.admin \cup {f}
           q == [r EXCEPT !.admin = admin]
           m == Put(b, s, q)
           to == CASE same -> m
                   [] ~same /\ f \in MAINT -> EnterMaint(m, s)
                   [] ~same /\ f \notin MAINT -> EnterDrain(m, s)
<1>1. Near(b, s) /\ r \in ServerRecords /\ r.prev = Load(r)
  BY BalancedNear
<1>2. h = [b |-> to, tell |-> ~same]
  BY Zenon DEF SetFlagHere
<1>3. admin \in SUBSET (MAINT \cup DRAIN) /\ admin # {}
  BY <1>1 DEF ServerRecords
<1>4. /\ q \in ServerRecords /\ SameInTree(r, q) /\ Kept(r, q) /\ q.admin = admin
      /\ q.state = r.state /\ q.health = r.health /\ q.prev = r.prev
  <2> HIDE DEF r, admin
  <2> QED BY <1>1, <1>3, FlagsRecord
<1> HIDE DEF q
<1>5. Near(m, s) /\ m.sv[s] = q /\ \A t \in Servers : t # s => m.sv[t] = b.sv[t]
  BY <1>1, <1>4, PutNear, PutIs
<1> HIDE DEF m
<1>6. Load(q) = 0
  BY <1>3, <1>4, IdleRecord
<1>7. CASE same
  <2>1. to = m
    BY <1>7, Zenon
  <2>2. r.prev = 0
    BY <1>1, <1>7, IdleRecord DEF Kind
  <2>3. Moved(m, m, s)
    BY <1>4, <1>5, <1>6, <2>2, NearMoves
  <2>4. Moved(b, to, s) /\ to.sv[s] = q
    BY <1>5, <2>1, <2>3 DEF Moved
  <2>5. SetRel(r, q, f)
    BY <1>4, <1>7 DEF SetRel
  <2> HIDE DEF h, to
  <2>6. h.b = to /\ h.tell = ~same
    BY <1>2
  <2> QED BY <1>7, <2>4, <2>5, <2>6 DEF h
<1>8. CASE ~same /\ f \in MAINT
  <2>1. to = EnterMaint(m, s)
    BY <1>8, Zenon
  <2>2. q.state = "STOPPED" => q.prev = 0
    BY <1>1, <1>4, IdleRecord
  <2>3. /\ Moved(m, EnterMaint(m, s), s) /\ Kept(q, EnterMaint(m, s).sv[s])
        /\ EnterMaint(m, s).sv[s].admin = admin /\ EnterMaint(m, s).sv[s].state = "STOPPED"
    BY <1>4, <1>5, <2>2, EnterMaintMoves
  <2> HIDE DEF h, to
  <2>4. Moved(b, to, s) /\ Kept(r, to.sv[s]) /\ to.sv[s].admin = admin /\ to.sv[s].state = "STOPPED"
    BY <1>4, <1>5, <2>1, <2>3 DEF Moved, Kept
  <2>5. SetRel(r, to.sv[s], f)
    BY <1>8, <2>4 DEF SetRel
  <2>6. h.b = to /\ h.tell = ~same
    BY <1>2
  <2> QED BY <1>8, <2>4, <2>5, <2>6 DEF h
<1>9. CASE ~same /\ f \notin MAINT
  <2>1. to = EnterDrain(m, s)
    BY <1>9, Zenon
  <2>2. InMaint(q) => q.prev = 0
    <3>1. InMaint(q) => r.admin # {}
      BY <1>4, <1>9 DEF InMaint
    <3> QED BY <1>1, <1>4, <3>1, IdleRecord
  <2>3. /\ Moved(m, EnterDrain(m, s), s) /\ KeptMore(q, EnterDrain(m, s).sv[s])
        /\ EnterDrain(m, s).sv[s].state = q.state
    BY <1>3, <1>4, <1>5, <2>2, EnterDrainMoves
  <2> HIDE DEF h, to
  <2>4. Moved(b, to, s) /\ KeptMore(q, to.sv[s]) /\ to.sv[s].state = q.state
    BY <1>5, <2>1, <2>3 DEF Moved
  <2>5. SetRel(r, to.sv[s], f)
    BY <1>4, <1>9, <2>4 DEF SetRel, KeptMore, Kept
  <2>6. h.b = to /\ h.tell = ~same
    BY <1>2
  <2> QED BY <1>9, <2>4, <2>5, <2>6 DEF h
<1> QED BY <1>7, <1>8, <1>9

\* The state of the server that s tracks.
ParentState(f, s) == IF Track[s] = None THEN "UNTRACKED" ELSE f[Track[s]].state

\* Where leaving maintenance leads, for the record r of a tracker of one in ps.
Left(r, q, ps) ==
  LET down == r.aen /\ r.agent = 0
  IN  /\ ps = "STOPPED" \/ down => q.state = "STOPPED"
      /\ ps = "STOPPING" /\ ~down => q.state = "STOPPING"
      /\ ps \notin {"STOPPED", "STOPPING"} /\ ~down => q.state \in {"STARTING", "RUNNING"}

LEMMA LeaveMaintMoves ==
  ASSUME NEW b, NEW s \in Servers, Near(b, s), b.sv[s].state = "STOPPED", b.sv[s].prev = 0
  PROVE  LET c == LeaveMaint(b, s)
         IN  /\ Moved(b, c, s) /\ Kept(b.sv[s], c.sv[s]) /\ c.sv[s].admin = b.sv[s].admin
             /\ Left(b.sv[s], c.sv[s], ParentState(b.sv, s))
<1> DEFINE r == b.sv[s]
           r1 == IF r.en THEN [r EXCEPT !.paused = FALSE, !.health = Rise] ELSE r
           t == ParentState(b.sv, s)
           down == r.aen /\ r.agent = 0
           c == LeaveMaint(b, s)
           r2 == [r1 EXCEPT !.state = "STOPPING"]
<1>1. r \in ServerRecords /\ b \in States
  BY NearTypes
<1>2. c = CASE t = "STOPPED" \/ down -> Put(b, s, r1)
            [] t = "STOPPING" /\ ~down -> RecalcEweight(Put(b, s, r2), s)
            [] t \notin {"STOPPED", "STOPPING"} /\ ~down -> TurnOn(Put(b, s, r1), s)
  BY Zenon DEF LeaveMaint, ParentState
<1>3. Rise \in 0..Top
  BY HealthAssumption DEF Top
<1>4. /\ r1 \in ServerRecords /\ SameInTree(r, r1) /\ Kept(r, r1) /\ r1.admin = r.admin
      /\ r1.state = r.state /\ r1.prev = r.prev
  <2> HIDE DEF r
  <2>1. CASE r.en
    <3> DEFINE q == [r EXCEPT !.paused = FALSE, !.health = Rise]
    <3>1. r1 = q
      BY <2>1
    <3>2. /\ q \in ServerRecords /\ SameInTree(r, q) /\ Kept(r, q) /\ q.admin = r.admin
          /\ q.state = r.state /\ q.prev = r.prev
      BY <1>1, <1>3 DEF ServerRecords, SameInTree, Kept
    <3> QED BY <3>1, <3>2
  <2>2. CASE ~r.en
    <3>1. r1 = r
      BY <2>2
    <3> QED BY <1>1, <3>1 DEF SameInTree, Kept
  <2> QED BY <2>1, <2>2
<1> HIDE DEF r1
<1>5. /\ r2 \in ServerRecords /\ SameInTree(r, r2) /\ Kept(r, r2) /\ r2.admin = r.admin
      /\ r2.state = "STOPPING"
  <2>1. /\ r2 \in ServerRecords /\ SameInTree(r1, r2) /\ Kept(r1, r2) /\ r2.admin = r1.admin
        /\ r2.state = "STOPPING"
    BY <1>4 DEF ServerRecords, SameInTree, Kept
  <2> QED BY <1>4, <2>1 DEF SameInTree, Kept
<1> DEFINE m == Put(b, s, r1)
           n == Put(b, s, r2)
<1> HIDE DEF r2
<1>6. Near(m, s) /\ m.sv[s] = r1 /\ \A x \in Servers : x # s => m.sv[x] = b.sv[x]
  BY <1>1, <1>4, PutNear, PutIs
<1>7. Near(n, s) /\ n.sv[s] = r2 /\ \A x \in Servers : x # s => n.sv[x] = b.sv[x]
  BY <1>1, <1>5, PutNear, PutIs
<1> HIDE DEF m, n, c, t
<1>8. CASE t = "STOPPED" \/ down
  <2>1. c = m
    BY <1>2, <1>8, Zenon DEF m
  <2>2. Load(r1) = 0 /\ r1.prev = 0
    BY <1>4, IdleRecord
  <2>3. Moved(m, m, s)
    BY <1>6, <2>2, NearMoves
  <2>4. Moved(b, c, s) /\ c.sv[s] = r1
    BY <1>6, <2>1, <2>3 DEF Moved
  <2>5. Left(r, r1, t)
    BY <1>4, <1>8 DEF Left
  <2> QED BY <1>4, <2>4, <2>5 DEF c, t
<1>9. CASE t = "STOPPING" /\ ~down
  <2>1. c = RecalcEweight(n, s)
    BY <1>2, <1>9, Zenon DEF n
  <2>2. /\ Moved(n, c, s) /\ KeptMore(n.sv[s], c.sv[s])
        /\ \/ c.sv[s].state = n.sv[s].state
           \/ n.sv[s].state = "STARTING" /\ c.sv[s].state = "RUNNING"
    BY <1>7, <2>1, RecalcMoves
  <2>3. Moved(b, c, s) /\ KeptMore(r2, c.sv[s]) /\ c.sv[s].state = "STOPPING"
    BY <1>5, <1>7, <2>2 DEF Moved
  <2>4. Kept(r, c.sv[s]) /\ c.sv[s].admin = r.admin
    BY <1>5, <2>3 DEF KeptMore, Kept
  <2>5. Left(r, c.sv[s], t)
    BY <1>9, <2>3 DEF Left
  <2> QED BY <2>3, <2>4, <2>5 DEF c, t
<1>10. CASE t \notin {"STOPPED", "STOPPING"} /\ ~down
  <2>1. c = TurnOn(m, s)
    BY <1>2, <1>10, Zenon DEF m
  <2>2. Moved(m, c, s) /\ KeptMore(m.sv[s], c.sv[s]) /\ c.sv[s].state \in {"STARTING", "RUNNING"}
    BY <1>6, <2>1, TurnOnMoves
  <2>3. Moved(b, c, s) /\ KeptMore(r1, c.sv[s]) /\ c.sv[s].state \in {"STARTING", "RUNNING"}
    BY <1>6, <2>2 DEF Moved
  <2>4. Kept(r, c.sv[s]) /\ c.sv[s].admin = r.admin
    BY <1>4, <2>3 DEF KeptMore, Kept
  <2>5. Left(r, c.sv[s], t)
    BY <1>10, <2>3 DEF Left
  <2> QED BY <2>3, <2>4, <2>5 DEF c, t
<1> QED BY <1>8, <1>9, <1>10

LEMMA LeaveDrainMoves ==
  ASSUME NEW b, NEW s \in Servers, Near(b, s)
  PROVE  LET c == LeaveDrain(b, s)
         IN  /\ Moved(b, c, s) /\ KeptMore(b.sv[s], c.sv[s])
             /\ \/ c.sv[s].state = b.sv[s].state
                \/ b.sv[s].state = "STARTING" /\ c.sv[s].state = "RUNNING"
<1> DEFINE r == b.sv[s]
           q == [r EXCEPT !.since = 0]
           m == Put(b, s, q)
           c == LeaveDrain(b, s)
<1>1. r \in ServerRecords /\ b \in States
  BY NearTypes
<1>2. c = RecalcEweight(m, s)
  BY DEF LeaveDrain
<1>3. q \in ServerRecords /\ SameInTree(r, q) /\ KeptMore(r, q) /\ q.state = r.state
  <2> HIDE DEF r
  <2> QED BY <1>1 DEF ServerRecords, SameInTree, KeptMore, Kept
<1> HIDE DEF q
<1>4. Near(m, s) /\ m.sv[s] = q /\ \A t \in Servers : t # s => m.sv[t] = b.sv[t]
  BY <1>1, <1>3, PutNear, PutIs
<1> HIDE DEF m, c
<1>5. /\ Moved(m, c, s) /\ KeptMore(m.sv[s], c.sv[s])
      /\ \/ c.sv[s].state = m.sv[s].state
         \/ m.sv[s].state = "STARTING" /\ c.sv[s].state = "RUNNING"
  BY <1>2, <1>4, RecalcMoves
<1>6. Moved(b, c, s)
  BY <1>4, <1>5 DEF Moved
<1>7. KeptMore(r, c.sv[s])
  BY <1>3, <1>4, <1>5 DEF KeptMore, Kept
<1> QED BY <1>3, <1>4, <1>5, <1>6, <1>7 DEF c

\* What srv_clr_admin_flag() makes of a record.
Leaves(r, f) == f \in MAINT /\ f \in r.admin /\ (r.admin \ {f}) \cap MAINT = {}
ClrRel(r, q, f, ps) ==
  /\ q.admin = r.admin \ {f} /\ Kept(r, q)
  /\ Leaves(r, f) => Left(r, q, ps)
  /\ ~Leaves(r, f) => /\ q.health = r.health
                      /\ q.state = r.state \/ (r.state = "STARTING" /\ q.state = "RUNNING")

\* A server comes once in TopDown, after the one it tracks.
LEMMA Above ==
  /\ \A i \in 1..Len(TopDown) : TopDown[i] \in Servers
  /\ \A s \in Servers : Track[s] \in Servers \cup {None} /\ Track[s] # s
  /\ \A i, j \in 1..Len(TopDown) :
       /\ TopDown[i] = TopDown[j] => i = j
       /\ Track[TopDown[i]] = TopDown[j] => j < i
  /\ \A s \in Servers : \E i \in 1..Len(TopDown) : TopDown[i] = s
  /\ Len(TopDown) \in Nat /\ None \notin Servers
<1>1. TopDown \in Seq(Servers) /\ IsInjective(TopDown) /\ None \notin Servers
  BY HealthAssumption, TrackingAssumption
<1>2. Len(TopDown) \in Nat /\ DOMAIN TopDown = 1..Len(TopDown)
  BY <1>1, LenProperties
<1>3. \A i \in 1..Len(TopDown) : TopDown[i] \in Servers
  BY <1>1, <1>2, ElementOfSeq
<1>4. \A s \in Servers : \E i \in 1..Len(TopDown) : TopDown[i] = s
  BY <1>2, TrackingAssumption DEF Range
<1>5. \A i, j \in 1..Len(TopDown) : TopDown[i] = TopDown[j] => i = j
  BY <1>1, <1>2 DEF IsInjective
<1>6. \A i, j \in 1..Len(TopDown) : Track[TopDown[i]] = TopDown[j] => j < i
  BY <1>2, TrackingAssumption
<1>7. ASSUME NEW s \in Servers PROVE Track[s] \in Servers \cup {None} /\ Track[s] # s
  <2>1. Track[s] \in Servers \cup {None}
    BY HealthAssumption
  <2>2. PICK i \in 1..Len(TopDown) : TopDown[i] = s
    BY <1>4
  <2>3. Track[s] # s
    BY <1>2, <1>6, <2>2
  <2> QED BY <2>1, <2>3
<1> QED BY <1>1, <1>2, <1>3, <1>4, <1>5, <1>6, <1>7

LEMMA ClrHereMoves ==
  ASSUME NEW b \in States, Balanced(b), NEW s \in Servers, NEW f \in MAINT \cup DRAIN,
         InMaint(b.sv[s]) => b.sv[s].state = "STOPPED"
  PROVE  LET h == ClrFlagHere(b, s, f)
         IN  /\ Moved(b, h.b, s) /\ ClrRel(b.sv[s], h.b.sv[s], f, ParentState(b.sv, s))
             /\ h.tell <=> f \in b.sv[s].admin /\ Kind(f) \cap (b.sv[s].admin \ {f}) = {}
<1> DEFINE h == ClrFlagHere(b, s, f)
           r == b.sv[s]
           left == r.admin \ {f}
           q == [r EXCEPT !.admin = left]
           m == Put(b, s, q)
           still == left \cap MAINT # {} \/ (f \notin MAINT /\ left \cap DRAIN # {})
           tell == f \in r.admin /\ Kind(f) \cap left = {}
           ps == ParentState(b.sv, s)
           to == CASE f \notin r.admin \/ still -> m
                   [] f \in r.admin /\ ~still /\ f \in MAINT -> LeaveMaint(m, s)
                   [] f \in r.admin /\ ~still /\ f \notin MAINT -> LeaveDrain(m, s)
<1>1. Near(b, s) /\ r \in ServerRecords /\ r.prev = Load(r)
  BY BalancedNear
<1>2. h = [b |-> to, tell |-> tell]
  BY Zenon DEF ClrFlagHere
<1>3. left \in SUBSET (MAINT \cup DRAIN) /\ r.admin \in SUBSET (MAINT \cup DRAIN)
  BY <1>1 DEF ServerRecords
<1>4. /\ q \in ServerRecords /\ SameInTree(r, q) /\ Kept(r, q) /\ q.admin = left
      /\ q.state = r.state /\ q.health = r.health /\ q.prev = r.prev /\ q.ew = r.ew
  <2> HIDE DEF r, left
  <2> QED BY <1>1, <1>3, FlagsRecord
<1> HIDE DEF q
<1>5. Near(m, s) /\ m.sv[s] = q /\ \A t \in Servers : t # s => m.sv[t] = b.sv[t]
  BY <1>1, <1>4, PutNear, PutIs
<1>6. ParentState(m.sv, s) = ps
  BY <1>5, Above DEF ParentState
<1> HIDE DEF m, ps
<1>7. CASE f \notin r.admin \/ still
  <2>1. to = m
    BY <1>7, Zenon
  <2>2. Load(q) = q.prev
    <3>1. CASE f \notin r.admin
      <4>1. q.admin = r.admin
        BY <1>4, <3>1
      <4>2. Load(q) = Load(r)
        BY <1>4, <4>1 DEF Load, SrvIsUsable
      <4> QED BY <1>1, <1>4, <4>2
    <3>2. CASE still
      <4>1. q.admin # {} /\ r.admin # {}
        BY <1>4, <3>2
      <4> QED BY <1>1, <1>4, <4>1, IdleRecord
    <3> QED BY <1>7, <3>1, <3>2
  <2>3. Moved(m, m, s)
    BY <1>5, <2>2, NearMoves
  <2>4. Moved(b, to, s) /\ to.sv[s] = q
    BY <1>5, <2>1, <2>3 DEF Moved
  <2>5. ~Leaves(r, f)
    BY <1>7 DEF Leaves
  <2>6. ClrRel(r, q, f, ps)
    BY <1>4, <2>5 DEF ClrRel
  <2> HIDE DEF h, to, tell
  <2>7. h.b = to /\ h.tell = tell
    BY <1>2
  <2> QED BY <2>4, <2>6, <2>7 DEF h, tell, ps
<1>8. CASE f \in r.admin /\ ~still /\ f \in MAINT
  <2>1. to = LeaveMaint(m, s)
    BY <1>8, Zenon
  <2>2. InMaint(r)
    BY <1>8 DEF InMaint
  <2>3. q.state = "STOPPED" /\ q.prev = 0
    BY <1>1, <1>4, <2>2, IdleRecord
  <2>4. /\ Moved(m, LeaveMaint(m, s), s) /\ Kept(q, LeaveMaint(m, s).sv[s])
        /\ LeaveMaint(m, s).sv[s].admin = q.admin
        /\ Left(q, LeaveMaint(m, s).sv[s], ps)
    BY <1>5, <1>6, <2>3, LeaveMaintMoves
  <2> HIDE DEF h, to, tell
  <2>5. Moved(b, to, s) /\ Kept(r, to.sv[s]) /\ to.sv[s].admin = left /\ Left(r, to.sv[s], ps)
    BY <1>4, <1>5, <2>1, <2>4 DEF Moved, Kept, Left
  <2>6. Leaves(r, f)
    BY <1>8 DEF Leaves
  <2>7. ClrRel(r, to.sv[s], f, ps)
    BY <2>5, <2>6 DEF ClrRel
  <2>8. h.b = to /\ h.tell = tell
    BY <1>2
  <2> QED BY <2>5, <2>7, <2>8 DEF h, tell, ps
<1>9. CASE f \in r.admin /\ ~still /\ f \notin MAINT
  <2>1. to = LeaveDrain(m, s)
    BY <1>9, Zenon
  <2>2. /\ Moved(m, LeaveDrain(m, s), s) /\ KeptMore(q, LeaveDrain(m, s).sv[s])
        /\ \/ LeaveDrain(m, s).sv[s].state = q.state
           \/ q.state = "STARTING" /\ LeaveDrain(m, s).sv[s].state = "RUNNING"
    BY <1>5, LeaveDrainMoves
  <2> HIDE DEF h, to, tell
  <2>3. /\ Moved(b, to, s) /\ Kept(r, to.sv[s]) /\ to.sv[s].admin = left /\ to.sv[s].health = r.health
        /\ to.sv[s].state = r.state \/ (r.state = "STARTING" /\ to.sv[s].state = "RUNNING")
    BY <1>4, <1>5, <2>1, <2>2 DEF Moved, Kept, KeptMore
  <2>4. ~Leaves(r, f)
    BY <1>9 DEF Leaves
  <2>5. ClrRel(r, to.sv[s], f, ps)
    BY <2>3, <2>4 DEF ClrRel
  <2>6. h.b = to /\ h.tell = tell
    BY <1>2
  <2> QED BY <2>3, <2>5, <2>6 DEF h, tell, ps
<1> QED BY <1>7, <1>8, <1>9

-----------------------------------------------------------------------------
(* A call and those it makes for the trackers.                             *)

Calls == {"state", "set", "clear"}
Args(call) == IF call = "state" THEN {"STOPPED", "RUNNING", "STOPPING"} ELSE MAINT \cup DRAIN

HereRel(call, r, q, a, ps) ==
  /\ call = "state" => StateRel(r, q, a)
  /\ call = "set" => SetRel(r, q, a)
  /\ call = "clear" => ClrRel(r, q, a, ps)

Tells(call, r, a) ==
  /\ call = "state" => ~(InMaint(r) \/ r.state \in There(a))
  /\ call = "set" => Kind(a) \cap r.admin = {}
  /\ call = "clear" => a \in r.admin /\ Kind(a) \cap (r.admin \ {a}) = {}

StoppedInMaint(r) == InMaint(r) => r.state = "STOPPED"

LEMMA HereMoves ==
  ASSUME NEW b \in States, Balanced(b), NEW s \in Servers, NEW call \in Calls,
         NEW a \in Args(call), StoppedInMaint(b.sv[s])
  PROVE  LET h == Here(b, s, call, a)
         IN  /\ Moved(b, h.b, s) /\ HereRel(call, b.sv[s], h.b.sv[s], a, ParentState(b.sv, s))
             /\ h.tell <=> Tells(call, b.sv[s], a)
<1> DEFINE h == Here(b, s, call, a)
<1>1. CASE call = "state"
  <2>1. h = SetStateHere(b, s, a)
    BY <1>1, Zenon DEF Here
  <2>2. a \in {"STOPPED", "RUNNING", "STOPPING"}
    BY <1>1 DEF Args
  <2>3. /\ Moved(b, SetStateHere(b, s, a).b, s) /\ StateRel(b.sv[s], SetStateHere(b, s, a).b.sv[s], a)
        /\ SetStateHere(b, s, a).tell <=> ~(InMaint(b.sv[s]) \/ b.sv[s].state \in There(a))
    BY <2>2, StateHereMoves
  <2> HIDE DEF h
  <2>4. HereRel(call, b.sv[s], h.b.sv[s], a, ParentState(b.sv, s))
    BY <1>1, <2>1, <2>3 DEF HereRel
  <2>5. h.tell <=> Tells(call, b.sv[s], a)
    BY <1>1, <2>1, <2>3 DEF Tells
  <2> QED BY <2>1, <2>3, <2>4, <2>5 DEF h
<1>2. CASE call = "set"
  <2>1. h = SetFlagHere(b, s, a)
    BY <1>2, Zenon DEF Here
  <2>2. a \in MAINT \cup DRAIN
    BY <1>2 DEF Args
  <2>3. /\ Moved(b, SetFlagHere(b, s, a).b, s) /\ SetRel(b.sv[s], SetFlagHere(b, s, a).b.sv[s], a)
        /\ SetFlagHere(b, s, a).tell <=> Kind(a) \cap b.sv[s].admin = {}
    BY <2>2, SetHereMoves
  <2> HIDE DEF h
  <2>4. HereRel(call, b.sv[s], h.b.sv[s], a, ParentState(b.sv, s))
    BY <1>2, <2>1, <2>3 DEF HereRel
  <2>5. h.tell <=> Tells(call, b.sv[s], a)
    BY <1>2, <2>1, <2>3 DEF Tells
  <2> QED BY <2>1, <2>3, <2>4, <2>5 DEF h
<1>3. CASE call = "clear"
  <2>1. h = ClrFlagHere(b, s, a)
    BY <1>3, Zenon DEF Here
  <2>2. a \in MAINT \cup DRAIN
    BY <1>3 DEF Args
  <2>3. /\ Moved(b, ClrFlagHere(b, s, a).b, s)
        /\ ClrRel(b.sv[s], ClrFlagHere(b, s, a).b.sv[s], a, ParentState(b.sv, s))
        /\ ClrFlagHere(b, s, a).tell
             <=> a \in b.sv[s].admin /\ Kind(a) \cap (b.sv[s].admin \ {a}) = {}
    BY <2>2, ClrHereMoves DEF StoppedInMaint
  <2> HIDE DEF h
  <2>4. HereRel(call, b.sv[s], h.b.sv[s], a, ParentState(b.sv, s))
    BY <1>3, <2>1, <2>3 DEF HereRel
  <2>5. h.tell <=> Tells(call, b.sv[s], a)
    BY <1>3, <2>1, <2>3 DEF Tells
  <2> QED BY <2>1, <2>3, <2>4, <2>5 DEF h
<1> QED BY <1>1, <1>2, <1>3 DEF Calls

LEMMA RelStopped ==
  ASSUME NEW r, NEW q, NEW ps, NEW call \in Calls, NEW a \in Args(call),
         StoppedInMaint(r), HereRel(call, r, q, a, ps)
  PROVE  StoppedInMaint(q)
<1>1. CASE call = "state"
  BY <1>1 DEF HereRel, StateRel, StoppedInMaint, InMaint, KeptMore
<1>2. CASE call = "set"
  <2>1. SetRel(r, q, a) /\ a \in MAINT \cup DRAIN
    BY <1>2 DEF HereRel, Args
  <2>2. CASE a \in MAINT /\ Kind(a) \cap r.admin = {}
    BY <2>1, <2>2 DEF SetRel, StoppedInMaint
  <2>3. CASE ~(a \in MAINT /\ Kind(a) \cap r.admin = {})
    <3>1. q.state = r.state /\ q.admin = r.admin \cup {a}
      BY <2>1, <2>3 DEF SetRel
    <3>2. InMaint(q) => InMaint(r)
      BY <2>3, <3>1 DEF InMaint, Kind
    <3> QED BY <3>1, <3>2 DEF StoppedInMaint
  <2> QED BY <2>2, <2>3
<1>3. CASE call = "clear"
  <2>1. ClrRel(r, q, a, ps)
    BY <1>3 DEF HereRel
  <2>2. CASE Leaves(r, a)
    BY <2>1, <2>2 DEF ClrRel, Leaves, InMaint, StoppedInMaint
  <2>3. CASE ~Leaves(r, a)
    <3>1. InMaint(q) => InMaint(r)
      BY <2>1 DEF ClrRel, InMaint
    <3> QED BY <2>1, <2>3, <3>1 DEF ClrRel, StoppedInMaint
  <2> QED BY <2>2, <2>3
<1> QED BY <1>1, <1>2, <1>3 DEF Calls

LEMMA InheritedArgs ==
  ASSUME NEW call \in Calls, NEW a \in Args(call)
  PROVE  /\ Inherited(a) \in Args(call)
         /\ call = "state" => Inherited(a) = a
         /\ call # "state" => /\ a \in MAINT => Inherited(a) = "IMAINT"
                              /\ a \in DRAIN => Inherited(a) = "IDRAIN"
<1>1. CASE call = "state"
  BY <1>1 DEF Args, Inherited, MAINT, DRAIN
<1>2. CASE call # "state"
  BY <1>2 DEF Args, Inherited, MAINT, DRAIN
<1> QED BY <1>1, <1>2

\* The place of a server in TopDown.
Rank(t) == CHOOSE i \in 1..Len(TopDown) : TopDown[i] = t

LEMMA Ranks ==
  /\ \A t \in Servers : Rank(t) \in 1..Len(TopDown) /\ TopDown[Rank(t)] = t
  /\ \A i \in 1..Len(TopDown) : TopDown[i] \in Servers /\ Rank(TopDown[i]) = i
  /\ \A t \in Servers : Track[t] \in Servers => Rank(Track[t]) < Rank(t)
<1>1. \A t \in Servers : Rank(t) \in 1..Len(TopDown) /\ TopDown[Rank(t)] = t
  BY Above DEF Rank
<1>2. \A i \in 1..Len(TopDown) : TopDown[i] \in Servers /\ Rank(TopDown[i]) = i
  BY <1>1, Above
<1>3. ASSUME NEW t \in Servers, Track[t] \in Servers PROVE Rank(Track[t]) < Rank(t)
  <2>1. TopDown[Rank(Track[t])] = Track[t] /\ TopDown[Rank(t)] = t
    BY <1>1, <1>3
  <2> QED BY <1>1, <1>3, <2>1, Above
<1> QED BY <1>1, <1>2, <1>3

ArgOf(s, a, t) == IF t = s THEN a ELSE Inherited(a)
Called(told, s, t) == t = s \/ Track[t] \in told

\* How far the servers up to place n of TopDown have been visited.
Visited(b, s, call, a, n, c) ==
  /\ c.b \in States /\ Balanced(c.b) /\ c.told \in SUBSET Servers
  /\ \A t \in Servers : StoppedInMaint(c.b.sv[t])
  /\ \A t \in c.told : Rank(t) <= n /\ Rank(s) <= Rank(t)
  /\ \A t \in Servers : Rank(t) <= n /\ Called(c.told, s, t) =>
       /\ HereRel(call, b.sv[t], c.b.sv[t], ArgOf(s, a, t), ParentState(c.b.sv, t))
       /\ t \in c.told <=> Tells(call, b.sv[t], ArgOf(s, a, t))
  /\ \A t \in Servers : ~(Rank(t) <= n /\ Called(c.told, s, t)) =>
       c.b.sv[t] = b.sv[t] /\ t \notin c.told

LEMMA VisitKeeps ==
  ASSUME NEW b, NEW s \in Servers, NEW call \in Calls, NEW a \in Args(call),
         NEW n \in 1..Len(TopDown), NEW c, Visited(b, s, call, a, n - 1, c)
  PROVE  Visited(b, s, call, a, n, Visit(c, TopDown[n], s, call, a))
<1> DEFINE t == TopDown[n]
           x == ArgOf(s, a, t)
           h == Here(c.b, t, call, x)
           d == Visit(c, t, s, call, a)
<1>1. t \in Servers /\ Rank(t) = n /\ n \in Nat /\ n - 1 \in Nat
  BY Ranks, Above
<1>2. d = IF t # s /\ Track[t] \notin c.told THEN c
          ELSE [b |-> h.b, told |-> IF h.tell THEN c.told \cup {t} ELSE c.told]
  BY Zenon DEF Visit, Noted, ArgOf
<1>3. \A u \in Servers : Rank(u) \in Nat /\ (Rank(u) = n => u = t)
  BY <1>1, Ranks, Above
<1>4. /\ c.b \in States /\ Balanced(c.b) /\ c.told \in SUBSET Servers
      /\ \A u \in Servers : StoppedInMaint(c.b.sv[u])
      /\ \A u \in c.told : Rank(u) <= n - 1 /\ Rank(s) <= Rank(u)
  BY DEF Visited
<1>5. \A u \in Servers : Rank(u) <= n - 1 /\ Called(c.told, s, u) =>
        /\ HereRel(call, b.sv[u], c.b.sv[u], ArgOf(s, a, u), ParentState(c.b.sv, u))
        /\ u \in c.told <=> Tells(call, b.sv[u], ArgOf(s, a, u))
  BY DEF Visited
<1>6. \A u \in Servers : ~(Rank(u) <= n - 1 /\ Called(c.told, s, u)) =>
        c.b.sv[u] = b.sv[u] /\ u \notin c.told
  BY DEF Visited
<1> HIDE DEF t, h, d
<1>7. CASE ~Called(c.told, s, t)
  <2>1. d = c
    BY <1>2, <1>7 DEF Called
  <2>2. \A u \in c.told : Rank(u) <= n /\ Rank(s) <= Rank(u)
    BY <1>1, <1>3, <1>4
  <2>3. \A u \in Servers : Called(c.told, s, u) => (Rank(u) <= n <=> Rank(u) <= n - 1)
    BY <1>1, <1>3, <1>7
  <2>4. Visited(b, s, call, a, n, c)
    BY <1>4, <1>5, <1>6, <2>2, <2>3 DEF Visited
  <2> QED BY <2>1, <2>4 DEF d, t
<1>8. CASE Called(c.told, s, t)
  <2>1. x \in Args(call)
    BY InheritedArgs DEF ArgOf
  <2>2. c.b.sv[t] = b.sv[t] /\ t \notin c.told
    BY <1>1, <1>6
  <2> HIDE DEF x
  <2>3. /\ Moved(c.b, h.b, t) /\ HereRel(call, c.b.sv[t], h.b.sv[t], x, ParentState(c.b.sv, t))
        /\ h.tell <=> Tells(call, c.b.sv[t], x)
    BY <1>1, <1>4, <2>1, HereMoves DEF h
  <2>4. d.b = h.b /\ d.told = IF h.tell THEN c.told \cup {t} ELSE c.told
    BY <1>2, <1>8 DEF Called
  <2>5. d.b \in States /\ Balanced(d.b) /\ \A u \in Servers : u # t => d.b.sv[u] = c.b.sv[u]
    BY <2>3, <2>4 DEF Moved
  <2>6. HereRel(call, b.sv[t], d.b.sv[t], x, ParentState(c.b.sv, t))
    BY <2>2, <2>3, <2>4
  <2>7. t \in d.told <=> Tells(call, b.sv[t], x)
    BY <2>2, <2>3, <2>4
  <2>8. \A u \in Servers : u # t => (u \in d.told <=> u \in c.told)
    BY <2>4
  <2>9. d.told \in SUBSET Servers
    BY <1>1, <1>4, <2>4
  <2>10. \A u \in Servers : StoppedInMaint(d.b.sv[u])
    <3>1. StoppedInMaint(c.b.sv[t])
      BY <1>1, <1>4
    <3>2. StoppedInMaint(d.b.sv[t])
      BY <2>1, <2>2, <2>6, <3>1, RelStopped
    <3> QED BY <1>4, <2>5, <3>2
  <2>11. Rank(s) <= n
    <3>1. CASE t = s
      BY <1>1, <3>1
    <3>2. CASE Track[t] \in c.told
      <4>1. Track[t] \in Servers /\ Rank(s) <= Rank(Track[t]) /\ Rank(Track[t]) <= n - 1
        BY <1>4, <3>2
      <4> QED BY <1>1, <1>3, <4>1
    <3> QED BY <1>8, <3>1, <3>2 DEF Called
  <2>12. \A u \in d.told : Rank(u) <= n /\ Rank(s) <= Rank(u)
    <3> SUFFICES ASSUME NEW u \in d.told PROVE Rank(u) <= n /\ Rank(s) <= Rank(u)
      OBVIOUS
    <3>1. CASE u = t
      BY <1>1, <2>11, <3>1
    <3>2. CASE u # t
      <4>1. u \in c.told /\ u \in Servers
        BY <2>8, <2>9, <3>2
      <4>2. Rank(u) <= n - 1 /\ Rank(s) <= Rank(u) /\ Rank(u) \in Nat
        BY <1>3, <1>4, <4>1
      <4> QED BY <1>1, <4>2
    <3> QED BY <3>1, <3>2
  \* t does not change who is called among those up to its place.
  <2>13. \A u \in Servers : Rank(u) <= n => Track[u] # t
    BY <1>1, <1>3, Ranks
  <2>14. \A u \in Servers : Rank(u) <= n => (Called(d.told, s, u) <=> Called(c.told, s, u))
    BY <2>4, <2>13 DEF Called
  <2>15. \A u \in Servers : Rank(u) <= n => ParentState(d.b.sv, u) = ParentState(c.b.sv, u)
    BY <2>5, <2>13, Above DEF ParentState
  <2>16. ASSUME NEW u \in Servers, Rank(u) <= n, Called(d.told, s, u)
         PROVE  /\ HereRel(call, b.sv[u], d.b.sv[u], ArgOf(s, a, u), ParentState(d.b.sv, u))
                /\ u \in d.told <=> Tells(call, b.sv[u], ArgOf(s, a, u))
    <3>1. ParentState(d.b.sv, u) = ParentState(c.b.sv, u) /\ Called(c.told, s, u)
      BY <2>14, <2>15, <2>16
    <3>2. CASE u = t
      BY <2>6, <2>7, <3>1, <3>2 DEF x
    <3>3. CASE u # t
      <4>1. Rank(u) <= n - 1
        BY <1>1, <1>3, <2>16, <3>3
      <4>2. d.b.sv[u] = c.b.sv[u] /\ (u \in d.told <=> u \in c.told)
        BY <2>5, <2>8, <3>3
      <4> QED BY <1>5, <3>1, <4>1, <4>2
    <3> QED BY <3>2, <3>3
  <2>17. ASSUME NEW u \in Servers, ~(Rank(u) <= n /\ Called(d.told, s, u))
         PROVE  d.b.sv[u] = b.sv[u] /\ u \notin d.told
    <3>1. u # t
      BY <1>1, <1>8, <2>14, <2>17
    <3>2. ~(Rank(u) <= n - 1 /\ Called(c.told, s, u))
      BY <1>1, <1>3, <2>14, <2>17
    <3> QED BY <1>6, <2>5, <2>8, <3>1, <3>2
  <2>18. Visited(b, s, call, a, n, d)
    BY <2>5, <2>9, <2>10, <2>12, <2>16, <2>17 DEF Visited
  <2> QED BY <2>18 DEF d, t
<1> QED BY <1>7, <1>8

IsPass(h, b, s, call, a, n) ==
  h = [k \in 0..n |-> IF k = 0 THEN [b |-> b, told |-> {}]
                      ELSE Visit(h[k - 1], TopDown[k], s, call, a)]

\* The pass over TopDown exists, however many servers there are.
LEMMA PassExists ==
  ASSUME NEW b, NEW s, NEW call, NEW a, NEW n \in Nat
  PROVE  \E h : IsPass(h, b, s, call, a, n)
<1> DEFINE first == [b |-> b, told |-> {}]
           D == {m \in Nat : \A h : ~IsPass(h, b, s, call, a, m)}
           next(v, k) == Visit(v, TopDown[k], s, call, a)
<1> SUFFICES ASSUME D # {} PROVE FALSE
  OBVIOUS
<1>1. PICK m \in D : \A y \in D : <<y, m>> \notin OpToRel(<, Nat)
  BY NatLessThanWellFounded, WFMin
<1>2. \A y \in D : ~(y < m)
  BY <1>1 DEF OpToRel
<1>3. CASE m = 0
  <2> DEFINE h == [k \in 0..0 |-> first]
  <2>1. h = [k \in 0..0 |-> IF k = 0 THEN first ELSE Visit(h[k - 1], TopDown[k], s, call, a)]
    OBVIOUS
  <2>2. IsPass(h, b, s, call, a, m)
    BY <1>3, <2>1 DEF IsPass
  <2> QED BY <2>2
<1>4. CASE m > 0
  <2>1. m - 1 \in Nat /\ m - 1 < m
    BY <1>4
  <2>2. PICK g : IsPass(g, b, s, call, a, m - 1)
    BY <1>2, <2>1
  <2>3. \A k \in 0..(m - 1) : g[k] = IF k = 0 THEN first ELSE next(g[k - 1], k)
    BY <2>2 DEF IsPass
  <2> DEFINE h == [k \in 0..m |-> IF k < m THEN g[k] ELSE next(g[m - 1], m)]
  <2> HIDE DEF first, next
  <2>4. ASSUME NEW k \in 0..m PROVE h[k] = IF k = 0 THEN first ELSE next(h[k - 1], k)
    <3>1. CASE k = 0
      BY <1>4, <2>1, <2>3, <3>1
    <3>2. CASE k > 0 /\ k < m
      <4>1. k \in 0..(m - 1) /\ k - 1 \in 0..m /\ k - 1 < m
        BY <3>2
      <4>2. h[k] = g[k] /\ h[k - 1] = g[k - 1]
        BY <3>2, <4>1
      <4> QED BY <2>3, <3>2, <4>1, <4>2
    <3>3. CASE k = m
      <4>1. m - 1 \in 0..m /\ m - 1 < m /\ ~(m < m) /\ m # 0
        BY <1>4
      <4>2. h[m - 1] = g[m - 1] /\ h[m] = next(g[m - 1], m)
        BY <4>1
      <4> QED BY <3>3, <4>1, <4>2
    <3> QED BY <3>1, <3>2, <3>3
  <2> HIDE DEF h
  <2>5. h = [k \in 0..m |-> IF k = 0 THEN first ELSE next(h[k - 1], k)]
    <3>1. h = [k \in 0..m |-> h[k]]
      BY DEF h
    <3> QED BY <2>4, <3>1
  <2>6. IsPass(h, b, s, call, a, m)
    BY <2>5 DEF IsPass, first, next
  <2> QED BY <2>6
<1> QED BY <1>3, <1>4

\* What a call and those it makes have done: told are the servers whose
\* trackers were called, and the others are as they were.
Spreads(b, c, s, call, a, told) ==
  /\ c \in States /\ Balanced(c) /\ told \in SUBSET Servers
  /\ \A t \in Servers : StoppedInMaint(c.sv[t])
  /\ \A t \in Servers : t \in told => Rank(s) <= Rank(t)
  /\ \A t \in Servers : Called(told, s, t) =>
       /\ HereRel(call, b.sv[t], c.sv[t], ArgOf(s, a, t), ParentState(c.sv, t))
       /\ t \in told <=> Tells(call, b.sv[t], ArgOf(s, a, t))
  /\ \A t \in Servers : ~Called(told, s, t) => c.sv[t] = b.sv[t] /\ t \notin told

LEMMA SpreadIs ==
  ASSUME NEW b \in States, Balanced(b), \A t \in Servers : StoppedInMaint(b.sv[t]),
         NEW s \in Servers, NEW call \in Calls, NEW a \in Args(call)
  PROVE  \E told : Spreads(b, Spread(b, s, call, a), s, call, a, told)
<1> DEFINE n == Len(TopDown)
           H == CHOOSE h : h = [k \in 0..n |-> IF k = 0 THEN [b |-> b, told |-> {}]
                                               ELSE Visit(h[k - 1], TopDown[k], s, call, a)]
<1>1. n \in Nat /\ \A t \in Servers : Rank(t) \in 1..n
  BY Above, Ranks
<1>2. Spread(b, s, call, a) = H[n].b
  BY DEF Spread
<1> HIDE DEF n
<1>3. H = [k \in 0..n |-> IF k = 0 THEN [b |-> b, told |-> {}]
                          ELSE Visit(H[k - 1], TopDown[k], s, call, a)]
  <2>1. \E h : h = [k \in 0..n |-> IF k = 0 THEN [b |-> b, told |-> {}]
                                   ELSE Visit(h[k - 1], TopDown[k], s, call, a)]
    <3>1. PICK h : IsPass(h, b, s, call, a, n)
      BY <1>1, PassExists, Zenon
    <3> QED BY <3>1, Zenon DEF IsPass
  <2> QED BY <2>1, Zenon
<1> HIDE DEF H
<1>4. \A k \in 0..n : H[k] = IF k = 0 THEN [b |-> b, told |-> {}]
                             ELSE Visit(H[k - 1], TopDown[k], s, call, a)
  BY <1>3
<1> DEFINE D == {m \in 0..n : ~Visited(b, s, call, a, m, H[m])}
<1>5. D = {}
  <2> SUFFICES ASSUME D # {} PROVE FALSE
    OBVIOUS
  <2>0. D \in SUBSET Nat
    BY <1>1
  <2>1. PICK m \in D : \A y \in D : <<y, m>> \notin OpToRel(<, Nat)
    BY <2>0, NatLessThanWellFounded, WFMin
  <2>2. \A y \in D : ~(y < m)
    BY <2>0, <2>1 DEF OpToRel
  <2>3. m \in 0..n /\ ~Visited(b, s, call, a, m, H[m])
    BY <2>1
  <2>4. CASE m = 0
    <3>1. H[m] = [b |-> b, told |-> {}]
      BY <1>4, <2>3, <2>4
    <3>2. H[m].b = b /\ H[m].told = {}
      BY <3>1
    <3>3. \A t \in Servers : ~(Rank(t) <= m)
      BY <1>1, <2>4
    <3>4. Visited(b, s, call, a, m, H[m])
      BY <3>2, <3>3 DEF Visited
    <3> QED BY <2>3, <3>4
  <2>5. CASE m > 0
    <3>1. m - 1 \in 0..n /\ m - 1 < m /\ m \in 1..n
      BY <1>1, <2>3, <2>5
    <3>2. Visited(b, s, call, a, m - 1, H[m - 1])
      BY <2>2, <3>1
    <3>3. H[m] = Visit(H[m - 1], TopDown[m], s, call, a)
      BY <1>4, <2>3, <2>5
    <3>4. Visited(b, s, call, a, m, Visit(H[m - 1], TopDown[m], s, call, a))
      BY <3>1, <3>2, VisitKeeps DEF n
    <3> QED BY <2>3, <3>3, <3>4
  <2> QED BY <1>1, <2>3, <2>4, <2>5
<1> DEFINE c == H[n].b
           told == H[n].told
<1>6. Visited(b, s, call, a, n, H[n])
  BY <1>1, <1>5
<1>7. \A t \in Servers : Rank(t) <= n
  BY <1>1
<1>8. \A t \in told : t \in Servers
  BY <1>6 DEF Visited
<1>9. Spreads(b, c, s, call, a, told)
  BY <1>6, <1>7, <1>8 DEF Visited, Spreads
<1> QED BY <1>2, <1>9

-----------------------------------------------------------------------------
(* What a call keeps between a server and the one it tracks.               *)

SameDown(r, q) == \A st \in {"STOPPED", "STOPPING"} : q.state = st <=> r.state = st

\* q tracks p.
AdminPair(p, q) ==
  /\ "IMAINT" \in q.admin <=> p.admin \cap MAINT # {}
  /\ "IDRAIN" \in q.admin <=> p.admin \cap DRAIN # {}
FollowPair(p, q) == q.admin \cap MAINT = {} => SameDown(p, q)

\* What is left of it where the configuration was not handed down.
LoosePair(p, q) ==
  /\ "IMAINT" \in q.admin => p.admin \cap MAINT # {}
  /\ "IDRAIN" \in q.admin <=> p.admin \cap DRAIN # {}

AdminEdge(f, t) ==
  Track[t] # None => /\ LoosePair(f[Track[t]], f[t])
                     /\ HandedDown(t) => AdminPair(f[Track[t]], f[t])
FollowEdge(f, t) ==
  t \notin Agents /\ Track[t] # None /\ HandedDown(t) => FollowPair(f[Track[t]], f[t])

Belongs(t, r) ==
  /\ r.en \/ r.res # "idle" => t \in Checked
  /\ r.aen \/ r.ares # "idle" => t \in Agents

Good(b) ==
  /\ b \in States /\ Balanced(b)
  /\ \A t \in Servers : /\ StoppedInMaint(b.sv[t]) /\ Belongs(t, b.sv[t])
                        /\ AdminEdge(b.sv, t) /\ FollowEdge(b.sv, t)

\* The calls the code makes: to a server that tracks none or whose agent says
\* so, or on a flag that was forced.
Root(s, call, a) ==
  /\ call \in Calls /\ a \in Args(call)
  /\ call = "state" => Track[s] = None \/ s \in Agents
  /\ call # "state" => a \in {"FMAINT", "FDRAIN"}

\* What a call that stops at a server leaves of it.
SameKinds(r, q) ==
  /\ q.admin \cap MAINT = {} <=> r.admin \cap MAINT = {}
  /\ q.admin \cap DRAIN = {} <=> r.admin \cap DRAIN = {}

LEMMA UntoldKeeps ==
  ASSUME NEW call \in Calls, NEW x \in Args(call), NEW r, NEW q, NEW ps,
         HereRel(call, r, q, x, ps), ~Tells(call, r, x)
  PROVE  SameKinds(r, q) /\ SameDown(r, q)
<1>1. CASE call = "state"
  BY <1>1 DEF HereRel, Tells, StateRel, SameKinds, SameDown
<1>2. CASE call = "set"
  <2>1. /\ q.admin = r.admin \cup {x} /\ Kind(x) \cap r.admin # {} /\ q.state = r.state
        /\ x \in MAINT \cup DRAIN
    BY <1>2 DEF HereRel, Tells, SetRel, Args
  <2>2. SameKinds(r, q)
    BY <2>1 DEF SameKinds, Kind, MAINT, DRAIN
  <2> QED BY <2>1, <2>2 DEF SameDown
<1>3. CASE call = "clear"
  <2>1. /\ q.admin = r.admin \ {x} /\ x \in MAINT \cup DRAIN
        /\ x \notin r.admin \/ Kind(x) \cap (r.admin \ {x}) # {}
    BY <1>3 DEF HereRel, Tells, ClrRel, Args
  <2>2. ~Leaves(r, x)
    BY <2>1 DEF Leaves, Kind
  <2>3. SameDown(r, q)
    BY <1>3, <2>2 DEF HereRel, ClrRel, SameDown
  <2>4. SameKinds(r, q)
    BY <2>1 DEF SameKinds, Kind, MAINT, DRAIN
  <2> QED BY <2>3, <2>4
<1> QED BY <1>1, <1>2, <1>3 DEF Calls

\* A flag of one kind leaves the other kind, and states, alone.
LEMMA SetFlags ==
  ASSUME NEW r, NEW q, NEW x \in MAINT \cup DRAIN, SetRel(r, q, x)
  PROVE  /\ x \in q.admin /\ \A y \in MAINT \cup DRAIN : y # x => (y \in q.admin <=> y \in r.admin)
         /\ x \in MAINT => q.admin \cap MAINT # {} /\ (q.admin \cap DRAIN = {} <=> r.admin \cap DRAIN = {})
         /\ x \in DRAIN => /\ q.admin \cap DRAIN # {} /\ (q.admin \cap MAINT = {} <=> r.admin \cap MAINT = {})
                           /\ SameDown(r, q)
<1>1. q.admin = r.admin \cup {x}
  BY DEF SetRel
<1>2. x \in DRAIN => x \notin MAINT
  BY DEF MAINT, DRAIN
<1>3. x \in DRAIN => SameDown(r, q)
  BY <1>2 DEF SetRel, SameDown
<1> QED BY <1>1, <1>3 DEF MAINT, DRAIN

LEMMA ClrFlags ==
  ASSUME NEW r, NEW q, NEW ps, NEW x \in MAINT \cup DRAIN, ClrRel(r, q, x, ps)
  PROVE  /\ x \notin q.admin /\ \A y \in MAINT \cup DRAIN : y # x => (y \in q.admin <=> y \in r.admin)
         /\ x \in MAINT => (q.admin \cap DRAIN = {} <=> r.admin \cap DRAIN = {})
         /\ x \in DRAIN => (q.admin \cap MAINT = {} <=> r.admin \cap MAINT = {}) /\ SameDown(r, q)
<1>1. q.admin = r.admin \ {x}
  BY DEF ClrRel
<1>2. x \in DRAIN => ~Leaves(r, x)
  BY DEF MAINT, DRAIN, Leaves
<1>3. x \in DRAIN => SameDown(r, q)
  BY <1>2 DEF ClrRel, SameDown
<1> QED BY <1>1, <1>3 DEF MAINT, DRAIN

\* A tracker and the server it tracks, after a call to s.
LEMMA EdgeCases ==
  ASSUME NEW b, NEW c, NEW s \in Servers, NEW call, NEW a, NEW told, Root(s, call, a),
         Spreads(b, c, s, call, a, told), NEW t \in Servers, Track[t] # None
  PROVE  LET p == Track[t]
         IN  /\ p \in Servers
             /\ \/ /\ p \in told /\ t # s
                   /\ \E x \in Args(call) :
                        /\ x \in MAINT <=> a \in MAINT
                        /\ call = "state" => x = a
                        /\ HereRel(call, b.sv[p], c.sv[p], x, ParentState(c.sv, p))
                        /\ Tells(call, b.sv[p], x)
                   /\ HereRel(call, b.sv[t], c.sv[t], Inherited(a), c.sv[p].state)
                \/ /\ t = s /\ c.sv[p] = b.sv[p]
                   /\ HereRel(call, b.sv[t], c.sv[t], a, c.sv[p].state)
                \/ /\ c.sv[t] = b.sv[t] /\ SameKinds(b.sv[p], c.sv[p]) /\ SameDown(b.sv[p], c.sv[p])
<1> DEFINE p == Track[t]
<1>1. p \in Servers /\ Rank(p) < Rank(t) /\ p # t
  BY Above, Ranks
<1>2. Rank(p) \in Nat /\ Rank(t) \in Nat /\ Rank(s) \in Nat
  BY <1>1, Ranks, Above
<1>3. call \in Calls /\ a \in Args(call)
  BY DEF Root
<1>4. ParentState(c.sv, t) = c.sv[p].state
  BY DEF ParentState
<1> HIDE DEF p
<1>5. \A u \in Servers : Called(told, s, u) =>
        /\ HereRel(call, b.sv[u], c.sv[u], ArgOf(s, a, u), ParentState(c.sv, u))
        /\ u \in told <=> Tells(call, b.sv[u], ArgOf(s, a, u))
  BY DEF Spreads
<1>6. \A u \in Servers : ~Called(told, s, u) => c.sv[u] = b.sv[u] /\ u \notin told
  BY DEF Spreads
<1>7. \A u \in told : u \in Servers /\ Rank(s) <= Rank(u)
  BY DEF Spreads
<1>8. \A u \in Servers : ArgOf(s, a, u) \in Args(call) /\ (call = "state" => ArgOf(s, a, u) = a)
  BY <1>3, InheritedArgs DEF ArgOf
<1>9. CASE p \in told
  <2>1. t # s
    BY <1>1, <1>2, <1>7, <1>9
  <2>2. Called(told, s, p) /\ Called(told, s, t)
    BY <1>1, <1>6, <1>9 DEF Called, p
  <2> DEFINE x == ArgOf(s, a, p)
  <2>3. HereRel(call, b.sv[p], c.sv[p], x, ParentState(c.sv, p)) /\ Tells(call, b.sv[p], x)
    BY <1>1, <1>5, <1>9, <2>2
  <2>4. x \in Args(call) /\ (call = "state" => x = a)
    BY <1>1, <1>8
  <2>5. x \in MAINT <=> a \in MAINT
    BY <1>3, InheritedArgs DEF ArgOf, Args, MAINT, DRAIN, Inherited
  <2>6. ArgOf(s, a, t) = Inherited(a)
    BY <2>1 DEF ArgOf
  <2>7. HereRel(call, b.sv[t], c.sv[t], Inherited(a), c.sv[p].state)
    BY <1>4, <1>5, <2>2, <2>6
  <2> HIDE DEF x
  <2> QED BY <1>1, <1>9, <2>1, <2>3, <2>4, <2>5, <2>7 DEF p
<1>10. CASE p \notin told /\ t = s
  <2>1. ~Called(told, s, p)
    <3>1. p # s
      BY <1>1, <1>10
    <3>2. ASSUME Track[p] \in told PROVE FALSE
      <4>1. Track[p] \in Servers /\ Rank(s) <= Rank(Track[p])
        BY <1>7, <3>2
      <4>2. Rank(Track[p]) < Rank(p) /\ Rank(Track[p]) \in Nat
        BY <1>1, <4>1, Ranks, Above
      <4> QED BY <1>1, <1>2, <1>10, <4>1, <4>2
    <3> QED BY <3>1, <3>2 DEF Called
  <2>2. c.sv[p] = b.sv[p]
    BY <1>1, <1>6, <2>1
  <2>3. HereRel(call, b.sv[t], c.sv[t], a, c.sv[p].state)
    BY <1>4, <1>5, <1>10 DEF Called, ArgOf
  <2> QED BY <1>1, <1>10, <2>2, <2>3 DEF p
<1>11. CASE p \notin told /\ t # s
  <2>1. c.sv[t] = b.sv[t]
    BY <1>6, <1>11 DEF Called, p
  <2>2. SameKinds(b.sv[p], c.sv[p]) /\ SameDown(b.sv[p], c.sv[p])
    <3>1. CASE Called(told, s, p)
      <4> DEFINE x == ArgOf(s, a, p)
      <4>1. HereRel(call, b.sv[p], c.sv[p], x, ParentState(c.sv, p)) /\ ~Tells(call, b.sv[p], x)
        BY <1>1, <1>5, <1>11, <3>1
      <4>2. x \in Args(call)
        BY <1>1, <1>8
      <4> HIDE DEF x
      <4> QED BY <1>3, <4>1, <4>2, UntoldKeeps
    <3>2. CASE ~Called(told, s, p)
      BY <1>1, <1>6, <3>2 DEF SameKinds, SameDown
    <3> QED BY <3>1, <3>2
  <2> QED BY <1>1, <2>1, <2>2 DEF p
<1> QED BY <1>9, <1>10, <1>11

\* A call that went from a server to one that tracks it.
LEMMA ToldPair ==
  ASSUME NEW call \in Calls, NEW a \in Args(call), NEW x \in Args(call), NEW ps,
         x \in MAINT <=> a \in MAINT, call = "state" => x = a,
         NEW p0, NEW p1, HereRel(call, p0, p1, x, ps), Tells(call, p0, x),
         NEW q0, NEW q1, HereRel(call, q0, q1, Inherited(a), p1.state), AdminPair(p0, q0)
  PROVE  AdminPair(p1, q1) /\ (~q0.aen /\ FollowPair(p0, q0) => FollowPair(p1, q1))
<1>1. CASE call = "state"
  <2>1. StateRel(p0, p1, a) /\ ~InMaint(p0) /\ p0.state \notin There(a) /\ StateRel(q0, q1, a)
    BY <1>1, InheritedArgs DEF HereRel, Tells
  <2>2. p1.admin = p0.admin /\ q1.admin = q0.admin /\ p1.state \in There(a)
    BY <2>1 DEF StateRel, KeptMore
  <2>3. q1.admin \cap MAINT = {} => q1.state \in There(a)
    BY <2>1, <2>2 DEF StateRel, InMaint
  <2>4. q1.state \in There(a) => SameDown(p1, q1)
    BY <1>1, <2>2 DEF There, SameDown, Args
  <2> QED BY <2>2, <2>3, <2>4 DEF AdminPair, FollowPair
<1>2. CASE call # "state"
  <2> DEFINE y == Inherited(a)
  <2>1. a \in MAINT \cup DRAIN /\ x \in MAINT \cup DRAIN /\ MAINT \cap DRAIN = {}
    BY <1>2 DEF Args, MAINT, DRAIN
  <2>2. (x \in MAINT => y = "IMAINT") /\ (x \in DRAIN => y = "IDRAIN")
    BY <1>2, <2>1, InheritedArgs
  <2>3. /\ "IMAINT" \in MAINT /\ "IDRAIN" \in DRAIN /\ "IMAINT" # "IDRAIN" /\ y \in MAINT \cup DRAIN
        /\ x \in MAINT => Kind(x) = MAINT
        /\ x \in DRAIN => Kind(x) = DRAIN
    BY <2>1, <2>2 DEF MAINT, DRAIN, Kind
  <2> HIDE DEF y
  <2>4. CASE call = "set"
    <3>1. SetRel(p0, p1, x) /\ SetRel(q0, q1, y)
      BY <2>4 DEF HereRel, y
    <3>2. /\ x \in p1.admin
          /\ x \in MAINT => p1.admin \cap MAINT # {} /\ (p1.admin \cap DRAIN = {} <=> p0.admin \cap DRAIN = {})
          /\ x \in DRAIN => /\ p1.admin \cap DRAIN # {} /\ (p1.admin \cap MAINT = {} <=> p0.admin \cap MAINT = {})
                            /\ SameDown(p0, p1)
      BY <2>1, <3>1, SetFlags
    <3>3. /\ y \in q1.admin /\ \A z \in MAINT \cup DRAIN : z # y => (z \in q1.admin <=> z \in q0.admin)
          /\ y \in DRAIN => (q1.admin \cap MAINT = {} <=> q0.admin \cap MAINT = {}) /\ SameDown(q0, q1)
      BY <2>3, <3>1, SetFlags
    <3>4. AdminPair(p1, q1)
      BY <2>1, <2>2, <2>3, <3>2, <3>3 DEF AdminPair
    <3>5. CASE x \in MAINT
      BY <2>2, <2>3, <3>3, <3>4, <3>5 DEF FollowPair
    <3>6. CASE x \in DRAIN
      BY <2>2, <2>3, <3>2, <3>3, <3>4, <3>6 DEF FollowPair, SameDown
    <3> QED BY <2>1, <3>5, <3>6
  <2>5. CASE call = "clear"
    <3>1. ClrRel(p0, p1, x, ps) /\ ClrRel(q0, q1, y, p1.state)
      BY <2>5 DEF HereRel, y
    <3>2. x \in p0.admin /\ Kind(x) \cap p1.admin = {}
      BY <2>5, <3>1 DEF Tells, ClrRel
    <3>3. /\ x \in MAINT => (p1.admin \cap DRAIN = {} <=> p0.admin \cap DRAIN = {})
          /\ x \in DRAIN => (p1.admin \cap MAINT = {} <=> p0.admin \cap MAINT = {}) /\ SameDown(p0, p1)
      BY <2>1, <3>1, ClrFlags
    <3>4. /\ y \notin q1.admin /\ \A z \in MAINT \cup DRAIN : z # y => (z \in q1.admin <=> z \in q0.admin)
          /\ y \in DRAIN => (q1.admin \cap MAINT = {} <=> q0.admin \cap MAINT = {}) /\ SameDown(q0, q1)
      BY <2>3, <3>1, ClrFlags
    <3>5. AdminPair(p1, q1)
      BY <2>1, <2>2, <2>3, <3>2, <3>3, <3>4 DEF AdminPair
    <3>6. CASE x \in MAINT
      <4> SUFFICES ASSUME ~q0.aen, q1.admin \cap MAINT = {} PROVE SameDown(p1, q1)
        BY <3>5 DEF FollowPair
      <4>1. y \in q0.admin /\ y \in MAINT
        BY <2>2, <2>3, <3>2, <3>6 DEF AdminPair
      <4>2. Leaves(q0, y)
        BY <3>1, <4>1 DEF Leaves, ClrRel
      <4>3. Left(q0, q1, p1.state)
        BY <3>1, <4>2 DEF ClrRel
      <4> QED BY <4>3 DEF Left, SameDown
    <3>7. CASE x \in DRAIN
      BY <2>2, <2>3, <3>3, <3>4, <3>5, <3>7 DEF FollowPair, SameDown
    <3> QED BY <2>1, <3>6, <3>7
  <2> QED BY <1>2, <2>4, <2>5 DEF Calls
<1> QED BY <1>1, <1>2

\* A call that was made to a server that tracks one.
LEMMA RootPair ==
  ASSUME NEW call \in Calls, NEW a \in Args(call), call # "state" => a \in {"FMAINT", "FDRAIN"},
         NEW p, NEW q0, NEW q1, HereRel(call, q0, q1, a, p.state), AdminPair(p, q0)
  PROVE  AdminPair(p, q1) /\ (call # "state" /\ ~q0.aen /\ FollowPair(p, q0) => FollowPair(p, q1))
<1>1. CASE call = "state"
  <2>1. q1.admin = q0.admin
    BY <1>1 DEF HereRel, StateRel, KeptMore
  <2> QED BY <1>1, <2>1 DEF AdminPair
<1>2. CASE call = "set"
  <2>1. SetRel(q0, q1, a) /\ a \in {"FMAINT", "FDRAIN"}
    BY <1>2 DEF HereRel
  <2>2. a \in MAINT \cup DRAIN /\ (a \notin MAINT => a \in DRAIN)
    BY <2>1 DEF MAINT, DRAIN
  <2>3. /\ a \in q1.admin /\ \A y \in MAINT \cup DRAIN : y # a => (y \in q1.admin <=> y \in q0.admin)
        /\ a \in DRAIN => (q1.admin \cap MAINT = {} <=> q0.admin \cap MAINT = {}) /\ SameDown(q0, q1)
    BY <2>1, <2>2, SetFlags
  <2>4. AdminPair(p, q1)
    BY <2>1, <2>3 DEF AdminPair, MAINT, DRAIN
  <2>5. FollowPair(p, q0) => FollowPair(p, q1)
    <3>1. CASE a \in MAINT
      BY <2>3, <3>1 DEF FollowPair
    <3>2. CASE a \in DRAIN
      BY <2>3, <3>2 DEF FollowPair, SameDown
    <3> QED BY <2>2, <3>1, <3>2
  <2> QED BY <2>4, <2>5
<1>3. CASE call = "clear"
  <2>1. ClrRel(q0, q1, a, p.state) /\ a \in {"FMAINT", "FDRAIN"}
    BY <1>3 DEF HereRel
  <2>2. a \in MAINT \cup DRAIN
    BY <2>1 DEF MAINT, DRAIN
  <2>3. \A y \in MAINT \cup DRAIN : y # a => (y \in q1.admin <=> y \in q0.admin)
    BY <2>1, <2>2, ClrFlags
  <2>4. AdminPair(p, q1)
    BY <2>1, <2>3 DEF AdminPair, MAINT, DRAIN
  <2>5. ASSUME ~q0.aen, FollowPair(p, q0), q1.admin \cap MAINT = {} PROVE SameDown(p, q1)
    <3>1. CASE Leaves(q0, a)
      <4>1. Left(q0, q1, p.state)
        BY <2>1, <3>1 DEF ClrRel
      <4> QED BY <2>5, <4>1 DEF Left, SameDown
    <3>2. CASE ~Leaves(q0, a)
      <4>1. q1.state = q0.state \/ (q0.state = "STARTING" /\ q1.state = "RUNNING")
        BY <2>1, <3>2 DEF ClrRel
      <4>2. q0.admin \cap MAINT = {}
        BY <2>1, <2>5, <3>2 DEF Leaves, ClrRel, MAINT
      <4>3. SameDown(p, q0)
        BY <2>5, <4>2 DEF FollowPair
      <4> QED BY <4>1, <4>3 DEF SameDown
    <3> QED BY <3>1, <3>2
  <2> QED BY <2>4, <2>5 DEF FollowPair
<1> QED BY <1>1, <1>2, <1>3 DEF Calls

\* The same for a pair of which only the loose half is known.
LEMMA LooseTold ==
  ASSUME NEW call \in Calls, NEW a \in Args(call), NEW x \in Args(call), NEW ps, NEW ps1,
         x \in MAINT <=> a \in MAINT, call = "state" => x = a,
         NEW p0, NEW p1, HereRel(call, p0, p1, x, ps), Tells(call, p0, x),
         NEW q0, NEW q1, HereRel(call, q0, q1, Inherited(a), ps1), LoosePair(p0, q0)
  PROVE  LoosePair(p1, q1)
<1>1. CASE call = "state"
  <2>1. StateRel(p0, p1, a) /\ StateRel(q0, q1, a)
    BY <1>1, InheritedArgs DEF HereRel
  <2>2. p1.admin = p0.admin /\ q1.admin = q0.admin
    BY <2>1 DEF StateRel, KeptMore
  <2> QED BY <2>2 DEF LoosePair
<1>2. CASE call # "state"
  <2> DEFINE y == Inherited(a)
  <2>1. a \in MAINT \cup DRAIN /\ x \in MAINT \cup DRAIN /\ MAINT \cap DRAIN = {}
    BY <1>2 DEF Args, MAINT, DRAIN
  <2>2. (x \in MAINT => y = "IMAINT") /\ (x \in DRAIN => y = "IDRAIN")
    BY <1>2, <2>1, InheritedArgs
  <2>3. /\ "IMAINT" \in MAINT /\ "IDRAIN" \in DRAIN /\ "IMAINT" # "IDRAIN" /\ y \in MAINT \cup DRAIN
        /\ x \in MAINT => Kind(x) = MAINT
        /\ x \in DRAIN => Kind(x) = DRAIN
    BY <2>1, <2>2 DEF MAINT, DRAIN, Kind
  <2> HIDE DEF y
  <2>4. CASE call = "set"
    <3>1. SetRel(p0, p1, x) /\ SetRel(q0, q1, y)
      BY <2>4 DEF HereRel, y
    <3>2. /\ x \in MAINT => p1.admin \cap MAINT # {} /\ (p1.admin \cap DRAIN = {} <=> p0.admin \cap DRAIN = {})
          /\ x \in DRAIN => p1.admin \cap DRAIN # {} /\ (p1.admin \cap MAINT = {} <=> p0.admin \cap MAINT = {})
      BY <2>1, <3>1, SetFlags
    <3>3. y \in q1.admin /\ \A z \in MAINT \cup DRAIN : z # y => (z \in q1.admin <=> z \in q0.admin)
      BY <2>3, <3>1, SetFlags
    <3> QED BY <2>1, <2>2, <2>3, <3>2, <3>3 DEF LoosePair
  <2>5. CASE call = "clear"
    <3>1. ClrRel(p0, p1, x, ps) /\ ClrRel(q0, q1, y, ps1)
      BY <2>5 DEF HereRel, y
    <3>2. Kind(x) \cap p1.admin = {}
      BY <2>5, <3>1 DEF Tells, ClrRel
    <3>3. /\ x \in MAINT => (p1.admin \cap DRAIN = {} <=> p0.admin \cap DRAIN = {})
          /\ x \in DRAIN => (p1.admin \cap MAINT = {} <=> p0.admin \cap MAINT = {})
      BY <2>1, <3>1, ClrFlags
    <3>4. y \notin q1.admin /\ \A z \in MAINT \cup DRAIN : z # y => (z \in q1.admin <=> z \in q0.admin)
      BY <2>3, <3>1, ClrFlags
    <3> QED BY <2>1, <2>2, <2>3, <3>2, <3>3, <3>4 DEF LoosePair
  <2> QED BY <1>2, <2>4, <2>5 DEF Calls
<1> QED BY <1>1, <1>2

LEMMA LooseRoot ==
  ASSUME NEW call \in Calls, NEW a \in Args(call), call # "state" => a \in {"FMAINT", "FDRAIN"},
         NEW p, NEW q0, NEW q1, NEW ps, HereRel(call, q0, q1, a, ps), LoosePair(p, q0)
  PROVE  LoosePair(p, q1)
<1>1. CASE call = "state"
  <2>1. q1.admin = q0.admin
    BY <1>1 DEF HereRel, StateRel, KeptMore
  <2> QED BY <2>1 DEF LoosePair
<1>2. CASE call # "state"
  <2>1. a \in MAINT \cup DRAIN /\ a # "IMAINT" /\ a # "IDRAIN"
    BY <1>2 DEF MAINT, DRAIN
  <2>2. SetRel(q0, q1, a) \/ ClrRel(q0, q1, a, ps)
    BY <1>2 DEF HereRel, Calls
  <2>3. \A y \in MAINT \cup DRAIN : y # a => (y \in q1.admin <=> y \in q0.admin)
    BY <2>1, <2>2, SetFlags, ClrFlags
  <2> QED BY <2>1, <2>3 DEF LoosePair, MAINT, DRAIN
<1> QED BY <1>1, <1>2

LEMMA RelKept ==
  ASSUME NEW call \in Calls, NEW r, NEW q, NEW a, NEW ps, HereRel(call, r, q, a, ps)
  PROVE  Kept(r, q)
BY DEF HereRel, StateRel, SetRel, ClrRel, KeptMore, Kept, Calls

\* A call keeps what the servers promise.
LEMMA SpreadGood ==
  ASSUME NEW b, Good(b), NEW s \in Servers, NEW call, NEW a, Root(s, call, a)
  PROVE  Good(Spread(b, s, call, a))
<1> DEFINE c == Spread(b, s, call, a)
<1>1. call \in Calls /\ a \in Args(call)
  BY DEF Root
<1>2. b \in States /\ Balanced(b) /\ \A t \in Servers : StoppedInMaint(b.sv[t])
  BY DEF Good
<1>3. PICK told : Spreads(b, c, s, call, a, told)
  BY <1>1, <1>2, SpreadIs
<1> HIDE DEF c
<1>4. c \in States /\ Balanced(c) /\ \A t \in Servers : StoppedInMaint(c.sv[t])
  BY <1>3 DEF Spreads
<1>5. ASSUME NEW t \in Servers PROVE Belongs(t, c.sv[t])
  <2>1. Belongs(t, b.sv[t])
    BY DEF Good
  <2>2. Kept(b.sv[t], c.sv[t])
    <3>1. CASE Called(told, s, t)
      <4>1. HereRel(call, b.sv[t], c.sv[t], ArgOf(s, a, t), ParentState(c.sv, t))
        BY <1>3, <3>1 DEF Spreads
      <4> QED BY <1>1, <4>1, RelKept
    <3>2. CASE ~Called(told, s, t)
      BY <1>3, <3>2 DEF Spreads, Kept
    <3> QED BY <3>1, <3>2
  <2> QED BY <2>1, <2>2 DEF Belongs, Kept
<1>6. ASSUME NEW t \in Servers PROVE AdminEdge(c.sv, t) /\ FollowEdge(c.sv, t)
  <2> DEFINE p == Track[t]
             p0 == b.sv[p]
             p1 == c.sv[p]
             q0 == b.sv[t]
             q1 == c.sv[t]
  <2> SUFFICES ASSUME p # None
               PROVE  /\ LoosePair(p1, q1)
                      /\ HandedDown(t) => AdminPair(p1, q1) /\ (t \notin Agents => FollowPair(p1, q1))
    BY DEF AdminEdge, FollowEdge
  <2>1. /\ LoosePair(p0, q0)
        /\ HandedDown(t) => AdminPair(p0, q0) /\ (t \notin Agents => FollowPair(p0, q0))
        /\ t \notin Agents => ~q0.aen
    BY DEF Good, AdminEdge, FollowEdge, Belongs
  <2>2. \/ /\ p \in told /\ t # s
           /\ \E x \in Args(call) :
                /\ x \in MAINT <=> a \in MAINT
                /\ call = "state" => x = a
                /\ HereRel(call, p0, p1, x, ParentState(c.sv, p))
                /\ Tells(call, p0, x)
           /\ HereRel(call, q0, q1, Inherited(a), p1.state)
        \/ /\ t = s /\ p1 = p0
           /\ HereRel(call, q0, q1, a, p1.state)
        \/ /\ q1 = q0 /\ SameKinds(p0, p1) /\ SameDown(p0, p1)
    BY <1>3, EdgeCases
  <2> DEFINE pp == ParentState(c.sv, p)
  <2>3. ASSUME NEW x \in Args(call), x \in MAINT <=> a \in MAINT, call = "state" => x = a,
               HereRel(call, p0, p1, x, pp), Tells(call, p0, x),
               HereRel(call, q0, q1, Inherited(a), p1.state)
        PROVE  /\ LoosePair(p1, q1)
               /\ HandedDown(t) => AdminPair(p1, q1) /\ (t \notin Agents => FollowPair(p1, q1))
    <3> HIDE DEF p0, p1, q0, q1, p, pp
    <3>1. AdminPair(p0, q0) => AdminPair(p1, q1) /\ (~q0.aen /\ FollowPair(p0, q0) => FollowPair(p1, q1))
      BY <1>1, <2>3, ToldPair
    <3>2. LoosePair(p1, q1)
      BY <1>1, <2>1, <2>3, LooseTold
    <3> QED BY <2>1, <3>1, <3>2
  <2>4. ASSUME t = s, p1 = p0, HereRel(call, q0, q1, a, p1.state)
        PROVE  /\ LoosePair(p1, q1)
               /\ HandedDown(t) => AdminPair(p1, q1) /\ (t \notin Agents => FollowPair(p1, q1))
    <3>1. call = "state" => t \in Agents
      BY <2>4 DEF Root
    <3>2. call # "state" => a \in {"FMAINT", "FDRAIN"}
      BY DEF Root
    <3> HIDE DEF p0, p1, q0, q1, p
    <3>3. AdminPair(p1, q0) =>
            AdminPair(p1, q1) /\ (call # "state" /\ ~q0.aen /\ FollowPair(p1, q0) => FollowPair(p1, q1))
      BY <1>1, <2>4, <3>2, RootPair
    <3>4. LoosePair(p1, q1)
      <4>1. LoosePair(p1, q0)
        BY <2>1, <2>4
      <4> QED BY <1>1, <2>4, <3>2, <4>1, LooseRoot
    <3> QED BY <2>1, <2>4, <3>1, <3>3, <3>4
  <2>5. ASSUME q1 = q0, SameKinds(p0, p1), SameDown(p0, p1)
        PROVE  /\ LoosePair(p1, q1)
               /\ HandedDown(t) => AdminPair(p1, q1) /\ (t \notin Agents => FollowPair(p1, q1))
    <3> HIDE DEF p0, p1, q0, q1, p
    <3>1. (AdminPair(p0, q0) => AdminPair(p1, q1)) /\ LoosePair(p1, q1)
      BY <2>1, <2>5 DEF AdminPair, LoosePair, SameKinds
    <3>2. FollowPair(p0, q0) => FollowPair(p1, q1)
      BY <2>5 DEF FollowPair, SameDown
    <3> QED BY <2>1, <3>1, <3>2
  <2> QED BY <2>2, <2>3, <2>4, <2>5
<1>7. Good(c)
  BY <1>4, <1>5, <1>6 DEF Good
<1> QED BY <1>7 DEF c

\* A change of one server that its tracker and the one it tracks do not see.
LEMMA OneGood ==
  ASSUME NEW b, Good(b), NEW s \in Servers, NEW c, Moved(b, c, s),
         c.sv[s].admin = b.sv[s].admin, SameDown(b.sv[s], c.sv[s]), Belongs(s, c.sv[s])
  PROVE  Good(c)
<1>1. c \in States /\ Balanced(c) /\ \A t \in Servers : t # s => c.sv[t] = b.sv[t]
  BY DEF Moved
<1>2. \A t \in Servers : c.sv[t].admin = b.sv[t].admin /\ SameDown(b.sv[t], c.sv[t])
  BY <1>1 DEF SameDown
<1>3. ASSUME NEW t \in Servers PROVE StoppedInMaint(c.sv[t]) /\ Belongs(t, c.sv[t])
  <2>1. StoppedInMaint(b.sv[t]) /\ Belongs(t, b.sv[t])
    BY DEF Good
  <2>2. Belongs(t, c.sv[t])
    BY <1>1, <2>1
  <2> QED BY <1>2, <2>1, <2>2 DEF StoppedInMaint, InMaint, SameDown
<1>4. ASSUME NEW t \in Servers PROVE AdminEdge(c.sv, t) /\ FollowEdge(c.sv, t)
  <2>1. AdminEdge(b.sv, t) /\ FollowEdge(b.sv, t) /\ Track[t] \in Servers \cup {None}
    BY Above DEF Good
  <2>2. AdminEdge(c.sv, t)
    BY <1>2, <2>1 DEF AdminEdge, AdminPair, LoosePair
  <2>3. ASSUME Track[t] # None, FollowPair(b.sv[Track[t]], b.sv[t])
        PROVE  FollowPair(c.sv[Track[t]], c.sv[t])
    <3>1. /\ c.sv[t].admin = b.sv[t].admin /\ SameDown(b.sv[t], c.sv[t])
          /\ SameDown(b.sv[Track[t]], c.sv[Track[t]])
      BY <1>2, <2>1, <2>3
    <3> QED BY <2>3, <3>1 DEF FollowPair, SameDown
  <2> QED BY <2>1, <2>2, <2>3 DEF FollowEdge
<1> QED BY <1>1, <1>3, <1>4 DEF Good

\* Two records alike in all that other servers and the balancer see.
Beside(r, q) ==
  q.state = r.state /\ q.admin = r.admin /\ q.ew = r.ew /\ q.prev = r.prev /\ q.tree = r.tree

LEMMA PutGood ==
  ASSUME NEW b, Good(b), NEW s \in Servers, NEW r \in ServerRecords, Beside(b.sv[s], r), Belongs(s, r)
  PROVE  Good(Put(b, s, r)) /\ Put(b, s, r).sv[s] = r /\ \A t \in Servers : t # s => Put(b, s, r).sv[t] = b.sv[t]
<1>1. Near(b, s) /\ b.sv[s] \in ServerRecords /\ b.sv[s].prev = Load(b.sv[s]) /\ b \in States
  BY BalancedNear DEF Good
<1>2. Load(r) = Load(b.sv[s])
  BY DEF Beside, Load, SrvIsUsable
<1>3. Load(r) = r.prev /\ SameInTree(b.sv[s], r)
  BY <1>1, <1>2 DEF Beside, SameInTree
<1>4. Moved(b, Put(b, s, r), s) /\ Put(b, s, r).sv[s] = r
  BY <1>1, <1>3, PutMoves
<1>5. r.admin = b.sv[s].admin /\ SameDown(b.sv[s], r)
  BY DEF Beside, SameDown
<1>6. Good(Put(b, s, r))
  BY <1>4, <1>5, OneGood
<1> QED BY <1>4, <1>6 DEF Moved

\* set_server_weight and the steps of the warmup task.
LEMMA RecalcGood ==
  ASSUME NEW b, Good(b), NEW s \in Servers
  PROVE  LET c == RecalcEweight(b, s)
         IN  /\ Good(c) /\ KeptMore(b.sv[s], c.sv[s]) /\ SameDown(b.sv[s], c.sv[s])
             /\ \A t \in Servers : t # s => c.sv[t] = b.sv[t]
<1> DEFINE c == RecalcEweight(b, s)
<1>1. Near(b, s) /\ Belongs(s, b.sv[s])
  BY BalancedNear DEF Good
<1>2. /\ Moved(b, c, s) /\ KeptMore(b.sv[s], c.sv[s])
      /\ \/ c.sv[s].state = b.sv[s].state
         \/ b.sv[s].state = "STARTING" /\ c.sv[s].state = "RUNNING"
  BY <1>1, RecalcMoves
<1> HIDE DEF c
<1>3. SameDown(b.sv[s], c.sv[s])
  BY <1>2 DEF SameDown
<1>4. Belongs(s, c.sv[s]) /\ c.sv[s].admin = b.sv[s].admin
  BY <1>1, <1>2 DEF Belongs, KeptMore, Kept
<1>5. Good(c)
  BY <1>2, <1>3, <1>4, OneGood
<1> QED BY <1>2, <1>3, <1>5 DEF Moved, c

-----------------------------------------------------------------------------
(* What a server that is down has to show for it.                          *)

\* Traffic errors do not fail a check whose success is not concluded yet.
Steady == ErrLimit = 0 \/ OnError \in {"fastinter", "mark-down"} \/ Fall = 1

\* A check that left the server down.
Reason(t, r) == r.health < Rise \/ (t \in Agents /\ r.agent = 0)

\* A server that is down has one, or a success that is not concluded yet.
Told(t, r) ==
  r.state = "STOPPED" /\ ~InMaint(r) => Reason(t, r) \/ r.res \in {"passed", "cond"} \/ r.ares = "up"

ToldBut(b, s) == Steady => \A t \in Checked : t # s => Told(t, b.sv[t])
Fine(b) == Good(b) /\ (Steady => \A t \in Checked : Told(t, b.sv[t]))

\* A call goes down from s, and a server with checks tracks none.
LEMMA SpreadAt ==
  ASSUME NEW b, Good(b), NEW s \in Servers, NEW call, NEW a, Root(s, call, a)
  PROVE  LET c == Spread(b, s, call, a)
         IN  /\ HereRel(call, b.sv[s], c.sv[s], a, ParentState(c.sv, s))
             /\ \A t \in Checked : t # s => c.sv[t] = b.sv[t]
<1> DEFINE c == Spread(b, s, call, a)
<1>1. call \in Calls /\ a \in Args(call)
  BY DEF Root
<1>2. b \in States /\ Balanced(b) /\ \A t \in Servers : StoppedInMaint(b.sv[t])
  BY DEF Good
<1>3. PICK told : Spreads(b, c, s, call, a, told)
  BY <1>1, <1>2, SpreadIs
<1> HIDE DEF c
<1>4. HereRel(call, b.sv[s], c.sv[s], a, ParentState(c.sv, s))
  BY <1>3 DEF Spreads, Called, ArgOf
<1>5. ASSUME NEW t \in Checked, t # s PROVE c.sv[t] = b.sv[t]
  <2>1. t \in Servers /\ Track[t] = None /\ None \notin told
    BY <1>3, HealthAssumption, Above DEF Spreads
  <2>2. ~Called(told, s, t)
    BY <1>5, <2>1 DEF Called
  <2> QED BY <1>3, <2>1, <2>2 DEF Spreads
<1> QED BY <1>4, <1>5 DEF c

LEMMA PutFine ==
  ASSUME NEW b, Fine(b), NEW s \in Servers, NEW r \in ServerRecords, Beside(b.sv[s], r), Belongs(s, r)
  PROVE  /\ Good(Put(b, s, r)) /\ Put(b, s, r).sv[s] = r /\ ToldBut(Put(b, s, r), s)
         /\ (Steady /\ s \in Checked => Told(s, r)) => Fine(Put(b, s, r))
<1>1. /\ Good(Put(b, s, r)) /\ Put(b, s, r).sv[s] = r
      /\ \A t \in Servers : t # s => Put(b, s, r).sv[t] = b.sv[t]
  BY PutGood DEF Fine
<1>2. Checked \subseteq Servers
  BY HealthAssumption
<1> QED BY <1>1, <1>2 DEF ToldBut, Fine

LEMMA RecalcFine ==
  ASSUME NEW b, Fine(b), NEW s \in Servers
  PROVE  Fine(RecalcEweight(b, s)) /\ KeptMore(b.sv[s], RecalcEweight(b, s).sv[s])
<1> DEFINE c == RecalcEweight(b, s)
<1>1. /\ Good(c) /\ KeptMore(b.sv[s], c.sv[s]) /\ SameDown(b.sv[s], c.sv[s])
      /\ \A t \in Servers : t # s => c.sv[t] = b.sv[t]
  BY RecalcGood DEF Fine
<1> HIDE DEF c
<1>2. ASSUME Steady, NEW t \in Checked PROVE Told(t, c.sv[t])
  <2>1. Told(t, b.sv[t]) /\ t \in Servers
    BY <1>2, HealthAssumption DEF Fine
  <2> QED BY <1>1, <2>1 DEF Told, Reason, KeptMore, Kept, SameDown, InMaint
<1>3. Fine(c)
  BY <1>1, <1>2 DEF Fine
<1> QED BY <1>1, <1>3 DEF c

\* srv_set_stopped() with a reason; srv_set_running() and srv_set_stopping().
LEMMA StateFine ==
  ASSUME NEW b, Good(b), NEW s \in Servers, ToldBut(b, s), Track[s] = None \/ s \in Agents,
         NEW a \in {"STOPPED", "RUNNING", "STOPPING"}, a = "STOPPED" => Reason(s, b.sv[s])
  PROVE  LET c == Spread(b, s, "state", a)
         IN  /\ Fine(c) /\ KeptMore(b.sv[s], c.sv[s])
             /\ ~InMaint(b.sv[s]) => c.sv[s].state \in There(a)
<1> DEFINE c == Spread(b, s, "state", a)
<1>1. Root(s, "state", a)
  BY DEF Root, Calls, Args
<1>2. Good(c)
  BY <1>1, SpreadGood
<1>3. /\ HereRel("state", b.sv[s], c.sv[s], a, ParentState(c.sv, s))
      /\ \A t \in Checked : t # s => c.sv[t] = b.sv[t]
  BY <1>1, SpreadAt
<1> HIDE DEF c
<1>4. StateRel(b.sv[s], c.sv[s], a)
  BY <1>3 DEF HereRel
<1>5. KeptMore(b.sv[s], c.sv[s]) /\ (~InMaint(b.sv[s]) => c.sv[s].state \in There(a))
  BY <1>4 DEF StateRel, KeptMore, Kept
<1>6. Told(s, c.sv[s])
  <2>1. InMaint(c.sv[s]) <=> InMaint(b.sv[s])
    BY <1>5 DEF KeptMore, InMaint
  <2>2. CASE a = "STOPPED"
    BY <1>5, <2>2 DEF Told, Reason, KeptMore, Kept
  <2>3. CASE a # "STOPPED"
    BY <1>5, <2>1, <2>3 DEF Told, There
  <2> QED BY <2>2, <2>3
<1>7. Fine(c)
  BY <1>2, <1>3, <1>6 DEF Fine, ToldBut
<1> QED BY <1>5, <1>7 DEF c

\* srv_set_admin_flag() and srv_clr_admin_flag().
LEMMA FlagFine ==
  ASSUME NEW b, Fine(b), NEW s \in Servers, NEW call \in {"set", "clear"},
         NEW f \in {"FMAINT", "FDRAIN"}
  PROVE  Fine(Spread(b, s, call, f)) /\ Kept(b.sv[s], Spread(b, s, call, f).sv[s])
<1> DEFINE c == Spread(b, s, call, f)
           r == b.sv[s]
           q == c.sv[s]
           ps == ParentState(c.sv, s)
<1>1. Root(s, call, f) /\ call \in Calls
  BY DEF Root, Calls, Args, MAINT, DRAIN
<1>2. Good(b) /\ Belongs(s, r)
  BY DEF Fine, Good
<1>3. Good(c)
  BY <1>1, <1>2, SpreadGood
<1>4. HereRel(call, r, q, f, ps) /\ \A t \in Checked : t # s => c.sv[t] = b.sv[t]
  BY <1>1, <1>2, SpreadAt
<1>5. s \in Checked => ps = "UNTRACKED"
  BY HealthAssumption DEF ParentState
<1> HIDE DEF c, r, q, ps
<1>6. Kept(r, q)
  BY <1>1, <1>4, RelKept
<1>7. ASSUME s \in Checked, Told(s, r) PROVE Told(s, q)
  <2>1. CASE call = "set"
    <3>1. SetRel(r, q, f)
      BY <1>4, <2>1 DEF HereRel
    <3>2. q.admin = r.admin \cup {f}
      BY <3>1 DEF SetRel
    <3>3. CASE f \in MAINT
      BY <3>2, <3>3 DEF Told, InMaint
    <3>4. CASE f \notin MAINT
      <4>1. q.state = r.state /\ q.health = r.health
        BY <3>1, <3>4 DEF SetRel
      <4>2. InMaint(r) => InMaint(q)
        BY <3>2 DEF InMaint
      <4> QED BY <1>6, <1>7, <4>1, <4>2 DEF Told, Reason, Kept
    <3> QED BY <3>3, <3>4
  <2>2. CASE call = "clear"
    <3>1. ClrRel(r, q, f, "UNTRACKED")
      BY <1>4, <1>5, <1>7, <2>2 DEF HereRel
    <3>2. CASE Leaves(r, f)
      <4>1. Left(r, q, "UNTRACKED")
        BY <3>1, <3>2 DEF ClrRel
      <4>2. q.state = "STOPPED" => r.aen /\ r.agent = 0
        BY <4>1 DEF Left
      <4> QED BY <1>2, <1>6, <4>2 DEF Told, Reason, Belongs, Kept
    <3>3. CASE ~Leaves(r, f)
      <4>1. /\ q.health = r.health /\ (q.state = "STOPPED" => r.state = "STOPPED")
            /\ q.admin = r.admin \ {f}
        BY <3>1, <3>3 DEF ClrRel
      <4>2. InMaint(r) => InMaint(q)
        BY <3>3, <4>1 DEF InMaint, Leaves
      <4> QED BY <1>6, <1>7, <4>1, <4>2 DEF Told, Reason, Kept
    <3> QED BY <3>2, <3>3
  <2> QED BY <2>1, <2>2
<1>8. ASSUME Steady, NEW t \in Checked PROVE Told(t, c.sv[t])
  <2>1. Told(t, b.sv[t])
    BY <1>8 DEF Fine
  <2>2. CASE t = s
    BY <1>7, <2>1, <2>2 DEF r, q
  <2>3. CASE t # s
    BY <1>4, <2>1, <2>3
  <2> QED BY <2>2, <2>3
<1>9. Fine(c)
  BY <1>3, <1>8 DEF Fine
<1> QED BY <1>6, <1>9 DEF c, r, q

\* srv_adm_set_maint(), srv_adm_set_drain() and srv_adm_set_ready().
LEMMA AdmSetFine ==
  ASSUME NEW b, Fine(b), NEW s \in Servers, NEW mode \in {"ready", "drain", "maint"}
  PROVE  Fine(SrvAdmSet(b, s, mode)) /\ Kept(b.sv[s], SrvAdmSet(b, s, mode).sv[s])
<1>1. ASSUME NEW c1 \in {"set", "clear"}, NEW f1 \in {"FMAINT", "FDRAIN"},
             NEW f2 \in {"FMAINT", "FDRAIN"}
      PROVE  LET c == Spread(Spread(b, s, c1, f1), s, "clear", f2)
             IN  Fine(c) /\ Kept(b.sv[s], c.sv[s])
  <2> DEFINE m == Spread(b, s, c1, f1)
             c == Spread(m, s, "clear", f2)
  <2>1. Fine(m) /\ Kept(b.sv[s], m.sv[s])
    BY FlagFine
  <2> HIDE DEF m
  <2>2. Fine(c) /\ Kept(m.sv[s], c.sv[s])
    BY <2>1, FlagFine
  <2> HIDE DEF c
  <2>3. Kept(b.sv[s], c.sv[s])
    BY <2>1, <2>2 DEF Kept
  <2> QED BY <2>2, <2>3 DEF c, m
<1>2. CASE mode = "maint"
  <2>1. SrvAdmSet(b, s, mode) = Spread(Spread(b, s, "set", "FMAINT"), s, "clear", "FDRAIN")
    BY <1>2, Zenon DEF SrvAdmSet, SrvSetAdminFlag, SrvClrAdminFlag
  <2> QED BY <1>1, <2>1
<1>3. CASE mode = "drain"
  <2>1. SrvAdmSet(b, s, mode) = Spread(Spread(b, s, "set", "FDRAIN"), s, "clear", "FMAINT")
    BY <1>3, Zenon DEF SrvAdmSet, SrvSetAdminFlag, SrvClrAdminFlag
  <2> QED BY <1>1, <2>1
<1>4. CASE mode = "ready"
  <2>1. SrvAdmSet(b, s, mode) = Spread(Spread(b, s, "clear", "FDRAIN"), s, "clear", "FMAINT")
    BY <1>4, Zenon DEF SrvAdmSet, SrvClrAdminFlag
  <2> QED BY <1>1, <2>1
<1> QED BY <1>2, <1>3, <1>4

LEMMA UweightFine ==
  ASSUME NEW b, Fine(b), NEW s \in Servers, NEW w \in Nat
  PROVE  Fine(SetUweight(b, s, w)) /\ KeptMore(b.sv[s], SetUweight(b, s, w).sv[s])
<1> DEFINE r == b.sv[s]
           q == [r EXCEPT !.uw = w]
           m == Put(b, s, q)
<1>1. r \in ServerRecords /\ Belongs(s, r) /\ (Steady /\ s \in Checked => Told(s, r))
  BY DEF Fine, Good, States
<1> HIDE DEF r
<1>2. q \in ServerRecords /\ Beside(r, q) /\ KeptMore(r, q)
  BY <1>1 DEF ServerRecords, Beside, KeptMore, Kept
<1> HIDE DEF q
<1>3. Belongs(s, q) /\ (Steady /\ s \in Checked => Told(s, q))
  BY <1>1, <1>2 DEF Belongs, Told, Reason, Beside, KeptMore, Kept, InMaint
<1>4. Fine(m) /\ m.sv[s] = q
  BY <1>2, <1>3, PutFine DEF r
<1> HIDE DEF m
<1>5. Fine(RecalcEweight(m, s)) /\ KeptMore(m.sv[s], RecalcEweight(m, s).sv[s])
  BY <1>4, RecalcFine
<1>6. KeptMore(r, RecalcEweight(m, s).sv[s])
  BY <1>2, <1>4, <1>5 DEF KeptMore, Kept
<1> QED BY <1>5, <1>6 DEF SetUweight, m, q, r

-----------------------------------------------------------------------------
(* checks.c and dumpstats.c, one action at a time.                         *)

Tops == Top \in Nat /\ Rise \in Nat /\ Rise > 0 /\ Rise <= Top /\ (Fall = 1 => Top = Rise)
LEMMA TopRise == Tops
<1>1. Rise \in Nat \ {0} /\ Fall \in Nat \ {0}
  BY HealthAssumption
<1> QED BY <1>1 DEF Top, Tops

\* A failed check lowers the counter, and never back to where it is up.
LEMMA FailedIs ==
  ASSUME NEW h \in 0..Top
  PROVE  Failed(h) \in 0..Top /\ (Failed(h) >= Rise => h >= Rise) /\ (h <= Rise => Failed(h) < Rise)
<1> DEFINE top == Top
<1>1. top \in Nat /\ Rise \in Nat /\ Rise > 0 /\ h \in 0..top
  BY TopRise DEF Tops
<1> HIDE DEF top
<1>2. Failed(h) \in 0..top
  BY <1>1 DEF Failed
<1>3. (Failed(h) >= Rise => h >= Rise) /\ (h <= Rise => Failed(h) < Rise)
  BY <1>1 DEF Failed
<1> QED BY <1>2, <1>3 DEF top

LEMMA PassedIs ==
  ASSUME NEW h \in 0..Top, NEW res
  PROVE  Passed(h, res) \in 0..Top
<1> DEFINE top == Top
<1>1. top \in Nat /\ h \in 0..top
  BY TopRise DEF Tops
<1>2. Passed(h, res) = IF h < top /\ (res = "passed" \/ h > 0)
                       THEN IF h + 1 >= Rise THEN top ELSE h + 1 ELSE h
  BY DEF Passed
<1> HIDE DEF top
<1>3. h < top => h + 1 \in 0..top /\ top \in 0..top
  BY <1>1
<1> QED BY <1>1, <1>2, <1>3 DEF top

\* What set_server_check_status() leaves alone.
Checks(r, q) == Beside(r, q) /\ q.en = r.en /\ q.agent = r.agent /\ q.aen = r.aen /\ q.ares = r.ares

LEMMA CheckStatusIs ==
  ASSUME NEW r \in ServerRecords, NEW res \in {"failed", "passed", "cond"}
  PROVE  LET q == SetServerCheckStatus(r, res)
         IN  /\ q \in ServerRecords /\ Checks(r, q)
             /\ res = "failed" => /\ q.health = Failed(r.health)
                                  /\ q.res = IF r.res = "idle" THEN r.res ELSE res
             /\ res # "failed" => q.res = res
<1> DEFINE q == SetServerCheckStatus(r, res)
<1>1. r.health \in 0..Top /\ r.res \in {"idle", "unknown", "failed", "cond", "passed"}
  BY DEF ServerRecords
<1>2. CASE res = "failed"
  <2> DEFINE h == Failed(r.health)
             x == IF r.res = "idle" THEN r.res ELSE res
  <2>1. h \in 0..Top /\ x \in {"idle", "unknown", "failed", "cond", "passed"}
    BY <1>1, <1>2, FailedIs
  <2>2. q = [r EXCEPT !.health = h, !.res = x]
    BY <1>2 DEF SetServerCheckStatus
  <2> HIDE DEF h, x, q
  <2>3. q \in ServerRecords /\ Checks(r, q) /\ q.health = h /\ q.res = x
    BY <2>1, <2>2 DEF ServerRecords, Checks, Beside
  <2> QED BY <1>2, <2>3 DEF h, x, q
<1>3. CASE res # "failed"
  <2> DEFINE h == Passed(r.health, res)
  <2>1. h \in 0..Top
    BY <1>1, PassedIs
  <2>2. q = [r EXCEPT !.health = h, !.res = res, !.errs = 0]
    BY <1>3 DEF SetServerCheckStatus
  <2> HIDE DEF h, q
  <2>3. q \in ServerRecords /\ Checks(r, q) /\ q.res = res
    BY <2>1, <2>2 DEF ServerRecords, Checks, Beside
  <2> QED BY <1>3, <2>3 DEF q
<1> QED BY <1>2, <1>3

LEMMA FailureFine ==
  ASSUME NEW b, Good(b), NEW s \in Servers, ToldBut(b, s), Track[s] = None,
         b.sv[s].health > 0 /\ Steady /\ s \in Checked => Told(s, b.sv[s])
  PROVE  Fine(CheckNotifyFailure(b, s)) /\ KeptMore(b.sv[s], CheckNotifyFailure(b, s).sv[s])
<1>1. b.sv[s].health \in 0..Top
  BY DEF Good, States, ServerRecords
<1>2. CASE b.sv[s].health > 0
  BY <1>2 DEF CheckNotifyFailure, Fine, ToldBut, KeptMore, Kept
<1>3. CASE ~(b.sv[s].health > 0)
  <2>1. Reason(s, b.sv[s])
    BY <1>1, <1>3, TopRise DEF Reason, Tops
  <2>2. CheckNotifyFailure(b, s) = Spread(b, s, "state", "STOPPED")
    BY <1>3 DEF CheckNotifyFailure, SrvSetStopped
  <2> DEFINE c == Spread(b, s, "state", "STOPPED")
  <2>3. Fine(c) /\ KeptMore(b.sv[s], c.sv[s])
    BY <2>1, StateFine
  <2> QED BY <2>2, <2>3
<1> QED BY <1>2, <1>3

\* A server that stays down although a check succeeded has a reason.
LEMMA ComplyReason ==
  ASSUME NEW b, Good(b), NEW s \in Checked, ~ChecksComply(b, s), ~InMaint(b.sv[s])
  PROVE  Reason(s, b.sv[s])
<1>1. s \in Servers /\ Track[s] = None
  BY HealthAssumption
<1>2. Belongs(s, b.sv[s]) /\ b.sv[s].health \in 0..Top /\ b.sv[s].agent \in {0, 1}
  BY <1>1 DEF Good, States, ServerRecords
<1>3. ~(b.sv[s].en => b.sv[s].health >= Rise) \/ ~(b.sv[s].aen => b.sv[s].agent > 0)
  BY <1>1 DEF ChecksComply
<1>4. CASE ~(b.sv[s].en => b.sv[s].health >= Rise)
  BY <1>2, <1>4, TopRise DEF Reason, Tops
<1>5. CASE ~(b.sv[s].aen => b.sv[s].agent > 0)
  BY <1>2, <1>5 DEF Reason, Belongs
<1> QED BY <1>3, <1>4, <1>5

Concluded(b, c, s) ==
  /\ Fine(c) /\ Kept(b.sv[s], c.sv[s])
  /\ s \in Checked /\ c.sv[s].state = "STOPPED" /\ ~InMaint(c.sv[s]) => Reason(s, c.sv[s])

LEMMA SuccessFine ==
  ASSUME NEW b, Fine(b), NEW s \in Servers, Track[s] = None \/ s \in Agents
  PROVE  /\ \A fromAgent \in BOOLEAN : Concluded(b, CheckNotifySuccess(b, s, fromAgent), s)
         /\ Concluded(b, CheckNotifyStopping(b, s), s)
<1>1. Good(b) /\ ToldBut(b, s)
  BY DEF Fine, ToldBut
<1>2. ASSUME ChecksComply(b, s), NEW a \in {"RUNNING", "STOPPING"}
      PROVE  Concluded(b, Spread(b, s, "state", a), s)
  <2> DEFINE c == Spread(b, s, "state", a)
  <2>1. Fine(c) /\ KeptMore(b.sv[s], c.sv[s]) /\ (~InMaint(b.sv[s]) => c.sv[s].state \in There(a))
    BY <1>1, StateFine
  <2>2. ~InMaint(b.sv[s])
    BY <1>2 DEF ChecksComply
  <2> HIDE DEF c
  <2>3. Concluded(b, c, s)
    BY <2>1, <2>2 DEF Concluded, There, KeptMore
  <2> QED BY <2>3 DEF c
<1>3. ASSUME ~ChecksComply(b, s) \/ b.sv[s].state = "STOPPING" PROVE Concluded(b, b, s)
  BY <1>1, <1>3, ComplyReason DEF Concluded, Kept
<1>4. ASSUME NEW fromAgent \in BOOLEAN PROVE Concluded(b, CheckNotifySuccess(b, s, fromAgent), s)
  <2>1. CASE ChecksComply(b, s) /\ ~(fromAgent /\ b.sv[s].state = "STOPPING")
    <3>1. CheckNotifySuccess(b, s, fromAgent) = Spread(b, s, "state", "RUNNING")
      BY <2>1 DEF CheckNotifySuccess, SrvSetRunning
    <3> QED BY <1>2, <2>1, <3>1
  <2>2. CASE ~(ChecksComply(b, s) /\ ~(fromAgent /\ b.sv[s].state = "STOPPING"))
    <3>1. CheckNotifySuccess(b, s, fromAgent) = b
      BY <2>2, Zenon DEF CheckNotifySuccess
    <3> QED BY <1>3, <2>2, <3>1
  <2> QED BY <2>1, <2>2
<1>5. Concluded(b, CheckNotifyStopping(b, s), s)
  <2>1. CASE ChecksComply(b, s)
    BY <1>2, <2>1 DEF CheckNotifyStopping, SrvSetStopping
  <2>2. CASE ~ChecksComply(b, s)
    BY <1>3, <2>2 DEF CheckNotifyStopping
  <2> QED BY <2>1, <2>2
<1> QED BY <1>4, <1>5

\* The servers after an action are fine.
Steps == \E c : Becomes(c) /\ Fine(c)

LEMMA NowIs ==
  ASSUME Fine(Now), NEW s \in Servers
  PROVE  /\ Now.sv[s] = sv[s] /\ sv[s] \in ServerRecords /\ Belongs(s, sv[s]) /\ Good(Now)
         /\ Steady /\ s \in Checked => Told(s, sv[s])
         /\ s \in Checked => Track[s] = None
<1>1. Now.sv = sv /\ Now \in States /\ Good(Now)
  BY DEF Now, Fine, Good
<1> QED BY <1>1, HealthAssumption DEF Fine, Good, States

LEMMA CheckStartFine ==
  ASSUME Fine(Now), NEW s \in Servers, CheckStart(s)
  PROVE  Steps
<1> DEFINE r == sv[s]
           q1 == [r EXCEPT !.res = "unknown"]
           q2 == SetServerCheckStatus(r, "failed")
<1>1. /\ Now.sv[s] = r /\ r \in ServerRecords /\ Belongs(s, r) /\ Good(Now)
      /\ Steady /\ s \in Checked => Told(s, r)
      /\ r.res = "idle" /\ r.en
  BY NowIs DEF CheckStart
<1>2. s \in Checked /\ Track[s] = None
  BY <1>1, NowIs DEF Belongs
<1>3. Becomes(Put(Now, s, q1)) \/ Becomes(CheckNotifyFailure(Put(Now, s, q2), s))
  BY DEF CheckStart
<1> HIDE DEF r
<1>4. ASSUME Becomes(Put(Now, s, q1)) PROVE Steps
  <2>1. q1 \in ServerRecords /\ Beside(r, q1) /\ Belongs(s, q1) /\ (Told(s, r) => Told(s, q1))
    BY <1>1, <1>2 DEF ServerRecords, Beside, Belongs, Told, Reason, InMaint
  <2>2. Fine(Put(Now, s, q1))
    BY <1>1, <2>1, PutFine
  <2> QED BY <1>4, <2>2 DEF Steps
<1>5. ASSUME Becomes(CheckNotifyFailure(Put(Now, s, q2), s)) PROVE Steps
  <2>1. q2 \in ServerRecords /\ Checks(r, q2) /\ q2.health = Failed(r.health) /\ q2.res = "idle"
    BY <1>1, CheckStatusIs
  <2> HIDE DEF q2
  <2>2. Belongs(s, q2) /\ Beside(r, q2)
    BY <1>1, <2>1 DEF Belongs, Checks
  <2> DEFINE m == Put(Now, s, q2)
  <2>3. Good(m) /\ m.sv[s] = q2 /\ ToldBut(m, s)
    BY <1>1, <2>1, <2>2, PutFine
  <2>4. Told(s, r) => Told(s, q2)
    <3>1. r.health \in 0..Top /\ q2.health \in 0..Top /\ (q2.health >= Rise => r.health >= Rise)
      BY <1>1, <2>1, FailedIs DEF ServerRecords
    <3>2. r.health < Rise => q2.health < Rise
      BY <3>1, TopRise DEF Tops
    <3> QED BY <1>1, <2>1, <3>2 DEF Told, Reason, Checks, Beside, InMaint
  <2> HIDE DEF m
  <2>5. Fine(CheckNotifyFailure(m, s))
    BY <1>1, <1>2, <2>3, <2>4, FailureFine
  <2> QED BY <1>5, <2>5 DEF Steps, m
<1> QED BY <1>3, <1>4, <1>5

LEMMA CheckAnswerFine ==
  ASSUME Fine(Now), NEW s \in Servers, NEW res \in CheckResults, CheckAnswer(s, res)
  PROVE  Steps
<1> DEFINE r == sv[s]
           q == SetServerCheckStatus(r, res)
<1>1. /\ Now.sv[s] = r /\ r \in ServerRecords /\ Belongs(s, r)
      /\ Steady /\ s \in Checked => Told(s, r)
      /\ r.res = "unknown" /\ Becomes(Put(Now, s, q))
  BY NowIs DEF CheckAnswer
<1>2. res \in {"failed", "passed", "cond"}
  BY HealthAssumption
<1> HIDE DEF r
<1>3. /\ q \in ServerRecords /\ Checks(r, q)
      /\ res = "failed" => q.health = Failed(r.health) /\ q.res = res
      /\ res # "failed" => q.res = res
  BY <1>1, <1>2, CheckStatusIs
<1> HIDE DEF q
<1>4. Belongs(s, q)
  BY <1>1, <1>3 DEF Belongs, Checks
<1>5. Told(s, r) => Told(s, q)
  <2>1. CASE res = "failed"
    <3>1. r.health \in 0..Top /\ q.health \in 0..Top /\ (q.health >= Rise => r.health >= Rise)
      BY <1>1, <1>3, <2>1, FailedIs DEF ServerRecords
    <3>2. r.health < Rise => q.health < Rise
      BY <3>1, TopRise DEF Tops
    <3> QED BY <1>1, <1>3, <3>2 DEF Told, Reason, Checks, Beside, InMaint
  <2>2. CASE res # "failed"
    BY <1>2, <1>3, <2>2 DEF Told
  <2> QED BY <2>1, <2>2
<1>6. Fine(Put(Now, s, q))
  BY <1>1, <1>3, <1>4, <1>5, PutFine DEF Checks
<1> QED BY <1>1, <1>6 DEF Steps

\* The end of a check that was concluded.
LEMMA ResIdleFine ==
  ASSUME NEW b, Fine(b), NEW s \in Servers, NEW r, r = b.sv[s],
         s \in Checked /\ r.res \in {"passed", "cond"} /\ r.state = "STOPPED" /\ ~InMaint(r) => Reason(s, r)
  PROVE  Fine(Put(b, s, [r EXCEPT !.res = "idle"]))
<1> DEFINE q == [r EXCEPT !.res = "idle"]
<1>1. r \in ServerRecords /\ Belongs(s, r) /\ (Steady /\ s \in Checked => Told(s, r))
  BY DEF Fine, Good, States
<1>2. /\ q \in ServerRecords /\ Beside(r, q) /\ q.res = "idle" /\ q.en = r.en /\ q.aen = r.aen
      /\ q.ares = r.ares /\ q.health = r.health /\ q.agent = r.agent
  BY <1>1 DEF ServerRecords, Beside
<1> HIDE DEF q
<1>3. Belongs(s, q)
  BY <1>1, <1>2 DEF Belongs
<1>4. s \in Checked /\ Told(s, r) => Told(s, q)
  BY <1>2 DEF Told, Reason, Beside, InMaint
<1>5. Fine(Put(b, s, q))
  BY <1>1, <1>2, <1>3, <1>4, PutFine
<1> QED BY <1>5 DEF q

LEMMA AresIdleFine ==
  ASSUME NEW b, Fine(b), NEW s \in Servers, NEW r, r = b.sv[s],
         s \in Checked /\ r.ares = "up" /\ r.state = "STOPPED" /\ ~InMaint(r) => Reason(s, r)
  PROVE  Fine(Put(b, s, [r EXCEPT !.ares = "idle"]))
<1> DEFINE q == [r EXCEPT !.ares = "idle"]
<1>1. r \in ServerRecords /\ Belongs(s, r) /\ (Steady /\ s \in Checked => Told(s, r))
  BY DEF Fine, Good, States
<1>2. /\ q \in ServerRecords /\ Beside(r, q) /\ q.ares = "idle" /\ q.en = r.en /\ q.aen = r.aen
      /\ q.res = r.res /\ q.health = r.health /\ q.agent = r.agent
  BY <1>1 DEF ServerRecords, Beside
<1> HIDE DEF q
<1>3. Belongs(s, q)
  BY <1>1, <1>2 DEF Belongs
<1>4. s \in Checked /\ Told(s, r) => Told(s, q)
  BY <1>2 DEF Told, Reason, Beside, InMaint
<1>5. Fine(Put(b, s, q))
  BY <1>1, <1>2, <1>3, <1>4, PutFine
<1> QED BY <1>5 DEF q

LEMMA CheckDoneFine ==
  ASSUME Fine(Now), NEW s \in Servers, CheckDone(s)
  PROVE  Steps
<1> DEFINE r == sv[s]
           b == CASE r.res = "failed" -> CheckNotifyFailure(Now, s)
                  [] r.res = "cond"   -> CheckNotifyStopping(Now, s)
                  [] r.res = "passed" -> CheckNotifySuccess(Now, s, FALSE)
<1>1. /\ Now.sv[s] = r /\ r \in ServerRecords /\ Belongs(s, r) /\ Good(Now)
      /\ Steady /\ s \in Checked => Told(s, r)
  BY NowIs
<1>2. r.res \in {"failed", "cond", "passed"} /\ Becomes(Put(b, s, [b.sv[s] EXCEPT !.res = "idle"]))
  BY Zenon DEF CheckDone
<1>3. s \in Checked /\ Track[s] = None
  BY <1>1, <1>2, NowIs DEF Belongs
<1>4. /\ r.res = "failed" => b = CheckNotifyFailure(Now, s)
      /\ r.res = "cond" => b = CheckNotifyStopping(Now, s)
      /\ r.res = "passed" => b = CheckNotifySuccess(Now, s, FALSE)
  BY <1>2, Zenon
<1> HIDE DEF r, b
<1>5. /\ Fine(b)
      /\ b.sv[s].res \in {"passed", "cond"} /\ b.sv[s].state = "STOPPED" /\ ~InMaint(b.sv[s]) => Reason(s, b.sv[s])
  <2>1. CASE r.res = "failed"
    <3>1. ToldBut(Now, s)
      BY DEF Fine, ToldBut
    <3>2. Fine(b) /\ KeptMore(r, b.sv[s])
      BY <1>1, <1>3, <1>4, <2>1, <3>1, FailureFine
    <3>3. b.sv[s].res = "failed"
      BY <2>1, <3>2 DEF KeptMore, Kept
    <3> QED BY <3>2, <3>3
  <2>2. CASE r.res # "failed"
    <3>1. Concluded(Now, b, s)
      BY <1>2, <1>3, <1>4, <2>2, SuccessFine
    <3> QED BY <1>3, <3>1 DEF Concluded
  <2> QED BY <2>1, <2>2
<1>6. Fine(Put(b, s, [b.sv[s] EXCEPT !.res = "idle"]))
  BY <1>5, ResIdleFine
<1> QED BY <1>2, <1>6 DEF Steps

\* A record of which only the fields that count traffic errors, time and
\* attempts change.
Quiet(r, q) ==
  /\ Beside(r, q) /\ KeptMore(r, q)

LEMMA QuietFine ==
  ASSUME NEW b, Fine(b), NEW s \in Servers, NEW q \in ServerRecords, Quiet(b.sv[s], q)
  PROVE  Fine(Put(b, s, q))
<1>1. Belongs(s, b.sv[s]) /\ (Steady /\ s \in Checked => Told(s, b.sv[s]))
  BY DEF Fine, Good
<1>2. Belongs(s, q) /\ Beside(b.sv[s], q)
  BY <1>1 DEF Belongs, Quiet, KeptMore, Kept
<1>3. Told(s, b.sv[s]) => Told(s, q)
  BY DEF Told, Reason, Quiet, Beside, KeptMore, Kept, InMaint
<1> QED BY <1>1, <1>2, <1>3, PutFine

LEMMA QuietFields ==
  ASSUME NEW r \in ServerRecords
  PROVE  /\ \A e \in Nat : [r EXCEPT !.errs = e] \in ServerRecords /\ Quiet(r, [r EXCEPT !.errs = e])
         /\ \A n \in Nat : [r EXCEPT !.since = n] \in ServerRecords /\ Quiet(r, [r EXCEPT !.since = n])
         /\ \A x \in BOOLEAN : [r EXCEPT !.armed = x] \in ServerRecords /\ Quiet(r, [r EXCEPT !.armed = x])
<1>1. ASSUME NEW e \in Nat PROVE [r EXCEPT !.errs = e] \in ServerRecords /\ Quiet(r, [r EXCEPT !.errs = e])
  BY DEF ServerRecords, Quiet, Beside, KeptMore, Kept
<1>2. ASSUME NEW e \in Nat PROVE [r EXCEPT !.since = e] \in ServerRecords /\ Quiet(r, [r EXCEPT !.since = e])
  BY DEF ServerRecords, Quiet, Beside, KeptMore, Kept
<1>3. ASSUME NEW e \in BOOLEAN PROVE [r EXCEPT !.armed = e] \in ServerRecords /\ Quiet(r, [r EXCEPT !.armed = e])
  BY DEF ServerRecords, Quiet, Beside, KeptMore, Kept
<1> QED BY <1>1, <1>2, <1>3

LEMMA HealthAdjustFine ==
  ASSUME Fine(Now), NEW s \in Servers, HealthAdjust(s)
  PROVE  Steps
<1> DEFINE r == sv[s]
           last == IF OnError = "sudden-death" /\ r.health > Rise THEN Rise + 1 ELSE r.health
           h == IF OnError = "mark-down" THEN Rise ELSE last
           r0 == [r EXCEPT !.health = h]
           r1 == SetServerCheckStatus(r0, "failed")
           m == Put(Now, s, r1)
           hit == CheckNotifyFailure(m, s)
<1>1. /\ Now.sv[s] = r /\ r \in ServerRecords /\ Belongs(s, r) /\ Good(Now)
      /\ Steady /\ s \in Checked => Told(s, r)
      /\ s \in Checked /\ Track[s] = None /\ ErrLimit > 0
  BY NowIs DEF HealthAdjust
<1>2. \/ Becomes(Put(Now, s, [r EXCEPT !.errs = r.errs + 1]))
      \/ Becomes(Put(Now, s, [r EXCEPT !.errs = 0]))
      \/ OnError # "fastinter" /\ Becomes(Put(hit, s, [hit.sv[s] EXCEPT !.errs = 0]))
  BY DEF HealthAdjust
<1>3. ASSUME NEW e \in Nat, Becomes(Put(Now, s, [r EXCEPT !.errs = e])) PROVE Steps
  <2>1. [r EXCEPT !.errs = e] \in ServerRecords /\ Quiet(r, [r EXCEPT !.errs = e])
    BY <1>1, QuietFields
  <2>2. Fine(Put(Now, s, [r EXCEPT !.errs = e]))
    BY <1>1, <2>1, QuietFine
  <2> QED BY <1>3, <2>2 DEF Steps
<1>4. ASSUME OnError # "fastinter", Becomes(Put(hit, s, [hit.sv[s] EXCEPT !.errs = 0])) PROVE Steps
  <2>1. r.health \in 0..Top
    BY <1>1 DEF ServerRecords
  <2> HIDE DEF r
  <2>2. h \in 0..Top /\ (Steady => h <= Rise)
    <3> DEFINE top == Top
    <3>1. top \in Nat /\ Rise \in Nat /\ Rise > 0 /\ Rise <= top /\ r.health \in 0..top
      BY <2>1, TopRise DEF Tops
    <3>2. Steady => OnError = "mark-down" \/ top = Rise
      BY <1>1, <1>4, TopRise DEF Steady, Tops
    <3> HIDE DEF top
    <3>3. h \in 0..top /\ (Steady => h <= Rise)
      BY <3>1, <3>2
    <3> QED BY <3>3 DEF top
  <2> HIDE DEF h
  <2>3. /\ r0 \in ServerRecords /\ Beside(r, r0) /\ r0.health = h /\ r0.en = r.en /\ r0.agent = r.agent
        /\ r0.aen = r.aen /\ r0.ares = r.ares /\ r0.res = r.res
    BY <1>1, <2>2 DEF ServerRecords, Beside
  <2> HIDE DEF r0
  <2>4. /\ r1 \in ServerRecords /\ Checks(r0, r1) /\ r1.health = Failed(h)
        /\ r1.res = IF r0.res = "idle" THEN r0.res ELSE "failed"
    BY <2>3, CheckStatusIs
  <2> HIDE DEF r1
  <2>5. Beside(r, r1) /\ Belongs(s, r1)
    BY <1>1, <2>3, <2>4 DEF Checks, Beside, Belongs
  <2>6. Good(m) /\ m.sv[s] = r1 /\ ToldBut(m, s)
    BY <1>1, <2>4, <2>5, PutFine
  <2>7. Steady => Told(s, r1)
    BY <2>2, <2>4, FailedIs DEF Told, Reason
  <2> HIDE DEF m
  <2>8. Fine(hit)
    BY <1>1, <2>6, <2>7, FailureFine
  <2> HIDE DEF hit
  <2>9. hit.sv[s] \in ServerRecords
    BY <2>8 DEF Fine, Good, States
  <2> DEFINE q == hit.sv[s]
  <2>10. [q EXCEPT !.errs = 0] \in ServerRecords /\ Quiet(q, [q EXCEPT !.errs = 0])
    BY <2>9, QuietFields
  <2>11. Fine(Put(hit, s, [q EXCEPT !.errs = 0]))
    BY <2>8, <2>10, QuietFine
  <2> QED BY <1>4, <2>11 DEF Steps
<1>5. r.errs + 1 \in Nat /\ 0 \in Nat
  BY <1>1 DEF ServerRecords
<1> QED BY <1>2, <1>3, <1>4, <1>5

LEMMA HealthAdjustOkFine ==
  ASSUME Fine(Now), NEW s \in Servers, HealthAdjustOk(s)
  PROVE  Steps
<1> DEFINE q == [sv[s] EXCEPT !.errs = 0]
<1>1. Now.sv[s] = sv[s] /\ sv[s] \in ServerRecords
  BY NowIs
<1>2. q \in ServerRecords /\ Quiet(Now.sv[s], q)
  BY <1>1, QuietFields
<1>3. Becomes(Put(Now, s, q))
  BY DEF HealthAdjustOk
<1> HIDE DEF q
<1>4. Fine(Put(Now, s, q))
  BY <1>2, QuietFine
<1> QED BY <1>3, <1>4 DEF Steps

LEMMA TickFine ==
  ASSUME Fine(Now), NEW s \in Servers, Tick(s)
  PROVE  Steps
<1> DEFINE n == sv[s].since + 1
           q == [sv[s] EXCEPT !.since = n]
<1>1. Now.sv[s] = sv[s] /\ sv[s] \in ServerRecords
  BY NowIs
<1>2. n \in Nat
  BY <1>1 DEF ServerRecords
<1>3. Becomes(Put(Now, s, q))
  BY DEF Tick
<1> HIDE DEF n
<1>4. q \in ServerRecords /\ Quiet(Now.sv[s], q)
  BY <1>1, <1>2, QuietFields
<1> HIDE DEF q
<1>5. Fine(Put(Now, s, q))
  BY <1>4, QuietFine
<1> QED BY <1>3, <1>5 DEF Steps

LEMMA ServerWarmupFine ==
  ASSUME Fine(Now), NEW s \in Servers, ServerWarmup(s)
  PROVE  Steps
<1> DEFINE b == RecalcEweight(Now, s)
<1>1. \/ Becomes(Put(Now, s, [Now.sv[s] EXCEPT !.armed = FALSE]))
      \/ \E again \in BOOLEAN : Becomes(Put(b, s, [b.sv[s] EXCEPT !.armed = again]))
  BY NowIs DEF ServerWarmup
<1>2. Fine(b)
  BY RecalcFine
<1> HIDE DEF b
<1>3. ASSUME NEW c, Fine(c), NEW x \in BOOLEAN, Becomes(Put(c, s, [c.sv[s] EXCEPT !.armed = x]))
      PROVE  Steps
  <2> DEFINE q == [c.sv[s] EXCEPT !.armed = x]
  <2>1. c.sv[s] \in ServerRecords
    BY <1>3 DEF Fine, Good, States
  <2>2. q \in ServerRecords /\ Quiet(c.sv[s], q)
    BY <2>1, QuietFields
  <2>3. Fine(Put(c, s, q))
    BY <1>3, <2>2, QuietFine
  <2> QED BY <1>3, <2>3 DEF Steps
<1>4. FALSE \in BOOLEAN
  OBVIOUS
<1> QED BY <1>1, <1>2, <1>3, <1>4

LEMMA AgentStartFine ==
  ASSUME Fine(Now), NEW s \in Servers, AgentStart(s)
  PROVE  Steps
<1> DEFINE r == sv[s]
           q == [r EXCEPT !.ares = "unknown"]
<1>1. /\ Now.sv[s] = r /\ r \in ServerRecords /\ Belongs(s, r)
      /\ Steady /\ s \in Checked => Told(s, r)
      /\ r.ares = "idle" /\ r.aen /\ Becomes(Put(Now, s, q))
  BY NowIs DEF AgentStart
<1> HIDE DEF r
<1>2. q \in ServerRecords /\ Beside(r, q) /\ Belongs(s, q) /\ (Told(s, r) => Told(s, q))
  BY <1>1 DEF ServerRecords, Beside, Belongs, Told, Reason, InMaint
<1>3. Fine(Put(Now, s, q))
  BY <1>1, <1>2, PutFine
<1> QED BY <1>1, <1>3 DEF Steps

LEMMA AgentFailsFine ==
  ASSUME Fine(Now), NEW s \in Servers, AgentFails(s)
  PROVE  Steps
<1> DEFINE r == sv[s]
<1>1. /\ Now.sv[s] = r /\ r \in ServerRecords /\ Belongs(s, r)
      /\ Steady /\ s \in Checked => Told(s, r)
      /\ r.ares = "unknown"
  BY NowIs DEF AgentFails
<1>2. PICK a \in {0, r.agent} : Becomes(Put(Now, s, [r EXCEPT !.agent = a, !.ares = "idle"]))
  BY DEF AgentFails
<1> DEFINE q == [r EXCEPT !.agent = a, !.ares = "idle"]
<1> HIDE DEF r
<1>3. a \in {0, 1}
  BY <1>1, <1>2 DEF ServerRecords
<1>4. q \in ServerRecords /\ Beside(r, q) /\ Belongs(s, q)
  BY <1>1, <1>3 DEF ServerRecords, Beside, Belongs
<1>5. Told(s, r) => Told(s, q)
  BY <1>1, <1>2 DEF Told, Reason, InMaint, ServerRecords
<1>6. Fine(Put(Now, s, q))
  BY <1>1, <1>4, <1>5, PutFine
<1> QED BY <1>2, <1>6 DEF Steps

LEMMA AgentDoneFine ==
  ASSUME Fine(Now), NEW s \in Servers, AgentDone(s)
  PROVE  Steps
<1> DEFINE r == sv[s]
           b == CASE r.ares = "down" -> IF r.agent > 0 THEN Now ELSE SrvSetStopped(Now, s)
                  [] r.ares = "up"   -> CheckNotifySuccess(Now, s, TRUE)
                  [] r.ares = "neutral" -> Now
<1>1. /\ Now.sv[s] = r /\ r \in ServerRecords /\ Belongs(s, r) /\ Good(Now)
      /\ Steady /\ s \in Checked => Told(s, r)
  BY NowIs
<1>2. r.ares \in {"down", "up", "neutral"} /\ Becomes(Put(b, s, [b.sv[s] EXCEPT !.ares = "idle"]))
  BY Zenon DEF AgentDone
<1>3. s \in Agents
  BY <1>1, <1>2 DEF Belongs
<1>4. /\ r.ares = "down" => b = IF r.agent > 0 THEN Now ELSE Spread(Now, s, "state", "STOPPED")
      /\ r.ares = "up" => b = CheckNotifySuccess(Now, s, TRUE)
      /\ r.ares = "neutral" => b = Now
  BY <1>2, Zenon DEF SrvSetStopped
<1> HIDE DEF r, b
<1>5. /\ Fine(b)
      /\ s \in Checked /\ b.sv[s].ares = "up" /\ b.sv[s].state = "STOPPED" /\ ~InMaint(b.sv[s])
           => Reason(s, b.sv[s])
  <2>1. CASE r.ares = "up"
    <3>1. Concluded(Now, b, s)
      BY <1>3, <1>4, <2>1, SuccessFine
    <3> QED BY <3>1 DEF Concluded
  <2>2. CASE r.ares # "up" /\ b = Now
    BY <1>1, <2>2
  <2>3. CASE r.ares # "up" /\ b # Now
    <3>1. b = Spread(Now, s, "state", "STOPPED") /\ ~(r.agent > 0)
      BY <1>2, <1>4, <2>3
    <3>2. Reason(s, r) /\ ToldBut(Now, s)
      BY <1>1, <1>3, <3>1 DEF Reason, ServerRecords, ToldBut, Fine
    <3>3. Fine(b) /\ KeptMore(r, b.sv[s])
      BY <1>1, <1>3, <3>1, <3>2, StateFine
    <3> QED BY <2>3, <3>3 DEF KeptMore, Kept
  <2> QED BY <2>1, <2>2, <2>3
<1>6. Fine(Put(b, s, [b.sv[s] EXCEPT !.ares = "idle"]))
  BY <1>5, AresIdleFine
<1> QED BY <1>2, <1>6 DEF Steps

\* While an agent's line is applied, only s may be down without a reason.
Partly(b, s) == Good(b) /\ ToldBut(b, s)

LEMMA FlagPartly ==
  ASSUME NEW b, NEW s \in Servers, Partly(b, s), NEW call \in {"set", "clear"},
         NEW f \in {"FMAINT", "FDRAIN"}
  PROVE  Partly(Spread(b, s, call, f), s) /\ Kept(b.sv[s], Spread(b, s, call, f).sv[s])
<1> DEFINE c == Spread(b, s, call, f)
<1>1. Root(s, call, f) /\ call \in Calls /\ Good(b) /\ ToldBut(b, s)
  BY DEF Root, Calls, Args, MAINT, DRAIN, Partly
<1>2. Good(c)
  BY <1>1, SpreadGood
<1>3. /\ HereRel(call, b.sv[s], c.sv[s], f, ParentState(c.sv, s))
      /\ \A t \in Checked : t # s => c.sv[t] = b.sv[t]
  BY <1>1, SpreadAt
<1> HIDE DEF c
<1>4. Kept(b.sv[s], c.sv[s])
  BY <1>1, <1>3, RelKept
<1>5. ToldBut(c, s)
  BY <1>1, <1>3 DEF ToldBut
<1> QED BY <1>2, <1>4, <1>5 DEF Partly, c

LEMMA AdmSetPartly ==
  ASSUME NEW b, NEW s \in Servers, Partly(b, s), NEW mode \in {"ready", "drain", "maint"}
  PROVE  Partly(SrvAdmSet(b, s, mode), s) /\ Kept(b.sv[s], SrvAdmSet(b, s, mode).sv[s])
<1>1. ASSUME NEW c1 \in {"set", "clear"}, NEW f1 \in {"FMAINT", "FDRAIN"},
             NEW f2 \in {"FMAINT", "FDRAIN"}
      PROVE  LET c == Spread(Spread(b, s, c1, f1), s, "clear", f2)
             IN  Partly(c, s) /\ Kept(b.sv[s], c.sv[s])
  <2> DEFINE m == Spread(b, s, c1, f1)
             c == Spread(m, s, "clear", f2)
  <2>1. Partly(m, s) /\ Kept(b.sv[s], m.sv[s])
    BY FlagPartly
  <2> HIDE DEF m
  <2>2. Partly(c, s) /\ Kept(m.sv[s], c.sv[s])
    BY <2>1, FlagPartly
  <2> HIDE DEF c
  <2>3. Kept(b.sv[s], c.sv[s])
    BY <2>1, <2>2 DEF Kept
  <2> QED BY <2>2, <2>3 DEF c, m
<1>2. CASE mode = "maint"
  <2>1. SrvAdmSet(b, s, mode) = Spread(Spread(b, s, "set", "FMAINT"), s, "clear", "FDRAIN")
    BY <1>2, Zenon DEF SrvAdmSet, SrvSetAdminFlag, SrvClrAdminFlag
  <2> QED BY <1>1, <2>1
<1>3. CASE mode = "drain"
  <2>1. SrvAdmSet(b, s, mode) = Spread(Spread(b, s, "set", "FDRAIN"), s, "clear", "FMAINT")
    BY <1>3, Zenon DEF SrvAdmSet, SrvSetAdminFlag, SrvClrAdminFlag
  <2> QED BY <1>1, <2>1
<1>4. CASE mode = "ready"
  <2>1. SrvAdmSet(b, s, mode) = Spread(Spread(b, s, "clear", "FDRAIN"), s, "clear", "FMAINT")
    BY <1>4, Zenon DEF SrvAdmSet, SrvClrAdminFlag
  <2> QED BY <1>1, <2>1
<1> QED BY <1>2, <1>3, <1>4

LEMMA PutPartly ==
  ASSUME NEW b, NEW s \in Servers, Partly(b, s), NEW r \in ServerRecords, Beside(b.sv[s], r), Belongs(s, r)
  PROVE  /\ Partly(Put(b, s, r), s) /\ Put(b, s, r).sv[s] = r
         /\ (Steady /\ s \in Checked => Told(s, r)) => Fine(Put(b, s, r))
<1>1. /\ Good(Put(b, s, r)) /\ Put(b, s, r).sv[s] = r
      /\ \A t \in Servers : t # s => Put(b, s, r).sv[t] = b.sv[t]
  BY PutGood DEF Partly
<1>2. Checked \subseteq Servers
  BY HealthAssumption
<1> QED BY <1>1, <1>2 DEF ToldBut, Partly, Fine

LEMMA WeightPartly ==
  ASSUME NEW b, NEW s \in Servers, Partly(b, s), NEW w \in Nat
  PROVE  Partly(SetUweight(b, s, w), s) /\ Kept(b.sv[s], SetUweight(b, s, w).sv[s])
<1> DEFINE r == b.sv[s]
           q == [r EXCEPT !.uw = w]
           m == Put(b, s, q)
           c == RecalcEweight(m, s)
<1>1. r \in ServerRecords /\ Belongs(s, r)
  BY DEF Partly, Good, States
<1> HIDE DEF r
<1>2. q \in ServerRecords /\ Beside(r, q) /\ Kept(r, q) /\ Belongs(s, q)
  BY <1>1 DEF ServerRecords, Beside, Kept, Belongs
<1> HIDE DEF q
<1>3. Partly(m, s) /\ m.sv[s] = q
  BY <1>2, PutPartly DEF r
<1> HIDE DEF m
<1>4. /\ Good(c) /\ KeptMore(q, c.sv[s])
      /\ \A t \in Servers : t # s => c.sv[t] = m.sv[t]
  BY <1>3, RecalcGood DEF Partly
<1>5. SetUweight(b, s, w) = c
  BY DEF SetUweight, c, m, q, r
<1> HIDE DEF c
<1>6. Checked \subseteq Servers
  BY HealthAssumption
<1>7. Partly(c, s)
  BY <1>3, <1>4, <1>6 DEF Partly, ToldBut
<1>8. Kept(r, c.sv[s])
  BY <1>2, <1>4 DEF KeptMore, Kept
<1> QED BY <1>5, <1>7, <1>8 DEF r

\* What parsing the agent's line, and its status, make of a record.
LEMMA AgentRecords ==
  ASSUME NEW s \in Agents, NEW r \in ServerRecords, Belongs(s, r), r.ares = "unknown",
         NEW hs \in {"up", "down", None}
  PROVE  LET p == ParsedHealth(r, hs)
             q == AgentStatus(r, hs)
         IN  /\ p \in ServerRecords /\ Beside(r, p) /\ Belongs(s, p) /\ p.ares = r.ares /\ p.aen = r.aen
             /\ hs # "up" /\ Told(s, r) => Told(s, p)
             /\ q \in ServerRecords /\ Beside(r, q) /\ Belongs(s, q)
             /\ hs = "up" \/ Told(s, r) => Told(s, q)
<1> DEFINE g == IF hs = "up" THEN 1 ELSE 0
           x == IF hs = None THEN "neutral" ELSE hs
           e == IF hs = "up" THEN 0 ELSE r.errs
           p == ParsedHealth(r, hs)
           q == AgentStatus(r, hs)
<1>1. None # "up" /\ None # "down"
  BY HealthAssumption
<1>2. g \in {0, 1} /\ (hs # "up" => g = 0) /\ e \in Nat
  BY DEF ServerRecords
<1>3. x \in {"up", "down", "neutral"} /\ (hs = "up" => x = "up")
  BY <1>1
<1>4. (hs = None => p = r) /\ (hs # None => p = [r EXCEPT !.agent = g])
  BY DEF ParsedHealth
<1>5. q = [r EXCEPT !.ares = x, !.errs = e]
  BY DEF AgentStatus
<1> HIDE DEF g, x, e, p, q
<1>6. /\ p \in ServerRecords /\ Beside(r, p) /\ Belongs(s, p) /\ p.ares = r.ares /\ p.aen = r.aen
      /\ p.health = r.health /\ p.res = r.res /\ (hs # "up" => p.agent = r.agent \/ p.agent = 0)
  <2>1. CASE hs = None
    BY <1>4, <2>1 DEF Beside
  <2>2. CASE hs # None
    BY <1>2, <1>4, <2>2 DEF ServerRecords, Beside, Belongs
  <2> QED BY <2>1, <2>2
<1>7. hs # "up" /\ Told(s, r) => Told(s, p)
  BY <1>6 DEF Told, Reason, InMaint, Beside
<1>8. /\ q \in ServerRecords /\ Beside(r, q) /\ Belongs(s, q) /\ q.ares = x
      /\ q.health = r.health /\ q.res = r.res /\ q.agent = r.agent
  BY <1>2, <1>3, <1>5 DEF ServerRecords, Beside, Belongs
<1>9. hs = "up" => Told(s, q)
  BY <1>3, <1>8 DEF Told
<1>10. ASSUME hs # "up", Told(s, r) PROVE Told(s, q)
  BY <1>8, <1>10 DEF Told, Reason, InMaint, Beside
<1> QED BY <1>6, <1>7, <1>8, <1>9, <1>10 DEF p, q

LEMMA AgentReplyFine ==
  ASSUME Fine(Now), NEW s \in Servers, NEW as \in {"ready", "drain", "maint", None},
         NEW ps \in Weights \cup {None}, NEW hs \in {"up", "down", None}, AgentReply(s, as, ps, hs)
  PROVE  Steps
<1> DEFINE p == ParsedHealth(sv[s], hs)
           b0 == Put(Now, s, p)
           b1 == AdminWord(b0, s, as)
           b2 == WeightWord(b1, s, ps)
           q == AgentStatus(b2.sv[s], hs)
<1>1. Becomes(Put(b2, s, q)) /\ sv[s].ares = "unknown" /\ sv[s].aen
  BY Zenon DEF AgentReply
<1>2. /\ Now.sv[s] = sv[s] /\ sv[s] \in ServerRecords /\ Belongs(s, sv[s])
      /\ Steady /\ s \in Checked => Told(s, sv[s])
  BY NowIs
<1>3. s \in Agents
  BY <1>1, <1>2 DEF Belongs
<1>4. /\ p \in ServerRecords /\ Beside(sv[s], p) /\ Belongs(s, p) /\ p.ares = "unknown"
      /\ hs # "up" /\ Told(s, sv[s]) => Told(s, p)
  BY <1>1, <1>2, <1>3, AgentRecords
<1> HIDE DEF p
<1>5. Partly(b0, s) /\ b0.sv[s].ares = "unknown" /\ (hs # "up" => Fine(b0))
  BY <1>2, <1>4, PutFine DEF Partly
<1> HIDE DEF b0
<1>6. Partly(b1, s) /\ b1.sv[s].ares = "unknown" /\ (hs # "up" => Fine(b1))
  <2>1. CASE as = None
    BY <1>5, <2>1 DEF AdminWord
  <2>2. CASE as # None
    <3>1. b1 = SrvAdmSet(b0, s, as)
      BY <2>2 DEF AdminWord
    <3>2. Partly(b1, s) /\ Kept(b0.sv[s], b1.sv[s])
      BY <1>5, <2>2, <3>1, AdmSetPartly
    <3>3. hs # "up" => Fine(b1)
      BY <1>5, <2>2, <3>1, AdmSetFine
    <3> QED BY <1>5, <3>2, <3>3 DEF Kept
  <2> QED BY <2>1, <2>2
<1> HIDE DEF b1
<1>7. Partly(b2, s) /\ b2.sv[s].ares = "unknown" /\ (hs # "up" => Fine(b2))
  <2>1. CASE ps = None
    BY <1>6, <2>1 DEF WeightWord
  <2>2. CASE ps # None
    <3>1. b2 = SetUweight(b1, s, ps) /\ ps \in Nat
      BY <2>2, HealthAssumption DEF WeightWord
    <3>2. Partly(b2, s) /\ Kept(b1.sv[s], b2.sv[s])
      BY <1>6, <3>1, WeightPartly
    <3>3. hs # "up" => Fine(b2)
      BY <1>6, <3>1, UweightFine
    <3> QED BY <1>6, <3>2, <3>3 DEF Kept
  <2> QED BY <2>1, <2>2
<1> HIDE DEF b2
<1>8. /\ b2.sv[s] \in ServerRecords /\ Belongs(s, b2.sv[s])
      /\ hs # "up" /\ Steady /\ s \in Checked => Told(s, b2.sv[s])
  BY <1>7 DEF Partly, Good, States, Fine
<1>9. /\ q \in ServerRecords /\ Beside(b2.sv[s], q) /\ Belongs(s, q)
      /\ hs = "up" \/ Told(s, b2.sv[s]) => Told(s, q)
  BY <1>3, <1>7, <1>8, AgentRecords
<1> HIDE DEF q
<1>10. Fine(Put(b2, s, q))
  BY <1>7, <1>8, <1>9, PutPartly
<1> QED BY <1>1, <1>10 DEF Steps

LEMMA SetStateFine ==
  ASSUME Fine(Now), NEW s \in Servers, NEW mode \in {"ready", "drain", "maint"}, SetState(s, mode)
  PROVE  Steps
<1>1. Fine(SrvAdmSet(Now, s, mode)) /\ Becomes(SrvAdmSet(Now, s, mode))
  BY AdmSetFine DEF SetState
<1> QED BY <1>1 DEF Steps

LEMMA FlagsFine ==
  ASSUME Fine(Now), NEW s \in Servers, NEW f \in {"FMAINT", "FDRAIN"}, SetFlag(s, f) \/ ClearFlag(s, f)
  PROVE  Steps
<1>1. Becomes(Spread(Now, s, "set", f)) \/ Becomes(Spread(Now, s, "clear", f))
  BY DEF SetFlag, ClearFlag, SrvSetAdminFlag, SrvClrAdminFlag
<1>2. Fine(Spread(Now, s, "set", f)) /\ Fine(Spread(Now, s, "clear", f))
  BY FlagFine
<1> QED BY <1>1, <1>2 DEF Steps

\* A counter that is set, then the call it leads to.
LEMMA SetAndCall ==
  ASSUME Fine(Now), NEW s \in Servers, Track[s] = None \/ s \in Agents,
         NEW q \in ServerRecords, Beside(sv[s], q), Belongs(s, q),
         NEW a \in {"STOPPED", "RUNNING", "STOPPING"}, a = "STOPPED" => Reason(s, q)
  PROVE  Fine(Spread(Put(Now, s, q), s, "state", a))
<1> DEFINE m == Put(Now, s, q)
<1>1. Good(m) /\ m.sv[s] = q /\ ToldBut(m, s)
  BY NowIs, PutFine
<1> HIDE DEF m
<1>2. Fine(Spread(m, s, "state", a))
  BY <1>1, StateFine
<1> QED BY <1>2 DEF m

LEMMA SetHealthFine ==
  ASSUME Fine(Now), NEW s \in Servers, NEW h \in {"up", "stopping", "down"}, SetHealth(s, h)
  PROVE  Steps
<1> DEFINE r == sv[s]
           up == [r EXCEPT !.health = Top]
           no == [r EXCEPT !.health = 0]
           full == Put(Now, s, up)
           empty == Put(Now, s, no)
<1>1. r \in ServerRecords /\ Belongs(s, r) /\ Track[s] = None
  BY NowIs DEF SetHealth
<1>2. Becomes(CASE h = "up"       -> SrvSetRunning(full, s)
                [] h = "stopping" -> SrvSetStopping(full, s)
                [] h = "down"     -> SrvSetStopped(empty, s))
  BY DEF SetHealth
<1>3. up \in ServerRecords /\ Beside(r, up) /\ Belongs(s, up)
  <2> HIDE DEF r
  <2>1. Top \in 0..Top
    BY TopRise DEF Tops
  <2> QED BY <1>1, <2>1 DEF ServerRecords, Beside, Belongs
<1>4. no \in ServerRecords /\ Beside(r, no) /\ Belongs(s, no) /\ Reason(s, no)
  <2> HIDE DEF r
  <2>1. 0 \in 0..Top /\ 0 < Rise
    BY TopRise DEF Tops
  <2> QED BY <1>1, <2>1 DEF ServerRecords, Beside, Belongs, Reason
<1>5. CASE h = "up"
  <2>1. Becomes(Spread(full, s, "state", "RUNNING"))
    BY <1>2, <1>5, Zenon DEF SrvSetRunning
  <2> HIDE DEF up
  <2>2. Fine(Spread(full, s, "state", "RUNNING"))
    BY <1>1, <1>3, SetAndCall
  <2> QED BY <2>1, <2>2 DEF Steps
<1>6. CASE h = "stopping"
  <2>1. Becomes(Spread(full, s, "state", "STOPPING"))
    BY <1>2, <1>6, Zenon DEF SrvSetStopping
  <2> HIDE DEF up
  <2>2. Fine(Spread(full, s, "state", "STOPPING"))
    BY <1>1, <1>3, SetAndCall
  <2> QED BY <2>1, <2>2 DEF Steps
<1>7. CASE h = "down"
  <2>1. Becomes(Spread(empty, s, "state", "STOPPED"))
    BY <1>2, <1>7, Zenon DEF SrvSetStopped
  <2> HIDE DEF no
  <2>2. Fine(Spread(empty, s, "state", "STOPPED"))
    BY <1>1, <1>4, SetAndCall
  <2> QED BY <2>1, <2>2 DEF Steps
<1> QED BY <1>5, <1>6, <1>7

LEMMA SetAgentFine ==
  ASSUME Fine(Now), NEW s \in Servers, NEW up \in BOOLEAN, SetAgent(s, up)
  PROVE  Steps
<1> DEFINE r == sv[s]
           on == [r EXCEPT !.agent = 1]
           no == [r EXCEPT !.agent = 0]
<1>1. r \in ServerRecords /\ Belongs(s, r) /\ s \in Agents
  BY NowIs DEF SetAgent, Belongs
<1>2. \/ Becomes(Spread(Put(Now, s, on), s, "state", "RUNNING"))
      \/ Becomes(Spread(Put(Now, s, no), s, "state", "STOPPED"))
  BY DEF SetAgent, SrvSetRunning, SrvSetStopped
<1> HIDE DEF r
<1>3. on \in ServerRecords /\ Beside(r, on) /\ Belongs(s, on)
  BY <1>1 DEF ServerRecords, Beside, Belongs
<1>4. no \in ServerRecords /\ Beside(r, no) /\ Belongs(s, no) /\ Reason(s, no)
  BY <1>1 DEF ServerRecords, Beside, Belongs, Reason
<1> HIDE DEF on, no
<1>5. Fine(Spread(Put(Now, s, on), s, "state", "RUNNING"))
  BY <1>1, <1>3, SetAndCall DEF r
<1>6. Fine(Spread(Put(Now, s, no), s, "state", "STOPPED"))
  BY <1>1, <1>4, SetAndCall DEF r
<1> QED BY <1>2, <1>5, <1>6 DEF Steps

LEMMA ToggleFine ==
  ASSUME Fine(Now), NEW s \in Servers, ToggleCheck(s) \/ ToggleAgent(s)
  PROVE  Steps
<1> DEFINE r == sv[s]
           on == ~r.en
           aon == ~r.aen
           q1 == [r EXCEPT !.en = on]
           q2 == [r EXCEPT !.aen = aon]
<1>1. Now.sv[s] = r /\ r \in ServerRecords /\ Belongs(s, r) /\ (Steady /\ s \in Checked => Told(s, r))
  BY NowIs
<1>2. (s \in Checked /\ Becomes(Put(Now, s, q1))) \/ (s \in Agents /\ Becomes(Put(Now, s, q2)))
  BY DEF ToggleCheck, ToggleAgent
<1> HIDE DEF r
<1>3. on \in BOOLEAN /\ aon \in BOOLEAN
  OBVIOUS
<1> HIDE DEF on, aon
<1>4. ASSUME s \in Checked, Becomes(Put(Now, s, q1)) PROVE Steps
  <2>1. q1 \in ServerRecords /\ Beside(r, q1) /\ Belongs(s, q1) /\ (Told(s, r) => Told(s, q1))
    BY <1>1, <1>3, <1>4 DEF ServerRecords, Beside, Belongs, Told, Reason, InMaint
  <2>2. Fine(Put(Now, s, q1))
    BY <1>1, <2>1, PutFine
  <2> QED BY <1>4, <2>2 DEF Steps
<1>5. ASSUME s \in Agents, Becomes(Put(Now, s, q2)) PROVE Steps
  <2>1. q2 \in ServerRecords /\ Beside(r, q2) /\ Belongs(s, q2) /\ (Told(s, r) => Told(s, q2))
    BY <1>1, <1>3, <1>5 DEF ServerRecords, Beside, Belongs, Told, Reason, InMaint
  <2>2. Fine(Put(Now, s, q2))
    BY <1>1, <2>1, PutFine
  <2> QED BY <1>5, <2>2 DEF Steps
<1> QED BY <1>2, <1>4, <1>5

LEMMA SetWeightFine ==
  ASSUME Fine(Now), NEW s \in Servers, NEW w \in Weights, SetWeight(s, w)
  PROVE  Steps
<1>1. w \in Nat
  BY HealthAssumption
<1>2. Fine(SetUweight(Now, s, w)) /\ Becomes(SetUweight(Now, s, w))
  BY <1>1, UweightFine DEF SetWeight
<1> QED BY <1>2 DEF Steps

\* Every step of the servers is one of these.
LEMMA ServerStep ==
  ASSUME Fine(Now), NEW s \in Servers,
         \/ CheckTask(s) \/ AgentTask(s) \/ Command(s)
         \/ HealthAdjust(s) \/ HealthAdjustOk(s) \/ Tick(s) \/ ServerWarmup(s)
  PROVE  Steps
<1>1. CASE CheckTask(s)
  BY <1>1, CheckStartFine, CheckDoneFine, CheckAnswerFine DEF CheckTask
<1>2. CASE AgentTask(s)
  <2>1. CASE AgentStart(s) \/ AgentFails(s) \/ AgentDone(s)
    BY <2>1, AgentStartFine, AgentFailsFine, AgentDoneFine
  <2>2. ASSUME NEW as \in (Orders \cap {"ready", "drain", "maint"}) \cup {None},
               NEW ps \in Weights \cup {None}, NEW hs \in {"up", "down", None},
               AgentReply(s, as, ps, hs)
        PROVE  Steps
    BY <2>2, AgentReplyFine
  <2> QED BY <1>2, <2>1, <2>2 DEF AgentTask
<1>3. CASE Command(s)
  <2>1. CASE \E mode \in {"ready", "drain", "maint"} : SetState(s, mode)
    BY <2>1, SetStateFine
  <2>2. CASE \E f \in {"FMAINT", "FDRAIN"} : SetFlag(s, f) \/ ClearFlag(s, f)
    BY <2>2, FlagsFine
  <2>3. CASE \E h \in {"up", "stopping", "down"} : SetHealth(s, h)
    BY <2>3, SetHealthFine
  <2>4. CASE \E up \in BOOLEAN : SetAgent(s, up)
    BY <2>4, SetAgentFine
  <2>5. CASE ToggleCheck(s) \/ ToggleAgent(s)
    BY <2>5, ToggleFine
  <2>6. CASE \E w \in Weights : SetWeight(s, w)
    BY <2>6, SetWeightFine
  <2> QED BY <1>3, <2>1, <2>2, <2>3, <2>4, <2>5, <2>6 DEF Command
<1>4. CASE HealthAdjust(s) \/ HealthAdjustOk(s) \/ Tick(s) \/ ServerWarmup(s)
  BY <1>4, HealthAdjustFine, HealthAdjustOkFine, TickFine, ServerWarmupFine
<1> QED BY <1>1, <1>2, <1>3, <1>4

LEMMA NextFine ==
  ASSUME Fine(Now), [Next]_vars
  PROVE  Fine(Now')
<1>1. CASE \E s \in Servers :
             \/ CheckTask(s) \/ AgentTask(s) \/ Command(s)
             \/ HealthAdjust(s) \/ HealthAdjustOk(s) \/ Tick(s) \/ ServerWarmup(s)
  <2>1. Steps
    BY <1>1, ServerStep
  <2>2. PICK c : Becomes(c) /\ Fine(c)
    BY <2>1 DEF Steps
  <2>3. c \in States
    BY <2>2 DEF Fine, Good
  <2>4. c = [sv |-> c.sv, px |-> c.px]
    BY <2>3 DEF States
  <2>5. Now' = c
    BY <2>2, <2>4 DEF Becomes, Now
  <2> QED BY <2>2, <2>5
<1>2. CASE Stabilise \/ UNCHANGED vars
  <2>1. sv' = sv /\ px' = px
    BY <1>2 DEF Stabilise, vars
  <2>2. Now' = Now
    BY <2>1 DEF Now
  <2> QED BY <2>2
<1> QED BY <1>1, <1>2 DEF Next

-----------------------------------------------------------------------------
(* Counting afresh, and the configuration.                                 *)

LEMMA RecountIs ==
  ASSUME NEW f \in [Servers -> ServerRecords], NEW p \in Backends
  PROVE  RecountServers(f, p) \in BackendRecords /\ Tallies(LoadsOf(f), p, RecountServers(f, p))
<1> DEFINE l == SrvList[p]
           L == LoadsOf(f)
           ones(S) == [i \in 1..Len(l) |-> IF l[i] \in S /\ Load(f[l[i]]) > 0 THEN 1 ELSE 0]
           shares(S) == [i \in 1..Len(l) |-> IF l[i] \in S THEN Load(f[l[i]]) ELSE 0]
           A == Servers \ Backups
           act == Sum(ones(A))
           bck == Sum(ones(Backups))
           wact == Sum(shares(A))
           wbck == Sum(shares(Backups))
           fbck == NextBackup(f, p, 0)
           k == [act |-> act, bck |-> bck, wact |-> wact, wbck |-> wbck, fbck |-> fbck, tot |-> 0]
<1>1. RecountServers(f, p) = UpdateBackendWeight(k, f)
  BY DEF RecountServers
<1>2. \A i \in 1..Len(l) : L[l[i]] = Load(f[l[i]])
  BY Lists DEF LoadsOf
<1>3. ASSUME NEW S PROVE ones(S) = Ones(L, p, S) /\ shares(S) = Shares(L, p, S)
  BY <1>2 DEF Ones, Shares
<1>4. L \in Loads
  <2>1. \A t \in Servers : Load(f[t]) \in Nat
    BY LoadType
  <2> QED BY <2>1 DEF Loads, LoadsOf
<1>5. fbck = FirstBackup(L, p, 0)
  BY NextIs
<1>6. fbck \in Servers \cup {None}
  <2> DEFINE first == FirstBackup(L, p, 0)
  <2>1. first # None => first \in Servers
    BY <1>4, FirstType
  <2> HIDE DEF first
  <2> QED BY <1>5, <2>1 DEF first
<1>7. /\ act = Sum(Ones(L, p, A)) /\ bck = Sum(Ones(L, p, Backups))
      /\ wact = Sum(Shares(L, p, A)) /\ wbck = Sum(Shares(L, p, Backups))
  BY <1>3
<1> HIDE DEF L
<1>8. ASSUME NEW S PROVE Sum(Ones(L, p, S)) \in Int /\ Sum(Shares(L, p, S)) \in Int
  <2> DEFINE n == Len(SrvList[p])
             o == Ones(L, p, S)
             h == Shares(L, p, S)
  <2>1. n \in Nat /\ o \in [1..n -> Int] /\ h \in [1..n -> Int]
    BY <1>4, Lists, ListTypes
  <2> HIDE DEF n, o, h
  <2>2. Sum(o) \in Int /\ Sum(h) \in Int
    BY <2>1, SumInt
  <2> QED BY <2>2 DEF o, h
<1>9. act \in Int /\ bck \in Int /\ wact \in Int /\ wbck \in Int /\ 0 \in Int
  BY <1>7, <1>8
<1> DEFINE c == k
<1>10. /\ c.act = Sum(Ones(L, p, Servers \ Backups)) /\ c.bck = Sum(Ones(L, p, Backups))
       /\ c.wact = Sum(Shares(L, p, Servers \ Backups)) /\ c.wbck = Sum(Shares(L, p, Backups))
       /\ c.fbck = FirstBackup(L, p, 0)
  <2> HIDE DEF act, bck, wact, wbck, fbck
  <2>1. c.act = act /\ c.bck = bck /\ c.wact = wact /\ c.wbck = wbck /\ c.fbck = fbck
    OBVIOUS
  <2> HIDE DEF c
  <2> QED BY <1>5, <1>7, <2>1
<1> HIDE DEF act, bck, wact, wbck, fbck
<1>11. c \in BackendRecords
  BY <1>6, <1>9 DEF BackendRecords
<1> HIDE DEF c
<1>12. Counts(L, p, c)
  BY <1>10 DEF Counts
<1>13. UpdateBackendWeight(c, f) \in BackendRecords /\ Tallies(L, p, UpdateBackendWeight(c, f))
  BY <1>11, <1>12, WeightCompletes DEF L
<1> QED BY <1>1, <1>13 DEF c, L

\* The weights make one record of a backend.
LEMMA OneTally ==
  ASSUME NEW L, NEW p, NEW j \in BackendRecords, NEW k \in BackendRecords,
         Tallies(L, p, j), Tallies(L, p, k)
  PROVE  j = k
<1>1. /\ j.act = k.act /\ j.bck = k.bck /\ j.wact = k.wact /\ j.wbck = k.wbck /\ j.fbck = k.fbck
      /\ j.tot = k.tot
  BY DEF Tallies, Counts
<1> QED BY <1>1 DEF BackendRecords

LEMMA BalancedView ==
  ASSUME NEW b \in States, Balanced(b)
  PROVE  LET fresh == FwrrInitServerGroups(b.sv)
         IN  b.px = fresh.px /\ \A s \in Servers : b.sv[s].tree = fresh.sv[s].tree
<1> DEFINE f == b.sv
           fresh == FwrrInitServerGroups(f)
<1>1. f \in [Servers -> ServerRecords] /\ b.px \in [Backends -> BackendRecords]
  BY DEF States
<1>2. fresh.px = [p \in Backends |-> RecountServers(f, p)]
  BY DEF FwrrInitServerGroups
<1>3. \A s \in Servers : fresh.sv[s].tree = SrvIsUsable(f[s])
  <2> TAKE s \in Servers
  <2>1. fresh.sv[s] = [f[s] EXCEPT !.prev = Load(f[s]), !.tree = SrvIsUsable(f[s])]
    BY DEF FwrrInitServerGroups
  <2>2. f[s] \in ServerRecords
    BY <1>1
  <2> DEFINE r == f[s]
             x == Load(f[s])
             u == SrvIsUsable(f[s])
             q == fresh.sv[s]
  <2>3. q = [r EXCEPT !.prev = x, !.tree = u] /\ r \in ServerRecords
    BY <2>1, <2>2
  <2> HIDE DEF r, x, u, q
  <2>4. q.tree = u
    BY <2>3 DEF ServerRecords
  <2> QED BY <2>4 DEF u, q
<1>4. Prevs(f) = LoadsOf(f)
  BY DEF Balanced, Prevs, LoadsOf
<1>5. ASSUME NEW p \in Backends PROVE b.px[p] = RecountServers(f, p)
  <2>1. Tallies(LoadsOf(f), p, b.px[p])
    BY <1>4 DEF Balanced, Agreed
  <2>2. RecountServers(f, p) \in BackendRecords /\ Tallies(LoadsOf(f), p, RecountServers(f, p))
    BY <1>1, RecountIs
  <2> DEFINE L == LoadsOf(f)
             k == RecountServers(f, p)
  <2> HIDE DEF L, k
  <2>3. b.px[p] = k
    BY <1>1, <2>1, <2>2, OneTally DEF L, k
  <2> QED BY <2>3 DEF k
<1>6. b.px = fresh.px
  BY <1>1, <1>2, <1>5
<1>7. ASSUME NEW s \in Servers PROVE b.sv[s].tree = fresh.sv[s].tree
  <2>1. b.sv[s] \in ServerRecords
    BY <1>1
  <2>2. b.sv[s].tree \in BOOLEAN
    BY <2>1 DEF ServerRecords
  <2>3. b.sv[s].tree <=> SrvIsUsable(b.sv[s])
    BY <2>1, LoadType DEF Balanced, Agreed
  <2>4. SrvIsUsable(b.sv[s]) \in BOOLEAN
    BY DEF SrvIsUsable
  <2> QED BY <1>3, <2>2, <2>3, <2>4
<1> QED BY <1>6, <1>7

\* A server as the configuration leaves it.
FreshOne(t, r) ==
  /\ r \in ServerRecords /\ Belongs(t, r) /\ r.admin \subseteq {"FMAINT", "IMAINT"}
  /\ r.state = IF InMaint(r) THEN "STOPPED" ELSE "RUNNING"

\* The place of a server in Resolution.
Place(t) == CHOOSE i \in 1..Len(Resolution) : Resolution[i] = t

LEMMA PlaceIs ==
  /\ \A t \in Servers : Place(t) \in 1..Len(Resolution) /\ Resolution[Place(t)] = t
  /\ \A i \in 1..Len(Resolution) : Resolution[i] \in Servers /\ Place(Resolution[i]) = i
  /\ Len(Resolution) \in Nat
<1>1. Resolution \in Seq(Servers) /\ IsInjective(Resolution)
  BY HealthAssumption
<1>2. Len(Resolution) \in Nat /\ DOMAIN Resolution = 1..Len(Resolution)
  BY <1>1, LenProperties
<1>3. \A i \in 1..Len(Resolution) : Resolution[i] \in Servers
  BY <1>1, <1>2, ElementOfSeq
<1>4. \A s \in Servers : \E i \in 1..Len(Resolution) : Resolution[i] = s
  BY <1>2 DEF Servers, Range
<1>5. \A i, j \in 1..Len(Resolution) : Resolution[i] = Resolution[j] => i = j
  BY <1>1, <1>2 DEF IsInjective
<1>6. \A t \in Servers : Place(t) \in 1..Len(Resolution) /\ Resolution[Place(t)] = t
  BY <1>4 DEF Place
<1>7. \A i \in 1..Len(Resolution) : Resolution[i] \in Servers /\ Place(Resolution[i]) = i
  BY <1>3, <1>5, <1>6
<1> QED BY <1>2, <1>6, <1>7

LEMMA DownFirst ==
  ASSUME NEW t \in Servers, NEW p \in Servers, Track[t] = p, HandedDown(t)
  PROVE  Track[p] = None \/ Place(p) < Place(t)
<1>1. DOMAIN Resolution = 1..Len(Resolution)
  BY HealthAssumption, LenProperties
<1>2. /\ Place(t) \in 1..Len(Resolution) /\ Resolution[Place(t)] = t
      /\ Place(p) \in 1..Len(Resolution) /\ Resolution[Place(p)] = p
  BY PlaceIs
<1> QED BY <1>1, <1>2 DEF HandedDown

\* How far tracking has been resolved.
Resolved(f, n) ==
  /\ f \in [Servers -> ServerRecords]
  /\ \A t \in Servers : FreshOne(t, f[t])
  /\ \A t \in Servers : Place(t) > n \/ Track[t] = None => "IMAINT" \notin f[t].admin
  /\ \A t \in Servers : Track[t] # None /\ "IMAINT" \in f[t].admin => InMaint(f[Track[t]])
  /\ \A t \in Servers : Place(t) <= n /\ Track[t] # None /\ HandedDown(t) /\ InMaint(f[Track[t]]) =>
       "IMAINT" \in f[t].admin

LEMMA FreshIs ==
  ASSUME NEW t \in Servers, NEW d \in BOOLEAN
  PROVE  FreshOne(t, Fresh(t, d)) /\ "IMAINT" \notin Fresh(t, d).admin
<1> DEFINE r == Fresh(t, d)
           h == IF d \/ t \notin Checked THEN 0 ELSE Rise
           a == IF d \/ t \notin Agents THEN 0 ELSE 1
           st == IF d THEN "STOPPED" ELSE "RUNNING"
           ad == IF d THEN {"FMAINT"} ELSE {}
           en == t \in Checked
           aen == t \in Agents
<1>1. h \in 0..Top /\ WDiv \in Nat
  BY TopRise, HealthAssumption DEF Tops
<1>2. a \in {0, 1} /\ st \in {"STOPPED", "RUNNING"} /\ ad \in SUBSET {"FMAINT"} /\ en \in BOOLEAN /\ aen \in BOOLEAN
  OBVIOUS
<1>3. (d => ad = {"FMAINT"} /\ st = "STOPPED") /\ (~d => ad = {} /\ st = "RUNNING")
  OBVIOUS
<1>4. (en <=> t \in Checked) /\ (aen <=> t \in Agents)
  OBVIOUS
<1>5. r = [ state |-> st, admin |-> ad, health |-> h, en |-> en, paused |-> d, res |-> "idle",
            agent |-> a, aen |-> aen, ares |-> "idle", errs |-> 0, uw |-> 1, ew |-> WDiv,
            since |-> 0, armed |-> FALSE, prev |-> 0, tree |-> FALSE ]
  BY DEF Fresh
<1> HIDE DEF r, h, a, st, ad, en, aen
<1>6. ad \in SUBSET (MAINT \cup DRAIN)
  BY <1>2 DEF MAINT
<1>7. r \in ServerRecords
  BY <1>1, <1>2, <1>5, <1>6 DEF ServerRecords
<1>8. r.admin = ad /\ r.state = st /\ r.en = en /\ r.aen = aen /\ r.res = "idle" /\ r.ares = "idle"
  BY <1>5
<1> HIDE DEF r
<1>9. Belongs(t, r) /\ r.admin \subseteq {"FMAINT", "IMAINT"} /\ "IMAINT" \notin r.admin
  BY <1>2, <1>4, <1>8 DEF Belongs
<1>10. r.state = IF InMaint(r) THEN "STOPPED" ELSE "RUNNING"
  BY <1>3, <1>8 DEF InMaint, MAINT
<1> QED BY <1>7, <1>9, <1>10 DEF FreshOne, r

LEMMA ResolveKeeps ==
  ASSUME NEW n \in 1..Len(Resolution), NEW f, Resolved(f, n - 1)
  PROVE  Resolved(ResolveTrack(f, Resolution[n]), n)
<1> DEFINE t == Resolution[n]
           g == ResolveTrack(f, t)
           q == [f[t] EXCEPT !.admin = f[t].admin \cup {"IMAINT"}, !.state = "STOPPED",
                             !.health = 0, !.agent = 0]
<1>1. t \in Servers /\ Place(t) = n /\ n \in Nat /\ n - 1 \in Nat
  BY PlaceIs
<1>2. \A u \in Servers : Place(u) \in Nat /\ (Place(u) = n => u = t)
  BY <1>1, PlaceIs
<1>3. /\ f \in [Servers -> ServerRecords] /\ \A u \in Servers : FreshOne(u, f[u])
      /\ \A u \in Servers : Place(u) > n - 1 \/ Track[u] = None => "IMAINT" \notin f[u].admin
      /\ \A u \in Servers : Track[u] # None /\ "IMAINT" \in f[u].admin => InMaint(f[Track[u]])
      /\ \A u \in Servers : Place(u) <= n - 1 /\ Track[u] # None /\ HandedDown(u) /\ InMaint(f[Track[u]]) =>
           "IMAINT" \in f[u].admin
  BY DEF Resolved
<1>4. \A u \in Servers : Track[u] # None => Track[u] \in Servers /\ Track[u] # u
  BY Above
\* t hands what it inherits to those resolved after it only.
<1>5. ASSUME NEW u \in Servers, Place(u) <= n, Track[u] = t, HandedDown(u) PROVE Track[t] = None
  <2>1. Track[t] = None \/ Place(t) < Place(u)
    BY <1>1, <1>5, DownFirst
  <2> QED BY <1>1, <1>2, <1>5, <2>1
<1>6. ~(Track[t] # None /\ InMaint(f[Track[t]])) => g = f
  BY DEF ResolveTrack
<1>7. Track[t] # None /\ InMaint(f[Track[t]]) => g = [f EXCEPT ![t] = q]
  BY DEF ResolveTrack
<1> HIDE DEF t, g
<1>8. CASE ~(Track[t] # None /\ InMaint(f[Track[t]]))
  <2>1. \A u \in Servers : Place(u) > n => Place(u) > n - 1
    BY <1>1, <1>2
  <2>2. ASSUME NEW u \in Servers, Place(u) <= n, Track[u] # None, HandedDown(u), InMaint(f[Track[u]])
        PROVE  "IMAINT" \in f[u].admin
    <3>1. u # t
      BY <1>8, <2>2
    <3>2. Place(u) <= n - 1
      BY <1>1, <1>2, <2>2, <3>1
    <3> QED BY <1>3, <2>2, <3>2
  <2>3. Resolved(f, n)
    BY <1>3, <2>1, <2>2 DEF Resolved
  <2> QED BY <1>6, <1>8, <2>3 DEF t, g
<1>9. CASE Track[t] # None /\ InMaint(f[Track[t]])
  <2> DEFINE r == f[t]
  <2>1. r \in ServerRecords /\ FreshOne(t, r)
    BY <1>1, <1>3
  <2>2. q = [r EXCEPT !.admin = r.admin \cup {"IMAINT"}, !.state = "STOPPED", !.health = 0, !.agent = 0]
    OBVIOUS
  <2> HIDE DEF r, q
  <2>3. 0 \in 0..Top /\ r.admin \cup {"IMAINT"} \in SUBSET (MAINT \cup DRAIN)
    BY <2>1, TopRise DEF Tops, ServerRecords, MAINT
  <2>4. /\ q \in ServerRecords /\ q.admin = r.admin \cup {"IMAINT"} /\ q.state = "STOPPED"
        /\ q.en = r.en /\ q.aen = r.aen /\ q.res = r.res /\ q.ares = r.ares
    BY <2>1, <2>2, <2>3 DEF ServerRecords
  <2>5. FreshOne(t, q) /\ InMaint(q) /\ "IMAINT" \in q.admin
    BY <2>1, <2>4 DEF FreshOne, Belongs, InMaint, MAINT
  <2>6. g \in [Servers -> ServerRecords] /\ g[t] = q /\ \A u \in Servers : u # t => g[u] = f[u]
    BY <1>1, <1>3, <1>7, <1>9, <2>4
  <2>7. \A u \in Servers : FreshOne(u, g[u])
    BY <1>3, <2>5, <2>6
  <2>8. ASSUME NEW u \in Servers, Place(u) > n \/ Track[u] = None PROVE "IMAINT" \notin g[u].admin
    <3>1. u # t /\ (Place(u) > n - 1 \/ Track[u] = None)
      BY <1>1, <1>2, <1>9, <2>8
    <3> QED BY <1>3, <2>6, <3>1
  <2>9. \A u \in Servers : InMaint(f[u]) => InMaint(g[u])
    BY <2>5, <2>6
  <2>10. ASSUME NEW u \in Servers, Track[u] # None, "IMAINT" \in g[u].admin
         PROVE  InMaint(g[Track[u]])
    <3>1. InMaint(f[Track[u]])
      BY <1>3, <1>9, <2>6, <2>10
    <3> QED BY <1>4, <2>9, <2>10, <3>1
  <2>11. ASSUME NEW u \in Servers, Place(u) <= n, Track[u] # None, HandedDown(u), InMaint(g[Track[u]])
         PROVE  "IMAINT" \in g[u].admin
    <3>1. CASE u = t
      BY <2>5, <2>6, <3>1
    <3>2. CASE u # t
      <4>1. Track[u] # t
        BY <1>5, <1>9, <2>11
      <4>2. g[Track[u]] = f[Track[u]] /\ g[u] = f[u]
        BY <1>4, <2>6, <2>11, <3>2, <4>1
      <4>3. Place(u) <= n - 1
        BY <1>1, <1>2, <2>11, <3>2
      <4> QED BY <1>3, <2>11, <4>2, <4>3
    <3> QED BY <3>1, <3>2
  <2>12. Resolved(g, n)
    BY <2>6, <2>7, <2>8, <2>10, <2>11 DEF Resolved
  <2> QED BY <2>12 DEF t, g
<1> QED BY <1>8, <1>9

IsResolution(h, disabled, n) ==
  h = [k \in 0..n |-> IF k = 0 THEN [s \in Servers |-> Fresh(s, s \in disabled)]
                      ELSE ResolveTrack(h[k - 1], Resolution[k])]

LEMMA ResolutionExists ==
  ASSUME NEW disabled, NEW n \in Nat
  PROVE  \E h : IsResolution(h, disabled, n)
<1> DEFINE first == [s \in Servers |-> Fresh(s, s \in disabled)]
           D == {m \in Nat : \A h : ~IsResolution(h, disabled, m)}
           next(v, k) == ResolveTrack(v, Resolution[k])
<1> SUFFICES ASSUME D # {} PROVE FALSE
  OBVIOUS
<1>1. PICK m \in D : \A y \in D : <<y, m>> \notin OpToRel(<, Nat)
  BY NatLessThanWellFounded, WFMin
<1>2. \A y \in D : ~(y < m)
  BY <1>1 DEF OpToRel
<1>3. CASE m = 0
  <2> DEFINE h == [k \in 0..0 |-> first]
  <2>1. h = [k \in 0..0 |-> IF k = 0 THEN first ELSE ResolveTrack(h[k - 1], Resolution[k])]
    OBVIOUS
  <2>2. IsResolution(h, disabled, m)
    BY <1>3, <2>1 DEF IsResolution
  <2> QED BY <2>2
<1>4. CASE m > 0
  <2>1. m - 1 \in Nat /\ m - 1 < m
    BY <1>4
  <2>2. PICK g : IsResolution(g, disabled, m - 1)
    BY <1>2, <2>1
  <2>3. \A k \in 0..(m - 1) : g[k] = IF k = 0 THEN first ELSE next(g[k - 1], k)
    BY <2>2 DEF IsResolution
  <2> DEFINE h == [k \in 0..m |-> IF k < m THEN g[k] ELSE next(g[m - 1], m)]
  <2> HIDE DEF first, next
  <2>4. ASSUME NEW k \in 0..m PROVE h[k] = IF k = 0 THEN first ELSE next(h[k - 1], k)
    <3>1. CASE k = 0
      BY <1>4, <2>1, <2>3, <3>1
    <3>2. CASE k > 0 /\ k < m
      <4>1. k \in 0..(m - 1) /\ k - 1 \in 0..m /\ k - 1 < m
        BY <3>2
      <4>2. h[k] = g[k] /\ h[k - 1] = g[k - 1]
        BY <3>2, <4>1
      <4> QED BY <2>3, <3>2, <4>1, <4>2
    <3>3. CASE k = m
      <4>1. m - 1 \in 0..m /\ m - 1 < m /\ ~(m < m) /\ m # 0
        BY <1>4
      <4>2. h[m - 1] = g[m - 1] /\ h[m] = next(g[m - 1], m)
        BY <4>1
      <4> QED BY <3>3, <4>1, <4>2
    <3> QED BY <3>1, <3>2, <3>3
  <2> HIDE DEF h
  <2>5. h = [k \in 0..m |-> IF k = 0 THEN first ELSE next(h[k - 1], k)]
    <3>1. h = [k \in 0..m |-> h[k]]
      BY DEF h
    <3> QED BY <2>4, <3>1
  <2>6. IsResolution(h, disabled, m)
    BY <2>5 DEF IsResolution, first, next
  <2> QED BY <2>6
<1> QED BY <1>3, <1>4

LEMMA ConfiguredIs ==
  ASSUME NEW disabled
  PROVE  Resolved(Configured(disabled), Len(Resolution))
<1> DEFINE n == Len(Resolution)
           H == CHOOSE h : h = [k \in 0..n |-> IF k = 0 THEN [s \in Servers |-> Fresh(s, s \in disabled)]
                                               ELSE ResolveTrack(h[k - 1], Resolution[k])]
<1>1. n \in Nat /\ \A t \in Servers : Place(t) \in 1..n
  BY PlaceIs
<1>2. Configured(disabled) = H[n]
  BY DEF Configured
<1> HIDE DEF n
<1>3. H = [k \in 0..n |-> IF k = 0 THEN [s \in Servers |-> Fresh(s, s \in disabled)]
                          ELSE ResolveTrack(H[k - 1], Resolution[k])]
  <2>1. \E h : h = [k \in 0..n |-> IF k = 0 THEN [s \in Servers |-> Fresh(s, s \in disabled)]
                                   ELSE ResolveTrack(h[k - 1], Resolution[k])]
    <3>1. PICK h : IsResolution(h, disabled, n)
      BY <1>1, ResolutionExists, Zenon
    <3> QED BY <3>1, Zenon DEF IsResolution
  <2> QED BY <2>1, Zenon
<1> HIDE DEF H
<1>4. \A k \in 0..n : H[k] = IF k = 0 THEN [s \in Servers |-> Fresh(s, s \in disabled)]
                             ELSE ResolveTrack(H[k - 1], Resolution[k])
  BY <1>3
<1> DEFINE D == {m \in 0..n : ~Resolved(H[m], m)}
<1>5. D = {}
  <2> SUFFICES ASSUME D # {} PROVE FALSE
    OBVIOUS
  <2>0. D \in SUBSET Nat
    BY <1>1
  <2>1. PICK m \in D : \A y \in D : <<y, m>> \notin OpToRel(<, Nat)
    BY <2>0, NatLessThanWellFounded, WFMin
  <2>2. \A y \in D : ~(y < m)
    BY <2>0, <2>1 DEF OpToRel
  <2>3. m \in 0..n /\ ~Resolved(H[m], m)
    BY <2>1
  <2>4. CASE m = 0
    <3> DEFINE f == [s \in Servers |-> Fresh(s, s \in disabled)]
    <3>1. H[m] = f
      BY <1>4, <2>3, <2>4
    <3>2. \A t \in Servers : FreshOne(t, f[t]) /\ "IMAINT" \notin f[t].admin
      <4> TAKE t \in Servers
      <4> DEFINE d == t \in disabled
      <4>1. f[t] = Fresh(t, d) /\ d \in BOOLEAN
        OBVIOUS
      <4> HIDE DEF d, f
      <4> QED BY <4>1, FreshIs
    <3>3. f \in [Servers -> ServerRecords]
      <4>1. \A t \in Servers : f[t] \in ServerRecords
        BY <3>2 DEF FreshOne
      <4>2. f = [t \in Servers |-> f[t]]
        OBVIOUS
      <4> HIDE DEF f
      <4> QED BY <4>1, <4>2
    <3> HIDE DEF f
    <3>4. \A t \in Servers : ~(Place(t) <= m)
      BY <1>1, <2>4
    <3>5. Resolved(f, m)
      BY <3>2, <3>3, <3>4 DEF Resolved
    <3> QED BY <2>3, <3>1, <3>5
  <2>5. CASE m > 0
    <3>1. m - 1 \in 0..n /\ m - 1 < m /\ m \in 1..n
      BY <1>1, <2>3, <2>5
    <3>2. Resolved(H[m - 1], m - 1)
      BY <2>2, <3>1
    <3>3. H[m] = ResolveTrack(H[m - 1], Resolution[m])
      <4>1. m # 0
        BY <3>1
      <4> QED BY <1>4, <2>3, <4>1, Zenon
    <3>4. Resolved(ResolveTrack(H[m - 1], Resolution[m]), m)
      BY <3>1, <3>2, ResolveKeeps DEF n
    <3> QED BY <2>3, <3>3, <3>4
  <2> QED BY <1>1, <2>3, <2>4, <2>5
<1>6. Resolved(H[n], n)
  BY <1>1, <1>5
<1> QED BY <1>2, <1>6 DEF n

LEMMA InitFine ==
  ASSUME Init
  PROVE  Fine(Now) /\ stable \in BOOLEAN
<1>1. PICK D \in SUBSET MayBeDisabled :
        sv = FwrrInitServerGroups(Configured(D)).sv /\ px = FwrrInitServerGroups(Configured(D)).px
  BY DEF Init
<1> DEFINE f == Configured(D)
           b == Now
<1>2. b.sv = sv /\ b.px = px /\ b = [sv |-> sv, px |-> px]
  BY DEF Now
<1>3. Resolved(f, Len(Resolution))
  BY ConfiguredIs
<1>4. /\ b.sv = [s \in Servers |-> [f[s] EXCEPT !.prev = Load(f[s]), !.tree = SrvIsUsable(f[s])]]
      /\ b.px = [p \in Backends |-> RecountServers(f, p)]
  BY <1>1, <1>2 DEF FwrrInitServerGroups
<1> HIDE DEF f, b
<1>5. \A t \in Servers : Place(t) <= Len(Resolution)
  BY PlaceIs
<1>6. /\ f \in [Servers -> ServerRecords] /\ \A t \in Servers : FreshOne(t, f[t])
      /\ \A t \in Servers : Track[t] # None /\ "IMAINT" \in f[t].admin => InMaint(f[Track[t]])
      /\ \A t \in Servers : Track[t] # None /\ HandedDown(t) /\ InMaint(f[Track[t]]) => "IMAINT" \in f[t].admin
  BY <1>3, <1>5 DEF Resolved
<1>7. ASSUME NEW t \in Servers
      PROVE  /\ b.sv[t] \in ServerRecords /\ Alike(f[t], b.sv[t])
             /\ b.sv[t].prev = Load(f[t]) /\ b.sv[t].tree = SrvIsUsable(f[t])
  <2> DEFINE r == f[t]
             x == Load(f[t])
             u == SrvIsUsable(f[t])
             q == b.sv[t]
  <2>1. r \in ServerRecords /\ x \in Nat /\ u \in BOOLEAN
    BY <1>6, LoadType DEF SrvIsUsable
  <2>2. q = [r EXCEPT !.prev = x, !.tree = u]
    BY <1>4
  <2> HIDE DEF r, x, u, q
  <2>3. q \in ServerRecords /\ Alike(r, q) /\ q.prev = x /\ q.tree = u
    BY <2>1, <2>2 DEF ServerRecords, Alike
  <2> QED BY <2>3 DEF r, x, u, q
<1>8. \A t \in Servers : Load(b.sv[t]) = Load(f[t])
  BY <1>7 DEF Alike, Load, SrvIsUsable
<1>9. Prevs(b.sv) = LoadsOf(f) /\ LoadsOf(b.sv) = LoadsOf(f)
  BY <1>7, <1>8 DEF Prevs, LoadsOf
<1>10. b \in States
  <2>1. \A p \in Backends : RecountServers(f, p) \in BackendRecords
    BY <1>6, RecountIs
  <2>2. b.sv \in [Servers -> ServerRecords]
    <3> DEFINE g == b.sv
    <3>1. g = [t \in Servers |-> g[t]]
      BY <1>4
    <3>2. \A t \in Servers : g[t] \in ServerRecords
      BY <1>7
    <3> HIDE DEF g
    <3>3. g \in [Servers -> ServerRecords]
      BY <3>1, <3>2
    <3> QED BY <3>3 DEF g
  <2>3. b.px \in [Backends -> BackendRecords]
    BY <1>4, <2>1
  <2>4. b = [sv |-> b.sv, px |-> b.px]
    BY <1>2
  <2> QED BY <2>2, <2>3, <2>4 DEF States
<1>11. Balanced(b)
  <2>1. ASSUME NEW p \in Backends PROVE Tallies(Prevs(b.sv), p, b.px[p])
    BY <1>4, <1>6, <1>9, RecountIs
  <2>2. ASSUME NEW t \in Servers PROVE (b.sv[t].tree <=> b.sv[t].prev > 0) /\ b.sv[t].prev = Load(b.sv[t])
    <3>1. f[t] \in ServerRecords
      BY <1>6
    <3> QED BY <1>7, <1>8, <3>1, LoadType
  <2> QED BY <2>1, <2>2 DEF Balanced, Agreed
<1>12. ASSUME NEW t \in Servers
       PROVE  /\ b.sv[t].admin = f[t].admin /\ b.sv[t].state = f[t].state
              /\ FreshOne(t, f[t]) /\ (InMaint(b.sv[t]) <=> InMaint(f[t])) /\ Belongs(t, b.sv[t])
  BY <1>6, <1>7 DEF Alike, InMaint, FreshOne, Belongs
<1>13. ASSUME NEW t \in Servers
       PROVE  /\ StoppedInMaint(b.sv[t]) /\ Belongs(t, b.sv[t])
              /\ AdminEdge(b.sv, t) /\ FollowEdge(b.sv, t) /\ Told(t, b.sv[t])
  <2>1. StoppedInMaint(b.sv[t]) /\ Told(t, b.sv[t])
    BY <1>12 DEF FreshOne, StoppedInMaint, Told
  <2>2. ASSUME Track[t] # None
        PROVE  /\ LoosePair(b.sv[Track[t]], b.sv[t])
               /\ HandedDown(t) => AdminPair(b.sv[Track[t]], b.sv[t]) /\ FollowPair(b.sv[Track[t]], b.sv[t])
    <3> DEFINE p == b.sv[Track[t]]
               q == b.sv[t]
    <3>1. Track[t] \in Servers
      BY <2>2, Above
    <3>2. /\ q.admin \subseteq {"FMAINT", "IMAINT"} /\ p.admin \subseteq {"FMAINT", "IMAINT"}
          /\ q.state = (IF InMaint(q) THEN "STOPPED" ELSE "RUNNING")
          /\ p.state = (IF InMaint(p) THEN "STOPPED" ELSE "RUNNING")
          /\ "IMAINT" \in q.admin => InMaint(p)
          /\ HandedDown(t) /\ InMaint(p) => "IMAINT" \in q.admin
      BY <1>6, <1>12, <2>2, <3>1 DEF FreshOne
    <3> HIDE DEF p, q
    <3>3. LoosePair(p, q) /\ (HandedDown(t) => AdminPair(p, q))
      BY <3>2 DEF AdminPair, LoosePair, InMaint, DRAIN
    <3>4. HandedDown(t) => FollowPair(p, q)
      BY <3>2 DEF FollowPair, SameDown, InMaint, MAINT
    <3> QED BY <3>3, <3>4 DEF p, q
  <2> QED BY <1>12, <2>1, <2>2 DEF AdminEdge, FollowEdge
<1>14. Checked \subseteq Servers
  BY HealthAssumption
<1>15. Fine(b)
  BY <1>10, <1>11, <1>13, <1>14 DEF Fine, Good
<1> QED BY <1>15 DEF Init, b

-----------------------------------------------------------------------------
(* The theorems.                                                           *)

LEMMA SpecFine == Spec => [](Fine(Now) /\ stable \in BOOLEAN)
<1>1. Init => Fine(Now) /\ stable \in BOOLEAN
  BY InitFine
<1>2. Fine(Now) /\ stable \in BOOLEAN /\ [Next]_vars => (Fine(Now) /\ stable \in BOOLEAN)'
  <2> SUFFICES ASSUME Fine(Now), stable \in BOOLEAN, [Next]_vars
               PROVE  (Fine(Now) /\ stable \in BOOLEAN)'
    OBVIOUS
  <2>1. Fine(Now')
    BY NextFine
  <2>2. stable' = stable \/ stable' = TRUE
    <3>1. CASE Stabilise \/ UNCHANGED vars
      BY <3>1 DEF Stabilise, vars
    <3>2. ASSUME NEW s \in Servers,
                 \/ CheckTask(s) \/ AgentTask(s) \/ Command(s)
                 \/ HealthAdjust(s) \/ HealthAdjustOk(s) \/ Tick(s) \/ ServerWarmup(s)
          PROVE  stable' = stable
      BY <3>2 DEF CheckTask, CheckStart, CheckDone, CheckAnswer, AgentTask, AgentStart, AgentFails,
                  AgentDone, AgentReply, Command, SetState, SetFlag, ClearFlag, SetHealth, SetAgent,
                  ToggleCheck, ToggleAgent, SetWeight, Order, HealthAdjust, HealthAdjustOk, Tick,
                  ServerWarmup
    <3> QED BY <3>1, <3>2 DEF Next
  <2> QED BY <2>1, <2>2
<1> QED BY <1>1, <1>2, PTL DEF Spec

\* The inductive invariant of the states a server's checks, agent and operator
\* bring about implies what ServerHealth names.
LEMMA FineHolds ==
  ASSUME Fine(Now), stable \in BOOLEAN
  PROVE  HealthInv
<1>1. Now.sv = sv /\ Now.px = px /\ Now \in States /\ Balanced(Now)
  BY DEF Now, Fine, Good
<1>2. \A t \in Servers : /\ StoppedInMaint(sv[t]) /\ Belongs(t, sv[t])
                         /\ AdminEdge(sv, t) /\ FollowEdge(sv, t)
  BY <1>1 DEF Fine, Good
<1>3. TypeOK
  BY <1>1 DEF States, TypeOK
<1>4. Committed
  BY <1>1 DEF Balanced, Committed
<1>5. BalancerView
  <2> DEFINE b == Now
  <2>1. b \in States /\ Balanced(b) /\ b.sv = sv /\ b.px = px
    BY <1>1
  <2> HIDE DEF b
  <2>2. LET fresh == FwrrInitServerGroups(b.sv)
        IN  b.px = fresh.px /\ \A s \in Servers : b.sv[s].tree = fresh.sv[s].tree
    BY <2>1, BalancedView
  <2> QED BY <2>1, <2>2 DEF BalancerView
<1>6. MaintStopped
  BY <1>2 DEF MaintStopped, StoppedInMaint
<1>7. ChecksBelong
  BY <1>2 DEF ChecksBelong, Belongs
<1>8. AdminInherited
  BY <1>2 DEF AdminInherited, AdminEdge, AdminPair, LoosePair
<1>9. TrackersFollow
  BY <1>2 DEF TrackersFollow, FollowEdge, FollowPair, SameDown
<1> QED BY <1>3, <1>4, <1>5, <1>6, <1>7, <1>8, <1>9 DEF HealthInv

\* Whatever checks, agents, traffic, time and the operator do, in any order:
\* records and counters keep their types, servers in maintenance are stopped,
\* and the balancer was told the weight every server has now.
THEOREM HealthSafety == Spec => []HealthInv
<1>1. Fine(Now) /\ stable \in BOOLEAN => HealthInv
  BY FineHolds
<1> QED BY <1>1, SpecFine, PTL

\* Inherited flags match those of the server tracked, however
\* srv_set_admin_flag() and srv_clr_admin_flag() went down the chains, and in
\* whatever order cfgparse.c resolved them; where it went against a chain, a
\* tracker may miss a maintenance it should inherit but has none too many.
THEOREM AdminSafety == Spec => []AdminInherited
<1>1. HealthInv => AdminInherited
  BY DEF HealthInv
<1> QED BY <1>1, HealthSafety, PTL

\* A tracker without an agent is down, or stopping, with the server it tracks,
\* once the configuration handed down to it what that server had.
THEOREM TrackSafety == Spec => []TrackersFollow
<1>1. HealthInv => TrackersFollow
  BY DEF HealthInv
<1> QED BY <1>1, HealthSafety, PTL

\* What the round robin keeps is what recount_servers() would find.
THEOREM BalancerSafety == Spec => []BalancerView
<1>1. HealthInv => BalancerView
  BY DEF HealthInv
<1> QED BY <1>1, HealthSafety, PTL

\* Where traffic errors cannot take back a success that is not concluded yet,
\* no checked server is left down without a reason.
THEOREM DownSafety ==
  ASSUME ErrLimit = 0 \/ OnError \in {"fastinter", "mark-down"} \/ Fall = 1
  PROVE  Spec => []DownHasReason
<1>1. Fine(Now) => DownHasReason
  <2> SUFFICES ASSUME Fine(Now), NEW s \in Checked, sv[s].state = "STOPPED",
                      sv[s].res = "idle", sv[s].ares = "idle"
               PROVE  InMaint(sv[s]) \/ sv[s].health < Rise \/ (s \in Agents /\ sv[s].agent = 0)
    BY DEF DownHasReason
  <2>1. Steady
    BY DEF Steady
  <2>2. s \in Servers
    BY HealthAssumption
  <2>3. Told(s, sv[s])
    BY <2>1, <2>2, NowIs
  <2> QED BY <2>3 DEF Told, Reason
<1> QED BY <1>1, SpecFine, PTL
=============================================================================
