-------------------------- MODULE TakeoverProofs ---------------------------
(***************************************************************************)
(* Proofs about the hot reconfiguration: for every set of processes, every *)
(* configuration of theirs and every limit, jobs counts the listeners and  *)
(* the sessions of a process right through pauses, resumptions and stops,  *)
(* so that no process leaves with a session, and no listener that waits is *)
(* forgotten.                                                              *)
(***************************************************************************)
EXTENDS Takeover, FiniteSetTheorems, WellFoundedInduction, SequenceTheorems, TLAPS

(* The sessions of a process.                                              *)

SessOf(nb) == UNION {{x} \X (1..nb[x]) : x \in DOMAIN nb}
Counts(P) == [P -> 0..ListenerMax]

\* The sessions are the numbers up to nbconn, by listener.
LEMMA SessIs ==
  ASSUME NEW P, NEW nb \in Counts(P)
  PROVE  SessOf(nb) = {s \in P \X (1..ListenerMax) : s[2] <= nb[s[1]]}
<1>0. ListenerMax \in Nat
  BY TakeoverAssumption
<1> DEFINE T == {s \in P \X (1..ListenerMax) : s[2] <= nb[s[1]]}
<1>1. DOMAIN nb = P /\ \A x \in P : nb[x] \in 0..ListenerMax
  BY DEF Counts
<1>2. ASSUME NEW s \in SessOf(nb) PROVE s \in T
  <2>1. PICK x \in P : s \in {x} \X (1..nb[x])
    BY <1>1 DEF SessOf
  <2>2. PICK i \in 1..nb[x] : s = <<x, i>>
    BY <2>1
  <2>3. i \in 1..ListenerMax /\ i <= nb[x]
    BY <1>0, <1>1, <2>2
  <2> QED BY <2>2, <2>3
<1>3. ASSUME NEW s \in T PROVE s \in SessOf(nb)
  <2>1. PICK x \in P, i \in 1..ListenerMax : s = <<x, i>> /\ i <= nb[x]
    OBVIOUS
  <2>2. i \in 1..nb[x]
    BY <1>0, <1>1, <2>1
  <2>3. s \in {x} \X (1..nb[x])
    BY <2>1, <2>2
  <2> QED BY <1>1, <2>3 DEF SessOf
<1> QED BY <1>2, <1>3

\* The i-th session of a listener.
LEMMA SessMember ==
  ASSUME NEW P, NEW nb \in Counts(P)
  PROVE  /\ \A e \in SessOf(nb) : \E y \in P, i \in 1..ListenerMax : e = <<y, i>> /\ i <= nb[y]
         /\ \A y \in P : \A i \in 1..ListenerMax : i <= nb[y] => <<y, i>> \in SessOf(nb)
  BY SessIs

\* They are finitely many.
LEMMA SessFinite ==
  ASSUME NEW P, IsFiniteSet(P), NEW nb \in Counts(P)
  PROVE  /\ IsFiniteSet(SessOf(nb)) /\ Cardinality(SessOf(nb)) \in Nat
         /\ Cardinality(SessOf(nb)) = 0 <=> \A x \in P : nb[x] = 0
<1>0. ListenerMax \in Nat /\ 1 \in Int /\ ListenerMax \in Int
  BY TakeoverAssumption
<1>1. IsFiniteSet(1..ListenerMax)
  BY <1>0, FS_Interval
<1>2. IsFiniteSet(P \X (1..ListenerMax))
  BY <1>1, FS_Product
<1>3. SessOf(nb) \in SUBSET (P \X (1..ListenerMax))
  BY SessIs
<1>4. IsFiniteSet(SessOf(nb)) /\ Cardinality(SessOf(nb)) \in Nat
  BY <1>2, <1>3, FS_Subset, FS_CardinalityType
<1>5. Cardinality(SessOf(nb)) = 0 <=> SessOf(nb) = {}
  BY <1>4, FS_EmptySet
<1>6. ASSUME NEW x \in P, nb[x] # 0 PROVE SessOf(nb) # {}
  <2>1. nb[x] \in 0..ListenerMax
    BY DEF Counts
  <2>2. <<x, 1>> \in P \X (1..ListenerMax) /\ 1 <= nb[x]
    BY <1>0, <1>6, <2>1
  <2>3. <<x, 1>> \in SessOf(nb)
    BY <2>2, SessIs
  <2> QED BY <2>3
<1>7. ASSUME \A x \in P : nb[x] = 0 PROVE SessOf(nb) = {}
  <2>1. SUFFICES ASSUME NEW s \in SessOf(nb) PROVE FALSE
    OBVIOUS
  <2>2. PICK x \in P, i \in 1..ListenerMax : s = <<x, i>> /\ i <= nb[x]
    BY SessIs
  <2> QED BY <1>7, <2>2
<1> QED BY <1>4, <1>5, <1>6, <1>7

\* One more session.
LEMMA SessMore ==
  ASSUME NEW P, IsFiniteSet(P), NEW nb \in Counts(P), NEW more \in Counts(P), NEW x \in P,
         more[x] = nb[x] + 1, \A y \in P : y # x => more[y] = nb[y]
  PROVE  Cardinality(SessOf(more)) = Cardinality(SessOf(nb)) + 1
<1>0. /\ ListenerMax \in Nat /\ nb[x] \in 0..ListenerMax /\ more[x] \in 0..ListenerMax
      /\ nb[x] + 1 \in 1..ListenerMax
  BY TakeoverAssumption DEF Counts
<1> DEFINE s == <<x, nb[x] + 1>>
<1>1. s \notin SessOf(nb)
  <2>1. SUFFICES ASSUME s \in SessOf(nb) PROVE FALSE
    OBVIOUS
  <2>2. s[2] <= nb[s[1]]
    BY <2>1, SessIs
  <2> QED BY <1>0, <2>2
<1>2. SessOf(more) = SessOf(nb) \cup {s}
  <2>1. ASSUME NEW e \in SessOf(more) PROVE e \in SessOf(nb) \cup {s}
    <3>1. PICK y \in P, i \in 1..ListenerMax : e = <<y, i>> /\ i <= more[y]
      BY SessMember
    <3>2. nb[y] \in 0..ListenerMax /\ i \in Nat
      BY <1>0 DEF Counts
    <3>3. i <= nb[y] \/ (y = x /\ i = nb[x] + 1)
      BY <1>0, <3>1, <3>2
    <3>4. i <= nb[y] => e \in SessOf(nb)
      BY <3>1, SessMember
    <3> QED BY <3>1, <3>3, <3>4
  <2>2. ASSUME NEW e \in SessOf(nb) PROVE e \in SessOf(more)
    <3>1. PICK y \in P, i \in 1..ListenerMax : e = <<y, i>> /\ i <= nb[y]
      BY SessMember
    <3>2. nb[y] \in 0..ListenerMax /\ i \in Nat
      BY <1>0 DEF Counts
    <3>3. i <= more[y]
      BY <1>0, <3>1, <3>2
    <3> QED BY <3>1, <3>3, SessMember
  <2>3. s \in SessOf(more)
    BY <1>0, SessMember
  <2> HIDE DEF s
  <2>4. \A e : e \in SessOf(more) <=> e \in SessOf(nb) \cup {s}
    BY <2>1, <2>2, <2>3
  <2> QED BY <2>4
<1>3. IsFiniteSet(SessOf(nb))
  BY SessFinite
<1> HIDE DEF s
<1> QED BY <1>1, <1>2, <1>3, FS_AddElement

-----------------------------------------------------------------------------
(* The records of the processes.                                           *)

Good(p, r) ==
  /\ r \in Record(p) /\ JobsCounted(r) /\ NotYetRunning(r) /\ Remembered(r)
  /\ r.phase = "exit" => Actconn(r) = 0

States == Bound \cup {"INIT", "ASSIGNED", "PAUSED"}

\* The sessions of a record.
LEMMA ActconnIs ==
  ASSUME NEW p \in Procs, NEW r \in Record(p)
  PROVE  /\ IsFiniteSet(PortsOf(p)) /\ r.nb \in Counts(PortsOf(p))
         /\ DOMAIN r.nb = PortsOf(p) /\ DOMAIN r.li = PortsOf(p) /\ r.li \in [PortsOf(p) -> States]
         /\ Actconn(r) = Cardinality(SessOf(r.nb)) /\ Actconn(r) \in Nat
         /\ Actconn(r) = 0 <=> \A x \in PortsOf(p) : r.nb[x] = 0
         /\ Cardinality(Busy(r)) \in Nat
<1>1. IsFiniteSet(PortsOf(p))
  BY TakeoverAssumption
<1>2. /\ r.nb \in Counts(PortsOf(p)) /\ DOMAIN r.nb = PortsOf(p) /\ DOMAIN r.li = PortsOf(p)
      /\ r.li \in [PortsOf(p) -> States]
  BY DEF Record, Counts, States
<1>3. Actconn(r) = Cardinality(SessOf(r.nb))
  BY DEF Actconn, SessOf
<1>4. /\ Cardinality(SessOf(r.nb)) \in Nat
      /\ Cardinality(SessOf(r.nb)) = 0 <=> \A x \in PortsOf(p) : r.nb[x] = 0
  BY <1>1, <1>2, SessFinite
<1>5. Busy(r) \in SUBSET PortsOf(p)
  BY <1>2 DEF Busy
<1>6. Cardinality(Busy(r)) \in Nat
  BY <1>1, <1>5, FS_Subset, FS_CardinalityType
<1> QED BY <1>1, <1>2, <1>3, <1>4, <1>6

\* What a record says of its listeners, its sessions and the timer of its queue is
\* all that matters, and the phase only once the loop runs.
LEMMA AlikeKeeps ==
  ASSUME NEW p \in Procs, NEW r, Good(p, r), NEW s \in Record(p), s.li = r.li, s.nb = r.nb,
         s.jobs = r.jobs, s.timer = r.timer,
         s.phase = r.phase \/ r.phase \notin {"run", "exit"}
  PROVE  Good(p, s)
<1>1. r \in Record(p)
  BY DEF Good
<1>2. Actconn(s) = Actconn(r) /\ Busy(s) = Busy(r)
  BY DEF Actconn, Busy
<1>3. r.phase \notin {"run", "exit"} => Actconn(r) = 0
  BY <1>1, ActconnIs DEF Good, NotYetRunning
<1> QED BY <1>2, <1>3 DEF Good, JobsCounted, NotYetRunning, Remembered

\* The same sessions, and listeners that are released or not as before.
LEMMA ListenersKeep ==
  ASSUME NEW p \in Procs, NEW r, Good(p, r), NEW s \in Record(p), s.nb = r.nb, s.jobs = r.jobs,
         \A x \in PortsOf(p) : s.li[x] = "INIT" <=> r.li[x] = "INIT"
  PROVE  JobsCounted(s) /\ Actconn(s) = Actconn(r)
<1>1. r \in Record(p)
  BY DEF Good
<1>2. Actconn(s) = Actconn(r)
  BY DEF Actconn
<1>3. DOMAIN s.li = PortsOf(p) /\ DOMAIN r.li = PortsOf(p)
  BY <1>1, ActconnIs
<1>4. Busy(s) = Busy(r)
  BY <1>3 DEF Busy
<1> QED BY <1>2, <1>4 DEF Good, JobsCounted

\* protocol_unbind_all(): before the loop, or once nothing is left to do.
LEMMA GoneKeeps ==
  ASSUME NEW p \in Procs, NEW r, Good(p, r), NEW phase \in Over,
         \/ r.phase \notin {"run", "exit"}
         \/ r.phase = "run" /\ phase = "exit" /\ r.jobs = 0
  PROVE  Good(p, Gone(r, phase))
<1> DEFINE s == Gone(r, phase)
<1>1. r \in Record(p)
  BY DEF Good
<1>2. DOMAIN r.li = PortsOf(p) /\ r.li \in [PortsOf(p) -> States]
  BY <1>1, ActconnIs
<1>3. \A x \in PortsOf(p) : /\ UnbindListener(r.li[x]) \in {"INIT", "ASSIGNED"}
                            /\ UnbindListener(r.li[x]) = "INIT" <=> r.li[x] = "INIT"
  BY <1>2 DEF UnbindListener, States, Bound
<1>4. /\ s.phase = phase /\ s.nb = r.nb /\ s.jobs = r.jobs /\ s.timer = r.timer
      /\ s.li = [x \in PortsOf(p) |-> UnbindListener(r.li[x])]
  BY <1>1, <1>2 DEF Gone, Record
<1>5. s \in Record(p)
  <2>1. [x \in PortsOf(p) |-> UnbindListener(r.li[x])]
           \in [PortsOf(p) -> Bound \cup {"INIT", "ASSIGNED", "PAUSED"}]
    BY <1>3
  <2>2. phase \in Phases /\ <<>> \in Seq(Signals) /\ {} \in SUBSET Signals
    BY DEF Phases
  <2> QED BY <1>1, <1>2, <2>1, <2>2 DEF Gone, Record
<1> HIDE DEF s
<1>6. JobsCounted(s) /\ Actconn(s) = Actconn(r)
  BY <1>3, <1>4, <1>5, ListenersKeep
<1>7. Actconn(r) = 0
  <2>1. CASE r.phase \notin {"run", "exit"}
    BY <1>1, <2>1, ActconnIs DEF Good, NotYetRunning
  <2>2. CASE r.jobs = 0
    BY <1>1, <2>2, ActconnIs DEF Good, JobsCounted
  <2> QED BY <2>1, <2>2
<1>8. \A x \in PortsOf(p) : r.nb[x] = 0
  BY <1>1, <1>7, ActconnIs
<1>9. DOMAIN s.li = PortsOf(p)
  BY <1>4
<1>10. Remembered(s)
  BY <1>3, <1>4, <1>9 DEF Remembered
<1>11. NotYetRunning(s)
  <2>1. CASE r.phase = "run" /\ phase = "exit"
    BY <1>4, <2>1 DEF NotYetRunning
  <2>2. CASE r.phase \notin {"run", "exit"}
    <3>1. \A x \in PortsOf(p) : r.li[x] # "INIT"
      BY <1>2, <2>2 DEF Good, NotYetRunning
    <3> QED BY <1>3, <1>4, <1>8, <1>9, <3>1 DEF NotYetRunning
  <2> QED BY <2>1, <2>2
<1> QED BY <1>5, <1>6, <1>7, <1>10, <1>11 DEF Good, s

-----------------------------------------------------------------------------
(* The signals.                                                            *)

\* Listeners of a running process change, none is released, and none is full or
\* limited that was not, or has not the sessions for it.
LEMMA RunningKeeps ==
  ASSUME NEW p \in Procs, NEW r, Good(p, r), r.phase = "run",
         NEW s \in Record(p), s.phase = "run", s.nb = r.nb, s.jobs = r.jobs, s.timer = r.timer,
         \A x \in PortsOf(p) :
            /\ s.li[x] = "INIT" <=> r.li[x] = "INIT"
            /\ s.li[x] = "FULL" => r.li[x] = "FULL" \/ r.nb[x] >= ListenerMax
            /\ s.li[x] = "LIMITED" => r.li[x] = "LIMITED"
  PROVE  Good(p, s)
<1>1. r \in Record(p)
  BY DEF Good
<1>2. DOMAIN s.li = PortsOf(p) /\ DOMAIN r.li = PortsOf(p)
  BY <1>1, ActconnIs
<1>3. JobsCounted(s) /\ Actconn(s) = Actconn(r)
  BY ListenersKeep
<1>4. Remembered(s)
  BY <1>2, <1>3 DEF Good, Remembered
<1> QED BY <1>3, <1>4 DEF Good, NotYetRunning

\* pause_proxy() releases no listener.
LEMMA PauseKeeps ==
  ASSUME NEW p \in Procs, NEW r, Good(p, r), r.phase = "run", NEW S
  PROVE  Good(p, PauseProxy(p, r, S)) /\ PauseProxy(p, r, S).phase = "run"
<1> DEFINE ports == UNION {PxPorts(p, i) : i \in S}
           px == [i \in DOMAIN r.px |-> IF i \in S THEN "PAUSED" ELSE r.px[i]]
           li == [x \in DOMAIN r.li |-> IF x \in ports THEN PauseListener(r.li[x]) ELSE r.li[x]]
           s == PauseProxy(p, r, S)
<1>1. r \in Record(p)
  BY DEF Good
<1>2. DOMAIN r.li = PortsOf(p) /\ r.li \in [PortsOf(p) -> States]
  BY <1>1, ActconnIs
<1>3. s = [r EXCEPT !.px = px, !.li = li]
  BY DEF PauseProxy
<1> HIDE DEF ports
<1>4. \A x \in PortsOf(p) : li[x] \in {r.li[x], "PAUSED"} /\ (li[x] = "INIT" <=> r.li[x] = "INIT")
  BY <1>2 DEF PauseListener, Bound
<1>5. li \in [PortsOf(p) -> Bound \cup {"INIT", "ASSIGNED", "PAUSED"}]
  BY <1>2, <1>4 DEF States
<1>6. px \in [DOMAIN Proxies[p] -> {"NEW", "READY", "PAUSED", "STOPPED"}]
  BY <1>1 DEF Record
<1> HIDE DEF li, px, s
<1>7. /\ s \in Record(p) /\ s.phase = "run" /\ s.nb = r.nb /\ s.jobs = r.jobs
      /\ s.timer = r.timer /\ s.li = li
  BY <1>1, <1>3, <1>5, <1>6 DEF Record
<1>8. Good(p, s)
  <2>1. \A x \in PortsOf(p) : /\ s.li[x] = "INIT" <=> r.li[x] = "INIT"
                              /\ s.li[x] = "FULL" => r.li[x] = "FULL" \/ r.nb[x] >= ListenerMax
                              /\ s.li[x] = "LIMITED" => r.li[x] = "LIMITED"
    BY <1>4, <1>7
  <2> QED BY <1>7, <2>1, RunningKeeps
<1> QED BY <1>7, <1>8 DEF s

\* resume_proxy() resumes no listener that was released, and knows which are full.
LEMMA ResumeKeeps ==
  ASSUME NEW p \in Procs, NEW r, Good(p, r), r.phase = "run", NEW S
  PROVE  Good(p, ResumeProxy(p, r, S)) /\ ResumeProxy(p, r, S).phase = "run"
<1> DEFINE good  == {i \in S : \A x \in PxPorts(p, i) : Resumable(p, r, x)}
           ports == UNION {PxPorts(p, i) : i \in good}
           px == [i \in DOMAIN r.px |-> IF i \in good THEN "READY" ELSE r.px[i]]
           li == [x \in DOMAIN r.li |-> IF x \in ports THEN ResumeListener(r, x) ELSE r.li[x]]
           up == [r EXCEPT !.px = px, !.li = li]
           T == S \ good
<1>1. r \in Record(p)
  BY DEF Good
<1>2. DOMAIN r.li = PortsOf(p) /\ r.li \in [PortsOf(p) -> States]
  BY <1>1, ActconnIs
<1>3. ResumeProxy(p, r, S) = PauseProxy(p, up, T)
  BY DEF ResumeProxy
<1>4. \A x \in ports : r.li[x] # "INIT"
  BY DEF Resumable
<1> HIDE DEF ports
<1>5. \A x \in PortsOf(p) :
         /\ li[x] = r.li[x] \/ li[x] = ResumeListener(r, x)
         /\ li[x] = "INIT" <=> r.li[x] = "INIT"
  BY <1>2, <1>4 DEF ResumeListener
<1>6. \A x \in PortsOf(p) :
         /\ li[x] \in {r.li[x], "READY", "FULL"}
         /\ li[x] = "FULL" => r.li[x] = "FULL" \/ r.nb[x] >= ListenerMax
  BY <1>5 DEF ResumeListener
<1>7. li \in [PortsOf(p) -> Bound \cup {"INIT", "ASSIGNED", "PAUSED"}]
  BY <1>2, <1>6 DEF States, Bound
<1>8. px \in [DOMAIN Proxies[p] -> {"NEW", "READY", "PAUSED", "STOPPED"}]
  BY <1>1 DEF Record
<1> HIDE DEF li, px, T
<1>9. /\ up \in Record(p) /\ up.phase = "run" /\ up.nb = r.nb /\ up.jobs = r.jobs
      /\ up.timer = r.timer /\ up.li = li
  BY <1>1, <1>7, <1>8 DEF Record
<1> HIDE DEF up
<1>10. Good(p, up)
  <2>1. \A x \in PortsOf(p) : /\ up.li[x] = "INIT" <=> r.li[x] = "INIT"
                              /\ up.li[x] = "FULL" => r.li[x] = "FULL" \/ r.nb[x] >= ListenerMax
                              /\ up.li[x] = "LIMITED" => r.li[x] = "LIMITED"
    BY <1>5, <1>6, <1>9
  <2> QED BY <1>9, <2>1, RunningKeeps
<1> QED BY <1>3, <1>9, <1>10, PauseKeeps

\* Every handler keeps the record of a running process good.
LEMMA HandlerKeeps ==
  ASSUME NEW p \in Procs, NEW r, Good(p, r), r.phase = "run", NEW sig \in Signals
  PROVE  Good(p, Handler(p, r, sig)) /\ Handler(p, r, sig).phase = "run"
<1>1. CASE sig = "USR1"
  <2> DEFINE s == [r EXCEPT !.stopping = TRUE]
  <2>1. Handler(p, r, sig) = s
    BY <1>1 DEF Handler
  <2>2. /\ s \in Record(p) /\ s.phase = r.phase /\ s.nb = r.nb /\ s.jobs = r.jobs
        /\ s.timer = r.timer /\ s.li = r.li
    BY DEF Good, Record
  <2> HIDE DEF s
  <2> QED BY <2>1, <2>2, AlikeKeeps
<1>2. CASE sig = "TTOU"
  <2> DEFINE S == {i \in DOMAIN r.px : r.px[i] \notin {"STOPPED", "PAUSED"}}
  <2>1. Handler(p, r, sig) = PauseProxy(p, r, S)
    BY <1>2 DEF Handler
  <2> HIDE DEF S
  <2> QED BY <2>1, PauseKeeps
<1>3. CASE sig = "TTIN"
  <2> DEFINE S == {i \in DOMAIN r.px : r.px[i] = "PAUSED"}
  <2>1. Handler(p, r, sig) = ResumeProxy(p, r, S)
    BY <1>3 DEF Handler
  <2> HIDE DEF S
  <2> QED BY <2>1, ResumeKeeps
<1> QED BY <1>1, <1>2, <1>3 DEF Signals

IsRun(h, p, q, n) ==
  h = [k \in 0..n |-> IF k = 0 THEN pr[p] ELSE Handler(p, h[k - 1], q[k])]

\* The records between the handlers exist, however long the queue.
LEMMA RunExists ==
  ASSUME NEW p, NEW q, NEW n \in Nat
  PROVE  \E h : IsRun(h, p, q, n)
<1> DEFINE D == {m \in Nat : \A h : ~IsRun(h, p, q, m)}
<1> SUFFICES ASSUME D # {} PROVE FALSE
  OBVIOUS
<1>1. PICK m \in D : \A y \in D : <<y, m>> \notin OpToRel(<, Nat)
  BY NatLessThanWellFounded, WFMin
<1>2. \A y \in D : ~(y < m)
  BY <1>1 DEF OpToRel
<1>3. CASE m = 0
  <2> DEFINE h == [k \in 0..0 |-> pr[p]]
  <2>1. h = [k \in 0..0 |-> IF k = 0 THEN pr[p] ELSE Handler(p, h[k - 1], q[k])]
    OBVIOUS
  <2>2. IsRun(h, p, q, m)
    BY <1>3, <2>1 DEF IsRun
  <2> QED BY <2>2
<1>4. CASE m > 0
  <2>1. m - 1 \in Nat /\ m - 1 < m
    BY <1>4
  <2>2. PICK g : IsRun(g, p, q, m - 1)
    BY <1>2, <2>1
  <2> DEFINE h == [k \in 0..m |-> IF k < m THEN g[k] ELSE Handler(p, g[m - 1], q[m])]
  <2>3. \A k \in 0..(m - 1) : g[k] = IF k = 0 THEN pr[p] ELSE Handler(p, g[k - 1], q[k])
    BY <2>2 DEF IsRun
  <2>4. ASSUME NEW k \in 0..m PROVE h[k] = IF k = 0 THEN pr[p] ELSE Handler(p, h[k - 1], q[k])
    <3>1. CASE k = 0
      BY <1>4, <2>1, <2>3, <3>1
    <3>2. CASE k > 0 /\ k < m
      <4>1. k \in 0..(m - 1) /\ k - 1 \in 0..m /\ k - 1 < m
        BY <3>2
      <4>2. h[k] = g[k] /\ h[k - 1] = g[k - 1]
        BY <3>2, <4>1
      <4> QED BY <2>3, <3>2, <4>1, <4>2
    <3>3. CASE k = m
      <4>1. m - 1 \in 0..m /\ m - 1 < m /\ ~(m < m) /\ m # 0
        BY <1>4
      <4>2. h[m - 1] = g[m - 1] /\ h[m] = Handler(p, g[m - 1], q[m])
        BY <4>1
      <4> QED BY <3>3, <4>1, <4>2
    <3> QED BY <3>1, <3>2, <3>3
  <2>5. IsRun(h, p, q, m)
    BY <2>4 DEF IsRun
  <2> QED BY <2>5
<1> QED BY <1>3, <1>4

\* Whatever signals are queued, handling them keeps the record good.
LEMMA HandledKeeps ==
  ASSUME NEW p \in Procs, Good(p, pr[p]), pr[p].phase = "run", NEW q \in Seq(Signals)
  PROVE  Good(p, Handled(p, q)) /\ Handled(p, q).phase = "run"
<1> DEFINE H == CHOOSE h : h = [k \in 0..Len(q) |->
                                  IF k = 0 THEN pr[p] ELSE Handler(p, h[k - 1], q[k])]
<1>1. Len(q) \in Nat
  OBVIOUS
<1>2. Handled(p, q) = H[Len(q)]
  BY DEF Handled
<1>3. H = [k \in 0..Len(q) |-> IF k = 0 THEN pr[p] ELSE Handler(p, H[k - 1], q[k])]
  <2>1. \E h : h = [k \in 0..Len(q) |-> IF k = 0 THEN pr[p] ELSE Handler(p, h[k - 1], q[k])]
    <3>1. PICK h : IsRun(h, p, q, Len(q))
      BY <1>1, RunExists, Zenon
    <3> QED BY <3>1, Zenon DEF IsRun
  <2> QED BY <2>1, Zenon
<1> HIDE DEF H
<1>4. \A k \in 0..Len(q) : H[k] = IF k = 0 THEN pr[p] ELSE Handler(p, H[k - 1], q[k])
  BY <1>3
<1> DEFINE D == {m \in 0..Len(q) : ~(Good(p, H[m]) /\ H[m].phase = "run")}
<1>5. D = {}
  <2> SUFFICES ASSUME D # {} PROVE FALSE
    OBVIOUS
  <2>1. D \in SUBSET Nat
    OBVIOUS
  <2>2. PICK m \in D : \A y \in D : <<y, m>> \notin OpToRel(<, Nat)
    BY <2>1, NatLessThanWellFounded, WFMin
  <2>3. \A y \in D : ~(y < m)
    BY <2>1, <2>2 DEF OpToRel
  <2>4. m # 0
    BY <1>1, <1>4
  <2>5. m \in 1..Len(q) /\ m - 1 \in 0..Len(q) /\ m - 1 < m
    BY <1>1, <2>4
  <2>6. Good(p, H[m - 1]) /\ H[m - 1].phase = "run"
    BY <2>3, <2>5
  <2>7. q[m] \in Signals
    BY <2>5
  <2>8. H[m] = Handler(p, H[m - 1], q[m])
    BY <1>4, <2>4, <2>5
  <2>9. Good(p, H[m]) /\ H[m].phase = "run"
    BY <2>6, <2>7, <2>8, HandlerKeeps
  <2> QED BY <2>9
<1>6. Len(q) \in 0..Len(q)
  BY <1>1
<1> QED BY <1>2, <1>5, <1>6

-----------------------------------------------------------------------------
(* Proxies, listeners and sessions.                                        *)

\* stop_proxy(): the listeners that are released are no jobs any more.
LEMMA StopProxyKeeps ==
  ASSUME NEW p \in Procs, NEW r, Good(p, r), r.phase = "run", NEW i \in DOMAIN Proxies[p]
  PROVE  Good(p, StopProxy(p, r, i))
<1> DEFINE ports == PxPorts(p, i)
           out == {x \in ports : r.li[x] # "INIT"}
           li == [x \in DOMAIN r.li |-> IF x \in ports THEN "INIT" ELSE r.li[x]]
           px == [r.px EXCEPT ![i] = "STOPPED"]
           s == StopProxy(p, r, i)
<1>1. r \in Record(p)
  BY DEF Good
<1>2. /\ DOMAIN r.li = PortsOf(p) /\ r.li \in [PortsOf(p) -> States] /\ IsFiniteSet(PortsOf(p))
      /\ Cardinality(Busy(r)) \in Nat /\ Actconn(r) \in Nat
  BY <1>1, ActconnIs
<1>3. ports \subseteq PortsOf(p)
  BY DEF PortsOf
<1>4. s = [r EXCEPT !.px = px, !.li = li, !.jobs = r.jobs - Cardinality(out)]
  BY <1>1 DEF StopProxy, Record
<1> HIDE DEF ports
<1>5. li \in [PortsOf(p) -> Bound \cup {"INIT", "ASSIGNED", "PAUSED"}]
  BY <1>2 DEF States
<1>6. px \in [DOMAIN Proxies[p] -> {"NEW", "READY", "PAUSED", "STOPPED"}]
  BY <1>1 DEF Record
<1>7. out \subseteq Busy(r) /\ Busy(r) \subseteq PortsOf(p)
  BY <1>2, <1>3 DEF Busy
<1>8. \A x \in PortsOf(p) : li[x] = IF x \in ports THEN "INIT" ELSE r.li[x]
  BY <1>2
<1>9. \A x \in PortsOf(p) : x \in out <=> x \in ports /\ r.li[x] # "INIT"
  OBVIOUS
<1> HIDE DEF li, px, out, s
<1>10. IsFiniteSet(Busy(r)) /\ IsFiniteSet(out) /\ Cardinality(out) \in Nat
  BY <1>2, <1>7, FS_Subset, FS_CardinalityType
<1>11. /\ s \in Record(p) /\ s.phase = "run" /\ s.nb = r.nb /\ s.timer = r.timer /\ s.li = li
       /\ s.jobs = r.jobs - Cardinality(out)
  <2>1. r.jobs - Cardinality(out) \in Int
    BY <1>1, <1>10 DEF Record
  <2> QED BY <1>1, <1>4, <1>5, <1>6, <2>1 DEF Record
<1>12. DOMAIN s.li = PortsOf(p)
  BY <1>5, <1>11
<1>13. Busy(s) = Busy(r) \ out
  <2>1. \A x : x \in Busy(s) <=> x \in PortsOf(p) /\ li[x] # "INIT"
    BY <1>11, <1>12 DEF Busy
  <2>2. \A x : x \in Busy(r) <=> x \in PortsOf(p) /\ r.li[x] # "INIT"
    BY <1>2 DEF Busy
  <2> QED BY <1>8, <1>9, <2>1, <2>2
<1>14. Cardinality(Busy(s)) = Cardinality(Busy(r)) - Cardinality(out)
  <2>1. Busy(r) \cap out = out
    BY <1>7
  <2> QED BY <1>10, <1>13, <2>1, FS_Difference
<1>15. Actconn(s) = Actconn(r)
  BY <1>11 DEF Actconn
<1>16. JobsCounted(s)
  BY <1>2, <1>10, <1>11, <1>14, <1>15 DEF Good, JobsCounted
<1>17. Remembered(s)
  BY <1>2, <1>8, <1>11, <1>12, <1>15 DEF Good, Remembered
<1> QED BY <1>11, <1>16, <1>17 DEF Good, NotYetRunning, s

\* A listener that waits in the global queue has the queue's timer.
LEMMA LimitKeeps ==
  ASSUME NEW p \in Procs, NEW r, Good(p, r), r.phase = "run", NEW x \in PortsOf(p),
         r.li[x] = "READY"
  PROVE  Good(p, LimitListener(r, x))
<1> DEFINE s == LimitListener(r, x)
<1>1. r \in Record(p)
  BY DEF Good
<1>2. DOMAIN r.li = PortsOf(p) /\ r.li \in [PortsOf(p) -> States]
  BY <1>1, ActconnIs
<1>3. /\ s \in Record(p) /\ s.phase = "run" /\ s.nb = r.nb /\ s.jobs = r.jobs /\ s.timer = TRUE
      /\ s.li = [r.li EXCEPT ![x] = "LIMITED"]
  BY <1>1, <1>2 DEF LimitListener, Record, Bound
<1> HIDE DEF s
<1>4. /\ DOMAIN s.li = PortsOf(p)
      /\ \A y \in PortsOf(p) : s.li[y] = IF y = x THEN "LIMITED" ELSE r.li[y]
  BY <1>2, <1>3
<1>5. JobsCounted(s)
  <2>1. \A y \in PortsOf(p) : s.li[y] = "INIT" <=> r.li[y] = "INIT"
    BY <1>4
  <2> QED BY <1>3, <2>1, ListenersKeep
<1>6. Remembered(s)
  BY <1>2, <1>3, <1>4 DEF Good, Remembered
<1> QED BY <1>3, <1>5, <1>6 DEF Good, NotYetRunning, s

\* dequeue_all_listeners() leaves no listener that waits, whatever they waited for.
LEMMA DequeueKeeps ==
  ASSUME NEW p \in Procs, NEW r \in Record(p), r.phase = "run", JobsCounted(r),
         \A x \in PortsOf(p) : r.li[x] = "FULL" => r.nb[x] >= ListenerMax
  PROVE  LET s == DequeueAllListeners(r)
         IN  /\ Good(p, s) /\ s.phase = "run"
             /\ \A x \in PortsOf(p) : s.li[x] # "LIMITED"
<1> DEFINE s == DequeueAllListeners(r)
           li == [x \in DOMAIN r.li |->
                    IF r.li[x] = "LIMITED" THEN ResumeListener(r, x) ELSE r.li[x]]
<1>1. DOMAIN r.li = PortsOf(p) /\ r.li \in [PortsOf(p) -> States]
  BY ActconnIs
<1>2. s = [r EXCEPT !.li = li]
  BY DEF DequeueAllListeners
<1>3. \A x \in PortsOf(p) :
         /\ li[x] \in {r.li[x], "READY", "FULL"} /\ li[x] # "LIMITED"
         /\ li[x] = "INIT" <=> r.li[x] = "INIT"
         /\ li[x] = "FULL" => r.li[x] = "FULL" \/ r.nb[x] >= ListenerMax
  BY <1>1 DEF ResumeListener
<1>4. li \in [PortsOf(p) -> Bound \cup {"INIT", "ASSIGNED", "PAUSED"}]
  BY <1>1, <1>3 DEF States, Bound
<1> HIDE DEF li, s
<1>5. /\ s \in Record(p) /\ s.phase = "run" /\ s.nb = r.nb /\ s.jobs = r.jobs /\ s.li = li
  BY <1>2, <1>4 DEF Record
<1>6. DOMAIN s.li = PortsOf(p)
  BY <1>4, <1>5
<1>7. Actconn(s) = Actconn(r) /\ Busy(s) = Busy(r)
  <2>1. Busy(s) = Busy(r)
    BY <1>1, <1>3, <1>5, <1>6 DEF Busy
  <2> QED BY <1>5, <2>1 DEF Actconn
<1>8. JobsCounted(s)
  BY <1>5, <1>7 DEF JobsCounted
<1>9. Remembered(s)
  BY <1>3, <1>5, <1>6 DEF Remembered
<1>10. Good(p, s)
  BY <1>5, <1>8, <1>9 DEF Good, NotYetRunning
<1> QED BY <1>3, <1>5, <1>10 DEF s

\* A connection that is accepted is a job, and may make its listener full.
LEMMA AcceptKeeps ==
  ASSUME NEW p \in Procs, NEW r, Good(p, r), r.phase = "run", NEW x \in PortsOf(p),
         r.li[x] = "READY", r.nb[x] < ListenerMax,
         NEW s, s = [r EXCEPT !.nb = [r.nb EXCEPT ![x] = r.nb[x] + 1], !.jobs = r.jobs + 1,
                              !.li = [r.li EXCEPT ![x] = IF r.nb[x] + 1 >= ListenerMax
                                                         THEN "FULL" ELSE r.li[x]]]
  PROVE  Good(p, s)
<1>1. r \in Record(p) /\ ListenerMax \in Nat
  BY TakeoverAssumption DEF Good
<1>2. /\ DOMAIN r.li = PortsOf(p) /\ r.li \in [PortsOf(p) -> States] /\ IsFiniteSet(PortsOf(p))
      /\ r.nb \in Counts(PortsOf(p)) /\ Cardinality(Busy(r)) \in Nat /\ Actconn(r) \in Nat
      /\ Actconn(r) = Cardinality(SessOf(r.nb)) /\ r.jobs \in Int
  BY <1>1, ActconnIs DEF Record
<1> DEFINE nb == [r.nb EXCEPT ![x] = r.nb[x] + 1]
           li == [r.li EXCEPT ![x] = IF r.nb[x] + 1 >= ListenerMax THEN "FULL" ELSE r.li[x]]
<1>3. nb \in Counts(PortsOf(p))
  BY <1>1, <1>2 DEF Counts
<1>4. nb[x] = r.nb[x] + 1 /\ \A y \in PortsOf(p) : y # x => nb[y] = r.nb[y]
  BY <1>2 DEF Counts
<1>5. li \in [PortsOf(p) -> Bound \cup {"INIT", "ASSIGNED", "PAUSED"}]
  BY <1>2 DEF States, Bound
<1>6. \A y \in PortsOf(p) :
         /\ li[y] = "INIT" <=> r.li[y] = "INIT"
         /\ li[y] = "FULL" => (y # x /\ r.li[y] = "FULL") \/ (y = x /\ r.nb[x] + 1 >= ListenerMax)
         /\ li[y] = "LIMITED" => r.li[y] = "LIMITED"
  BY <1>2
<1>7. s = [r EXCEPT !.nb = nb, !.jobs = r.jobs + 1, !.li = li]
  OBVIOUS
<1> HIDE DEF nb, li
<1>8. /\ s \in Record(p) /\ s.phase = "run" /\ s.nb = nb /\ s.jobs = r.jobs + 1
      /\ s.timer = r.timer /\ s.li = li
  <2>1. r.jobs + 1 \in Int /\ nb \in [PortsOf(p) -> 0..ListenerMax]
    BY <1>2, <1>3 DEF Counts
  <2> QED BY <1>1, <1>5, <1>7, <2>1 DEF Record
<1>9. DOMAIN s.li = PortsOf(p) /\ Busy(s) = Busy(r)
  BY <1>2, <1>5, <1>6, <1>8 DEF Busy
<1>10. Actconn(s) = Actconn(r) + 1
  <2>1. Cardinality(SessOf(nb)) = Cardinality(SessOf(r.nb)) + 1
    BY <1>2, <1>3, <1>4, SessMore
  <2>2. Actconn(s) = Cardinality(SessOf(s.nb))
    BY <1>8, ActconnIs
  <2> QED BY <1>2, <1>8, <2>1, <2>2
<1>11. JobsCounted(s)
  BY <1>2, <1>8, <1>9, <1>10 DEF Good, JobsCounted
<1>12. Remembered(s)
  <2>1. \A y \in PortsOf(p) : li[y] = "FULL" => nb[y] >= ListenerMax
    BY <1>2, <1>4, <1>6 DEF Good, Remembered
  <2>2. GlobalMax \in Nat
    BY TakeoverAssumption
  <2>3. \A y \in PortsOf(p) : li[y] = "LIMITED" => r.timer \/ Actconn(s) >= GlobalMax
    BY <1>2, <1>6, <1>10, <2>2 DEF Good, Remembered
  <2> QED BY <1>8, <1>9, <2>1, <2>3 DEF Remembered
<1> QED BY <1>8, <1>11, <1>12 DEF Good, NotYetRunning

\* A session less is a job less.
LEMMA LessKeeps ==
  ASSUME NEW p \in Procs, NEW r, Good(p, r), NEW x \in PortsOf(p), r.nb[x] > 0,
         NEW s \in Record(p), s.jobs = r.jobs - 1, s.nb[x] = r.nb[x] - 1,
         \A y \in PortsOf(p) : y # x => s.nb[y] = r.nb[y],
         \A y \in PortsOf(p) : s.li[y] = "INIT" <=> r.li[y] = "INIT"
  PROVE  JobsCounted(s)
<1>1. r \in Record(p)
  BY DEF Good
<1>2. /\ DOMAIN r.li = PortsOf(p) /\ IsFiniteSet(PortsOf(p)) /\ r.nb \in Counts(PortsOf(p))
      /\ Cardinality(Busy(r)) \in Nat /\ Actconn(r) \in Nat
      /\ Actconn(r) = Cardinality(SessOf(r.nb))
  BY <1>1, ActconnIs
<1>3. /\ DOMAIN s.li = PortsOf(p) /\ s.nb \in Counts(PortsOf(p))
      /\ Actconn(s) \in Nat /\ Actconn(s) = Cardinality(SessOf(s.nb))
  BY ActconnIs
<1>4. r.jobs \in Int /\ r.nb[x] \in Int
  BY <1>1, <1>2 DEF Record, Counts
<1>5. Busy(s) = Busy(r)
  BY <1>2, <1>3 DEF Busy
<1> DEFINE more == r.nb
           nb == s.nb
<1>6. /\ nb \in Counts(PortsOf(p)) /\ more \in Counts(PortsOf(p)) /\ more[x] = nb[x] + 1
      /\ \A y \in PortsOf(p) : y # x => more[y] = nb[y]
  BY <1>2, <1>3, <1>4
<1> HIDE DEF more, nb
<1>7. Cardinality(SessOf(more)) = Cardinality(SessOf(nb)) + 1
  BY <1>2, <1>6, SessMore
<1>8. Actconn(r) = Actconn(s) + 1
  BY <1>2, <1>3, <1>7 DEF more, nb
<1> QED BY <1>2, <1>3, <1>4, <1>5, <1>8 DEF Good, JobsCounted

\* The end of a session: a full listener is resumed, and all that wait.
LEMMA EndKeeps ==
  ASSUME NEW p \in Procs, NEW r, Good(p, r), r.phase = "run", NEW x \in PortsOf(p), r.nb[x] > 0
  PROVE  LET less == [r EXCEPT !.nb[x] = @ - 1, !.jobs = @ - 1]
             open == IF r.li[x] = "FULL" THEN [less EXCEPT !.li[x] = ResumeListener(less, x)]
                     ELSE less
         IN  Good(p, DequeueAllListeners(open))
<1>1. r \in Record(p) /\ ListenerMax \in Nat
  BY TakeoverAssumption DEF Good
<1>2. /\ DOMAIN r.li = PortsOf(p) /\ r.li \in [PortsOf(p) -> States]
      /\ r.nb \in Counts(PortsOf(p)) /\ r.jobs \in Int
  BY <1>1, ActconnIs DEF Record
<1>3. r.nb[x] \in 0..ListenerMax /\ r.nb[x] - 1 \in 0..ListenerMax
  BY <1>1, <1>2 DEF Counts
<1> DEFINE nb == [r.nb EXCEPT ![x] = r.nb[x] - 1]
           less == [r EXCEPT !.nb[x] = @ - 1, !.jobs = @ - 1]
           open == IF r.li[x] = "FULL" THEN [less EXCEPT !.li[x] = ResumeListener(less, x)]
                   ELSE less
<1>4. nb \in Counts(PortsOf(p))
  BY <1>2, <1>3 DEF Counts
<1>5. nb[x] = r.nb[x] - 1 /\ \A y \in PortsOf(p) : y # x => nb[y] = r.nb[y]
  BY <1>2 DEF Counts
<1>6. less = [r EXCEPT !.nb = nb, !.jobs = r.jobs - 1]
  BY <1>1 DEF Record
<1> HIDE DEF nb, less
<1>7. /\ less \in Record(p) /\ less.phase = "run" /\ less.nb = nb /\ less.jobs = r.jobs - 1
      /\ less.li = r.li
  <2>1. r.jobs - 1 \in Int /\ nb \in [PortsOf(p) -> 0..ListenerMax]
    BY <1>2, <1>4 DEF Counts
  <2> QED BY <1>1, <1>6, <2>1 DEF Record
<1>8. \A y \in PortsOf(p) : y # x /\ r.li[y] = "FULL" => nb[y] >= ListenerMax
  BY <1>2, <1>5 DEF Good, Remembered
<1>9. /\ open \in Record(p) /\ open.phase = "run" /\ open.nb = nb /\ open.jobs = r.jobs - 1
      /\ \A y \in PortsOf(p) : /\ open.li[y] = "INIT" <=> r.li[y] = "INIT"
                               /\ open.li[y] = "FULL" => nb[y] >= ListenerMax
  <2>1. CASE r.li[x] # "FULL"
    <3>1. open = less
      BY <2>1
    <3>2. \A y \in PortsOf(p) : r.li[y] = "FULL" => nb[y] >= ListenerMax
      BY <1>8, <2>1
    <3> HIDE DEF open
    <3> QED BY <1>7, <3>1, <3>2
  <2>2. CASE r.li[x] = "FULL"
    <3> DEFINE v == ResumeListener(less, x)
               li == [r.li EXCEPT ![x] = v]
    <3>1. v \in {"FULL", "READY"} /\ (v = "FULL" => nb[x] >= ListenerMax)
      BY <1>7 DEF ResumeListener
    <3>2. open = [less EXCEPT !.li = li]
      BY <1>7, <2>2 DEF Record
    <3> HIDE DEF v
    <3>3. li \in [PortsOf(p) -> Bound \cup {"INIT", "ASSIGNED", "PAUSED"}]
      BY <1>2, <3>1 DEF States, Bound
    <3>4. \A y \in PortsOf(p) : li[y] = IF y = x THEN v ELSE r.li[y]
      BY <1>2
    <3> HIDE DEF li, open
    <3>5. /\ open \in Record(p) /\ open.phase = "run" /\ open.nb = nb
          /\ open.jobs = r.jobs - 1 /\ open.li = li
      BY <1>7, <3>2, <3>3 DEF Record
    <3> QED BY <1>8, <2>2, <3>1, <3>4, <3>5
  <2> HIDE DEF open
  <2> QED BY <2>1, <2>2
<1> HIDE DEF open
<1>10. JobsCounted(open)
  BY <1>5, <1>9, LessKeeps
<1>11. Good(p, DequeueAllListeners(open))
  BY <1>9, <1>10, DequeueKeeps
<1> QED BY <1>11 DEF open, less

-----------------------------------------------------------------------------
(* The steps.                                                              *)

Goods ==
  /\ pr = [p \in Procs |-> pr[p]] /\ \A p \in Procs : Good(p, pr[p])
  /\ pidfile \subseteq Procs

\* The inductive invariant is that every record is good.
LEMMA GoodsIs == (TakeoverInv <=> Goods) /\ (TakeoverInv' <=> Goods')
  BY DEF TakeoverInv, TypeOK, Goods, Good, NoSessionCut

\* A step of one process.
LEMMA StepKeeps ==
  ASSUME Goods, NEW n \in Procs, NEW r, Good(n, r), pr' = [pr EXCEPT ![n] = r],
         pidfile' \subseteq Procs
  PROVE  Goods'
<1>1. pr' = [p \in Procs |-> IF p = n THEN r ELSE pr[p]]
  BY DEF Goods
<1>2. \A p \in Procs : Good(p, pr'[p])
  <2> SUFFICES ASSUME NEW p \in Procs PROVE Good(p, pr'[p])
    OBVIOUS
  <2>1. CASE p = n
    BY <1>1, <2>1
  <2>2. CASE p # n
    <3>1. pr'[p] = pr[p]
      BY <1>1, <2>2
    <3> QED BY <3>1 DEF Goods
  <2> QED BY <2>1, <2>2
<1>3. pr' = [p \in Procs |-> pr'[p]]
  BY <1>1
<1> QED BY <1>2, <1>3 DEF Goods

\* A step of one process that sends a signal to others.
LEMMA ToldKeeps ==
  ASSUME Goods, NEW n \in Procs, NEW r, Good(n, r), NEW S, NEW sig \in Signals,
         pr' = Told(n, r, S, sig), pidfile' \subseteq Procs
  PROVE  Goods'
<1>1. pr' = [p \in Procs |-> IF p = n THEN r
                             ELSE IF p \in S /\ Alive(p)
                                  THEN [pr[p] EXCEPT !.pend = @ \cup {sig}] ELSE pr[p]]
  BY DEF Told
<1>2. ASSUME NEW p \in Procs PROVE Good(p, pr'[p])
  <2>0. Good(p, pr[p]) /\ pr[p] \in Record(p)
    BY DEF Goods, Good
  <2>1. CASE p = n
    BY <1>1, <2>1
  <2>2. CASE p # n /\ p \in S /\ Alive(p)
    <3> DEFINE t == [pr[p] EXCEPT !.pend = @ \cup {sig}]
    <3>1. pr'[p] = t
      BY <1>1, <2>2
    <3>2. /\ t \in Record(p) /\ t.li = pr[p].li /\ t.nb = pr[p].nb /\ t.jobs = pr[p].jobs
          /\ t.timer = pr[p].timer /\ t.phase = pr[p].phase
      BY <2>0 DEF Record
    <3> HIDE DEF t
    <3>3. Good(p, t)
      BY <2>0, <3>2, AlikeKeeps
    <3> QED BY <3>1, <3>3
  <2>3. CASE p # n /\ ~(p \in S /\ Alive(p))
    <3>1. pr'[p] = pr[p]
      BY <1>1, <2>3
    <3> QED BY <2>0, <3>1
  <2> QED BY <2>1, <2>2, <2>3
<1>3. pr' = [p \in Procs |-> pr'[p]]
  BY <1>1
<1> QED BY <1>2, <1>3 DEF Goods

\* A process that starts and moves on in main(), its listeners as they are.
LEMMA PhaseKeeps ==
  ASSUME NEW n \in Procs, NEW r, Good(n, r), r.phase \notin {"run", "exit"}, NEW phase \in Phases
  PROVE  Good(n, [r EXCEPT !.phase = phase])
<1> DEFINE s == [r EXCEPT !.phase = phase]
<1>1. r \in Record(n)
  BY DEF Good
<1>2. /\ s \in Record(n) /\ s.li = r.li /\ s.nb = r.nb /\ s.jobs = r.jobs /\ s.timer = r.timer
  BY <1>1 DEF Record
<1> HIDE DEF s
<1> QED BY <1>2, AlikeKeeps DEF s

\* The start of a process.
LEMMA LaunchKeeps ==
  ASSUME Goods, NEW n \in Procs, Launch(n)
  PROVE  Goods'
<1> DEFINE r == pr[n]
           s == [r EXCEPT !.phase = "bind", !.old = pidfile]
<1>1. Good(n, r) /\ r \in Record(n) /\ r.phase = "off" /\ pidfile \subseteq Procs
  BY DEF Goods, Good, Launch
<1>2. pr' = [pr EXCEPT ![n] = s] /\ pidfile' \subseteq Procs
  BY DEF Launch, Goods
<1>3. /\ s \in Record(n) /\ s.li = r.li /\ s.nb = r.nb /\ s.jobs = r.jobs /\ s.timer = r.timer
  BY <1>1 DEF Record, Phases
<1> HIDE DEF s, r
<1>4. Good(n, s)
  BY <1>1, <1>3, AlikeKeeps
<1> QED BY <1>2, <1>4, StepKeeps

\* Another round of binds.
LEMMA AgainKeeps ==
  ASSUME Goods, NEW n \in Procs, pr[n].phase \notin {"run", "exit"}, NEW retry \in Int,
         pr' = Again(n, retry), pidfile' = pidfile
  PROVE  Goods'
<1> DEFINE r == pr[n]
           todo == FlattenSeq(Proxies[n])
           s == [r EXCEPT !.phase = "bind", !.err = FALSE, !.retry = retry, !.todo = todo]
<1>1. Good(n, r) /\ r \in Record(n) /\ pidfile' \subseteq Procs
  BY DEF Goods, Good
<1>2. pr' = [pr EXCEPT ![n] = s]
  BY DEF Again, Goods
<1>3. todo \in Seq(PortsOf(n))
  BY TakeoverAssumption
<1> HIDE DEF todo
<1>4. /\ s \in Record(n) /\ s.li = r.li /\ s.nb = r.nb /\ s.jobs = r.jobs /\ s.timer = r.timer
  BY <1>1, <1>3 DEF Record, Phases
<1>5. r.phase \notin {"run", "exit"}
  OBVIOUS
<1> HIDE DEF s, r
<1>6. Good(n, s)
  BY <1>1, <1>4, <1>5, AlikeKeeps
<1> QED BY <1>1, <1>2, <1>6, StepKeeps

\* One bind().
LEMMA BindListenerKeeps ==
  ASSUME Goods, NEW n \in Procs, BindListener(n)
  PROVE  Goods'
<1> DEFINE r == pr[n]
           x == Head(r.todo)
           busy == r.li[x] = "ASSIGNED" /\ ~PortFree(n, x)
           li == [r.li EXCEPT ![x] = IF busy THEN r.li[x] ELSE "LISTEN"]
           todo == Tail(r.todo)
           err == r.err \/ busy
           s == [r EXCEPT !.todo = todo, !.li = li, !.err = err]
<1>1. /\ Good(n, r) /\ r \in Record(n) /\ pidfile' \subseteq Procs /\ r.phase = "bind"
      /\ r.todo # <<>>
  BY DEF Goods, Good, BindListener
<1>2. r.todo \in Seq(PortsOf(n)) /\ r.err \in BOOLEAN
  BY <1>1 DEF Record
<1>3. x \in PortsOf(n) /\ todo \in Seq(PortsOf(n)) /\ err \in BOOLEAN
  BY <1>1, <1>2
<1>4. pr' = [pr EXCEPT ![n] = s]
  BY <1>1 DEF BindListener, Goods, Record
<1>5. DOMAIN r.li = PortsOf(n) /\ r.li \in [PortsOf(n) -> States]
  BY <1>1, ActconnIs
<1>6. \A y \in PortsOf(n) : r.nb[y] = 0 /\ r.li[y] \in {"ASSIGNED", "LISTEN"}
  BY <1>1, <1>5 DEF Good, NotYetRunning
<1> HIDE DEF busy, x, todo, err
<1>7. /\ li \in [PortsOf(n) -> Bound \cup {"INIT", "ASSIGNED", "PAUSED"}]
      /\ \A y \in PortsOf(n) : li[y] \in {"ASSIGNED", "LISTEN"}
  BY <1>3, <1>5, <1>6 DEF States, Bound
<1> HIDE DEF li, r
<1>8. /\ s \in Record(n) /\ s.li = li /\ s.nb = r.nb /\ s.jobs = r.jobs /\ s.timer = r.timer
      /\ s.phase = "bind"
  BY <1>1, <1>3, <1>7 DEF Record
<1> HIDE DEF s
<1>9. DOMAIN s.li = PortsOf(n)
  BY <1>7, <1>8
<1>10. JobsCounted(s) /\ Actconn(s) = Actconn(r)
  <2>1. \A y \in PortsOf(n) : s.li[y] = "INIT" <=> r.li[y] = "INIT"
    BY <1>6, <1>7, <1>8
  <2> QED BY <1>1, <1>8, <2>1, ListenersKeep
<1>11. Good(n, s)
  BY <1>6, <1>7, <1>8, <1>9, <1>10 DEF Good, NotYetRunning, Remembered
<1> QED BY <1>1, <1>4, <1>11, StepKeeps

\* The end of a round of binds.
LEMMA RoundEndKeeps ==
  ASSUME Goods, NEW n \in Procs, RoundEnd(n)
  PROVE  Goods'
<1> DEFINE r == pr[n]
<1>1. /\ Good(n, r) /\ r \in Record(n) /\ pidfile' = pidfile /\ pidfile' \subseteq Procs
      /\ r.phase = "bind"
  BY DEF Goods, Good, RoundEnd
<1>2. {"bound", "fail", "wait"} \subseteq Phases /\ r.phase \notin {"run", "exit"}
  BY <1>1 DEF Phases
<1>3. CASE pr' = [pr EXCEPT ![n].phase = "bound", ![n].px = [i \in DOMAIN r.px |-> "READY"]]
  <2> DEFINE px == [i \in DOMAIN r.px |-> "READY"]
             s == [r EXCEPT !.phase = "bound", !.px = px]
  <2>1. pr' = [pr EXCEPT ![n] = s]
    BY <1>3 DEF Goods
  <2>2. px \in [DOMAIN Proxies[n] -> {"NEW", "READY", "PAUSED", "STOPPED"}]
    BY <1>1 DEF Record
  <2> HIDE DEF px
  <2>3. s \in Record(n) /\ s.li = r.li /\ s.nb = r.nb /\ s.jobs = r.jobs /\ s.timer = r.timer
    BY <1>1, <1>2, <2>2 DEF Record
  <2> HIDE DEF r, s
  <2>4. Good(n, s)
    BY <1>1, <1>2, <2>3, AlikeKeeps
  <2> QED BY <1>1, <2>1, <2>4, StepKeeps
<1>4. CASE pr' = [pr EXCEPT ![n].phase = "fail"]
  <2> DEFINE s == [r EXCEPT !.phase = "fail"]
  <2>1. pr' = [pr EXCEPT ![n] = s]
    BY <1>4 DEF Goods
  <2>2. Good(n, s)
    BY <1>1, <1>2, PhaseKeeps
  <2> HIDE DEF s
  <2> QED BY <1>1, <2>1, <2>2, StepKeeps
<1>5. CASE pr' = Told(n, [r EXCEPT !.phase = "wait"], r.old, "TTOU")
  <2> DEFINE s == [r EXCEPT !.phase = "wait"]
             sig == "TTOU"
  <2>1. Good(n, s) /\ sig \in Signals
    BY <1>1, <1>2, PhaseKeeps DEF Signals
  <2>2. pr' = Told(n, s, r.old, sig)
    BY <1>5
  <2> HIDE DEF s, sig
  <2> QED BY <1>1, <2>1, <2>2, ToldKeeps
<1>6. CASE pr' = Again(n, 0)
  BY <1>1, <1>2, <1>6, AgainKeeps
<1> QED BY <1>3, <1>4, <1>5, <1>6 DEF RoundEnd

\* The wait for the old processes is over.
LEMMA WaitEndKeeps ==
  ASSUME Goods, NEW n \in Procs, WaitEnd(n)
  PROVE  Goods'
<1>1. pr[n] \in Record(n) /\ pr[n].phase \notin {"run", "exit"}
  BY DEF Goods, Good, WaitEnd
<1>2. pr[n].retry - 1 \in Int
  BY <1>1 DEF Record
<1> DEFINE retry == pr[n].retry - 1
<1>3. pr' = Again(n, retry) /\ pidfile' = pidfile
  BY DEF WaitEnd
<1> HIDE DEF retry
<1>4. retry \in Int
  BY <1>2 DEF retry
<1> QED BY <1>1, <1>3, <1>4, AgainKeeps

\* The end of a process that has not run.
LEMMA AbortKeeps ==
  ASSUME Goods, NEW n \in Procs, pr[n].phase \notin {"run", "exit"}, NEW phase \in Over,
         pr' = [pr EXCEPT ![n] = Gone(@, phase)], pidfile' = pidfile
  PROVE  Goods'
<1>1. Good(n, Gone(pr[n], phase)) /\ pidfile' \subseteq Procs
  BY GoneKeeps DEF Goods
<1>2. pr' = [pr EXCEPT ![n] = Gone(pr[n], phase)]
  BY DEF Goods
<1> QED BY <1>1, <1>2, StepKeeps

\* A step in main() that fails tells the old processes to listen, and goes.
LEMMA FailKeeps ==
  ASSUME Goods, NEW n \in Procs, pr[n].phase \notin {"run", "exit"}, NEW phase \in Phases,
         NEW sig \in Signals, pr' = Told(n, [pr[n] EXCEPT !.phase = phase], pr[n].old, sig),
         pidfile' \subseteq Procs
  PROVE  Goods'
<1> DEFINE s == [pr[n] EXCEPT !.phase = phase]
<1>1. Good(n, s)
  BY PhaseKeeps DEF Goods
<1> HIDE DEF s
<1>2. pr' = Told(n, s, pr[n].old, sig)
  BY DEF s
<1> QED BY <1>1, <1>2, ToldKeeps

\* A step in main() that succeeds.
LEMMA MoveKeeps ==
  ASSUME Goods, NEW n \in Procs, pr[n].phase \notin {"run", "exit"}, NEW phase \in Phases,
         pr' = [pr EXCEPT ![n].phase = phase], pidfile' \subseteq Procs
  PROVE  Goods'
<1> DEFINE s == [pr[n] EXCEPT !.phase = phase]
<1>1. Good(n, s)
  BY PhaseKeeps DEF Goods
<1>2. pr' = [pr EXCEPT ![n] = s]
  BY DEF Goods
<1> HIDE DEF s
<1> QED BY <1>1, <1>2, StepKeeps

\* A process gives up.
LEMMA GiveUpKeeps ==
  ASSUME Goods, NEW n \in Procs, GiveUp(n)
  PROVE  Goods'
<1> DEFINE exit == "exit"
           sig == "TTIN"
<1>1. pr[n].phase \notin {"run", "exit"} /\ pidfile' = pidfile /\ pidfile' \subseteq Procs
  BY DEF GiveUp, Goods
<1>2. exit \in Over /\ sig \in Signals
  BY DEF Over, Signals
<1>3. \/ pr' = Told(n, Gone(pr[n], exit), pr[n].old, sig)
      \/ pr' = [pr EXCEPT ![n] = Gone(pr[n], exit)]
  BY DEF GiveUp
<1> HIDE DEF exit, sig
<1>4. Good(n, Gone(pr[n], exit))
  BY <1>1, <1>2, GoneKeeps DEF Goods
<1> QED BY <1>1, <1>2, <1>3, <1>4, ToldKeeps, StepKeeps

\* The pid file is created, or not.
LEMMA OpenPidfileKeeps ==
  ASSUME Goods, NEW n \in Procs, OpenPidfile(n)
  PROVE  Goods'
<1> DEFINE priv == "priv"
           leaving == "leaving"
           sig == "TTIN"
<1>1. pr[n].phase \notin {"run", "exit"} /\ pidfile' \subseteq Procs
  BY DEF OpenPidfile
<1>2. priv \in Phases /\ leaving \in Phases /\ sig \in Signals
  BY DEF Phases, Signals
<1>3. \/ pr' = [pr EXCEPT ![n].phase = priv]
      \/ pr' = Told(n, [pr[n] EXCEPT !.phase = leaving], pr[n].old, sig)
  BY DEF OpenPidfile
<1> HIDE DEF priv, leaving, sig
<1> QED BY <1>1, <1>2, <1>3, MoveKeeps, FailKeeps

\* The privileges are there, or not.
LEMMA CheckPrivilegesKeeps ==
  ASSUME Goods, NEW n \in Procs, CheckPrivileges(n)
  PROVE  Goods'
<1> DEFINE tell == "tell"
           leaving == "leaving"
           aborted == "aborted"
           sig == "TTIN"
<1>1. pr[n].phase \notin {"run", "exit"} /\ pidfile' = pidfile /\ pidfile' \subseteq Procs
  BY DEF CheckPrivileges, Goods
<1>2. tell \in Phases /\ leaving \in Phases /\ aborted \in Over /\ sig \in Signals
  BY DEF Phases, Over, Signals
<1>3. \/ pr' = [pr EXCEPT ![n].phase = tell]
      \/ pr' = [pr EXCEPT ![n] = Gone(@, aborted)]
      \/ pr' = Told(n, [pr[n] EXCEPT !.phase = leaving], pr[n].old, sig)
  BY DEF CheckPrivileges
<1> HIDE DEF tell, leaving, aborted, sig
<1> QED BY <1>1, <1>2, <1>3, MoveKeeps, FailKeeps, AbortKeeps

\* A process that failed leaves.
LEMMA LeavingKeeps ==
  ASSUME Goods, NEW n \in Procs, Leaving(n)
  PROVE  Goods'
<1> DEFINE aborted == "aborted"
<1>1. /\ pr[n].phase \notin {"run", "exit"} /\ pidfile' = pidfile
      /\ pr' = [pr EXCEPT ![n] = Gone(@, aborted)] /\ aborted \in Over
  BY DEF Leaving, Over
<1> HIDE DEF aborted
<1> QED BY <1>1, AbortKeeps

\* The old processes are told to leave.
LEMMA TellOldPidsKeeps ==
  ASSUME Goods, NEW n \in Procs, TellOldPids(n)
  PROVE  Goods'
<1> DEFINE fork == "fork"
           sig == "USR1"
<1>1. /\ pr[n].phase \notin {"run", "exit"} /\ pidfile' \subseteq Procs
      /\ pr' = Told(n, [pr[n] EXCEPT !.phase = fork], pr[n].old, sig)
      /\ fork \in Phases /\ sig \in Signals
  BY DEF TellOldPids, Phases, Signals, Goods
<1> HIDE DEF fork, sig
<1> QED BY <1>1, FailKeeps

\* The loop begins with every listener ready, or the process leaves.
LEMMA ForkKeeps ==
  ASSUME Goods, NEW n \in Procs, Fork(n)
  PROVE  Goods'
<1> DEFINE r == pr[n]
           li == [x \in DOMAIN r.li |-> "READY"]
           s == [r EXCEPT !.phase = "run", !.li = li]
           aborted == "aborted"
<1>1. Good(n, r) /\ r \in Record(n) /\ r.phase = "fork"
  BY DEF Goods, Good, Fork
<1>2. DOMAIN r.li = PortsOf(n)
  BY <1>1, ActconnIs
<1>3. CASE pr' = [pr EXCEPT ![n].phase = "run", ![n].li = li] /\ pidfile' = {n}
  <2>1. pr' = [pr EXCEPT ![n] = s] /\ pidfile' \subseteq Procs
    BY <1>3 DEF Goods
  <2>2. /\ li \in [PortsOf(n) -> Bound \cup {"INIT", "ASSIGNED", "PAUSED"}]
        /\ \A x \in PortsOf(n) : li[x] = "READY"
    BY <1>2 DEF Bound
  <2>3. \A x \in PortsOf(n) : r.li[x] # "INIT"
    BY <1>1, <1>2 DEF Good, NotYetRunning
  <2> HIDE DEF r, li
  <2>4. /\ s \in Record(n) /\ s.nb = r.nb /\ s.jobs = r.jobs /\ s.phase = "run" /\ s.li = li
    BY <1>1, <2>2 DEF Record, Phases
  <2> HIDE DEF s
  <2>5. JobsCounted(s)
    <3>1. \A x \in PortsOf(n) : s.li[x] = "INIT" <=> r.li[x] = "INIT"
      BY <2>2, <2>3, <2>4
    <3> QED BY <1>1, <2>4, <3>1, ListenersKeep
  <2>6. DOMAIN s.li = PortsOf(n)
    BY <2>2, <2>4
  <2>7. Good(n, s)
    BY <2>2, <2>4, <2>5, <2>6 DEF Good, NotYetRunning, Remembered
  <2> QED BY <2>1, <2>7, StepKeeps
<1>4. CASE pr' = [pr EXCEPT ![n] = Gone(@, aborted)] /\ pidfile' = pidfile
  <2>1. aborted \in Over /\ pr[n].phase \notin {"run", "exit"}
    BY <1>1 DEF Over
  <2> HIDE DEF aborted, r, s
  <2> QED BY <1>4, <2>1, AbortKeeps
<1> QED BY <1>3, <1>4 DEF Fork

\* A signal is delivered.
LEMMA SignalHandlerKeeps ==
  ASSUME Goods, NEW p \in Procs, NEW sig \in Signals, SignalHandler(p, sig)
  PROVE  Goods'
<1> DEFINE r == pr[p]
           q == IF Contains(r.sigq, sig) THEN r.sigq ELSE Append(r.sigq, sig)
           s == [r EXCEPT !.pend = r.pend \ {sig}, !.sigq = q]
<1>1. Good(p, r) /\ r \in Record(p) /\ pidfile' \subseteq Procs
  BY DEF Goods, Good, SignalHandler
<1>2. pr' = [pr EXCEPT ![p] = s]
  BY <1>1 DEF SignalHandler, Goods, Record
<1>3. q \in Seq(Signals) /\ r.pend \ {sig} \in SUBSET Signals
  BY <1>1 DEF Record
<1> HIDE DEF q
<1>4. /\ s \in Record(p) /\ s.li = r.li /\ s.nb = r.nb /\ s.jobs = r.jobs /\ s.timer = r.timer
      /\ s.phase = r.phase
  BY <1>1, <1>3 DEF Record
<1> HIDE DEF s, r
<1>5. Good(p, s)
  BY <1>1, <1>4, AlikeKeeps
<1> QED BY <1>1, <1>2, <1>5, StepKeeps

\* The queued signals are handled.
LEMMA SignalProcessQueueKeeps ==
  ASSUME Goods, NEW p \in Procs, SignalProcessQueue(p)
  PROVE  Goods'
<1> DEFINE q == pr[p].sigq
           r == Handled(p, q)
           s == [r EXCEPT !.sigq = <<>>]
<1>1. Good(p, pr[p]) /\ pr[p] \in Record(p) /\ pidfile' \subseteq Procs /\ pr[p].phase = "run"
  BY DEF Goods, Good, SignalProcessQueue
<1>2. pr' = [pr EXCEPT ![p] = s]
  BY DEF SignalProcessQueue
<1>3. q \in Seq(Signals)
  BY <1>1 DEF Record
<1> HIDE DEF q
<1>4. Good(p, r) /\ r \in Record(p)
  BY <1>1, <1>3, HandledKeeps DEF Good
<1> HIDE DEF r
<1>5. /\ s \in Record(p) /\ s.li = r.li /\ s.nb = r.nb /\ s.jobs = r.jobs /\ s.timer = r.timer
      /\ s.phase = r.phase
  <2>1. <<>> \in Seq(Signals)
    OBVIOUS
  <2> QED BY <1>4, <2>1 DEF Record
<1> HIDE DEF s
<1>6. Good(p, s)
  BY <1>4, <1>5, AlikeKeeps
<1> QED BY <1>1, <1>2, <1>6, StepKeeps

\* A proxy is stopped.
LEMMA ManageProxyKeeps ==
  ASSUME Goods, NEW p \in Procs, NEW i \in DOMAIN Proxies[p], ManageProxy(p, i)
  PROVE  Goods'
<1>1. Good(p, pr[p]) /\ pidfile' \subseteq Procs /\ pr[p].phase = "run"
  BY DEF Goods, ManageProxy
<1> DEFINE s == StopProxy(p, pr[p], i)
<1>2. Good(p, s)
  BY <1>1, StopProxyKeeps
<1>3. pr' = [pr EXCEPT ![p] = s]
  BY DEF ManageProxy, Goods
<1> HIDE DEF s
<1> QED BY <1>1, <1>2, <1>3, StepKeeps

\* A connection is accepted, or its listener waits.
LEMMA ListenerAcceptKeeps ==
  ASSUME Goods, NEW p \in Procs, NEW x \in PortsOf(p), ListenerAccept(p, x)
  PROVE  Goods'
<1> DEFINE r == pr[p]
<1>1. /\ Good(p, r) /\ r \in Record(p) /\ pidfile' \subseteq Procs /\ r.phase = "run"
      /\ r.li[x] = "READY" /\ r.nb[x] < ListenerMax
  BY DEF Goods, Good, ListenerAccept
<1>2. CASE pr' = [pr EXCEPT ![p].nb[x] = @ + 1, ![p].jobs = @ + 1,
                            ![p].li[x] = IF r.nb[x] + 1 >= ListenerMax THEN "FULL" ELSE @]
  <2> DEFINE s == [r EXCEPT !.nb = [r.nb EXCEPT ![x] = r.nb[x] + 1], !.jobs = r.jobs + 1,
                            !.li = [r.li EXCEPT ![x] = IF r.nb[x] + 1 >= ListenerMax
                                                       THEN "FULL" ELSE r.li[x]]]
  <2>1. pr' = [pr EXCEPT ![p] = s]
    BY <1>1, <1>2 DEF Goods, Record
  <2> HIDE DEF s, r
  <2>2. Good(p, s)
    BY <1>1, AcceptKeeps DEF s
  <2> QED BY <1>1, <2>1, <2>2, StepKeeps
<1>3. CASE pr' = [pr EXCEPT ![p] = LimitListener(r, x)]
  <2>1. Good(p, LimitListener(r, x))
    BY <1>1, LimitKeeps
  <2> QED BY <1>1, <1>3, <2>1, StepKeeps
<1> QED BY <1>2, <1>3 DEF ListenerAccept

\* A session ends.
LEMMA SessionEndKeeps ==
  ASSUME Goods, NEW p \in Procs, NEW x \in PortsOf(p), SessionEnd(p, x)
  PROVE  Goods'
<1> DEFINE r    == pr[p]
           less == [r EXCEPT !.nb[x] = @ - 1, !.jobs = @ - 1]
           open == IF r.li[x] = "FULL" THEN [less EXCEPT !.li[x] = ResumeListener(less, x)]
                   ELSE less
           s == DequeueAllListeners(open)
<1>1. Good(p, r) /\ pidfile' \subseteq Procs /\ r.phase = "run" /\ r.nb[x] > 0
  BY DEF Goods, SessionEnd
<1>2. pr' = [pr EXCEPT ![p] = s]
  BY DEF SessionEnd
<1> HIDE DEF r
<1>3. Good(p, s)
  BY <1>1, EndKeeps
<1> HIDE DEF s
<1> QED BY <1>1, <1>2, <1>3, StepKeeps

\* The task of the global queue runs.
LEMMA ManageGlobalListenerQueueKeeps ==
  ASSUME Goods, NEW p \in Procs, ManageGlobalListenerQueue(p)
  PROVE  Goods'
<1> DEFINE r == pr[p]
           t == IF Actconn(r) >= GlobalMax THEN r ELSE DequeueAllListeners(r)
           s == [t EXCEPT !.timer = FALSE]
<1>1. /\ Good(p, r) /\ r \in Record(p) /\ pidfile' \subseteq Procs /\ r.phase = "run"
      /\ DOMAIN r.li = PortsOf(p)
  BY ActconnIs DEF Goods, Good, ManageGlobalListenerQueue
<1>2. pr' = [pr EXCEPT ![p] = s]
  BY DEF ManageGlobalListenerQueue
<1> HIDE DEF r
<1>3. /\ Good(p, t) /\ t.phase = "run"
      /\ \/ Actconn(t) >= GlobalMax
         \/ \A x \in PortsOf(p) : t.li[x] # "LIMITED"
  <2>1. CASE Actconn(r) >= GlobalMax
    BY <1>1, <2>1
  <2>2. CASE ~(Actconn(r) >= GlobalMax)
    <3>1. JobsCounted(r) /\ \A x \in PortsOf(p) : r.li[x] = "FULL" => r.nb[x] >= ListenerMax
      BY <1>1 DEF Good, Remembered
    <3>2. t = DequeueAllListeners(r)
      BY <2>2
    <3> QED BY <1>1, <3>1, <3>2, DequeueKeeps
  <2> QED BY <2>1, <2>2
<1> HIDE DEF t
<1>4. t \in Record(p)
  BY <1>3 DEF Good
<1>5. /\ s \in Record(p) /\ s.li = t.li /\ s.nb = t.nb /\ s.jobs = t.jobs /\ s.phase = t.phase
  BY <1>4 DEF Record
<1> HIDE DEF s
<1>6. DOMAIN s.li = PortsOf(p) /\ DOMAIN t.li = PortsOf(p)
  BY <1>4, <1>5, ActconnIs
<1>7. JobsCounted(s) /\ Actconn(s) = Actconn(t)
  BY <1>3, <1>5, ListenersKeep
<1>8. Good(p, s)
  BY <1>3, <1>5, <1>6, <1>7 DEF Good, NotYetRunning, Remembered
<1> QED BY <1>1, <1>2, <1>8, StepKeeps

\* The loop returns.
LEMMA ExitKeeps ==
  ASSUME Goods, NEW p \in Procs, Exit(p)
  PROVE  Goods'
<1> DEFINE exit == "exit"
<1>1. /\ Good(p, pr[p]) /\ pidfile' \subseteq Procs /\ pr[p].phase = "run" /\ pr[p].jobs = 0
      /\ pr' = [pr EXCEPT ![p] = Gone(pr[p], exit)] /\ exit \in Over /\ exit = "exit"
  BY DEF Goods, Exit, Over
<1> HIDE DEF exit
<1>2. Good(p, Gone(pr[p], exit))
  BY <1>1, GoneKeeps
<1> QED BY <1>1, <1>2, StepKeeps

-----------------------------------------------------------------------------
(* The theorems.                                                           *)

\* A process that has not started, or serves from the start, is good.
LEMMA InitKeeps == Init => Goods
<1> SUFFICES ASSUME Init PROVE Goods
  OBVIOUS
<1>0. /\ ListenerMax \in Nat \ {0} /\ GlobalMax \in Nat \ {0} /\ MaxStartRetries \in Nat
  BY TakeoverAssumption
<1>1. ASSUME NEW p \in Procs PROVE Good(p, pr[p])
  <2> DEFINE r == pr[p]
             st == IF p = First THEN "READY" ELSE "ASSIGNED"
             zero == [x \in PortsOf(p) |-> 0]
             card == Cardinality(PortsOf(p))
  <2>1. /\ IsFiniteSet(PortsOf(p)) /\ FlattenSeq(Proxies[p]) \in Seq(PortsOf(p))
        /\ card \in Nat
    BY TakeoverAssumption, FS_CardinalityType
  <2>2. /\ r.li = [x \in PortsOf(p) |-> st] /\ r.nb = zero /\ r.jobs = card
        /\ r.phase = IF p = First THEN "run" ELSE "off"
    BY DEF Init, Fresh
  <2>3. r \in Record(p)
    <3> DEFINE todo == IF p = First THEN <<>> ELSE FlattenSeq(Proxies[p])
               phase == IF p = First THEN "run" ELSE "off"
               li == [x \in PortsOf(p) |-> st]
               px == [i \in DOMAIN Proxies[p] |-> IF p = First THEN "READY" ELSE "NEW"]
               none == <<>>
    <3>1. r = [ phase |-> phase, li |-> li, nb |-> zero, px |-> px, pend |-> {}, sigq |-> none,
                jobs |-> card, stopping |-> FALSE, timer |-> FALSE, old |-> {},
                retry |-> MaxStartRetries, err |-> FALSE, todo |-> todo ]
      <4>1. CASE p = First
        BY <4>1 DEF Init, Fresh
      <4>2. CASE p # First
        BY <4>2 DEF Init, Fresh
      <4> QED BY <4>1, <4>2
    <3>2. zero \in [PortsOf(p) -> 0..ListenerMax]
      BY <1>0
    <3>3. todo \in Seq(PortsOf(p)) /\ none \in Seq(Signals) /\ phase \in Phases
      BY <2>1 DEF Phases
    <3>4. li \in [PortsOf(p) -> Bound \cup {"INIT", "ASSIGNED", "PAUSED"}]
      BY DEF Bound
    <3>5. px \in [DOMAIN Proxies[p] -> {"NEW", "READY", "PAUSED", "STOPPED"}]
      OBVIOUS
    <3> HIDE DEF todo, phase, li, px, zero, none, card, r
    <3> QED BY <1>0, <2>1, <3>1, <3>2, <3>3, <3>4, <3>5 DEF Record
  <2> HIDE DEF r, card
  <2>4. \A x \in PortsOf(p) : r.li[x] = st /\ r.nb[x] = 0
    BY <2>2
  <2>5. DOMAIN r.li = PortsOf(p) /\ Actconn(r) = 0
    BY <2>3, <2>4, ActconnIs
  <2>6. Busy(r) = PortsOf(p)
    BY <2>4, <2>5 DEF Busy
  <2>7. JobsCounted(r)
    BY <2>1, <2>2, <2>5, <2>6 DEF JobsCounted, card
  <2>8. NotYetRunning(r)
    BY <2>2, <2>4, <2>5 DEF NotYetRunning
  <2>9. Remembered(r)
    BY <2>4, <2>5 DEF Remembered
  <2> QED BY <2>3, <2>5, <2>7, <2>8, <2>9 DEF Good, r
<1>2. pr = [p \in Procs |-> pr[p]] /\ pidfile \subseteq Procs
  BY DEF Init, Procs
<1> QED BY <1>1, <1>2 DEF Goods

\* Every step keeps every record good.
LEMMA NextKeeps == Goods /\ [Next]_vars => Goods'
<1> SUFFICES ASSUME Goods, [Next]_vars PROVE Goods'
  OBVIOUS
<1>1. CASE UNCHANGED vars
  BY <1>1 DEF vars, Goods
<1>2. ASSUME NEW n \in News, Launch(n) \/ Startup(n) PROVE Goods'
  <2>0. n \in Procs
    BY DEF Procs
  <2> QED
    BY <1>2, <2>0, LaunchKeeps, BindListenerKeeps, RoundEndKeeps, WaitEndKeeps, GiveUpKeeps,
       OpenPidfileKeeps, CheckPrivilegesKeeps, LeavingKeeps, TellOldPidsKeeps, ForkKeeps
    DEF Startup
<1>3. ASSUME NEW p \in Procs, Loop(p) PROVE Goods'
  BY <1>3, SignalHandlerKeeps, SignalProcessQueueKeeps, ManageProxyKeeps,
     ManageGlobalListenerQueueKeeps, ExitKeeps
  DEF Loop, Signals
<1>4. ASSUME NEW p \in Procs, NEW x \in PortsOf(p), ListenerAccept(p, x) \/ SessionEnd(p, x)
      PROVE  Goods'
  BY <1>4, ListenerAcceptKeeps, SessionEndKeeps
<1> QED BY <1>1, <1>2, <1>3, <1>4 DEF Next

(***************************************************************************)
(* The inductive invariant of the reconfiguration.                         *)
(***************************************************************************)
THEOREM TakeoverInvariant == Spec => []TakeoverInv
<1>1. Init => TakeoverInv
  BY InitKeeps, GoodsIs
<1>2. TakeoverInv /\ [Next]_vars => TakeoverInv'
  BY NextKeeps, GoodsIs
<1> QED BY <1>1, <1>2, PTL DEF Spec

(***************************************************************************)
(* A process that leaves has no session left, whatever processes are       *)
(* started, whichever signals cross and whatever its listeners were when   *)
(* it was told to stop: jobs, at zero, counts every session (session.c,    *)
(* listener.c) and every listener that is not released (proxy.c).          *)
(***************************************************************************)
THEOREM SessionSafety == Spec => []NoSessionCut
<1>1. TakeoverInv => NoSessionCut
  BY DEF TakeoverInv
<1> QED BY <1>1, TakeoverInvariant, PTL

(***************************************************************************)
(* No listener waits for nothing: a full one has its sessions, a limited   *)
(* one a session to end or the task of the queue, through every pause,     *)
(* resumption and accept() that fails (listener.c), for every limit.       *)
(***************************************************************************)
THEOREM ListenerSafety == Spec => []NoListenerForgotten
<1>1. TakeoverInv => NoListenerForgotten
  BY ActconnIs DEF TakeoverInv, TypeOK, Remembered, NoListenerForgotten
<1> QED BY <1>1, TakeoverInvariant, PTL
============================================================================
