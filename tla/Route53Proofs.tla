---------------------------- MODULE Route53Proofs ---------------------------
(***************************************************************************)
(* Proofs about Route53, for every set of instances, names and hosts and   *)
(* with every kind of interference switched on or off.                     *)
(***************************************************************************)
EXTENDS Route53, TLAPS

-----------------------------------------------------------------------------
(* The records.                                                            *)

\* The kinds of record are told apart by their type, and the CNAME an update
\* creates is one of them.
LEMMA RecordFacts ==
  /\ NoRecord \in Records /\ NoRecord.type = "none" /\ NoRecord.value = None
  /\ ARecord \in Records /\ ARecord.type = "A" /\ ARecord.value = None
  /\ SoaRecord \in Records /\ SoaRecord.type = "SOA" /\ SoaRecord.value = None
  /\ \A h \in Hosts \cup {LoadBalancer} : \A ttl \in {300, NewTTL} :
       /\ Cname(ttl, h) \in Records
       /\ Cname(ttl, h).type = "CNAME" /\ Cname(ttl, h).value = h
<1>1. NoRecord \in Records /\ ARecord \in Records /\ SoaRecord \in Records
  BY DEF Records
<1>2. /\ NoRecord.type = "none" /\ NoRecord.value = None
      /\ ARecord.type = "A" /\ ARecord.value = None
      /\ SoaRecord.type = "SOA" /\ SoaRecord.value = None
  BY DEF NoRecord, ARecord, SoaRecord
<1>3. ASSUME NEW h \in Hosts \cup {LoadBalancer}, NEW ttl \in {300, NewTTL}
      PROVE  /\ Cname(ttl, h) \in Records
             /\ Cname(ttl, h).type = "CNAME" /\ Cname(ttl, h).value = h
  BY DEF Cname, Records
<1> QED BY <1>1, <1>2, <1>3

\* A record is one of the four kinds; only a CNAME has a host.
LEMMA RecordKinds ==
  ASSUME NEW rec \in Records
  PROVE  \/ rec = NoRecord \/ rec = ARecord \/ rec = SoaRecord
         \/ rec.type = "CNAME" /\ rec.value \in Hosts \cup {LoadBalancer}
BY DEF Records

-----------------------------------------------------------------------------
(* Types, and names that only point to their own instances.                *)

LEMMA NamesInit == Init => TypeOK /\ NamesInv /\ RecordsInv
<1> SUFFICES ASSUME Init PROVE TypeOK /\ NamesInv /\ RecordsInv
  OBVIOUS
<1>1. zone \in [Fqdns -> Records]
  BY RecordFacts DEF Init
<1>2. \A f \in Fqdns : zone[f].value \notin Hosts
  <2>1. \A f \in Fqdns : zone[f].value \in {None, LoadBalancer}
    BY RecordFacts DEF Init
  <2> QED BY <2>1, NamesAssumption
<1>3. TypeOK
  BY <1>1, RecordFacts DEF Init, TypeOK
<1>4. NamesInv
  BY <1>2 DEF Init, NamesInv, RunNames, OwnNamesOnly
<1>5. RecordsInv
  BY RecordFacts DEF Init, RecordsInv
<1> QED BY <1>3, <1>4, <1>5

\* Ending a run is type correct and leaves it without names.
LEMMA EndedEffect ==
  ASSUME TypeOK, NEW r \in Runs, Ended(r)
  PROVE  /\ pc' \in [Runs -> {"idle", "auth", "lookup", "dig", "submit"}]
         /\ ec2name' \in [Runs -> Hosts \cup {None}]
         /\ fqdn' \in [Runs -> Fqdns \cup {None}]
         /\ old' \in [Runs -> Records]
         /\ pc'[r] = "idle" /\ fqdn'[r] = None /\ old'[r] = NoRecord
         /\ \A s \in Runs : s # r => /\ pc'[s] = pc[s] /\ ec2name'[s] = ec2name[s]
                                     /\ fqdn'[s] = fqdn[s] /\ old'[s] = old[s]
BY RecordFacts DEF Ended, TypeOK
\* A run that does not step keeps its names while its instance stays up.
LEMMA RunNamesKept ==
  ASSUME NEW r \in Runs, RunNames(r), held \subseteq held',
         pc'[r] = pc[r], fqdn'[r] = fqdn[r], ec2name'[r] = ec2name[r],
         r[1] = "boot" /\ pc[r] # "idle" /\ host[Instance(r)] # None
           => host'[Instance(r)] # None
  PROVE  RunNames(r)'
BY DEF RunNames, Instance

\* A change of the zone that writes only <<name, host>> pairs an instance has had.
LEMMA OwnNamesKept ==
  ASSUME OwnNamesOnly, held \subseteq held',
         \A f \in Fqdns : \/ zone'[f] = zone[f]
                          \/ zone'[f] = NoRecord
                          \/ <<f, zone'[f].value>> \in held'
  PROVE  OwnNamesOnly'
BY RecordFacts DEF OwnNamesOnly

LEMMA InvStep == TypeOK /\ NamesInv /\ RecordsInv /\ [Next]_vars
                   => TypeOK' /\ NamesInv' /\ RecordsInv'
<1> SUFFICES ASSUME TypeOK, NamesInv, RecordsInv, [Next]_vars
             PROVE  TypeOK' /\ NamesInv' /\ RecordsInv'
  OBVIOUS
<1>r. \A r \in Runs : RunNames(r)
  BY DEF NamesInv
<1>o. OwnNamesOnly /\ \A i \in Instances : host[i] # None => <<NameTag[i], host[i]>> \in held
  BY DEF NamesInv
<1>b. \A i \in Instances : <<"boot", i>> \in Runs /\ <<"admin", i>> \in Runs
  BY DEF Runs
<1>i. \A r \in Runs : Instance(r) \in Instances /\ r[1] \in {"boot", "admin"}
                       /\ r = <<r[1], Instance(r)>>
  BY DEF Runs, Instance
<1>1. ASSUME NEW i \in Instances, NEW h \in Hosts, StartInstance(i, h)
      PROVE  TypeOK' /\ NamesInv' /\ RecordsInv'
  <2> DEFINE b == <<"boot", i>>
  <2>1. /\ host[i] = None /\ host' = [host EXCEPT ![i] = h]
        /\ held' = held \cup {<<NameTag[i], h>>}
        /\ pc' = [pc EXCEPT ![b] = "auth"]
        /\ UNCHANGED <<zone, ec2name, fqdn, old, cleaning, pairs, listed, batch>>
    BY <1>1 DEF StartInstance, cleanVars
  <2>2. TypeOK'
    <3>1. held' \subseteq Fqdns \X Hosts /\ host' \in [Instances -> Hosts \cup {None}]
      <4>1. <<NameTag[i], h>> \in Fqdns \X Hosts
        BY NamesAssumption
      <4>2. held' \subseteq Fqdns \X Hosts
        BY <2>1, <4>1 DEF TypeOK
      <4>3. host' \in [Instances -> Hosts \cup {None}]
        BY <2>1 DEF TypeOK
      <4> QED BY <4>2, <4>3
    <3>2. pc' \in [Runs -> {"idle", "auth", "lookup", "dig", "submit"}]
      BY <2>1 DEF TypeOK
    <3>3. excused' \subseteq Hosts \cup {LoadBalancer, None} /\ UNCHANGED <<served, created>>
      BY <1>1 DEF TypeOK, StartInstance
    <3> QED BY <2>1, <3>1, <3>2, <3>3 DEF TypeOK
  <2>3. ASSUME NEW r \in Runs PROVE RunNames(r)'
    <3>1. CASE r = b
      <4>1. pc'[r] = "auth" /\ r[1] = "boot" /\ host'[Instance(r)] = h
        BY <2>1, <3>1, <1>b DEF TypeOK, Instance
      <4> QED BY <1>r, <2>1, <4>1, NamesAssumption DEF RunNames
    <3>2. CASE r # b
      <4>1. pc'[r] = pc[r] /\ host'[Instance(r)] \in {host[Instance(r)], h}
        BY <2>1, <3>2, <1>b, <1>i DEF TypeOK
      <4> QED BY <1>r, <2>1, <4>1, RunNamesKept, NamesAssumption
    <3> QED BY <3>1, <3>2
  <2>4. OwnNamesOnly'
    BY <1>o, <2>1, OwnNamesKept
  <2>5. \A j \in Instances : host'[j] # None => <<NameTag[j], host'[j]>> \in held'
    BY <1>o, <2>1 DEF TypeOK
  <2> QED BY <2>1, <2>2, <2>3, <2>4, <2>5 DEF NamesInv, RecordsInv
<1>2. ASSUME NEW i \in Instances, StopInstance(i)
      PROVE  TypeOK' /\ NamesInv' /\ RecordsInv'
  <2> DEFINE b == <<"boot", i>>
  <2>1. /\ host' = [host EXCEPT ![i] = None] /\ Ended(b)
        /\ UNCHANGED <<zone, served, created, cleaning, pairs, listed, batch, held, excused>>
    BY <1>2 DEF StopInstance, cleanVars
  <2>2. /\ pc'[b] = "idle" /\ fqdn'[b] = None /\ old'[b] = NoRecord
        /\ \A s \in Runs : s # b => /\ pc'[s] = pc[s] /\ ec2name'[s] = ec2name[s]
                                    /\ fqdn'[s] = fqdn[s] /\ old'[s] = old[s]
    BY <2>1, <1>b, EndedEffect
  <2>3. TypeOK'
    BY <2>1, <1>b, EndedEffect DEF TypeOK
  <2>4. ASSUME NEW r \in Runs PROVE RunNames(r)'
    <3>1. CASE r = b
      BY <2>2, <3>1 DEF RunNames
    <3>2. CASE r # b
      <4>1. r[1] = "boot" => Instance(r) # i
        BY <3>2, <1>i
      <4>2. r[1] = "boot" => host'[Instance(r)] = host[Instance(r)]
        BY <2>1, <4>1, <1>i DEF TypeOK
      <4> QED BY <1>r, <2>1, <2>2, <3>2, <4>2, RunNamesKept
    <3> QED BY <3>1, <3>2
  <2>5. OwnNamesOnly'
    BY <1>o, <2>1, OwnNamesKept
  <2>6. \A j \in Instances : host'[j] # None => <<NameTag[j], host'[j]>> \in held'
    BY <1>o, <2>1 DEF TypeOK
  <2>7. \A r \in Runs : old'[r].type \in {"CNAME", "none"}
    BY <2>2, RecordFacts DEF RecordsInv
  <2> QED BY <2>1, <2>3, <2>4, <2>5, <2>6, <2>7 DEF NamesInv, RecordsInv
<1>3. ASSUME NEW i \in Instances, AdminUpdate(i)
      PROVE  TypeOK' /\ NamesInv' /\ RecordsInv'
  <2> DEFINE a == <<"admin", i>>
  <2>1. /\ host[i] # None /\ ec2name' = [ec2name EXCEPT ![a] = host[i]]
        /\ fqdn' = [fqdn EXCEPT ![a] = NameTag[i]]
        /\ pc' = [pc EXCEPT ![a] = "auth"]
        /\ UNCHANGED <<host, zone, old, cleaning, pairs, listed, batch, held>>
    BY <1>3 DEF AdminUpdate, cleanVars
  <2>2. TypeOK'
    BY <1>3, <1>b, NamesAssumption DEF TypeOK, AdminUpdate, cleanVars
  <2>3. ASSUME NEW r \in Runs PROVE RunNames(r)'
    <3>1. CASE r = a
      <4>1. pc'[r] = "auth" /\ r[1] = "admin" /\ fqdn'[r] = NameTag[i] /\ ec2name'[r] = host[i]
        BY <2>1, <3>1, <1>b DEF TypeOK
      <4>2. NameTag[i] # None
        BY NamesAssumption
      <4> QED BY <1>o, <2>1, <4>1, <4>2 DEF RunNames
    <3>2. CASE r # a
      <4>1. pc'[r] = pc[r] /\ fqdn'[r] = fqdn[r] /\ ec2name'[r] = ec2name[r]
        BY <2>1, <3>2 DEF TypeOK
      <4> QED BY <1>r, <2>1, <4>1, RunNamesKept
    <3> QED BY <3>1, <3>2
  <2>4. OwnNamesOnly'
    BY <1>o, <2>1, OwnNamesKept
  <2> QED BY <1>o, <2>1, <2>2, <2>3, <2>4 DEF NamesInv, RecordsInv
<1>4. ASSUME NEW i \in Instances, RunAgain(i)
      PROVE  TypeOK' /\ NamesInv' /\ RecordsInv'
  <2> DEFINE b == <<"boot", i>>
  <2>1. /\ host[i] # None /\ pc' = [pc EXCEPT ![b] = "auth"]
        /\ UNCHANGED <<host, zone, fqdn, ec2name, old, cleaning, pairs, listed, batch, held>>
    BY <1>4 DEF RunAgain, cleanVars
  <2>2. TypeOK'
    BY <1>4, <1>b DEF TypeOK, RunAgain, cleanVars
  <2>3. ASSUME NEW r \in Runs PROVE RunNames(r)'
    <3>1. CASE r = b
      <4>1. pc'[r] = "auth" /\ r[1] = "boot" /\ Instance(r) = i
        BY <2>1, <3>1, <1>b DEF TypeOK, Instance
      <4> QED BY <1>r, <2>1, <4>1 DEF RunNames
    <3>2. CASE r # b
      <4>1. pc'[r] = pc[r]
        BY <2>1, <3>2 DEF TypeOK
      <4> QED BY <1>r, <2>1, <4>1, RunNamesKept
    <3> QED BY <3>1, <3>2
  <2>4. OwnNamesOnly'
    BY <1>o, <2>1, OwnNamesKept
  <2> QED BY <1>o, <2>1, <2>2, <2>3, <2>4 DEF NamesInv, RecordsInv
<1>5. ASSUME NEW r \in Runs, Ended(r),
             UNCHANGED <<host, zone, served, created, cleaning, pairs, listed, batch, held, excused>>
      PROVE  TypeOK' /\ NamesInv' /\ RecordsInv'
  <2>1. /\ pc'[r] = "idle" /\ fqdn'[r] = None /\ old'[r] = NoRecord
        /\ \A s \in Runs : s # r => /\ pc'[s] = pc[s] /\ ec2name'[s] = ec2name[s]
                                    /\ fqdn'[s] = fqdn[s] /\ old'[s] = old[s]
    BY <1>5, EndedEffect
  <2>2. TypeOK'
    BY <1>5, EndedEffect DEF TypeOK
  <2>3. ASSUME NEW s \in Runs PROVE RunNames(s)'
    <3>1. CASE s = r
      BY <2>1, <3>1 DEF RunNames
    <3>2. CASE s # r
      BY <1>r, <1>5, <2>1, <3>2, RunNamesKept
    <3> QED BY <3>1, <3>2
  <2>4. OwnNamesOnly'
    BY <1>o, <1>5, OwnNamesKept
  <2>5. \A s \in Runs : old'[s].type \in {"CNAME", "none"}
    BY <2>1, RecordFacts DEF RecordsInv
  <2> QED BY <1>o, <1>5, <2>2, <2>3, <2>4, <2>5 DEF NamesInv, RecordsInv
<1>6. ASSUME NEW r \in Runs, FindAuthServer(r)
      PROVE  TypeOK' /\ NamesInv' /\ RecordsInv'
  <2>1. UNCHANGED <<host, zone, served, created, cleaning, pairs, listed, batch, held, excused>>
    BY <1>6 DEF FindAuthServer, cleanVars
  <2>2. CASE Ended(r)
    BY <1>5, <2>1, <2>2
  <2>3. CASE ~Ended(r)
    <3>1. /\ pc[r] = "auth"
          /\ pc' = [pc EXCEPT ![r] = IF fqdn[r] = None THEN "lookup" ELSE "dig"]
          /\ UNCHANGED <<ec2name, fqdn, old>>
      BY <1>6, <2>3 DEF FindAuthServer
    <3>2. pc'[r] = (IF fqdn[r] = None THEN "lookup" ELSE "dig")
          /\ \A s \in Runs : s # r => pc'[s] = pc[s]
      BY <3>1 DEF TypeOK
    <3>3. TypeOK'
      BY <2>1, <3>1 DEF TypeOK
    <3>4. ASSUME NEW s \in Runs PROVE RunNames(s)'
      <4>1. CASE s = r
        BY <1>r, <2>1, <3>1, <3>2, <4>1 DEF RunNames
      <4>2. CASE s # r
        BY <1>r, <2>1, <3>1, <3>2, <4>2, RunNamesKept
      <4> QED BY <4>1, <4>2
    <3>5. OwnNamesOnly'
      BY <1>o, <2>1, OwnNamesKept
    <3> QED BY <1>o, <2>1, <3>1, <3>3, <3>4, <3>5 DEF NamesInv, RecordsInv
  <2> QED BY <2>2, <2>3
<1>7. ASSUME NEW r \in Runs, LookupNames(r)
      PROVE  TypeOK' /\ NamesInv' /\ RecordsInv'
  <2>1. UNCHANGED <<host, zone, served, created, cleaning, pairs, listed, batch, held, excused>>
    BY <1>7 DEF LookupNames, cleanVars
  <2>2. CASE Ended(r)
    BY <1>5, <2>1, <2>2
  <2>3. CASE ~Ended(r)
    <3>1. /\ pc[r] = "lookup"
          /\ ec2name' = [ec2name EXCEPT ![r] = host[Instance(r)]]
          /\ fqdn' = [fqdn EXCEPT ![r] = NameTag[Instance(r)]]
          /\ pc' = [pc EXCEPT ![r] = "dig"]
          /\ UNCHANGED old
      BY <1>7, <2>3 DEF LookupNames
    <3>2. /\ pc'[r] = "dig" /\ ec2name'[r] = host[Instance(r)]
          /\ fqdn'[r] = NameTag[Instance(r)]
          /\ \A s \in Runs : s # r => /\ pc'[s] = pc[s] /\ ec2name'[s] = ec2name[s]
                                      /\ fqdn'[s] = fqdn[s]
      BY <3>1 DEF TypeOK
    <3>3. Instance(r) \in Instances /\ NameTag[Instance(r)] \in Fqdns
            /\ host[Instance(r)] \in Hosts \cup {None}
      BY <1>i, NamesAssumption DEF TypeOK
    <3>4. TypeOK'
      BY <2>1, <3>1, <3>3 DEF TypeOK
    <3>5. host[Instance(r)] # None
      BY <1>r, <1>i, <3>1 DEF RunNames
    <3>6. ASSUME NEW s \in Runs PROVE RunNames(s)'
      <4>1. CASE s = r
        BY <1>o, <1>r, <1>i, <2>1, <3>1, <3>2, <3>3, <3>5, <4>1, NamesAssumption DEF RunNames
      <4>2. CASE s # r
        BY <1>r, <2>1, <3>2, <4>2, RunNamesKept
      <4> QED BY <4>1, <4>2
    <3>7. OwnNamesOnly'
      BY <1>o, <2>1, OwnNamesKept
    <3> QED BY <1>o, <2>1, <3>1, <3>4, <3>6, <3>7 DEF NamesInv, RecordsInv
  <2> QED BY <2>2, <2>3
<1>8. ASSUME NEW r \in Runs, DigRecord(r)
      PROVE  TypeOK' /\ NamesInv' /\ RecordsInv'
  <2>1. UNCHANGED <<host, zone, served, created, cleaning, pairs, listed, batch, held, excused>>
    BY <1>8 DEF DigRecord, cleanVars
  <2>2. CASE Ended(r)
    BY <1>5, <2>1, <2>2
  <2>3. CASE ~Ended(r)
    <3>1. PICK rec \in {Answer(fqdn[r]), NoRecord} :
            /\ pc[r] = "dig" /\ rec.type \in {"CNAME", "none"}
            /\ old' = [old EXCEPT ![r] = rec]
            /\ pc' = [pc EXCEPT ![r] = "submit"]
            /\ UNCHANGED <<ec2name, fqdn>>
      BY <1>8, <2>3 DEF DigRecord
    <3>2. rec \in Records
      <4>1. fqdn[r] \in Fqdns
        BY <1>r, <3>1 DEF RunNames, TypeOK
      <4> QED BY <3>1, <4>1, RecordFacts DEF Answer, TypeOK
    <3>3. /\ pc'[r] = "submit" /\ old'[r] = rec
          /\ \A s \in Runs : s # r => pc'[s] = pc[s] /\ old'[s] = old[s]
      BY <3>1 DEF TypeOK
    <3>4. TypeOK'
      BY <2>1, <3>1, <3>2 DEF TypeOK
    <3>5. ASSUME NEW s \in Runs PROVE RunNames(s)'
      <4>1. CASE s = r
        BY <1>r, <2>1, <3>1, <3>3, <4>1 DEF RunNames
      <4>2. CASE s # r
        BY <1>r, <2>1, <3>1, <3>3, <4>2, RunNamesKept
      <4> QED BY <4>1, <4>2
    <3>6. OwnNamesOnly'
      BY <1>o, <2>1, OwnNamesKept
    <3>7. \A s \in Runs : old'[s].type \in {"CNAME", "none"}
      BY <3>1, <3>3 DEF RecordsInv
    <3> QED BY <1>o, <2>1, <3>4, <3>5, <3>6, <3>7 DEF NamesInv, RecordsInv
  <2> QED BY <2>2, <2>3
<1>9. ASSUME NEW r \in Runs, SubmitUpdate(r)
      PROVE  TypeOK' /\ NamesInv' /\ RecordsInv'
  <2> DEFINE f == fqdn[r]
             new == Cname(NewTTL, ec2name[r])
  <2>1. /\ Ended(r) /\ pc[r] = "submit"
        /\ UNCHANGED <<host, created, cleaning, pairs, listed, batch, held, excused>>
    BY <1>9 DEF SubmitUpdate, cleanVars
  <2>2. CASE Refuse
    BY <1>5, <2>1, <2>2 DEF Refuse
  <2>3. CASE Apply([zone EXCEPT ![f] = new])
    <3>1. f \in Fqdns /\ <<f, ec2name[r]>> \in held /\ ec2name[r] \in Hosts
      <4>1. f \in Fqdns /\ <<f, ec2name[r]>> \in held
        BY <1>r, <2>1 DEF RunNames, TypeOK
      <4> QED BY <4>1 DEF TypeOK
    <3>2. new \in Records /\ new.value = ec2name[r]
      BY <3>1, RecordFacts
    <3> HIDE DEF new
    <3>3. /\ zone' = [zone EXCEPT ![f] = new]
          /\ served' = served \/ served' = zone'
      BY <2>3 DEF Apply
    <3>4. zone' \in [Fqdns -> Records] /\ served' \in [Fqdns -> Records]
      BY <3>2, <3>3 DEF TypeOK
    <3>5. TypeOK'
      BY <2>1, <3>4, EndedEffect DEF TypeOK
    <3>6. /\ pc'[r] = "idle" /\ fqdn'[r] = None /\ old'[r] = NoRecord
          /\ \A s \in Runs : s # r => /\ pc'[s] = pc[s] /\ ec2name'[s] = ec2name[s]
                                      /\ fqdn'[s] = fqdn[s] /\ old'[s] = old[s]
      BY <2>1, EndedEffect
    <3>7. ASSUME NEW s \in Runs PROVE RunNames(s)'
      <4>1. CASE s = r
        BY <3>6, <4>1 DEF RunNames
      <4>2. CASE s # r
        BY <1>r, <2>1, <3>6, <4>2, RunNamesKept
      <4> QED BY <4>1, <4>2
    <3>8. OwnNamesOnly'
      <4>1. \A g \in Fqdns : zone'[g] = zone[g] \/ (g = f /\ zone'[g] = new)
        BY <3>3 DEF TypeOK
      <4> QED BY <1>o, <2>1, <3>1, <3>2, <4>1, OwnNamesKept
    <3>9. \A s \in Runs : old'[s].type \in {"CNAME", "none"}
      BY <3>6, RecordFacts DEF RecordsInv
    <3> QED BY <1>o, <2>1, <3>5, <3>7, <3>8, <3>9 DEF NamesInv, RecordsInv
  <2> QED BY <1>9, <2>2, <2>3 DEF SubmitUpdate
<1>10. ASSUME NEW f \in Fqdns, Propagate(f)
       PROVE  TypeOK' /\ NamesInv' /\ RecordsInv'
  <2>1. /\ served' = [served EXCEPT ![f] = zone[f]]
        /\ UNCHANGED <<host, zone, pc, ec2name, fqdn, old, created, cleaning, pairs,
                       listed, batch, held, excused>>
    BY <1>10 DEF Propagate, updateVars, cleanVars
  <2>2. TypeOK'
    BY <2>1 DEF TypeOK
  <2> QED BY <2>1, <2>2 DEF NamesInv, RecordsInv, RunNames, OwnNamesOnly
<1>11. CASE ListRecords
  <2>1. /\ pairs' \subseteq Ec2Names /\ listed' = zone /\ batch' = {}
        /\ cleaning' = "check" /\ excused' = {}
        /\ UNCHANGED <<host, zone, served, pc, ec2name, fqdn, old, created, held>>
    BY <1>11 DEF ListRecords, updateVars
  <2>2. TypeOK'
    BY <2>1 DEF TypeOK, Ec2Names
  <2>3. NamesInv'
    BY <2>1 DEF NamesInv, RunNames, OwnNamesOnly
  <2>4. RecordsInv'
    BY <2>1 DEF RecordsInv, Ec2Names
  <2> QED BY <2>2, <2>3, <2>4
<1>12. ASSUME NEW f \in Fqdns, CheckHost(f)
       PROVE  TypeOK' /\ NamesInv' /\ RecordsInv'
  <2>1. /\ f \in pairs /\ pairs' = pairs \ {f}
        /\ batch' = batch \/ batch' = batch \cup {f}
        /\ UNCHANGED <<host, zone, served, pc, ec2name, fqdn, old, created, cleaning,
                       listed, held>>
        /\ excused' = excused \/ excused' = excused \cup {listed[f].value}
    BY <1>12 DEF CheckHost, updateVars
  <2>2. listed[f].value \in Hosts
    BY <2>1 DEF RecordsInv
  <2>3. TypeOK'
    BY <2>1, <2>2 DEF TypeOK
  <2>4. NamesInv'
    BY <2>1 DEF NamesInv, RunNames, OwnNamesOnly
  <2>5. RecordsInv'
    BY <2>1 DEF RecordsInv
  <2> QED BY <2>3, <2>4, <2>5
<1>13. CASE SubmitClean
  <2>1. /\ cleaning' = "idle" /\ pairs = {} /\ pairs' = pairs /\ batch' = {} /\ excused' = {}
        /\ listed' = [f \in Fqdns |-> NoRecord]
        /\ UNCHANGED <<host, pc, ec2name, fqdn, old, created, held>>
    BY <1>13 DEF SubmitClean, updateVars
  <2>2. /\ \A f \in Fqdns : zone'[f] = zone[f] \/ zone'[f] = NoRecord
        /\ zone' \in [Fqdns -> Records] /\ served' \in [Fqdns -> Records]
    <3>1. NoRecord \in Records
      BY RecordFacts
    <3>2. CASE Refuse
      BY <3>2 DEF Refuse, TypeOK
    <3>3. CASE Apply([f \in Fqdns |-> IF f \in batch THEN NoRecord ELSE zone[f]])
      BY <3>1, <3>3 DEF Apply, TypeOK
    <3> QED BY <1>13, <3>2, <3>3 DEF SubmitClean
  <2>3. TypeOK'
    BY <2>1, <2>2, RecordFacts DEF TypeOK
  <2>4. OwnNamesOnly'
    BY <1>o, <2>1, <2>2, OwnNamesKept
  <2>5. NamesInv'
    BY <2>1, <2>4 DEF NamesInv, RunNames
  <2>6. RecordsInv'
    BY <2>1 DEF RecordsInv
  <2> QED BY <2>3, <2>5, <2>6
<1>14. CASE UNCHANGED vars
  BY <1>14 DEF TypeOK, NamesInv, RecordsInv, RunNames, OwnNamesOnly, Up, vars
<1> QED
  BY <1>1, <1>2, <1>3, <1>4, <1>6, <1>7, <1>8, <1>9, <1>10, <1>11, <1>12, <1>13,
     <1>14 DEF Next, UpdateStep

\* Every reachable state is type correct, and every name points only to hosts that
\* an instance tagged with that name has had.
THEOREM NamesSafety == Spec => [](TypeOK /\ OwnNamesOnly)
<1>1. NamesInv => OwnNamesOnly
  BY DEF NamesInv
<1> QED BY <1>1, NamesInit, InvStep, PTL DEF Spec

-----------------------------------------------------------------------------
(* What a step may never do to the zone.                                   *)

\* The only steps that change the zone: an accepted update writes the record of
\* its own name over the one it has read, an accepted cleaning removes records
\* that are as they were listed.
LEMMA ZoneChanges ==
  ASSUME TypeOK, NamesInv, RecordsInv, [Next]_vars
  PROVE  \/ zone' = zone
         \/ \E r \in Runs : /\ pc[r] = "submit" /\ pc'[r] = "idle"
                             /\ fqdn[r] \in Fqdns /\ old[r] = zone[fqdn[r]]
                             /\ zone' = [zone EXCEPT ![fqdn[r]] = Cname(NewTTL, ec2name[r])]
                             /\ ec2name[r] \in Hosts
         \/ /\ cleaning = "check" /\ cleaning' = "idle"
            /\ \A f \in batch : zone[f] = listed[f]
            /\ zone' = [f \in Fqdns |-> IF f \in batch THEN NoRecord ELSE zone[f]]
<1>1. ASSUME NEW r \in Runs, SubmitUpdate(r), zone' # zone
      PROVE  /\ pc[r] = "submit" /\ pc'[r] = "idle"
             /\ fqdn[r] \in Fqdns /\ old[r] = zone[fqdn[r]]
             /\ zone' = [zone EXCEPT ![fqdn[r]] = Cname(NewTTL, ec2name[r])]
             /\ ec2name[r] \in Hosts
  <2>1. /\ pc[r] = "submit" /\ Ended(r) /\ old[r] = zone[fqdn[r]]
        /\ zone' = [zone EXCEPT ![fqdn[r]] = Cname(NewTTL, ec2name[r])]
    BY <1>1 DEF SubmitUpdate, Refuse, Apply, Accepted
  <2>2. pc'[r] = "idle"
    BY <2>1, EndedEffect
  <2>3. fqdn[r] \in Fqdns /\ <<fqdn[r], ec2name[r]>> \in held
    BY <2>1 DEF NamesInv, RunNames, TypeOK
  <2>4. ec2name[r] \in Hosts
    BY <2>3 DEF TypeOK
  <2> QED BY <2>1, <2>2, <2>3, <2>4
<1>2. CASE SubmitClean
  BY <1>2 DEF SubmitClean, Refuse, Apply
<1>3. ASSUME NEW r \in Runs, FindAuthServer(r) \/ LookupNames(r) \/ DigRecord(r)
      PROVE  zone' = zone
  BY <1>3 DEF FindAuthServer, LookupNames, DigRecord
<1>4. ASSUME NEW i \in Instances,
             (\E h \in Hosts : StartInstance(i, h)) \/ StopInstance(i) \/ AdminUpdate(i)
               \/ RunAgain(i)
      PROVE  zone' = zone
  BY <1>4 DEF StartInstance, StopInstance, AdminUpdate, RunAgain
<1>5. ASSUME NEW f \in Fqdns, Propagate(f) \/ CheckHost(f) PROVE zone' = zone
  BY <1>5 DEF Propagate, CheckHost
<1>6. CASE ListRecords \/ UNCHANGED vars
  BY <1>6 DEF ListRecords, vars
<1> QED BY <1>1, <1>2, <1>3, <1>4, <1>5, <1>6 DEF Next, UpdateStep

\* Updates never leave a name without a record, and nothing touches the records the
\* scripts do not own.
THEOREM ZoneSafety == Spec => OnlyCleanerRemoves /\ ForeignRecordsKept
<1> DEFINE Removes == \A f \in Fqdns : zone[f] # NoRecord /\ zone'[f] = NoRecord
                                        => cleaning = "check" /\ cleaning' = "idle"
           Foreign == \A f \in Fqdns :
                        /\ zone[f].type \in {"A", "SOA"} => zone'[f] = zone[f]
                        /\ zone[f].value = LoadBalancer => zone'[f] # NoRecord
<1>1. ASSUME TypeOK, NamesInv, RecordsInv, [Next]_vars
      PROVE  Removes /\ Foreign
  <2>0. zone \in [Fqdns -> Records]
    BY <1>1 DEF TypeOK
  <2>1. CASE zone' = zone
    <3>1. \A f \in Fqdns : zone[f].value = LoadBalancer => zone[f] # NoRecord
      BY RecordFacts, NamesAssumption
    <3> QED BY <2>1, <3>1
  <2>2. ASSUME NEW r \in Runs,
               pc[r] = "submit", pc'[r] = "idle",
               fqdn[r] \in Fqdns, old[r] = zone[fqdn[r]],
               zone' = [zone EXCEPT ![fqdn[r]] = Cname(NewTTL, ec2name[r])],
               ec2name[r] \in Hosts
        PROVE  Removes /\ Foreign
    <3>1. Cname(NewTTL, ec2name[r]) # NoRecord
      BY <2>2, RecordFacts
    <3>2. \A f \in Fqdns : zone'[f] = IF f = fqdn[r] THEN Cname(NewTTL, ec2name[r])
                                                     ELSE zone[f]
      BY <2>0, <2>2
    <3>3. zone[fqdn[r]].type \in {"CNAME", "none"}
      BY <1>1, <2>2 DEF RecordsInv
    <3>4. \A f \in Fqdns : zone[f].value = LoadBalancer => zone[f] # NoRecord
      BY RecordFacts, NamesAssumption
    <3>5. Removes
      BY <3>1, <3>2
    <3>6. Foreign
      BY <3>1, <3>2, <3>3, <3>4
    <3> QED BY <3>5, <3>6
  <2>3. CASE /\ cleaning = "check" /\ cleaning' = "idle"
             /\ \A f \in batch : zone[f] = listed[f]
             /\ zone' = [f \in Fqdns |-> IF f \in batch THEN NoRecord ELSE zone[f]]
    <3>1. \A f \in Fqdns : zone'[f] = IF f \in batch THEN NoRecord ELSE zone[f]
      BY <2>3
    <3>2. \A f \in batch : zone[f].type = "CNAME" /\ zone[f].value \in Hosts
      BY <1>1, <2>3 DEF RecordsInv
    <3>3. \A f \in Fqdns : zone[f].value = LoadBalancer => zone[f] # NoRecord /\ f \notin batch
      BY <3>2, RecordFacts, NamesAssumption
    <3>4. Removes
      BY <2>3, <3>1
    <3>5. Foreign
      BY <3>1, <3>2, <3>3
    <3> QED BY <3>4, <3>5
  <2> QED BY <1>1, <2>1, <2>2, <2>3, ZoneChanges
<1>2. Spec => [](TypeOK /\ NamesInv /\ RecordsInv)
  BY NamesInit, InvStep, PTL DEF Spec
<1>3. TypeOK /\ NamesInv /\ RecordsInv /\ [Next]_vars => [Removes]_vars /\ [Foreign]_vars
  BY <1>1
<1> QED BY <1>2, <1>3, PTL DEF Spec, OnlyCleanerRemoves, ForeignRecordsKept

-----------------------------------------------------------------------------
(* The cleaner and the hosts that are up.                                  *)

LEMMA CleanStep == TypeOK /\ RecordsInv /\ CleanInv /\ [Next]_vars => CleanInv'
<1> SUFFICES ASSUME TypeOK, RecordsInv, CleanInv, [Next]_vars, cleaning' = "check"
             PROVE  (\A f \in batch : ~Up(listed[f].value) \/ listed[f].value \in excused)'
  BY DEF CleanInv
<1>1. ASSUME UNCHANGED <<batch, listed>>, cleaning = "check", excused \subseteq excused',
             \A h \in Hosts : Up(h)' => Up(h) \/ h \in excused'
      PROVE  (\A f \in batch : ~Up(listed[f].value) \/ listed[f].value \in excused)'
  <2>1. \A f \in batch : listed[f].value \in Hosts
    BY DEF RecordsInv
  <2> QED BY <1>1, <2>1 DEF CleanInv
<1>2. ASSUME UNCHANGED <<host, batch, listed, cleaning, excused>>
      PROVE  (\A f \in batch : ~Up(listed[f].value) \/ listed[f].value \in excused)'
  BY <1>1, <1>2 DEF Up
<1>3. ASSUME NEW i \in Instances, NEW h \in Hosts, StartInstance(i, h)
      PROVE  (\A f \in batch : ~Up(listed[f].value) \/ listed[f].value \in excused)'
  <2>1. /\ host' = [host EXCEPT ![i] = h] /\ UNCHANGED <<batch, listed, cleaning>>
        /\ excused' = excused \cup {h}
    BY <1>3 DEF StartInstance, cleanVars
  <2>2. \A g : Up(g)' => Up(g) \/ g = h
    BY <2>1 DEF Up, TypeOK
  <2> QED BY <1>1, <2>1, <2>2
<1>4. ASSUME NEW i \in Instances, StopInstance(i)
      PROVE  (\A f \in batch : ~Up(listed[f].value) \/ listed[f].value \in excused)'
  <2>1. /\ host' = [host EXCEPT ![i] = None]
        /\ UNCHANGED <<batch, listed, cleaning, excused>>
    BY <1>4 DEF StopInstance, cleanVars
  <2>2. \A h \in Hosts : Up(h)' => Up(h)
    BY <2>1, NamesAssumption DEF Up, TypeOK
  <2> QED BY <1>1, <2>1, <2>2
<1>5. CASE ListRecords
  BY <1>5 DEF ListRecords
<1>6. ASSUME NEW f \in Fqdns, CheckHost(f)
      PROVE  (\A g \in batch : ~Up(listed[g].value) \/ listed[g].value \in excused)'
  <2>1. /\ UNCHANGED <<host, listed>> /\ excused \subseteq excused' /\ cleaning = "check"
        /\ \A g \in batch' : \/ g \in batch
                             \/ ~Up(listed[g].value) \/ listed[g].value \in excused'
    BY <1>6 DEF CheckHost
  <2> QED BY <2>1 DEF CleanInv, Up
<1>7. CASE SubmitClean
  BY <1>7 DEF SubmitClean
<1>8. ASSUME NEW r \in Runs, UpdateStep(r)
      PROVE  UNCHANGED <<host, batch, listed, cleaning, excused>>
  BY <1>8 DEF UpdateStep, FindAuthServer, LookupNames, DigRecord, SubmitUpdate, cleanVars
<1>9. ASSUME NEW i \in Instances, AdminUpdate(i) \/ RunAgain(i)
      PROVE  UNCHANGED <<host, batch, listed, cleaning, excused>>
  BY <1>9 DEF AdminUpdate, RunAgain, cleanVars
<1>10. ASSUME NEW f \in Fqdns, Propagate(f)
       PROVE  UNCHANGED <<host, batch, listed, cleaning, excused>>
  BY <1>10 DEF Propagate, cleanVars
<1>11. CASE UNCHANGED vars
  BY <1>2, <1>11 DEF vars
<1> QED
  BY <1>2, <1>3, <1>4, <1>5, <1>6, <1>7, <1>8, <1>9, <1>10, <1>11 DEF Next

\* However instances come and go, calls fail and updates overtake the cleaner, it
\* removes only records of hosts that are down, that came up after it had listed
\* the zone, or whose own lookup failed.
THEOREM CleanerSafety == Spec => CleanerSparesLiveHosts
<1> DEFINE Spares == \A f \in Fqdns : zone[f] # NoRecord /\ zone'[f] = NoRecord
                                       => ~Up(zone[f].value) \/ zone[f].value \in excused
<1>1. ASSUME TypeOK, NamesInv, RecordsInv, CleanInv, [Next]_vars
      PROVE  Spares
  <2>0. zone \in [Fqdns -> Records]
    BY <1>1 DEF TypeOK
  <2>1. CASE zone' = zone
    BY <2>1
  <2>2. ASSUME NEW r \in Runs, fqdn[r] \in Fqdns, ec2name[r] \in Hosts,
               zone' = [zone EXCEPT ![fqdn[r]] = Cname(NewTTL, ec2name[r])]
        PROVE  Spares
    <3>1. Cname(NewTTL, ec2name[r]) # NoRecord
      BY <2>2, RecordFacts
    <3>2. \A f \in Fqdns : zone'[f] = IF f = fqdn[r] THEN Cname(NewTTL, ec2name[r])
                                                     ELSE zone[f]
      BY <2>0, <2>2
    <3> QED BY <3>1, <3>2
  <2>3. CASE /\ cleaning = "check"
             /\ \A f \in batch : zone[f] = listed[f]
             /\ zone' = [f \in Fqdns |-> IF f \in batch THEN NoRecord ELSE zone[f]]
    BY <1>1, <2>3 DEF CleanInv
  <2> QED BY <1>1, <2>1, <2>2, <2>3, ZoneChanges
<1>2. Init => CleanInv
  BY DEF Init, CleanInv
<1>3. Spec => [](TypeOK /\ NamesInv /\ RecordsInv /\ CleanInv)
  BY <1>2, NamesInit, InvStep, CleanStep, PTL DEF Spec
<1>4. TypeOK /\ NamesInv /\ RecordsInv /\ CleanInv /\ [Next]_vars => [Spares]_vars
  BY <1>1
<1> QED BY <1>3, <1>4, PTL DEF Spec, CleanerSparesLiveHosts

-----------------------------------------------------------------------------
(* Names follow their instances when nothing interferes.                   *)

\* An instance whose own run, host and name's record stay keeps its part.
LEMMA CalmRunKept ==
  ASSUME NEW i \in Instances, CalmRun(i), host'[i] = host[i],
         \A k \in {"boot", "admin"} :
           LET r == <<k, i>> IN /\ pc'[r] = pc[r] /\ fqdn'[r] = fqdn[r]
                                /\ ec2name'[r] = ec2name[r] /\ old'[r] = old[r],
         zone'[NameTag[i]] = zone[NameTag[i]], served'[NameTag[i]] = served[NameTag[i]]
  PROVE  CalmRun(i)'
<1> DEFINE r == <<"boot", i>>
           a == <<"admin", i>>
<1>1. /\ pc'[r] = pc[r] /\ fqdn'[r] = fqdn[r]
      /\ ec2name'[r] = ec2name[r] /\ old'[r] = old[r] /\ pc'[a] = pc[a]
  OBVIOUS
<1> QED BY <1>1 DEF CalmRun, Answer

LEMMA CalmInit == Init => CalmInv
<1> SUFFICES ASSUME Init PROVE CalmInv
  OBVIOUS
<1>1. \A i \in Instances : <<"boot", i>> \in Runs /\ <<"admin", i>> \in Runs
  BY DEF Runs
<1> QED BY <1>1 DEF Init, CalmInv, CalmRun

LEMMA CalmStep ==
  ASSUME Calm
  PROVE  TypeOK /\ NamesInv /\ CalmInv /\ [Next]_vars => CalmInv'
<1> SUFFICES ASSUME TypeOK, NamesInv, CalmInv, [Next]_vars PROVE CalmInv'
  OBVIOUS
<1>0. served = zone /\ cleaning = "idle" /\ \A i \in Instances : CalmRun(i)
  BY DEF CalmInv
<1>b. \A i \in Instances : <<"boot", i>> \in Runs /\ <<"admin", i>> \in Runs
  BY DEF Runs
<1>u. \A i, j \in Instances : NameTag[i] = NameTag[j] => i = j
  BY DEF Calm
<1>t. \A i \in Instances : NameTag[i] \in Fqdns /\ NameTag[i] # None
  BY NamesAssumption
\* The steps of one instance and its boot run leave the others' parts alone.
<1>1. ASSUME NEW i \in Instances, CalmRun(i)', cleaning' = cleaning, served' = zone',
             \A j \in Instances : j # i => host'[j] = host[j],
             \A r \in Runs : r # <<"boot", i>> =>
               /\ pc'[r] = pc[r] /\ fqdn'[r] = fqdn[r]
               /\ ec2name'[r] = ec2name[r] /\ old'[r] = old[r],
             \A f \in Fqdns : f # NameTag[i] => zone'[f] = zone[f]
      PROVE  CalmInv'
  <2>1. ASSUME NEW j \in Instances, j # i PROVE CalmRun(j)'
    <3>1. \A k \in {"boot", "admin"} : <<k, j>> \in Runs /\ <<k, j>> # <<"boot", i>>
      BY <1>b, <2>1
    <3>2. /\ zone'[NameTag[j]] = zone[NameTag[j]]
          /\ served'[NameTag[j]] = served[NameTag[j]] /\ host'[j] = host[j]
      BY <1>0, <1>1, <1>t, <1>u, <2>1
    <3> QED BY <1>0, <1>1, <3>1, <3>2, CalmRunKept
  <2> QED BY <1>0, <1>1, <2>1 DEF CalmInv
<1>2. ASSUME NEW i \in Instances, NEW h \in Hosts, StartInstance(i, h) PROVE CalmInv'
  <2> DEFINE b == <<"boot", i>>
  <2>1. /\ host[i] = None /\ host' = [host EXCEPT ![i] = h]
        /\ pc' = [pc EXCEPT ![b] = "auth"]
        /\ UNCHANGED <<zone, served, ec2name, fqdn, old, cleaning>>
    BY <1>2 DEF StartInstance, cleanVars
  <2>2. /\ pc'[b] = "auth" /\ \A r \in Runs : r # b => pc'[r] = pc[r]
        /\ \A j \in Instances : j # i => host'[j] = host[j]
    BY <1>b, <2>1 DEF TypeOK
  <2>3. pc[b] = "idle"
    <3>1. RunNames(b)
      BY <1>b DEF NamesInv
    <3> QED BY <2>1, <3>1 DEF RunNames, Instance
  <2>4. CalmRun(i)'
    <3>1. fqdn[b] = None /\ pc'[<<"admin", i>>] = "idle"
      BY <1>0, <1>b, <2>2, <2>3 DEF CalmRun
    <3> QED BY <2>1, <2>2, <3>1 DEF CalmRun
  <2> QED BY <1>0, <1>1, <2>1, <2>2, <2>4
<1>3. ASSUME NEW i \in Instances, StopInstance(i) PROVE CalmInv'
  <2> DEFINE b == <<"boot", i>>
  <2>1. /\ host' = [host EXCEPT ![i] = None] /\ Ended(b)
        /\ UNCHANGED <<zone, served, cleaning>>
    BY <1>3 DEF StopInstance, cleanVars
  <2>2. /\ pc'[b] = "idle" /\ fqdn'[b] = None
        /\ \A s \in Runs : s # b => /\ pc'[s] = pc[s] /\ ec2name'[s] = ec2name[s]
                                    /\ fqdn'[s] = fqdn[s] /\ old'[s] = old[s]
    BY <1>b, <2>1, EndedEffect
  <2>3. host'[i] = None /\ \A j \in Instances : j # i => host'[j] = host[j]
    BY <2>1 DEF TypeOK
  <2>4. CalmRun(i)'
    BY <1>0, <1>b, <2>2, <2>3 DEF CalmRun
  <2> QED BY <1>0, <1>1, <2>1, <2>2, <2>3, <2>4
<1>4. ASSUME NEW i \in Instances, RunAgain(i) PROVE CalmInv'
  <2> DEFINE b == <<"boot", i>>
  <2>1. /\ pc[b] = "idle" /\ pc' = [pc EXCEPT ![b] = "auth"]
        /\ UNCHANGED <<host, zone, served, ec2name, fqdn, old, cleaning>>
    BY <1>4 DEF RunAgain, cleanVars
  <2>2. pc'[b] = "auth" /\ \A r \in Runs : r # b => pc'[r] = pc[r]
    BY <1>b, <2>1 DEF TypeOK
  <2>3. CalmRun(i)'
    <3>1. fqdn[b] = None /\ pc'[<<"admin", i>>] = "idle"
      BY <1>0, <1>b, <2>1, <2>2 DEF CalmRun
    <3> QED BY <2>1, <2>2, <3>1 DEF CalmRun
  <2> QED BY <1>0, <1>1, <2>1, <2>2, <2>3
<1>5. ASSUME NEW r \in Runs, pc[r] # "idle"
      PROVE  \E i \in Instances : r = <<"boot", i>> /\ Instance(r) = i
  <2>1. PICK k \in {"boot", "admin"}, i \in Instances : r = <<k, i>> /\ Instance(r) = i
    BY DEF Runs, Instance
  <2>2. k = "admin" => pc[r] = "idle"
    BY <1>0, <2>1 DEF CalmRun
  <2> QED BY <1>5, <2>1, <2>2
<1>6. ASSUME NEW r \in Runs, UpdateStep(r) PROVE CalmInv'
  <2>1. /\ pc[r] # "idle" /\ UNCHANGED <<host, cleaning>>
    BY <1>6 DEF UpdateStep, FindAuthServer, LookupNames, DigRecord, SubmitUpdate, cleanVars
  <2>2. PICK i \in Instances : r = <<"boot", i>> /\ Instance(r) = i
    BY <1>5, <2>1
  <2> DEFINE f == NameTag[i]
  <2>3. /\ ~Flaky /\ ~Lagging
    BY DEF Calm
  <2>4. /\ pc[<<"admin", i>>] = "idle" /\ <<"admin", i>> \in Runs /\ <<"admin", i>> # r
        /\ fqdn[r] # None => pc[r] # "idle" /\ fqdn[r] = f /\ ec2name[r] = host[i]
        /\ pc[r] = "submit" => old[r] = Answer(f)
    BY <1>0, <1>b, <2>2 DEF CalmRun
  <2>5. pc[r] \in {"dig", "submit"} => fqdn[r] = f /\ ec2name[r] = host[i]
    <3>1. RunNames(r)
      BY DEF NamesInv
    <3> QED BY <2>4, <3>1 DEF RunNames
  <2>6. Answer(f) = IF zone[f] = ARecord THEN NoRecord ELSE zone[f]
    BY <1>0 DEF Answer
  <2>7. f \in Fqdns /\ zone[f] \in Records
    BY <1>t DEF TypeOK
  <2>8. CASE FindAuthServer(r)
    <3>1. /\ pc[r] = "auth" /\ UNCHANGED <<ec2name, fqdn, old, zone, served>>
          /\ pc' = [pc EXCEPT ![r] = IF fqdn[r] = None THEN "lookup" ELSE "dig"]
      BY <2>3, <2>8 DEF FindAuthServer
    <3>2. /\ pc'[r] \in {"lookup", "dig"}
          /\ \A s \in Runs : s # r => pc'[s] = pc[s]
      BY <3>1 DEF TypeOK
    <3>3. CalmRun(i)'
      BY <2>1, <2>2, <2>4, <3>1, <3>2 DEF CalmRun
    <3> QED BY <1>0, <1>1, <2>1, <2>2, <3>1, <3>2, <3>3
  <2>9. CASE LookupNames(r)
    <3>1. /\ UNCHANGED <<old, zone, served>>
          /\ ec2name' = [ec2name EXCEPT ![r] = host[i]]
          /\ fqdn' = [fqdn EXCEPT ![r] = f]
          /\ pc' = [pc EXCEPT ![r] = "dig"]
      BY <2>2, <2>3, <2>9 DEF LookupNames
    <3>2. /\ pc'[r] = "dig" /\ ec2name'[r] = host[i] /\ fqdn'[r] = f
          /\ \A s \in Runs : s # r => /\ pc'[s] = pc[s] /\ ec2name'[s] = ec2name[s]
                                      /\ fqdn'[s] = fqdn[s]
      BY <3>1 DEF TypeOK
    <3>3. CalmRun(i)'
      BY <2>1, <2>2, <2>4, <3>1, <3>2 DEF CalmRun
    <3> QED BY <1>0, <1>1, <2>1, <2>2, <3>1, <3>2, <3>3
  <2>10. ASSUME Ended(r), UNCHANGED <<zone, served>>,
                zone[f].type \in {"A", "SOA"} \/ zone[f].value = host[i]
         PROVE  CalmInv'
    <3>1. /\ pc'[r] = "idle" /\ fqdn'[r] = None
          /\ \A s \in Runs : s # r => /\ pc'[s] = pc[s] /\ ec2name'[s] = ec2name[s]
                                      /\ fqdn'[s] = fqdn[s] /\ old'[s] = old[s]
      BY <2>10, EndedEffect
    <3>2. CalmRun(i)'
      BY <2>1, <2>2, <2>4, <2>10, <3>1 DEF CalmRun
    <3> QED BY <1>0, <1>1, <2>1, <2>2, <2>10, <3>1, <3>2
  <2>11. CASE DigRecord(r)
    <3>1. pc[r] = "dig" /\ UNCHANGED <<zone, served>>
      BY <2>11 DEF DigRecord
    <3>2. CASE Ended(r) /\ Answer(f).type \notin {"CNAME", "none"}
      <4>1. zone[f].type = "SOA"
        BY <2>6, <2>7, <3>2, RecordFacts, RecordKinds
      <4> QED BY <2>10, <3>1, <3>2, <4>1
    <3>3. CASE /\ old' = [old EXCEPT ![r] = Answer(f)]
               /\ pc' = [pc EXCEPT ![r] = "submit"]
               /\ UNCHANGED <<ec2name, fqdn>>
      <4>1. /\ pc'[r] = "submit" /\ old'[r] = Answer(f)
            /\ \A s \in Runs : s # r => pc'[s] = pc[s] /\ old'[s] = old[s]
        BY <3>3 DEF TypeOK
      <4>2. Answer(f)' = Answer(f)
        BY <3>1 DEF Answer
      <4>3. CalmRun(i)'
        BY <2>1, <2>2, <2>4, <2>5, <3>1, <3>3, <4>1, <4>2 DEF CalmRun
      <4> QED BY <1>0, <1>1, <2>1, <2>2, <3>1, <3>3, <4>1, <4>3
    <3> QED BY <2>3, <2>5, <2>11, <3>1, <3>2, <3>3 DEF DigRecord
  <2>12. CASE SubmitUpdate(r)
    <3>1. /\ pc[r] = "submit" /\ Ended(r)
          /\ fqdn[r] = f /\ ec2name[r] = host[i] /\ old[r] = Answer(f)
      BY <2>4, <2>5, <2>12 DEF SubmitUpdate
    <3>2. CASE Refuse /\ (old[r].value = host[i] \/ zone[f] # old[r])
      <4>1. zone[f].type \in {"A", "SOA"} \/ zone[f].value = host[i]
        BY <2>6, <3>1, <3>2, RecordFacts
      <4> QED BY <2>10, <3>1, <3>2, <4>1 DEF Refuse
    <3>3. CASE Apply([zone EXCEPT ![f] = Cname(NewTTL, host[i])])
      <4> DEFINE new == Cname(NewTTL, host[i])
      <4>1. new.value = host[i]
        BY DEF Cname
      <4> HIDE DEF new
      <4>2. zone' = [zone EXCEPT ![f] = new] /\ served' = zone'
        BY <2>3, <3>3 DEF Apply, new
      <4>3. zone'[f] = new /\ \A g \in Fqdns : g # f => zone'[g] = zone[g]
        BY <2>7, <4>2 DEF TypeOK
      <4>4. /\ pc'[r] = "idle" /\ fqdn'[r] = None
            /\ \A s \in Runs : s # r => /\ pc'[s] = pc[s] /\ ec2name'[s] = ec2name[s]
                                        /\ fqdn'[s] = fqdn[s] /\ old'[s] = old[s]
        BY <3>1, EndedEffect
      <4>5. CalmRun(i)'
        BY <2>1, <2>2, <2>4, <4>1, <4>3, <4>4 DEF CalmRun
      <4> QED BY <1>0, <1>1, <2>1, <2>2, <4>2, <4>3, <4>4, <4>5
    <3> QED BY <2>3, <2>12, <3>1, <3>2, <3>3 DEF SubmitUpdate, Accepted
  <2> QED BY <1>6, <2>8, <2>9, <2>11, <2>12 DEF UpdateStep
<1>7. CASE UNCHANGED vars
  <2>1. \A i \in Instances : CalmRun(i)'
    BY <1>0, <1>7, CalmRunKept DEF vars
  <2> QED BY <1>0, <1>7, <2>1 DEF CalmInv, vars
\* Nobody else takes a step: no cleaner, no administration runs, no name server
\* that is behind.
<1>8. ASSUME NEW i \in Instances, AdminUpdate(i) PROVE FALSE
  BY <1>8 DEF AdminUpdate, Calm
<1>9. ASSUME NEW f \in Fqdns, Propagate(f) \/ CheckHost(f) PROVE FALSE
  BY <1>0, <1>9 DEF Propagate, CheckHost
<1>10. ~ListRecords /\ ~SubmitClean
  BY <1>0 DEF ListRecords, SubmitClean, Calm
<1> QED
  BY <1>2, <1>3, <1>4, <1>6, <1>7, <1>8, <1>9, <1>10 DEF Next

\* When calls succeed, the name servers are current, nobody else writes the zone
\* and instances are tagged apart, then for any number of instances and hosts,
\* reused as they may be: whenever every run has ended, the name of a running
\* instance points to it.
THEOREM CalmSafety ==
  ASSUME Calm
  PROVE  Spec => []NamesFollowInstances
<1>1. TypeOK /\ NamesInv /\ RecordsInv /\ CalmInv /\ [Next]_vars
        => TypeOK' /\ NamesInv' /\ RecordsInv' /\ CalmInv'
  BY InvStep, CalmStep
<1>2. CalmInv => NamesFollowInstances
  <2> SUFFICES ASSUME CalmInv, \A r \in Runs : pc[r] = "idle",
                      NEW i \in Instances, host[i] # None,
                      zone[NameTag[i]].type \notin {"A", "SOA"}
               PROVE  zone[NameTag[i]].value = host[i]
    BY DEF NamesFollowInstances
  <2>1. <<"boot", i>> \in Runs
    BY DEF Runs
  <2> QED BY <2>1 DEF CalmInv, CalmRun
<1> QED BY <1>1, <1>2, NamesInit, CalmInit, PTL DEF Spec
=============================================================================
