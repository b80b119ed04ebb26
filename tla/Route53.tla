------------------------------ MODULE Route53 -------------------------------
(***************************************************************************)
(* The CNAME records of the hosted zone and the three scripts that write   *)
(* them:                                                                   *)
(*   - update_route53_cname.sh, run by upstart when an instance comes up;  *)
(*   - create_instance_update_route53_cname.sh, the same script given the  *)
(*     two names by create_instance.sh on the administration host;         *)
(*   - clean_route53.sh, which removes records of instances that are gone. *)
(*                                                                         *)
(* Each reads the zone (or what its name servers answer), decides, and     *)
(* submits one change batch, which Route 53 applies completely or refuses. *)
(* EC2, Route 53 and its name servers are outside the scripts.             *)
(***************************************************************************)
EXTENDS Naturals

CONSTANTS
  Instances,    \* EC2 instances
  Fqdns,        \* names in the zone
  NameTag,      \* the tag "Name" of each instance
  Hosts,        \* public EC2 host names (ec2-...), which EC2 reuses
  LoadBalancer, \* the host name of a load balancer (not ec2-...)
  None,         \* no host name, no fqdn
  Lagging,      \* may the name servers answer from an older zone?
  Flaky,        \* may calls to AWS fail?
  AdminCreates, \* instances that create_instance.sh has started
  CleanerRuns   \* is clean_route53.sh run?

ASSUME NamesAssumption ==
  /\ NameTag \in [Instances -> Fqdns]
  /\ None \notin Hosts /\ None \notin Fqdns
  /\ LoadBalancer \notin Hosts /\ LoadBalancer # None
ASSUME SwitchesAssumption ==
  /\ AdminCreates \subseteq Instances
  /\ {Lagging, Flaky, CleanerRuns} \subseteq BOOLEAN

VARIABLES
  host,      \* public host name of each instance, None when it is stopped
  zone,      \* the records of the hosted zone
  served,    \* the records its name servers answer with
  pc,        \* where each run of an update script is
  ec2name,   \* $EC2_Name of the run
  fqdn,      \* $Desired_FQDN of the run
  old,       \* the record it has read ($OldType, $OldTTL, $OldName)
  created,   \* instances create_instance.sh has reached its update for
  cleaning,  \* where clean_route53.sh is
  pairs,     \* names it has listed and not yet looked up
  listed,    \* the zone as it was listed
  batch,     \* names whose records it will delete
  held,      \* history: pairs <<fqdn, host>> an instance had, while up
  excused    \* history: hosts that came up, or whose lookup failed, since the listing

updateVars == <<pc, ec2name, fqdn, old>>
cleanVars == <<cleaning, pairs, listed, batch>>
vars == <<host, zone, served, pc, ec2name, fqdn, old, created, cleaning, pairs,
          listed, batch, held, excused>>

Runs == {"boot", "admin"} \X Instances
Instance(r) == r[2]

NewTTL == 600
Cname(ttl, value) == [type |-> "CNAME", ttl |-> ttl, value |-> value]
NoRecord == [type |-> "none", ttl |-> 0, value |-> None]
ARecord == [type |-> "A", ttl |-> 300, value |-> None]
SoaRecord == [type |-> "SOA", ttl |-> 900, value |-> None]
Records == {NoRecord, ARecord, SoaRecord}
             \cup [type : {"CNAME"}, ttl : {300, NewTTL}, value : Hosts \cup {LoadBalancer}]

TypeOK ==
  /\ host \in [Instances -> Hosts \cup {None}]
  /\ zone \in [Fqdns -> Records]
  /\ served \in [Fqdns -> Records]
  /\ pc \in [Runs -> {"idle", "auth", "lookup", "dig", "submit"}]
  /\ ec2name \in [Runs -> Hosts \cup {None}]
  /\ fqdn \in [Runs -> Fqdns \cup {None}]
  /\ old \in [Runs -> Records]
  /\ created \subseteq Instances
  /\ cleaning \in {"idle", "check"}
  /\ pairs \subseteq Fqdns
  /\ listed \in [Fqdns -> Records]
  /\ batch \subseteq Fqdns
  /\ held \subseteq Fqdns \X Hosts
  /\ excused \subseteq Hosts \cup {LoadBalancer, None}

Init ==
  /\ host = [i \in Instances |-> None]
  /\ zone \in [Fqdns -> {NoRecord, ARecord, SoaRecord, Cname(300, LoadBalancer)}]
  /\ served = zone
  /\ pc = [r \in Runs |-> "idle"]
  /\ ec2name = [r \in Runs |-> None]
  /\ fqdn = [r \in Runs |-> None]
  /\ old = [r \in Runs |-> NoRecord]
  /\ created = {}
  /\ cleaning = "idle"
  /\ pairs = {}
  /\ listed = [f \in Fqdns |-> NoRecord]
  /\ batch = {}
  /\ held = {}
  /\ excused = {}

-----------------------------------------------------------------------------
(* EC2 and Route 53.                                                       *)

Up(h) == \E i \in Instances : host[i] = h

\* A run of the script ends: its variables are gone.
Ended(r) ==
  /\ pc' = [pc EXCEPT ![r] = "idle"]
  /\ ec2name' = [ec2name EXCEPT ![r] = None]
  /\ fqdn' = [fqdn EXCEPT ![r] = None]
  /\ old' = [old EXCEPT ![r] = NoRecord]

\* An instance starts, with a host name no running instance has; its network
\* comes up and upstart starts the update task (which first sleeps).
StartInstance(i, h) ==
  /\ host[i] = None
  /\ ~Up(h)
  /\ host' = [host EXCEPT ![i] = h]
  /\ held' = held \cup {<<NameTag[i], h>>}
  /\ excused' = IF cleaning = "check" THEN excused \cup {h} ELSE excused
  /\ pc' = [pc EXCEPT ![<<"boot", i>>] = "auth"]
  /\ UNCHANGED <<zone, served, ec2name, fqdn, old, created, cleanVars>>

\* It stops or is terminated; its own update run stops with it.
StopInstance(i) ==
  /\ host[i] # None
  /\ host' = [host EXCEPT ![i] = None]
  /\ Ended(<<"boot", i>>)
  /\ UNCHANGED <<zone, served, created, cleanVars, held, excused>>

\* The name servers catch up with the zone.
Propagate(f) ==
  /\ served[f] # zone[f]
  /\ served' = [served EXCEPT ![f] = zone[f]]
  /\ UNCHANGED <<host, zone, updateVars, created, cleanVars, held, excused>>

\* Route 53 applies a batch.
Apply(newZone) ==
  /\ zone' = newZone
  /\ served' = IF Lagging THEN served ELSE newZone

Refuse == UNCHANGED <<zone, served>>

-----------------------------------------------------------------------------
(* The update scripts.                                                     *)

\* create_instance.sh has tagged the new instance and asked for its host name.
AdminUpdate(i) ==
  LET r == <<"admin", i>> IN
  /\ i \in AdminCreates
  /\ i \notin created
  /\ host[i] # None
  /\ created' = created \cup {i}
  /\ ec2name' = [ec2name EXCEPT ![r] = host[i]]
  /\ fqdn' = [fqdn EXCEPT ![r] = NameTag[i]]
  /\ pc' = [pc EXCEPT ![r] = "auth"]
  /\ UNCHANGED <<host, zone, served, old, cleanVars, held, excused>>

\* Find an authoritative name server, exit 1 without one.
FindAuthServer(r) ==
  /\ pc[r] = "auth"
  /\ \/ /\ pc' = [pc EXCEPT ![r] = IF fqdn[r] = None THEN "lookup" ELSE "dig"]
        /\ UNCHANGED <<ec2name, fqdn, old>>
     \/ Flaky /\ Ended(r)
  /\ UNCHANGED <<host, zone, served, created, cleanVars, held, excused>>

\* Mutant: any name of the zone, not the tag of the instance with this host name.
MutantAnyTag(r) ==
  /\ pc[r] = "lookup"
  /\ \E f \in Fqdns : fqdn' = [fqdn EXCEPT ![r] = f]
  /\ ec2name' = [ec2name EXCEPT ![r] = host[Instance(r)]]
  /\ pc' = [pc EXCEPT ![r] = "dig"]
  /\ UNCHANGED <<host, zone, served, old, created, cleanVars, held, excused>>

\* The host name from the metadata service, the tag "Name" from EC2.  Without a
\* name the batch the run goes on to submit concerns no name of the zone, so
\* the run ends without effect.
LookupNames(r) ==
  LET i == Instance(r) IN
  /\ pc[r] = "lookup"
  /\ \/ /\ ec2name' = [ec2name EXCEPT ![r] = host[i]]
        /\ fqdn' = [fqdn EXCEPT ![r] = NameTag[i]]
        /\ pc' = [pc EXCEPT ![r] = "dig"]
        /\ UNCHANGED old
     \/ Flaky /\ Ended(r)
  /\ UNCHANGED <<host, zone, served, created, cleanVars, held, excused>>

\* Mutant: dig asks a caching resolver, whose TTL has been counted down.
MutantCachedAnswer(f) ==
  IF served[f].type = "CNAME" THEN [served[f] EXCEPT !.ttl = 300]
  ELSE IF served[f] = ARecord THEN NoRecord ELSE served[f]

\* What "dig CNAME" leaves after the greps: a CNAME, the SOA of the zone's own
\* name, and nothing for a name that only has an A record.
Answer(f) == IF served[f] = ARecord THEN NoRecord ELSE served[f]

\* Read the current record; exit 1 if it is not a CNAME.  A query that times
\* out reads as "no record".
DigRecord(r) ==
  /\ pc[r] = "dig"
  /\ \E rec \in {Answer(fqdn[r])} \cup (IF Flaky THEN {NoRecord} ELSE {}) :
       \/ /\ rec.type \notin {"CNAME", "none"}
          /\ Ended(r)
       \/ /\ rec.type \in {"CNAME", "none"}
          /\ old' = [old EXCEPT ![r] = rec]
          /\ pc' = [pc EXCEPT ![r] = "submit"]
          /\ UNCHANGED <<ec2name, fqdn>>
  /\ UNCHANGED <<host, zone, served, created, cleanVars, held, excused>>

\* DELETE the old record, if any, and CREATE the new one, in one batch: Route 53
\* refuses it unless the zone holds exactly the record to delete (or none).
Accepted(f, rec) == zone[f] = rec

\* A record that is already right is left alone; a refused or failed batch is
\* reported and not retried.
SubmitUpdate(r) ==
  LET f == fqdn[r] IN
  /\ pc[r] = "submit"
  /\ \/ old[r].value = ec2name[r] /\ Refuse
     \/ /\ old[r].value # ec2name[r]
        /\ Accepted(f, old[r])
        /\ Apply([zone EXCEPT ![f] = Cname(NewTTL, ec2name[r])])
     \/ /\ old[r].value # ec2name[r]
        /\ Flaky \/ ~Accepted(f, old[r])
        /\ Refuse
  /\ Ended(r)
  /\ UNCHANGED <<host, created, cleanVars, held, excused>>

-----------------------------------------------------------------------------
(* clean_route53.sh                                                        *)

\* The names whose CNAME points to an EC2 host (grep ec2-).
Ec2Names == {f \in Fqdns : zone[f].type = "CNAME" /\ zone[f].value \in Hosts}

ListRecords ==
  /\ CleanerRuns
  /\ cleaning = "idle"
  /\ pairs' \in {Ec2Names} \cup (IF Flaky THEN {{}} ELSE {})
  /\ listed' = zone
  /\ batch' = {}
  /\ cleaning' = "check"
  /\ excused' = {}
  /\ UNCHANGED <<host, zone, served, updateVars, created, held>>

\* describe-instances for the next listed host; a failed call prints no
\* INSTANCES line either, so it counts as "gone".
CheckHost(f) ==
  /\ cleaning = "check"
  /\ f \in pairs
  /\ pairs' = pairs \ {f}
  /\ \/ /\ ~Up(listed[f].value)
        /\ batch' = batch \cup {f}
        /\ UNCHANGED excused
     \/ /\ Up(listed[f].value)
        /\ UNCHANGED <<batch, excused>>
     \/ /\ Flaky
        /\ batch' = batch \cup {f}
        /\ excused' = excused \cup {listed[f].value}
  /\ UNCHANGED <<host, zone, served, updateVars, created, cleaning, listed, held>>

\* Mutant: the batch deletes a listed name whatever it points to by now.
MutantDeleteByName ==
  /\ cleaning = "check"
  /\ pairs = {}
  /\ Apply([f \in Fqdns |-> IF f \in batch THEN NoRecord ELSE zone[f]])
  /\ cleaning' = "idle"
  /\ batch' = {}
  /\ listed' = [f \in Fqdns |-> NoRecord]
  /\ excused' = {}
  /\ UNCHANGED <<host, updateVars, created, pairs, held>>

\* All deletions in one batch; none if nothing is to be deleted.
SubmitClean ==
  /\ cleaning = "check"
  /\ pairs = {}
  /\ \/ /\ batch # {}
        /\ \A f \in batch : zone[f] = listed[f]
        /\ Apply([f \in Fqdns |-> IF f \in batch THEN NoRecord ELSE zone[f]])
     \/ /\ batch = {} \/ Flaky \/ \E f \in batch : zone[f] # listed[f]
        /\ Refuse
  /\ cleaning' = "idle"
  /\ batch' = {}
  /\ listed' = [f \in Fqdns |-> NoRecord]
  /\ excused' = {}
  /\ UNCHANGED <<host, updateVars, created, pairs, held>>

-----------------------------------------------------------------------------
UpdateStep(r) ==
  FindAuthServer(r) \/ LookupNames(r) \/ DigRecord(r) \/ SubmitUpdate(r)

\* The job is started again on a running instance (service ... start).
RunAgain(i) ==
  /\ host[i] # None
  /\ pc[<<"boot", i>>] = "idle"
  /\ pc' = [pc EXCEPT ![<<"boot", i>>] = "auth"]
  /\ UNCHANGED <<host, zone, served, ec2name, fqdn, old, created, cleanVars, held, excused>>

Next ==
  \/ \E i \in Instances : \/ \E h \in Hosts : StartInstance(i, h)
                          \/ StopInstance(i)
                          \/ AdminUpdate(i)
                          \/ RunAgain(i)
  \/ \E f \in Fqdns : Propagate(f) \/ CheckHost(f)
  \/ \E r \in Runs : UpdateStep(r)
  \/ ListRecords
  \/ SubmitClean

Spec == Init /\ [][Next]_vars

\* A started script runs to its end.
FairSpec == Spec /\ \A r \in Runs : WF_vars(UpdateStep(r))
-----------------------------------------------------------------------------
(* Properties.                                                             *)

\* A name only ever points to hosts that an instance tagged with that name has
\* had, whatever the interleaving of boots, administration runs and cleaning.
OwnNamesOnly ==
  \A f \in Fqdns : zone[f].type = "CNAME" /\ zone[f].value \in Hosts
                     => <<f, zone[f].value>> \in held

\* An update never leaves a name without a record, not even for a moment (old
\* and new record change hands in one batch): only the cleaner removes a name.
OnlyCleanerRemoves ==
  [][\A f \in Fqdns : zone[f] # NoRecord /\ zone'[f] = NoRecord
       => cleaning = "check" /\ cleaning' = "idle"]_vars

\* Records the scripts do not own (A, SOA) are never touched, and the cleaner
\* leaves the record of a load balancer alone.
ForeignRecordsKept ==
  [][\A f \in Fqdns :
       /\ zone[f].type \in {"A", "SOA"} => zone'[f] = zone[f]
       /\ zone[f].value = LoadBalancer => zone'[f] # NoRecord]_vars

\* The cleaner removes only records of hosts that are down, that came up (again)
\* after it had listed the zone, or whose own lookup failed: neither a record
\* replaced meanwhile nor the failed lookup of another host costs a live host
\* its name.
CleanerSparesLiveHosts ==
  [][\A f \in Fqdns : zone[f] # NoRecord /\ zone'[f] = NoRecord
       => ~Up(zone[f].value) \/ zone[f].value \in excused]_vars

\* "this script is run on bootup on all servers to update the EC2 CNAME in
\* route53 for the name in the tag 'Name'": when every run has ended and the name
\* servers have caught up, the name of a running instance points to it.
NamesFollowInstances ==
  (\A r \in Runs : pc[r] = "idle") /\ cleaning = "idle" /\ served = zone
    => \A i \in Instances :
         host[i] # None /\ zone[NameTag[i]].type \notin {"A", "SOA"}
           => zone[NameTag[i]].value = host[i]

\* An instance that stays up gets its name.
NameEventuallySet ==
  \A i \in Instances : \A h \in Hosts :
    host[i] = h ~> \/ host[i] # h
                   \/ zone[NameTag[i]].type \in {"A", "SOA"}
                   \/ zone[NameTag[i]].value = h
\* What makes OwnNamesOnly inductive: the names a run works with, once it has
\* them, belong together, and a run that will ask for them is on an instance
\* that is up.
RunNames(r) ==
  /\ r[1] = "admin" => pc[r] # "lookup" /\ (pc[r] # "idle" => fqdn[r] # None)
  /\ r[1] = "boot" /\ pc[r] # "idle" => host[Instance(r)] # None
  /\ pc[r] \in {"dig", "submit"} => fqdn[r] # None
  /\ fqdn[r] # None => <<fqdn[r], ec2name[r]>> \in held

NamesInv ==
  /\ \A r \in Runs : RunNames(r)
  /\ \A i \in Instances : host[i] # None => <<NameTag[i], host[i]>> \in held
  /\ OwnNamesOnly

\* What makes ForeignRecordsKept inductive: a run has read a CNAME or nothing,
\* and whatever the cleaner may delete was listed as the CNAME of an EC2 host.
RecordsInv ==
  /\ \A r \in Runs : old[r].type \in {"CNAME", "none"}
  /\ \A f \in pairs \cup batch : listed[f].type = "CNAME" /\ listed[f].value \in Hosts

\* What makes CleanerSparesLiveHosts inductive: every record in the batch was
\* found without an instance, and whatever excuses one that has a host now is
\* remembered.
CleanInv ==
  cleaning = "check" =>
    \A f \in batch : ~Up(listed[f].value) \/ listed[f].value \in excused

\* The circumstances in which names follow their instances: the calls succeed,
\* the name servers are current, nobody else writes the zone and no two
\* instances are tagged alike.
Calm ==
  /\ ~Lagging /\ ~Flaky /\ ~CleanerRuns /\ AdminCreates = {}
  /\ \A i, j \in Instances : NameTag[i] = NameTag[j] => i = j

\* What makes NamesFollowInstances inductive when all is calm: a run that has
\* its names has the instance's own, what it has read is still there, and when it
\* has ended the name is as it should be.
CalmRun(i) ==
  LET r == <<"boot", i>>
      f == NameTag[i]
  IN /\ pc[<<"admin", i>>] = "idle"
     /\ fqdn[r] # None => pc[r] # "idle" /\ fqdn[r] = f /\ ec2name[r] = host[i]
     /\ pc[r] = "submit" => old[r] = Answer(f)
     /\ host[i] # None /\ pc[r] = "idle"
          => zone[f].type \in {"A", "SOA"} \/ zone[f].value = host[i]

CalmInv == served = zone /\ cleaning = "idle" /\ \A i \in Instances : CalmRun(i)
=============================================================================
