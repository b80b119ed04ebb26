----------------------------- MODULE Deployment -----------------------------
(***************************************************************************)
(* Deploying web applications: the Jenkins job deployment.sh stops Tomcat  *)
(* on the server, uploads each artifact and runs the server's wardeploy.sh *)
(* (an installed copy of pm-wardeploy.sh or of a variant of it), which     *)
(* keeps the old war, removes it and copies the new one; then the job      *)
(* starts Tomcat.  Hardly any command's exit status is looked at.          *)
(*                                                                         *)
(* A war is told apart by its version.  Tomcat and Artifactory are outside *)
(* the scripts.                                                            *)
(***************************************************************************)
EXTENDS Naturals

CONSTANTS
  Artifacts,   \* wars of the project (rest.war, ROOT.war)
  Root,        \* the one that answers on http://localhost:8080
  Versions,    \* versions of the artifacts
  None,        \* no file
  Partial,     \* a file that was only partly written
  DropDbs,     \* values of $DROPDB that jobs are run with ("" if it is not set)
  MaxJobs,     \* bound: jobs in a behaviour
  MaxFaults    \* bound: aborted jobs and failed calls in a behaviour

ASSUME FilesAssumption ==
  /\ Root \in Artifacts
  /\ None \notin Versions /\ Partial \notin Versions /\ None # Partial
ASSUME JobsAssumption ==
  /\ DropDbs \subseteq {"yes", "no", ""}
  /\ MaxJobs \in Nat /\ MaxFaults \in Nat

VARIABLES
  tomcat,    \* "stopping": told to shut down, still answering
  served,    \* what Tomcat serves, while it runs
  webapps,   \* the wars in webapps/
  exploded,  \* the directories Tomcat has unpacked next to them
  backup,    \* /tmp/deployments/<project>/oldversion
  latest,    \* /tmp/deployments/<project>/latestversion
  db,        \* the project's database
  pc, art, left, version, dropdb,  \* the job
  jobs, faults,
  trouble    \* history: what has disturbed the job (a slow stop, a fault)

files == <<webapps, exploded, backup, latest>>
job == <<art, left, version, dropdb, jobs, trouble>>
vars == <<tomcat, served, webapps, exploded, backup, latest, db, pc, art, left,
          version, dropdb, jobs, faults, trouble>>

Contents == Versions \cup {None, Partial}
Troubles == {"slow stop", "fault"}

TypeOK ==
  /\ tomcat \in {"up", "stopping", "down"}
  /\ served \in [Artifacts -> Versions \cup {None}]
  /\ webapps \in [Artifacts -> Contents]
  /\ exploded \in [Artifacts -> Versions \cup {None}]
  /\ backup \in [Artifacts -> Contents]
  /\ latest \in [Artifacts -> Contents]
  /\ db \in {"data", "empty"}
  /\ pc \in {"off", "next", "prepare", "upload", "wardeploy", "root", "check",
             "backup", "backing", "rmwar", "rmdir", "install", "installing"}
  /\ art \in Artifacts
  /\ left \subseteq Artifacts
  /\ version \in Versions
  /\ dropdb \in DropDbs
  /\ jobs \in 0..MaxJobs
  /\ faults \in 0..MaxFaults
  /\ trouble \subseteq Troubles

\* A server on which the project already runs.
Init ==
  /\ tomcat = "up"
  /\ \E v \in Versions : webapps = [a \in Artifacts |-> v]
  /\ exploded = webapps
  /\ served = webapps
  /\ backup = [a \in Artifacts |-> None]
  /\ latest = backup
  /\ db = "data"
  /\ pc = "off"
  /\ art = Root
  /\ left = {}
  /\ version \in Versions
  /\ dropdb \in DropDbs
  /\ jobs = 0
  /\ faults = 0
  /\ trouble = {}

-----------------------------------------------------------------------------
(* Tomcat.                                                                 *)

Answers == tomcat # "down" /\ served[Root] # None

StopCompletes ==
  /\ tomcat = "stopping"
  /\ tomcat' = "down"
  /\ UNCHANGED <<served, files, db, pc, job, faults>>

\* Users fill the database.
UseApplication ==
  /\ tomcat = "up"
  /\ Answers
  /\ db' = "data"
  /\ UNCHANGED <<tomcat, served, files, pc, job, faults>>

\* What a Tomcat that starts finds: an unpacked directory wins over its war.
Found(a) == IF exploded[a] # None THEN exploded[a]
            ELSE IF webapps[a] = Partial THEN None ELSE webapps[a]

-----------------------------------------------------------------------------
(* deployment.sh                                                           *)

\* Mutant: Tomcat is not shut down.
MutantNoShutdown(v, d) ==
  /\ pc = "off"
  /\ jobs < MaxJobs
  /\ jobs' = jobs + 1
  /\ version' = v
  /\ dropdb' = d
  /\ left' = Artifacts
  /\ pc' = "next"
  /\ trouble' = {}
  /\ UNCHANGED <<tomcat, served, files, db, art, faults>>

\* shutdown.sh returns when it has told Tomcat to stop; Tomcat may have stopped by
\* the time of the next command, or take longer.
Shutdown(v, d) ==
  /\ pc = "off"
  /\ jobs < MaxJobs
  /\ jobs' = jobs + 1
  /\ tomcat' \in IF tomcat = "down" THEN {"down"} ELSE {"down", "stopping"}
  /\ version' = v
  /\ dropdb' = d
  /\ left' = Artifacts
  /\ pc' = "next"
  /\ trouble' = IF tomcat' = "down" THEN {} ELSE {"slow stop"}
  /\ UNCHANGED <<served, files, db, art, faults>>

\* Log in to Artifactory and fetch the next artifact into the workspace.
FetchArtifact(a) ==
  /\ pc = "next"
  /\ a \in left
  /\ left' = left \ {a}
  /\ art' = a
  /\ pc' = "prepare"
  /\ UNCHANGED <<tomcat, served, files, db, version, dropdb, jobs, faults, trouble>>

\* rm -rf and mkdir of the upload directory on the server.
PrepareUpload ==
  /\ pc = "prepare"
  /\ latest' = [a \in Artifacts |-> None]
  /\ pc' = "upload"
  /\ UNCHANGED <<tomcat, served, webapps, exploded, backup, db, job, faults>>

Fault ==
  /\ faults < MaxFaults
  /\ faults' = faults + 1
  /\ trouble' = trouble \cup {"fault"}

\* scp and unzip; if either fails the job goes on without the file.
Upload ==
  /\ pc = "upload"
  /\ \/ latest' = [latest EXCEPT ![art] = version] /\ UNCHANGED <<faults, trouble>>
     \/ Fault /\ UNCHANGED latest
  /\ pc' = "wardeploy"
  /\ UNCHANGED <<tomcat, served, webapps, exploded, backup, db, art, left, version,
                 dropdb, jobs>>

\* startup.sh after the last artifact: with the port still taken the new Tomcat
\* does not come up.
Startup ==
  /\ pc = "next"
  /\ left = {}
  /\ \/ /\ tomcat = "down"
        /\ tomcat' = "up"
        /\ served' = [a \in Artifacts |-> Found(a)]
        /\ exploded' = [a \in Artifacts |-> Found(a)]
     \/ tomcat # "down" /\ UNCHANGED <<tomcat, served, exploded>>
  /\ pc' = "off"
  /\ UNCHANGED <<webapps, backup, latest, db, job, faults>>

\* The job exits (bad login, no such artifact, failed download) or is aborted.
Abort ==
  /\ pc # "off"
  /\ Fault
  /\ pc' = "off"
  /\ UNCHANGED <<tomcat, served, files, db, art, left, version, dropdb, jobs>>

-----------------------------------------------------------------------------
(* wardeploy.sh on the server.                                             *)

\* With an empty $DROPDB there are seven arguments: usage message, exit 1, and
\* the job goes on.  Otherwise the database is dropped if asked for.
BeginWardeploy ==
  /\ pc = "wardeploy"
  /\ pc' = IF dropdb = "" THEN "next" ELSE "root"
  /\ db' = IF dropdb = "yes" THEN "empty" ELSE db
  /\ UNCHANGED <<tomcat, served, files, job, faults>>

\* A ROOT directory without a ROOT.war (Tomcat's own welcome page) is moved away.
MoveRoot ==
  /\ pc = "root"
  /\ exploded' = IF webapps[Root] = None THEN [exploded EXCEPT ![Root] = None]
                                         ELSE exploded
  /\ pc' = "check"
  /\ UNCHANGED <<tomcat, served, webapps, backup, latest, db, job, faults>>

\* Mutant: any answer counts as stopped.
MutantNoCheck ==
  /\ pc = "check"
  /\ pc' = "backup"
  /\ UNCHANGED <<tomcat, served, files, db, job, faults>>

\* "tomcat failed to stop" if it answers with 200: exit -1, and the job goes on.
CheckStopped ==
  /\ pc = "check"
  /\ pc' = IF Answers THEN "next" ELSE "backup"
  /\ UNCHANGED <<tomcat, served, files, db, job, faults>>

\* cp of a missing file leaves the destination alone; otherwise the destination
\* is emptied first and filled then.
CopyBegins(from, to) == IF from = None THEN to ELSE Partial
CopyEnds(from, to) == IF from = None THEN to ELSE from

\* Mutant: the old files are removed before they are kept.
MutantRemoveFirst ==
  /\ pc = "backup"
  /\ webapps' = [webapps EXCEPT ![art] = None]
  /\ exploded' = [exploded EXCEPT ![art] = None]
  /\ pc' = "backing"
  /\ UNCHANGED <<tomcat, served, backup, latest, db, job, faults>>

BackUp ==
  /\ pc = "backup"
  /\ backup' = [backup EXCEPT ![art] = CopyBegins(webapps[art], @)]
  /\ pc' = "backing"
  /\ UNCHANGED <<tomcat, served, webapps, exploded, latest, db, job, faults>>

BackedUp ==
  /\ pc = "backing"
  /\ backup' = [backup EXCEPT ![art] = CopyEnds(webapps[art], @)]
  /\ pc' = "rmwar"
  /\ UNCHANGED <<tomcat, served, webapps, exploded, latest, db, job, faults>>

RemoveWar ==
  /\ pc = "rmwar"
  /\ webapps' = [webapps EXCEPT ![art] = None]
  /\ pc' = "rmdir"
  /\ UNCHANGED <<tomcat, served, exploded, backup, latest, db, job, faults>>

\* Mutant: the unpacked directory stays.
MutantKeepDirectory ==
  /\ pc = "rmdir"
  /\ pc' = "install"
  /\ UNCHANGED <<tomcat, served, files, db, job, faults>>

RemoveDirectory ==
  /\ pc = "rmdir"
  /\ exploded' = [exploded EXCEPT ![art] = None]
  /\ pc' = "install"
  /\ UNCHANGED <<tomcat, served, webapps, backup, latest, db, job, faults>>

\* mv to the name without the version, cp to webapps.
Install ==
  /\ pc = "install"
  /\ webapps' = [webapps EXCEPT ![art] = CopyBegins(latest[art], @)]
  /\ pc' = "installing"
  /\ UNCHANGED <<tomcat, served, exploded, backup, latest, db, job, faults>>

Installed ==
  /\ pc = "installing"
  /\ webapps' = [webapps EXCEPT ![art] = CopyEnds(latest[art], @)]
  /\ pc' = "next"
  /\ UNCHANGED <<tomcat, served, exploded, backup, latest, db, job, faults>>

-----------------------------------------------------------------------------
Wardeploy == \/ BeginWardeploy \/ MoveRoot \/ CheckStopped
             \/ BackUp \/ BackedUp \/ RemoveWar \/ RemoveDirectory
             \/ Install \/ Installed

Next ==
  \/ StopCompletes \/ UseApplication
  \/ \E v \in Versions, d \in DropDbs : Shutdown(v, d)
  \/ \E a \in Artifacts : FetchArtifact(a)
  \/ PrepareUpload \/ Upload \/ Startup \/ Abort
  \/ Wardeploy

Spec == Init /\ [][Next]_vars

-----------------------------------------------------------------------------
(* Properties.                                                             *)

\* "take backup, clean old deployed war and related files": whatever happens to
\* a job, some complete copy of every application is left on the server, in
\* webapps, in oldversion or in latestversion.
CompleteCopyLeft ==
  \A a \in Artifacts :
    \E copy \in {webapps[a], exploded[a], backup[a], latest[a]} : copy \in Versions

\* Any single fault, at any point of any number of jobs, is survived.
SurvivesOneFault == faults < 2 => CompleteCopyLeft

\* A job whose $DROPDB is set, for which Tomcat stops in time and which meets no
\* fault itself deploys its version, whatever earlier jobs have left behind:
\* partial wars, missing uploads, old unpacked directories, a Tomcat down.
DeploysUndisturbed ==
  jobs > 0 /\ pc = "off" /\ trouble = {} /\ dropdb # ""
    => tomcat = "up" /\ \A a \in Artifacts : served[a] = version

\* The wars of a Tomcat that answers are not replaced under it.
NoSwapUnderTraffic == [][webapps' # webapps => ~Answers]_vars

\* If Tomcat stops in time, the database is only dropped while nobody uses it.
DropsIdleDatabase ==
  [][db' = "empty" /\ db = "data" /\ "slow stop" \notin trouble
       => tomcat = "down"]_vars

\* What makes NoSwapUnderTraffic inductive: nobody starts Tomcat between the
\* check and the copy.
Replacing == {"backup", "backing", "rmwar", "rmdir", "install", "installing"}
TrafficInv == pc \in Replacing => ~Answers

\* What makes DropsIdleDatabase inductive: nobody but the job starts Tomcat.
IdleInv == pc # "off" /\ "slow stop" \notin trouble => tomcat = "down"

\* What makes DeploysUndisturbed inductive: which files are those of the job's
\* version at each point of an undisturbed job.
Undisturbed == jobs > 0 /\ trouble = {} /\ dropdb # ""
Uploaded == {"wardeploy", "root", "check"} \cup Replacing
Deployed(a) == a \notin left /\ (pc = "next" \/ art # a)

ProgressInv ==
  Undisturbed =>
    /\ pc = "off" => tomcat = "up" /\ \A a \in Artifacts : served[a] = version
    /\ pc # "off" => \A a \in Artifacts :
                       Deployed(a) => webapps[a] = version /\ exploded[a] = None
    /\ pc \notin {"off", "next"} => art \notin left
    /\ pc \in Uploaded => latest[art] = version
    /\ pc \in {"install", "installing"} => exploded[art] = None

\* What makes SurvivesOneFault inductive: where the complete copy of a war is at
\* each point of its deployment.  The upload can only be missing if the war to be
\* replaced is complete or already kept, since either takes a fault.
Deploying(a) == art = a /\ pc \in Uploaded
Removed(a) == art = a /\ pc \in {"rmdir", "install", "installing"}

CopyKept(a) ==
  /\ latest[a] # Partial
  /\ Deploying(a) /\ (faults = 0 \/ webapps[a] = Partial) => latest[a] \in Versions
  /\ faults = 0 => webapps[a] \in Versions \/ Removed(a)
  /\ \/ webapps[a] \in Versions
     \/ backup[a] \in Versions
     \/ Deploying(a) /\ faults # 0 /\ latest[a] \in Versions
          /\ pc \in Replacing \ {"backup"}
  /\ art = a /\ pc \in {"rmdir", "install"} => webapps[a] = None
  /\ art = a /\ pc = "rmwar" /\ webapps[a] \in Versions => backup[a] \in Versions

CopyInv == faults < 2 => \A a \in Artifacts : CopyKept(a)
=============================================================================
