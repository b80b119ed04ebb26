---------------------------- MODULE ScriptProofs ----------------------------
(***************************************************************************)
(* What two scripts that run on one machine without a lock promise.        *)
(*                                                                         *)
(* deployment.sh, for any set of artifacts and versions, any number of     *)
(* jobs and a Tomcat that may take its time to stop: the types, that wars  *)
(* are not replaced under a Tomcat that answers, that one fault leaves a   *)
(* complete copy of every application, and that an undisturbed job ends    *)
(* with its version served.                                                *)
(*                                                                         *)
(* update-haproxy.py, for any set of instances, any number of overlapping  *)
(* runs and both ways to restart HAProxy: the types, that an undisturbed   *)
(* run leaves HAProxy with the configuration in the file whatever others   *)
(* have left before, and that runs that are given --haproxy always find a  *)
(* listening process in the pid file.                                      *)
(***************************************************************************)
EXTENDS Deployment, UpdateHaproxy, SequenceTheorems, TLAPS

-----------------------------------------------------------------------------
(* Deployment.                                                             *)


LEMMA Bounds == MaxJobs \in Nat /\ MaxFaults \in Nat
  BY Zenon, JobsAssumption

LEMMA TroubleType ==
  /\ {} \subseteq Troubles /\ {"slow stop"} \subseteq Troubles
  /\ trouble \subseteq Troubles => trouble \cup {"fault"} \subseteq Troubles
  BY DEF Troubles

LEMMA InitOK == Init => TypeOK /\ TrafficInv /\ CopyInv
<1> SUFFICES ASSUME Init PROVE TypeOK /\ TrafficInv /\ CopyInv
  OBVIOUS
<1> USE FilesAssumption
<1>1. TypeOK
  <2>1. PICK v \in Versions : webapps = [a \in Artifacts |-> v]
    BY DEF Init
  <2>2. jobs \in 0..MaxJobs /\ faults \in 0..MaxFaults
    BY Bounds DEF Init
  <2>3. QED
    BY <2>1, <2>2 DEF Init, TypeOK, Contents
<1>2. TrafficInv
  BY DEF Init, TrafficInv, Replacing
<1>3. CopyInv
  BY DEF Init, CopyInv, CopyKept, Deploying, Uploaded, Removed, Replacing
<1>4. QED
  BY <1>1, <1>2, <1>3

LEMMA TypeStep == TypeOK /\ [Next]_vars => TypeOK'
<1> SUFFICES ASSUME TypeOK, [Next]_vars PROVE TypeOK'
  OBVIOUS
<1> USE FilesAssumption DEF TypeOK, files, job
<1>1. CASE UNCHANGED vars
  BY <1>1 DEF vars
<1>2. CASE StopCompletes
  BY <1>2 DEF StopCompletes
<1>3. CASE UseApplication
  BY <1>3 DEF UseApplication
<1>4. ASSUME NEW v \in Versions, NEW d \in DropDbs, Shutdown(v, d) PROVE TypeOK'
  <2>1. jobs < MaxJobs /\ jobs' = jobs + 1
    BY <1>4, Zenon DEF Shutdown
  <2>2. jobs' \in 0..MaxJobs
    BY <2>1, Bounds
  <2>3. tomcat' \in {"down", "stopping"}
    BY <1>4, Zenon DEF Shutdown
  <2>4. trouble' \subseteq Troubles
    BY <1>4, TroubleType, Zenon DEF Shutdown
  <2>5. /\ version' \in Versions /\ dropdb' \in DropDbs /\ left' \subseteq Artifacts
        /\ pc' = "next"
        /\ UNCHANGED <<served, webapps, exploded, backup, latest, db, art, faults>>
    BY <1>4, Zenon DEF Shutdown
  <2>6. QED
    BY <2>2, <2>3, <2>4, <2>5
<1>5. ASSUME NEW a \in Artifacts, FetchArtifact(a) PROVE TypeOK'
  BY <1>5 DEF FetchArtifact
<1>6. CASE PrepareUpload
  BY <1>6 DEF PrepareUpload, Contents
<1>7. CASE Upload
  <2>1. faults' \in 0..MaxFaults
    BY <1>7, Bounds DEF Upload, Fault
  <2>2. trouble' \subseteq Troubles
    BY <1>7, TroubleType, Zenon DEF Upload, Fault
  <2>3. latest' \in [Artifacts -> Contents]
    BY <1>7 DEF Upload, Contents
  <2>4. /\ pc' = "wardeploy"
        /\ UNCHANGED <<tomcat, served, webapps, exploded, backup, db, art, left,
                       version, dropdb, jobs>>
    BY <1>7, Zenon DEF Upload
  <2>5. QED
    BY <2>1, <2>2, <2>3, <2>4
<1>8. CASE Startup
  <2>1. ASSUME NEW a \in Artifacts PROVE Found(a) \in Versions \cup {None}
    BY DEF Found, Contents
  <2>2. QED
    BY <1>8, <2>1 DEF Startup
<1>9. CASE Abort
  <2>1. faults' \in 0..MaxFaults
    BY <1>9, Bounds DEF Abort, Fault
  <2>2. trouble' \subseteq Troubles
    BY <1>9, TroubleType, Zenon DEF Abort, Fault
  <2>3. /\ pc' = "off"
        /\ UNCHANGED <<tomcat, served, webapps, exploded, backup, latest, db, art,
                       left, version, dropdb, jobs>>
    BY <1>9, Zenon DEF Abort
  <2>4. QED
    BY <2>1, <2>2, <2>3
<1>10. CASE BeginWardeploy
  BY <1>10 DEF BeginWardeploy
<1>11. CASE MoveRoot
  BY <1>11 DEF MoveRoot
<1>12. CASE CheckStopped
  BY <1>12 DEF CheckStopped
<1>13. CASE BackUp
  BY <1>13 DEF BackUp, CopyBegins, Contents
<1>14. CASE BackedUp
  BY <1>14 DEF BackedUp, CopyEnds, Contents
<1>15. CASE RemoveWar
  BY <1>15 DEF RemoveWar, Contents
<1>16. CASE RemoveDirectory
  BY <1>16 DEF RemoveDirectory
<1>17. CASE Install
  BY <1>17 DEF Install, CopyBegins, Contents
<1>18. CASE Installed
  BY <1>18 DEF Installed, CopyEnds, Contents
<1>19. QED
  BY <1>1, <1>2, <1>3, <1>4, <1>5, <1>6, <1>7, <1>8, <1>9, <1>10, <1>11, <1>12,
     <1>13, <1>14, <1>15, <1>16, <1>17, <1>18
     DEF Next, Wardeploy

LEMMA TrafficStep == TypeOK /\ TrafficInv /\ [Next]_vars => TrafficInv'
<1> SUFFICES ASSUME TypeOK, TrafficInv, [Next]_vars PROVE TrafficInv'
  OBVIOUS
<1> USE DEF TrafficInv, Answers, Replacing, files, job
<1>1. CASE UNCHANGED vars
  BY <1>1 DEF vars
<1>2. CASE StopCompletes \/ UseApplication
  BY <1>2 DEF StopCompletes, UseApplication
<1>3. CASE Startup \/ Abort
  BY <1>3 DEF Startup, Abort
<1>4. ASSUME NEW v \in Versions, NEW d \in DropDbs, Shutdown(v, d) PROVE TrafficInv'
  BY <1>4 DEF Shutdown
<1>5. ASSUME NEW a \in Artifacts, FetchArtifact(a) PROVE TrafficInv'
  BY <1>5 DEF FetchArtifact
<1>6. CASE PrepareUpload \/ Upload
  BY <1>6 DEF PrepareUpload, Upload
<1>7. CASE BeginWardeploy \/ MoveRoot
  BY <1>7 DEF BeginWardeploy, MoveRoot
<1>11. CASE CheckStopped
  <2>1. Answers' <=> Answers
    BY <1>11 DEF CheckStopped
  <2>2. pc' \in Replacing => ~Answers
    BY <1>11 DEF CheckStopped
  <2>3. QED
    BY <2>1, <2>2
<1>8. CASE BackUp \/ BackedUp \/ RemoveWar
  BY <1>8 DEF BackUp, BackedUp, RemoveWar
<1>9. CASE RemoveDirectory \/ Install \/ Installed
  BY <1>9 DEF RemoveDirectory, Install, Installed
<1>10. QED
  BY <1>1, <1>2, <1>3, <1>4, <1>5, <1>6, <1>7, <1>8, <1>9, <1>11
     DEF Next, Wardeploy

\* Only the two removing and copying steps change webapps, both after the check.
LEMMA NoSwapStep ==
  TypeOK /\ TrafficInv /\ [Next]_vars => (webapps' # webapps => ~Answers)
<1> SUFFICES ASSUME TypeOK, TrafficInv, [Next]_vars, webapps' # webapps
             PROVE  ~Answers
  OBVIOUS
<1>1. pc \in Replacing
  <2> USE DEF Replacing, files, job
  <2>1. CASE UNCHANGED vars
    BY <2>1 DEF vars
  <2>2. CASE StopCompletes \/ UseApplication \/ PrepareUpload \/ Upload
               \/ Startup \/ Abort
    BY <2>2 DEF StopCompletes, UseApplication, PrepareUpload, Upload, Startup, Abort
  <2>3. CASE \E v \in Versions, d \in DropDbs : Shutdown(v, d)
    BY <2>3 DEF Shutdown
  <2>4. CASE \E a \in Artifacts : FetchArtifact(a)
    BY <2>4 DEF FetchArtifact
  <2>5. CASE Wardeploy
    BY <2>5 DEF Wardeploy, BeginWardeploy, MoveRoot, CheckStopped, BackUp,
                BackedUp, RemoveWar, RemoveDirectory, Install, Installed
  <2>6. QED
    BY <2>1, <2>2, <2>3, <2>4, <2>5 DEF Next
<1>2. QED
  BY <1>1 DEF TrafficInv

LEMMA CopyStep == TypeOK /\ CopyInv /\ [Next]_vars => CopyInv'
<1> SUFFICES ASSUME TypeOK, CopyInv, [Next]_vars, faults' < 2, NEW a \in Artifacts
             PROVE  CopyKept(a)'
  BY DEF CopyInv
<1> USE FilesAssumption
<1>f. faults \in Nat /\ faults' \in Nat /\ faults' >= faults
  <2> USE Bounds DEF TypeOK
  <2>1. CASE UNCHANGED faults
    BY <2>1
  <2>2. CASE faults' = faults + 1
    BY <2>2
  <2>3. QED
    BY <2>1, <2>2 DEF Next, vars, StopCompletes, UseApplication, Shutdown,
       FetchArtifact, PrepareUpload, Upload, Startup, Abort, Fault, Wardeploy,
       BeginWardeploy, MoveRoot, CheckStopped, BackUp, BackedUp, RemoveWar,
       RemoveDirectory, Install, Installed
<1>k. CopyKept(a)
  BY <1>f DEF CopyInv
<1>t. /\ webapps[a] \in Versions \cup {None, Partial}
      /\ latest[a] \in Versions \cup {None, Partial}
      /\ backup[a] \in Versions \cup {None, Partial}
      /\ webapps \in [Artifacts -> Contents] /\ latest \in [Artifacts -> Contents]
      /\ backup \in [Artifacts -> Contents]
      /\ art \in Artifacts /\ version \in Versions
  BY DEF TypeOK, Contents
<1> USE <1>k, <1>t DEF CopyKept, Deploying, Uploaded, Removed, Replacing, files, job
<1>1. CASE UNCHANGED vars
  BY <1>1 DEF vars
<1>2. CASE StopCompletes \/ UseApplication
  BY <1>2 DEF StopCompletes, UseApplication
<1>4. ASSUME NEW v \in Versions, NEW d \in DropDbs, Shutdown(v, d) PROVE CopyKept(a)'
  BY <1>4 DEF Shutdown
<1>5. ASSUME NEW b \in Artifacts, FetchArtifact(b) PROVE CopyKept(a)'
  BY <1>5 DEF FetchArtifact
<1>6. CASE PrepareUpload
  BY <1>6 DEF PrepareUpload
\* A failed upload is the one fault: the war in webapps is complete.
<1>7. CASE Upload
  <2>1. CASE faults' = faults
    <3>1. latest' = [latest EXCEPT ![art] = version]
      BY <1>7, <2>1, <1>f DEF Upload, Fault
    <3>2. QED
      BY <1>7, <2>1, <3>1 DEF Upload, Fault
  <2>2. CASE faults' # faults
    <3>1. faults = 0
      BY <2>2, <1>f, <1>7 DEF Upload, Fault
    <3>2. faults' # 0
      BY <3>1, <2>2
    <3>3. QED
      BY <1>7, <2>2, <3>1, <3>2 DEF Upload, Fault
  <2>3. QED
    BY <2>1, <2>2
<1>8. CASE Startup
  BY <1>8 DEF Startup
\* So is an abort: before the removal the war is complete, after it the backup.
<1>9. CASE Abort
  <2>1. faults = 0 /\ faults' # 0
    BY <1>9, <1>f DEF Abort, Fault
  <2>2. QED
    BY <1>9, <2>1 DEF Abort, Fault
<1>10. CASE BeginWardeploy
  BY <1>10 DEF BeginWardeploy
<1>11. CASE MoveRoot \/ CheckStopped
  BY <1>11 DEF MoveRoot, CheckStopped
<1>13. CASE BackUp
  BY <1>13 DEF BackUp, CopyBegins
<1>14. CASE BackedUp
  BY <1>14 DEF BackedUp, CopyEnds
<1>15. CASE RemoveWar
  BY <1>15 DEF RemoveWar
<1>16. CASE RemoveDirectory
  BY <1>16 DEF RemoveDirectory
<1>17. CASE Install
  BY <1>17 DEF Install, CopyBegins
<1>18. CASE Installed
  BY <1>18 DEF Installed, CopyEnds
<1>19. QED
  BY <1>1, <1>2, <1>4, <1>5, <1>6, <1>7, <1>8, <1>9, <1>10, <1>11,
     <1>13, <1>14, <1>15, <1>16, <1>17, <1>18
     DEF Next, Wardeploy

\* However many jobs run and wherever the one fault strikes (an abort, an upload
\* that fails), the server keeps a complete copy of every application.
THEOREM OneFaultSafety == Spec => [](TypeOK /\ SurvivesOneFault)
<1>1. Init => TypeOK /\ CopyInv
  BY InitOK
<1>2. (TypeOK /\ CopyInv) /\ [Next]_vars => (TypeOK /\ CopyInv)'
  BY TypeStep, CopyStep
<1>3. TypeOK /\ CopyInv => SurvivesOneFault
  BY DEF CopyInv, CopyKept, SurvivesOneFault, CompleteCopyLeft
<1>4. QED
  BY <1>1, <1>2, <1>3, PTL DEF Spec

\* wardeploy.sh replaces a war only while Tomcat does not answer, though it
\* checks once, long before it copies, and shutdown.sh returns early.
THEOREM TrafficSafety == Spec => NoSwapUnderTraffic
<1>1. Init => TypeOK /\ TrafficInv
  BY InitOK
<1>2. (TypeOK /\ TrafficInv) /\ [Next]_vars => (TypeOK /\ TrafficInv)'
  BY TypeStep, TrafficStep
<1>3. (TypeOK /\ TrafficInv) /\ [Next]_vars => [webapps' # webapps => ~Answers]_vars
  BY NoSwapStep
<1>4. QED
  BY <1>1, <1>2, <1>3, PTL DEF Spec, NoSwapUnderTraffic

-----------------------------------------------------------------------------
(* Jobs for which Tomcat stops in time.                                    *)

LEMMA IdleStep == TypeOK /\ IdleInv /\ [Next]_vars => IdleInv'
<1> SUFFICES ASSUME TypeOK, IdleInv, [Next]_vars PROVE IdleInv'
  OBVIOUS
<1> USE DEF IdleInv, files, job
<1>1. CASE UNCHANGED vars
  BY <1>1 DEF vars
<1>2. CASE StopCompletes \/ UseApplication
  BY <1>2 DEF StopCompletes, UseApplication
<1>3. CASE Startup \/ Abort
  BY <1>3 DEF Startup, Abort
<1>4. ASSUME NEW v \in Versions, NEW d \in DropDbs, Shutdown(v, d) PROVE IdleInv'
  BY <1>4 DEF Shutdown
<1>5. ASSUME NEW a \in Artifacts, FetchArtifact(a) PROVE IdleInv'
  BY <1>5 DEF FetchArtifact
<1>6. CASE PrepareUpload
  BY <1>6 DEF PrepareUpload
<1>7. CASE Upload
  <2>1. /\ pc # "off" /\ UNCHANGED tomcat
        /\ trouble' = trouble \/ trouble' = trouble \cup {"fault"}
    BY <1>7, Zenon DEF Upload, Fault
  <2>2. QED
    BY <2>1
<1>8. CASE Wardeploy
  <2>1. pc # "off" /\ UNCHANGED <<tomcat, trouble>>
    BY <1>8 DEF Wardeploy, BeginWardeploy, MoveRoot, CheckStopped, BackUp, BackedUp,
                RemoveWar, RemoveDirectory, Install, Installed
  <2>2. QED
    BY <2>1
<1>9. QED
  BY <1>1, <1>2, <1>3, <1>4, <1>5, <1>6, <1>7, <1>8 DEF Next

\* The database is dropped in one step of a job only.
LEMMA DropStep ==
  IdleInv /\ [Next]_vars
    => (db' = "empty" /\ db = "data" /\ "slow stop" \notin trouble => tomcat = "down")
<1> SUFFICES ASSUME IdleInv, [Next]_vars, db' = "empty", db = "data",
                    "slow stop" \notin trouble
             PROVE  tomcat = "down"
  OBVIOUS
<1> USE DEF files, job
<1>1. BeginWardeploy
  <2>1. ~ UNCHANGED vars
    BY DEF vars
  <2>2. ~ (StopCompletes \/ UseApplication \/ PrepareUpload \/ Upload \/ Startup \/ Abort)
    BY DEF StopCompletes, UseApplication, PrepareUpload, Upload, Startup, Abort
  <2>3. ~ \E v \in Versions, d \in DropDbs : Shutdown(v, d)
    BY DEF Shutdown
  <2>4. ~ \E a \in Artifacts : FetchArtifact(a)
    BY DEF FetchArtifact
  <2>5. ~ (MoveRoot \/ CheckStopped \/ BackUp \/ BackedUp)
    BY DEF MoveRoot, CheckStopped, BackUp, BackedUp
  <2>6. ~ (RemoveWar \/ RemoveDirectory \/ Install \/ Installed)
    BY DEF RemoveWar, RemoveDirectory, Install, Installed
  <2>7. QED
    BY <2>1, <2>2, <2>3, <2>4, <2>5, <2>6 DEF Next, Wardeploy
<1>2. QED
  BY <1>1 DEF BeginWardeploy, IdleInv

\* A job for which Tomcat stops in time drops the database only while Tomcat is
\* down, whatever else goes wrong.
THEOREM DropSafety == Spec => DropsIdleDatabase
<1>1. Init => TypeOK /\ IdleInv
  BY InitOK DEF Init, IdleInv
<1>2. (TypeOK /\ IdleInv) /\ [Next]_vars => (TypeOK /\ IdleInv)'
  BY TypeStep, IdleStep
<1>3. (TypeOK /\ IdleInv) /\ [Next]_vars
        => [db' = "empty" /\ db = "data" /\ "slow stop" \notin trouble
              => tomcat = "down"]_vars
  BY DropStep
<1>4. QED
  BY <1>1, <1>2, <1>3, PTL DEF Spec, DropsIdleDatabase

\* Every step of an undisturbed job keeps the files of its version where
\* ProgressInv says.
LEMMA ProgressStep == TypeOK /\ IdleInv /\ ProgressInv /\ [Next]_vars => ProgressInv'
<1> SUFFICES ASSUME TypeOK, IdleInv, ProgressInv, [Next]_vars, Undisturbed'
             PROVE  ProgressInv'
  BY DEF ProgressInv
<1> USE FilesAssumption
<1>t. /\ webapps \in [Artifacts -> Contents] /\ latest \in [Artifacts -> Contents]
      /\ exploded \in [Artifacts -> Versions \cup {None}]
      /\ art \in Artifacts /\ version \in Versions /\ left \subseteq Artifacts
  BY DEF TypeOK
<1>u. \/ Undisturbed
      \/ \E v \in Versions, d \in DropDbs : Shutdown(v, d)
  <2>1. CASE Upload \/ Abort
    BY <2>1 DEF Upload, Abort, Fault, Undisturbed
  <2>2. CASE UNCHANGED <<jobs, trouble, dropdb>>
    BY <2>2 DEF Undisturbed
  <2>3. QED
    BY <2>1, <2>2, Zenon DEF Next, vars, job, StopCompletes, UseApplication,
       FetchArtifact, PrepareUpload, Startup, Wardeploy, BeginWardeploy, MoveRoot,
       CheckStopped, BackUp, BackedUp, RemoveWar, RemoveDirectory, Install, Installed
<1>d. pc # "off" /\ Undisturbed => tomcat = "down" /\ ~Answers
  BY DEF IdleInv, Undisturbed, Answers
<1>s. ASSUME NEW v \in Versions, NEW d \in DropDbs, Shutdown(v, d) PROVE ProgressInv'
  BY <1>s DEF Shutdown, ProgressInv, Deployed, Uploaded, Replacing
<1>1. CASE Undisturbed
  <2> USE <1>1, <1>t DEF ProgressInv, Deployed, Uploaded, Replacing, files, job
  <2>1. CASE UNCHANGED vars
    BY <2>1 DEF vars
  <2>2. CASE StopCompletes \/ UseApplication
    BY <2>2, <1>d DEF StopCompletes, UseApplication
  <2>3. ASSUME NEW a \in Artifacts, FetchArtifact(a) PROVE ProgressInv'
    BY <2>3 DEF FetchArtifact
  <2>4. CASE PrepareUpload
    BY <2>4 DEF PrepareUpload
  <2>5. CASE Upload
    <3>1. latest' = [latest EXCEPT ![art] = version]
      BY <2>5, Zenon DEF Upload, Fault, Undisturbed
    <3>2. /\ pc = "upload" /\ pc' = "wardeploy"
          /\ UNCHANGED <<tomcat, served, webapps, exploded, art, left, version>>
      BY <2>5, Zenon DEF Upload
    <3>3. QED
      BY <3>1, <3>2
  \* Nothing is left to deploy: the new Tomcat finds the version in every war.
  <2>6. CASE Startup
    <3>1. \A a \in Artifacts : Found(a) = version
      BY <2>6 DEF Startup, Found
    <3>2. pc' = "off" /\ version' = version
      BY <2>6 DEF Startup
    <3>3. tomcat' = "up" /\ served' = [a \in Artifacts |-> Found(a)]
      BY <2>6, <1>d DEF Startup
    <3>4. QED
      BY <3>1, <3>2, <3>3
  <2>7. ~Abort
    BY DEF Abort, Fault, Undisturbed
  <2>8. CASE BeginWardeploy
    BY <2>8 DEF BeginWardeploy, Undisturbed
  <2>9. CASE MoveRoot
    BY <2>9 DEF MoveRoot
  <2>10. CASE CheckStopped
    BY <2>10, <1>d DEF CheckStopped
  <2>11. CASE BackUp \/ BackedUp
    BY <2>11 DEF BackUp, BackedUp
  <2>12. CASE RemoveWar
    BY <2>12 DEF RemoveWar
  <2>13. CASE RemoveDirectory
    BY <2>13 DEF RemoveDirectory
  <2>14. CASE Install
    BY <2>14 DEF Install
  <2>15. CASE Installed
    BY <2>15 DEF Installed, CopyEnds
  <2>16. QED
    BY <1>s, <2>1, <2>2, <2>3, <2>4, <2>5, <2>6, <2>7, <2>8, <2>9, <2>10, <2>11,
       <2>12, <2>13, <2>14, <2>15 DEF Next, Wardeploy
<1>2. QED
  BY <1>u, <1>s, <1>1

\* Whatever earlier jobs have left on the server, a job that Tomcat stops for in
\* time and that meets no fault ends with its version served.
THEOREM JobSafety == Spec => []DeploysUndisturbed
<1>1. Init => TypeOK /\ IdleInv /\ ProgressInv
  BY InitOK DEF Init, IdleInv, ProgressInv, Undisturbed
<1>2. (TypeOK /\ IdleInv /\ ProgressInv) /\ [Next]_vars
        => (TypeOK /\ IdleInv /\ ProgressInv)'
  BY TypeStep, IdleStep, ProgressStep
<1>3. ProgressInv => DeploysUndisturbed
  BY DEF ProgressInv, Undisturbed, DeploysUndisturbed
<1>4. QED
  BY <1>1, <1>2, <1>3, PTL DEF Spec

-----------------------------------------------------------------------------
(* update-haproxy.py.                                                      *)

LEMMA RenderType ==
  ASSUME NEW s \in SUBSET Instances
  PROVE  /\ GenerateHaproxyConfig(s) \in Seq(Blocks)
         /\ GenerateHaproxyConfig(s) # Down
<1>1. Length[s] \in Nat \ {0}
  BY LengthAssumption
<1>2. GenerateHaproxyConfig(s) \in [1..Length[s] -> Blocks]
  BY DEF GenerateHaproxyConfig, Blocks
<1>3. DOMAIN GenerateHaproxyConfig(s) # {}
  BY <1>1, <1>2
<1>4. DOMAIN Down = {}
  BY DEF Down
<1>5. QED
  BY <1>1, <1>2, <1>3, <1>4, SeqDef

\* What a writer leaves is a file again.
LEMMA WrittenType ==
  ASSUME NEW text \in Seq(Blocks), NEW k \in Nat, NEW block \in Blocks
  PROVE  Written(text, k, block) \in Seq(Blocks)
<1> DEFINE n == IF k > Len(text) THEN k ELSE Len(text)
<1>1. n \in Nat
  BY LenProperties
<1>2. Written(text, k, block) \in [1..n -> Blocks]
  <2>1. ASSUME NEW j \in 1..n, j <= Len(text) PROVE text[j] \in Blocks
    BY <2>1, ElementOfSeq, LenProperties
  <2>2. Hole \in Blocks
    BY DEF Blocks
  <2>3. QED
    BY <2>1, <2>2 DEF Written
<1>3. QED
  BY <1>1, <1>2, SeqDef

\* Each field of a run keeps its type when it is replaced.
LEMMA Retyped ==
  ASSUME NEW r \in Runs, NEW s \in Stages
  PROVE  /\ [r EXCEPT !.stage = s] \in Runs
         /\ \A q \in SUBSET Queries : [r EXCEPT !.stage = s, !.asked = q] \in Runs
         /\ \A h \in SUBSET Pids : [r EXCEPT !.stage = s, !.old = h] \in Runs
         /\ \A a \in BOOLEAN : [r EXCEPT !.stage = s, !.alone = a] \in Runs
         /\ \A c \in Seq(Blocks) : [r EXCEPT !.stage = s, !.conf = c] \in Runs
         /\ \A c \in Seq(Blocks), h \in Pids :
              [r EXCEPT !.stage = s, !.conf = c, !.child = h] \in Runs
         /\ \A k \in Nat, n \in SUBSET Instances :
              [r EXCEPT !.stage = s, !.pos = k, !.new = n] \in Runs
         /\ \A q \in SUBSET Queries, n \in SUBSET Instances :
              [r EXCEPT !.asked = q, !.new = n] \in Runs
         /\ \A k \in Nat : [r EXCEPT !.pos = k] \in Runs
         /\ [r EXCEPT !.alone = FALSE] \in Runs
  BY DEF Runs

LEMMA Labels ==
  {"off", "fetch", "write", "flush", "restart", "stop", "remove", "start",
   "daemon", "launch", "bind", "pid", "tell", "fork"} = Stages
  BY DEF Stages

LEMMA RunType ==
  ASSUME UpdateTypeOK, NEW p \in Processes, NEW r \in Runs, run' = [run EXCEPT ![p] = r]
  PROVE  run' \in [Processes -> Runs]
  BY DEF UpdateTypeOK

LEMMA NoRunType == NoRun \in Runs
  BY EmptySeq DEF NoRun, Runs, Stages

LEMMA UpdateInitType == UpdateInit => UpdateTypeOK
<1> SUFFICES ASSUME UpdateInit PROVE UpdateTypeOK
  OBVIOUS
<1>1. file \in Seq(Blocks)
  BY RenderType DEF UpdateInit
<1>2. Down \in Seq(Blocks)
  BY EmptySeq DEF Down
<1>3. up \in [Pids -> Seq(Blocks)]
  BY <1>1, <1>2 DEF UpdateInit
<1>4. QED
  <2>1. pidfile = [by |-> FirstPid, written |-> TRUE]
    BY DEF UpdateInit
  <2>2. pidfile \in [by : Pids \cup {NoPid}, written : BOOLEAN] 
    BY <2>1, ValuesAssumption
  <2>3. run \in [Processes -> Runs]
    BY NoRunType DEF UpdateInit
  <2>4. events \in 0..MaxEvents
    BY BoundsAssumption DEF UpdateInit
  <2>5. QED
    BY <1>1, <1>3, <2>2, <2>3, <2>4 DEF UpdateInit, UpdateTypeOK

LEMMA FinishType ==
  ASSUME UpdateTypeOK, NEW p \in Processes, Finish(p)
  PROVE  run' \in [Processes -> Runs]
  BY NoRunType DEF UpdateTypeOK, Finish

LEMMA UpdateTypeStep == UpdateTypeOK /\ [UpdateNext]_updateVars => UpdateTypeOK'
<1> SUFFICES ASSUME UpdateTypeOK, [UpdateNext]_updateVars PROVE UpdateTypeOK'
  OBVIOUS
<1>0. graceful' = graceful /\ sharing' = sharing
  BY DEF UpdateNext, updateVars, modes
<1> USE BoundsAssumption, <1>0
<1>a. Down \in Seq(Blocks)
  BY EmptySeq DEF Down
<1>b. ASSUME NEW p \in Processes PROVE run[p] \in Runs
  BY DEF UpdateTypeOK
<1>1. CASE UNCHANGED updateVars
  BY <1>1 DEF updateVars, modes, UpdateTypeOK
<1>2. ASSUME NEW i \in Instances, Change(i) PROVE UpdateTypeOK'
  BY <1>2 DEF Change, UpdateTypeOK
<1>3. ASSUME NEW p \in Processes, Begin(p) PROVE UpdateTypeOK'
  <2>1. run' = [run EXCEPT ![p] = [run[p] EXCEPT !.stage = "fetch", !.asked = Queries]]
    BY <1>3 DEF Begin
  <2>2. run' \in [Processes -> Runs]
    BY <1>b, <2>1, Retyped, Labels, RunType
  <2>3. QED
    BY <1>3, <2>2 DEF Begin, UpdateTypeOK
<1>4. ASSUME NEW p \in Processes, NEW q \in Queries, GetRunningInstances(p, q)
      PROVE UpdateTypeOK'
  <2> DEFINE found == run[p].new \cup {i \in running : QueryOf[i] = q}
             r == [run[p] EXCEPT !.asked = @ \ {q}, !.new = found]
  <2>1. run' = [run EXCEPT ![p] = r]
    BY <1>4 DEF GetRunningInstances
  <2>2. run[p].asked \ {q} \in SUBSET Queries /\ found \in SUBSET Instances
    BY <1>b DEF UpdateTypeOK, Runs
  <2>3. r \in Runs
    BY <1>b, <2>2, Retyped, Labels
  <2>4. run' \in [Processes -> Runs]
    BY <2>1, <2>3, RunType
  <2>5. QED
    BY <1>4, <2>4 DEF GetRunningInstances, UpdateTypeOK
<1>5. ASSUME NEW p \in Processes, Compare(p) PROVE UpdateTypeOK'
  <2> DEFINE company == \E r \in Processes : Updating(r)
             w == [run[p] EXCEPT !.stage = "write", !.alone = ~company]
             c == [r \in Processes |->
                     IF r = p THEN w ELSE [run[r] EXCEPT !.alone = FALSE]]
  <2>1. Finish(p) \/ run' = c
    BY <1>5 DEF Compare
  <2>2. w \in Runs
    BY <1>b, Retyped, Labels
  <2>3. c \in [Processes -> Runs]
    BY <1>b, <2>2, Retyped, Labels
  <2>4. run' \in [Processes -> Runs]
    BY <2>1, <2>3, FinishType
  <2>5. broken' \in BOOLEAN
    BY <1>5 DEF Compare, UpdateTypeOK
  <2>6. QED
    BY <1>5, <2>4, <2>5 DEF Compare, UpdateTypeOK
<1>6. ASSUME NEW p \in Processes, OpenFile(p) PROVE UpdateTypeOK'
  <2>1. run' \in [Processes -> Runs]
    BY <1>6, <1>b, Retyped, Labels, RunType DEF OpenFile
  <2>2. QED
    BY <1>6, <2>1, EmptySeq DEF OpenFile, UpdateTypeOK
<1>7. ASSUME NEW p \in Processes, WriteFile(p) PROVE UpdateTypeOK'
  <2>1. run[p].pos + 1 \in Nat /\ run[p].new \in SUBSET Instances
    BY <1>b DEF Runs
  <2>2. run[p].new \in Blocks /\ file \in Seq(Blocks)
    BY <2>1 DEF Blocks, UpdateTypeOK
  <2>3. file' = Written(file, run[p].pos + 1, run[p].new)
    BY <1>7 DEF WriteFile
  <2>4. file' \in Seq(Blocks)
    BY <2>1, <2>2, <2>3, WrittenType
  <2> DEFINE next == [run[p] EXCEPT !.pos = run[p].pos + 1]
             last == [run[p] EXCEPT !.stage = "restart", !.pos = 0, !.new = {}]
  <2>5. run' = [run EXCEPT ![p] = next] \/ run' = [run EXCEPT ![p] = last]
    BY <1>7 DEF WriteFile
  <2>6. next \in Runs
    BY <1>b, <2>1, Retyped, Labels
  <2>7. last \in Runs
    BY <1>b, Retyped, Labels
  <2> HIDE DEF next, last
  <2>8. run' \in [Processes -> Runs]
    BY <2>5, <2>6, <2>7, RunType
  <2>9. QED
    BY <1>7, <2>4, <2>8 DEF WriteFile, UpdateTypeOK
<1>8. ASSUME NEW p \in Processes, RestartHaproxy(p) PROVE UpdateTypeOK'
  <2>1. Named \in SUBSET Pids
    BY DEF Named, UpdateTypeOK
  <2> DEFINE r == [run[p] EXCEPT !.stage = "launch", !.old = Named]
  <2>2. run' = [run EXCEPT ![p] = r]
    BY <1>8 DEF RestartHaproxy
  <2>3. r \in Runs
    BY <1>b, <2>1, Retyped, Labels
  <2>4. run' \in [Processes -> Runs]
    BY <2>2, <2>3, RunType
  <2>5. QED
    BY <1>8, <2>4 DEF RestartHaproxy, UpdateTypeOK
<1>9. ASSUME NEW p \in Processes, ServiceRestart(p) \/ ServiceStart(p) \/ Daemon(p)
      PROVE UpdateTypeOK'
  <2>1. Finish(p) \/ \E s \in Stages : run' = [run EXCEPT ![p] = [run[p] EXCEPT !.stage = s]]
    BY <1>9, Labels DEF ServiceRestart, ServiceStart, Daemon, Fail
  <2>2. run' \in [Processes -> Runs]
    BY <1>b, <2>1, FinishType, Retyped, RunType
  <2>3. broken' \in BOOLEAN
    BY <1>9 DEF ServiceRestart, ServiceStart, Daemon, Fail, UpdateTypeOK
  <2>4. QED
    BY <1>9, <2>2, <2>3 DEF ServiceRestart, ServiceStart, Daemon, UpdateTypeOK
<1>10. ASSUME NEW p \in Processes, ServiceStop(p) PROVE UpdateTypeOK'
  <2>1. up' \in [Pids -> Seq(Blocks)]
    BY <1>10, <1>a DEF ServiceStop, UpdateTypeOK
  <2>2. \E s \in Stages : run' = [run EXCEPT ![p] = [run[p] EXCEPT !.stage = s]]
    BY <1>10, Labels DEF ServiceStop
  <2>3. run' \in [Processes -> Runs]
    BY <1>b, <2>2, Retyped, RunType
  <2>4. QED
    BY <1>10, <2>1, <2>3 DEF ServiceStop, UpdateTypeOK
<1>11. ASSUME NEW p \in Processes, RemovePidfile(p) PROVE UpdateTypeOK'
  <2>1. run' \in [Processes -> Runs]
    BY <1>11, <1>b, Retyped, Labels, RunType DEF RemovePidfile
  <2>2. pidfile' = NoPidfile
    BY <1>11 DEF RemovePidfile
  <2>3. /\ pidfile' \in [by : Pids \cup {NoPid}, written : BOOLEAN]
        /\ ~pidfile'.written
    BY <2>2 DEF NoPidfile
  <2>4. QED
    BY <1>11, <2>1, <2>3 DEF RemovePidfile, UpdateTypeOK
<1>12. ASSUME NEW p \in Processes, Launch(p) PROVE UpdateTypeOK'
  <2> DEFINE n == CHOOSE n \in FreePids : TRUE
             r == [run[p] EXCEPT !.stage = "bind", !.conf = file, !.child = n]
  <2>1. Finish(p) \/ (FreePids # {} /\ run' = [run EXCEPT ![p] = r])
    BY <1>12 DEF Launch, Fail
  <2>2. FreePids # {} => n \in Pids
    BY DEF FreePids
  <2>3. ASSUME FreePids # {} PROVE r \in Runs
    <3>1. file \in Seq(Blocks)
      BY DEF UpdateTypeOK
    <3>2. n \in Pids
      BY <2>2, <2>3
    <3> HIDE DEF n
    <3>3. QED
      BY <1>b, <3>1, <3>2, Retyped, Labels
  <2> HIDE DEF r
  <2>4. run' \in [Processes -> Runs]
    BY <2>1, <2>3, FinishType, RunType
  <2>5. broken' \in BOOLEAN
    BY <1>12 DEF Launch, Fail, UpdateTypeOK
  <2>6. QED
    BY <1>12, <2>4, <2>5 DEF Launch, UpdateTypeOK
<1>13. ASSUME NEW p \in Processes, Bind(p) PROVE UpdateTypeOK'
  <2> DEFINE r == [run[p] EXCEPT !.stage = "pid", !.conf = <<>>]
  <2>1. Finish(p) \/ run' = [run EXCEPT ![p] = r]
    BY <1>13 DEF Bind, Fail
  <2>2. r \in Runs
    BY <1>b, EmptySeq, Retyped, Labels
  <2> HIDE DEF r
  <2>3. run' \in [Processes -> Runs]
    BY <2>1, <2>2, FinishType, RunType
  <2>4. run[p].conf \in Seq(Blocks)
    BY <1>b DEF Runs
  <2>5. up' \in [Pids -> Seq(Blocks)]
    BY <1>13, <1>a, <2>4 DEF Bind, UpdateTypeOK
  <2>6. broken' \in BOOLEAN
    BY <1>13 DEF Bind, Fail, UpdateTypeOK
  <2>7. QED
    BY <1>13, <2>3, <2>5, <2>6 DEF Bind, UpdateTypeOK
<1>14. ASSUME NEW p \in Processes, OpenPidfile(p) PROVE UpdateTypeOK'
  <2>1. run' \in [Processes -> Runs]
    BY <1>14, <1>b, Retyped, Labels, RunType DEF OpenPidfile
  <2>2. pidfile' = [by |-> run[p].child, written |-> FALSE]
    BY <1>14 DEF OpenPidfile
  <2>3. run[p].child \in Pids \cup {NoPid}
    BY <1>b DEF Runs
  <2>4. /\ pidfile' \in [by : Pids \cup {NoPid}, written : BOOLEAN]
        /\ ~pidfile'.written
    BY <2>2, <2>3
  <2>5. QED
    BY <1>14, <2>1, <2>4 DEF OpenPidfile, UpdateTypeOK
<1>15. ASSUME NEW p \in Processes, TellOldPids(p) PROVE UpdateTypeOK'
  <2>1. up' \in [Pids -> Seq(Blocks)]
    BY <1>15, <1>a DEF TellOldPids, UpdateTypeOK
  <2> DEFINE r == [run[p] EXCEPT !.stage = "fork", !.old = {}]
  <2>2. run' = [run EXCEPT ![p] = r]
    BY <1>15 DEF TellOldPids
  <2>3. r \in Runs
    BY <1>b, Retyped, Labels
  <2>4. run' \in [Processes -> Runs]
    BY <2>2, <2>3, RunType
  <2>5. QED
    BY <1>15, <2>1, <2>4 DEF TellOldPids, UpdateTypeOK
<1>16. ASSUME NEW p \in Processes, Fork(p) PROVE UpdateTypeOK'
  <2>1. run' \in [Processes -> Runs]
    BY <1>16, FinishType DEF Fork
  <2>2. pidfile' \in [by : Pids \cup {NoPid}, written : BOOLEAN]
    BY <1>16 DEF Fork, UpdateTypeOK
  <2>3. broken' \in BOOLEAN
    BY <1>16 DEF Fork, UpdateTypeOK
  <2>4. QED
    BY <1>16, <2>1, <2>2, <2>3 DEF Fork, UpdateTypeOK
<1>17. ASSUME NEW p \in Processes, Crash(p) PROVE UpdateTypeOK'
  <2>1. run' \in [Processes -> Runs]
    BY <1>17, FinishType DEF Crash
  <2>2. broken' \in BOOLEAN
    BY <1>17 DEF Crash, UpdateTypeOK
  <2>3. events' \in 0..MaxEvents
    BY <1>17 DEF Crash, UpdateTypeOK
  <2>4. QED
    BY <1>17, <2>1, <2>2, <2>3 DEF Crash, UpdateTypeOK
<1>18. QED
  BY <1>1, <1>2, <1>3, <1>4, <1>5, <1>6, <1>7, <1>8, <1>9, <1>10, <1>11, <1>12, <1>13,
     <1>14, <1>15, <1>16, <1>17
     DEF UpdateNext, Step, Service, Start

-----------------------------------------------------------------------------

LEMMA LoadInit == UpdateInit => LoadInv
<1> SUFFICES ASSUME UpdateInit PROVE LoadInv
  OBVIOUS
<1>1. \A p \in Processes : run[p] = NoRun
  BY DEF UpdateInit
<1>2. \A p \in Processes : ~Updating(p) /\ ~run[p].alone
  BY <1>1 DEF NoRun, Updating
<1>3. file # Down
  BY RenderType DEF UpdateInit
<1>4. Named = {FirstPid} /\ up[FirstPid] = file
  BY ValuesAssumption DEF UpdateInit, Named
<1>5. Listening = {FirstPid}
  BY <1>3, <1>4, ValuesAssumption DEF UpdateInit, Listening
<1>6. Loaded
  BY <1>4, <1>5 DEF Loaded, Serves
<1>7. QED
  BY <1>2, <1>6 DEF LoadInv

\* A run that ends without a new HAProxy: from a stage at which the file and
\* HAProxy still are what the last one left, or with a note that something broke.
LEMMA Leave ==
  ASSUME UpdateTypeOK, LoadInv, NEW p \in Processes, Finish(p),
         UNCHANGED <<file, up, pidfile, sharing>>,
         ~broken' => ~broken /\ run[p].stage \in {"fetch", "write"}
  PROVE  LoadInv'
<1>1. \A q \in Processes : run'[q] = IF q = p THEN NoRun ELSE run[q]
  BY DEF Finish, UpdateTypeOK
<1>2. ~Updating(p)' /\ ~run'[p].alone
  BY <1>1 DEF Updating, NoRun
<1>3. \A q \in Processes \ {p} : Updating(q)' = Updating(q)
  BY <1>1 DEF Updating
<1>4. ASSUME NEW q \in Processes, run'[q].alone
      PROVE  /\ Updating(q)' /\ \A r \in Processes \ {q} : ~Updating(r)'
             /\ Progress(q)'
  <2>1. q # p /\ run'[q] = run[q]
    BY <1>1, <1>2, <1>4
  <2>2. Updating(q) /\ (\A r \in Processes \ {q} : ~Updating(r)) /\ Progress(q)
    BY <1>4, <2>1 DEF LoadInv
  <2>3. Progress(q)'
    BY <2>1, <2>2 DEF Progress, Own, Listening
  <2>4. QED
    BY <1>2, <1>3, <2>1, <2>2, <2>3
<1>5. ~broken' => \A q \in Processes : Updating(q)' => run'[q].alone
  BY <1>1, <1>2, <1>3 DEF LoadInv
<1>6. ASSUME ~broken', \A q \in Processes : Updating(q)' => run'[q].stage = "write"
      PROVE  Loaded'
  <2>1. \A q \in Processes : Updating(q) => run[q].stage = "write"
    BY <1>1, <1>3, <1>6 DEF Updating
  <2>2. Loaded
    BY <1>6, <2>1 DEF LoadInv
  <2>3. QED
    BY <2>2 DEF Loaded, Serves, Named, Listening
<1>7. QED
  BY <1>4, <1>5, <1>6 DEF LoadInv

\* A step of an update that leads further into it: the others are as they were.
LEMMA Advance ==
  ASSUME UpdateTypeOK, LoadInv, NEW p \in Processes, Updating(p),
         NEW r, run' = [run EXCEPT ![p] = r], r.alone = run[p].alone,
         r.stage \notin {"off", "fetch", "write"}, broken' = broken,
         run[p].alone => Progress(p)'
  PROVE  LoadInv'
<1>1. \A q \in Processes : run'[q] = IF q = p THEN r ELSE run[q]
  BY DEF UpdateTypeOK
<1>2. \A q \in Processes : Updating(q)' = Updating(q) /\ run'[q].alone = run[q].alone
  BY <1>1 DEF Updating
<1>3. ASSUME NEW q \in Processes, run'[q].alone
      PROVE  /\ Updating(q)' /\ \A s \in Processes \ {q} : ~Updating(s)'
             /\ Progress(q)'
  <2>1. Updating(q) /\ \A s \in Processes \ {q} : ~Updating(s)
    BY <1>2, <1>3 DEF LoadInv
  <2>2. q = p
    BY <2>1
  <2>3. QED
    BY <1>2, <1>3, <2>1, <2>2
<1>4. ~broken' => \A q \in Processes : Updating(q)' => run'[q].alone
  BY <1>2 DEF LoadInv
<1>5. Updating(p)' /\ run'[p].stage # "write"
  BY <1>1, <1>2
<1>6. QED
  BY <1>3, <1>4, <1>5 DEF LoadInv

LEMMA LoadStep == UpdateTypeOK /\ LoadInv /\ [UpdateNext]_updateVars => LoadInv'
<1> SUFFICES ASSUME UpdateTypeOK, LoadInv, [UpdateNext]_updateVars PROVE LoadInv'
  OBVIOUS
<1>0. graceful' = graceful /\ sharing' = sharing
  BY DEF UpdateNext, updateVars, modes
<1>00. ASSUME UNCHANGED <<file, up, pidfile, run, broken>> PROVE LoadInv'
  BY <1>0, <1>00
     DEF LoadInv, Loaded, Serves, Named, Listening, Updating, Progress, Own
<1>1. CASE UNCHANGED updateVars
  BY <1>1, <1>00 DEF updateVars
<1>2. ASSUME NEW i \in Instances, Change(i) PROVE LoadInv'
  BY <1>2, <1>00 DEF Change
\* A run that fetches is nothing to the others.
<1>3. ASSUME NEW p \in Processes, NEW r, run' = [run EXCEPT ![p] = r],
             ~Updating(p), r.stage \in {"off", "fetch"}, r.alone = run[p].alone,
             UNCHANGED <<file, up, pidfile, broken>>
      PROVE  LoadInv'
  <2>1. \A q \in Processes : run'[q] = IF q = p THEN r ELSE run[q]
    BY <1>3 DEF UpdateTypeOK
  <2>2. \A q \in Processes : Updating(q)' = Updating(q) /\ run'[q].alone = run[q].alone
    BY <1>3, <2>1 DEF Updating
  <2>3. ~run[p].alone
    BY <1>3 DEF LoadInv
  <2>4. ASSUME NEW q \in Processes, run'[q].alone
        PROVE  /\ Updating(q)' /\ \A s \in Processes \ {q} : ~Updating(s)'
               /\ Progress(q)'
    <3>1. run'[q] = run[q] /\ run[q].alone
      BY <2>1, <2>2, <2>3, <2>4
    <3>2. Updating(q) /\ (\A s \in Processes \ {q} : ~Updating(s)) /\ Progress(q)
      BY <3>1 DEF LoadInv
    <3>3. Progress(q)'
      BY <1>0, <1>3, <3>1, <3>2 DEF Progress, Own, Listening
    <3>4. QED
      BY <2>2, <3>2, <3>3
  <2>5. ~broken' => \A q \in Processes : Updating(q)' => run'[q].alone
    BY <1>3, <2>2 DEF LoadInv
  <2>6. ASSUME ~broken', \A q \in Processes : Updating(q)' => run'[q].stage = "write"
        PROVE  Loaded'
    <3>1. Loaded
      BY <1>3, <2>1, <2>2, <2>6 DEF LoadInv
    <3>2. QED
      BY <1>0, <1>3, <3>1 DEF Loaded, Serves, Named, Listening
  <2>7. QED
    BY <2>4, <2>5, <2>6 DEF LoadInv
<1>4. ASSUME NEW p \in Processes, Begin(p) PROVE LoadInv'
  <2> DEFINE r == [run[p] EXCEPT !.stage = "fetch", !.asked = Queries]
  <2>1. run[p] \in Runs
    BY DEF UpdateTypeOK
  <2>2. r.stage = "fetch" /\ r.alone = run[p].alone
    BY <2>1 DEF Runs
  <2>3. run' = [run EXCEPT ![p] = r]
    BY <1>4 DEF Begin
  <2>4. ~Updating(p)
    BY <1>4 DEF Begin, Updating
  <2> HIDE DEF r
  <2>5. QED
    BY <1>3, <1>4, <2>2, <2>3, <2>4 DEF Begin
<1>5. ASSUME NEW p \in Processes, NEW q \in Queries, GetRunningInstances(p, q)
      PROVE LoadInv'
  <2> DEFINE found == run[p].new \cup {i \in running : QueryOf[i] = q}
             r == [run[p] EXCEPT !.asked = @ \ {q}, !.new = found]
  <2>1. run[p] \in Runs /\ run[p].stage = "fetch"
    BY <1>5 DEF GetRunningInstances, UpdateTypeOK
  <2>2. r.stage = "fetch" /\ r.alone = run[p].alone
    BY <2>1 DEF Runs
  <2>3. run' = [run EXCEPT ![p] = r]
    BY <1>5 DEF GetRunningInstances
  <2>4. ~Updating(p)
    BY <2>1 DEF Updating
  <2> HIDE DEF r
  <2>5. QED
    BY <1>3, <1>5, <2>2, <2>3, <2>4 DEF GetRunningInstances
\* A run that finds the file outdated is alone, or the file has two writers now.
<1>6. ASSUME NEW p \in Processes, Compare(p) PROVE LoadInv'
  <2> DEFINE company == \E r \in Processes : Updating(r)
             w == [run[p] EXCEPT !.stage = "write", !.alone = ~company]
             c == [r \in Processes |->
                     IF r = p THEN w ELSE [run[r] EXCEPT !.alone = FALSE]]
  <2>1. \/ Finish(p) /\ UNCHANGED broken
        \/ run' = c /\ broken' = (broken \/ company)
    BY <1>6 DEF Compare
  <2>2. run[p].stage = "fetch" /\ UNCHANGED <<file, up, pidfile>>
    BY <1>6 DEF Compare
  <2>3. CASE Finish(p) /\ UNCHANGED broken
    BY <1>0, <2>2, <2>3, Leave
  <2>4. CASE run' = c /\ broken' = (broken \/ company)
    <3>1. \A q \in Processes : run[q] \in Runs
      BY DEF UpdateTypeOK
    <3>2. w.stage = "write" /\ w.alone = ~company
      BY <3>1 DEF Runs
    <3>3. run'[p] = w
      BY <2>4
    <3>4. ASSUME NEW q \in Processes \ {p}
          PROVE  run'[q].stage = run[q].stage /\ ~run'[q].alone
      <4>1. run'[q] = [run[q] EXCEPT !.alone = FALSE]
        BY <2>4
      <4>2. QED
        BY <3>1, <4>1 DEF Runs
    <3> HIDE DEF w, c
    <3>5. \A q \in Processes \ {p} : Updating(q)' = Updating(q)
      BY <3>4 DEF Updating
    <3>6. Updating(p)' /\ Progress(p)' /\ ~Updating(p)
      BY <2>2, <3>2, <3>3 DEF Updating, Progress
    <3>7. ASSUME NEW q \in Processes, run'[q].alone
          PROVE  /\ Updating(q)' /\ \A s \in Processes \ {q} : ~Updating(s)'
                 /\ Progress(q)'
      <4>1. q = p
        BY <3>4, <3>7
      <4>2. ~company
        BY <3>2, <3>3, <3>7, <4>1
      <4>3. QED
        BY <3>5, <3>6, <4>1, <4>2
    <3>8. ~broken' => \A q \in Processes : Updating(q)' => run'[q].alone
      BY <2>4, <3>2, <3>3, <3>5
    <3>9. ~broken' => Loaded'
      <4>1. ~broken' => Loaded
        BY <2>4 DEF LoadInv
      <4>2. QED
        BY <1>0, <2>2, <4>1 DEF Loaded, Serves, Named, Listening
    <3>10. QED
      BY <3>7, <3>8, <3>9 DEF LoadInv
  <2>5. QED
    BY <2>1, <2>3, <2>4
\* The stages at which nothing is known of a run that is alone.
<1>7. ASSUME NEW p \in Processes, NEW r, run' = [run EXCEPT ![p] = r],
             Updating(p), r.alone = run[p].alone, broken' = broken,
             r.stage \in {"flush", "restart", "stop", "remove", "start", "daemon", "launch"}
      PROVE  LoadInv'
  <2>1. run'[p] = r
    BY <1>7 DEF UpdateTypeOK
  <2>2. Progress(p)'
    BY <1>7, <2>1 DEF Progress
  <2>3. QED
    BY <1>7, <2>2, Advance
<1>8. ASSUME NEW p \in Processes, NEW s \in Stages,
             run' = [run EXCEPT ![p] = [run[p] EXCEPT !.stage = s]],
             Updating(p), broken' = broken,
             s \in {"flush", "restart", "stop", "remove", "start", "daemon", "launch"}
      PROVE  LoadInv'
  <2> DEFINE r == [run[p] EXCEPT !.stage = s]
  <2>1. run[p] \in Runs
    BY DEF UpdateTypeOK
  <2>2. r.stage = s /\ r.alone = run[p].alone
    BY <2>1 DEF Runs
  <2> HIDE DEF r
  <2>3. run' = [run EXCEPT ![p] = r]
    BY <1>8 DEF r
  <2>4. QED
    BY <1>7, <1>8, <2>2, <2>3
<1>9. ASSUME NEW p \in Processes, OpenFile(p) PROVE LoadInv'
  BY <1>8, <1>9, Labels DEF OpenFile, Updating
<1>10. ASSUME NEW p \in Processes, WriteFile(p) PROVE LoadInv'
  <2> DEFINE next == [run[p] EXCEPT !.pos = run[p].pos + 1]
             last == [run[p] EXCEPT !.stage = "restart", !.pos = 0, !.new = {}]
  <2>1. run[p] \in Runs /\ run[p].stage = "flush"
    BY <1>10 DEF WriteFile, UpdateTypeOK
  <2>2. run' = [run EXCEPT ![p] = next] \/ run' = [run EXCEPT ![p] = last]
    BY <1>10 DEF WriteFile
  <2>3. next.stage = "flush" /\ next.alone = run[p].alone
    BY <2>1 DEF Runs
  <2>4. last.stage = "restart" /\ last.alone = run[p].alone
    BY <2>1 DEF Runs
  <2>5. Updating(p) /\ broken' = broken
    BY <1>10, <2>1 DEF WriteFile, Updating
  <2> HIDE DEF next, last
  <2>6. QED
    BY <1>7, <2>2, <2>3, <2>4, <2>5
<1>11. ASSUME NEW p \in Processes, RestartHaproxy(p) PROVE LoadInv'
  <2> DEFINE r == [run[p] EXCEPT !.stage = "launch", !.old = Named]
  <2>1. run[p] \in Runs /\ run[p].stage = "restart"
    BY <1>11 DEF RestartHaproxy, UpdateTypeOK
  <2>2. r.stage = "launch" /\ r.alone = run[p].alone
    BY <2>1 DEF Runs
  <2>3. run' = [run EXCEPT ![p] = r] /\ broken' = broken
    BY <1>11 DEF RestartHaproxy
  <2>4. Updating(p)
    BY <2>1 DEF Updating
  <2> HIDE DEF r
  <2>5. QED
    BY <1>7, <2>2, <2>3, <2>4
\* A restart that comes to nothing is noted.
<1>12. ASSUME NEW p \in Processes, Fail(p), UNCHANGED <<file, up, pidfile>> PROVE LoadInv'
  BY <1>0, <1>12, Leave DEF Fail
<1>13. ASSUME NEW p \in Processes, Service(p) PROVE LoadInv'
  <2>1. run[p].stage \in {"restart", "stop", "remove", "start", "daemon"}
    BY <1>13
       DEF Service, ServiceRestart, ServiceStop, RemovePidfile, ServiceStart, Daemon
  <2>2. \/ Fail(p) /\ UNCHANGED <<file, up, pidfile>>
        \/ /\ broken' = broken
           /\ \E s \in {"stop", "remove", "start", "daemon", "launch"} :
                run' = [run EXCEPT ![p] = [run[p] EXCEPT !.stage = s]]
    BY <1>13
       DEF Service, ServiceRestart, ServiceStop, RemovePidfile, ServiceStart, Daemon
  <2>3. Updating(p)
    BY <2>1 DEF Updating
  <2>4. QED
    BY <1>8, <1>12, <2>2, <2>3, Labels
\* The process that an undisturbed run starts reads its file,
<1>14. ASSUME NEW p \in Processes, Launch(p) PROVE LoadInv'
  <2> DEFINE n == CHOOSE n \in FreePids : TRUE
             r == [run[p] EXCEPT !.stage = "bind", !.conf = file, !.child = n]
  <2>1. CASE Fail(p)
    BY <1>12, <1>14, <2>1 DEF Launch
  <2>2. CASE ~Fail(p)
    <3>1. /\ run[p].stage = "launch" /\ file # <<>> /\ FreePids # {}
          /\ run' = [run EXCEPT ![p] = r]
          /\ UNCHANGED <<file, up, pidfile, broken>>
      BY <1>14, <2>2 DEF Launch, Acceptable
    <3>2. n \in FreePids
      BY <3>1
    <3>3. n \in Pids /\ n \notin run[p].old
      BY <3>2 DEF FreePids
    <3>4. run[p] \in Runs
      BY DEF UpdateTypeOK
    <3> HIDE DEF n
    <3>5. /\ r.stage = "bind" /\ r.conf = file /\ r.child = n
          /\ r.old = run[p].old /\ r.alone = run[p].alone
      BY <3>4 DEF Runs
    <3> HIDE DEF r
    <3>6. run'[p] = r
      BY <3>1 DEF UpdateTypeOK
    <3>7. Progress(p)'
      BY <3>1, <3>3, <3>5, <3>6 DEF Progress, Own
    <3>8. Updating(p)
      BY <3>1 DEF Updating
    <3>9. QED
      BY <3>1, <3>5, <3>7, <3>8, Advance
  <2>3. QED
    BY <2>1, <2>2
\* gets the ports, where they are not shared as the only one,
<1>15. ASSUME NEW p \in Processes, Bind(p) PROVE LoadInv'
  <2> DEFINE r == [run[p] EXCEPT !.stage = "pid", !.conf = <<>>]
  <2>1. CASE Fail(p) /\ UNCHANGED up
    BY <1>12, <1>15, <2>1 DEF Bind
  <2>2. CASE ~(Fail(p) /\ UNCHANGED up)
    <3>1. /\ run[p].stage = "bind"
          /\ sharing \/ Listening \subseteq run[p].old
          /\ up' = [h \in Pids |-> IF h = run[p].child THEN run[p].conf
                                   ELSE IF h \in run[p].old /\ ~sharing THEN Down ELSE up[h]]
          /\ run' = [run EXCEPT ![p] = r]
          /\ UNCHANGED <<file, pidfile, broken>>
      BY <1>15, <2>2 DEF Bind, Fail
    <3>2. run[p] \in Runs
      BY DEF UpdateTypeOK
    <3>3. /\ r.stage = "pid" /\ r.child = run[p].child
          /\ r.old = run[p].old /\ r.alone = run[p].alone
      BY <3>2 DEF Runs
    <3> HIDE DEF r
    <3>4. run'[p] = r
      BY <3>1 DEF UpdateTypeOK
    <3>5. ASSUME run[p].alone PROVE Progress(p)'
      <4>1. Own(p) /\ run[p].conf = file /\ file # <<>>
        BY <3>1, <3>5 DEF LoadInv, Progress
      <4>2. up'[run[p].child] = file
        BY <3>1, <4>1 DEF Own
      <4>3. ASSUME ~sharing PROVE Listening' = {run[p].child}
        <5>1. ASSUME NEW h \in Pids \ {run[p].child} PROVE up'[h] = Down
          BY <3>1, <4>3 DEF Listening
        <5>2. QED
          BY <4>1, <4>2, <5>1 DEF Listening, Own, Down
      <4>4. QED
        BY <1>0, <3>1, <3>3, <3>4, <4>1, <4>2, <4>3 DEF Progress, Own
    <3>6. Updating(p)
      BY <3>1 DEF Updating
    <3>7. QED
      BY <3>1, <3>3, <3>5, <3>6, Advance
  <2>3. QED
    BY <2>1, <2>2
\* takes the pid file,
<1>16. ASSUME NEW p \in Processes, OpenPidfile(p) PROVE LoadInv'
  <2> DEFINE r == [run[p] EXCEPT !.stage = "tell"]
  <2>1. /\ run[p].stage = "pid" /\ run' = [run EXCEPT ![p] = r]
        /\ pidfile' = [by |-> run[p].child, written |-> FALSE]
        /\ UNCHANGED <<file, up, broken>>
    BY <1>16 DEF OpenPidfile
  <2>2. run[p] \in Runs
    BY DEF UpdateTypeOK
  <2>3. /\ r.stage = "tell" /\ r.child = run[p].child
        /\ r.old = run[p].old /\ r.alone = run[p].alone
    BY <2>2 DEF Runs
  <2> HIDE DEF r
  <2>4. run'[p] = r
    BY <2>1 DEF UpdateTypeOK
  <2>5. ASSUME run[p].alone PROVE Progress(p)'
    <3>1. /\ Own(p) /\ up[run[p].child] = file /\ file # <<>>
          /\ ~sharing => Listening = {run[p].child}
      BY <2>1, <2>5 DEF LoadInv, Progress
    <3>2. QED
      BY <1>0, <2>1, <2>3, <2>4, <3>1 DEF Progress, Own, Listening
  <2>6. Updating(p)
    BY <2>1 DEF Updating
  <2>7. QED
    BY <2>1, <2>3, <2>5, <2>6, Advance
\* survives the others,
<1>17. ASSUME NEW p \in Processes, TellOldPids(p) PROVE LoadInv'
  <2> DEFINE r == [run[p] EXCEPT !.stage = "fork", !.old = {}]
  <2>1. /\ run[p].stage = "tell" /\ run' = [run EXCEPT ![p] = r]
        /\ up' = [h \in Pids |-> IF h \in run[p].old THEN Down ELSE up[h]]
        /\ UNCHANGED <<file, pidfile, broken>>
    BY <1>17 DEF TellOldPids
  <2>2. run[p] \in Runs
    BY DEF UpdateTypeOK
  <2>3. /\ r.stage = "fork" /\ r.child = run[p].child
        /\ r.old = {} /\ r.alone = run[p].alone
    BY <2>2 DEF Runs
  <2> HIDE DEF r
  <2>4. run'[p] = r
    BY <2>1 DEF UpdateTypeOK
  <2>5. ASSUME run[p].alone PROVE Progress(p)'
    <3>1. /\ Own(p) /\ up[run[p].child] = file /\ file # <<>>
          /\ ~sharing => Listening = {run[p].child}
          /\ pidfile = [by |-> run[p].child, written |-> FALSE]
      BY <2>1, <2>5 DEF LoadInv, Progress
    <3>2. up'[run[p].child] = file
      BY <2>1, <3>1 DEF Own
    <3>3. ASSUME ~sharing PROVE Listening' = {run[p].child}
      <4>1. ASSUME NEW h \in Pids \ {run[p].child} PROVE up'[h] = Down
        BY <2>1, <3>1, <3>3 DEF Listening
      <4>2. QED
        BY <3>1, <3>2, <4>1 DEF Listening, Own, Down
    <3>4. QED
      BY <1>0, <2>1, <2>3, <2>4, <3>1, <3>2, <3>3 DEF Progress, Own
  <2>6. Updating(p)
    BY <2>1 DEF Updating
  <2>7. QED
    BY <2>1, <2>3, <2>5, <2>6, Advance
\* and is named by it.
<1>18. ASSUME NEW p \in Processes, Fork(p) PROVE LoadInv'
  <2>1. \A q \in Processes : run'[q] = IF q = p THEN NoRun ELSE run[q]
    BY <1>18 DEF Fork, Finish, UpdateTypeOK
  <2>2. /\ run[p].stage = "fork" /\ broken' = (broken /\ ~run[p].alone)
        /\ pidfile' = [pidfile EXCEPT !.written = @ \/ pidfile.by = run[p].child]
        /\ UNCHANGED <<file, up>>
    BY <1>18 DEF Fork
  <2>3. ~Updating(p)' /\ ~run'[p].alone /\ Updating(p)
    BY <2>1, <2>2 DEF Updating, NoRun
  <2>4. \A q \in Processes \ {p} : ~run'[q].alone
    BY <2>1, <2>3 DEF LoadInv
  <2>5. ~broken' => run[p].alone
    BY <2>2, <2>3 DEF LoadInv
  <2>6. run[p].alone => \A q \in Processes : ~Updating(q)'
    BY <2>1, <2>3 DEF LoadInv, Updating
  <2>7. ASSUME run[p].alone PROVE Loaded'
    <3>1. /\ Own(p) /\ up[run[p].child] = file
          /\ ~sharing => Listening = {run[p].child}
          /\ pidfile = [by |-> run[p].child, written |-> FALSE]
      BY <2>2, <2>7 DEF LoadInv, Progress
    <3>2. pidfile' = [by |-> run[p].child, written |-> TRUE]
      BY <2>2, <3>1
    <3>3. Named' = {run[p].child}
      BY <3>1, <3>2 DEF Named, Own
    <3>4. QED
      BY <1>0, <2>2, <3>1, <3>3 DEF Loaded, Serves, Listening
  <2>8. QED
    BY <2>3, <2>4, <2>5, <2>6, <2>7 DEF LoadInv
<1>19. ASSUME NEW p \in Processes, Crash(p) PROVE LoadInv'
  BY <1>0, <1>19, Leave DEF Crash
<1>20. QED
  BY <1>1, <1>2, <1>4, <1>5, <1>6, <1>9, <1>10, <1>11, <1>13, <1>14, <1>15, <1>16,
     <1>17, <1>18, <1>19
     DEF UpdateNext, Step, Start

\* For any number of runs that overlap and die and of restarts that come to
\* nothing: whenever none of that has happened since an undisturbed update, HAProxy
\* runs with the file that runs compare with, and where ports are not shared it is
\* the only one.
THEOREM LoadSafety == UpdateSpec => [](UpdateTypeOK /\ FileIsLoaded)
<1>1. UpdateInit => UpdateTypeOK /\ LoadInv
  BY UpdateInitType, LoadInit
<1>2. (UpdateTypeOK /\ LoadInv) /\ [UpdateNext]_updateVars => (UpdateTypeOK /\ LoadInv)'
  BY UpdateTypeStep, LoadStep
<1>3. LoadInv => FileIsLoaded
  BY DEF LoadInv, FileIsLoaded, Loaded
<1>4. QED
  BY <1>1, <1>2, <1>3, PTL DEF UpdateSpec

-----------------------------------------------------------------------------

LEMMA PidfileInit == UpdateInit => PidfileInv
<1> SUFFICES ASSUME UpdateInit PROVE PidfileInv
  OBVIOUS
<1>1. \A p \in Processes : run[p].stage = "off"
  BY DEF UpdateInit, NoRun
<1>2. file # Down
  BY RenderType DEF UpdateInit
<1>3. pidfile.written /\ pidfile.by = FirstPid /\ up[FirstPid] = file
  BY ValuesAssumption DEF UpdateInit
<1>4. QED
  BY <1>1, <1>2, <1>3, ValuesAssumption DEF PidfileInv

\* Runs that are not starting an HAProxy, or no longer.
Elsewhere(p) ==
  /\ run[p].stage \notin {"pid", "tell", "fork"}
  /\ run'[p].stage \in {"off", "fetch", "write", "flush", "restart", "launch"}
  /\ run'[p].child \in {run[p].child, NoPid}
  /\ run'[p].old \subseteq run[p].old \cup Named

Unmoved(p) ==
  /\ run'[p].stage = run[p].stage /\ run'[p].child = run[p].child
  /\ run'[p].old = run[p].old /\ run'[p].conf = run[p].conf

\* The pid of a process that starts is not in the pid file.
LEMMA FreshUnnamed ==
  ASSUME NEW p, Fresh(p)
  PROVE  run[p].child \notin Named
  BY DEF Fresh, Named

LEMMA PidfileQuiet ==
  ASSUME PidfileInv, UNCHANGED <<up, pidfile>>,
         \A p \in Processes : Unmoved(p) \/ Elsewhere(p)
  PROVE  PidfileInv'
<1>1. ASSUME NEW p \in Processes, run'[p].stage \in {"bind", "pid", "tell", "fork"}
      PROVE  Unmoved(p)
  BY <1>1 DEF Elsewhere
<1>2. ASSUME NEW p \in Processes, run[p].stage \in {"pid", "tell", "fork"}
      PROVE  Unmoved(p)
  BY <1>2 DEF Elsewhere
<1>3. ASSUME NEW p \in Processes, run'[p].stage \in {"bind", "pid", "tell", "fork"}
      PROVE  Fresh(p)'
  <2>1. Unmoved(p)
    BY <1>1, <1>3
  <2>2. Fresh(p)
    BY <1>3, <2>1 DEF PidfileInv, Unmoved
  <2>3. \A r \in Processes : run'[r].old \subseteq run[r].old \cup Named
    BY DEF Unmoved, Elsewhere
  <2>4. \A r \in Processes : run'[r].child \in {run[r].child, NoPid}
    BY DEF Unmoved, Elsewhere
  <2>5. run'[p].child = run[p].child
    BY <2>1 DEF Unmoved
  <2>6. \A r \in Processes : run[p].child \notin run'[r].old
    BY <2>2, <2>3, FreshUnnamed DEF Fresh
  <2>7. \A r \in Processes \ {p} : run'[r].child # run[p].child
    BY <2>2, <2>4, ValuesAssumption DEF Fresh
  <2>8. QED
    BY <2>2, <2>5, <2>6, <2>7 DEF Fresh
<1>4. \A p \in Processes : run'[p].stage \notin {"stop", "remove", "start", "daemon"}
  BY DEF PidfileInv, Unmoved, Elsewhere
<1>5. \A p \in Processes : run'[p].stage = "bind" => run'[p].conf # <<>>
  BY <1>1 DEF PidfileInv, Unmoved
<1>6. \A p \in Processes :
        run'[p].stage \in {"pid", "tell", "fork"} => up'[run'[p].child] # Down
  BY <1>1 DEF PidfileInv, Unmoved
<1>7. pidfile'.written => pidfile'.by \in Pids
  BY DEF PidfileInv
<1>8. pidfile'.written =>
        up'[pidfile'.by] # Down \/ \E p \in Processes : run'[p].stage = "pid"
  BY <1>2 DEF PidfileInv, Unmoved
<1>9. pidfile'.written =>
        \A p \in Processes : run'[p].stage = "tell" => pidfile'.by \notin run'[p].old
  BY <1>1 DEF PidfileInv, Unmoved
<1>10. ~pidfile'.written =>
         \E p \in Processes : /\ run'[p].stage \in {"tell", "fork"}
                              /\ pidfile'.by = run'[p].child
  BY <1>2 DEF PidfileInv, Unmoved
<1>11. QED
  BY <1>3, <1>4, <1>5, <1>6, <1>7, <1>8, <1>9, <1>10 DEF PidfileInv

LEMMA PidfileStep ==
  UpdateTypeOK /\ PidfileInv /\ graceful /\ [UpdateNext]_updateVars => PidfileInv'
<1> SUFFICES ASSUME UpdateTypeOK, PidfileInv, graceful, [UpdateNext]_updateVars
             PROVE PidfileInv'
  OBVIOUS
<1>a. \A p \in Processes : run[p] \in Runs
  BY DEF UpdateTypeOK
<1>b. ASSUME NEW p \in Processes, NEW r, run' = [run EXCEPT ![p] = r]
      PROVE  run'[p] = r /\ \A q \in Processes \ {p} : run'[q] = run[q]
  BY <1>b DEF UpdateTypeOK
<1>1. ASSUME NEW p \in Processes, NEW r, run' = [run EXCEPT ![p] = r],
             UNCHANGED <<up, pidfile>>, run[p].stage \notin {"pid", "tell", "fork"},
             r.stage \in {"off", "fetch", "write", "flush", "restart", "launch"},
             r.child \in {run[p].child, NoPid}, r.old \subseteq run[p].old \cup Named
      PROVE  PidfileInv'
  <2>1. run'[p] = r /\ \A q \in Processes \ {p} : run'[q] = run[q]
    BY <1>1, <1>b
  <2>2. Elsewhere(p)
    BY <1>1, <2>1 DEF Elsewhere
  <2>3. \A q \in Processes \ {p} : Unmoved(q)
    BY <2>1 DEF Unmoved
  <2>4. QED
    BY <1>1, <2>2, <2>3, PidfileQuiet
<1>2. ASSUME NEW p \in Processes, Finish(p), UNCHANGED <<up, pidfile>>,
             run[p].stage \notin {"pid", "tell", "fork"}
      PROVE  PidfileInv'
  BY <1>1, <1>2 DEF Finish, NoRun
<1>3. ASSUME UNCHANGED <<run, up, pidfile>> PROVE PidfileInv'
  BY <1>3, PidfileQuiet DEF Unmoved
<1>4. CASE UNCHANGED updateVars
  BY <1>3, <1>4 DEF updateVars
<1>5. ASSUME NEW i \in Instances, Change(i) PROVE PidfileInv'
  BY <1>3, <1>5 DEF Change
<1>6. ASSUME NEW p \in Processes, Begin(p) PROVE PidfileInv'
  <2> DEFINE r == [run[p] EXCEPT !.stage = "fetch", !.asked = Queries]
  <2>1. run' = [run EXCEPT ![p] = r] /\ run[p].stage = "off" /\ UNCHANGED <<up, pidfile>>
    BY <1>6 DEF Begin
  <2>2. r.stage = "fetch" /\ r.child = run[p].child /\ r.old = run[p].old
    BY <1>a DEF Runs
  <2> HIDE DEF r
  <2>3. QED
    BY <1>1, <2>1, <2>2
<1>7. ASSUME NEW p \in Processes, NEW q \in Queries, GetRunningInstances(p, q)
      PROVE PidfileInv'
  <2> DEFINE found == run[p].new \cup {i \in running : QueryOf[i] = q}
             r == [run[p] EXCEPT !.asked = @ \ {q}, !.new = found]
  <2>1. /\ run' = [run EXCEPT ![p] = r] /\ run[p].stage = "fetch"
        /\ UNCHANGED <<up, pidfile>>
    BY <1>7 DEF GetRunningInstances
  <2>2. r.stage = "fetch" /\ r.child = run[p].child /\ r.old = run[p].old
    BY <1>a, <2>1 DEF Runs
  <2> HIDE DEF r
  <2>3. QED
    BY <1>1, <2>1, <2>2
<1>8. ASSUME NEW p \in Processes, Compare(p) PROVE PidfileInv'
  <2> DEFINE company == \E r \in Processes : Updating(r)
             w == [run[p] EXCEPT !.stage = "write", !.alone = ~company]
             c == [r \in Processes |->
                     IF r = p THEN w ELSE [run[r] EXCEPT !.alone = FALSE]]
  <2>1. (Finish(p) \/ run' = c) /\ run[p].stage = "fetch" /\ UNCHANGED <<up, pidfile>>
    BY <1>8 DEF Compare
  <2>2. ASSUME run' = c PROVE \A q \in Processes : Unmoved(q) \/ Elsewhere(q)
    <3>1. w.stage = "write" /\ w.child = run[p].child /\ w.old = run[p].old
      BY <1>a DEF Runs
    <3>2. run'[p] = w
      BY <2>2
    <3>3. Elsewhere(p)
      BY <2>1, <3>1, <3>2 DEF Elsewhere
    <3>4. ASSUME NEW q \in Processes \ {p} PROVE Unmoved(q)
      <4>1. run'[q] = [run[q] EXCEPT !.alone = FALSE]
        BY <2>2
      <4>2. QED
        BY <1>a, <4>1 DEF Runs, Unmoved
    <3>5. QED
      BY <3>3, <3>4
  <2> HIDE DEF c
  <2>3. QED
    BY <1>2, <2>1, <2>2, PidfileQuiet
<1>9. ASSUME NEW p \in Processes, OpenFile(p) PROVE PidfileInv'
  <2> DEFINE r == [run[p] EXCEPT !.stage = "flush"]
  <2>1. /\ run' = [run EXCEPT ![p] = r] /\ run[p].stage = "write"
        /\ UNCHANGED <<up, pidfile>>
    BY <1>9 DEF OpenFile
  <2>2. r.stage = "flush" /\ r.child = run[p].child /\ r.old = run[p].old
    BY <1>a DEF Runs
  <2> HIDE DEF r
  <2>3. QED
    BY <1>1, <2>1, <2>2
<1>10. ASSUME NEW p \in Processes, WriteFile(p) PROVE PidfileInv'
  <2> DEFINE next == [run[p] EXCEPT !.pos = run[p].pos + 1]
             last == [run[p] EXCEPT !.stage = "restart", !.pos = 0, !.new = {}]
  <2>1. run[p].stage = "flush" /\ UNCHANGED <<up, pidfile>>
    BY <1>10 DEF WriteFile
  <2>2. run' = [run EXCEPT ![p] = next] \/ run' = [run EXCEPT ![p] = last]
    BY <1>10 DEF WriteFile
  <2>3. next.stage = "flush" /\ next.child = run[p].child /\ next.old = run[p].old
    BY <1>a, <2>1 DEF Runs
  <2>4. last.stage = "restart" /\ last.child = run[p].child /\ last.old = run[p].old
    BY <1>a DEF Runs
  <2> HIDE DEF next, last
  <2>5. QED
    BY <1>1, <2>1, <2>2, <2>3, <2>4
\* What the pid file names was not started just now.
<1>11. ASSUME NEW p \in Processes, RestartHaproxy(p) PROVE PidfileInv'
  <2> DEFINE r == [run[p] EXCEPT !.stage = "launch", !.old = Named]
  <2>1. /\ run' = [run EXCEPT ![p] = r] /\ run[p].stage = "restart"
        /\ UNCHANGED <<up, pidfile>>
    BY <1>11 DEF RestartHaproxy
  <2>2. r.stage = "launch" /\ r.child = run[p].child /\ r.old = Named
    BY <1>a DEF Runs
  <2> HIDE DEF r
  <2>3. QED
    BY <1>1, <2>1, <2>2
\* Nothing of the service is used.
<1>12. ASSUME NEW p \in Processes PROVE ~Service(p)
  BY DEF Service, ServiceRestart, ServiceStop, RemovePidfile, ServiceStart, Daemon,
         PidfileInv
<1>13. ASSUME NEW p \in Processes, Launch(p) PROVE PidfileInv'
  <2> DEFINE n == CHOOSE n \in FreePids : TRUE
             r == [run[p] EXCEPT !.stage = "bind", !.conf = file, !.child = n]
  <2>1. run[p].stage = "launch" /\ UNCHANGED <<up, pidfile>>
    BY <1>13 DEF Launch
  <2>2. CASE Fail(p)
    BY <1>2, <2>1, <2>2 DEF Fail
  <2>3. CASE ~Fail(p)
    <3>1. file # <<>> /\ FreePids # {} /\ run' = [run EXCEPT ![p] = r]
      BY <1>13, <2>3 DEF Launch, Acceptable
    <3>2. n \in FreePids
      BY <3>1
    <3>3. /\ n \in Pids /\ n # pidfile.by
          /\ \A q \in Processes : n \notin run[q].old /\ n # run[q].child
      BY <3>2 DEF FreePids
    <3> HIDE DEF n
    <3>4. r.stage = "bind" /\ r.child = n /\ r.old = run[p].old /\ r.conf = file
      BY <1>a DEF Runs
    <3> HIDE DEF r
    <3>5. run'[p] = r /\ \A q \in Processes \ {p} : run'[q] = run[q]
      BY <1>b, <3>1
    <3>6. \A q \in Processes : run'[q].old = run[q].old
      BY <3>4, <3>5
    <3>7. Fresh(p)'
      BY <2>1, <3>3, <3>4, <3>5, <3>6 DEF Fresh
    <3>8. ASSUME NEW q \in Processes \ {p}, Fresh(q) PROVE Fresh(q)'
      <4>1. \A s \in Processes \ {q} : run'[s].child # run[q].child
        BY <3>3, <3>4, <3>5, <3>8 DEF Fresh
      <4>2. QED
        BY <2>1, <3>5, <3>6, <3>8, <4>1 DEF Fresh
    <3>9. QED
      BY <2>1, <3>1, <3>4, <3>5, <3>7, <3>8 DEF PidfileInv
  <2>4. QED
    BY <2>2, <2>3
\* Where ports are not shared the processes on the command line have left, and the
\* new one is about to take the pid file over.
<1>14. ASSUME NEW p \in Processes, Bind(p) PROVE PidfileInv'
  <2> DEFINE r == [run[p] EXCEPT !.stage = "pid", !.conf = <<>>]
  <2>1. run[p].stage = "bind" /\ pidfile' = pidfile
    BY <1>14 DEF Bind
  <2>2. CASE Fail(p) /\ UNCHANGED up
    BY <1>2, <2>1, <2>2 DEF Fail
  <2>3. CASE ~(Fail(p) /\ UNCHANGED up)
    <3>1. /\ up' = [h \in Pids |-> IF h = run[p].child THEN run[p].conf
                                   ELSE IF h \in run[p].old /\ ~sharing THEN Down ELSE up[h]]
          /\ run' = [run EXCEPT ![p] = r]
      BY <1>14, <2>3 DEF Bind
    <3>2. r.stage = "pid" /\ r.child = run[p].child /\ r.old = run[p].old
      BY <1>a DEF Runs
    <3> HIDE DEF r
    <3>3. run'[p] = r /\ \A q \in Processes \ {p} : run'[q] = run[q]
      BY <1>b, <3>1
    <3>4. \A q \in Processes : run'[q].old = run[q].old /\ run'[q].child = run[q].child
      BY <3>2, <3>3
    <3>5. Fresh(p) /\ run[p].conf # <<>>
      BY <2>1 DEF PidfileInv
    <3>6. ASSUME NEW q \in Processes, Fresh(q) PROVE Fresh(q)'
      BY <2>1, <3>4, <3>6 DEF Fresh
    <3>7. up'[run[p].child] # Down
      BY <3>1, <3>5 DEF Fresh, Down
    <3>8. ASSUME NEW q \in Processes \ {p}, Fresh(q)
          PROVE  up'[run[q].child] = up[run[q].child]
      BY <3>1, <3>5, <3>8 DEF Fresh
    <3>9. QED
      BY <2>1, <3>2, <3>3, <3>4, <3>5, <3>6, <3>7, <3>8 DEF PidfileInv
  <2>4. QED
    BY <2>2, <2>3
<1>15. ASSUME NEW p \in Processes, OpenPidfile(p) PROVE PidfileInv'
  <2> DEFINE r == [run[p] EXCEPT !.stage = "tell"]
  <2>1. /\ run[p].stage = "pid" /\ run' = [run EXCEPT ![p] = r] /\ up' = up
        /\ pidfile' = [by |-> run[p].child, written |-> FALSE]
    BY <1>15 DEF OpenPidfile
  <2>2. r.stage = "tell" /\ r.child = run[p].child /\ r.old = run[p].old
    BY <1>a DEF Runs
  <2> HIDE DEF r
  <2>3. run'[p] = r /\ \A q \in Processes \ {p} : run'[q] = run[q]
    BY <1>b, <2>1
  <2>4. \A q \in Processes : run'[q].old = run[q].old /\ run'[q].child = run[q].child
    BY <2>2, <2>3
  <2>5. pidfile'.by = run[p].child /\ ~pidfile'.written
    BY <2>1
  <2>6. ASSUME NEW q \in Processes, Fresh(q) PROVE Fresh(q)'
    BY <2>4, <2>5, <2>6 DEF Fresh
  <2>7. QED
    BY <2>1, <2>2, <2>3, <2>4, <2>5, <2>6 DEF PidfileInv
\* Whoever it tells to leave, nobody counts on it any more.
<1>16. ASSUME NEW p \in Processes, TellOldPids(p) PROVE PidfileInv'
  <2> DEFINE r == [run[p] EXCEPT !.stage = "fork", !.old = {}]
  <2>1. /\ run[p].stage = "tell" /\ run' = [run EXCEPT ![p] = r] /\ pidfile' = pidfile
        /\ up' = [h \in Pids |-> IF h \in run[p].old THEN Down ELSE up[h]]
    BY <1>16 DEF TellOldPids
  <2>2. r.stage = "fork" /\ r.child = run[p].child /\ r.old = {}
    BY <1>a DEF Runs
  <2> HIDE DEF r
  <2>3. run'[p] = r /\ \A q \in Processes \ {p} : run'[q] = run[q]
    BY <1>b, <2>1
  <2>4. \A q \in Processes : run'[q].child = run[q].child /\ run'[q].old \subseteq run[q].old
    BY <2>2, <2>3
  <2>5. ASSUME NEW q \in Processes, Fresh(q)
        PROVE  Fresh(q)' /\ up'[run[q].child] = up[run[q].child]
    BY <2>1, <2>4, <2>5 DEF Fresh
  <2>6. ASSUME pidfile.written PROVE up'[pidfile.by] = up[pidfile.by]
    BY <2>1, <2>6 DEF PidfileInv
  <2>7. QED
    BY <2>1, <2>2, <2>3, <2>4, <2>5, <2>6 DEF PidfileInv
<1>17. ASSUME NEW p \in Processes, Fork(p) PROVE PidfileInv'
  <2>1. /\ run[p].stage = "fork" /\ run' = [run EXCEPT ![p] = NoRun] /\ up' = up
        /\ pidfile' = [pidfile EXCEPT !.written = @ \/ pidfile.by = run[p].child]
    BY <1>17 DEF Fork, Finish
  <2>2. run'[p] = NoRun /\ \A q \in Processes \ {p} : run'[q] = run[q]
    BY <1>b, <2>1
  <2>3. run'[p].stage = "off" /\ run'[p].old = {} /\ run'[p].child = NoPid
    BY <2>2 DEF NoRun
  <2>4. /\ pidfile'.by = pidfile.by
        /\ pidfile'.written = (pidfile.written \/ pidfile.by = run[p].child)
    BY <2>1 DEF UpdateTypeOK
  <2>5. Fresh(p) /\ up[run[p].child] # Down
    BY <2>1 DEF PidfileInv
  <2>6. ASSUME NEW q \in Processes \ {p}, Fresh(q) PROVE Fresh(q)'
    <3>1. run[q].child # run[p].child
      BY <2>5 DEF Fresh
    <3>2. \A s \in Processes : run[q].child \notin run'[s].old
      BY <2>2, <2>3, <2>6 DEF Fresh
    <3>3. \A s \in Processes \ {q} : run'[s].child # run[q].child
      BY <2>2, <2>3, <2>6, ValuesAssumption DEF Fresh
    <3>4. QED
      BY <2>2, <2>4, <2>6, <3>1, <3>2, <3>3 DEF Fresh
  <2>7. CASE pidfile.by = run[p].child
    BY <2>1, <2>2, <2>3, <2>4, <2>5, <2>6, <2>7 DEF PidfileInv, Fresh
  <2>8. CASE pidfile.by # run[p].child
    <3>0. pidfile.written \in BOOLEAN
      BY DEF UpdateTypeOK
    <3>1. pidfile'.by = pidfile.by /\ pidfile'.written = pidfile.written
      BY <2>4, <2>8, <3>0
    <3>2. \A q \in Processes : run'[q].stage = "pid" <=> run[q].stage = "pid"
      BY <2>1, <2>2, <2>3
    <3>3. ASSUME ~pidfile.written
          PROVE  \E q \in Processes : /\ run'[q].stage \in {"tell", "fork"}
                                      /\ pidfile'.by = run'[q].child
      <4>1. PICK q \in Processes : run[q].stage \in {"tell", "fork"} /\ pidfile.by = run[q].child
        BY <3>3 DEF PidfileInv
      <4>2. q # p
        BY <2>8, <4>1
      <4>3. QED
        BY <2>2, <3>1, <4>1, <4>2
    <3>4. pidfile.written =>
            \A q \in Processes : run'[q].stage = "tell" => pidfile'.by \notin run'[q].old
      BY <2>2, <2>3, <3>1 DEF PidfileInv
    <3>5. \A q \in Processes :
            run'[q].stage \in {"bind", "pid", "tell", "fork"} => Fresh(q)'
      BY <2>2, <2>3, <2>6 DEF PidfileInv
    <3>6. /\ \A q \in Processes : run'[q].stage \notin {"stop", "remove", "start", "daemon"}
          /\ \A q \in Processes : run'[q].stage = "bind" => run'[q].conf # <<>>
          /\ \A q \in Processes :
               run'[q].stage \in {"pid", "tell", "fork"} => up'[run'[q].child] # Down
      BY <2>1, <2>2, <2>3 DEF PidfileInv
    <3>7. pidfile.written =>
            /\ pidfile'.by \in Pids
            /\ up'[pidfile'.by] # Down \/ \E q \in Processes : run'[q].stage = "pid"
      BY <2>1, <3>1, <3>2 DEF PidfileInv
    <3>8. QED
      BY <3>1, <3>3, <3>4, <3>5, <3>6, <3>7 DEF PidfileInv
  <2>9. QED
    BY <2>7, <2>8
<1>18. ASSUME NEW p \in Processes, Crash(p) PROVE PidfileInv'
  BY <1>2, <1>18 DEF Crash
<1>19. QED
  BY <1>4, <1>5, <1>6, <1>7, <1>8, <1>9, <1>10, <1>11, <1>12, <1>13, <1>14, <1>15,
     <1>16, <1>17, <1>18
     DEF UpdateNext, Step, Start

\* Runs that are given --haproxy, however they overlap and die, and whichever
\* starts fail: between two replacements of HAProxy the pid file names a process
\* that listens, so a restart always finds the one it has to take over from.
THEOREM PidfileSafety == UpdateSpec => []PidfileNamesListener
<1> DEFINE Inv == UpdateTypeOK /\ (graceful => PidfileInv)
<1>1. UpdateInit => Inv
  BY UpdateInitType, PidfileInit
<1>2. Inv /\ [UpdateNext]_updateVars => Inv'
  <2>1. [UpdateNext]_updateVars => graceful' = graceful
    BY DEF UpdateNext, updateVars, modes
  <2>2. QED
    BY <2>1, UpdateTypeStep, PidfileStep
<1>3. Inv => PidfileNamesListener
  <2> SUFFICES ASSUME UpdateTypeOK, PidfileInv,
                      \A p \in Processes : run[p].stage \notin {"pid", "tell", "fork"}
               PROVE  \E h \in Named : h \in Listening
    BY DEF PidfileNamesListener
  <2>1. pidfile.written /\ pidfile.by \in Pids /\ up[pidfile.by] # Down
    BY DEF PidfileInv
  <2>2. pidfile = [by |-> pidfile.by, written |-> TRUE]
    BY <2>1 DEF UpdateTypeOK
  <2>3. pidfile.by \in Named /\ pidfile.by \in Listening
    BY <2>1, <2>2 DEF Named, Listening
  <2>4. QED
    BY <2>3
<1>4. QED
  BY <1>1, <1>2, <1>3, PTL DEF UpdateSpec
=============================================================================
