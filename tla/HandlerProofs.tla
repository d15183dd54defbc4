--------------------------- MODULE HandlerProofs ---------------------------
(***************************************************************************)
(* Proofs about what jobs are given, whom they may talk to and what they   *)
(* leave behind.                                                           *)
(*   HandOff, for any jobs and files: a file is written before its job     *)
(*     exists and never again, so all that happens to the file of a job is *)
(*     its removal, and at most one job at a time needs it.                *)
(*   ScopeProbes, for any networks, machines, hosts and requests: packets  *)
(*     stay in scope, every network of a scope was named by a request, and *)
(*     no address of a scope is counted twice.                             *)
(*   Handlers and their tools, for any plans that keep the order           *)
(*     PlansAssumption states.                                             *)
(***************************************************************************)
EXTENDS HandOff, ScopeProbes, Handlers, FiniteSetTheorems, WellFoundedInduction, TLAPS

\* The launch of a file precedes its job and everything that happens to it.
Launched ==
    /\ \A j \in Job : status[j] # "absent" => launch[FileOf[j]] = "over"
    /\ \A f \in old : launch[f] = "over"
    /\ \A f \in File : launch[f] = "written" => file[f] = "ready"

\* The job of a cancellation that deletes, and of a handler.
Engaged ==
    /\ \A c \in Canceller : cancel[c].step # "idle" =>
          /\ cancel[c].job \in Job
          /\ status[cancel[c].job] # "absent"
          /\ cancel[c].step = "delete" =>
                IsSecret(cancel[c].job) /\ status[cancel[c].job] = "cancelled"
    /\ \A j \in Job : handler[j] # "none" => up /\ status[j] = "running"
    /\ \A j \in Job : handler[j] = "result" => file[FileOf[j]] = "none"

\* At most one job at a time needs a file, and one job ever a credential file.
Alone ==
    /\ \A i, j \in Job : /\ FileOf[i] = FileOf[j]
                         /\ status[i] \in Active /\ status[j] \in Active
                         => i = j
    /\ \A i, j \in Job : /\ FileOf[i] = FileOf[j] /\ IsSecret(i)
                         /\ status[i] # "absent" /\ status[j] # "absent"
                         => i = j

\* JobAfterFile for every job that exists.
Whole == \A j \in Job : status[j] # "absent" => file[FileOf[j]] # "temp"

IInv == TypeOK /\ Launched /\ Engaged /\ Alone /\ Whole /\ SecretSpent

-----------------------------------------------------------------------------
\* Every step keeps the type of every variable.
LEMMA TypeStep == ASSUME TypeOK, [Next]_vars PROVE TypeOK'
<1> USE FileAssumption DEF TypeOK, Active, Ended
<1>1. ASSUME NEW S, DeleteFiles(S)
      PROVE  file' \in [File -> {"none", "temp", "ready"}] /\ old' \subseteq File
  BY <1>1 DEF DeleteFiles
<1>2. ASSUME NEW f \in File, BeginFile(f) \/ FinishFile(f) \/ Age(f) PROVE TypeOK'
  BY <1>2 DEF BeginFile, FinishFile, Age
<1>3. ASSUME NEW f \in File, LaunchFails(f) PROVE TypeOK'
  BY <1>1, <1>3 DEF LaunchFails
<1>4. ASSUME NEW j \in Job, CreateJob(j) PROVE TypeOK'
  BY <1>4 DEF CreateJob
<1>5. ASSUME NEW j \in Job, NEW source \in Job, Retry(j, source) PROVE TypeOK'
  BY <1>5 DEF Retry
<1>6. ASSUME NEW c \in Canceller, NEW j \in Job, CancelRead(c, j) PROVE TypeOK'
  BY <1>6 DEF CancelRead, Cancel
<1>7. ASSUME NEW c \in Canceller, CancelCommit(c) PROVE TypeOK'
  <2>1. cancel[c] \in [step : {"read", "delete"}, job : Job, queued : BOOLEAN]
    BY <1>7 DEF CancelCommit, Cancel, NoCancel
  <2>2. cancel' \in [Canceller -> Cancel]
    BY <1>7, <2>1 DEF CancelCommit, Cancel
  <2>3. /\ status' \in [Job -> {"absent"} \cup Active \cup Ended]
        /\ cancelRequested' \subseteq Job
    BY <1>7, <2>1 DEF CancelCommit
  <2> QED
    BY <1>7, <2>2, <2>3 DEF CancelCommit
<1>8. ASSUME NEW c \in Canceller, CancelDelete(c) PROVE TypeOK'
  BY <1>1, <1>8 DEF CancelDelete, Cancel
<1>9. ASSUME NEW j \in Job, Claim(j) \/ ChecksPass(j) \/ ChecksFail(j) \/ EndJob(j)
      PROVE  TypeOK'
  BY <1>9 DEF Claim, ChecksPass, ChecksFail, EndJob
<1>10. ASSUME NEW j \in Job, NEW o \in {"result", "error"}, Finally(j, o)
       PROVE  TypeOK'
  BY <1>1, <1>10 DEF Finally
<1>11. CASE StartWorker
  BY <1>1, <1>11 DEF StartWorker
<1>12. CASE Maintain
  BY <1>1, <1>12 DEF Maintain
<1>13. CASE StopWorker
  <2>1. up' \in BOOLEAN
    BY <1>13, Zenon DEF StopWorker
  <2> QED
    BY <1>13, <2>1 DEF StopWorker
<1>14. CASE KillApi
  BY <1>14, Zenon DEF KillApi, Cancel
<1>15. CASE UNCHANGED vars
  BY <1>15 DEF vars
<1> QED
  BY <1>2, <1>3, <1>4, <1>5, <1>6, <1>7, <1>8, <1>9, <1>10, <1>11, <1>12, <1>13,
     <1>14, <1>15 DEF Next, LaunchStep, CancelStep, WorkerStep, JobsOf

\* The initial state has the right types.
LEMMA TypeInit == Init => TypeOK
<1>1. Init => up \in BOOLEAN /\ cancel \in [Canceller -> Cancel]
  BY Zenon DEF Init, Cancel
<1> QED
  BY <1>1 DEF Init, TypeOK

\* The type invariant of the hand-over of files.
THEOREM TypeCorrect == Spec => []TypeOK
  BY TypeInit, TypeStep, PTL DEF Spec

-----------------------------------------------------------------------------
\* Every step keeps the strengthened invariant.
LEMMA InvStep == ASSUME IInv, [Next]_vars PROVE IInv'
<1> USE FileAssumption DEF IInv, TypeOK, Launched, Engaged, Alone, Whole,
    SecretSpent, IsSecret, Active
<1>0. TypeOK'
  BY TypeStep
<1>1. ASSUME NEW f \in File, BeginFile(f) \/ FinishFile(f) \/ Age(f) PROVE IInv'
  BY <1>0, <1>1 DEF BeginFile, FinishFile, Age
<1>2. ASSUME NEW f \in File, LaunchFails(f) PROVE IInv'
  BY <1>0, <1>2 DEF LaunchFails, DeleteFiles
<1>3. ASSUME NEW j \in Job, CreateJob(j) PROVE IInv'
  BY <1>0, <1>3 DEF CreateJob
<1>4. ASSUME NEW j \in Job, NEW source \in Job, Retry(j, source) PROVE IInv'
  BY <1>0, <1>4 DEF Retry, JobsOf, Retryable
<1>5. ASSUME NEW c \in Canceller, NEW j \in Job, CancelRead(c, j) PROVE IInv'
  BY <1>0, <1>5 DEF CancelRead
<1>6. ASSUME NEW c \in Canceller, CancelCommit(c) PROVE IInv'
  BY <1>0, <1>6 DEF CancelCommit, NoCancel
<1>7. ASSUME NEW c \in Canceller, CancelDelete(c) PROVE IInv'
  BY <1>0, <1>7 DEF CancelDelete, NoCancel, DeleteFiles
<1>8. ASSUME NEW j \in Job, Claim(j) \/ ChecksPass(j) \/ ChecksFail(j)
      PROVE  IInv'
  BY <1>0, <1>8 DEF Claim, ChecksPass, ChecksFail
<1>9. ASSUME NEW j \in Job, EndJob(j) PROVE IInv'
  BY <1>0, <1>9 DEF EndJob
<1>10. ASSUME NEW j \in Job, NEW o \in {"result", "error"}, Finally(j, o)
       PROVE  IInv'
  BY <1>0, <1>10 DEF Finally, DeleteFiles
<1>11. CASE StartWorker
  BY <1>0, <1>11 DEF StartWorker, Stale, DeleteFiles
<1>12. CASE Maintain
  BY <1>0, <1>12 DEF Maintain, Stale, DeleteFiles
<1>13. CASE StopWorker \/ KillApi
  BY <1>0, <1>13 DEF StopWorker, KillApi, NoCancel
<1>14. CASE UNCHANGED vars
  BY <1>0, <1>14 DEF vars
<1> QED
  BY <1>1, <1>2, <1>3, <1>4, <1>5, <1>6, <1>7, <1>8, <1>9, <1>10, <1>11, <1>12,
     <1>13, <1>14 DEF Next, LaunchStep, CancelStep, WorkerStep, JobsOf

\* The strengthened invariant.
LEMMA Invariant == Spec => []IInv
<1>1. ASSUME Init PROVE IInv
  <2>1. /\ \A j \in Job : status[j] = "absent" /\ handler[j] = "none"
        /\ \A f \in File : launch[f] = "idle"
        /\ \A c \in Canceller : cancel[c].step = "idle"
        /\ old = {}
    BY <1>1 DEF Init, NoCancel
  <2>2. TypeOK
    BY <1>1, TypeInit
  <2>3. Launched /\ Alone /\ Whole /\ SecretSpent
    BY <2>1, FileAssumption DEF Launched, Alone, Whole, SecretSpent, Active
  <2>4. Engaged
    BY <2>1 DEF Engaged
  <2> QED
    BY <2>2, <2>3, <2>4 DEF IInv
<1> QED
  BY <1>1, InvStep, PTL DEF Spec

\* No job that is queued or running has a file that is still being written.
THEOREM FilesPrecedeJobs == Spec => []JobAfterFile
<1>1. IInv => JobAfterFile
  BY DEF IInv, Whole, JobAfterFile, Active
<1> QED
  BY <1>1, Invariant, PTL

\* A completed topology job has left no credentials in the spool.
THEOREM SecretsSpent == Spec => []SecretSpent
<1>1. IInv => SecretSpent
  BY DEF IInv
<1> QED
  BY <1>1, Invariant, PTL

\* A waiting job loses its file to its age only.
THEOREM FilesKept == Spec => FileKept
<1> DEFINE Kept(j) ==
      (/\ status[j] \in Active /\ status'[j] \in Active
       /\ handler[j] # "try"
       /\ file[FileOf[j]] = "ready" /\ file'[FileOf[j]] = "none")
      => FileOf[j] \in old
<1>1. ASSUME IInv, [Next]_vars, NEW j \in Job,
             status[j] \in Active, status'[j] \in Active, handler[j] # "try",
             file[FileOf[j]] = "ready", file'[FileOf[j]] = "none",
             FileOf[j] \notin old
      PROVE  FALSE
  <2> USE <1>1, FileAssumption DEF IInv, TypeOK, Active
  <2>1. ASSUME NEW S, DeleteFiles(S), FileOf[j] \notin S PROVE FALSE
    BY <2>1 DEF DeleteFiles
  <2>2. ASSUME NEW f \in File, LaunchFails(f) PROVE FALSE
    BY <2>1, <2>2 DEF LaunchFails, Launched
  <2>3. ASSUME NEW c \in Canceller, CancelDelete(c) PROVE FALSE
    BY <2>1, <2>3 DEF CancelDelete, Engaged, Alone
  <2>4. ASSUME NEW i \in Job, NEW o, Finally(i, o) PROVE FALSE
    BY <2>1, <2>4 DEF Finally, Engaged, Alone
  <2>5. ASSUME StartWorker \/ Maintain PROVE FALSE
    BY <2>1, <2>5 DEF StartWorker, Maintain, Stale
  <2>6. file' # file
    OBVIOUS
  <2> QED
    BY <2>2, <2>3, <2>4, <2>5, <2>6
       DEF Next, vars, LaunchStep, CancelStep, WorkerStep, BeginFile, FinishFile,
           CreateJob, CancelCommit, CancelRead, Claim, ChecksPass, ChecksFail,
           EndJob, Retry, StopWorker, KillApi, Age, JobsOf
<1>2. IInv /\ [Next]_vars => [\A j \in Job : Kept(j)]_vars
  BY <1>1
<1> QED
  BY <1>2, Invariant, PTL DEF Spec, FileKept

-----------------------------------------------------------------------------
ScopeRow == [interface : Interfaces, profile : Profiles, targets : SUBSET Network]
JobTypes == {"active_discovery", "protocol_audit", "topology"}
JobStates == {"queued", "done", "failed"} \cup ScanPhases
JobRecord ==
    [type : JobTypes, scope : Nat, target : Address \cup {NoTarget},
     profile : Profiles \cup {"none"}, state : JobStates, live : SUBSET ({4, 6} \X Int)]

ScopeTyped ==
    /\ host \in HostStates
    /\ scopes \in Seq(ScopeRow)
    /\ queue \in Seq(JobRecord)
    /\ open \subseteq Machines

\* A job has the scope it was accepted with, and scans only addresses of it.
JobSound(job) ==
    /\ job.scope \in DOMAIN scopes
    /\ job.live \subseteq AllMembers(scopes[job.scope].targets)
    /\ job.type = "topology" => job.target \in Address
JobsSound == \A j \in DOMAIN queue : JobSound(queue[j])

\* What ProbesInScope says of one probe, whose job exists.
Rightful(p) ==
    /\ p.job \in DOMAIN queue
    /\ LET job == queue[p.job] IN
       IF job.type = "protocol_audit"
         THEN \E k \in DOMAIN scopes : InScope(p.address, k)
       ELSE /\ InScope(p.address, job.scope)
            /\ job.type = "topology" => scopes[job.scope].interface \in p.via
ProbesRightful == \A p \in probed : Rightful(p)

ScopesNamed == \A k \in DOMAIN scopes : NamedByRequest(scopes[k])

\* The networks of a scope do not overlap, and hold no more than the limit.
Overlap(a, b) == Members(a) \cap Members(b) # {}
Apart(nets) == \A a, b \in nets : Overlap(a, b) => a = b
ScopesApart ==
    \A k \in DOMAIN scopes : Apart(scopes[k].targets) /\ WithinLimit(scopes[k])

ScopeInv == ScopeTyped /\ JobsSound /\ ProbesRightful /\ ScopesNamed /\ ScopesApart

\* What the steps of the system leave: rows of scopes, and the type and the
\* scope of every job.
RowsKept ==
    /\ \A k \in DOMAIN scopes : k \in DOMAIN scopes' /\ scopes'[k] = scopes[k]
    /\ \A j \in DOMAIN queue : /\ j \in DOMAIN queue'
                               /\ queue'[j].type = queue[j].type
                               /\ queue'[j].scope = queue[j].scope
StillRightful(p) == Rightful(p)'
StillSound(j) == JobSound(queue[j])'
-----------------------------------------------------------------------------
\* A probe that was rightful stays it.
LEMMA RightfulStays ==
    ASSUME ScopeTyped, JobsSound, RowsKept, NEW p, Rightful(p)
    PROVE  StillRightful(p)
<1>1. p.job \in DOMAIN queue /\ queue[p.job].scope \in DOMAIN scopes
  BY DEF Rightful, JobsSound, JobSound
<1> QED
  BY <1>1 DEF Rightful, StillRightful, RowsKept, InScope

\* Probes after a step that sends packets to some addresses.
LEMMA ProbesAfter ==
    ASSUME ScopeTyped, JobsSound, ProbesRightful, RowsKept, NEW j, NEW addresses,
           Probe(j, addresses),
           \A a \in addresses :
              StillRightful([job |-> j, address |-> a, via |-> Via(a)])
    PROVE  ProbesRightful'
<1>1. \A p \in probed : StillRightful(p)
  BY RightfulStays DEF ProbesRightful
<1>2. \A p \in probed' : StillRightful(p)
  BY <1>1 DEF Probe
<1> QED
  BY <1>2 DEF ProbesRightful, StillRightful, Rightful, InScope

\* Probes after a step that sends none.
LEMMA ProbesStay ==
    ASSUME ScopeTyped, JobsSound, ProbesRightful, RowsKept, probed' = probed
    PROVE  ProbesRightful'
<1>1. \A p \in probed' : StillRightful(p)
  BY RightfulStays DEF ProbesRightful
<1> QED
  BY <1>1 DEF ProbesRightful, StillRightful, Rightful, InScope

\* Jobs after a step that changes the state and the live hosts of one of them.
LEMMA JobStep ==
    ASSUME ScopeTyped, JobsSound, NEW j \in DOMAIN queue, NEW s \in JobStates,
           NEW live \in SUBSET AllMembers(scopes[queue[j].scope].targets),
           live \subseteq {4, 6} \X Int,
           queue' = [queue EXCEPT ![j] = [queue[j] EXCEPT !.state = s, !.live = live]],
           scopes' = scopes
    PROVE  queue' \in Seq(JobRecord) /\ JobsSound' /\ RowsKept
<1>0. queue[j] \in JobRecord
  BY DEF ScopeTyped
<1> DEFINE job == [queue[j] EXCEPT !.state = s, !.live = live]
<1>1. /\ job \in JobRecord /\ job.type = queue[j].type /\ job.scope = queue[j].scope
      /\ job.target = queue[j].target /\ job.live = live
  BY <1>0 DEF JobRecord
<1> HIDE DEF job
<1>2. queue' = [queue EXCEPT ![j] = job]
  BY DEF job
<1>3. queue' \in Seq(JobRecord) /\ DOMAIN queue' = DOMAIN queue
  BY <1>1, <1>2 DEF ScopeTyped
<1>4. \A k \in DOMAIN queue : queue'[k] = IF k = j THEN job ELSE queue[k]
  BY <1>2 DEF ScopeTyped
<1>5. RowsKept
  BY <1>1, <1>3, <1>4 DEF RowsKept
<1>6. \A k \in DOMAIN queue' : StillSound(k)
  BY <1>1, <1>3, <1>4 DEF JobsSound, StillSound, JobSound
<1>7. JobsSound'
  BY <1>6 DEF JobsSound, StillSound, JobSound
<1> QED
  BY <1>3, <1>5, <1>7

\* Jobs after a step that accepts one.
LEMMA JobAccepted ==
    ASSUME ScopeTyped, JobsSound, NEW job \in JobRecord, scopes' \in Seq(ScopeRow),
           \A k \in DOMAIN scopes : k \in DOMAIN scopes' /\ scopes'[k] = scopes[k],
           queue' = Append(queue, job), job.scope \in DOMAIN scopes', job.live = {},
           job.type = "topology" => job.target \in Address
    PROVE  queue' \in Seq(JobRecord) /\ JobsSound' /\ RowsKept
<1>1. queue' \in Seq(JobRecord) /\ Len(queue') = Len(queue) + 1
  BY DEF ScopeTyped
<1>2. \A j \in DOMAIN queue : j \in DOMAIN queue' /\ queue'[j] = queue[j]
  BY <1>1 DEF ScopeTyped
<1>3. \A j \in DOMAIN queue' : j \in DOMAIN queue \/ queue'[j] = job
  BY <1>1 DEF ScopeTyped
<1>4. RowsKept
  BY <1>2 DEF RowsKept
<1>5. \A j \in DOMAIN queue' : StillSound(j)
  BY <1>2, <1>3 DEF JobsSound, StillSound, JobSound
<1>6. JobsSound'
  BY <1>5 DEF JobsSound, StillSound, JobSound
<1> QED
  BY <1>1, <1>4, <1>6
-----------------------------------------------------------------------------
\* A set of numbers that is not empty has a least one.
LEMMA LeastOf ==
  ASSUME NEW S \in SUBSET Nat, S # {}
  PROVE  \E n \in S : \A m \in S : n <= m
<1> DEFINE R == OpToRel(<, Nat)
<1>1. IsWellFoundedOn(R, Nat)
  BY NatLessThanWellFounded
<1>2. PICK n \in S : \A y \in S : ~(<<y, n>> \in R)
  <2> HIDE DEF R
  <2> QED
    BY <1>1, WFMin
<1>3. ASSUME NEW m \in S PROVE n <= m
  <2>1. m \in Nat /\ n \in Nat
    OBVIOUS
  <2>2. <<m, n>> \notin R
    BY <1>2
  <2>3. ~(m < n)
    BY <2>1, <2>2 DEF OpToRel
  <2> QED
    BY <2>1, <2>3
<1> QED
  BY <1>3

\* Powers of two: 2^n is the number of subsets of n things.
LEMMA PowerType ==
    ASSUME NEW n \in Nat
    PROVE  2^n \in Nat /\ 2^n > 0
<1>1. IsFiniteSet(1..n) /\ Cardinality(1..n) = n
  BY FS_Interval
<1>2. IsFiniteSet(SUBSET (1..n)) /\ Cardinality(SUBSET (1..n)) = 2^n
  BY <1>1, FS_SUBSET
<1>3. Cardinality(SUBSET (1..n)) \in Nat
  BY <1>2, FS_CardinalityType
<1>4. SUBSET (1..n) # {}
  OBVIOUS
<1>5. Cardinality(SUBSET (1..n)) # 0
  BY <1>2, <1>4, FS_EmptySet
<1> QED
  BY <1>2, <1>3, <1>5

\* Half of the subsets of n + 1 things hold the last of them.
LEMMA PowerDoubles ==
    ASSUME NEW n \in Nat
    PROVE  2^(n + 1) = 2 * 2^n
<1> DEFINE S == SUBSET (1..n)
           T == {x \cup {n + 1} : x \in S}
           f == [x \in S |-> x \cup {n + 1}]
<1>1. IsFiniteSet(S) /\ Cardinality(S) = 2^n
  <2>1. IsFiniteSet(1..n) /\ Cardinality(1..n) = n
    BY FS_Interval
  <2> QED
    BY <2>1, FS_SUBSET
<1>2. IsFiniteSet(T) /\ Cardinality(T) = Cardinality(S)
  <2>1. \A x \in S : n + 1 \notin x
    OBVIOUS
  <2>2. ASSUME NEW x \in S, NEW y \in S, f[x] = f[y] PROVE x = y
    <3>1. x \cup {n + 1} = y \cup {n + 1}
      BY <2>2
    <3>2. (x \cup {n + 1}) \ {n + 1} = x /\ (y \cup {n + 1}) \ {n + 1} = y
      BY <2>1
    <3> QED
      BY <3>1, <3>2
  <2>3. f \in [S -> T] /\ \A y \in T : \E x \in S : f[x] = y
    OBVIOUS
  <2>4. f \in Bijection(S, T)
    <3> HIDE DEF f, S, T
    <3>1. f \in Injection(S, T)
      BY <2>2, <2>3 DEF Injection, IsInjective
    <3>2. f \in Surjection(S, T)
      BY <2>3 DEF Surjection
    <3> QED
      BY <3>1, <3>2 DEF Bijection
  <2>5. ExistsBijection(S, T)
    BY <2>4 DEF ExistsBijection
  <2> QED
    BY <1>1, <2>5, FS_Bijection
<1>3. SUBSET (1..(n + 1)) = S \cup T
  <2>1. ASSUME NEW x \in SUBSET (1..(n + 1)) PROVE x \in S \cup T
    <3>1. CASE n + 1 \in x
      <4>1. x \ {n + 1} \in S /\ x = (x \ {n + 1}) \cup {n + 1}
        BY <3>1
      <4> QED
        BY <4>1
    <3>2. CASE n + 1 \notin x
      BY <3>2
    <3> QED
      BY <3>1, <3>2
  <2>2. \A x \in S : x \subseteq 1..(n + 1) /\ x \cup {n + 1} \subseteq 1..(n + 1)
    OBVIOUS
  <2>3. \A x \in S \cup T : x \in SUBSET (1..(n + 1))
    BY <2>2
  <2> HIDE DEF S, T
  <2> QED
    BY <2>1, <2>3
<1>4. S \cap T = {}
  OBVIOUS
<1>5. Cardinality(S \cup T) = Cardinality(S) + Cardinality(T)
  <2> HIDE DEF S, T
  <2>1. /\ Cardinality(S \cup T)
             = Cardinality(S) + Cardinality(T) - Cardinality(S \cap T)
    BY <1>1, <1>2, FS_Union
  <2>2. Cardinality(S \cap T) = 0 /\ Cardinality(S) \in Nat /\ Cardinality(T) \in Nat
    BY <1>1, <1>2, <1>4, FS_EmptySet, FS_CardinalityType
  <2> QED
    BY <2>1, <2>2
<1>6. Cardinality(SUBSET (1..(n + 1))) = 2^(n + 1)
  <2>1. n + 1 \in Nat /\ IsFiniteSet(1..(n + 1)) /\ Cardinality(1..(n + 1)) = n + 1
    BY FS_Interval
  <2> QED
    BY <2>1, FS_SUBSET
<1> HIDE DEF S, T
<1>7. 2^(n + 1) = 2^n + 2^n
  BY <1>1, <1>2, <1>3, <1>5, <1>6
<1> QED
  BY <1>7, PowerType

\* A power of two is a multiple of every smaller one.
LEMMA PowerDivides ==
    ASSUME NEW a \in Nat, NEW b \in Nat, a <= b
    PROVE  \E m \in Nat : m > 0 /\ 2^b = m * 2^a
<1> DEFINE Times(d) == \E m \in Nat : m > 0 /\ 2^(a + d) = m * 2^a
           Bad == {d \in Nat : ~Times(d)}
<1>1. 2^a \in Nat
  BY PowerType
<1>2. Times(0)
  <2>1. a + 0 = a /\ 2^a = 1 * 2^a
    BY <1>1
  <2> QED
    BY <2>1
<1>3. ASSUME NEW d \in Nat, Times(d) PROVE Times(d + 1)
  <2>1. PICK m \in Nat : m > 0 /\ 2^(a + d) = m * 2^a
    BY <1>3
  <2>2. a + d \in Nat /\ a + (d + 1) = (a + d) + 1
    OBVIOUS
  <2>3. 2^(a + (d + 1)) = 2 * (m * 2^a)
    BY <2>1, <2>2, PowerDoubles
  <2>4. 2 * (m * 2^a) = (2 * m) * 2^a /\ 2 * m \in Nat /\ 2 * m > 0
    BY <1>1, <2>1
  <2> QED
    BY <2>3, <2>4
<1>4. Bad = {}
  <2> HIDE DEF Times
  <2> SUFFICES ASSUME Bad # {} PROVE FALSE
    OBVIOUS
  <2>1. PICK d \in Bad : \A e \in Bad : d <= e
    <3>1. Bad \in SUBSET Nat
      OBVIOUS
    <3> HIDE DEF Bad
    <3> QED
      BY <3>1, LeastOf
  <2>2. d # 0 /\ d - 1 \in Nat /\ d - 1 \notin Bad
    BY <1>2, <2>1
  <2>3. Times(d - 1 + 1)
    BY <1>3, <2>2
  <2> QED
    BY <2>1, <2>2, <2>3
<1>5. b - a \in Nat /\ a + (b - a) = b
  OBVIOUS
<1> QED
  BY <1>4, <1>5
-----------------------------------------------------------------------------
\* Networks.  Two of them whose first address is a multiple of their size are
\* nested or apart, so what RemoveDuplicatesAndCovered leaves does not overlap.
LEMMA NetworkShape ==
    ASSUME NEW net \in Network
    PROVE  /\ net = <<net[1], net[2], net[3]>>
           /\ net[1] \in {4, 6} /\ net[2] \in Nat /\ net[3] \in Nat
           /\ Size(net) \in Nat /\ Size(net) > 0
<1>1. 2^AddressBits \in Nat
  BY PowerType, ScopeAssumption
<1>2. /\ net = <<net[1], net[2], net[3]>>
      /\ net[1] \in {4, 6} /\ net[2] \in Nat /\ net[3] \in Nat
  BY <1>1, ScopeAssumption DEF Network
<1> QED
  BY <1>2, PowerType DEF Size

LEMMA MembersOf ==
    ASSUME NEW net \in Network, NEW x
    PROVE  x \in Members(net)
              <=> /\ x = <<net[1], x[2]>>
                  /\ x[2] \in Int /\ net[2] <= x[2] /\ x[2] < net[2] + Size(net)
BY NetworkShape DEF Members

LEMMA MultipleOf ==
    ASSUME NEW x \in Nat, NEW P \in Nat, P > 0, x % P = 0
    PROVE  \E i \in Nat : x = i * P
OBVIOUS

\* Intervals that start at multiples of P and of Q, where P divides Q.
LEMMA NestedOrApart ==
    ASSUME NEW P \in Nat, NEW Q \in Nat, NEW m \in Nat, P > 0, m > 0, Q = m * P,
           NEW A \in Nat, NEW B \in Nat, A % P = 0, B % Q = 0
    PROVE  A + P <= B \/ B + Q <= A \/ (B <= A /\ A + P <= B + Q)
<1>0. Q > 0
  OBVIOUS
<1>1. PICK i \in Nat : A = i * P
  BY MultipleOf
<1>2. PICK j \in Nat : B = j * Q
  BY <1>0, MultipleOf
<1>3. B = (j * m) * P /\ B + Q = (j * m + m) * P /\ j * m \in Nat
  BY <1>2
<1>4. ASSUME NEW h \in Nat, i < h PROVE A + P <= h * P
  <2>1. i + 1 <= h
    BY <1>4
  <2>2. (i + 1) * P <= h * P
    BY <2>1
  <2> QED
    BY <1>1, <2>2
<1>5. ASSUME NEW h \in Nat, h <= i PROVE h * P <= A
  BY <1>1, <1>5
<1>6. j * m + m \in Nat
  BY <1>3
<1>7. i < j * m \/ j * m + m <= i \/ (j * m <= i /\ i < j * m + m)
  BY <1>3
<1> QED
  BY <1>3, <1>4, <1>5, <1>6, <1>7

LEMMA OverlapNests ==
    ASSUME NEW a \in Network, NEW b \in Network, ParseTarget(a), ParseTarget(b),
           Overlap(a, b), a[3] <= b[3]
    PROVE  a[1] = b[1] /\ b[2] <= a[2] /\ a[2] + Size(a) <= b[2] + Size(b)
<1>1. /\ a[2] \in Nat /\ a[3] \in Nat /\ Size(a) \in Nat /\ Size(a) > 0
      /\ b[2] \in Nat /\ b[3] \in Nat /\ Size(b) \in Nat /\ Size(b) > 0
  BY NetworkShape
<1>2. PICK m \in Nat : m > 0 /\ Size(b) = m * Size(a)
  BY <1>1, PowerDivides DEF Size
<1>3. a[2] % Size(a) = 0 /\ b[2] % Size(b) = 0
  BY DEF ParseTarget
<1>4. \/ a[2] + Size(a) <= b[2] \/ b[2] + Size(b) <= a[2]
      \/ b[2] <= a[2] /\ a[2] + Size(a) <= b[2] + Size(b)
  BY <1>1, <1>2, <1>3, NestedOrApart
<1>5. PICK x : x \in Members(a) /\ x \in Members(b)
  BY DEF Overlap
<1>6. /\ x = <<a[1], x[2]>> /\ x = <<b[1], x[2]>> /\ x[2] \in Int
      /\ a[2] <= x[2] /\ x[2] < a[2] + Size(a)
      /\ b[2] <= x[2] /\ x[2] < b[2] + Size(b)
  BY <1>5, MembersOf
<1>7. a[1] = b[1]
  BY <1>6
<1> QED
  BY <1>1, <1>4, <1>6, <1>7

LEMMA NestedIsSubnet ==
    ASSUME NEW a \in Network, NEW b \in Network,
           a[1] = b[1], b[2] <= a[2], a[2] + Size(a) <= b[2] + Size(b)
    PROVE  SubnetOf(a, b)
<1> SUFFICES ASSUME NEW x \in Members(a) PROVE x \in Members(b)
  BY DEF SubnetOf
<1>1. x = <<a[1], x[2]>> /\ x[2] \in Int /\ a[2] <= x[2] /\ x[2] < a[2] + Size(a)
  BY MembersOf
<1>2. /\ a[2] \in Nat /\ Size(a) \in Nat /\ b[2] \in Nat /\ Size(b) \in Nat
  BY NetworkShape
<1>3. b[2] <= x[2] /\ x[2] < b[2] + Size(b)
  BY <1>1, <1>2
<1> QED
  BY <1>1, <1>3, MembersOf

\* What is left when covered networks are removed does not overlap.
LEMMA CanonicalApart ==
    ASSUME NEW nets \in SUBSET Network, \A net \in nets : ParseTarget(net)
    PROVE  Apart(RemoveDuplicatesAndCovered(nets))
<1> DEFINE kept == RemoveDuplicatesAndCovered(nets)
<1>1. \A a \in kept : a \in nets /\ a \in Network /\ ParseTarget(a)
  BY DEF RemoveDuplicatesAndCovered
<1>2. \A a \in kept : \A e \in nets : ~(WiderFirst(e, a) /\ SubnetOf(a, e))
  BY DEF RemoveDuplicatesAndCovered
<1> HIDE DEF kept
<1>3. ASSUME NEW a \in kept, NEW b \in kept, Overlap(a, b), a[3] <= b[3]
      PROVE  a = b
  <2>1. a[1] = b[1] /\ b[2] <= a[2] /\ a[2] + Size(a) <= b[2] + Size(b)
    BY <1>1, <1>3, OverlapNests
  <2>2. SubnetOf(a, b)
    BY <1>1, <2>1, NestedIsSubnet
  <2>3. ~WiderFirst(b, a)
    BY <1>1, <1>2, <2>2
  <2>4. /\ a = <<a[1], a[2], a[3]>> /\ a[2] \in Nat /\ a[3] \in Nat /\ a[1] \in {4, 6}
        /\ b = <<b[1], b[2], b[3]>> /\ b[2] \in Nat /\ b[3] \in Nat /\ b[1] \in {4, 6}
    BY <1>1, NetworkShape
  <2>5. a[2] = b[2] /\ a[3] = b[3]
    BY <1>3, <2>1, <2>3, <2>4 DEF WiderFirst
  <2> QED
    BY <2>1, <2>4, <2>5
<1>4. ASSUME NEW a \in kept, NEW b \in kept, Overlap(a, b)
      PROVE  a = b
  <2>1. a[3] \in Nat /\ b[3] \in Nat
    BY <1>1, NetworkShape
  <2>2. Overlap(b, a)
    BY <1>4 DEF Overlap
  <2> QED
    BY <1>3, <1>4, <2>1, <2>2
<1> QED
  BY <1>4 DEF Apart, kept

\* The addresses of a network are as many as its size says.
LEMMA MemberCount ==
    ASSUME NEW net \in Network
    PROVE  IsFiniteSet(Members(net)) /\ Cardinality(Members(net)) = Size(net)
<1> DEFINE I == net[2]..(net[2] + Size(net) - 1)
           f == [n \in I |-> <<net[1], n>>]
<1>1. net[2] \in Nat /\ Size(net) \in Nat /\ Size(net) > 0
  BY NetworkShape
<1>2. IsFiniteSet(I) /\ Cardinality(I) = Size(net)
  <2> DEFINE b == net[2] + Size(net) - 1
  <2>1. net[2] \in Int /\ b \in Int /\ ~(net[2] > b) /\ b - net[2] + 1 = Size(net)
    BY <1>1
  <2> HIDE DEF b
  <2>2. IsFiniteSet(net[2]..b) /\ Cardinality(net[2]..b) = b - net[2] + 1
    BY <2>1, FS_Interval
  <2> QED
    BY <2>1, <2>2 DEF b
<1>3. f \in Bijection(I, Members(net))
  <2>1. f \in [I -> Members(net)] /\ \A y \in Members(net) : \E n \in I : f[n] = y
    BY DEF Members
  <2>2. \A m, n \in I : f[m] = f[n] => m = n
    OBVIOUS
  <2>3. DOMAIN f = I
    OBVIOUS
  <2> HIDE DEF f, I
  <2> QED
    BY <2>1, <2>2, <2>3 DEF Bijection, Injection, Surjection, IsInjective
<1> HIDE DEF I, f
<1> QED
  BY <1>2, <1>3, FS_Bijection DEF ExistsBijection

\* A finite set as a sequence without repetitions.
LEMMA Listing ==
    ASSUME NEW S, IsFiniteSet(S)
    PROVE  LET c == SetToSeq(S) IN
           /\ Len(c) \in Nat /\ DOMAIN c = 1..Len(c)
           /\ \A i \in DOMAIN c : c[i] \in S
           /\ \A x \in S : \E i \in DOMAIN c : c[i] = x
           /\ \A i, j \in DOMAIN c : c[i] = c[j] => i = j
<1> DEFINE n == Cardinality(S)
           c == SetToSeq(S)
<1>1. n \in Nat /\ ExistsBijection(1..n, S)
  BY FS_CardinalityType
<1>2. PICK f : f \in Bijection(1..n, S)
  BY <1>1 DEF ExistsBijection
<1>3. f \in [1..n -> S] /\ IsInjective(f)
  BY <1>2 DEF Bijection, Injection
<1>4. c \in [1..n -> S] /\ IsInjective(c)
  BY <1>3 DEF SetToSeq
<1> HIDE DEF c
<1>5. c \in Injection(1..n, S)
  BY <1>4 DEF Injection
<1>6. IsFiniteSet(1..n) /\ Cardinality(1..n) = n
  BY <1>1, FS_Interval
<1>7. c \in Surjection(1..n, S)
  BY <1>5, <1>6, FS_Injection
<1>8. c \in Seq(S) /\ DOMAIN c = 1..n
  BY <1>1, <1>4
<1>9. \A x \in S : \E i \in DOMAIN c : c[i] = x
  BY <1>7, <1>8 DEF Surjection
<1>10. \A i, j \in DOMAIN c : c[i] = c[j] => i = j
  BY <1>4 DEF IsInjective
<1>11. Len(c) \in Nat /\ DOMAIN c = 1..Len(c)
  BY <1>8
<1>12. \A i \in DOMAIN c : c[i] \in S
  BY <1>4
<1> QED
  BY <1>9, <1>10, <1>11, <1>12 DEF c

\* FamilyCount adds the sizes of the networks of a family one after the other;
\* after k of them it has the number of their addresses.
FirstMembers(c, k) == UNION {Members(c[i]) : i \in 1..k}
AddSize(p, q, r, t, x) == t + Size(x)
CountSoFar(p, q, r, k, t) ==
    /\ IsFiniteSet(FirstMembers(p, k))
    /\ t = Cardinality(FirstMembers(p, k))
Sizes == INSTANCE FoldInduction WITH Op <- AddSize, Good <- CountSoFar

LEMMA CountStep ==
    ASSUME NEW c, NEW k \in 1..Len(c), Len(c) \in Nat, DOMAIN c = 1..Len(c),
           \A i \in DOMAIN c : c[i] \in Network,
           \A i, j \in DOMAIN c : Overlap(c[i], c[j]) => i = j,
           NEW t, CountSoFar(c, c, c, k - 1, t)
    PROVE  CountSoFar(c, c, c, k, AddSize(c, c, c, t, c[k]))
<1> DEFINE F == FirstMembers(c, k - 1)
           M == Members(c[k])
<1>1. FirstMembers(c, k) = F \cup M
  <2>1. 1..k = 1..(k - 1) \cup {k}
    OBVIOUS
  <2> QED
    BY <2>1 DEF FirstMembers
<1>2. F \cap M = {}
  <2>1. \A i \in 1..(k - 1) : i \in DOMAIN c /\ i # k
    OBVIOUS
  <2>2. \A i \in 1..(k - 1) : Members(c[i]) \cap M = {}
    BY <2>1 DEF Overlap
  <2> QED
    BY <2>2 DEF FirstMembers
<1>3. IsFiniteSet(M) /\ Cardinality(M) = Size(c[k])
  BY MemberCount
<1>4. IsFiniteSet(F) /\ t = Cardinality(F)
  BY DEF CountSoFar
<1> HIDE DEF F, M
<1>5. IsFiniteSet(F \cup M)
      /\ Cardinality(F \cup M) = Cardinality(F) + Cardinality(M) - Cardinality(F \cap M)
  BY <1>3, <1>4, FS_Union
<1>6. Cardinality(F \cap M) = 0 /\ Cardinality(F) \in Nat /\ Cardinality(M) \in Nat
  BY <1>2, <1>3, <1>4, FS_EmptySet, FS_CardinalityType
<1> QED
  BY <1>1, <1>3, <1>4, <1>5, <1>6 DEF CountSoFar, AddSize

LEMMA SumOfSizes ==
    ASSUME NEW c, Len(c) \in Nat, DOMAIN c = 1..Len(c),
           \A i \in DOMAIN c : c[i] \in Network,
           \A i, j \in DOMAIN c : Overlap(c[i], c[j]) => i = j
    PROVE  /\ IsFiniteSet(FirstMembers(c, Len(c)))
           /\ FoldLeft(LAMBDA sum, net : sum + Size(net), 0, c)
                 = Cardinality(FirstMembers(c, Len(c)))
<1>1. Sizes!WellOrdered
  BY LeastOf DEF Sizes!WellOrdered
<1>2. CountSoFar(c, c, c, 0, 0)
  <2>1. FirstMembers(c, 0) = {}
    BY DEF FirstMembers
  <2> QED
    BY <2>1, FS_EmptySet DEF CountSoFar
<1>3. \A k \in 1..Len(c) : \A t : CountSoFar(c, c, c, k - 1, t)
                 => CountSoFar(c, c, c, k, AddSize(c, c, c, t, c[k]))
  BY CountStep
<1>4. CountSoFar(c, c, c, Len(c), Sizes!Folded(c, c, c, 0, c))
  BY <1>1, <1>2, <1>3, Sizes!FoldKeeps
<1>5. Sizes!Folded(c, c, c, 0, c) = FoldLeft(LAMBDA sum, net : sum + Size(net), 0, c)
  BY DEF Sizes!Folded, FoldLeft, MapThenFoldSet, Max, AddSize
<1>6. /\ IsFiniteSet(FirstMembers(c, Len(c)))
      /\ Sizes!Folded(c, c, c, 0, c) = Cardinality(FirstMembers(c, Len(c)))
  BY <1>4 DEF CountSoFar
<1> QED
  BY <1>5, <1>6

\* Networks that do not overlap are counted once.
LEMMA ApartCounted ==
    ASSUME NEW nets \in SUBSET Network, Apart(nets), NEW family \in {4, 6}
    PROVE  /\ IsFiniteSet(Addressed(nets, family))
           /\ Cardinality(Addressed(nets, family)) = FamilyCount(nets, family)
<1> DEFINE S == {net \in nets : net[1] = family}
           c == SetToSeq(S)
<1>1. IsFiniteSet(S)
  <2>1. 2^AddressBits \in Nat /\ AddressBits \in Nat
    BY PowerType, ScopeAssumption
  <2>2. IsFiniteSet(0..(2^AddressBits - 1)) /\ IsFiniteSet(0..AddressBits)
    BY <2>1, FS_Interval
  <2>3. IsFiniteSet({4, 6})
    <3>1. IsFiniteSet({4})
      BY FS_Singleton
    <3>2. IsFiniteSet({4} \cup {6})
      BY <3>1, FS_AddElement
    <3>3. {4} \cup {6} = {4, 6}
      OBVIOUS
    <3> QED
      BY <3>2, <3>3
  <2> DEFINE A == 0..(2^AddressBits - 1)
             B == 0..AddressBits
  <2>4. IsFiniteSet(({4, 6} \X A) \X B)
    <3> HIDE DEF A, B
    <3> QED
      BY <2>2, <2>3, FS_Product DEF A, B
  <2> DEFINE f == [x \in ({4, 6} \X A) \X B |-> <<x[1][1], x[1][2], x[2]>>]
  <2>5. f \in Surjection(({4, 6} \X A) \X B, Network)
    <3>1. f \in [({4, 6} \X A) \X B -> Network]
      BY DEF Network
    <3>2. ASSUME NEW net \in Network
          PROVE  \E x \in ({4, 6} \X A) \X B : f[x] = net
      <4>1. <<(<<net[1], net[2]>>), net[3]>> \in ({4, 6} \X A) \X B
            /\ net = <<net[1], net[2], net[3]>>
        BY DEF Network
      <4>2. f[<<(<<net[1], net[2]>>), net[3]>>] = net
        BY <4>1
      <4> QED
        BY <4>1, <4>2
    <3> HIDE DEF f
    <3> QED
      BY <3>1, <3>2 DEF Surjection
  <2>6. IsFiniteSet(Network)
    <3> HIDE DEF f, A, B
    <3> QED
      BY <2>4, <2>5, FS_Surjection
  <2> QED
    BY <2>6, FS_Subset
<1>2. /\ Len(c) \in Nat /\ DOMAIN c = 1..Len(c)
      /\ \A i \in DOMAIN c : c[i] \in S
      /\ \A x \in S : \E i \in DOMAIN c : c[i] = x
      /\ \A i, j \in DOMAIN c : c[i] = c[j] => i = j
  <2> HIDE DEF S
  <2> QED
    BY <1>1, Listing
<1>3. FamilyCount(nets, family)
        = FoldLeft(LAMBDA sum, net : sum + Size(net), 0, c)
  BY DEF FamilyCount
<1> HIDE DEF c
<1>4. \A i \in DOMAIN c : c[i] \in nets /\ c[i] \in Network /\ c[i][1] = family
  BY <1>2
<1>5. \A i, j \in DOMAIN c : Overlap(c[i], c[j]) => i = j
  BY <1>2, <1>4 DEF Apart
<1>6. FoldLeft(LAMBDA sum, net : sum + Size(net), 0, c) = Cardinality(FirstMembers(c, Len(c)))
  BY <1>2, <1>4, <1>5, SumOfSizes
<1>7. Addressed(nets, family) = FirstMembers(c, Len(c))
  <2>1. ASSUME NEW a \in AllMembers(nets), a[1] = family
        PROVE  a \in FirstMembers(c, Len(c))
    <3>1. PICK net \in nets : a \in Members(net)
      BY DEF AllMembers
    <3>2. a = <<net[1], a[2]>>
      BY <3>1, MembersOf
    <3>3. net \in S
      BY <2>1, <3>2
    <3>4. PICK i \in 1..Len(c) : c[i] = net
      BY <1>2, <3>3
    <3> QED
      BY <3>1, <3>4 DEF FirstMembers
  <2>2. ASSUME NEW a \in FirstMembers(c, Len(c))
        PROVE  a \in AllMembers(nets) /\ a[1] = family
    <3>1. PICK i \in 1..Len(c) : a \in Members(c[i])
      BY DEF FirstMembers
    <3>2. c[i] \in nets /\ c[i] \in Network /\ c[i][1] = family
      BY <1>2, <1>4
    <3>3. a = <<c[i][1], a[2]>>
      BY <3>1, <3>2, MembersOf
    <3> QED
      BY <3>1, <3>2, <3>3 DEF AllMembers
  <2> QED
    BY <2>1, <2>2 DEF Addressed
<1>8. IsFiniteSet(FirstMembers(c, Len(c)))
  BY <1>2, <1>4, <1>5, SumOfSizes
<1> QED
  BY <1>3, <1>6, <1>7, <1>8

\* Fewer networks have no more addresses.
LEMMA FewerAddresses ==
    ASSUME NEW nets \in SUBSET Network, Apart(nets), NEW some \in SUBSET nets,
           NEW family \in {4, 6}
    PROVE  Cardinality(Addressed(some, family)) <= FamilyCount(nets, family)
<1>1. Addressed(some, family) \subseteq Addressed(nets, family)
  BY DEF Addressed, AllMembers
<1>2. /\ IsFiniteSet(Addressed(nets, family))
      /\ Cardinality(Addressed(nets, family)) = FamilyCount(nets, family)
  BY ApartCounted
<1> QED
  BY <1>1, <1>2, FS_Subset

-----------------------------------------------------------------------------
\* Where a network of a request comes from.
NamedIn(net, r) ==
    \/ net \in r.targets
    \/ /\ net \in UNION {{a[2] : a \in h.assigned[r.interface]} : h \in HostStates}
       /\ <<net[1], net[2], 0>> \in r.targets

\* What is typed stands for networks that the request names.
LEMMA ExpandedNamed ==
    ASSUME host \in HostStates, NEW r \in Request,
           NEW net \in ExpandConnected(r.targets, r.interface)
    PROVE  net \in Network /\ NamedIn(net, r)
<1>0. /\ host.assigned \in [Interfaces -> SUBSET (Address \X Network)]
      /\ r.interface \in Interfaces /\ r.targets \subseteq Network
  BY ScopeAssumption DEF Request
<1> DEFINE Connected(t) ==
      {a[2] : a \in {b \in host.assigned[r.interface] : <<b[2][1], b[2][2], 0>> = t}}
<1>1. PICK t \in r.targets :
         net = IF t[3] = 0 /\ Connected(t) # {} THEN CHOOSE c \in Connected(t) : TRUE ELSE t
  BY DEF ExpandConnected
<1>2. CASE net = t
  BY <1>0, <1>1, <1>2 DEF NamedIn
<1>3. CASE net # t
  <2>1. net \in Connected(t)
    BY <1>1, <1>3
  <2>2. PICK b \in host.assigned[r.interface] : net = b[2] /\ <<b[2][1], b[2][2], 0>> = t
    BY <2>1
  <2>3. net \in Network /\ <<net[1], net[2], 0>> \in r.targets
    BY <1>0, <1>1, <2>2
  <2>4. net \in {a[2] : a \in host.assigned[r.interface]}
    BY <2>2
  <2> QED
    BY <2>3, <2>4 DEF NamedIn
<1> QED
  BY <1>2, <1>3

\* Nothing is added when covered networks are left out and routes are looked up.
LEMMA RoutableNamed ==
    ASSUME host \in HostStates, NEW r \in Request,
           NEW net \in RemoveDuplicatesAndCovered(Resolve(RemoveDuplicatesAndCovered(
                          ExpandConnected(r.targets, r.interface)), r.interface))
    PROVE  net \in Network /\ NamedIn(net, r)
<1>1. net \in ExpandConnected(r.targets, r.interface)
  BY DEF RemoveDuplicatesAndCovered, Resolve
<1> QED
  BY <1>1, ExpandedNamed

\* What is typed passed ParseTarget and the limits, so what routes does not
\* overlap and is within the limits.
LEMMA RoutableApart ==
    ASSUME host \in HostStates, NEW r \in Request,
           NEW routable,
           routable = RemoveDuplicatesAndCovered(Resolve(RemoveDuplicatesAndCovered(
                    ExpandConnected(r.targets, r.interface)), r.interface)),
           ValidScope(ExpandConnected(r.targets, r.interface), r.profile)
    PROVE  /\ Apart(routable)
           /\ \A family \in {4, 6} :
                 Cardinality(Addressed(routable, family)) <= LimitOf(r.profile, family)
<1> DEFINE typed == ExpandConnected(r.targets, r.interface)
           canonical == RemoveDuplicatesAndCovered(typed)
<1>1. typed \in SUBSET Network
  BY ExpandedNamed
<1>2. \A net \in typed : ParseTarget(net)
  BY DEF ValidScope
<1>3. \A family \in {4, 6} : FamilyCount(canonical, family) <= LimitOf(r.profile, family)
  BY DEF ValidScope
<1>4. routable \subseteq canonical /\ canonical \subseteq typed
  BY DEF RemoveDuplicatesAndCovered, Resolve
<1> HIDE DEF typed
<1>5. Apart(canonical)
  BY <1>1, <1>2, CanonicalApart
<1> HIDE DEF canonical
<1>6. Apart(routable)
  BY <1>4, <1>5 DEF Apart
<1>7. ASSUME NEW family \in {4, 6}
      PROVE  Cardinality(Addressed(routable, family)) <= LimitOf(r.profile, family)
  <2>1. /\ Cardinality(Addressed(routable, family)) <= FamilyCount(canonical, family)
        /\ Cardinality(Addressed(routable, family)) \in Nat
        /\ FamilyCount(canonical, family) \in Nat
    <3>1. canonical \in SUBSET Network /\ routable \in SUBSET Network
      BY <1>1, <1>4
    <3>2. /\ IsFiniteSet(Addressed(canonical, family)) /\ IsFiniteSet(Addressed(routable, family))
          /\ Cardinality(Addressed(canonical, family)) = FamilyCount(canonical, family)
      BY <1>5, <1>6, <3>1, ApartCounted
    <3> QED
      BY <1>4, <1>5, <3>1, <3>2, FewerAddresses, FS_CardinalityType
  <2>2. LimitOf(r.profile, family) \in Nat
    BY ScopeAssumption DEF LimitOf, Request
  <2> QED
    BY <1>3, <2>1, <2>2
<1> QED
  BY <1>6, <1>7

\* A proposal is a request for networks of the interface or of a VLAN of it.
LEMMA ProposalRequest ==
    ASSUME host \in HostStates, NEW i \in Interfaces, NEW p \in Proposals(i),
           NEW profile \in Profiles
    PROVE  [interface |-> p.interface, targets |-> p.targets, profile |-> profile] \in Request
<1>0. /\ host.assigned \in [Interfaces -> SUBSET (Address \X Network)]
      /\ host.onlink \subseteq Interfaces \X Network
      /\ DOMAIN VlanParent \subseteq Interfaces
  BY ScopeAssumption
<1>1. \A k \in Interfaces : AssignedTo(k) \subseteq Network
  BY <1>0 DEF AssignedTo, EligibleNetworks
<1>2. EligibleNetworks({q[2] : q \in {s \in host.onlink : s[1] = i}}) \subseteq Network
  BY <1>0 DEF EligibleNetworks
<1>3. VlansOf(i) \subseteq Interfaces
  BY <1>0 DEF VlansOf
<1>4. p.interface \in Interfaces /\ p.targets \subseteq Network
  BY <1>1, <1>2, <1>3 DEF Proposals
<1> QED
  BY <1>4 DEF Request

\* The rows once a scope is confirmed: the old ones, and one for the snapshot.
LEMMA Confirmed ==
    ASSUME ScopeTyped, NEW snapshot \in ScopeRow, scopes' = ConfirmScope(snapshot)
    PROVE  /\ scopes' \in Seq(ScopeRow)
           /\ \A k \in DOMAIN scopes : k \in DOMAIN scopes' /\ scopes'[k] = scopes[k]
           /\ \A k \in DOMAIN scopes' : k \in DOMAIN scopes \/ scopes'[k] = snapshot
           /\ IdOf(snapshot, scopes') \in DOMAIN scopes'
<1>1. CASE Contains(scopes, snapshot)
  <2>1. scopes' = scopes
    BY <1>1 DEF ConfirmScope
  <2>2. \E k \in DOMAIN scopes : scopes[k] = snapshot
    BY <1>1 DEF Contains, ScopeTyped
  <2>3. IdOf(snapshot, scopes') \in DOMAIN scopes'
    BY <2>1, <2>2 DEF IdOf
  <2> QED
    BY <2>1, <2>3 DEF ScopeTyped
<1>2. CASE ~Contains(scopes, snapshot)
  <2>1. scopes' = Append(scopes, snapshot)
    BY <1>2 DEF ConfirmScope
  <2>2. scopes' \in Seq(ScopeRow) /\ Len(scopes') = Len(scopes) + 1
    BY <2>1 DEF ScopeTyped
  <2>3. \A k \in DOMAIN scopes : k \in DOMAIN scopes' /\ scopes'[k] = scopes[k]
    BY <2>1, <2>2 DEF ScopeTyped
  <2>4. \A k \in DOMAIN scopes' : k \in DOMAIN scopes \/ scopes'[k] = snapshot
    BY <2>1, <2>2 DEF ScopeTyped
  <2>5. \E k \in DOMAIN scopes' : scopes'[k] = snapshot
    <3>1. Len(scopes') \in DOMAIN scopes' /\ scopes'[Len(scopes')] = snapshot
      BY <2>1, <2>2 DEF ScopeTyped
    <3> QED
      BY <3>1
  <2>6. IdOf(snapshot, scopes') \in DOMAIN scopes'
    BY <2>5 DEF IdOf
  <2> QED
    BY <2>2, <2>3, <2>4, <2>6
<1> QED
  BY <1>1, <1>2

\* A discovery request keeps everything, and names what its scope holds.
LEMMA EnqueueStep ==
    ASSUME ScopeInv, NEW r \in Request, EnqueueDiscovery(r)
    PROVE  ScopeInv'
<1> DEFINE typed == ExpandConnected(r.targets, r.interface)
           canonical == RemoveDuplicatesAndCovered(typed)
           routable == RemoveDuplicatesAndCovered(Resolve(canonical, r.interface))
           snapshot == ScopeSnapshot(r.interface, r.profile, routable)
           job == JobRow("active_discovery", IdOf(snapshot, scopes'), NoTarget, r.profile)
<1>1. /\ scopes' = ConfirmScope(snapshot) /\ queue' = Append(queue, job)
      /\ asked' = asked \cup {r} /\ UNCHANGED <<host, open, probed>>
  BY DEF EnqueueDiscovery
<1>2. /\ ScopeTyped /\ JobsSound /\ ProbesRightful /\ ScopesNamed /\ ScopesApart
      /\ host \in HostStates
  BY DEF ScopeInv, ScopeTyped
<1>3. \A net \in routable : net \in Network /\ NamedIn(net, r)
  BY <1>2, RoutableNamed
<1> HIDE DEF routable
<1>4. /\ snapshot \in ScopeRow /\ snapshot.interface = r.interface
      /\ snapshot.profile = r.profile /\ snapshot.targets = routable
  BY <1>3 DEF ScopeSnapshot, ScopeRow, Request
<1> HIDE DEF snapshot
<1>5. /\ scopes' \in Seq(ScopeRow)
      /\ \A k \in DOMAIN scopes : k \in DOMAIN scopes' /\ scopes'[k] = scopes[k]
      /\ \A k \in DOMAIN scopes' : k \in DOMAIN scopes \/ scopes'[k] = snapshot
      /\ IdOf(snapshot, scopes') \in DOMAIN scopes'
  BY <1>1, <1>2, <1>4, Confirmed
<1>6. /\ job \in JobRecord /\ job.scope \in DOMAIN scopes' /\ job.live = {}
      /\ job.type = "active_discovery"
  BY <1>5 DEF JobRow, JobRecord, JobTypes, JobStates, Request
<1> HIDE DEF job
<1>7. queue' \in Seq(JobRecord) /\ JobsSound' /\ RowsKept
  BY <1>1, <1>2, <1>5, <1>6, JobAccepted
<1>8. ProbesRightful'
  BY <1>1, <1>2, <1>7, ProbesStay
<1>9. ScopesNamed'
  <2> SUFFICES ASSUME NEW k \in DOMAIN scopes' PROVE NamedByRequest(scopes[k])'
    BY DEF ScopesNamed, NamedByRequest
  <2>1. CASE k \in DOMAIN scopes
    <3>1. NamedByRequest(scopes[k]) /\ scopes'[k] = scopes[k]
      BY <1>2, <1>5, <2>1 DEF ScopesNamed
    <3> QED
      BY <1>1, <3>1 DEF NamedByRequest
  <2>2. CASE scopes'[k] = snapshot
    BY <1>1, <1>3, <1>4, <2>2 DEF NamedByRequest, NamedIn
  <2> QED
    BY <1>5, <2>1, <2>2
<1>10. ScopesApart'
  <2>1. /\ Apart(routable)
        /\ \A family \in {4, 6} :
              Cardinality(Addressed(routable, family)) <= LimitOf(r.profile, family)
    BY <1>2, RoutableApart DEF routable, EnqueueDiscovery
  <2>2. \A k \in DOMAIN scopes' : Apart(scopes'[k].targets) /\ WithinLimit(scopes'[k])
    BY <1>2, <1>4, <1>5, <2>1 DEF ScopesApart, WithinLimit
  <2> QED
    BY <2>2 DEF ScopesApart, Apart, Overlap, WithinLimit
<1> QED
  BY <1>1, <1>2, <1>5, <1>7, <1>8, <1>9, <1>10 DEF ScopeInv, ScopeTyped

\* Scopes stay named and apart while neither they nor the requests change.
LEMMA NamedStays ==
    ASSUME ScopesNamed, ScopesApart, UNCHANGED <<scopes, asked>>
    PROVE  ScopesNamed' /\ ScopesApart'
BY DEF ScopesNamed, NamedByRequest, ScopesApart, Apart, Overlap, WithinLimit

\* Members of a network are addresses of its family.
LEMMA MembersShape ==
    ASSUME NEW nets \in SUBSET Network
    PROVE  AllMembers(nets) \subseteq {4, 6} \X Int
BY DEF AllMembers, Members, Network

\* What a job of the queue is.
LEMMA JobShape ==
    ASSUME ScopeInv, NEW j \in DOMAIN queue
    PROVE  /\ queue[j] \in JobRecord /\ JobSound(queue[j])
           /\ scopes[queue[j].scope] \in ScopeRow
<1>1. queue[j] \in JobRecord /\ JobSound(queue[j])
  BY DEF ScopeInv, ScopeTyped, JobsSound
<1> QED
  BY <1>1 DEF ScopeInv, ScopeTyped, JobSound

\* A job that changes its state and its live hosts, and sends packets to
\* addresses it may send them to.
LEMMA ProbingStep ==
    ASSUME ScopeInv, NEW j \in DOMAIN queue, NEW s \in JobStates,
           NEW live \in SUBSET AllMembers(scopes[queue[j].scope].targets),
           queue' = [queue EXCEPT ![j] = [queue[j] EXCEPT !.state = s, !.live = live]],
           UNCHANGED <<host, scopes, asked>>, open' \subseteq Machines,
           NEW addresses, Probe(j, addresses),
           \A a \in addresses :
              IF queue[j].type = "protocol_audit"
                THEN \E k \in DOMAIN scopes : InScope(a, k)
              ELSE /\ InScope(a, queue[j].scope)
                   /\ queue[j].type = "topology" =>
                         scopes[queue[j].scope].interface \in Via(a)
    PROVE  ScopeInv'
<1>0. ScopeTyped /\ JobsSound /\ ProbesRightful /\ ScopesNamed /\ ScopesApart
  BY DEF ScopeInv
<1>1. live \subseteq {4, 6} \X Int
  BY JobShape, MembersShape DEF ScopeRow
<1>2. queue' \in Seq(JobRecord) /\ JobsSound' /\ RowsKept
  BY <1>0, <1>1, JobStep
<1>3. ASSUME NEW a \in addresses
      PROVE  StillRightful([job |-> j, address |-> a, via |-> Via(a)])
  <2> DEFINE p == [job |-> j, address |-> a, via |-> Via(a)]
  <2>1. p.job = j /\ p.address = a /\ p.via = Via(a)
    OBVIOUS
  <2> HIDE DEF p
  <2>2. Rightful(p)
    BY <2>1 DEF Rightful
  <2>3. StillRightful(p)
    BY <1>0, <1>2, <2>2, RightfulStays
  <2> QED
    BY <2>3 DEF p
<1>4. ProbesRightful'
  BY <1>0, <1>2, <1>3, ProbesAfter
<1>5. ScopesNamed' /\ ScopesApart'
  BY <1>0, NamedStays
<1> QED
  BY <1>0, <1>2, <1>4, <1>5 DEF ScopeInv, ScopeTyped

\* Host discovery probes the addresses of the scope.
LEMMA DiscoverStep ==
    ASSUME ScopeInv, NEW j \in DOMAIN queue, DiscoverHosts(j)
    PROVE  ScopeInv'
<1> DEFINE targets == scopes[queue[j].scope].targets
           reached == Reached(AllMembers(targets), targets)
<1>1. reached \subseteq AllMembers(targets)
  BY DEF Reached
<1>2. queue[j] \in JobRecord
  BY JobShape
<1>3. PICK live \in SUBSET {a \in Machines : \E x \in Range(a.addresses) : x \in reached},
           s \in JobStates :
         queue' = [queue EXCEPT ![j].state = s,
                                ![j].live = UNION {Range(a.addresses) \cap reached : a \in live}]
  BY DEF DiscoverHosts, JobStates, ScanPhases
<1> DEFINE found == UNION {Range(a.addresses) \cap reached : a \in live}
<1>4. found \subseteq AllMembers(targets)
  BY <1>1
<1>5. queue' = [queue EXCEPT ![j] = [queue[j] EXCEPT !.state = s, !.live = found]]
  BY <1>2, <1>3 DEF ScopeInv, ScopeTyped, JobRecord
<1>6. /\ queue[j].type = "active_discovery" /\ Probe(j, reached)
      /\ UNCHANGED <<host, scopes, asked, open>>
  BY DEF DiscoverHosts
<1>7. \A a \in reached : InScope(a, queue[j].scope)
  BY <1>1 DEF InScope
<1> HIDE DEF targets, reached, found
<1>8. open' \subseteq Machines
  BY <1>6 DEF ScopeInv, ScopeTyped
<1>9. found \in SUBSET AllMembers(scopes[queue[j].scope].targets)
  BY <1>4 DEF targets
<1> QED
  BY <1>5, <1>6, <1>7, <1>8, <1>9, ProbingStep

\* The later scans of a discovery probe the hosts that answered.
LEMMA ScanStep ==
    ASSUME ScopeInv, NEW j \in DOMAIN queue,
           \/ TcpScan(j) \/ TcpSweep(j) \/ TcpFingerprint(j) \/ UdpScan(j)
    PROVE  ScopeInv'
<1>0. /\ queue[j] \in JobRecord
      /\ queue[j].live \subseteq AllMembers(scopes[queue[j].scope].targets)
  BY JobShape DEF JobSound
<1>1. AfterTcp \in JobStates
  BY DEF AfterTcp, JobStates, ScanPhases
<1>2. /\ queue[j].type = "active_discovery" /\ Probe(j, queue[j].live)
      /\ UNCHANGED <<host, scopes, asked>>
  BY DEF TcpScan, TcpSweep, TcpFingerprint, UdpScan, ScanLive
<1>3. open' \subseteq Machines
  BY DEF TcpScan, TcpSweep, TcpFingerprint, UdpScan, OpenFound, Answering, ScopeInv,
         ScopeTyped
<1>4. \E s \in JobStates, live \in SUBSET queue[j].live :
         queue' = [queue EXCEPT ![j] = [queue[j] EXCEPT !.state = s, !.live = live]]
  <2>1. ASSUME NEW s \in JobStates, Become(j, s)
        PROVE  queue' = [queue EXCEPT ![j] = [queue[j] EXCEPT !.state = s,
                                                               !.live = queue[j].live]]
    BY <1>0, <2>1 DEF Become, ScopeInv, ScopeTyped, JobRecord
  <2>2. CASE \E s \in JobStates : Become(j, s)
    BY <2>1, <2>2
  <2>3. CASE TcpSweep(j)
    <3>1. PICK found \in SUBSET Answering(j) :
             queue' = [queue EXCEPT
                          ![j].state = IF found = {} THEN AfterTcp ELSE "fingerprint",
                          ![j].live = IF found = {} THEN @
                                      ELSE @ \cap UNION {Range(a.addresses) : a \in found}]
      BY <2>3 DEF TcpSweep
    <3> DEFINE s == IF found = {} THEN AfterTcp ELSE "fingerprint"
               live == IF found = {} THEN queue[j].live
                       ELSE queue[j].live \cap UNION {Range(a.addresses) : a \in found}
    <3>2. s \in JobStates /\ live \in SUBSET queue[j].live
      BY <1>1 DEF JobStates, ScanPhases
    <3>3. queue' = [queue EXCEPT ![j] = [queue[j] EXCEPT !.state = s, !.live = live]]
      BY <1>0, <3>1 DEF ScopeInv, ScopeTyped, JobRecord
    <3> HIDE DEF s, live
    <3> QED
      BY <3>2, <3>3
  <2>4. TcpScan(j) \/ TcpFingerprint(j) \/ UdpScan(j) => \E s \in JobStates : Become(j, s)
    BY <1>1 DEF TcpScan, TcpFingerprint, UdpScan, ScanLive, JobStates
  <2> QED
    BY <2>2, <2>3, <2>4
<1>5. PICK s \in JobStates, live \in SUBSET queue[j].live :
         queue' = [queue EXCEPT ![j] = [queue[j] EXCEPT !.state = s, !.live = live]]
  BY <1>4
<1>6. live \in SUBSET AllMembers(scopes[queue[j].scope].targets)
  BY <1>0
<1>7. \A a \in queue[j].live : InScope(a, queue[j].scope)
  BY <1>0 DEF InScope
<1> QED
  BY <1>2, <1>3, <1>5, <1>6, <1>7, ProbingStep

\* A job that ends keeps what it has found.
LEMMA DoneJob ==
    ASSUME ScopeInv, NEW j \in DOMAIN queue, NEW s \in JobStates, Become(j, s)
    PROVE  /\ queue' = [queue EXCEPT ![j] = [queue[j] EXCEPT !.state = s,
                                                              !.live = queue[j].live]]
           /\ queue[j].live \in SUBSET AllMembers(scopes[queue[j].scope].targets)
<1>1. /\ queue[j] \in JobRecord
      /\ queue[j].live \subseteq AllMembers(scopes[queue[j].scope].targets)
  BY JobShape DEF JobSound
<1> QED
  BY <1>1 DEF Become, ScopeInv, ScopeTyped, JobRecord

\* A protocol audit probes addresses of the scope that is the latest now.
LEMMA AuditStep ==
    ASSUME ScopeInv, NEW j \in DOMAIN queue, AuditProtocols(j)
    PROVE  ScopeInv'
<1> DEFINE addresses == UNION {SelectProbeAddress(a, LatestScope) : a \in open}
<1>1. /\ queue[j].type = "protocol_audit" /\ Become(j, "done") /\ Probe(j, addresses)
      /\ UNCHANGED <<host, scopes, asked, open>>
  BY DEF AuditProtocols
<1>2. LatestScope \in DOMAIN scopes
  <2>1. scopes \in Seq(ScopeRow) /\ queue[j].scope \in DOMAIN scopes
    BY JobShape DEF ScopeInv, ScopeTyped, JobSound
  <2> QED
    BY <2>1 DEF LatestScope
<1>3. ASSUME NEW a \in addresses PROVE InScope(a, LatestScope)
  <2>1. PICK m \in open : a \in SelectProbeAddress(m, LatestScope)
    BY <1>3
  <2> QED
    BY <2>1 DEF SelectProbeAddress
<1> HIDE DEF addresses
<1>4. "done" \in JobStates
  BY DEF JobStates
<1>5. open' \subseteq Machines
  BY <1>1 DEF ScopeInv, ScopeTyped
<1>6. /\ queue' = [queue EXCEPT ![j] = [queue[j] EXCEPT !.state = "done",
                                                        !.live = queue[j].live]]
      /\ queue[j].live \in SUBSET AllMembers(scopes[queue[j].scope].targets)
  BY <1>1, <1>4, DoneJob
<1>7. \A a \in addresses : \E k \in DOMAIN scopes : InScope(a, k)
  BY <1>2, <1>3
<1> QED
  BY <1>1, <1>4, <1>5, <1>6, <1>7, ProbingStep

\* The route to the target of a topology job leads through the interface.
LEMMA TargetVia ==
    ASSUME host \in HostStates, NEW i \in Interfaces, NEW a \in Address,
           Resolve({<<a[1], a[2], 0>>}, i) # {}
    PROVE  i \in Via(a)
<1>0. a = <<a[1], a[2]>>
  BY DEF Address
<1>1. ResolveTarget(<<a[1], a[2], 0>>, i)
  BY DEF Resolve
<1>2. Representative(<<a[1], a[2], 0>>, i) = a
  BY <1>0 DEF Representative
<1>3. host.dev[a] = i \/ (host.dev[a] = "lo" /\ Belongs(a, i))
  BY <1>1, <1>2 DEF ResolveTarget
<1> QED
  BY <1>3, ScopeAssumption DEF Via

\* A topology job probes its target.
LEMMA TopologyStep ==
    ASSUME ScopeInv, NEW j \in DOMAIN queue, Topology(j)
    PROVE  ScopeInv'
<1>1. /\ queue[j].type = "topology" /\ Become(j, "done") /\ Probe(j, {queue[j].target})
      /\ UNCHANGED <<host, scopes, asked, open>> /\ TopologyChecked(j)
  BY DEF Topology
<1>2. queue[j].target \in Address /\ scopes[queue[j].scope].interface \in Interfaces
  BY <1>1, JobShape DEF JobSound, ScopeRow
<1>3. scopes[queue[j].scope].interface \in Via(queue[j].target)
  BY <1>1, <1>2, TargetVia DEF TopologyChecked, ScopeInv, ScopeTyped
<1>4. InScope(queue[j].target, queue[j].scope)
  BY <1>1 DEF TopologyChecked
<1>5. "done" \in JobStates
  BY DEF JobStates
<1>6. open' \subseteq Machines
  BY <1>1 DEF ScopeInv, ScopeTyped
<1>7. /\ queue' = [queue EXCEPT ![j] = [queue[j] EXCEPT !.state = "done",
                                                        !.live = queue[j].live]]
      /\ queue[j].live \in SUBSET AllMembers(scopes[queue[j].scope].targets)
  BY <1>1, <1>5, DoneJob
<1>8. PICK addresses : addresses = {queue[j].target}
  OBVIOUS
<1>9. /\ Probe(j, addresses) /\ UNCHANGED <<host, scopes, asked>>
      /\ \A a \in addresses : /\ InScope(a, queue[j].scope)
                               /\ scopes[queue[j].scope].interface \in Via(a)
  BY <1>1, <1>3, <1>4, <1>8
<1>10. queue[j].type = "topology"
  BY <1>1
<1> QED
  BY <1>5, <1>6, <1>7, <1>9, <1>10, ProbingStep

\* Jobs that are accepted on a scope that exists.
LEMMA AcceptStep ==
    ASSUME ScopeInv, NEW job \in JobRecord, queue' = Append(queue, job),
           job.scope = LatestScope, job.live = {},
           job.type = "topology" => job.target \in Address,
           scopes # <<>>, UNCHANGED <<host, scopes, asked, open, probed>>
    PROVE  ScopeInv'
<1>0. ScopeTyped /\ JobsSound /\ ProbesRightful /\ ScopesNamed /\ ScopesApart
  BY DEF ScopeInv
<1>1. job.scope \in DOMAIN scopes
  BY <1>0 DEF LatestScope, ScopeTyped
<1>2. queue' \in Seq(JobRecord) /\ JobsSound' /\ RowsKept
  BY <1>0, <1>1, JobAccepted DEF ScopeTyped
<1> QED
  BY <1>0, <1>2, ProbesStay, NamedStays DEF ScopeInv, ScopeTyped

\* A job that fails, and a host that changes, send nothing.
LEMMA QuietStep ==
    ASSUME ScopeInv, NEW h \in HostStates,
           \/ \E j \in DOMAIN queue : JobEnds(j)
           \/ HostChanges(h) \/ UNCHANGED scopeVars
    PROVE  ScopeInv'
<1>0. ScopeTyped /\ JobsSound /\ ProbesRightful /\ ScopesNamed /\ ScopesApart
  BY DEF ScopeInv
<1>1. UNCHANGED <<scopes, asked, open, probed>> /\ host' \in HostStates
  BY <1>0 DEF JobEnds, HostChanges, scopeVars, ScopeTyped
<1>2. queue' \in Seq(JobRecord) /\ JobsSound' /\ RowsKept
  <2>1. ASSUME NEW j \in DOMAIN queue, JobEnds(j)
        PROVE  queue' \in Seq(JobRecord) /\ JobsSound' /\ RowsKept
    <3>1. "failed" \in JobStates /\ Become(j, "failed")
      BY <2>1 DEF JobEnds, JobStates
    <3>2. queue[j].live \subseteq {4, 6} \X Int
      BY JobShape DEF JobRecord
    <3> QED
      BY <1>0, <1>1, <3>1, <3>2, DoneJob, JobStep
  <2>2. CASE UNCHANGED queue
    <3>1. JobsSound'
      BY <1>0, <1>1, <2>2 DEF JobsSound, JobSound
    <3> QED
      BY <1>0, <1>1, <2>2, <3>1 DEF ScopeTyped, RowsKept
  <2> QED
    BY <2>1, <2>2 DEF HostChanges, scopeVars
<1> QED
  BY <1>0, <1>1, <1>2, ProbesStay, NamedStays DEF ScopeInv, ScopeTyped

\* Every step of operators, jobs and the host keeps the invariant.
LEMMA ScopeStep ==
    ASSUME ScopeInv, [ScopeNext]_scopeVars
    PROVE  ScopeInv'
<1>1. ASSUME NEW r \in ScopeRequests, EnqueueDiscovery(r) PROVE ScopeInv'
  BY <1>1, EnqueueStep, ScopeAssumption
<1>2. ASSUME NEW i \in Interfaces, NEW profile \in Profiles, AcceptProposal(i, profile)
      PROVE  ScopeInv'
  <2>1. PICK p \in Proposals(i) :
           EnqueueDiscovery([interface |-> p.interface, targets |-> p.targets,
                             profile |-> profile])
    BY <1>2 DEF AcceptProposal
  <2>2. [interface |-> p.interface, targets |-> p.targets, profile |-> profile] \in Request
    BY ProposalRequest DEF ScopeInv, ScopeTyped
  <2> QED
    BY <2>1, <2>2, EnqueueStep
<1>3. ASSUME EnqueueProtocolAudit PROVE ScopeInv'
  <2> DEFINE job == JobRow("protocol_audit", LatestScope, NoTarget, "none")
  <2>1. /\ job \in JobRecord /\ job.scope = LatestScope /\ job.live = {}
        /\ job.type = "protocol_audit"
    BY DEF JobRow, JobRecord, JobTypes, JobStates, LatestScope, ScopeInv, ScopeTyped
  <2>2. queue' = Append(queue, job)
    BY <1>3 DEF EnqueueProtocolAudit
  <2> HIDE DEF job
  <2> QED
    BY <1>3, <2>1, <2>2, AcceptStep DEF EnqueueProtocolAudit
<1>4. ASSUME NEW a \in UNION {Range(m.addresses) : m \in Machines}, EnqueueTopology(a)
      PROVE  ScopeInv'
  <2>1. a \in Address
    BY ScopeAssumption DEF AssetRecord, Range
  <2> DEFINE job == JobRow("topology", LatestScope, a, "none")
  <2>2. /\ job \in JobRecord /\ job.scope = LatestScope /\ job.live = {}
        /\ job.target = a
    BY <2>1 DEF JobRow, JobRecord, JobTypes, JobStates, LatestScope, ScopeInv, ScopeTyped
  <2>3. queue' = Append(queue, job)
    BY <1>4 DEF EnqueueTopology
  <2> HIDE DEF job
  <2> QED
    BY <1>4, <2>1, <2>2, <2>3, AcceptStep DEF EnqueueTopology
<1>5. ASSUME NEW j \in DOMAIN queue,
             \/ DiscoverHosts(j)
             \/ TcpScan(j) \/ TcpSweep(j) \/ TcpFingerprint(j) \/ UdpScan(j)
             \/ AuditProtocols(j) \/ Topology(j)
      PROVE  ScopeInv'
  BY <1>5, DiscoverStep, ScanStep, AuditStep, TopologyStep
<1>6. host \in HostStates
  BY DEF ScopeInv, ScopeTyped
<1>7. ASSUME NEW h \in HostStates, HostChanges(h) PROVE ScopeInv'
  BY <1>7, QuietStep
<1>8. CASE UNCHANGED scopeVars
  BY <1>6, <1>8, QuietStep
<1>9. ASSUME NEW j \in DOMAIN queue, JobEnds(j) PROVE ScopeInv'
  BY <1>6, <1>9, QuietStep
<1> QED
  BY <1>1, <1>2, <1>3, <1>4, <1>5, <1>7, <1>8, <1>9 DEF ScopeNext

\* The invariant holds from the start.
LEMMA ScopeAlways == ScopeSpec => []ScopeInv
<1>1. ScopeInit => ScopeInv
  <2> SUFFICES ASSUME ScopeInit PROVE ScopeInv
    OBVIOUS
  <2>1. ScopeTyped
    BY DEF ScopeInit, ScopeTyped
  <2>2. JobsSound /\ ProbesRightful /\ ScopesNamed /\ ScopesApart
    BY DEF ScopeInit, JobsSound, ProbesRightful, ScopesNamed, ScopesApart
  <2> QED
    BY <2>1, <2>2 DEF ScopeInv
<1>2. ScopeInv /\ [ScopeNext]_scopeVars => ScopeInv'
  BY ScopeStep
<1> QED
  BY <1>1, <1>2, PTL DEF ScopeSpec

\* Hosts, rows of scopes and jobs stay within their types.
THEOREM ScopesTyped == ScopeSpec => []ScopeTypeOK
<1>1. ScopeInv => ScopeTypeOK
  <2> SUFFICES ASSUME ScopeInv PROVE ScopeTypeOK
    OBVIOUS
  <2>1. \A j \in DOMAIN queue : /\ queue[j].scope \in DOMAIN scopes
                                /\ queue[j].state \in JobStates
    BY JobShape DEF JobSound, JobRecord
  <2>2. \A k \in DOMAIN scopes : /\ scopes[k].targets \in SUBSET Network
                                 /\ scopes[k].profile \in Profiles
    <3>1. \A k \in DOMAIN scopes : scopes[k] \in ScopeRow
      BY DEF ScopeInv, ScopeTyped
    <3> QED
      BY <3>1 DEF ScopeRow
  <2>3. host \in HostStates /\ open \subseteq Machines
    BY DEF ScopeInv, ScopeTyped
  <2> QED
    BY <2>1, <2>2, <2>3 DEF ScopeTypeOK, JobStates
<1> QED
  BY <1>1, ScopeAlways, PTL

\* Packets go to confirmed scope only: discovery and topology jobs to the scope
\* they were accepted with, protocol audits to a scope of the audit, whatever
\* is asked and however links and routes change meanwhile.
THEOREM ProbesStayInScope == ScopeSpec => []ProbesInScope
<1>1. ScopeInv => ProbesInScope
  BY DEF ScopeInv, ProbesRightful, Rightful, ProbesInScope
<1> QED
  BY <1>1, ScopeAlways, PTL

\* A confirmed scope (confirm_scope, after validate of engine/scope.py) counts no
\* address twice, has no more addresses of a family than the limit of its
\* profile, and holds only networks that an accepted request for its interface
\* and profile named, themselves or by their identifier.
THEOREM ScopesAreExact == ScopeSpec => []ScopeExact
<1>1. ASSUME ScopeInv PROVE ScopeExact
  <2> SUFFICES ASSUME NEW k \in DOMAIN scopes
               PROVE  CountedOnce(scopes[k]) /\ WithinLimit(scopes[k])
                        /\ NamedByRequest(scopes[k])
    BY DEF ScopeExact
  <2>0. scopes[k] \in ScopeRow
    BY <1>1 DEF ScopeInv, ScopeTyped
  <2>1. /\ NamedByRequest(scopes[k]) /\ WithinLimit(scopes[k])
        /\ Apart(scopes[k].targets) /\ scopes[k].targets \in SUBSET Network
    BY <1>1, <2>0 DEF ScopeInv, ScopesNamed, ScopesApart, ScopeRow
  <2>2. CountedOnce(scopes[k])
    BY <2>1, ApartCounted DEF CountedOnce
  <2> QED
    BY <2>1, <2>2
<1>2. ScopeInv => ScopeExact
  BY <1>1
<1> QED
  BY <1>2, ScopeAlways, PTL

-----------------------------------------------------------------------------
(* Handlers.                                                               *)

HandlerTyped ==
    /\ plan \in Plans /\ at \in Nat \ {0}
    /\ child \in {"none", "running", "exited", "broken", "doomed"}
    /\ runner \in {"idle", "poll", "cancelled", "timeout"}
    /\ late \in BOOLEAN /\ token \in BOOLEAN /\ owned \in BOOLEAN
    /\ guarded \in BOOLEAN /\ stopped \in BOOLEAN
    /\ percent \in 0 .. 100
    /\ workdir \in {"none", "empty", "pcap"}
    /\ ending \in {"none", "returned", "cancelled", "failed", "raised"}

\* While execute runs, it has a tool only where it waits for it.
Attended == Running /\ (runner # "idle" \/ child # "none") => AtStep("run")

\* No report to come is lower than the percentage of the job.
Rising(s) == \A i \in Reports(s) : i >= at => percent <= s[i].pct

\* What the rows to come name is stored or will be, before them.
Supplied(s) ==
    \A i \in DOMAIN s : i >= at /\ s[i].op = "rows" =>
        \A a \in s[i].what : \/ a \in stored
                             \/ \E j \in Puts(s, a) : at <= j /\ j < i /\ ~Skipped(s, j, i)

\* Captured traffic is in the directory only where the discipline guards it.
Orderly == ending \in {"returned", "cancelled", "failed"}
Guarded(s) ==
    /\ Running /\ workdir = "pcap" => at \in Holding(s) \cup Capturing(s)
    /\ Orderly => workdir # "pcap"

\* A stopped capture is stored or will be before execute returns.
Capture == {"packet_capture", "packet_capture_result"}
StopKept(s) ==
    stopped => /\ \A i \in at .. Len(s) : s[i].op \in {"progress", "store", "finally"}
               /\ \A a \in Capture : a \in stored \/ \E j \in Puts(s, a) : j >= at
               /\ Orderly => ending = "cancelled" /\ Capture \subseteq stored

HandlerInv ==
    /\ HandlerTyped /\ Attended /\ ToolStopped /\ rows \subseteq stored
    /\ Rising(Program[plan]) /\ Supplied(Program[plan])
    /\ Guarded(Program[plan]) /\ StopKept(Program[plan])

\* The discipline of the plan that is executed.
LEMMA PlanDiscipline ==
  ASSUME plan \in Plans
  PROVE  /\ WellFormed(Program[plan]) /\ ReportsRise(Program[plan]) /\ PutsFirst(Program[plan])
         /\ CaptureHeld(Program[plan]) /\ RecordingKept(Program[plan])
BY PlansAssumption

\* Where captured traffic may be and no finally clause is passed, it still may be.
LEMMA HoldingOn ==
  ASSUME NEW s, WellFormed(s), NEW i \in Holding(s) \cup Capturing(s), i \in DOMAIN s,
         s[i].op # "finally"
  PROVE  i + 1 \in Holding(s)
<1>1. i \in Nat /\ i + 1 \in 1 .. (Len(s) + 1)
  BY DEF WellFormed
<1>2. CASE i \in Capturing(s)
  <2>1. i < i + 1 /\ \A j \in (i + 1) .. (i + 1 - 1) : s[j].op # "finally"
    BY <1>1
  <2> QED BY <1>1, <1>2, <2>1 DEF Holding
<1>3. CASE i \in Holding(s)
  <2>1. PICK k \in Capturing(s) : k < i /\ \A j \in (k + 1) .. (i - 1) : s[j].op # "finally"
    BY <1>3 DEF Holding
  <2>2. k \in Nat
    BY DEF Capturing, Tools, WellFormed
  <2>3. k < i + 1 /\ \A j \in (k + 1) .. (i + 1 - 1) : s[j].op # "finally"
    <3>1. ASSUME NEW j \in (k + 1) .. (i + 1 - 1) PROVE s[j].op # "finally"
      <4>1. j = i \/ j \in (k + 1) .. (i - 1)
        BY <1>1, <2>2
      <4> QED BY <2>1, <4>1
    <3> QED BY <1>1, <2>1, <2>2, <3>1
  <2> QED BY <1>1, <2>3 DEF Holding
<1> QED BY <1>2, <1>3

\* A captured file is nowhere but where the discipline expects it, and a stopped
\* capture only goes on to its artifacts.
LEMMA WherePcapIs ==
  ASSUME HandlerInv, Running, workdir = "pcap"
  PROVE  /\ at \in DOMAIN Program[plan]
         /\ \/ Program[plan][at].op \in {"progress", "try", "store", "discard", "finally"}
            \/ Program[plan][at].op = "run" /\ Program[plan][at].then \in {"record", "capture", "decode"}
<1>1. at \in Holding(Program[plan]) \cup Capturing(Program[plan])
  BY DEF HandlerInv, Guarded
<1>2. CaptureHeld(Program[plan])
  BY PlanDiscipline DEF HandlerInv, HandlerTyped
<1> QED BY <1>1, <1>2 DEF CaptureHeld, Capturing, Tools

LEMMA WhereStopIs ==
  ASSUME HandlerInv, stopped, at \in DOMAIN Program[plan]
  PROVE  Program[plan][at].op \in {"progress", "store", "finally"}
<1>1. WellFormed(Program[plan]) /\ at \in at .. Len(Program[plan])
  BY PlanDiscipline DEF HandlerInv, HandlerTyped, WellFormed
<1> QED BY <1>1 DEF HandlerInv, StopKept

\* execute ends: its tool is stopped, an orderly end leaves no captured traffic,
\* and that of a stopped capture is its cancellation with all stored.
LEMMA EndStep ==
  ASSUME HandlerInv, NEW e \in {"returned", "cancelled", "failed", "raised"},
         NEW d \in {"none", "empty", "pcap"}, EndWith(e, d), percent' = percent,
         child' \in {"none", "doomed"}, runner' \in {"idle", "poll", "cancelled", "timeout"},
         e # "raised" => d # "pcap",
         e # "raised" /\ stopped => e = "cancelled" /\ Capture \subseteq stored
  PROVE  HandlerInv'
<1>1. PICK s : s = Program[plan] /\ s = Program[plan]'
  BY DEF EndWith, Program
<1>2. HandlerTyped'
  BY DEF HandlerInv, HandlerTyped, EndWith
<1>3. Attended' /\ ToolStopped' /\ (rows \subseteq stored)'
  BY DEF HandlerInv, Attended, ToolStopped, Running, EndWith
<1>4. Rising(s) /\ Supplied(s) /\ StopKept(s)
  BY <1>1 DEF HandlerInv
<1>5. Rising(s)'
  BY <1>4 DEF Rising, EndWith, Reports
<1>6. Supplied(s)'
  BY <1>4 DEF Supplied, EndWith, Puts, Skipped, Tools
<1>7. Guarded(s)'
  BY DEF Guarded, EndWith, Running, Orderly
<1>8. StopKept(s)'
  BY <1>4 DEF StopKept, EndWith, Orderly, Puts
<1> QED BY <1>1, <1>2, <1>3, <1>5, <1>6, <1>7, <1>8 DEF HandlerInv

\* Going on past the steps before n, none of which puts what later rows name
\* unless it is stored or skipped with them, keeps the rows supplied.
LEMMA SuppliedOn ==
  ASSUME NEW s, WellFormed(s), Supplied(s), at \in Nat, at' \in Nat, at < at', stored \subseteq stored',
         \A a : \A j \in Puts(s, a) : at <= j /\ j < at' =>
             a \in stored' \/ \A i \in DOMAIN s : i >= at' => Skipped(s, j, i)
  PROVE  Supplied(s)'
<1> SUFFICES ASSUME NEW i \in DOMAIN s, i >= at', s[i].op = "rows", NEW a \in s[i].what, a \notin stored'
             PROVE  \E j \in Puts(s, a) : at' <= j /\ j < i /\ ~Skipped(s, j, i)
  BY DEF Supplied, Puts, Skipped, Tools
<1>1. i \in Nat /\ i >= at
  BY DEF WellFormed
<1>2. PICK j \in Puts(s, a) : at <= j /\ j < i /\ ~Skipped(s, j, i)
  BY <1>1 DEF Supplied
<1>3. j \in Nat
  BY DEF Puts, WellFormed
<1>4. ~(j < at')
  BY <1>2
<1> QED BY <1>2, <1>3, <1>4

\* A stopped capture goes on to its next step.
LEMMA StopOn ==
  ASSUME NEW s, WellFormed(s), StopKept(s), at \in Nat, at' = at + 1, stopped' = stopped, Running, ending' = ending,
         stored \subseteq stored', \A a : at \in Puts(s, a) => a \in stored'
  PROVE  StopKept(s)'
<1> SUFFICES ASSUME stopped PROVE StopKept(s)'
  BY DEF StopKept
<1>1. ASSUME NEW i \in at' .. Len(s) PROVE s[i].op \in {"progress", "store", "finally"}
  <2>1. i \in at .. Len(s)
    BY DEF WellFormed
  <2> QED BY <2>1 DEF StopKept
<1>2. ASSUME NEW a \in Capture PROVE a \in stored' \/ \E j \in Puts(s, a) : j >= at'
  <2>1. a \in stored \/ \E j \in Puts(s, a) : j >= at
    BY DEF StopKept
  <2>2. ASSUME NEW j \in Puts(s, a), j >= at PROVE a \in stored' \/ j >= at'
    <3>1. j \in Nat
      BY DEF Puts, WellFormed
    <3> QED BY <2>2, <3>1
  <2> QED BY <2>1, <2>2
<1>3. ~Orderly'
  BY DEF Running, Orderly
<1> QED BY <1>1, <1>2, <1>3 DEF StopKept, Puts, Capture

\* A step of the handler that is no tool and raises nothing.
LEMMA OnwardStep ==
  ASSUME HandlerInv, NEW op, AtStep(op), op # "run", Onward,
         percent' \in 0 .. 100, percent' # percent => op \in {"progress", "live"} /\ percent' = Step.pct,
         guarded' \in BOOLEAN, stopped' = stopped,
         workdir' \in {"none", "empty", "pcap"},
         workdir' = "pcap" => workdir = "pcap" /\ op # "finally",
         stored' = stored \/ (op = "store" /\ stored' = stored \cup {Step.what}),
         op = "store" => Step.what \in stored',
         rows' = rows \/ (op = "rows" /\ rows' = rows \cup Step.what)
  PROVE  HandlerInv'
<1>1. PICK s : s = Program[plan] /\ s = Program[plan]'
  BY DEF Onward, JumpTo, Program
<1>2. WellFormed(s) /\ ReportsRise(s)
  BY <1>1, PlanDiscipline DEF HandlerInv, HandlerTyped
<1>3. at \in DOMAIN s /\ s[at].op = op /\ Step = s[at] /\ at \in Nat /\ at' = at + 1
  BY <1>1, <1>2 DEF AtStep, Step, HandlerInv, HandlerTyped, WellFormed, Onward, JumpTo
<1>4. child = "none" /\ runner = "idle" /\ Running
  BY <1>1, <1>3 DEF HandlerInv, Attended, AtStep
<1>5. HandlerTyped'
  BY <1>3 DEF HandlerInv, HandlerTyped, Onward, JumpTo
<1>6. Attended' /\ ToolStopped'
  BY <1>4 DEF Attended, ToolStopped, Onward, JumpTo
<1>7. Rising(s)'
  <2>1. ASSUME NEW i \in Reports(s), i >= at + 1 PROVE percent' <= s[i].pct
    <3>1. i \in Nat /\ i >= at /\ at <= i
      BY <1>2, <1>3, <2>1 DEF Reports, WellFormed
    <3>2. CASE percent' = percent
      BY <1>1, <2>1, <3>1, <3>2 DEF HandlerInv, Rising
    <3>3. CASE percent' # percent
      BY <1>2, <1>3, <3>1, <3>3 DEF ReportsRise, Reports
    <3> QED BY <3>2, <3>3
  <2> QED BY <1>3, <2>1 DEF Rising, Reports
<1>8. \A a : at \in Puts(s, a) => a \in stored'
  BY <1>3 DEF Puts
<1>9. stored \subseteq stored'
  OBVIOUS
<1>10. Supplied(s)'
  <2>1. ASSUME NEW a, NEW j \in Puts(s, a), at <= j, j < at' PROVE a \in stored'
    <3>1. j \in Nat
      BY <1>2 DEF Puts, WellFormed
    <3>2. j = at
      BY <1>3, <2>1, <3>1
    <3> QED BY <1>8, <3>2
  <2>2. Supplied(s)
    BY <1>1 DEF HandlerInv
  <2> QED BY <1>2, <1>3, <1>9, <2>1, <2>2, SuppliedOn
<1>11. Guarded(s)'
  <2>1. ~Orderly'
    BY <1>4 DEF Orderly, Running, Onward, JumpTo
  <2>2. ASSUME workdir' = "pcap" PROVE at' \in Holding(s)
    <3>1. at \in Holding(s) \cup Capturing(s)
      BY <1>1, <1>4, <2>2 DEF HandlerInv, Guarded
    <3> QED BY <1>2, <1>3, <2>2, <3>1, HoldingOn
  <2> QED BY <2>1, <2>2 DEF Guarded, Holding, Capturing, Tools
<1>12. StopKept(s)'
  <2>1. StopKept(s) /\ ending' = ending
    BY <1>1 DEF HandlerInv, Onward, JumpTo
  <2> QED BY <1>2, <1>3, <1>4, <1>8, <1>9, <2>1, StopOn
<1>13. (rows \subseteq stored)'
  <2>1. rows \subseteq stored
    BY DEF HandlerInv
  <2>2. ASSUME op = "rows" PROVE Step.what \subseteq stored
    <3>1. ASSUME NEW a \in s[at].what PROVE a \in stored
      <4>1. \/ a \in stored
            \/ \E j \in Puts(s, a) : at <= j /\ j < at /\ ~Skipped(s, j, at)
        BY <1>1, <1>3, <2>2 DEF HandlerInv, Supplied
      <4>2. \A j \in Puts(s, a) : ~(at <= j /\ j < at)
        BY <1>2, <1>3 DEF Puts, WellFormed
      <4> QED BY <4>1, <4>2
    <3> QED BY <1>3, <3>1
  <2> QED BY <1>9, <2>1, <2>2
<1> QED BY <1>1, <1>5, <1>6, <1>7, <1>10, <1>11, <1>12, <1>13 DEF HandlerInv

\* An exception at a step that is no tool, and the return of execute.
LEMMA RaiseStep ==
  ASSUME HandlerInv, Running, ~AtStep("run"), NEW e \in {"returned", "cancelled", "failed", "raised"},
         Raise(e), e # "raised" => workdir # "pcap",
         e # "raised" /\ stopped => e = "cancelled" /\ Capture \subseteq stored
  PROVE  HandlerInv'
<1>1. child = "none" /\ runner = "idle"
  BY DEF HandlerInv, Attended
<1>2. PICK d : d = IF guarded THEN "none" ELSE workdir
  OBVIOUS
<1>3. d \in {"none", "empty", "pcap"} /\ (e # "raised" => d # "pcap")
  BY <1>2 DEF HandlerInv, HandlerTyped
<1>4. EndWith(e, d) /\ percent' = percent /\ child' = "none" /\ runner' = "idle"
  BY <1>1, <1>2 DEF Raise, EndWith
<1> QED BY <1>3, <1>4, EndStep

LEMMA HandlerSteps ==
  ASSUME HandlerInv, HandlerStep
  PROVE  HandlerInv'
<1>1. /\ plan \in Plans /\ WellFormed(Program[plan]) /\ percent \in 0 .. 100 /\ at \in Nat \ {0}
      /\ workdir \in {"none", "empty", "pcap"} /\ guarded \in BOOLEAN /\ stopped \in BOOLEAN
  BY PlanDiscipline DEF HandlerInv, HandlerTyped
<1>2. ASSUME NEW op, AtStep(op) PROVE /\ Running /\ at \in DOMAIN Program[plan]
                                      /\ Step.op = op /\ Step = Program[plan][at]
  BY <1>1, <1>2 DEF AtStep, Step, WellFormed
<1>3. ASSUME NEW op, AtStep(op), op \in {"check", "load"} PROVE workdir # "pcap" /\ ~stopped
  BY <1>2, <1>3, WherePcapIs, WhereStopIs
<1>4. ASSUME NEW op, AtStep(op), op # "run" PROVE ~AtStep("run")
  BY <1>4 DEF AtStep
<1>5. CASE Checkpoint
  <2>1. CASE token
    BY <1>2, <1>3, <1>4, <1>5, <2>1, RaiseStep DEF Checkpoint
  <2>2. CASE ~token
    BY <1>1, <1>5, <2>2, OnwardStep DEF Checkpoint
  <2> QED BY <2>1, <2>2
<1>6. CASE ReportProgress
  <2>1. PICK op \in {"progress", "live"} : AtStep(op)
    BY <1>6 DEF ReportProgress
  <2>2. CASE ~owned \/ Step.pct < percent
    BY <1>2, <1>4, <1>6, <2>1, <2>2, RaiseStep DEF ReportProgress
  <2>3. CASE ~(~owned \/ Step.pct < percent)
    <3>1. Step.pct \in 0 .. 100
      BY <1>1, <1>2, <2>1 DEF WellFormed, Reports
    <3> QED BY <1>1, <1>6, <2>1, <2>3, <3>1, OnwardStep DEF ReportProgress
  <2> QED BY <2>2, <2>3
<1>7. CASE SkipReport
  BY <1>1, <1>7, OnwardStep DEF SkipReport
<1>8. CASE LoadInput
  <2>1. CASE Raise("failed")
    BY <1>2, <1>3, <1>4, <1>8, <2>1, RaiseStep DEF LoadInput
  <2>2. CASE Onward /\ UNCHANGED <<percent, workdir, guarded, stopped, stored, rows>>
    BY <1>1, <1>8, <2>2, OnwardStep DEF LoadInput
  <2> QED BY <1>8, <2>1, <2>2 DEF LoadInput
<1>9. CASE CreateDirectory
  BY <1>1, <1>9, OnwardStep DEF CreateDirectory
<1>10. CASE EnterTry
  BY <1>1, <1>10, OnwardStep DEF EnterTry
<1>11. CASE RemoveDirectory
  BY <1>1, <1>11, OnwardStep DEF RemoveDirectory
<1>12. CASE DiscardIfCancelled
  <2>1. AtStep("discard") /\ ~stopped
    BY <1>2, <1>12, WhereStopIs DEF DiscardIfCancelled
  <2>2. CASE token
    <3>1. child = "none" /\ runner = "idle"
      BY <1>2, <1>4, <2>1 DEF HandlerInv, Attended
    <3> QED BY <1>12, <2>1, <2>2, <3>1, EndStep DEF DiscardIfCancelled
  <2>3. CASE ~token
    BY <1>1, <1>12, <2>3, OnwardStep DEF DiscardIfCancelled
  <2> QED BY <2>2, <2>3
<1>13. CASE PutArtifact
  <2>1. CASE Raise("raised")
    BY <1>2, <1>4, <1>13, <2>1, RaiseStep DEF PutArtifact
  <2>2. CASE /\ stored' = stored \cup {Step.what} /\ Onward
             /\ UNCHANGED <<percent, workdir, guarded, stopped, rows>>
    BY <1>1, <1>13, <2>2, OnwardStep DEF PutArtifact
  <2> QED BY <1>13, <2>1, <2>2 DEF PutArtifact
<1>14. CASE WriteRows
  <2>1. CASE Raise("raised")
    BY <1>2, <1>4, <1>14, <2>1, RaiseStep DEF WriteRows
  <2>2. CASE /\ rows' = rows \cup Step.what /\ Onward
             /\ UNCHANGED <<percent, workdir, guarded, stopped, stored>>
    BY <1>1, <1>14, <2>2, OnwardStep DEF WriteRows
  <2> QED BY <1>14, <2>1, <2>2 DEF WriteRows
<1>15. CASE Return
  <2>1. Running /\ at > Len(Program[plan]) /\ ~AtStep("run") /\ at \notin DOMAIN Program[plan]
    BY <1>1, <1>15 DEF Return, AtStep, WellFormed
  <2>2. workdir # "pcap"
    BY <2>1, WherePcapIs
  <2>3. ASSUME stopped, NEW a \in Capture PROVE a \in stored
    <3>1. a \in stored \/ \E j \in Puts(Program[plan], a) : j >= at
      BY <2>3 DEF HandlerInv, StopKept
    <3>2. \A j \in Puts(Program[plan], a) : ~(j >= at)
      BY <1>1, <2>1 DEF Puts, WellFormed
    <3> QED BY <3>1, <3>2
  <2>4. PICK e : e = IF stopped THEN "cancelled" ELSE "returned"
    OBVIOUS
  <2>5. e \in {"returned", "cancelled", "failed", "raised"} /\ Raise(e)
        /\ (stopped => e = "cancelled")
    BY <1>15, <2>4 DEF Return, Raise, EndWith
  <2> QED BY <2>1, <2>2, <2>3, <2>5, RaiseStep
<1> QED BY <1>5, <1>6, <1>7, <1>8, <1>9, <1>10, <1>11, <1>12, <1>13, <1>14, <1>15
        DEF HandlerStep

\* What the callers of a tool do with its result.
LEMMA HandleCases ==
  ASSUME HandlerInv, AtStep("run"), NEW r \in {"ok", "failed", "cancelled", "timeout"}, Handle(r)
  PROVE  \/ \E n \in {at + 1, at + Step.skip}, clean \in BOOLEAN :
              /\ Continue(n, clean)
              /\ Step.then \in {"record", "capture", "decode"} => n = at + 1
              /\ stopped' = stopped \/ (Step.then = "record" /\ stopped' \in BOOLEAN)
         \/ \E e \in {"cancelled", "failed", "raised"}, d \in {"none", "empty", "pcap"} :
              GiveUp(e, d) /\ (e # "raised" => d # "pcap")
<1> DEFINE Goes == \E n \in {at + 1, at + Step.skip}, clean \in BOOLEAN :
                     /\ Continue(n, clean)
                     /\ Step.then \in {"record", "capture", "decode"} => n = at + 1
                     /\ stopped' = stopped \/ (Step.then = "record" /\ stopped' \in BOOLEAN)
           Ends == \E e \in {"cancelled", "failed", "raised"}, d \in {"none", "empty", "pcap"} :
                     GiveUp(e, d) /\ (e # "raised" => d # "pcap")
           then == Step.then
<1> SUFFICES Goes \/ Ends
  OBVIOUS
<1>1. /\ at \in DOMAIN Program[plan] /\ Step = Program[plan][at] /\ Step.op = "run" /\ Running
      /\ workdir \in {"none", "empty", "pcap"} /\ token \in BOOLEAN
      /\ then \in {"must", "may", "fields", "collect", "available",
                        "results", "record", "capture", "decode"}
  BY PlanDiscipline DEF HandlerInv, HandlerTyped, AtStep, Step, WellFormed, Tools
<1>2. ASSUME NEW n \in {at + 1, at + Step.skip}, NEW clean \in BOOLEAN, Continue(n, clean),
             stopped' = stopped, then \notin {"record", "capture", "decode"}
      PROVE  Goes
  BY <1>2
<1>3. ASSUME Continue(at + 1, FALSE), stopped' = stopped PROVE Goes
  BY <1>3
<1>4. ASSUME NEW e \in {"cancelled", "failed", "raised"}, NEW d \in {"none", "empty", "pcap"},
             GiveUp(e, d), e # "raised" => d # "pcap"
      PROVE  Ends
  BY <1>4
<1> HIDE DEF Goes, Ends, then
<1>5. CASE then = "must"
  <2>1. MustSucceed(r)
    BY <1>5 DEF Handle, then
  <2>2. CASE r = "ok" /\ stopped' = stopped /\ \E n \in {at + 1, at + Step.skip} : Continue(n, FALSE)
    BY <1>2, <1>5, <2>2
  <2>3. CASE GiveUp("raised", "none") \/ GiveUp("cancelled", "none") \/ GiveUp("failed", "none")
    BY <1>4, <2>3
  <2> QED BY <2>1, <2>2, <2>3 DEF MustSucceed
<1>6. CASE then \in {"may", "fields"}
  <2>1. MaySucceed(r)
    BY <1>6 DEF Handle, then
  <2>2. CASE GiveUp("cancelled", "none")
    BY <1>4, <2>2
  <2>3. CASE stopped' = stopped /\ (Continue(at + 1, FALSE) \/ Continue(at + Step.skip, TRUE))
    BY <1>2, <1>6, <2>3
  <2> QED BY <2>1, <2>2, <2>3 DEF MaySucceed
<1>7. CASE then \in {"collect", "available"}
  <2>1. Collect(r)
    BY <1>7 DEF Handle, then
  <2> QED BY <1>2, <1>7, <2>1 DEF Collect
<1>8. CASE then = "results"
  <2>1. ModuleResults(r)
    BY <1>8 DEF Handle, then
  <2>2. workdir # "pcap"
    BY <1>1, <1>8, WherePcapIs DEF then
  <2> QED BY <1>1, <1>3, <1>4, <2>1, <2>2 DEF ModuleResults
<1>9. CASE then = "record"
  <2>1. Recorded(r)
    BY <1>9 DEF Handle, then
  <2>2. CASE GiveUp("raised", workdir)
    BY <1>1, <1>4, <2>2
  <2>3. CASE GiveUp(EndOf(r), Discarded)
    <3>1. EndOf(r) \in {"cancelled", "failed"} /\ Discarded \in {"none", "empty"}
      BY <1>1 DEF EndOf, Discarded
    <3>2. PICK e, d : e = EndOf(r) /\ d = Discarded
      OBVIOUS
    <3>3. GiveUp(e, d)
      BY <2>3, <3>2
    <3> QED BY <1>4, <3>1, <3>2, <3>3
  <2>4. CASE Continue(at + 1, FALSE) /\ stopped' = (r = "cancelled" \/ token)
    <3>1. stopped' \in BOOLEAN
      BY <1>1, <2>4
    <3> QED BY <1>9, <2>4, <3>1 DEF Goes, then
  <2> QED BY <2>1, <2>2, <2>3, <2>4 DEF Recorded
<1>10. CASE then = "capture"
  <2>1. Captured(r)
    BY <1>10 DEF Handle, then
  <2>2. CASE Continue(at + 1, FALSE) /\ UNCHANGED stopped
    BY <1>3, <2>2
  <2>3. CASE GiveUp(PipelineEnd(r), Discarded)
    <3>1. PipelineEnd(r) \in {"cancelled", "failed", "raised"} /\ Discarded \in {"none", "empty"}
      BY <1>1 DEF PipelineEnd, EndOf, Discarded
    <3>2. PICK e, d : e = PipelineEnd(r) /\ d = Discarded
      OBVIOUS
    <3>3. GiveUp(e, d)
      BY <2>3, <3>2
    <3> QED BY <1>4, <3>1, <3>2, <3>3
  <2> QED BY <2>1, <2>2, <2>3 DEF Captured
<1>11. CASE then = "decode"
  <2>1. Decoded(r)
    BY <1>11 DEF Handle, then
  <2>2. CASE Continue(at + 1, FALSE) /\ UNCHANGED stopped
    BY <1>3, <2>2
  <2>3. CASE GiveUp(PipelineEnd(r), IF owned \/ guarded THEN "none" ELSE workdir)
    <3>1. PICK e, d : e = PipelineEnd(r) /\ d = IF owned \/ guarded THEN "none" ELSE workdir
      OBVIOUS
    <3>2. /\ e \in {"cancelled", "failed", "raised"} /\ d \in {"none", "empty", "pcap"}
          /\ e # "raised" => d # "pcap"
      BY <1>1, <3>1 DEF PipelineEnd, EndOf
    <3>3. GiveUp(e, d)
      BY <2>3, <3>1
    <3> QED BY <1>4, <3>2, <3>3
  <2> QED BY <2>1, <2>2, <2>3 DEF Decoded
<1> QED BY <1>1, <1>5, <1>6, <1>7, <1>8, <1>9, <1>10, <1>11

\* A tool has ended and the handler goes on, perhaps past the steps of its result.
LEMMA ContinueStep ==
  ASSUME HandlerInv, AtStep("run"), NEW n \in {at + 1, at + Step.skip}, NEW clean \in BOOLEAN,
         Continue(n, clean), Step.then \in {"record", "capture", "decode"} => n = at + 1,
         stopped' = stopped \/ (Step.then = "record" /\ stopped' \in BOOLEAN)
  PROVE  HandlerInv'
<1>1. PICK s : s = Program[plan] /\ s = Program[plan]'
  BY DEF Continue, Program
<1>2. WellFormed(s) /\ ReportsRise(s) /\ RecordingKept(s)
  BY <1>1, PlanDiscipline DEF HandlerInv, HandlerTyped
<1>3. at \in Tools(s) /\ at \in DOMAIN s /\ Step = s[at] /\ at \in Nat \ {0} /\ Running
  BY <1>1, <1>2 DEF AtStep, Step, HandlerInv, HandlerTyped, WellFormed, Tools
<1>4. at' = n /\ n \in Nat /\ at < n /\ (n = at + 1 \/ n = at + s[at].skip)
  BY <1>2, <1>3 DEF Continue, WellFormed
<1>5. percent' \in 0 .. 100 /\ (percent' = percent \/ percent' = s[at].upto)
  BY <1>2, <1>3 DEF Continue, WellFormed, HandlerInv, HandlerTyped
<1>6. ~stopped
  BY <1>1, <1>3, WhereStopIs DEF Tools
<1>7. HandlerTyped'
  BY <1>3, <1>4, <1>5 DEF HandlerInv, HandlerTyped, Continue
<1>8. Attended' /\ ToolStopped' /\ (rows \subseteq stored)'
  BY DEF HandlerInv, Attended, ToolStopped, Continue
<1>9. Rising(s)'
  <2>1. ASSUME NEW i \in Reports(s), i >= n PROVE percent' <= s[i].pct
    <3>1. i \in Nat /\ i >= at /\ at < i
      BY <1>2, <1>3, <1>4, <2>1 DEF Reports, WellFormed
    <3>2. CASE percent' = percent
      BY <1>1, <3>1, <3>2 DEF HandlerInv, Rising
    <3>3. CASE percent' = s[at].upto
      BY <1>2, <1>3, <3>1, <3>3 DEF ReportsRise
    <3> QED BY <1>5, <3>2, <3>3
  <2> QED BY <1>4, <2>1 DEF Rising, Reports
<1>10. Supplied(s)'
  <2>1. ASSUME NEW a, NEW j \in Puts(s, a), at <= j, j < at', NEW i \in DOMAIN s, i >= at'
        PROVE  Skipped(s, j, i)
    <3>1. j \in Nat /\ i \in Nat /\ j # at
      BY <1>2, <1>3 DEF Puts, Tools, WellFormed
    <3>2. n = at + s[at].skip
      BY <1>3, <1>4, <2>1, <3>1
    <3>3. at <= j /\ j < at + s[at].skip /\ at + s[at].skip <= i
      BY <1>4, <2>1, <3>1, <3>2
    <3> QED BY <1>3, <3>3 DEF Skipped
  <2>2. Supplied(s) /\ stored \subseteq stored'
    BY <1>1 DEF HandlerInv, Continue
  <2> QED BY <1>2, <1>3, <1>4, <2>1, <2>2, SuppliedOn
<1>11. Guarded(s)'
  <2>1. ~Orderly'
    BY <1>3 DEF Orderly, Running, Continue
  <2>2. ASSUME workdir' = "pcap" PROVE at' \in Holding(s)
    <3>1. workdir = "pcap"
      BY <2>2 DEF Continue
    <3>2. at \in Holding(s) \cup Capturing(s)
      BY <1>1, <1>3, <3>1 DEF HandlerInv, Guarded
    <3>3. s[at].op = "run" /\ s[at].then \in {"record", "capture", "decode"}
      BY <1>1, <1>3, <3>1, WherePcapIs DEF Tools
    <3> QED BY <1>2, <1>3, <1>4, <3>2, <3>3, HoldingOn
  <2> QED BY <2>1, <2>2 DEF Guarded, Holding, Capturing, Tools
<1>12. StopKept(s)'
  <2> SUFFICES ASSUME stopped' PROVE StopKept(s)'
    BY DEF StopKept
  <2>1. Step.then = "record" /\ at' = at + 1
    BY <1>4, <1>6
  <2>2. \A i \in at' .. Len(s) : s[i].op \in {"progress", "store", "finally"}
    BY <1>2, <1>3, <2>1 DEF RecordingKept
  <2>3. ASSUME NEW a \in Capture PROVE \E j \in Puts(s, a) : j >= at'
    <3>1. PICK j \in Puts(s, a) : j > at
      BY <1>2, <1>3, <2>1 DEF RecordingKept, Capture
    <3>2. j \in Nat
      BY <1>2 DEF Puts, WellFormed
    <3> QED BY <1>3, <2>1, <3>1, <3>2
  <2>4. ~Orderly'
    BY <1>3 DEF Orderly, Running, Continue
  <2> QED BY <2>2, <2>3, <2>4 DEF StopKept, Puts, Capture
<1> QED BY <1>1, <1>7, <1>8, <1>9, <1>10, <1>11, <1>12 DEF HandlerInv

\* Steps of the tool, the clock, the operator and the other workers.
LEMMA WaitingStep ==
  ASSUME HandlerInv, Running, UNCHANGED <<plan, at, percent, guarded, stopped, stored, rows, ending>>,
         AtStep("run") \/ (child' = child /\ runner' = runner),
         child' \in {"none", "running", "exited", "broken", "doomed"},
         runner' \in {"idle", "poll", "cancelled", "timeout"},
         late' \in BOOLEAN, token' \in BOOLEAN, owned' \in BOOLEAN,
         workdir' = workdir \/ (AtStep("run") /\ Step.then \in {"record", "capture"} /\ workdir' = "pcap")
  PROVE  HandlerInv'
<1>1. PICK s : s = Program[plan] /\ s = Program[plan]'
  BY DEF Program
<1>2. WellFormed(s)
  BY <1>1, PlanDiscipline DEF HandlerInv, HandlerTyped
<1>3. HandlerTyped'
  BY DEF HandlerInv, HandlerTyped
<1>4. Attended' /\ ToolStopped' /\ (rows \subseteq stored)'
  BY <1>1 DEF HandlerInv, Attended, ToolStopped, Running, AtStep
<1>5. Rising(s) /\ Supplied(s) /\ StopKept(s) /\ Guarded(s)
  BY <1>1 DEF HandlerInv
<1>6. Rising(s)'
  BY <1>5 DEF Rising, Reports
<1>7. Supplied(s)'
  BY <1>5 DEF Supplied, Puts, Skipped, Tools
<1>8. StopKept(s)'
  BY <1>5 DEF StopKept, Orderly, Puts
<1>9. Guarded(s)'
  <2>1. ~Orderly'
    BY DEF Orderly, Running
  <2>2. ASSUME workdir' = "pcap" PROVE at \in Holding(s) \cup Capturing(s)
    <3>1. CASE workdir' = workdir
      BY <1>5, <2>2, <3>1 DEF Guarded
    <3>2. CASE AtStep("run") /\ Step.then \in {"record", "capture"}
      BY <1>1, <1>2, <3>2 DEF AtStep, Step, Capturing, Tools, WellFormed, HandlerInv, HandlerTyped
    <3> QED BY <3>1, <3>2
  <2> QED BY <2>1, <2>2 DEF Guarded, Holding, Capturing, Tools
<1> QED BY <1>1, <1>3, <1>4, <1>6, <1>7, <1>8, <1>9 DEF HandlerInv

\* A tool gives its result to its caller.
LEMMA HandleStep ==
  ASSUME HandlerInv, AtStep("run"), NEW r \in {"ok", "failed", "cancelled", "timeout"}, Handle(r)
  PROVE  HandlerInv'
<1>1. CASE \E n \in {at + 1, at + Step.skip}, clean \in BOOLEAN :
              /\ Continue(n, clean)
              /\ Step.then \in {"record", "capture", "decode"} => n = at + 1
              /\ stopped' = stopped \/ (Step.then = "record" /\ stopped' \in BOOLEAN)
  <2>1. PICK n \in {at + 1, at + Step.skip}, clean \in BOOLEAN :
              /\ Continue(n, clean)
              /\ Step.then \in {"record", "capture", "decode"} => n = at + 1
              /\ stopped' = stopped \/ (Step.then = "record" /\ stopped' \in BOOLEAN)
    BY <1>1
  <2> QED BY <2>1, ContinueStep
<1>2. ASSUME NEW e \in {"cancelled", "failed", "raised"}, NEW d \in {"none", "empty", "pcap"},
             GiveUp(e, d), e # "raised" => d # "pcap"
      PROVE  HandlerInv'
  <2>1. ~stopped
    <3>1. at \in DOMAIN Program[plan] /\ Program[plan][at].op = "run"
      BY PlanDiscipline DEF AtStep, WellFormed, HandlerInv, HandlerTyped
    <3> QED BY <3>1, WhereStopIs
  <2>2. EndWith(e, d) /\ percent' = percent /\ child' = "none" /\ runner' = "idle"
    BY <1>2 DEF GiveUp
  <2> QED BY <1>2, <2>1, <2>2, EndStep
<1> QED BY <1>1, <1>2, HandleCases

LEMMA ToolSteps ==
  ASSUME HandlerInv, RunnerStep \/ ToolExits \/ DumpcapWrites \/ DeadlinePasses \/ CancelSeen \/ JobTaken
  PROVE  HandlerInv'
<1>1. /\ HandlerTyped
      /\ Running /\ (runner # "idle" \/ child # "none") => AtStep("run")
  BY DEF HandlerInv, Attended
<1>2. CASE StartTool
  BY <1>1, <1>2, WaitingStep DEF StartTool, Quiet, HandlerTyped, AtStep
<1>3. CASE FailedToStart
  BY <1>3, HandleStep DEF FailedToStart
<1>4. CASE Poll
  BY <1>1, <1>4, HandleStep DEF Poll
<1>5. CASE Terminate
  BY <1>1, <1>5, WaitingStep DEF Terminate, Quiet, HandlerTyped
<1>6. CASE Reap
  BY <1>1, <1>6, HandleStep DEF Reap, Terminating
<1>7. CASE Kill
  BY <1>1, <1>7, WaitingStep DEF Kill, Terminating, Quiet, HandlerTyped
<1>8. CASE WaitExpires
  <2>1. AtStep("run") /\ child = "doomed" /\ runner \in {"cancelled", "timeout"}
    BY <1>1, <1>8 DEF WaitExpires, Terminating
  <2>2. PICK d : d = IF guarded THEN "none" ELSE workdir
    OBVIOUS
  <2>3. /\ d \in {"none", "empty", "pcap"} /\ EndWith("raised", d) /\ percent' = percent
        /\ child' = "doomed" /\ runner' \in {"cancelled", "timeout"}
    BY <1>1, <1>8, <2>1, <2>2 DEF WaitExpires, HandlerTyped, EndWith
  <2> QED BY <2>3, EndStep
<1>9. CASE ToolExits
  BY <1>1, <1>9, WaitingStep DEF ToolExits, Quiet, HandlerTyped
<1>10. CASE DumpcapWrites
  BY <1>1, <1>10, WaitingStep DEF DumpcapWrites, Quiet, HandlerTyped
<1>11. CASE DeadlinePasses
  BY <1>1, <1>11, WaitingStep DEF DeadlinePasses, Quiet, HandlerTyped
<1>12. CASE CancelSeen
  BY <1>1, <1>12, WaitingStep DEF CancelSeen, HandlerTyped
<1>13. CASE JobTaken
  BY <1>1, <1>13, WaitingStep DEF JobTaken, HandlerTyped
<1> QED BY <1>2, <1>3, <1>4, <1>5, <1>6, <1>7, <1>8, <1>9, <1>10, <1>11, <1>12, <1>13 DEF RunnerStep

LEMMA HandlerInvariant == HandlerSpec => []HandlerInv
<1>1. HandlerInit => HandlerInv
  <2> SUFFICES ASSUME HandlerInit PROVE HandlerInv
    OBVIOUS
  <2>1. PICK s : s = Program[plan]
    OBVIOUS
  <2>2. WellFormed(s) /\ PutsFirst(s)
    BY <2>1, PlanDiscipline DEF HandlerInit
  <2>3. at = 1 /\ percent = 0 /\ rows = {} /\ stored = {}
    BY DEF HandlerInit
  <2>4. child = "none" /\ runner = "idle" /\ workdir = "none" /\ ending = "none" /\ plan \in Plans
    BY DEF HandlerInit
  <2>5. ~stopped /\ late \in BOOLEAN /\ token \in BOOLEAN /\ owned \in BOOLEAN
        /\ guarded \in BOOLEAN /\ stopped \in BOOLEAN
    BY Zenon DEF HandlerInit
  <2>6. HandlerTyped
    BY <2>3, <2>4, <2>5 DEF HandlerTyped
  <2>7. Attended /\ ToolStopped /\ rows \subseteq stored
    BY <2>3, <2>4 DEF Attended, ToolStopped
  <2>8. Rising(s)
    <3>1. \A i \in Reports(s) : s[i].pct \in 0 .. 100
      BY <2>2 DEF WellFormed
    <3> QED BY <2>3, <3>1 DEF Rising
  <2>9. Supplied(s)
    <3>1. ASSUME NEW i \in DOMAIN s, s[i].op = "rows", NEW a \in s[i].what
          PROVE  \E j \in Puts(s, a) : at <= j /\ j < i /\ ~Skipped(s, j, i)
      <4>1. PICK j \in Puts(s, a) : j < i /\ ~Skipped(s, j, i)
        BY <2>2, <3>1 DEF PutsFirst
      <4>2. at <= j
        BY <2>2, <2>3 DEF Puts, WellFormed
      <4> QED BY <4>1, <4>2
    <3> QED BY <3>1 DEF Supplied
  <2>10. Guarded(s) /\ StopKept(s)
    BY <2>4, <2>5 DEF Guarded, Orderly, StopKept
  <2> QED BY <2>1, <2>6, <2>7, <2>8, <2>9, <2>10 DEF HandlerInv
<1>2. HandlerInv /\ [HandlerNext]_handlerVars => HandlerInv'
  <2> SUFFICES ASSUME HandlerInv, [HandlerNext]_handlerVars PROVE HandlerInv'
    OBVIOUS
  <2>1. CASE HandlerStep
    BY <2>1, HandlerSteps
  <2>2. CASE RunnerStep \/ ToolExits \/ DumpcapWrites \/ DeadlinePasses \/ CancelSeen \/ JobTaken
    BY <2>2, ToolSteps
  <2>3. CASE UNCHANGED handlerVars
    BY <2>3 DEF handlerVars, HandlerInv, HandlerTyped, Attended, ToolStopped, Rising, Supplied,
                Guarded, StopKept, Running, AtStep, Orderly, Program, Reports, Puts, Skipped, Tools,
                Holding, Capturing
  <2> QED BY <2>1, <2>2, <2>3 DEF HandlerNext
<1> QED BY <1>1, <1>2, PTL DEF HandlerSpec

\* The variables of an execution keep their types, for any plans (jobs/handlers,
\* providers/tools.py).
THEOREM HandlersTyped == HandlerSpec => []HandlerTypeOK
<1>1. HandlerInv => HandlerTypeOK
  BY DEF HandlerInv, HandlerTyped, HandlerTypeOK
<1> QED BY <1>1, HandlerInvariant, PTL

\* However execute is left, by its return, an exception, a cancellation or a wait
\* for a killed process that expires, its tool has ended or was sent SIGKILL
\* (ToolRunner.run), for any sequence of steps.
THEOREM ToolsAreStopped == HandlerSpec => []ToolStopped
<1>1. HandlerInv => ToolStopped
  BY DEF HandlerInv
<1> QED BY <1>1, HandlerInvariant, PTL

\* Rows name stored artifacts, an orderly end leaves no captured traffic outside the
\* evidence store, and a stopped capture is kept (jobs/handlers), for any plans that
\* put before they write rows and hold a capture as PlansAssumption says.
THEOREM EvidenceIsAccounted == HandlerSpec => []EvidenceAccounted
<1>1. HandlerInv => EvidenceAccounted
  BY DEF HandlerInv, EvidenceAccounted, Guarded, StopKept, Orderly, Capture
<1> QED BY <1>1, HandlerInvariant, PTL

\* No report of a handler is refused for being lower than one before it, whatever
\* the callbacks of its tools reported and whichever steps were skipped.
THEOREM ProgressIsForward == HandlerSpec => []ProgressForward
<1>1. HandlerInv => ProgressForward
  <2> SUFFICES ASSUME HandlerInv, AtStep("progress") \/ AtStep("live")
               PROVE  Step.pct >= percent
    BY DEF ProgressForward
  <2>1. WellFormed(Program[plan]) /\ at \in Nat \ {0} /\ percent \in 0 .. 100
    BY PlanDiscipline DEF HandlerInv, HandlerTyped
  <2>2. at \in Reports(Program[plan])
    BY <2>1 DEF AtStep, Reports, WellFormed
  <2>3. percent <= Program[plan][at].pct /\ Program[plan][at].pct \in 0 .. 100
    BY <2>1, <2>2 DEF HandlerInv, Rising, WellFormed
  <2> QED BY <2>1, <2>3 DEF Step
<1> QED BY <1>1, HandlerInvariant, PTL
=============================================================================
