----------------------------- MODULE JobProofs -----------------------------
(***************************************************************************)
(* Theorems about JobService, for every set of audits, jobs, clients and   *)
(* resources and every assignment of resources to jobs; then about         *)
(* JobWorker.  The worker refines the job service for any number of        *)
(* processes and threads, so what is shown of the rows holds under it.     *)
(* With one process at a time, and requests that do not overlap, threads   *)
(* and running jobs correspond and no end is refused.                      *)
(***************************************************************************)
EXTENDS JobWorker, FiniteSetTheorems, TLAPS

\* What each kind of pending request holds.
LEMMA RequestShape ==
    ASSUME NEW r \in Request
    PROVE  /\ r.op \in {"create_audit", "fail_audit"} => r.audit \in Audit
           /\ r.op = "create_job" => r.job \in Job
                                     /\ r.seen \in AUDIT_JOB_ACCEPTING
           /\ r.op = "update_progress" => r.job \in Job /\ r.to \in 0..Full
BY DEF Request, Idle

\* _refresh_audit writes a status of an audit.
LEMMA DesiredType == \A S : DesiredAudit(S) \in AuditStatus
BY DEF DesiredAudit, AuditStatus

\* The row keys of the lock table.
LEMMA RowKeyType == \A j \in Job : RowKey(j) \in LockKey
BY RowAssumption DEF RowKey, LockKey

\* The number of inserted rows, from which created_at comes, is a number.
LEMMA InsertedFinite == Cardinality(Inserted) \in Nat
<1>1. IsFiniteSet(Inserted)
  BY JobAssumption, FS_Subset DEF Inserted
<1> QED
  BY <1>1, FS_CardinalityType

\* The insertion of a row keeps the columns of the jobs table well typed.
LEMMA InsertType ==
    ASSUME TypeOK, NEW j \in Job, Insert(j)
    PROVE  /\ status' \in [Job -> JobStatus \cup {"absent", "deleted"}]
           /\ born' \in [Job -> Nat]
           /\ stage' = stage /\ progress' = progress /\ attempt' = attempt
           /\ cancelRequested' = cancelRequested
           /\ lock' = lock /\ pcap' = pcap
BY InsertedFinite DEF TypeOK, Insert, JobStatus

\* Every operation of the service, whatever request it answers, keeps every
\* column and every pending request well typed.
LEMMA TypeStep == TypeOK /\ [Next]_vars => TypeOK'
<1> SUFFICES ASSUME TypeOK, [Next]_vars PROVE TypeOK'
  OBVIOUS
<1>1. ASSUME NEW c \in Client, NEW a \in Audit, CreateAudit(c, a)
      PROVE  TypeOK'
  BY <1>1 DEF TypeOK, CreateAudit, AuditStatus, Request
<1>2. ASSUME NEW c \in Client, Answer(c) PROVE request' \in [Client -> Request]
  BY <1>2 DEF TypeOK, Answer, Request
<1>3. ASSUME NEW c \in Client, SnapshotStored(c) PROVE TypeOK'
  BY <1>2, <1>3 DEF TypeOK, SnapshotStored, rows
<1>22. ASSUME NEW C \in SUBSET Client, Abandon(C) PROVE TypeOK'
  BY <1>22 DEF TypeOK, Abandon, Request, rows
<1>4. ASSUME NEW c \in Client, SnapshotFailed(c) PROVE TypeOK'
  <2>1. request[c] \in Request /\ request[c].op = "create_audit"
    BY <1>4 DEF TypeOK, SnapshotFailed
  <2>2. [request[c] EXCEPT !.op = "fail_audit"] \in Request
    BY <2>1 DEF Request, Idle
  <2> QED
    BY <1>4, <2>2 DEF TypeOK, SnapshotFailed, rows
<1>5. ASSUME NEW c \in Client, FailAudit(c) PROVE TypeOK'
  BY <1>2, <1>5, RequestShape DEF TypeOK, FailAudit, AuditStatus
<1>6. ASSUME NEW c \in Client, NEW j \in Job, ReadForCreate(c, j)
      PROVE  TypeOK'
  BY <1>6 DEF TypeOK, ReadForCreate, Request, rows
<1>7. ASSUME NEW c \in Client, InsertJob(c) PROVE TypeOK'
  <2>1. /\ request[c].job \in Job
        /\ Insert(request[c].job)
        /\ Answer(c)
        /\ audit' = audit
             \/ audit' = [audit EXCEPT ![AuditOf[request[c].job]] = "running"]
    BY <1>7, RequestShape DEF TypeOK, InsertJob
  <2> QED
    BY <2>1, <1>2, InsertType DEF TypeOK, AuditStatus
<1>8. ASSUME NEW c \in Client, NEW j \in Job, NEW p \in 0..Full,
             ReadProgress(c, j, p)
      PROVE  TypeOK'
  BY <1>8 DEF TypeOK, ReadProgress, Request, rows
<1>9. ASSUME NEW c \in Client, WriteProgress(c) PROVE TypeOK'
  BY <1>2, <1>9, RequestShape DEF TypeOK, WriteProgress, Stage
<1>10. ASSUME NEW j \in Job, NEW source \in Job, Retry(j, source)
       PROVE  TypeOK'
  BY <1>10, InsertType DEF TypeOK, Retry, AuditStatus
<1>11. ASSUME NEW j \in Job, EnqueueAnalysis(j) PROVE TypeOK'
  BY <1>11, InsertType DEF TypeOK, EnqueueAnalysis, AuditStatus
<1>12. ASSUME NEW a \in Audit, NEW st PROVE
         Refreshed(a, st) \in AuditStatus \cup {"absent", "deleted"}
  BY DesiredType DEF Refreshed, TypeOK
<1>13. ASSUME NEW j \in Job, RequestCancel(j) PROVE TypeOK'
  BY <1>12, <1>13, RowAssumption
     DEF TypeOK, RequestCancel, CancelQueued, FlagRunning, JobStatus, Stage
<1>14. ASSUME NEW j \in Job, ClaimNext(j) PROVE TypeOK'
  <2>1. stage' \in [Job -> Stage]
    BY <1>14 DEF TypeOK, ClaimNext, Stage
  <2>2. progress' \in [Job -> 0..Full] /\ attempt' \in [Job -> Nat]
    BY <1>14, BoundAssumption DEF TypeOK, ClaimNext
  <2>3. lock' \in [LockKey -> Job \cup {NoJob}]
    BY <1>14 DEF TypeOK, ClaimNext
  <2>4. audit' \in [Audit -> AuditStatus \cup {"absent", "deleted"}]
    BY <1>14 DEF TypeOK, ClaimNext, AuditStatus
  <2> QED
    BY <1>14, <2>1, <2>2, <2>3, <2>4 DEF TypeOK, ClaimNext, JobStatus
<1>15. ASSUME ClaimNothing PROVE TypeOK'
  BY <1>15 DEF TypeOK, ClaimNothing, Stage
<1>16. ASSUME NEW j \in Job, StorePcap(j) PROVE TypeOK'
  BY <1>16 DEF TypeOK, StorePcap, Pcap
<1>17. ASSUME NEW j \in Job, NEW final \in JobTerminal, FinishJob(j, final)
       PROVE  TypeOK'
  <2>1. lock' \in [LockKey -> Job \cup {NoJob}]
    BY <1>17 DEF TypeOK, FinishJob, ReleaseLock
  <2>2. audit' \in [Audit -> AuditStatus \cup {"absent", "deleted"}]
    BY <1>12, <1>17, RowAssumption DEF TypeOK, FinishJob
  <2>3. /\ status' \in [Job -> JobStatus \cup {"absent", "deleted"}]
        /\ stage' \in [Job -> Stage]
    BY <1>17 DEF TypeOK, FinishJob, JobTerminal, JobActive, JobStatus, Stage
  <2>4. progress' \in [Job -> 0..Full]
    BY <1>17, BoundAssumption DEF TypeOK, FinishJob
  <2> QED
    BY <1>17, <2>1, <2>2, <2>3, <2>4 DEF TypeOK, FinishJob
<1>18. ASSUME RecoverRunning PROVE TypeOK'
  <2>1. audit' \in [Audit -> AuditStatus \cup {"absent", "deleted"}]
    BY <1>12, <1>18 DEF TypeOK, RecoverRunning
  <2> QED
    BY <1>18, <2>1
       DEF TypeOK, RecoverRunning, AfterRestart, JobStatus, Stage
<1>19. ASSUME NEW a \in Audit, DeleteAudit(a) PROVE TypeOK'
  BY <1>19, BoundAssumption DEF TypeOK, DeleteAudit, Stage, Pcap
<1>20. ASSUME NEW j \in Job, DeletePcap(j) \/ ExpirePcap(j) PROVE TypeOK'
  BY <1>20 DEF TypeOK, DeletePcap, ExpirePcap, Pcap
<1>21. CASE UNCHANGED vars
  BY <1>21 DEF TypeOK, vars, rows
<1> QED
  BY <1>1, <1>3, <1>4, <1>5, <1>6, <1>7, <1>8, <1>9, <1>10, <1>11, <1>13,
     <1>14, <1>15, <1>16, <1>17, <1>18, <1>19, <1>20, <1>21, <1>22
     DEF Next, CompleteJob, FailJob, CancelRunningJob, JobTerminal,
         JobActive, JobStatus

\* Every operation leaves every column of every row within its type.
THEOREM TypeCorrect == Spec => []TypeOK
<1>1. Init => TypeOK
  BY BoundAssumption DEF Init, TypeOK, Request, Idle, Stage, Pcap
<1> QED
  BY <1>1, TypeStep, PTL DEF Spec
-----------------------------------------------------------------------------
(***************************************************************************)
(* The lock table.  LockTable is inductive together with TypeOK.           *)
(***************************************************************************)

\* The row that a claim writes is free.
LEMMA ClaimedRowFree ==
    ASSUME TypeOK, LockTable, NEW j \in Job, status[j] = "queued",
           ResourceAvailable(j)
    PROVE  lock[RowKey(j)] = NoJob
<1>1. CASE KeyOf[j] # NoKey
  BY <1>1 DEF ResourceAvailable, RowKey
<1>2. CASE KeyOf[j] = NoKey
  <2> SUFFICES ASSUME lock[JobKey(j)] # NoJob PROVE FALSE
    BY <1>2 DEF RowKey
  <2> DEFINE i == lock[JobKey(j)]
  <2>1. i \in Job /\ status[i] = "running" /\ RowKey(i) = JobKey(j)
    BY DEF TypeOK, LockTable, LockKey
  <2>2. i = j
    BY <2>1, KeyAssumption, RowAssumption DEF RowKey, JobKey
  <2> QED
    BY <2>1, <2>2
<1> QED
  BY <1>1, <1>2

\* An active job keeps its audit from being deleted.
LEMMA ActiveSeen ==
    ASSUME NEW a, NEW j \in Job, AuditOf[j] = a, status[j] \in JobActive
    PROVE  HasActive(a)
BY DEF HasActive, Statuses, JobsOf, JobActive, JobStatus

\* Every operation keeps resource_locks and jobs in agreement: a claim adds
\* the row of the job it starts, each end of a job and each restart removes it.
LEMMA LockTableStep ==
    ASSUME TypeOK, LockTable, [Next]_vars
    PROVE  LockTable'
<1>1. ASSUME UNCHANGED <<status, lock>> PROVE LockTable'
  BY <1>1 DEF LockTable
<1>2. ASSUME NEW c \in Client, NEW a \in Audit, CreateAudit(c, a)
      PROVE  LockTable'
  BY <1>1, <1>2 DEF CreateAudit
<1>3. ASSUME NEW c \in Client,
             \/ SnapshotStored(c) \/ SnapshotFailed(c) \/ FailAudit(c)
             \/ WriteProgress(c)
      PROVE  LockTable'
  BY <1>1, <1>3
     DEF SnapshotStored, SnapshotFailed, FailAudit, WriteProgress, rows
<1>4. ASSUME NEW c \in Client, NEW j \in Job,
             ReadForCreate(c, j) \/ \E p \in 0..Full : ReadProgress(c, j, p)
      PROVE  LockTable'
  BY <1>1, <1>4 DEF ReadForCreate, ReadProgress, rows
<1>5. ASSUME NEW j \in Job, status[j] = "absent", Insert(j) PROVE LockTable'
  BY <1>5 DEF TypeOK, LockTable, Insert
<1>6. ASSUME NEW c \in Client, InsertJob(c) PROVE LockTable'
  BY <1>5, <1>6, RequestShape DEF TypeOK, InsertJob
<1>7. ASSUME NEW j \in Job, EnqueueAnalysis(j)
               \/ \E source \in Job : Retry(j, source)
      PROVE  LockTable'
  BY <1>5, <1>7 DEF EnqueueAnalysis, Retry
<1>8. ASSUME NEW j \in Job, CancelQueued(j) PROVE LockTable'
  BY <1>8 DEF TypeOK, LockTable, CancelQueued
<1>9. ASSUME NEW j \in Job, FlagRunning(j) \/ StorePcap(j) \/ DeletePcap(j)
               \/ ExpirePcap(j)
      PROVE  LockTable'
  BY <1>1, <1>9 DEF FlagRunning, StorePcap, DeletePcap, ExpirePcap
<1>10. ASSUME NEW j \in Job, ClaimNext(j) PROVE LockTable'
  <2>1. lock[RowKey(j)] = NoJob /\ RowKey(j) \in LockKey
    BY <1>10, ClaimedRowFree, RowKeyType DEF ClaimNext, Queued
  <2>2. /\ status' = [status EXCEPT ![j] = "running"]
        /\ status[j] = "queued"
        /\ lock' = [k \in LockKey |->
                      IF TakesLock(j) /\ k = RowKey(j) THEN j ELSE lock[k]]
    BY <1>10 DEF ClaimNext, Queued
  <2>3. ASSUME NEW k \in LockKey, lock'[k] # NoJob
        PROVE  /\ status'[lock'[k]] = "running"
               /\ TakesLock(lock'[k])
               /\ RowKey(lock'[k]) = k
    BY <2>1, <2>2, <2>3, JobAssumption DEF TypeOK, LockTable
  <2>4. ASSUME NEW i \in Job, status'[i] = "running", TakesLock(i)
        PROVE  lock'[RowKey(i)] = i
    <3>1. CASE i = j
      BY <2>1, <2>2, <2>4, <3>1
    <3>2. CASE i # j
      <4>1. lock[RowKey(i)] = i /\ RowKey(i) \in LockKey
        BY <2>2, <2>4, <3>2, RowKeyType DEF TypeOK, LockTable
      <4> QED
        BY <4>1, <2>1, <2>2, JobAssumption
    <3> QED
      BY <3>1, <3>2
  <2> QED
    BY <2>3, <2>4 DEF LockTable, TakesLock, RowKey, JobKey
<1>11. ASSUME ClaimNothing PROVE LockTable'
  BY <1>1, <1>11 DEF ClaimNothing
<1>12. ASSUME NEW j \in Job, NEW final \in JobTerminal, FinishJob(j, final)
       PROVE  LockTable'
  <2>1. /\ status' = [status EXCEPT ![j] = final]
        /\ final # "running"
        /\ lock' = [k \in LockKey |->
                      IF lock[k] = j THEN NoJob ELSE lock[k]]
    BY <1>12 DEF FinishJob, ReleaseLock, JobTerminal, JobActive
  <2>2. ASSUME NEW k \in LockKey, lock'[k] # NoJob
        PROVE  /\ status'[lock'[k]] = "running"
               /\ TakesLock(lock'[k])
               /\ RowKey(lock'[k]) = k
    BY <2>1, <2>2 DEF TypeOK, LockTable
  <2>3. ASSUME NEW i \in Job, status'[i] = "running", TakesLock(i)
        PROVE  lock'[RowKey(i)] = i
    <3>1. i # j /\ status[i] = "running"
      BY <2>1, <2>3 DEF TypeOK
    <3> QED
      BY <2>1, <2>3, <3>1, RowKeyType DEF LockTable
  <2> QED
    BY <2>2, <2>3 DEF LockTable, TakesLock, RowKey, JobKey
<1>13. ASSUME RecoverRunning PROVE LockTable'
  <2>1. \A k \in LockKey : lock'[k] = NoJob
    BY <1>13 DEF RecoverRunning
  <2>2. \A j \in Job : status'[j] # "running"
    BY <1>13 DEF RecoverRunning, AfterRestart, Running
  <2> QED
    BY <2>1, <2>2 DEF LockTable
<1>14. ASSUME NEW a \in Audit, DeleteAudit(a) PROVE LockTable'
  <2>1. \A j \in Job : status[j] = "running" => AuditOf[j] # a
    BY <1>14, ActiveSeen DEF DeleteAudit, JobActive
  <2>2. \A j \in Job : status'[j] = "running" <=> status[j] = "running"
    BY <1>14, <2>1 DEF DeleteAudit, JobsOf, TypeOK
  <2>3. lock' = lock
    BY <1>14 DEF DeleteAudit
  <2> QED
    BY <2>2, <2>3 DEF LockTable, TypeOK, TakesLock, RowKey, JobKey
<1>15. CASE UNCHANGED vars \/ \E C \in SUBSET Client : Abandon(C)
  BY <1>1, <1>15 DEF vars, rows, Abandon
<1> QED
  BY <1>2, <1>3, <1>4, <1>6, <1>7, <1>8, <1>9, <1>10, <1>11, <1>12, <1>13,
     <1>14, <1>15
     DEF Next, RequestCancel, CompleteJob, FailJob, CancelRunningJob,
         JobTerminal, JobActive, JobStatus

\* An empty database has no lock rows and no running jobs.
LEMMA InitLockTable == Init => LockTable
BY DEF Init, LockTable

\* The lock rows are exactly the rows of the running jobs, at every moment.
THEOREM LockTableCorrect == Spec => []LockTable
<1>1. TypeOK /\ LockTable /\ [Next]_vars => LockTable'
  BY LockTableStep
<1> QED
  BY <1>1, InitLockTable, TypeCorrect, PTL DEF Spec

\* Two running jobs with one key would both be the holder of its only row.
LEMMA LockTableExcludes == TypeOK /\ LockTable => ResourceExclusive
BY DEF ResourceExclusive, LockTable, TakesLock, RowKey, TypeOK

\* No two running jobs share a resource key, whatever the keys are.
THEOREM ResourcesExclusive == Spec => []ResourceExclusive
BY LockTableExcludes, LockTableCorrect, TypeCorrect, PTL
-----------------------------------------------------------------------------
(***************************************************************************)
(* Group limits.  Only a claim adds a running job, and the rows that       *)
(* _resource_available counts are the running jobs of the group.           *)
(***************************************************************************)
RunningIn(g) == {j \in Job : GroupOf[j] = g /\ status[j] = "running"}

\* The jobs of a group that run are a finite set.
LEMMA RunningInFinite ==
    ASSUME NEW g PROVE IsFiniteSet(RunningIn(g)) /\ Cardinality(RunningIn(g)) \in Nat
BY JobAssumption, FS_Subset, FS_CardinalityType DEF RunningIn

\* The rows _resource_available counts are those of the group's running jobs.
LEMMA GroupRowsRunning ==
    ASSUME TypeOK, LockTable, NEW g \in Group
    PROVE  GroupRows(g) = RunningIn(g)
<1>1. ASSUME NEW i \in Job, GroupOf[i] = g, status[i] = "running"
      PROVE  \E k \in LockKey : lock[k] = i
  BY <1>1, RowKeyType, KeyAssumption DEF LockTable, TakesLock
<1>2. ASSUME NEW i \in Job, NEW k \in LockKey, lock[k] = i
      PROVE  status[i] = "running"
  BY <1>2, JobAssumption DEF LockTable
<1> QED
  BY <1>1, <1>2 DEF GroupRows, RunningIn

\* A set below a limit is within the limit after one element is added.
LEMMA AddOneBound ==
    ASSUME NEW S, IsFiniteSet(S), NEW x
    PROVE  /\ IsFiniteSet(S \cup {x})
           /\ Cardinality(S \cup {x}) <= Cardinality(S) + 1
           /\ Cardinality(S \cup {x}) \in Nat
<1>1. Cardinality(S) \in Nat
  BY FS_CardinalityType
<1>2. CASE x \in S
  <2>1. S \cup {x} = S
    BY <1>2
  <2>2. /\ IsFiniteSet(S) /\ Cardinality(S) <= Cardinality(S) + 1
    BY <1>1
  <2> QED
    BY ONLY <1>1, <2>1, <2>2, Zenon
<1>3. CASE x \notin S
  <2>1. IsFiniteSet(S \cup {x}) /\ Cardinality(S \cup {x}) = Cardinality(S) + 1
    BY <1>3, FS_AddElement
  <2> QED
    BY <1>1, <2>1
<1> QED
  BY <1>2, <1>3

\* Only a claim makes a job run.
LEMMA OnlyClaimStarts ==
    ASSUME TypeOK, [Next]_vars, NEW j \in Job,
           status[j] # "running", status'[j] = "running"
    PROVE  ClaimNext(j)
<1>1. ASSUME NEW c \in Client, InsertJob(c) PROVE FALSE
  BY <1>1, RequestShape DEF TypeOK, InsertJob, Insert
<1>2. ASSUME NEW i \in Job, EnqueueAnalysis(i)
               \/ \E source \in Job : Retry(i, source)
      PROVE  FALSE
  BY <1>2 DEF TypeOK, EnqueueAnalysis, Retry, Insert
<1>3. ASSUME NEW i \in Job, NEW final \in JobTerminal, FinishJob(i, final)
      PROVE  FALSE
  BY <1>3 DEF TypeOK, FinishJob, JobTerminal, JobActive
<1>4. ASSUME NEW i \in Job, CancelQueued(i) PROVE FALSE
  BY <1>4 DEF TypeOK, CancelQueued
<1>5. ASSUME NEW i \in Job, ClaimNext(i) PROVE i = j
  BY <1>5 DEF TypeOK, ClaimNext
<1>6. ASSUME NEW a \in Audit, DeleteAudit(a) PROVE FALSE
  BY <1>6 DEF TypeOK, DeleteAudit
<1>7. ASSUME RecoverRunning PROVE FALSE
  BY <1>7 DEF TypeOK, RecoverRunning, AfterRestart, Running
<1>8. ASSUME NEW c \in Client,
             \/ \E a \in Audit : CreateAudit(c, a)
             \/ SnapshotStored(c) \/ SnapshotFailed(c) \/ FailAudit(c)
             \/ WriteProgress(c)
             \/ \E i \in Job : ReadForCreate(c, i)
             \/ \E i \in Job, p \in 0..Full : ReadProgress(c, i, p)
      PROVE  FALSE
  BY <1>8 DEF CreateAudit, SnapshotStored, SnapshotFailed, FailAudit,
              WriteProgress, ReadForCreate, ReadProgress, rows
<1>9. ASSUME NEW i \in Job, FlagRunning(i) \/ StorePcap(i) \/ DeletePcap(i)
               \/ ExpirePcap(i)
      PROVE  FALSE
  BY <1>9 DEF FlagRunning, StorePcap, DeletePcap, ExpirePcap
<1>10. ~ClaimNothing /\ ~UNCHANGED vars /\ ~\E C \in SUBSET Client : Abandon(C)
  BY DEF ClaimNothing, Abandon, vars, rows
<1> QED
  BY <1>1, <1>2, <1>3, <1>4, <1>5, <1>6, <1>7, <1>8, <1>9, <1>10
     DEF Next, RequestCancel, CompleteJob, FailJob, CancelRunningJob,
         JobTerminal, JobActive, JobStatus

\* A claim counts the group's lock rows before it adds one, and nothing else
\* starts a job, so the group stays within its limit.
LEMMA GroupStep ==
    ASSUME TypeOK, LockTable, GroupWithinLimit, [Next]_vars
    PROVE  GroupWithinLimit'
<1> SUFFICES ASSUME NEW g \in Group, Limit[g] # 0
             PROVE  Cardinality(RunningIn(g)') <= Limit[g]
  BY DEF GroupWithinLimit, RunningIn
<1>0. /\ IsFiniteSet(RunningIn(g)) /\ Cardinality(RunningIn(g)) \in Nat
      /\ Cardinality(RunningIn(g)) <= Limit[g]
      /\ Limit[g] \in Nat
  BY RunningInFinite, RowAssumption DEF GroupWithinLimit, RunningIn
<1>1. CASE \E j \in Job : GroupOf[j] = g /\ ClaimNext(j)
  <2>1. PICK j \in Job : GroupOf[j] = g /\ ClaimNext(j)
    BY <1>1
  <2>2. Cardinality(RunningIn(g)) < Limit[g]
    BY <2>1, GroupRowsRunning, KeyAssumption
       DEF ClaimNext, ResourceAvailable, LimitedGroup
  <2>3. RunningIn(g)' \subseteq RunningIn(g) \cup {j}
    BY <2>1 DEF ClaimNext, RunningIn, TypeOK
  <2>4. /\ IsFiniteSet(RunningIn(g) \cup {j})
        /\ Cardinality(RunningIn(g) \cup {j}) <= Cardinality(RunningIn(g)) + 1
        /\ Cardinality(RunningIn(g) \cup {j}) \in Nat
    BY <1>0, AddOneBound
  <2>5. /\ Cardinality(RunningIn(g)') <= Cardinality(RunningIn(g) \cup {j})
        /\ Cardinality(RunningIn(g)') \in Nat
    BY <2>3, <2>4, FS_Subset, FS_CardinalityType
  <2> QED
    BY <1>0, <2>2, <2>4, <2>5
<1>2. CASE ~\E j \in Job : GroupOf[j] = g /\ ClaimNext(j)
  <2>1. RunningIn(g)' \subseteq RunningIn(g)
    BY <1>2, OnlyClaimStarts DEF RunningIn
  <2>2. /\ Cardinality(RunningIn(g)') <= Cardinality(RunningIn(g))
        /\ Cardinality(RunningIn(g)') \in Nat
    BY <1>0, <2>1, FS_Subset, FS_CardinalityType
  <2> QED
    BY <1>0, <2>2
<1> QED
  BY <1>1, <1>2

\* A resource group never has more running jobs than its limit.
THEOREM GroupsWithinLimit == Spec => []GroupWithinLimit
<1>1. Init => GroupWithinLimit
  <2> SUFFICES ASSUME Init, NEW g \in Group, Limit[g] # 0
               PROVE  Cardinality(RunningIn(g)) <= Limit[g]
    BY DEF GroupWithinLimit, RunningIn
  <2>1. RunningIn(g) = {}
    BY DEF Init, RunningIn
  <2> QED
    BY <2>1, FS_EmptySet, RowAssumption
<1>2. TypeOK /\ LockTable /\ GroupWithinLimit /\ [Next]_vars
        => GroupWithinLimit'
  BY GroupStep
<1> QED
  BY <1>1, <1>2, TypeCorrect, LockTableCorrect, PTL DEF Spec
-----------------------------------------------------------------------------
(***************************************************************************)
(* Audits.  When the requests on one audit do not overlap, AuditAccounts   *)
(* is inductive together with TypeOK.                                      *)
(***************************************************************************)

\* The statuses of an audit depend only on its own jobs.
LEMMA StatusesSame ==
    ASSUME NEW a, NEW st, NEW su, \A j \in JobsOf(a) : st[j] = su[j]
    PROVE  Statuses(a, st) = Statuses(a, su)
BY DEF Statuses

\* What _refresh_audit writes accounts for the jobs.
LEMMA RefreshAccounts ==
    ASSUME NEW a \in Audit, Statuses(a, status') # {},
           audit'[a] = DesiredAudit(Statuses(a, status'))
    PROVE  AuditAccountsFor(a)'
<1> DEFINE S == Statuses(a, status')
<1>1. DesiredAudit(S) = "running" => S \cap JobActive # {}
  BY DEF DesiredAudit
<1>2. DesiredAudit(S) \in {"running", "completed", "failed", "cancelled",
                           "interrupted"}
  BY DEF DesiredAudit
<1>3. /\ audit'[a] \notin {"absent", "deleted"}
      /\ audit'[a] # "created"
      /\ audit'[a] = "running" => S \cap JobActive # {}
      /\ S # {} /\ audit'[a] = DesiredAudit(S)
  BY <1>1, <1>2
<1>4. Statuses(a, status)' = S
  BY DEF Statuses, JobsOf
<1> QED
  BY <1>3, <1>4 DEF AuditAccountsFor

\* An audit whose own row and jobs a step leaves alone.
LEMMA UntouchedAccounts ==
    ASSUME NEW a \in Audit, AuditAccountsFor(a), audit'[a] = audit[a],
           \A j \in JobsOf(a) : status'[j] = status[j]
    PROVE  AuditAccountsFor(a)'
<1>1. Statuses(a, status') = Statuses(a, status)
  BY StatusesSame
<1>2. Statuses(a, status)' = Statuses(a, status')
  BY DEF Statuses, JobsOf
<1> QED
  BY <1>1, <1>2 DEF AuditAccountsFor

\* The status of a job row is among the statuses of its audit.
LEMMA StatusIn ==
    ASSUME NEW a, NEW st, NEW j \in Job, AuditOf[j] = a, st[j] \in JobStatus
    PROVE  st[j] \in Statuses(a, st)
BY DEF Statuses, JobsOf

\* Active work is found in an audit that is not finished.
LEMMA ActiveAudit ==
    ASSUME TypeOK, AuditAccounts, NEW j \in Job, status[j] \in JobActive
    PROVE  /\ audit[AuditOf[j]] \in {"created", "running"}
           /\ status[j] = "running" => audit[AuditOf[j]] = "running"
<1> DEFINE a == AuditOf[j]
<1> DEFINE S == Statuses(a, status)
<1>1. a \in Audit /\ AuditAccountsFor(a)
  BY RowAssumption DEF AuditAccounts
<1>2. status[j] \in S /\ S \cap JobActive # {}
  BY StatusIn DEF JobActive, JobStatus
<1>3. DesiredAudit(S) = "running"
  BY <1>2 DEF DesiredAudit
<1>4. audit[a] \in AuditStatus \cup {"absent", "deleted"}
  BY <1>1 DEF TypeOK
<1> QED
  BY <1>1, <1>2, <1>3, <1>4 DEF AuditAccountsFor, AuditTerminal, AuditStatus

\* A step that gives one job of an audit an active status, in a running audit.
LEMMA ActiveAccounts ==
    ASSUME NEW a \in Audit, NEW j \in Job, AuditOf[j] = a,
           status'[j] \in JobActive, audit'[a] = "running"
    PROVE  AuditAccountsFor(a)'
<1>1. status'[j] \in Statuses(a, status')
  BY StatusIn DEF JobActive, JobStatus
<1>2. Statuses(a, status)' = Statuses(a, status')
  BY DEF Statuses, JobsOf
<1> QED
  BY <1>1, <1>2 DEF AuditAccountsFor, AuditTerminal

\* Every operation leaves each audit with a status that accounts for its jobs,
\* when no other request writes between a read and its write.
LEMMA AccountsStep ==
    ASSUME ~Overlap, TypeOK, AuditAccounts, [Next]_vars
    PROVE  AuditAccounts'
<1> SUFFICES ASSUME NEW a \in Audit PROVE AuditAccountsFor(a)'
  BY DEF AuditAccounts
<1>0. AuditAccountsFor(a)
  BY DEF AuditAccounts
<1>1. ASSUME UNCHANGED <<audit, status>> PROVE AuditAccountsFor(a)'
  BY <1>0, <1>1, UntouchedAccounts
<1>2. ASSUME NEW c \in Client, NEW b \in Audit, CreateAudit(c, b)
      PROVE  AuditAccountsFor(a)'
  <2>1. CASE a = b
    <3>1. Statuses(a, status)' = {} /\ audit'[a] = "created"
      BY <1>0, <1>2, <2>1
         DEF CreateAudit, AuditAccountsFor, TypeOK, Statuses, JobsOf
    <3> QED
      BY <3>1 DEF AuditAccountsFor, AuditTerminal
  <2>2. CASE a # b
    BY <1>0, <1>2, <2>2, UntouchedAccounts DEF CreateAudit, TypeOK
  <2> QED
    BY <2>1, <2>2
<1>3. ASSUME NEW c \in Client, FailAudit(c) PROVE AuditAccountsFor(a)'
  <2> DEFINE b == request[c].audit
  <2>1. b \in Audit
    BY <1>3, RequestShape DEF FailAudit, TypeOK
  <2>2. CASE a = b
    <3>1. Statuses(a, status)' = {} /\ audit'[a] = "failed"
      BY <1>3, <2>1, <2>2 DEF FailAudit, TypeOK, Statuses, JobsOf
    <3> QED
      BY <3>1 DEF AuditAccountsFor, AuditTerminal
  <2>3. CASE a # b
    BY <1>0, <1>3, <2>1, <2>3, UntouchedAccounts DEF FailAudit, TypeOK
  <2> QED
    BY <2>2, <2>3
<1>4. ASSUME NEW c \in Client,
             \/ SnapshotStored(c) \/ SnapshotFailed(c)
             \/ WriteProgress(c)
             \/ \E j \in Job : ReadForCreate(c, j)
             \/ \E j \in Job, p \in 0..Full : ReadProgress(c, j, p)
      PROVE  AuditAccountsFor(a)'
  BY <1>1, <1>4 DEF SnapshotStored, SnapshotFailed, WriteProgress,
                    ReadForCreate, ReadProgress, rows
<1>5. ASSUME NEW j \in Job, Insert(j), AuditOf[j] # a, audit'[a] = audit[a]
      PROVE  AuditAccountsFor(a)'
  BY <1>0, <1>5, UntouchedAccounts DEF Insert, JobsOf, TypeOK
<1>6. ASSUME NEW j \in Job, Insert(j), AuditOf[j] = a, audit'[a] = "running"
      PROVE  AuditAccountsFor(a)'
  BY <1>6, ActiveAccounts DEF Insert, TypeOK, JobActive
<1>7. ASSUME NEW c \in Client, InsertJob(c) PROVE AuditAccountsFor(a)'
  <2> DEFINE j == request[c].job
  <2>1. /\ j \in Job /\ Insert(j) /\ status[j] = "absent"
        /\ audit[AuditOf[j]] = request[c].seen
        /\ request[c].seen \in AUDIT_JOB_ACCEPTING
        /\ audit' = IF request[c].seen = "completed"
                      THEN [audit EXCEPT ![AuditOf[j]] = "running"] ELSE audit
    BY <1>7, RequestShape DEF InsertJob, TypeOK
  <2>2. CASE AuditOf[j] # a
    BY <1>5, <2>1, <2>2, RowAssumption DEF TypeOK
  <2>3. CASE AuditOf[j] = a /\ audit[a] \in {"running", "completed"}
    <3>1. audit'[a] = "running"
      BY <2>1, <2>3 DEF TypeOK
    <3> QED
      BY <1>6, <2>1, <2>3, <3>1
  <2>4. CASE AuditOf[j] = a /\ audit[a] = "created"
    <3>1. audit'[a] = "created"
      BY <2>1, <2>4
    <3>2. Statuses(a, status)' \subseteq Statuses(a, status) \cup {"queued"}
      BY <2>1 DEF Insert, Statuses, JobsOf, TypeOK
    <3>3. Statuses(a, status)' \subseteq {"queued"}
      BY <1>0, <2>4, <3>2 DEF AuditAccountsFor
    <3> QED
      BY <3>1, <3>3 DEF AuditAccountsFor, AuditTerminal
  <2> QED
    BY <2>1, <2>2, <2>3, <2>4 DEF AUDIT_JOB_ACCEPTING
<1>8. ASSUME NEW j \in Job, EnqueueAnalysis(j)
               \/ \E source \in Job : Retry(j, source)
      PROVE  AuditAccountsFor(a)'
  <2>1. Insert(j) /\ audit' = [audit EXCEPT ![AuditOf[j]] = "running"]
    BY <1>8 DEF EnqueueAnalysis, Retry
  <2> QED
    BY <1>5, <1>6, <2>1 DEF TypeOK
<1>9. ASSUME NEW j \in Job, NEW final \in JobTerminal, status[j] \in JobActive,
             status' = [status EXCEPT ![j] = final],
             audit' = [audit EXCEPT ![AuditOf[j]] =
                         Refreshed(AuditOf[j], status')]
      PROVE  AuditAccountsFor(a)'
  <2>1. CASE AuditOf[j] # a
    BY <1>0, <1>9, <2>1, UntouchedAccounts DEF TypeOK, JobsOf
  <2>2. CASE AuditOf[j] = a
    <3>0. status'[j] = final /\ final \in JobStatus
      BY <1>9 DEF TypeOK, JobTerminal
    <3>1. final \in Statuses(a, status')
      BY <2>2, <3>0, StatusIn
    <3>2. audit'[a] = DesiredAudit(Statuses(a, status'))
      BY <1>9, <2>2, <3>1 DEF TypeOK, Refreshed
    <3> QED
      BY <3>1, <3>2, RefreshAccounts
  <2> QED
    BY <2>1, <2>2
<1>10. ASSUME NEW j \in Job, CancelQueued(j) PROVE AuditAccountsFor(a)'
  BY <1>9, <1>10 DEF CancelQueued, JobTerminal, JobActive, JobStatus
<1>11. ASSUME NEW j \in Job, FlagRunning(j) \/ StorePcap(j) \/ DeletePcap(j)
                \/ ExpirePcap(j)
       PROVE  AuditAccountsFor(a)'
  BY <1>1, <1>11 DEF FlagRunning, StorePcap, DeletePcap, ExpirePcap
<1>12. ASSUME NEW j \in Job, ClaimNext(j) PROVE AuditAccountsFor(a)'
  <2>1. /\ status' = [status EXCEPT ![j] = "running"]
        /\ status[j] = "queued"
        /\ audit' = IF audit[AuditOf[j]] \in {"created", "completed"}
                      THEN [audit EXCEPT ![AuditOf[j]] = "running"] ELSE audit
    BY <1>12 DEF ClaimNext, Queued
  <2>2. audit[AuditOf[j]] \in {"created", "running"}
    BY <2>1, ActiveAudit DEF JobActive
  <2>3. CASE AuditOf[j] = a
    <3>1. audit'[a] = "running" /\ status'[j] = "running"
      BY <2>1, <2>2, <2>3 DEF TypeOK
    <3> QED
      BY <2>3, <3>1, ActiveAccounts DEF JobActive
  <2>4. CASE AuditOf[j] # a
    BY <1>0, <2>1, <2>4, UntouchedAccounts, RowAssumption DEF TypeOK, JobsOf
  <2> QED
    BY <2>3, <2>4
<1>13. ASSUME ClaimNothing PROVE AuditAccountsFor(a)'
  BY <1>1, <1>13 DEF ClaimNothing
<1>14. ASSUME NEW j \in Job, NEW final \in JobTerminal, FinishJob(j, final)
       PROVE  AuditAccountsFor(a)'
  <2>1. status[j] \in JobActive
    BY <1>14 DEF FinishJob, JOB_TRANSITIONS, JobActive
  <2> QED
    BY <1>9, <1>14, <2>1 DEF FinishJob
<1>15. ASSUME RecoverRunning PROVE AuditAccountsFor(a)'
  <2>1. CASE a \in RestartAudits
    <3>1. PICK j \in Job : status[j] = "running" /\ AuditOf[j] = a
      BY <2>1 DEF RestartAudits, Running
    <3>2. status'[j] = "interrupted"
      BY <1>15, <3>1 DEF RecoverRunning, AfterRestart, Running
    <3>3. "interrupted" \in Statuses(a, status')
      BY <3>1, <3>2, StatusIn DEF JobStatus
    <3>4. audit'[a] = DesiredAudit(Statuses(a, status'))
      BY <1>15, <2>1, <3>3 DEF RecoverRunning, Refreshed
    <3> QED
      BY <3>3, <3>4, RefreshAccounts
  <2>2. CASE a \notin RestartAudits
    <3>1. \A j \in JobsOf(a) : status'[j] = status[j]
      BY <1>15, <2>2
         DEF RecoverRunning, AfterRestart, RestartAudits, Running, JobsOf
    <3> QED
      BY <1>0, <1>15, <2>2, <3>1, UntouchedAccounts DEF RecoverRunning
  <2> QED
    BY <2>1, <2>2
<1>16. ASSUME NEW b \in Audit, DeleteAudit(b) PROVE AuditAccountsFor(a)'
  <2>1. CASE a = b
    <3>1. Statuses(a, status)' = {} /\ audit'[a] = "deleted"
      BY <1>16, <2>1 DEF DeleteAudit, Statuses, JobsOf, JobStatus, TypeOK
    <3> QED
      BY <3>1 DEF AuditAccountsFor, AuditTerminal
  <2>2. CASE a # b
    BY <1>0, <1>16, <2>2, UntouchedAccounts DEF DeleteAudit, JobsOf, TypeOK
  <2> QED
    BY <2>1, <2>2
<1>17. CASE UNCHANGED vars \/ \E C \in SUBSET Client : Abandon(C)
  BY <1>1, <1>17 DEF vars, rows, Abandon
<1> QED
  BY <1>2, <1>3, <1>4, <1>7, <1>8, <1>10, <1>11, <1>12, <1>13, <1>14, <1>15,
     <1>16, <1>17
     DEF Next, RequestCancel, CompleteJob, FailJob, CancelRunningJob,
         JobTerminal, JobActive, JobStatus

\* With no overlapping requests the status of every audit accounts for its jobs.
THEOREM AuditsAccounted == ASSUME ~Overlap PROVE Spec => []AuditAccounts
<1>1. Init => AuditAccounts
  <2> SUFFICES ASSUME Init, NEW a \in Audit PROVE AuditAccountsFor(a)
    BY DEF AuditAccounts
  <2>1. Statuses(a, status) = {} /\ audit[a] = "absent"
    BY DEF Init, Statuses, JobsOf, JobStatus
  <2> QED
    BY <2>1 DEF AuditAccountsFor, AuditTerminal
<1>2. TypeOK /\ AuditAccounts /\ [Next]_vars => AuditAccounts'
  BY AccountsStep
<1> QED
  BY <1>1, <1>2, TypeCorrect, PTL DEF Spec

\* The audit of a running job is running.
LEMMA RunningAudit ==
    ASSUME NEW a \in Audit, audit[a] = "running", NEW st
    PROVE  RefreshAllowed(a, st)
BY DEF RefreshAllowed, Refreshed, DesiredAudit, AUDIT_TRANSITIONS,
       AuditTerminal

\* Every way a job can end passes require_audit_transition.
THEOREM EndingsAlwaysAccepted ==
    ASSUME ~Overlap PROVE Spec => [](EndingsAccepted /\ RestartAccepted)
<1>1. ASSUME TypeOK, AuditAccounts PROVE EndingsAccepted /\ RestartAccepted
  <2>1. ASSUME NEW j \in Job, status[j] = "running", NEW st
        PROVE  RefreshAllowed(AuditOf[j], st)
    <3>1. AuditOf[j] \in Audit /\ audit[AuditOf[j]] = "running"
      BY <1>1, <2>1, ActiveAudit, RowAssumption DEF JobActive
    <3> QED
      BY <3>1, RunningAudit
  <2>2. ASSUME NEW j \in Job, status[j] = "queued"
        PROVE  RefreshAllowed(AuditOf[j], [status EXCEPT ![j] = "cancelled"])
    <3> DEFINE a == AuditOf[j]
    <3> DEFINE st == [status EXCEPT ![j] = "cancelled"]
    <3>1. a \in Audit /\ audit[a] \in {"created", "running"}
      BY <1>1, <2>2, ActiveAudit, RowAssumption DEF JobActive
    <3>2. CASE audit[a] = "running"
      BY <3>1, <3>2, RunningAudit
    <3>3. CASE audit[a] = "created"
      <4>1. Statuses(a, status) \subseteq {"queued"}
        BY <1>1, <3>1, <3>3 DEF AuditAccounts, AuditAccountsFor
      <4>2. Statuses(a, st) \subseteq Statuses(a, status) \cup {"cancelled"}
        BY <1>1 DEF Statuses, TypeOK, JobsOf
      <4>3. Statuses(a, st) \subseteq {"queued", "cancelled"}
        BY <4>1, <4>2
      <4>4. st[j] = "cancelled"
        BY <1>1 DEF TypeOK
      <4>5. "cancelled" \in Statuses(a, st)
        BY <4>4 DEF Statuses, JobsOf, JobStatus
      <4>6. DesiredAudit(Statuses(a, st)) \in {"running", "cancelled"}
        BY <4>3, <4>5 DEF DesiredAudit, JobActive
      <4>7. Refreshed(a, st) \in {"running", "cancelled"}
        BY <4>5, <4>6 DEF Refreshed
      <4>8. {"running", "cancelled"} \subseteq AUDIT_TRANSITIONS(audit[a])
        BY <3>3 DEF AUDIT_TRANSITIONS, AuditTerminal
      <4>9. RefreshAllowed(a, st)
        BY <4>7, <4>8 DEF RefreshAllowed
      <4> QED
        BY <4>9
    <3> QED
      BY <3>1, <3>2, <3>3
  <2>3. EndingsAccepted
    BY <2>1, <2>2 DEF EndingsAccepted, Running, Queued
  <2>4. RestartAccepted
    BY <2>1 DEF RestartAccepted, RestartAudits, Running
  <2> QED
    BY <2>3, <2>4
<1> QED
  BY <1>1, AuditsAccounted, TypeCorrect, PTL

-----------------------------------------------------------------------------
\* What a step may do to a job that has ended.
LEMMA TerminalStep ==
    ASSUME ~Overlap, TypeOK, [Next]_vars,
           NEW j \in Job, status[j] \in JobTerminal
    PROVE  \/ status'[j] = "deleted"
           \/ /\ status'[j] = status[j]
              /\ stage'[j] = stage[j]
              /\ progress'[j] = progress[j]
<1> DEFINE Kept == /\ status'[j] = status[j]
                   /\ stage'[j] = stage[j]
                   /\ progress'[j] = progress[j]
<1>0. status[j] \notin {"queued", "running", "absent", "deleted"}
  BY DEF JobTerminal, JobActive, JobStatus
<1>1. ASSUME NEW c \in Client, InsertJob(c) PROVE Kept
  BY <1>0, <1>1, RequestShape DEF TypeOK, InsertJob, Insert
<1>2. ASSUME NEW i \in Job, EnqueueAnalysis(i)
               \/ \E source \in Job : Retry(i, source)
      PROVE  Kept
  BY <1>0, <1>2 DEF TypeOK, EnqueueAnalysis, Retry, Insert
<1>3. ASSUME NEW i \in Job, NEW final \in JobTerminal, FinishJob(i, final)
      PROVE  Kept
  <2>1. i # j
    BY <1>0, <1>3 DEF FinishJob, JOB_TRANSITIONS
  <2> QED
    BY <1>3, <2>1 DEF TypeOK, FinishJob
<1>4. ASSUME NEW i \in Job, CancelQueued(i) PROVE Kept
  BY <1>0, <1>4 DEF TypeOK, CancelQueued
<1>5. ASSUME NEW i \in Job, ClaimNext(i) PROVE Kept
  BY <1>0, <1>5 DEF TypeOK, ClaimNext, Queued
<1>6. ASSUME NEW a \in Audit, DeleteAudit(a) PROVE Kept \/ status'[j] = "deleted"
  BY <1>0, <1>6 DEF TypeOK, DeleteAudit
<1>7. ASSUME RecoverRunning PROVE Kept
  BY <1>0, <1>7 DEF TypeOK, RecoverRunning, AfterRestart, Running
<1>8. ASSUME NEW c \in Client, WriteProgress(c) PROVE Kept
  BY <1>0, <1>8, RequestShape DEF TypeOK, WriteProgress
<1>9. ASSUME NEW c \in Client,
             \/ \E a \in Audit : CreateAudit(c, a)
             \/ SnapshotStored(c) \/ SnapshotFailed(c) \/ FailAudit(c)
             \/ \E i \in Job : ReadForCreate(c, i)
             \/ \E i \in Job, p \in 0..Full : ReadProgress(c, i, p)
      PROVE  Kept
  BY <1>9 DEF CreateAudit, SnapshotStored, SnapshotFailed, FailAudit,
              ReadForCreate, ReadProgress, rows
<1>10. ASSUME NEW i \in Job, FlagRunning(i) \/ StorePcap(i) \/ DeletePcap(i)
                \/ ExpirePcap(i)
       PROVE  Kept
  BY <1>10 DEF FlagRunning, StorePcap, DeletePcap, ExpirePcap
<1>11. ASSUME \/ ClaimNothing \/ UNCHANGED vars
              \/ \E C \in SUBSET Client : Abandon(C)
       PROVE  Kept
  BY <1>0, <1>11 DEF TypeOK, ClaimNothing, Abandon, Queued, vars, rows
<1> QED
  BY <1>1, <1>2, <1>3, <1>4, <1>5, <1>6, <1>7, <1>8, <1>9, <1>10, <1>11
     DEF Next, RequestCancel, CompleteJob, FailJob, CancelRunningJob,
         JobTerminal, JobActive, JobStatus

\* A job that has ended is never touched again, short of its deletion.
THEOREM TerminalsImmutable == ASSUME ~Overlap PROVE Spec => TerminalImmutable
<1>1. TypeOK /\ [Next]_vars =>
        [\A j \in Job : status[j] \in JobTerminal =>
          \/ status'[j] = "deleted"
          \/ /\ status'[j] = status[j]
             /\ stage'[j] = stage[j]
             /\ progress'[j] = progress[j]]_vars
  BY TerminalStep
<1> QED
  BY <1>1, TypeCorrect, PTL DEF Spec, TerminalImmutable

-----------------------------------------------------------------------------
(***************************************************************************)
(* Refinement.  The status column steps as JobStages says; LockTable makes *)
(* the lock rows that a claim looks at speak for the running jobs.         *)
(***************************************************************************)
LEMMA SameCardinality == \A S : Stages!Cardinality(S) = Cardinality(S)
BY DEF Stages!Cardinality, Cardinality

\* What _resource_available reads in resource_locks is what the abstract
\* specification demands of the running jobs.
LEMMA ClaimMayRun ==
    ASSUME TypeOK, LockTable, NEW j \in Job, ResourceAvailable(j)
    PROVE  Stages!MayRun(j)
<1>1. ASSUME KeyOf[j] # NoKey, NEW i \in Job, KeyOf[i] = KeyOf[j]
      PROVE  status[i] # "running"
  <2>1. lock[RowKey(i)] = NoJob /\ TakesLock(i)
    BY <1>1 DEF ResourceAvailable, RowKey, TakesLock
  <2> QED
    BY <2>1, JobAssumption DEF LockTable
<1>2. ASSUME GroupOf[j] # NoGroup, Limit[GroupOf[j]] # 0
      PROVE  Cardinality(Stages!Active(GroupOf[j])) < Limit[GroupOf[j]]
  <2>1. GroupOf[j] \in Group
    BY <1>2, RowAssumption
  <2>2. Stages!Active(GroupOf[j]) = GroupRows(GroupOf[j])
    BY <2>1, GroupRowsRunning DEF Stages!Active, RunningIn
  <2> QED
    BY <1>2, <2>2 DEF ResourceAvailable, LimitedGroup
<1>3. KeyOf[j] # NoKey =>
        \A i \in Job : KeyOf[i] = KeyOf[j] => status[i] # "running"
  BY <1>1
<1>4. GroupOf[j] # NoGroup /\ Limit[GroupOf[j]] # 0 =>
        Cardinality(Stages!Active(GroupOf[j])) < Limit[GroupOf[j]]
  BY <1>2
<1> QED
  BY <1>3, <1>4, SameCardinality DEF Stages!MayRun

\* Every operation of the service is a step of the abstract specification or
\* leaves the status column unchanged.
LEMMA StagesStep ==
    ASSUME TypeOK, LockTable, [Next]_vars
    PROVE  [Stages!Next]_status
<1>1. ASSUME NEW j \in Job, status[j] = "absent", Insert(j) PROVE Stages!Next
  BY <1>1 DEF Insert, Stages!Next, Stages!Submit
<1>2. ASSUME NEW c \in Client, InsertJob(c) PROVE Stages!Next
  BY <1>1, <1>2, RequestShape DEF TypeOK, InsertJob
<1>3. ASSUME NEW j \in Job, EnqueueAnalysis(j)
               \/ \E source \in Job : Retry(j, source)
      PROVE  Stages!Next
  BY <1>1, <1>3 DEF EnqueueAnalysis, Retry
<1>4. ASSUME NEW j \in Job, CancelQueued(j) PROVE Stages!Next
  BY <1>4 DEF CancelQueued, Stages!Next, Stages!Withdraw
<1>5. ASSUME NEW j \in Job, ClaimNext(j) PROVE Stages!Next
  <2>1. Stages!MayRun(j)
    BY <1>5, ClaimMayRun DEF ClaimNext
  <2> QED
    BY <1>5, <2>1 DEF ClaimNext, Queued, Stages!Next, Stages!Start
<1>6. ASSUME NEW j \in Job, NEW final \in JobTerminal \ {"interrupted"},
             FinishJob(j, final)
      PROVE  Stages!Next
  <2>1. status[j] = "running" \/ (status[j] = "queued" /\ final = "cancelled")
    BY <1>6 DEF FinishJob, JOB_TRANSITIONS, JobTerminal, JobActive
  <2>2. status' = [status EXCEPT ![j] = final]
    BY <1>6 DEF FinishJob
  <2>3. final \in Stages!Ended \ {"interrupted"}
    BY DEF JobTerminal, JobActive, JobStatus, Stages!Ended
  <2> QED
    BY <2>1, <2>2, <2>3 DEF Stages!Next, Stages!Finish, Stages!Withdraw
<1>7. ASSUME RecoverRunning PROVE Stages!Next
  BY <1>7 DEF RecoverRunning, AfterRestart, Running, Stages!Next, Stages!Restart
<1>8. ASSUME NEW a \in Audit, DeleteAudit(a) PROVE Stages!Next
  <2> DEFINE gone == {j \in JobsOf(a) : status[j] # "absent"}
  <2> DEFINE S == {j \in gone : status[j] # "deleted"}
  <2>1. \A j \in JobsOf(a) : status[j] \notin JobActive
    BY <1>8, ActiveSeen DEF DeleteAudit, JobsOf
  <2>2. S \subseteq {j \in Job : status[j] \in Stages!Ended}
    BY <2>1 DEF TypeOK, JobsOf, JobStatus, JobActive, Stages!Ended
  <2>3. status' = [j \in Job |-> IF j \in S THEN "deleted" ELSE status[j]]
    BY <1>8 DEF DeleteAudit, TypeOK
  <2> QED
    BY <2>2, <2>3 DEF Stages!Next, Stages!Forget
<1>9. ASSUME NEW c \in Client,
             \/ \E a \in Audit : CreateAudit(c, a)
             \/ SnapshotStored(c) \/ SnapshotFailed(c) \/ FailAudit(c)
             \/ WriteProgress(c)
             \/ \E i \in Job : ReadForCreate(c, i)
             \/ \E i \in Job, p \in 0..Full : ReadProgress(c, i, p)
      PROVE  status' = status
  BY <1>9 DEF CreateAudit, SnapshotStored, SnapshotFailed, FailAudit,
              WriteProgress, ReadForCreate, ReadProgress, rows
<1>10. ASSUME NEW i \in Job, FlagRunning(i) \/ StorePcap(i) \/ DeletePcap(i)
                \/ ExpirePcap(i)
       PROVE  status' = status
  BY <1>10 DEF FlagRunning, StorePcap, DeletePcap, ExpirePcap
<1>11. ASSUME \/ ClaimNothing \/ UNCHANGED vars
              \/ \E C \in SUBSET Client : Abandon(C)
       PROVE  status' = status
  BY <1>11 DEF ClaimNothing, Abandon, vars, rows
<1> QED
  BY <1>2, <1>3, <1>4, <1>5, <1>6, <1>7, <1>8, <1>9, <1>10, <1>11
     DEF Next, RequestCancel, CompleteJob, FailJob, CancelRunningJob,
         JobTerminal, JobActive, JobStatus

\* The job service implements the abstract life of jobs.
THEOREM ServiceImplementsStages == Spec => ImplementsStages
<1>1. Init => Stages!Init
  BY DEF Init, Stages!Init
<1>2. TypeOK /\ LockTable /\ [Next]_vars => [Stages!Next]_status
  BY StagesStep
<1> QED
  BY <1>1, <1>2, TypeCorrect, LockTableCorrect, PTL
     DEF Spec, ImplementsStages, Stages!Spec
-----------------------------------------------------------------------------
(***************************************************************************)
(* The jobs of a deleted audit, the attempts of a job, and the analyses of *)
(* an audit.  These hold whether or not requests overlap.                  *)
(***************************************************************************)

\* A job row has a live audit: the foreign key checks it at the insertion,
\* a deletion takes the rows with it, and every refresh writes a live status.
LEMMA NoOrphanStep ==
    ASSUME TypeOK, NoOrphanJob, [Next]_vars
    PROVE  NoOrphanJob'
<1>1. ASSUME UNCHANGED status,
             \A a \in Audit : audit[a] \in AuditStatus => audit'[a] \in AuditStatus
      PROVE  NoOrphanJob'
  BY <1>1, RowAssumption DEF NoOrphanJob
<1>2. ASSUME NEW j \in Job, Insert(j), audit[AuditOf[j]] \in AuditStatus,
             audit' = audit \/ audit' = [audit EXCEPT ![AuditOf[j]] = "running"]
      PROVE  NoOrphanJob'
  <2>1. \A a \in Audit : audit[a] \in AuditStatus => audit'[a] \in AuditStatus
    BY <1>2 DEF TypeOK, AuditStatus
  <2>2. \A i \in Job : i # j => status'[i] = status[i]
    BY <1>2 DEF TypeOK, Insert
  <2> QED
    BY <1>2, <2>1, <2>2, RowAssumption DEF NoOrphanJob
<1>3. ASSUME NEW j \in Job, status[j] \in JobStatus, NEW final \in JobStatus,
             status' = [status EXCEPT ![j] = final],
             audit' = [audit EXCEPT ![AuditOf[j]] = Refreshed(AuditOf[j], status')]
      PROVE  NoOrphanJob'
  <2>1. AuditOf[j] \in Audit /\ audit[AuditOf[j]] \in AuditStatus
    BY <1>3, RowAssumption DEF NoOrphanJob
  <2>2. Refreshed(AuditOf[j], status') \in AuditStatus
    BY <2>1, DesiredType DEF Refreshed
  <2> QED
    BY <1>3, <2>1, <2>2, RowAssumption DEF TypeOK, NoOrphanJob
<1>4. ASSUME NEW c \in Client, NEW a \in Audit, CreateAudit(c, a)
      PROVE  NoOrphanJob'
  BY <1>1, <1>4 DEF TypeOK, CreateAudit, AuditStatus
<1>5. ASSUME NEW c \in Client, FailAudit(c) PROVE NoOrphanJob'
  BY <1>1, <1>5, RequestShape DEF TypeOK, FailAudit, AuditStatus
<1>6. ASSUME NEW c \in Client,
             \/ SnapshotStored(c) \/ SnapshotFailed(c) \/ WriteProgress(c)
             \/ \E i \in Job : ReadForCreate(c, i)
             \/ \E i \in Job, p \in 0..Full : ReadProgress(c, i, p)
      PROVE  NoOrphanJob'
  BY <1>1, <1>6 DEF SnapshotStored, SnapshotFailed, WriteProgress,
                    ReadForCreate, ReadProgress, rows
<1>7. ASSUME NEW c \in Client, InsertJob(c) PROVE NoOrphanJob'
  BY <1>2, <1>7, RequestShape DEF TypeOK, InsertJob
<1>8. ASSUME NEW j \in Job, NEW source \in Job, Retry(j, source)
      PROVE  NoOrphanJob'
  <2>1. audit[AuditOf[j]] \in AuditStatus
    BY <1>8, RowAssumption
       DEF TypeOK, Retry, AUDIT_TRANSITIONS, AuditStatus, AuditTerminal
  <2> QED
    BY <1>2, <1>8, <2>1 DEF Retry
<1>9. ASSUME NEW j \in Job, EnqueueAnalysis(j) PROVE NoOrphanJob'
  BY <1>2, <1>9 DEF EnqueueAnalysis, AuditTerminal, AuditStatus
<1>10. ASSUME NEW j \in Job, CancelQueued(j) PROVE NoOrphanJob'
  BY <1>3, <1>10 DEF CancelQueued, JobStatus
<1>11. ASSUME NEW j \in Job, FlagRunning(j) \/ StorePcap(j) \/ DeletePcap(j)
                \/ ExpirePcap(j)
       PROVE  NoOrphanJob'
  BY <1>1, <1>11 DEF FlagRunning, StorePcap, DeletePcap, ExpirePcap
<1>12. ASSUME NEW j \in Job, ClaimNext(j) PROVE NoOrphanJob'
  <2>1. /\ status' = [status EXCEPT ![j] = "running"]
        /\ status[j] = "queued"
        /\ \/ audit' = audit
           \/ audit' = [audit EXCEPT ![AuditOf[j]] = "running"]
    BY <1>12 DEF ClaimNext, Queued
  <2>2. status[j] \in JobStatus /\ "running" \in AuditStatus
    BY <2>1 DEF JobStatus, AuditStatus
  <2> QED
    BY <2>1, <2>2, RowAssumption DEF TypeOK, NoOrphanJob
<1>13. ASSUME NEW j \in Job, NEW final \in JobTerminal, FinishJob(j, final)
       PROVE  NoOrphanJob'
  <2>1. status[j] \in JobStatus
    BY <1>13 DEF FinishJob, JOB_TRANSITIONS, JobStatus
  <2> QED
    BY <1>3, <1>13, <2>1 DEF FinishJob, JobTerminal
<1>14. ASSUME RecoverRunning PROVE NoOrphanJob'
  <2>1. \A j \in Job : status'[j] \in JobStatus => status[j] \in JobStatus
    BY <1>14 DEF RecoverRunning, AfterRestart, Running, JobStatus
  <2>2. ASSUME NEW a \in Audit, audit[a] \in AuditStatus
        PROVE  audit'[a] \in AuditStatus
    BY <1>14, <2>2, DesiredType DEF RecoverRunning, Refreshed
  <2> QED
    BY <2>1, <2>2, RowAssumption DEF NoOrphanJob
<1>15. ASSUME NEW a \in Audit, DeleteAudit(a) PROVE NoOrphanJob'
  <2>1. \A j \in Job : status'[j] \in JobStatus
                         => status[j] \in JobStatus /\ AuditOf[j] # a
    BY <1>15 DEF TypeOK, DeleteAudit, JobsOf, JobStatus
  <2>2. \A b \in Audit : b # a => audit'[b] = audit[b]
    BY <1>15 DEF TypeOK, DeleteAudit
  <2> QED
    BY <2>1, <2>2, RowAssumption DEF NoOrphanJob
<1>16. CASE \/ ClaimNothing \/ UNCHANGED vars
            \/ \E C \in SUBSET Client : Abandon(C)
  BY <1>1, <1>16 DEF ClaimNothing, vars, rows, Abandon
<1> QED
  BY <1>4, <1>5, <1>6, <1>7, <1>8, <1>9, <1>10, <1>11, <1>12, <1>13, <1>14,
     <1>15, <1>16
     DEF Next, RequestCancel, CompleteJob, FailJob, CancelRunningJob,
         JobTerminal, JobActive, JobStatus

\* No job row ever outlives its audit row, even when the audit is deleted
\* between the check of create_job and its write.
THEOREM NoOrphanJobs == Spec => []NoOrphanJob
<1>1. Init => NoOrphanJob
  BY DEF Init, NoOrphanJob, JobStatus
<1>2. TypeOK /\ NoOrphanJob /\ [Next]_vars => NoOrphanJob'
  BY NoOrphanStep
<1> QED
  BY <1>1, <1>2, TypeCorrect, PTL DEF Spec

\* What a step does to one row: nothing, insert it, claim it, end it, or
\* delete it with its audit.
RowStep(j) ==
    \/ status'[j] = status[j] /\ attempt'[j] = attempt[j]
    \/ status[j] = "absent" /\ status'[j] = "queued" /\ attempt'[j] = attempt[j]
    \/ status[j] = "queued" /\ status'[j] = "running" /\ attempt'[j] = attempt[j] + 1
    \/ status[j] \in JobActive /\ status'[j] \in JobTerminal
         /\ attempt'[j] = attempt[j]
    \/ status[j] \notin JobActive /\ status'[j] = "deleted" /\ attempt'[j] = 0

\* Every operation treats every row in one of these ways.
LEMMA RowSteps ==
    ASSUME TypeOK, [Next]_vars, NEW j \in Job
    PROVE  RowStep(j)
<1>1. ASSUME UNCHANGED <<status, attempt>> PROVE RowStep(j)
  BY <1>1 DEF RowStep
<1>2. ASSUME NEW i \in Job, status[i] = "absent", Insert(i) PROVE RowStep(j)
  BY <1>2 DEF TypeOK, Insert, RowStep
<1>3. ASSUME NEW c \in Client, InsertJob(c) PROVE RowStep(j)
  BY <1>2, <1>3, RequestShape DEF TypeOK, InsertJob
<1>4. ASSUME NEW i \in Job, EnqueueAnalysis(i)
               \/ \E source \in Job : Retry(i, source)
      PROVE  RowStep(j)
  BY <1>2, <1>4 DEF EnqueueAnalysis, Retry
<1>5. ASSUME NEW i \in Job, ClaimNext(i) PROVE RowStep(j)
  BY <1>5 DEF TypeOK, ClaimNext, Queued, RowStep
<1>6. ASSUME NEW i \in Job, NEW final \in JobTerminal, status[i] \in JobActive,
             status' = [status EXCEPT ![i] = final], attempt' = attempt
      PROVE  RowStep(j)
  BY <1>6 DEF TypeOK, RowStep
<1>7. ASSUME NEW i \in Job, CancelQueued(i) PROVE RowStep(j)
  BY <1>6, <1>7 DEF CancelQueued, JobTerminal, JobActive, JobStatus
<1>8. ASSUME NEW i \in Job, NEW final \in JobTerminal, FinishJob(i, final)
      PROVE  RowStep(j)
  BY <1>6, <1>8 DEF FinishJob, JOB_TRANSITIONS, JobActive
<1>9. ASSUME RecoverRunning PROVE RowStep(j)
  BY <1>9 DEF RecoverRunning, AfterRestart, Running, RowStep, JobTerminal,
              JobActive, JobStatus
<1>10. ASSUME NEW a \in Audit, DeleteAudit(a) PROVE RowStep(j)
  <2>1. AuditOf[j] = a => status[j] \notin JobActive
    BY <1>10, ActiveSeen DEF DeleteAudit
  <2> QED
    BY <1>10, <2>1 DEF DeleteAudit, JobsOf, RowStep
<1>11. ASSUME NEW c \in Client,
             \/ \E a \in Audit : CreateAudit(c, a)
             \/ SnapshotStored(c) \/ SnapshotFailed(c) \/ FailAudit(c)
             \/ WriteProgress(c)
             \/ \E i \in Job : ReadForCreate(c, i)
             \/ \E i \in Job, p \in 0..Full : ReadProgress(c, i, p)
      PROVE  RowStep(j)
  BY <1>1, <1>11
     DEF CreateAudit, SnapshotStored, SnapshotFailed, FailAudit,
         WriteProgress, ReadForCreate, ReadProgress, rows
<1>12. ASSUME NEW i \in Job, FlagRunning(i) \/ StorePcap(i) \/ DeletePcap(i)
                \/ ExpirePcap(i)
       PROVE  RowStep(j)
  BY <1>1, <1>12 DEF FlagRunning, StorePcap, DeletePcap, ExpirePcap
<1>13. CASE \/ ClaimNothing \/ UNCHANGED vars
            \/ \E C \in SUBSET Client : Abandon(C)
  BY <1>1, <1>13 DEF ClaimNothing, Abandon, vars, rows
<1> QED
  BY <1>3, <1>4, <1>5, <1>7, <1>8, <1>9, <1>10, <1>11, <1>12, <1>13
     DEF Next, RequestCancel, CompleteJob, FailJob, CancelRunningJob,
         JobTerminal, JobActive, JobStatus

\* A row that has not been claimed has no attempt, a claimed one has one.
Attempts ==
    \A j \in Job :
        /\ attempt[j] <= 1
        /\ status[j] \in {"absent", "queued", "deleted"} => attempt[j] = 0

\* No job is ever claimed twice: what a restart interrupts is not queued
\* again, and a retry is another row.
THEOREM AttemptedOnce == Spec => []AtMostOneAttempt
<1>1. Init => Attempts
  BY DEF Init, Attempts
<1>2. TypeOK /\ Attempts /\ [Next]_vars => Attempts'
  <2> SUFFICES ASSUME TypeOK, Attempts, [Next]_vars, NEW j \in Job
               PROVE  /\ attempt'[j] <= 1
                      /\ status'[j] \in {"absent", "queued", "deleted"}
                           => attempt'[j] = 0
    BY DEF Attempts
  <2>1. RowStep(j) /\ attempt[j] \in Nat
    BY RowSteps DEF TypeOK
  <2> QED
    BY <2>1 DEF RowStep, Attempts, JobTerminal, JobActive, JobStatus
<1>3. Attempts => AtMostOneAttempt
  BY DEF Attempts, AtMostOneAttempt
<1> QED
  BY <1>1, <1>2, <1>3, TypeCorrect, PTL DEF Spec
-----------------------------------------------------------------------------
(***************************************************************************)
(* Analyses.  create_job is never asked for one, so every row of an        *)
(* analysis has been checked inside the transaction that inserted it, or   *)
(* copied from such a row.                                                 *)
(***************************************************************************)
CreatesNoAnalysis ==
    \A c \in Client : request[c].op = "create_job"
        => TypeOf[request[c].job] # "traffic_analysis"

\* An analysis row reads a capture of its own audit.
SourceInAudit ==
    \A j \in Job : TypeOf[j] = "traffic_analysis" /\ status[j] # "absent" =>
        SourceOf[j] \in Job /\ AuditOf[SourceOf[j]] = AuditOf[j]

\* The request of create_job is never for an analysis.
LEMMA CreatesNoAnalysisStep ==
    ASSUME TypeOK, CreatesNoAnalysis, [Next]_vars
    PROVE  CreatesNoAnalysis'
<1>1. ASSUME UNCHANGED request PROVE CreatesNoAnalysis'
  BY <1>1 DEF CreatesNoAnalysis
<1>2. ASSUME NEW c \in Client, NEW r,
             r.op = "create_job" => TypeOf[r.job] # "traffic_analysis",
             request' = [request EXCEPT ![c] = r]
      PROVE  CreatesNoAnalysis'
  BY <1>2 DEF TypeOK, CreatesNoAnalysis
<1>3. ASSUME NEW c \in Client, Answer(c) PROVE CreatesNoAnalysis'
  BY <1>2, <1>3 DEF Answer, Idle
<1>4. ASSUME NEW c \in Client, NEW a \in Audit, CreateAudit(c, a)
      PROVE  CreatesNoAnalysis'
  BY <1>2, <1>4 DEF CreateAudit
<1>5. ASSUME NEW c \in Client, SnapshotFailed(c) PROVE CreatesNoAnalysis'
  <2>1. request[c] \in Request /\ request[c].op = "create_audit"
    BY <1>5 DEF TypeOK, SnapshotFailed
  <2>2. [request[c] EXCEPT !.op = "fail_audit"].op = "fail_audit"
    BY <2>1 DEF Request, Idle
  <2>3. request' = [request EXCEPT ![c] =
                      [request[c] EXCEPT !.op = "fail_audit"]]
    BY <1>5 DEF SnapshotFailed
  <2> QED
    BY <1>2, <2>2, <2>3
<1>6. ASSUME NEW c \in Client, NEW j \in Job, ReadForCreate(c, j)
      PROVE  CreatesNoAnalysis'
  BY <1>2, <1>6 DEF ReadForCreate
<1>7. ASSUME NEW c \in Client, NEW j \in Job, NEW p \in 0..Full,
             ReadProgress(c, j, p)
      PROVE  CreatesNoAnalysis'
  BY <1>2, <1>7 DEF ReadProgress
<1>8. ASSUME NEW c \in Client, SnapshotStored(c) \/ FailAudit(c)
               \/ InsertJob(c) \/ WriteProgress(c)
      PROVE  CreatesNoAnalysis'
  BY <1>3, <1>8 DEF SnapshotStored, FailAudit, InsertJob, WriteProgress
<1>9. ASSUME NEW C \in SUBSET Client, Abandon(C) PROVE CreatesNoAnalysis'
  BY <1>9 DEF CreatesNoAnalysis, Abandon, Idle
<1>10. ASSUME NEW j \in Job,
              \/ \E source \in Job : Retry(j, source)
              \/ EnqueueAnalysis(j) \/ RequestCancel(j) \/ ClaimNext(j)
              \/ StorePcap(j) \/ DeletePcap(j) \/ ExpirePcap(j)
              \/ CompleteJob(j) \/ FailJob(j) \/ CancelRunningJob(j)
       PROVE  CreatesNoAnalysis'
  BY <1>1, <1>10
     DEF Retry, EnqueueAnalysis, RequestCancel, CancelQueued, FlagRunning,
         ClaimNext, StorePcap, DeletePcap, ExpirePcap, CompleteJob, FailJob,
         CancelRunningJob, FinishJob
<1>11. ASSUME \/ ClaimNothing \/ RecoverRunning \/ UNCHANGED vars
              \/ \E a \in Audit : DeleteAudit(a)
       PROVE  CreatesNoAnalysis'
  BY <1>1, <1>11 DEF ClaimNothing, RecoverRunning, DeleteAudit, vars
<1> QED
  BY <1>4, <1>5, <1>6, <1>7, <1>8, <1>9, <1>10, <1>11 DEF Next

\* A step that makes an analysis active inserts its row, with its source in
\* its own audit and no other active analysis there.
LEMMA AnalysisInserted ==
    ASSUME TypeOK, CreatesNoAnalysis, SourceInAudit, [Next]_vars,
           NEW j \in Job, TypeOf[j] = "traffic_analysis",
           status[j] = "absent", status'[j] # "absent"
    PROVE  /\ SourceOf[j] \in Job /\ AuditOf[SourceOf[j]] = AuditOf[j]
           /\ \A i \in Job : TypeOf[i] = "traffic_analysis"
                             /\ AuditOf[i] = AuditOf[j]
                => status[i] \notin JobActive
           /\ \A i \in Job : i # j => status'[i] = status[i]
<1>1. ASSUME UNCHANGED status PROVE FALSE
  BY <1>1
<1>2. ASSUME NEW i \in Job, Insert(i)
      PROVE  i = j /\ \A k \in Job : k # j => status'[k] = status[k]
  BY <1>2 DEF TypeOK, Insert
<1>3. ASSUME NEW c \in Client, InsertJob(c) PROVE FALSE
  BY <1>2, <1>3, RequestShape DEF TypeOK, InsertJob, CreatesNoAnalysis
<1>4. CASE EnqueueAnalysis(j)
  BY <1>2, <1>4, ActiveSeen DEF EnqueueAnalysis
<1>5. ASSUME NEW source \in Job, Retry(j, source)
      PROVE  /\ SourceOf[j] \in Job /\ AuditOf[SourceOf[j]] = AuditOf[j]
             /\ \A i \in Job : TypeOf[i] = "traffic_analysis"
                               /\ AuditOf[i] = AuditOf[j]
                  => status[i] \notin JobActive
             /\ \A i \in Job : i # j => status'[i] = status[i]
  <2>1. TypeOf[source] = "traffic_analysis" /\ status[source] # "absent"
    BY <1>5 DEF Retry, SameColumns, RETRYABLE_STATES
  <2>2. SourceOf[j] \in Job /\ AuditOf[SourceOf[j]] = AuditOf[j]
    BY <1>5, <2>1 DEF SourceInAudit, Retry, SameColumns
  <2> QED
    BY <1>2, <1>5, <2>2 DEF Retry, JobsOf
<1>6. ASSUME NEW i \in Job, EnqueueAnalysis(i)
               \/ \E source \in Job : Retry(i, source)
      PROVE  i = j
  BY <1>2, <1>6 DEF EnqueueAnalysis, Retry
<1>7. ASSUME NEW i \in Job, CancelQueued(i) \/ ClaimNext(i) PROVE FALSE
  BY <1>7 DEF TypeOK, CancelQueued, ClaimNext, Queued
<1>8. ASSUME NEW i \in Job, NEW final \in JobTerminal, FinishJob(i, final)
      PROVE  FALSE
  BY <1>8 DEF TypeOK, FinishJob, JOB_TRANSITIONS
<1>9. ASSUME RecoverRunning \/ \E a \in Audit : DeleteAudit(a) PROVE FALSE
  BY <1>9 DEF RecoverRunning, AfterRestart, Running, DeleteAudit
<1>10. ASSUME NEW c \in Client,
             \/ \E a \in Audit : CreateAudit(c, a)
             \/ SnapshotStored(c) \/ SnapshotFailed(c) \/ FailAudit(c)
             \/ WriteProgress(c)
             \/ \E i \in Job : ReadForCreate(c, i)
             \/ \E i \in Job, p \in 0..Full : ReadProgress(c, i, p)
      PROVE  FALSE
  BY <1>1, <1>10
     DEF CreateAudit, SnapshotStored, SnapshotFailed, FailAudit,
         WriteProgress, ReadForCreate, ReadProgress, rows
<1>11. ASSUME NEW i \in Job, FlagRunning(i) \/ StorePcap(i) \/ DeletePcap(i)
                \/ ExpirePcap(i)
       PROVE  FALSE
  BY <1>1, <1>11 DEF FlagRunning, StorePcap, DeletePcap, ExpirePcap
<1>12. ASSUME \/ ClaimNothing \/ UNCHANGED vars
              \/ \E C \in SUBSET Client : Abandon(C)
       PROVE  FALSE
  BY <1>1, <1>12 DEF ClaimNothing, Abandon, vars, rows
<1> QED
  BY <1>3, <1>4, <1>5, <1>6, <1>7, <1>8, <1>9, <1>10, <1>11, <1>12
     DEF Next, RequestCancel, CompleteJob, FailJob, CancelRunningJob,
         JobTerminal, JobActive, JobStatus

\* What makes the analyses of an audit exclusive.
AnalysisInv == CreatesNoAnalysis /\ SourceInAudit /\ OneActiveAnalysis

\* It holds at the start and every operation keeps it.
LEMMA AnalysisInvariant == Spec => []AnalysisInv
<1>1. Init => AnalysisInv
  BY DEF Init, AnalysisInv, CreatesNoAnalysis, SourceInAudit,
         OneActiveAnalysis, Idle, JobActive
<1>2. TypeOK /\ AnalysisInv /\ [Next]_vars => AnalysisInv'
  <2> SUFFICES ASSUME TypeOK, AnalysisInv, [Next]_vars PROVE AnalysisInv'
    OBVIOUS
  <2> USE DEF AnalysisInv
  <2>1. CreatesNoAnalysis'
    BY CreatesNoAnalysisStep
  <2>2. SourceInAudit'
    BY AnalysisInserted DEF SourceInAudit
  <2>3. ASSUME NEW j \in Job, status'[j] \in JobActive, status[j] \notin JobActive
        PROVE  status[j] = "absent" /\ status'[j] # "absent"
    BY <2>3, RowSteps DEF RowStep, JobActive, JobTerminal
  <2>4. ASSUME NEW i \in Job, NEW j \in Job,
               TypeOf[i] = "traffic_analysis", TypeOf[j] = "traffic_analysis",
               AuditOf[i] = AuditOf[j], status'[i] \in JobActive,
               status'[j] \in JobActive, i # j
        PROVE  FALSE
    <3>1. CASE status[i] \in JobActive /\ status[j] \in JobActive
      BY <2>4, <3>1 DEF OneActiveAnalysis
    <3>2. CASE status[i] \notin JobActive
      BY <2>3, <2>4, <3>2, AnalysisInserted
    <3>3. CASE status[j] \notin JobActive
      BY <2>3, <2>4, <3>3, AnalysisInserted
    <3> QED
      BY <3>1, <3>2, <3>3
  <2>5. OneActiveAnalysis'
    BY <2>4 DEF OneActiveAnalysis
  <2> QED
    BY <2>1, <2>2, <2>5
<1> QED
  BY <1>1, <1>2, TypeCorrect, PTL DEF Spec

\* No audit ever has two analyses queued or running, whichever of the two
\* endpoints starts them.
THEOREM OneActiveAnalysisAlways == Spec => []OneActiveAnalysis
BY AnalysisInvariant, PTL DEF AnalysisInv

\* What a step may do to the capture that an active analysis reads.
LEMMA PcapStep ==
    ASSUME TypeOK, SourceInAudit, [Next]_vars,
           NEW j \in Job, NEW source \in Job,
           TypeOf[j] = "traffic_analysis", status[j] \in JobActive,
           SourceOf[j] = source, pcap[source] = "stored"
    PROVE  pcap'[source] \in {"stored", "expired"}
<1>0. AuditOf[source] = AuditOf[j] /\ HasActive(AuditOf[source])
  BY ActiveSeen DEF SourceInAudit, JobActive
<1>1. ASSUME UNCHANGED pcap PROVE pcap'[source] \in {"stored", "expired"}
  BY <1>1
<1>2. ASSUME NEW i \in Job, DeletePcap(i)
      PROVE  pcap'[source] \in {"stored", "expired"}
  BY <1>0, <1>2 DEF TypeOK, DeletePcap
<1>3. ASSUME NEW i \in Job, ExpirePcap(i) \/ StorePcap(i)
      PROVE  pcap'[source] \in {"stored", "expired"}
  BY <1>3 DEF TypeOK, ExpirePcap, StorePcap
<1>4. ASSUME NEW a \in Audit, DeleteAudit(a)
      PROVE  pcap'[source] \in {"stored", "expired"}
  BY <1>0, <1>4 DEF DeleteAudit, JobsOf
<1>5. ASSUME NEW c \in Client,
             \/ \E a \in Audit : CreateAudit(c, a)
             \/ SnapshotStored(c) \/ SnapshotFailed(c) \/ FailAudit(c)
             \/ WriteProgress(c) \/ InsertJob(c)
             \/ \E i \in Job : ReadForCreate(c, i)
             \/ \E i \in Job, p \in 0..Full : ReadProgress(c, i, p)
      PROVE  pcap'[source] \in {"stored", "expired"}
  BY <1>1, <1>5
     DEF CreateAudit, SnapshotStored, SnapshotFailed, FailAudit, InsertJob,
         Insert, WriteProgress, ReadForCreate, ReadProgress, rows
<1>6. ASSUME NEW i \in Job,
             \/ \E s \in Job : Retry(i, s)
             \/ EnqueueAnalysis(i) \/ RequestCancel(i) \/ ClaimNext(i)
             \/ CompleteJob(i) \/ FailJob(i) \/ CancelRunningJob(i)
      PROVE  pcap'[source] \in {"stored", "expired"}
  BY <1>1, <1>6
     DEF Retry, EnqueueAnalysis, Insert, RequestCancel, CancelQueued,
         FlagRunning, ClaimNext, CompleteJob, FailJob, CancelRunningJob,
         FinishJob
<1>7. ASSUME \/ ClaimNothing \/ RecoverRunning \/ UNCHANGED vars
             \/ \E C \in SUBSET Client : Abandon(C)
      PROVE  pcap'[source] \in {"stored", "expired"}
  BY <1>1, <1>7 DEF ClaimNothing, RecoverRunning, Abandon, vars, rows
<1> QED
  BY <1>2, <1>3, <1>4, <1>5, <1>6, <1>7 DEF Next

\* Only retention cleanup takes a capture from an analysis that needs it.
THEOREM PcapsHeld == Spec => PcapHeldForAnalysis
<1>1. TypeOK /\ AnalysisInv /\ [Next]_vars =>
        [\A j, source \in Job :
          /\ TypeOf[j] = "traffic_analysis" /\ status[j] \in JobActive
          /\ SourceOf[j] = source /\ pcap[source] = "stored"
          => pcap'[source] \in {"stored", "expired"}]_vars
  BY PcapStep DEF AnalysisInv
<1> QED
  BY <1>1, AnalysisInvariant, TypeCorrect, PTL DEF Spec, PcapHeldForAnalysis

-----------------------------------------------------------------------------

\* A thread in _execute has a job.
HasJob == \A t \in Thread : pc[t] \in Executing => current[t] \in Job

\* Every step of the system is an operation of the job service, or none.
LEMMA ServiceStep ==
    ASSUME HasJob, [WNext]_allvars PROVE [Next]_vars
<1>1. ASSUME ApiStep PROVE Next
  BY <1>1, ThreadAssumption DEF ApiStep, Next
<1>2. ASSUME NEW t \in Thread, NEW j \in Job, Claim(t, j) PROVE Next
  BY <1>2 DEF Claim, Next
<1>3. ASSUME NEW t \in Thread, ClaimNone(t) PROVE Next
  BY <1>3 DEF ClaimNone, Next
<1>4. ASSUME NEW C \in SUBSET Client, Abandon(C) PROVE Next
  BY <1>4 DEF Next
<1>5. ASSUME NEW t \in Thread, NEW o, HandlerEnds(t, o) PROVE Next
  BY <1>4, <1>5, ThreadAssumption DEF HandlerEnds
<1>6. ASSUME NEW t \in Thread, Commit(t) PROVE Next
  <2>1. current[t] \in Job
    BY <1>6 DEF Commit, HasJob, Executing
  <2> QED
    BY <1>6, <2>1 DEF Commit, EndJob, Next
<1>7. ASSUME NEW t \in Thread, Report(t) PROVE Next
  <2>1. current[t] \in Job /\ t \in Client
    BY <1>7, ThreadAssumption DEF Report, HasJob, Executing
  <2> QED
    BY <1>7, <2>1 DEF Report, Next
<1>8. ASSUME NEW t \in Thread,
             \/ Register(t) \/ Poll(t) \/ Begin(t) \/ Decide(t)
             \/ CommitRefused(t) \/ Finish(t) \/ ReadFinal(t) \/ Monitor(t)
      PROVE  UNCHANGED vars
  BY <1>8 DEF Register, Poll, Begin, Decide, CommitRefused, Finish, ReadFinal,
              Monitor
<1>9. ASSUME NEW s \in Supervisor, StartSupervisor(s) PROVE Next
  BY <1>9 DEF StartSupervisor, Next
<1>10. ASSUME NEW s \in Supervisor, Kill(s) PROVE Next
  BY <1>4, <1>10, ThreadAssumption DEF Kill, ThreadsOf
<1>11. ASSUME NEW s \in Supervisor, StartAgain(s) \/ Terminate(s) \/ Exit(s)
       PROVE  UNCHANGED vars
  BY <1>11 DEF StartAgain, Terminate, Exit
<1>12. ASSUME NEW w \in Worker, Age(w) PROVE UNCHANGED vars
  BY <1>12 DEF Age
<1>13. ASSUME UNCHANGED allvars PROVE UNCHANGED vars
  BY <1>13 DEF allvars
<1> QED
  BY <1>1, <1>2, <1>3, <1>5, <1>6, <1>7, <1>8, <1>9, <1>10, <1>11, <1>12,
     <1>13
     DEF WNext, ThreadStep

\* A thread that executes has a job, whatever the other threads, the API and
\* the supervisors do.
LEMMA HasJobStep ==
    ASSUME WTypeOK, HasJob, [WNext]_allvars PROVE WTypeOK' /\ HasJob'
<1> USE DEF WTypeOK, HasJob
<1>0. TypeOK'
  BY ServiceStep, TypeStep
<1>1. ASSUME UNCHANGED wvars PROVE WTypeOK' /\ HasJob'
  BY <1>0, <1>1 DEF wvars
<1>2. ASSUME NEW t \in Thread, NEW j \in Job, Claim(t, j)
      PROVE  WTypeOK' /\ HasJob'
  BY <1>0, <1>2 DEF Claim, PC
<1>3. ASSUME NEW t \in Thread, ClaimNone(t) PROVE WTypeOK' /\ HasJob'
  BY <1>0, <1>3 DEF ClaimNone, PC, Executing
<1>4. ASSUME NEW w \in Worker, NEW st \in {"starting", "idle", "running", "stopped"},
             Heartbeat(w, st)
      PROVE  row' \in [Worker -> Row]
  BY <1>4 DEF Heartbeat, Row
<1>5. ASSUME NEW t \in Thread, Register(t) \/ Poll(t) \/ Begin(t)
      PROVE  WTypeOK' /\ HasJob'
  BY <1>0, <1>4, <1>5 DEF Register, Poll, Begin, PC, Executing, Worker
<1>6. ASSUME NEW t \in Thread, Monitor(t) PROVE WTypeOK' /\ HasJob'
  BY <1>0, <1>6 DEF Monitor
<1>7. ASSUME NEW t \in Thread, Report(t) PROVE WTypeOK' /\ HasJob'
  BY <1>1, <1>7 DEF Report
<1>8. ASSUME NEW t \in Thread, NEW o \in {"success", "cancelled", "error"},
             HandlerEnds(t, o)
      PROVE  WTypeOK' /\ HasJob'
  BY <1>0, <1>8 DEF HandlerEnds, PC, Executing
<1>9. ASSUME NEW t \in Thread, Decide(t) PROVE WTypeOK' /\ HasJob'
  BY <1>0, <1>9 DEF Decide, PC, Executing
<1>10. ASSUME NEW t \in Thread, Commit(t) PROVE WTypeOK' /\ HasJob'
  BY <1>0, <1>10 DEF Commit, PC, Executing
<1>11. ASSUME NEW t \in Thread, CommitRefused(t) PROVE WTypeOK' /\ HasJob'
  BY <1>0, <1>11 DEF CommitRefused, PC, Executing
<1>12. ASSUME NEW t \in Thread, Finish(t) PROVE WTypeOK' /\ HasJob'
  BY <1>0, <1>4, <1>12 DEF Finish, PC, Executing, Worker
<1>19. ASSUME NEW t \in Thread, ReadFinal(t) PROVE WTypeOK' /\ HasJob'
  BY <1>0, <1>19 DEF ReadFinal, PC, Executing
<1>13. ASSUME NEW s \in Supervisor, StartSupervisor(s) PROVE WTypeOK' /\ HasJob'
  <2>1. row' \in [Worker -> Row]
    BY <1>13 DEF StartSupervisor, Row
  <2> QED
    BY <1>0, <1>13, <2>1 DEF StartSupervisor, PC, Executing
<1>14. ASSUME NEW s \in Supervisor, StartAgain(s) \/ Terminate(s)
       PROVE  WTypeOK' /\ HasJob'
  BY <1>0, <1>14 DEF StartAgain, Terminate
<1>15. ASSUME NEW s \in Supervisor, Exit(s) PROVE WTypeOK' /\ HasJob'
  BY <1>0, <1>4, <1>15 DEF Exit, PC, Executing, Worker
<1>16. ASSUME NEW s \in Supervisor, Kill(s) PROVE WTypeOK' /\ HasJob'
  BY <1>0, <1>16, ThreadAssumption DEF Kill, PC, Executing
<1>17. ASSUME NEW w \in Worker, Age(w) PROVE WTypeOK' /\ HasJob'
  <2>1. [row[w] EXCEPT !.fresh = FALSE] \in Row
    BY DEF Row
  <2> QED
    BY <1>0, <1>17, <2>1 DEF Age
<1>18. CASE UNCHANGED allvars
  BY <1>1, <1>18 DEF allvars
<1> QED
  BY <1>1, <1>2, <1>3, <1>5, <1>6, <1>7, <1>8, <1>9, <1>10, <1>11, <1>12,
     <1>13, <1>14, <1>15, <1>16, <1>17, <1>18, <1>19
     DEF WNext, ThreadStep

\* In every reachable state a thread that executes has a job.
LEMMA HasJobInvariant == WSpec => [](WTypeOK /\ HasJob)
<1>1. WInit => WTypeOK /\ HasJob
  <2>1. Init => TypeOK
    BY BoundAssumption DEF Init, TypeOK, Request, Idle, Stage, Pcap
  <2> QED
    BY <2>1, ThreadAssumption DEF WInit, WTypeOK, HasJob, PC, Executing, Row
<1> QED
  BY <1>1, HasJobStep, PTL DEF WSpec

\* The worker uses the rows only as the job service allows, for any number of
\* processes, threads and crashes.
THEOREM WorkerImplementsService == WSpec => ImplementsService
<1>1. WInit => Init
  BY DEF WInit
<1>2. HasJob /\ [WNext]_allvars => [Next]_vars
  BY ServiceStep
<1> QED
  BY <1>1, <1>2, HasJobInvariant, PTL DEF WSpec, ImplementsService, Spec
-----------------------------------------------------------------------------
(***************************************************************************)
(* One process at a time.  WInv is the inductive invariant: Ownership      *)
(* alone does not say that the threads of a process that is down are gone, *)
(* nor that a thread about to end its job knows how.                       *)
(***************************************************************************)
OneProcessOnly == \A s, r \in Supervisor : s = r

OffWhenDown ==
    \A t \in Thread : proc[SupervisorOf[t]] \in {"down", "exited"} => pc[t] = "off"
PlanMade ==
    \A t \in Thread : pc[t] = "commit" =>
        plan[t] \in {"completed", "failed", "cancelled"}
WInv ==
    /\ WTypeOK /\ HasJob /\ AuditAccounts
    /\ Ownership /\ OffWhenDown /\ PlanMade /\ NoEndRefused

\* Nothing but the worker starts or ends a running job.
LEMMA ApiKeepsRunning ==
    ASSUME TypeOK, ApiStep, NEW j \in Job
    PROVE  status'[j] = "running" <=> status[j] = "running"
<1>1. ASSUME NEW c \in Client, InsertJob(c)
      PROVE  status'[j] = "running" <=> status[j] = "running"
  BY <1>1, RequestShape DEF TypeOK, InsertJob, Insert
<1>2. ASSUME NEW i \in Job, EnqueueAnalysis(i)
               \/ \E source \in Job : Retry(i, source)
      PROVE  status'[j] = "running" <=> status[j] = "running"
  BY <1>2 DEF TypeOK, EnqueueAnalysis, Retry, Insert
<1>3. ASSUME NEW i \in Job, CancelQueued(i)
      PROVE  status'[j] = "running" <=> status[j] = "running"
  BY <1>3 DEF TypeOK, CancelQueued
<1>4. ASSUME NEW a \in Audit, DeleteAudit(a)
      PROVE  status'[j] = "running" <=> status[j] = "running"
  <2>1. \A i \in Job : status[i] = "running" => AuditOf[i] # a
    BY <1>4, ActiveSeen DEF DeleteAudit, JobActive
  <2> QED
    BY <1>4, <2>1 DEF DeleteAudit, JobsOf, TypeOK
<1>5. ASSUME NEW i \in Job, FlagRunning(i) \/ DeletePcap(i) \/ ExpirePcap(i)
      PROVE  status' = status
  BY <1>5 DEF FlagRunning, DeletePcap, ExpirePcap
<1>6. ASSUME NEW c \in Client,
             \/ \E a \in Audit : CreateAudit(c, a)
             \/ SnapshotStored(c) \/ SnapshotFailed(c) \/ FailAudit(c)
             \/ \E i \in Job : ReadForCreate(c, i)
      PROVE  status' = status
  BY <1>6 DEF CreateAudit, SnapshotStored, SnapshotFailed, FailAudit,
              ReadForCreate, rows
<1>7. ASSUME \E C \in SUBSET Api : Abandon(C) PROVE status' = status
  BY <1>7 DEF Abandon, rows
<1> QED
  BY <1>1, <1>2, <1>3, <1>4, <1>5, <1>6, <1>7, ThreadAssumption
     DEF ApiStep, RequestCancel

\* Every step of the worker, the API and the supervisors keeps threads and
\* running rows paired.
LEMMA WInvStep ==
    ASSUME ~Overlap, OneProcessOnly, WInv, [WNext]_allvars
    PROVE  WInv'
<1> USE DEF WInv
<1> DEFINE Rest == Ownership /\ OffWhenDown /\ PlanMade /\ NoEndRefused
<1>0. WTypeOK' /\ HasJob' /\ AuditAccounts'
  BY HasJobStep, ServiceStep, AccountsStep DEF WTypeOK
<1> SUFFICES Rest'
  BY <1>0
<1>1. ASSUME \A j \in Job : status'[j] = "running" <=> status[j] = "running",
             UNCHANGED <<proc, pc, current, plan>>
      PROVE  Rest'
  BY <1>1 DEF Ownership, OffWhenDown, PlanMade, NoEndRefused, HasJob
<1>2. CASE ApiStep /\ UNCHANGED wvars
  BY <1>1, <1>2, ApiKeepsRunning DEF wvars, WTypeOK
<1>3. ASSUME NEW t \in Thread, Report(t) PROVE Rest'
  <2>1. status' = status
    BY <1>3 DEF Report, ReadProgress, WriteProgress, StorePcap, rows
  <2> QED
    BY <1>1, <1>3, <2>1 DEF Report, wvars
<1>4. ASSUME NEW t \in Thread, Monitor(t) PROVE Rest'
  BY <1>1, <1>4 DEF Monitor, vars, rows
<1>5. ASSUME NEW w \in Worker, Age(w) PROVE Rest'
  BY <1>1, <1>5 DEF Age, vars, rows
\* A thread moves within run_forever without taking or ending a job.
<1>6. ASSUME NEW t \in Thread, NEW to \in PC, pc[t] # "off",
             pc' = [pc EXCEPT ![t] = to],
             to \in Executing <=> pc[t] \in Executing,
             to # "dying",
             to = "commit" => plan'[t] \in {"completed", "failed", "cancelled"},
             \A u \in Thread : u # t => plan'[u] = plan[u],
             \A u \in Thread : pc[u] \in Executing => current'[u] = current[u],
             UNCHANGED <<status, proc>>
      PROVE  Rest'
  <2>1. \A u \in Thread : pc'[u] \in Executing <=> pc[u] \in Executing
    BY <1>6 DEF WTypeOK
  <2>2. Ownership'
    BY <1>6, <2>1 DEF Ownership, HasJob
  <2>3. OffWhenDown' /\ PlanMade' /\ NoEndRefused'
    BY <1>6, ThreadAssumption DEF OffWhenDown, PlanMade, NoEndRefused, WTypeOK
  <2> QED
    BY <2>2, <2>3
<1>7. ASSUME NEW t \in Thread, Register(t) \/ Begin(t) PROVE Rest'
  BY <1>6, <1>7 DEF Register, Begin, Executing, PC, vars, rows
<1>8. ASSUME NEW t \in Thread, Poll(t) PROVE Rest'
  BY <1>6, <1>8 DEF Poll, Executing, PC, vars, rows
<1>9. ASSUME NEW t \in Thread, ClaimNone(t) PROVE Rest'
  BY <1>6, <1>9 DEF ClaimNone, ClaimNothing, Executing, PC
<1>10. ASSUME NEW t \in Thread, NEW o, HandlerEnds(t, o) PROVE Rest'
  BY <1>6, <1>10 DEF HandlerEnds, Abandon, Executing, PC, rows
<1>11. ASSUME NEW t \in Thread, Decide(t) PROVE Rest'
  <2>1. status[current[t]] = "running"
    BY <1>11 DEF Decide, Ownership, Executing
  <2>2. plan'[t] \in {"completed", "failed", "cancelled"}
    BY <1>11 DEF Decide, WTypeOK
  <2> QED
    BY <1>6, <1>11, <2>1, <2>2 DEF Decide, Executing, PC, WTypeOK, vars, rows
<1>12. ASSUME NEW t \in Thread, CommitRefused(t) PROVE FALSE
  <2>1. /\ current[t] \in Job /\ status[current[t]] = "running"
        /\ plan[t] \in {"completed", "failed", "cancelled"}
    BY <1>12 DEF CommitRefused, Ownership, HasJob, PlanMade, Executing
  <2>2. plan[t] \in JOB_TRANSITIONS("running")
    BY <2>1 DEF JOB_TRANSITIONS
  <2>3. AuditOf[current[t]] \in Audit /\ audit[AuditOf[current[t]]] = "running"
    BY <2>1, ActiveAudit, RowAssumption DEF JobActive, WTypeOK
  <2>4. RefreshAllowed(AuditOf[current[t]],
                       [status EXCEPT ![current[t]] = plan[t]])
    BY <2>3, RunningAudit
  <2> QED
    BY <1>12, <2>1, <2>2, <2>4 DEF CommitRefused, EndAccepted
<1>13. ASSUME NEW t \in Thread, Finish(t) PROVE Rest'
  BY <1>6, <1>13 DEF Finish, Executing, PC, vars, rows, WTypeOK, NoEndRefused
<1>21. ASSUME NEW t \in Thread, ReadFinal(t) PROVE Rest'
  BY <1>6, <1>21 DEF ReadFinal, Executing, PC, vars, rows, WTypeOK
<1>14. ASSUME NEW t \in Thread, NEW j \in Job, Claim(t, j) PROVE Rest'
  <2>1. /\ status[j] = "queued"
        /\ status' = [status EXCEPT ![j] = "running"]
        /\ pc' = [pc EXCEPT ![t] = "begin"] /\ pc[t] = "claim"
        /\ current' = [current EXCEPT ![t] = j]
        /\ UNCHANGED <<proc, plan>>
    BY <1>14 DEF Claim, ClaimNext, Queued
  <2>2. Ownership'
    <3>1. \A u \in Thread : pc'[u] \in Executing => status'[current'[u]] = "running"
      BY <2>1 DEF Ownership, Executing, WTypeOK, TypeOK, HasJob
    <3>2. \A u, v \in Thread :
             pc'[u] \in Executing /\ pc'[v] \in Executing /\ u # v
               => current'[u] # current'[v]
      BY <2>1 DEF Ownership, Executing, WTypeOK, TypeOK
    <3>3. \A i \in Job : status'[i] = "running" =>
             i = j \/ status[i] = "running"
      BY <2>1 DEF WTypeOK, TypeOK
    <3>4. ASSUME NEW i \in Job, status'[i] = "running",
                 \E s \in Supervisor : proc[s] \in {"up", "stopping"}
          PROVE  \E u \in Thread : pc'[u] \in Executing /\ current'[u] = i
      <4>1. CASE i = j
        BY <2>1, <4>1 DEF Executing, WTypeOK
      <4>2. CASE i # j
        <5>1. PICK u \in Thread : pc[u] \in Executing /\ current[u] = i
          BY <3>3, <3>4, <4>2 DEF Ownership
        <5>2. u # t
          BY <2>1, <5>1 DEF Executing
        <5> QED
          BY <2>1, <5>1, <5>2 DEF WTypeOK
      <4> QED
        BY <4>1, <4>2
    <3> QED
      BY <2>1, <3>1, <3>2, <3>4 DEF Ownership
  <2>3. OffWhenDown' /\ PlanMade' /\ NoEndRefused'
    BY <2>1, ThreadAssumption DEF OffWhenDown, PlanMade, NoEndRefused, WTypeOK
  <2> QED
    BY <2>2, <2>3
<1>15. ASSUME NEW t \in Thread, Commit(t) PROVE Rest'
  <2> DEFINE j == current[t]
  <2>1. /\ j \in Job /\ status[j] = "running" /\ pc[t] = "commit"
        /\ pc' = [pc EXCEPT ![t] = "finish"]
        /\ UNCHANGED <<proc, plan, current>>
    BY <1>15 DEF Commit, Ownership, HasJob, Executing
  <2>2. PICK final \in {"completed", "failed", "cancelled"} :
           status' = [status EXCEPT ![j] = final]
    BY <1>15 DEF Commit, EndJob, CompleteJob, FailJob, CancelRunningJob,
                 FinishJob
  <2>3. Ownership'
    <3>1. \A u \in Thread : pc'[u] \in Executing <=> u # t /\ pc[u] \in Executing
      BY <2>1 DEF Executing, WTypeOK
    <3>2. \A u \in Thread : u # t /\ pc[u] \in Executing => current[u] # j
      BY <2>1 DEF Ownership, Executing
    <3>3. \A i \in Job : status'[i] = "running" <=> i # j /\ status[i] = "running"
      BY <2>1, <2>2 DEF WTypeOK, TypeOK
    <3>4. ASSUME NEW i \in Job, i # j, NEW u \in Thread,
                 pc[u] \in Executing, current[u] = i
          PROVE  u # t
      BY <3>4
    <3> QED
      BY <2>1, <3>1, <3>2, <3>3, <3>4 DEF Ownership, HasJob
  <2>4. OffWhenDown' /\ PlanMade' /\ NoEndRefused'
    BY <2>1, ThreadAssumption DEF OffWhenDown, PlanMade, NoEndRefused, WTypeOK
  <2> QED
    BY <2>3, <2>4
<1>16. ASSUME NEW s \in Supervisor, StartSupervisor(s) PROVE Rest'
  <2>1. \A t \in Thread : SupervisorOf[t] = s /\ pc[t] = "off"
    BY <1>16, ThreadAssumption
       DEF StartSupervisor, OneProcessOnly, OffWhenDown
  <2>2. \A t \in Thread : pc'[t] = "start"
    BY <1>16, <2>1 DEF StartSupervisor
  <2>3. \A j \in Job : status'[j] # "running"
    BY <1>16 DEF StartSupervisor, RecoverRunning, AfterRestart, Running
  <2>4. Ownership'
    BY <2>2, <2>3 DEF Ownership, Executing
  <2>5. OffWhenDown' /\ PlanMade' /\ NoEndRefused'
    BY <1>16, <2>1, <2>2
       DEF StartSupervisor, OffWhenDown, PlanMade, NoEndRefused, WTypeOK
  <2> QED
    BY <2>4, <2>5
<1>17. ASSUME NEW s \in Supervisor, Terminate(s) PROVE Rest'
  <2>1. UNCHANGED <<status, pc, current, plan>>
        /\ proc[s] = "up" /\ proc' = [proc EXCEPT ![s] = "stopping"]
    BY <1>17 DEF Terminate, vars, rows
  <2>2. Ownership'
    BY <2>1 DEF Ownership, WTypeOK
  <2> QED
    BY <2>1, <2>2 DEF OffWhenDown, PlanMade, NoEndRefused, WTypeOK
<1>18. ASSUME NEW s \in Supervisor, StartAgain(s) PROVE Rest'
  <2>1. UNCHANGED <<status, pc, current, plan>>
        /\ proc[s] = "exited" /\ proc' = [proc EXCEPT ![s] = "down"]
    BY <1>18 DEF StartAgain, vars, rows
  <2>2. Ownership'
    BY <2>1 DEF Ownership, WTypeOK
  <2> QED
    BY <2>1, <2>2 DEF OffWhenDown, PlanMade, NoEndRefused, WTypeOK
<1>19. ASSUME NEW s \in Supervisor, Exit(s) \/ Kill(s) PROVE Rest'
  <2>1. /\ status' = status
        /\ proc' = [proc EXCEPT ![s] = "exited"]
             \/ proc' = [proc EXCEPT ![s] = "down"]
        /\ \A t \in Thread : pc'[t] = "off"
    BY <1>19, ThreadAssumption
       DEF Exit, Kill, Abandon, OneProcessOnly, vars, rows
  <2>2. \A r \in Supervisor : proc'[r] \in {"exited", "down"}
    BY <2>1 DEF OneProcessOnly, WTypeOK
  <2> QED
    BY <2>1, <2>2
       DEF Ownership, OffWhenDown, PlanMade, NoEndRefused, Executing
<1>20. CASE UNCHANGED allvars
  BY <1>1, <1>20 DEF allvars, wvars, vars, rows
<1> QED
  BY <1>2, <1>3, <1>4, <1>5, <1>7, <1>8, <1>9, <1>10, <1>11, <1>12,
     <1>13, <1>14, <1>15, <1>16, <1>17, <1>18, <1>19, <1>20, <1>21
     DEF WNext, ThreadStep

\* The pairing of threads and running rows holds in every reachable state.
LEMMA WInvInvariant ==
    ASSUME ~Overlap, OneProcessOnly PROVE WSpec => []WInv
<1>1. WSpec => [](WTypeOK /\ HasJob)
  BY HasJobInvariant
<1>2. WInit /\ WTypeOK /\ HasJob => WInv
  <2> SUFFICES ASSUME WInit, WTypeOK, HasJob PROVE WInv
    OBVIOUS
  <2>1. AuditAccounts
    <3> SUFFICES ASSUME NEW a \in Audit PROVE AuditAccountsFor(a)
      BY DEF AuditAccounts
    <3>1. Statuses(a, status) = {} /\ audit[a] = "absent"
      BY DEF WInit, Init, Statuses, JobsOf, JobStatus
    <3> QED
      BY <3>1 DEF AuditAccountsFor, AuditTerminal
  <2>2. Ownership /\ OffWhenDown /\ PlanMade /\ NoEndRefused
    BY DEF WInit, Init, Ownership, OffWhenDown, PlanMade, NoEndRefused,
           Executing
  <2> QED
    BY <2>1, <2>2 DEF WInv
<1>3. WInv /\ [WNext]_allvars => WInv'
  BY WInvStep
<1> QED
  BY <1>1, <1>2, <1>3, PTL DEF WSpec

(***************************************************************************)
(* With one process at a time and no overlapping requests, running jobs    *)
(* and executing threads correspond through every crash and restart, and   *)
(* the call that ends a job is never refused.                              *)
(***************************************************************************)
THEOREM ThreadsOwnJobs ==
    ASSUME ~Overlap, OneProcessOnly PROVE WSpec => [](Ownership /\ NoEndRefused)
BY WInvInvariant, PTL DEF WInv

\* Two handlers never share a resource key.
THEOREM HandlersAreExclusive ==
    ASSUME ~Overlap, OneProcessOnly PROVE WSpec => []HandlersExclusive
<1>1. ResourceExclusive /\ WInv => HandlersExclusive
  BY DEF WInv, HandlersExclusive, ResourceExclusive, Ownership, HasJob
<1>2. WSpec => []ResourceExclusive
  BY WorkerImplementsService, ResourcesExclusive, PTL DEF ImplementsService
<1> QED
  BY <1>1, <1>2, WInvInvariant, PTL

\* A job is claimed at most once by the workers too: a process that takes over
\* from a stale one interrupts its jobs and never queues them again.
THEOREM WorkersAttemptOnce == WSpec => []AtMostOneAttempt
BY WorkerImplementsService, AttemptedOnce, PTL DEF ImplementsService
=============================================================================
