----------------------------- MODULE JobService -----------------------------
(***************************************************************************)
(* The durable audit and job rows of jobs/service.py, the operations on    *)
(* them, and the three services that write the same rows: stage retry      *)
(* (backend/recovery.py), PCAP analysis (traffic_analysis/service.py) and  *)
(* the deletion services.                                                  *)
(*                                                                         *)
(* An operation run in Database.immediate_session is BEGIN IMMEDIATE, so   *)
(* it is one action; when it raises, its transaction is rolled back, so    *)
(* its conditions are guards.  An operation run in Database.session reads  *)
(* before its transaction takes the write lock (SQLite begins it at the    *)
(* first DML statement), so it is two actions: the first records in        *)
(* request[c] what the caller c has read, the second writes.               *)
(***************************************************************************)
EXTENDS JobState, Integers, FiniteSets

CONSTANTS
    Audit, Job,     \* the ids (uuid4) that rows can ever get; never reused
    Client,         \* API request threads and worker threads
    Key, Group,     \* resource keys and resource groups
    NoJob, NoKey, NoGroup,
    \* what the enqueuing call stores in the row, fixed for the row's life
    AuditOf, TypeOf, KeyOf, GroupOf, PriorityOf,
    SourceOf,       \* the capture job a traffic analysis reads
    Limit,          \* resource_limit of a group; 0 means no limit
    Full,           \* progress 100 percent
    Overlap         \* may another request write between a read and its write?

VARIABLES
    audit,          \* audit rows: status, "absent" before, "deleted" after
    status,         \* job rows: status, "absent" before, "deleted" after
    stage, progress, attempt,
    born,           \* created_at, as the number of the insertion
    cancelRequested,
    lock,           \* resource_locks rows: which job holds a key
    pcap,           \* the packet_capture artifact row of a capture job
    request         \* what each caller has read and not yet written

rows == <<audit, status, stage, progress, attempt, born, cancelRequested,
          lock, pcap>>
vars == <<rows, request>>

-----------------------------------------------------------------------------
Stage == {"queued", "resource_wait", "starting", "working", "completed",
          "failed", "cancelled", "interrupted"}

\* Credentials of these job types are never stored, so they cannot be retried.
FreshCredentialTypes == {"snmp_topology", "ssh_topology"}

JobKey(j) == <<"job", j>>                    \* the fallback key job:<id>
LockKey == Key \cup {JobKey(j) : j \in Job}

\* A deleted capture is marked in the audit summary, an expired one is not.
Pcap == {"none", "stored", "deleted", "expired"}

Idle == [op |-> "idle"]
Request ==
    {Idle}
      \cup [op : {"create_audit", "fail_audit"}, audit : Audit]
      \cup [op : {"create_job"}, job : Job, seen : AUDIT_JOB_ACCEPTING]
      \cup [op : {"update_progress"}, job : Job, to : 0..Full]

ASSUME JobAssumption == IsFiniteSet(Job) /\ NoJob \notin Job
ASSUME KeyAssumption ==
    /\ NoKey \notin Key /\ NoGroup \notin Group
    /\ \A j \in Job : JobKey(j) \notin Key
ASSUME RowAssumption ==
    /\ AuditOf \in [Job -> Audit]
    /\ KeyOf \in [Job -> Key \cup {NoKey}]
    /\ GroupOf \in [Job -> Group \cup {NoGroup}]
    /\ PriorityOf \in [Job -> Int]
    /\ SourceOf \in [Job -> Job \cup {NoJob}]
    /\ Limit \in [Group -> Nat]
ASSUME BoundAssumption == Full \in Nat /\ Full > 1 /\ Overlap \in BOOLEAN

-----------------------------------------------------------------------------
JobsOf(a) == {j \in Job : AuditOf[j] = a}
Statuses(a, st) == {st[j] : j \in JobsOf(a)} \cap JobStatus
HasActive(a) == Statuses(a, status) \cap JobActive # {}

\* _refresh_audit after the job statuses have become st: the status it
\* writes, and whether require_audit_transition lets it.
Refreshed(a, st) ==
    IF Statuses(a, st) = {} THEN audit[a] ELSE DesiredAudit(Statuses(a, st))
RefreshAllowed(a, st) ==
    Refreshed(a, st) \in {audit[a]} \cup AUDIT_TRANSITIONS(audit[a])

\* A row is written for a job with a key or a group.
TakesLock(j) == KeyOf[j] # NoKey \/ GroupOf[j] # NoGroup
RowKey(j) == IF KeyOf[j] # NoKey THEN KeyOf[j] ELSE JobKey(j)

LimitedGroup(j) == GroupOf[j] # NoGroup /\ Limit[GroupOf[j]] # 0
GroupRows(g) == {i \in Job : GroupOf[i] = g /\ \E k \in LockKey : lock[k] = i}

\* _resource_available without its key check, and with an off-by-one in its
\* group limit.
MutNoKeyCheck(j) ==
    LimitedGroup(j) => Cardinality(GroupRows(GroupOf[j])) < Limit[GroupOf[j]]
MutGroupOffByOne(j) ==
    /\ KeyOf[j] # NoKey => lock[KeyOf[j]] = NoJob
    /\ LimitedGroup(j) =>
          Cardinality(GroupRows(GroupOf[j])) <= Limit[GroupOf[j]]

ResourceAvailable(j) ==
    /\ KeyOf[j] # NoKey => lock[KeyOf[j]] = NoJob
    /\ LimitedGroup(j) =>
          Cardinality(GroupRows(GroupOf[j])) < Limit[GroupOf[j]]

ReleaseLock(j) == [k \in LockKey |-> IF lock[k] = j THEN NoJob ELSE lock[k]]

\* The effect of inserting row j; the columns of an absent row have their
\* insertion values already.
Inserted == {j \in Job : status[j] # "absent"}
Insert(j) ==
    /\ status' = [status EXCEPT ![j] = "queued"]
    /\ born' = [born EXCEPT ![j] = Cardinality(Inserted) + 1]
    /\ UNCHANGED <<stage, progress, attempt, cancelRequested, lock, pcap>>

\* The columns a retry copies.
SameColumns(i, j) ==
    /\ AuditOf[i] = AuditOf[j] /\ TypeOf[i] = TypeOf[j]
    /\ KeyOf[i] = KeyOf[j] /\ GroupOf[i] = GroupOf[j]
    /\ PriorityOf[i] = PriorityOf[j] /\ SourceOf[i] = SourceOf[j]

-----------------------------------------------------------------------------
Init ==
    /\ audit = [a \in Audit |-> "absent"]
    /\ status = [j \in Job |-> "absent"]
    /\ stage = [j \in Job |-> "queued"]
    /\ progress = [j \in Job |-> 0]
    /\ attempt = [j \in Job |-> 0]
    /\ born = [j \in Job |-> 0]
    /\ cancelRequested = {}
    /\ lock = [k \in LockKey |-> NoJob]
    /\ pcap = [j \in Job |-> "none"]
    /\ request = [c \in Client |-> Idle]

Answer(c) == request' = [request EXCEPT ![c] = Idle]

(***************************************************************************)
(* POST /audits.  The row is committed, and so visible to every other      *)
(* client, before the environment snapshot is collected; fail_audit        *)
(* records a snapshot that could not be stored.                            *)
(***************************************************************************)
CreateAudit(c, a) ==
    /\ request[c] = Idle
    /\ audit[a] = "absent"
    /\ audit' = [audit EXCEPT ![a] = "created"]
    /\ request' = [request EXCEPT ![c] = [op |-> "create_audit", audit |-> a]]
    /\ UNCHANGED <<status, stage, progress, attempt, born, cancelRequested,
                   lock, pcap>>

SnapshotStored(c) ==
    /\ request[c].op = "create_audit"
    /\ Answer(c)
    /\ UNCHANGED rows

SnapshotFailed(c) ==
    /\ request[c].op = "create_audit"
    /\ "failed" \in AUDIT_TRANSITIONS(audit[request[c].audit])
    /\ request' = [request EXCEPT ![c].op = "fail_audit"]
    /\ UNCHANGED rows

FailAudit(c) ==
    /\ request[c].op = "fail_audit"
    /\ LET a == request[c].audit IN
         /\ Overlap \/ (audit[a] = "created" /\ Statuses(a, status) = {})
         /\ audit[a] \in AuditStatus
         /\ audit' = [audit EXCEPT ![a] = "failed"]
    /\ Answer(c)
    /\ UNCHANGED <<status, stage, progress, attempt, born, cancelRequested,
                   lock, pcap>>

\* Requests that end without a write: refused, their row gone, or their
\* process dead.
Abandon(C) ==
    /\ request' = [c \in Client |-> IF c \in C THEN Idle ELSE request[c]]
    /\ UNCHANGED rows

-----------------------------------------------------------------------------
(***************************************************************************)
(* create_job, the call behind every launch endpoint but the analysis of a *)
(* capture.                                                                *)
(***************************************************************************)
ReadForCreate(c, j) ==
    /\ request[c] = Idle
    /\ status[j] = "absent"
    /\ TypeOf[j] # "traffic_analysis"
    /\ \A d \in Client : request[d].op = "create_job" => request[d].job # j
    /\ audit[AuditOf[j]] \in AUDIT_JOB_ACCEPTING
    /\ request' = [request EXCEPT ![c] =
           [op |-> "create_job", job |-> j, seen |-> audit[AuditOf[j]]]]
    /\ UNCHANGED rows

\* create_job without the foreign key, or without reopening the audit.
MutInsertNoForeignKey(c) ==
    /\ request[c].op = "create_job"
    /\ LET j == request[c].job
           a == AuditOf[j]
       IN  /\ status[j] = "absent"
           /\ Overlap \/ audit[a] = request[c].seen
           /\ audit' = IF request[c].seen = "completed"
                         THEN [audit EXCEPT ![a] = "running"] ELSE audit
           /\ Insert(j)
    /\ Answer(c)
MutInsertNoReopen(c) ==
    /\ request[c].op = "create_job"
    /\ LET j == request[c].job
           a == AuditOf[j]
       IN  /\ status[j] = "absent"
           /\ Overlap \/ audit[a] = request[c].seen
           /\ audit[a] \in AuditStatus
           /\ audit' = audit
           /\ Insert(j)
    /\ Answer(c)

\* The foreign key on audit_id refuses a job whose audit has been deleted.
InsertJob(c) ==
    /\ request[c].op = "create_job"
    /\ LET j == request[c].job
           a == AuditOf[j]
       IN  /\ status[j] = "absent"
           /\ Overlap \/ audit[a] = request[c].seen
           /\ audit[a] \in AuditStatus
           /\ audit' = IF request[c].seen = "completed"
                         THEN [audit EXCEPT ![a] = "running"] ELSE audit
           /\ Insert(j)
    /\ Answer(c)

(***************************************************************************)
(* RecoveryService.retry: a new row j copies the columns of source.        *)
(***************************************************************************)
Retry(j, source) ==
    /\ status[j] = "absent"
    /\ status[source] \in RETRYABLE_STATES
    /\ TypeOf[source] \notin FreshCredentialTypes
    /\ SameColumns(j, source)
    /\ \A i \in JobsOf(AuditOf[j]) :
          TypeOf[i] = TypeOf[j] => status[i] \notin JobActive
    /\ "running" \in {audit[AuditOf[j]]} \cup AUDIT_TRANSITIONS(audit[AuditOf[j]])
    /\ audit' = [audit EXCEPT ![AuditOf[j]] = "running"]
    /\ Insert(j)
    /\ UNCHANGED request

\* The enqueue of an analysis without the checks of its transaction.
MutEnqueueUnchecked(j) ==
    /\ status[j] = "absent"
    /\ TypeOf[j] = "traffic_analysis"
    /\ SourceOf[j] \in Job /\ pcap[SourceOf[j]] = "stored"
    /\ status[SourceOf[j]] \in {"completed", "cancelled"}
    /\ audit' = [audit EXCEPT ![AuditOf[j]] = "running"]
    /\ Insert(j)
    /\ UNCHANGED request

(***************************************************************************)
(* TrafficAnalysisJobService.enqueue with the pre-check of its endpoint.   *)
(* An analysis of the same capture that is active or completed is reused,  *)
(* which changes nothing.                                                  *)
(***************************************************************************)
EnqueueAnalysis(j) ==
    /\ status[j] = "absent"
    /\ TypeOf[j] = "traffic_analysis"
    /\ LET a == AuditOf[j]
           s == SourceOf[j]
       IN  /\ s \in Job /\ pcap[s] = "stored"
           /\ AuditOf[s] = a
           /\ status[s] \in {"completed", "cancelled"}
           /\ \A i \in JobsOf(a) :
                 TypeOf[i] = "traffic_analysis" /\ SourceOf[i] = s
                    => status[i] \notin JobActive \cup {"completed"}
           /\ ~HasActive(a)
           /\ audit[a] \in AuditTerminal
           /\ audit' = [audit EXCEPT ![a] = "running"]
    /\ Insert(j)
    /\ UNCHANGED request

-----------------------------------------------------------------------------
\* request_cancel: a queued job ends at once, a running one is flagged.
CancelQueued(j) ==
    /\ status[j] = "queued"
    /\ LET st == [status EXCEPT ![j] = "cancelled"] IN
         /\ RefreshAllowed(AuditOf[j], st)
         /\ status' = st
         /\ audit' = [audit EXCEPT ![AuditOf[j]] = Refreshed(AuditOf[j], st)]
    /\ stage' = [stage EXCEPT ![j] = "cancelled"]
    /\ UNCHANGED <<progress, attempt, born, cancelRequested, lock, pcap,
                   request>>

FlagRunning(j) ==
    /\ status[j] = "running"
    /\ cancelRequested' = cancelRequested \cup {j}
    /\ UNCHANGED <<audit, status, stage, progress, attempt, born, lock, pcap,
                   request>>

RequestCancel(j) == CancelQueued(j) \/ FlagRunning(j)

(***************************************************************************)
(* claim_next walks the queued rows by priority, then age, marks the ones  *)
(* whose resource is taken and claims the first that is available.         *)
(***************************************************************************)
Queued == {j \in Job : status[j] = "queued"}
Before(i, j) == \/ PriorityOf[i] > PriorityOf[j]
                \/ PriorityOf[i] = PriorityOf[j] /\ born[i] < born[j]

ClaimNext(j) ==
    /\ j \in Queued
    /\ ResourceAvailable(j)
    /\ \A i \in Queued : Before(i, j) => ~ResourceAvailable(i)
    /\ status' = [status EXCEPT ![j] = "running"]
    /\ stage' = [i \in Job |->
                   IF i = j THEN "starting"
                   ELSE IF i \in Queued /\ Before(i, j) THEN "resource_wait"
                   ELSE stage[i]]
    /\ progress' = [progress EXCEPT ![j] = IF @ > 1 THEN @ ELSE 1]
    /\ attempt' = [attempt EXCEPT ![j] = @ + 1]
    /\ lock' = [k \in LockKey |->
                  IF TakesLock(j) /\ k = RowKey(j) THEN j ELSE lock[k]]
    /\ audit' = IF audit[AuditOf[j]] \in {"created", "completed"}
                  THEN [audit EXCEPT ![AuditOf[j]] = "running"] ELSE audit
    /\ UNCHANGED <<born, cancelRequested, pcap, request>>

ClaimNothing ==
    /\ \A j \in Queued : ~ResourceAvailable(j)
    /\ stage' = [j \in Job |->
                   IF j \in Queued THEN "resource_wait" ELSE stage[j]]
    /\ UNCHANGED <<audit, status, progress, attempt, born, cancelRequested,
                   lock, pcap, request>>

-----------------------------------------------------------------------------
\* update_progress, called by the thread that executes job j.
ReadProgress(c, j, p) ==
    /\ request[c] = Idle
    /\ status[j] = "running"
    /\ progress[j] <= p
    /\ request' = [request EXCEPT ![c] =
           [op |-> "update_progress", job |-> j, to |-> p]]
    /\ UNCHANGED rows

\* A report that lands whatever the row's status has become.
MutProgressLate(c) ==
    /\ request[c].op = "update_progress"
    /\ status[request[c].job] \in JobStatus
    /\ progress' = [progress EXCEPT ![request[c].job] = request[c].to]
    /\ stage' = [stage EXCEPT ![request[c].job] = "working"]
    /\ Answer(c)
    /\ UNCHANGED <<audit, status, attempt, born, cancelRequested, lock, pcap>>

WriteProgress(c) ==
    /\ request[c].op = "update_progress"
    /\ LET j == request[c].job IN
         /\ Overlap \/ (status[j] = "running" /\ progress[j] <= request[c].to)
         /\ status[j] \in JobStatus
         /\ progress' = [progress EXCEPT ![j] = request[c].to]
         /\ stage' = [stage EXCEPT ![j] = "working"]
    /\ Answer(c)
    /\ UNCHANGED <<audit, status, attempt, born, cancelRequested, lock, pcap>>

\* The handler of a capture registers its packet_capture artifact.
StorePcap(j) ==
    /\ TypeOf[j] = "packet_capture"
    /\ status[j] = "running"
    /\ pcap' = [pcap EXCEPT ![j] = "stored"]
    /\ UNCHANGED <<audit, status, stage, progress, attempt, born,
                   cancelRequested, lock, request>>

\* complete_job, fail_job and cancel_running_job: _transition_job,
\* _release_lock and _refresh_audit in one transaction.
FinishJob(j, final) ==
    /\ final \in JOB_TRANSITIONS(status[j])
    /\ LET st == [status EXCEPT ![j] = final] IN
         /\ RefreshAllowed(AuditOf[j], st)
         /\ status' = st
         /\ audit' = [audit EXCEPT ![AuditOf[j]] = Refreshed(AuditOf[j], st)]
    /\ stage' = [stage EXCEPT ![j] = final]
    /\ progress' = IF final = "completed"
                     THEN [progress EXCEPT ![j] = Full] ELSE progress
    /\ lock' = ReleaseLock(j)
    /\ UNCHANGED <<attempt, born, cancelRequested, pcap, request>>

CompleteJob(j) == FinishJob(j, "completed")
FailJob(j) == FinishJob(j, "failed")
\* Only the worker calls it, for a job it has claimed.
CancelRunningJob(j) == attempt[j] > 0 /\ FinishJob(j, "cancelled")

(***************************************************************************)
(* _recover_running: every running row is interrupted, every lock row is   *)
(* deleted, and the audits of those rows are refreshed; one refused        *)
(* refresh rolls all of it back.                                           *)
(***************************************************************************)
Running == {j \in Job : status[j] = "running"}
\* Interrupted work put back into the queue instead of ended.
MutRequeued == [j \in Job |-> IF j \in Running THEN "queued" ELSE status[j]]
AfterRestart == [j \in Job |-> IF j \in Running THEN "interrupted" ELSE status[j]]
RestartAudits == {AuditOf[j] : j \in Running}

\* A restart that leaves the lock rows behind.
MutRecoverKeepsLocks ==
    /\ \A a \in RestartAudits : RefreshAllowed(a, AfterRestart)
    /\ status' = AfterRestart
    /\ stage' = [j \in Job |-> IF j \in Running THEN "interrupted" ELSE stage[j]]
    /\ audit' = [a \in Audit |->
                   IF a \in RestartAudits THEN Refreshed(a, AfterRestart)
                                          ELSE audit[a]]
    /\ UNCHANGED <<progress, attempt, born, cancelRequested, lock, pcap,
                   request>>

RecoverRunning ==
    /\ \A a \in RestartAudits : RefreshAllowed(a, AfterRestart)
    /\ status' = AfterRestart
    /\ stage' = [j \in Job |-> IF j \in Running THEN "interrupted" ELSE stage[j]]
    /\ audit' = [a \in Audit |->
                   IF a \in RestartAudits THEN Refreshed(a, AfterRestart)
                                          ELSE audit[a]]
    /\ lock' = [k \in LockKey |-> NoJob]
    /\ UNCHANGED <<progress, attempt, born, cancelRequested, pcap, request>>

-----------------------------------------------------------------------------
\* AuditDeletionService.delete; the foreign keys cascade to its rows.
DeleteAudit(a) ==
    /\ audit[a] \in AuditStatus \ {"running"}
    /\ ~HasActive(a)
    /\ audit' = [audit EXCEPT ![a] = "deleted"]
    /\ LET gone == {j \in JobsOf(a) : status[j] # "absent"} IN
         /\ status' = [j \in Job |-> IF j \in gone THEN "deleted" ELSE status[j]]
         /\ stage' = [j \in Job |-> IF j \in gone THEN "queued" ELSE stage[j]]
         /\ progress' = [j \in Job |-> IF j \in gone THEN 0 ELSE progress[j]]
         /\ attempt' = [j \in Job |-> IF j \in gone THEN 0 ELSE attempt[j]]
         /\ born' = [j \in Job |-> IF j \in gone THEN 0 ELSE born[j]]
         /\ cancelRequested' = cancelRequested \ gone
         /\ pcap' = [j \in Job |-> IF j \in gone THEN "none" ELSE pcap[j]]
    /\ UNCHANGED <<lock, request>>

\* Deletion of a capture while its audit still has work.
MutDeletePcapUnchecked(j) ==
    /\ pcap[j] \in {"stored", "expired"}
    /\ pcap' = [pcap EXCEPT ![j] = "deleted"]
    /\ UNCHANGED <<audit, status, stage, progress, attempt, born,
                   cancelRequested, lock, request>>

\* DELETE /captures/{id}/pcap
DeletePcap(j) ==
    /\ pcap[j] \in {"stored", "expired"}
    /\ ~HasActive(AuditOf[j])
    /\ pcap' = [pcap EXCEPT ![j] = "deleted"]
    /\ UNCHANGED <<audit, status, stage, progress, attempt, born,
                   cancelRequested, lock, request>>

\* Retention cleanup looks at the age of an artifact, not at its audit's jobs.
ExpirePcap(j) ==
    /\ pcap[j] = "stored"
    /\ pcap' = [pcap EXCEPT ![j] = "expired"]
    /\ UNCHANGED <<audit, status, stage, progress, attempt, born,
                   cancelRequested, lock, request>>

-----------------------------------------------------------------------------
Next ==
    \/ \E c \in Client :
         \/ \E a \in Audit : CreateAudit(c, a)
         \/ SnapshotStored(c)
         \/ SnapshotFailed(c)
         \/ FailAudit(c)
         \/ \E j \in Job : ReadForCreate(c, j)
         \/ InsertJob(c)
         \/ \E j \in Job, p \in 0..Full : ReadProgress(c, j, p)
         \/ WriteProgress(c)
    \/ \E C \in SUBSET Client : Abandon(C)
    \/ \E j, source \in Job : Retry(j, source)
    \/ \E j \in Job :
         \/ EnqueueAnalysis(j)
         \/ RequestCancel(j)
         \/ ClaimNext(j)
         \/ StorePcap(j)
         \/ CompleteJob(j)
         \/ FailJob(j)
         \/ CancelRunningJob(j)
         \/ DeletePcap(j)
         \/ ExpirePcap(j)
    \/ ClaimNothing
    \/ RecoverRunning
    \/ \E a \in Audit : DeleteAudit(a)

Spec == Init /\ [][Next]_vars
-----------------------------------------------------------------------------
TypeOK ==
    /\ audit \in [Audit -> AuditStatus \cup {"absent", "deleted"}]
    /\ status \in [Job -> JobStatus \cup {"absent", "deleted"}]
    /\ stage \in [Job -> Stage]
    /\ progress \in [Job -> 0..Full]
    /\ attempt \in [Job -> Nat]
    /\ born \in [Job -> Nat]
    /\ cancelRequested \subseteq Job
    /\ lock \in [LockKey -> Job \cup {NoJob}]
    /\ pcap \in [Job -> Pcap]
    /\ request \in [Client -> Request]

(***************************************************************************)
(* The resource_locks table agrees with the jobs table: the row of a key   *)
(* belongs to a running job that takes that key, and every running job     *)
(* that takes a lock has its row.  A stale row would starve every later    *)
(* job of the resource, a missing one would let two jobs share it.         *)
(***************************************************************************)
LockTable ==
    /\ \A k \in LockKey : lock[k] # NoJob =>
          /\ status[lock[k]] = "running"
          /\ TakesLock(lock[k])
          /\ RowKey(lock[k]) = k
    /\ \A j \in Job : status[j] = "running" /\ TakesLock(j)
          => lock[RowKey(j)] = j

\* Two jobs that name the same resource key never run at the same time,
\* through every order of claims, cancellations, retries and restarts.
ResourceExclusive ==
    \A i, j \in Job :
        /\ status[i] = "running" /\ status[j] = "running"
        /\ KeyOf[i] = KeyOf[j] /\ KeyOf[i] # NoKey
        => i = j

\* No more jobs of a resource group run than its limit (max_packet_captures,
\* max_active_discovery_jobs, ...) allows.
GroupWithinLimit ==
    \A g \in Group : Limit[g] # 0 =>
        Cardinality({j \in Job : GroupOf[j] = g /\ status[j] = "running"})
            <= Limit[g]

\* A job row never outlives its audit row: create_job, which checks the audit
\* before it writes, cannot put a job into an audit deleted in between.
NoOrphanJob ==
    \A j \in Job : status[j] \in JobStatus => audit[AuditOf[j]] \in AuditStatus

\* An audit has at most one analysis queued or running, whether analyses are
\* launched from the capture screen or by the retry of a failed one.
OneActiveAnalysis ==
    \A i, j \in Job :
        /\ TypeOf[i] = "traffic_analysis" /\ TypeOf[j] = "traffic_analysis"
        /\ AuditOf[i] = AuditOf[j]
        /\ status[i] \in JobActive /\ status[j] \in JobActive
        => i = j

(***************************************************************************)
(* The status of an audit accounts for its jobs.  An untouched audit has   *)
(* only queued jobs, a running one has work left, and a finished one has   *)
(* none and shows the outcome _refresh_audit computes, unless its snapshot *)
(* failed before any job was queued.  Holds when requests on one audit do  *)
(* not overlap (~Overlap).                                                 *)
(***************************************************************************)
AuditAccountsFor(a) ==
    LET S == Statuses(a, status) IN
    /\ audit[a] \in {"absent", "deleted"} => S = {}
    /\ audit[a] = "created" => S \subseteq {"queued"}
    /\ audit[a] = "running" => S \cap JobActive # {}
    /\ audit[a] \in AuditTerminal =>
          \/ S = {} /\ audit[a] = "failed"
          \/ S # {} /\ audit[a] = DesiredAudit(S)
AuditAccounts == \A a \in Audit : AuditAccountsFor(a)

(***************************************************************************)
(* No end of a job is ever refused by its audit: whatever outcome a        *)
(* running job has, whenever a queued one is cancelled, and whenever the   *)
(* worker restarts, require_audit_transition accepts the refreshed status. *)
(* A refused refresh rolls the transaction back and leaves the job running *)
(* with its lock.                                                          *)
(***************************************************************************)
EndingsAccepted ==
    /\ \A j \in Running : \A final \in JOB_TRANSITIONS("running") :
          RefreshAllowed(AuditOf[j], [status EXCEPT ![j] = final])
    /\ \A j \in Queued :
          RefreshAllowed(AuditOf[j], [status EXCEPT ![j] = "cancelled"])

\* The restart of the worker can always interrupt the jobs that were running.
RestartAccepted ==
    \A a \in RestartAudits : RefreshAllowed(a, AfterRestart)

(***************************************************************************)
(* A job that has ended keeps its status, stage and progress until its     *)
(* audit is deleted: recovery, retry and a late progress report of the     *)
(* thread that ran it leave it alone.                                      *)
(***************************************************************************)
TerminalImmutable ==
    [][\A j \in Job : status[j] \in JobTerminal =>
          \/ status'[j] = "deleted"
          \/ /\ status'[j] = status[j]
             /\ stage'[j] = stage[j]
             /\ progress'[j] = progress[j]]_vars

\* A job is claimed once; another execution of the work is another row.
AtMostOneAttempt == \A j \in Job : attempt[j] <= 1

\* Only retention cleanup takes the capture away from an analysis that is
\* queued or running: the deletion services and the enqueue serialize.
PcapHeldForAnalysis ==
    [][\A j, source \in Job :
          /\ TypeOf[j] = "traffic_analysis" /\ status[j] \in JobActive
          /\ SourceOf[j] = source /\ pcap[source] = "stored"
          => pcap'[source] \in {"stored", "expired"}]_vars

\* The abstract specification, with the status column as the phase.
Stages == INSTANCE JobStages WITH phase <- status
ImplementsStages == Stages!Spec
=============================================================================
