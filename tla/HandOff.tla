------------------------------ MODULE HandOff ------------------------------
(***************************************************************************)
(* Files that the API hands to the worker beside the database: the         *)
(* credentials of an SNMP or SSH topology job (snmp_credentials.py,        *)
(* ssh_credentials.py), which are never stored in a row, and the staged    *)
(* upload of an imported capture (pcap_import.py).  The file is written by *)
(* one process, named in the parameters of a job, removed by the handler   *)
(* of that job, by the cancellation of the queued job, or, once old, by    *)
(* the cleanup at the start of a worker.  Both processes may be killed.    *)
(***************************************************************************)
CONSTANTS
    Job, File,
    FileOf,         \* credential_ref or staging_token of a job's parameters
    Secret,         \* files that hold credentials; the others are uploads
    Canceller       \* concurrent requests to cancel a job

VARIABLES
    status,         \* job rows
    cancelRequested,
    file,           \* "temp" while its content is written
    old,            \* files not written for temp_file_max_age_seconds
    launch,         \* the request that writes a file and creates its job
    cancel,         \* requests to cancel a job
    up,             \* is the worker running?
    handler         \* where the handler of each running job is

vars == <<status, cancelRequested, file, old, launch, cancel, up, handler>>

ASSUME FileAssumption == FileOf \in [Job -> File] /\ Secret \subseteq File

-----------------------------------------------------------------------------
Active == {"queued", "running"}
Ended == {"completed", "failed", "cancelled", "interrupted"}
Retryable == {"failed", "interrupted", "cancelled"}
IsSecret(j) == FileOf[j] \in Secret
JobsOf(f) == {j \in Job : FileOf[j] = f}

NoCancel == [step |-> "idle"]
Cancel == {NoCancel} \cup [step : {"read", "delete"}, job : Job, queued : BOOLEAN]

Init ==
    /\ status = [j \in Job |-> "absent"]
    /\ cancelRequested = {}
    /\ file = [f \in File |-> "none"]
    /\ old = {}
    /\ launch = [f \in File |-> "idle"]
    /\ cancel = [c \in Canceller |-> NoCancel]
    /\ up = FALSE
    /\ handler = [j \in Job |-> "none"]

DeleteFiles(S) ==
    /\ file' = [f \in File |-> IF f \in S THEN "none" ELSE file[f]]
    /\ old' = old \ S

-----------------------------------------------------------------------------
\* SnmpCredentialSpool.put, SshCredentialSpool.put, and the streamed body of
\* POST /captures/import.
BeginFile(f) ==
    /\ launch[f] = "idle"
    /\ launch' = [launch EXCEPT ![f] = "writing"]
    /\ file' = [file EXCEPT ![f] = "temp"]
    /\ UNCHANGED <<status, cancelRequested, old, cancel, up, handler>>

\* fsync and rename; an upload is inspected under its own name.
FinishFile(f) ==
    /\ launch[f] = "writing"
    /\ launch' = [launch EXCEPT ![f] = "written"]
    /\ file' = [file EXCEPT ![f] = "ready"]
    /\ UNCHANGED <<status, cancelRequested, old, cancel, up, handler>>

CreateJob(j) ==
    /\ launch[FileOf[j]] = "written"
    /\ status[j] = "absent"
    /\ status' = [status EXCEPT ![j] = "queued"]
    /\ launch' = [launch EXCEPT ![FileOf[j]] = "over"]
    /\ UNCHANGED <<cancelRequested, file, old, cancel, up, handler>>

\* Any exception of the request, a job refused by its audit included.
LaunchFails(f) ==
    /\ launch[f] \in {"writing", "written"}
    /\ launch' = [launch EXCEPT ![f] = "over"]
    /\ DeleteFiles({f})
    /\ UNCHANGED <<status, cancelRequested, cancel, up, handler>>

\* RecoveryService.retry copies the parameters, and so the name of the file;
\* credentials are never reused.
Retry(j, source) ==
    /\ status[j] = "absent" /\ status[source] \in Retryable
    /\ FileOf[j] = FileOf[source] /\ ~IsSecret(j)
    /\ \A i \in JobsOf(FileOf[j]) : status[i] \notin Active
    /\ status' = [status EXCEPT ![j] = "queued"]
    /\ UNCHANGED <<cancelRequested, file, old, launch, cancel, up, handler>>

-----------------------------------------------------------------------------
\* cancel_job: get_job, request_cancel, then the file of a job that was queued
\* before and is cancelled now.
CancelRead(c, j) ==
    /\ cancel[c] = NoCancel
    /\ status[j] # "absent"
    /\ cancel' = [cancel EXCEPT ![c] =
          [step |-> "read", job |-> j, queued |-> status[j] = "queued"]]
    /\ UNCHANGED <<status, cancelRequested, file, old, launch, up, handler>>

\* A cancellation that trusts the status it read first.
MutCancelCommit(c) ==
    /\ cancel[c].step = "read"
    /\ LET j == cancel[c].job IN
         /\ status' = IF status[j] = "queued"
                        THEN [status EXCEPT ![j] = "cancelled"] ELSE status
         /\ cancelRequested' = IF status[j] = "running"
                                 THEN cancelRequested \cup {j}
                                 ELSE cancelRequested
         /\ cancel' = [cancel EXCEPT ![c] =
               IF IsSecret(j) /\ cancel[c].queued
                 THEN [cancel[c] EXCEPT !.step = "delete"] ELSE NoCancel]
    /\ UNCHANGED <<file, old, launch, up, handler>>

CancelCommit(c) ==
    /\ cancel[c].step = "read"
    /\ LET j == cancel[c].job IN
         /\ status' = IF status[j] = "queued"
                        THEN [status EXCEPT ![j] = "cancelled"] ELSE status
         /\ cancelRequested' = IF status[j] = "running"
                                 THEN cancelRequested \cup {j}
                                 ELSE cancelRequested
         /\ cancel' = [cancel EXCEPT ![c] =
               IF IsSecret(j) /\ cancel[c].queued /\ status'[j] = "cancelled"
                 THEN [cancel[c] EXCEPT !.step = "delete"] ELSE NoCancel]
    /\ UNCHANGED <<file, old, launch, up, handler>>

CancelDelete(c) ==
    /\ cancel[c].step = "delete"
    /\ DeleteFiles({FileOf[cancel[c].job]})
    /\ cancel' = [cancel EXCEPT ![c] = NoCancel]
    /\ UNCHANGED <<status, cancelRequested, launch, up, handler>>

-----------------------------------------------------------------------------
\* The worker claims a job; its handler first checks parameters, scope and
\* route, outside the try statement that removes the file.
Claim(j) ==
    /\ up
    /\ status[j] = "queued"
    /\ status' = [status EXCEPT ![j] = "running"]
    /\ handler' = [handler EXCEPT ![j] = "checks"]
    /\ UNCHANGED <<cancelRequested, file, old, launch, cancel, up>>

ChecksPass(j) ==
    /\ handler[j] = "checks"
    /\ handler' = [handler EXCEPT ![j] = "try"]
    /\ UNCHANGED <<status, cancelRequested, file, old, launch, cancel, up>>

ChecksFail(j) ==
    /\ handler[j] = "checks"
    /\ handler' = [handler EXCEPT ![j] = "error"]
    /\ UNCHANGED <<status, cancelRequested, file, old, launch, cancel, up>>

\* The file is read and used; without it the handler raises.  The finally
\* clause removes it.
Finally(j, o) ==
    /\ handler[j] = "try"
    /\ o = "result" => file[FileOf[j]] = "ready"
    /\ handler' = [handler EXCEPT ![j] = o]
    /\ DeleteFiles({FileOf[j]})
    /\ UNCHANGED <<status, cancelRequested, launch, cancel, up>>

\* The end of _execute.
EndJob(j) ==
    /\ handler[j] \in {"result", "error"}
    /\ status' = [status EXCEPT ![j] =
          IF j \in cancelRequested THEN "cancelled"
          ELSE IF handler[j] = "result" THEN "completed" ELSE "failed"]
    /\ handler' = [handler EXCEPT ![j] = "none"]
    /\ UNCHANGED <<cancelRequested, file, old, launch, cancel, up>>

-----------------------------------------------------------------------------
\* A cleanup that overlooks temporary names.
MutStale == {f \in old : file[f] = "ready"}

\* cleanup_stale of both spools and cleanup_stale_temporary_files, whose
\* pattern matches the name of an upload.
Stale == old

\* WorkerSupervisor.start: recovery, then run_startup_cleanup.
StartWorker ==
    /\ ~up
    /\ up' = TRUE
    /\ status' = [j \in Job |-> IF status[j] = "running" THEN "interrupted"
                                                         ELSE status[j]]
    /\ DeleteFiles(Stale)
    /\ UNCHANGED <<cancelRequested, launch, cancel, handler>>

\* POST /operations/cleanup runs the same cleanup in the API process.
Maintain ==
    /\ Stale # {}
    /\ DeleteFiles(Stale)
    /\ UNCHANGED <<status, cancelRequested, launch, cancel, up, handler>>

StopWorker ==
    /\ up
    /\ up' = FALSE
    /\ handler' = [j \in Job |-> "none"]
    /\ UNCHANGED <<status, cancelRequested, file, old, launch, cancel>>

KillApi ==
    /\ launch' = [f \in File |-> IF launch[f] = "idle" THEN "idle" ELSE "over"]
    /\ cancel' = [c \in Canceller |-> NoCancel]
    /\ UNCHANGED <<status, cancelRequested, file, old, up, handler>>

\* A request lasts less than temp_file_max_age_seconds; a job may wait longer.
Age(f) ==
    /\ file[f] # "none" /\ launch[f] = "over" /\ f \notin old
    /\ old' = old \cup {f}
    /\ UNCHANGED <<status, cancelRequested, file, launch, cancel, up, handler>>

LaunchStep(f) ==
    \/ BeginFile(f)
    \/ FinishFile(f)
    \/ LaunchFails(f)
    \/ \E j \in JobsOf(f) : CreateJob(j)

CancelStep(c) ==
    \/ CancelCommit(c)
    \/ CancelDelete(c)

WorkerStep(j) ==
    \/ Claim(j) \/ ChecksPass(j) \/ ChecksFail(j)
    \/ \E o \in {"result", "error"} : Finally(j, o)
    \/ EndJob(j)

Next ==
    \/ \E f \in File : LaunchStep(f) \/ Age(f)
    \/ \E c \in Canceller : CancelStep(c) \/ \E j \in Job : CancelRead(c, j)
    \/ \E j \in Job : WorkerStep(j) \/ \E source \in Job : Retry(j, source)
    \/ StartWorker \/ StopWorker \/ Maintain \/ KillApi

Spec == Init /\ [][Next]_vars

\* Requests make progress or their process dies, and time passes.
HandOffFairness ==
    \A f \in File : /\ WF_vars(Age(f))
                    /\ WF_vars(FinishFile(f) \/ LaunchFails(f))
                    /\ WF_vars(LaunchFails(f) \/ \E j \in JobsOf(f) : CreateJob(j))

FairSpec == Spec /\ HandOffFairness

-----------------------------------------------------------------------------
TypeOK ==
    /\ status \in [Job -> {"absent"} \cup Active \cup Ended]
    /\ cancelRequested \subseteq Job
    /\ file \in [File -> {"none", "temp", "ready"}]
    /\ old \subseteq File
    /\ launch \in [File -> {"idle", "writing", "written", "over"}]
    /\ cancel \in [Canceller -> Cancel]
    /\ up \in BOOLEAN
    /\ handler \in [Job -> {"none", "checks", "try", "result", "error"}]

\* The worker never claims a job whose file is half written, whatever the
\* request that writes it is doing and whenever its process dies.
JobAfterFile ==
    \A j \in Job : status[j] \in Active => file[FileOf[j]] # "temp"

\* A job that has completed has left no credentials behind.
SecretSpent ==
    \A j \in Job : IsSecret(j) /\ status[j] = "completed"
                     => file[FileOf[j]] = "none"

(***************************************************************************)
(* A job that waits, and goes on waiting or is claimed, keeps its file     *)
(* unless the file is old: cancellations that raced with the claim, other  *)
(* executions of a retried import and cleanups leave it alone.             *)
(***************************************************************************)
FileKept ==
    [][\A j \in Job :
          /\ status[j] \in Active /\ status'[j] \in Active
          /\ handler[j] # "try"
          /\ file[FileOf[j]] = "ready" /\ file'[FileOf[j]] = "none"
          => FileOf[j] \in old]_vars

\* Credentials do not stay: provided the worker is started again and again,
\* every credential file disappears, those of crashed requests, of cancelled
\* jobs and of failed handlers included.
SecretGone ==
    []<><<StartWorker>>_vars =>
        \A f \in Secret : file[f] # "none" ~> file[f] = "none"
=============================================================================
