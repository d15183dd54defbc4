------------------------------ MODULE JobWorker ------------------------------
(***************************************************************************)
(* The worker process of jobs/worker.py on top of the rows of JobService:  *)
(* supervisors, their worker threads, the monitor of each execution, the   *)
(* worker rows with their heartbeats, and crash, stop and restart of the   *)
(* process.                                                                *)
(*                                                                         *)
(* A supervisor stands for one slot in which a process may run; the ids of *)
(* the rows of a new process are new, but prepare_supervisor marks every   *)
(* earlier row stopped in the transaction that lets the process start, so  *)
(* the slot keeps one row per thread.                                      *)
(***************************************************************************)
EXTENDS JobService

CONSTANTS
    Supervisor, Thread,
    SupervisorOf,   \* the process a thread belongs to
    Api,            \* the request threads of the API process
    MaxKills        \* bound on abnormal ends of a worker process

VARIABLES
    proc,           \* each process: "down", "up", "stopping" or "exited"
    pc,             \* where each thread is in run_forever, run_once, _execute
    current,        \* the job a thread executes
    token,          \* threads whose CancellationToken is cancelled
    outcome,        \* how the handler of a thread ended
    plan,           \* the service call that _execute has decided on
    row,            \* workers table: status and whether heartbeat_at is recent
    kills

wvars == <<proc, pc, current, token, outcome, plan, row, kills>>
allvars == <<vars, wvars>>

-----------------------------------------------------------------------------
PC == {"off", "start", "poll", "claim", "begin", "exec", "ended", "commit",
       "finish", "last", "dying", "dead"}
Executing == {"begin", "exec", "ended", "commit"}

ThreadsOf(s) == {t \in Thread : SupervisorOf[t] = s}
Worker == Supervisor \cup Thread
Row == [status : {"none", "starting", "idle", "running", "stopped"},
        fresh : BOOLEAN]

\* A lease that never expires.
MutHealthyForever(w) == row[w].status \in {"starting", "idle", "running"}
Healthy(w) == row[w].fresh /\ row[w].status \in {"starting", "idle", "running"}
Heartbeat(w, st) ==
    row' = [row EXCEPT ![w] = [status |-> st, fresh |-> TRUE]]

ASSUME ThreadAssumption ==
    /\ SupervisorOf \in [Thread -> Supervisor]
    /\ Client = Api \cup Thread /\ Api \cap Thread = {}
    /\ MaxKills \in Nat

WInit ==
    /\ Init
    /\ proc = [s \in Supervisor |-> "down"]
    /\ pc = [t \in Thread |-> "off"]
    /\ current = [t \in Thread |-> NoJob]
    /\ token = {}
    /\ outcome = [t \in Thread |-> "none"]
    /\ plan = [t \in Thread |-> "none"]
    /\ row = [w \in Worker |-> [status |-> "none", fresh |-> FALSE]]
    /\ kills = 0

-----------------------------------------------------------------------------
\* A start that forgets _recover_running.
MutStartNoRecovery(s) ==
    /\ proc[s] = "down"
    /\ \A w \in Worker : ~Healthy(w)
    /\ row' = [w \in Worker |->
                 IF w = s THEN [status |-> "starting", fresh |-> TRUE]
                          ELSE [row[w] EXCEPT !.status = "stopped"]]
    /\ proc' = [proc EXCEPT ![s] = "up"]
    /\ pc' = [t \in Thread |-> IF SupervisorOf[t] = s THEN "start" ELSE pc[t]]
    /\ UNCHANGED <<vars, current, token, outcome, plan, kills>>

\* WorkerSupervisor.start: prepare_supervisor, then the threads are started.
\* A refused refresh of an audit ends the new process instead.
StartSupervisor(s) ==
    /\ proc[s] = "down"
    /\ \A w \in Worker : ~Healthy(w)
    /\ RecoverRunning
    /\ row' = [w \in Worker |->
                 IF w = s THEN [status |-> "starting", fresh |-> TRUE]
                          ELSE [row[w] EXCEPT !.status = "stopped"]]
    /\ proc' = [proc EXCEPT ![s] = "up"]
    /\ pc' = [t \in Thread |-> IF SupervisorOf[t] = s THEN "start" ELSE pc[t]]
    /\ UNCHANGED <<current, token, outcome, plan, kills>>

\* An operator starts a process that ended on its own or was stopped.
StartAgain(s) ==
    /\ proc[s] = "exited"
    /\ proc' = [proc EXCEPT ![s] = "down"]
    /\ UNCHANGED <<vars, pc, current, token, outcome, plan, row, kills>>

\* JobWorker.startup
Register(t) ==
    /\ pc[t] = "start"
    /\ Heartbeat(t, "idle")
    /\ pc' = [pc EXCEPT ![t] = "poll"]
    /\ UNCHANGED <<vars, proc, current, token, outcome, plan, kills>>

\* The head of the loop of run_forever: the stop event, then the heartbeat.
Poll(t) ==
    /\ pc[t] = "poll"
    /\ IF proc[SupervisorOf[t]] = "stopping"
         THEN Heartbeat(t, "stopped") /\ pc' = [pc EXCEPT ![t] = "off"]
         ELSE Heartbeat(t, "idle") /\ pc' = [pc EXCEPT ![t] = "claim"]
    /\ UNCHANGED <<vars, proc, current, token, outcome, plan, kills>>

Claim(t, j) ==
    /\ pc[t] = "claim"
    /\ ClaimNext(j)
    /\ current' = [current EXCEPT ![t] = j]
    /\ pc' = [pc EXCEPT ![t] = "begin"]
    /\ UNCHANGED <<proc, token, outcome, plan, row, kills>>

\* Nothing to claim: the thread sleeps for the poll interval.
ClaimNone(t) ==
    /\ pc[t] = "claim"
    /\ ClaimNothing
    /\ pc' = [pc EXCEPT ![t] = "poll"]
    /\ UNCHANGED <<proc, current, token, outcome, plan, row, kills>>

\* _execute starts the monitor and reports the worker as running.
Begin(t) ==
    /\ pc[t] = "begin"
    /\ Heartbeat(t, "running")
    /\ token' = token \ {t}
    /\ pc' = [pc EXCEPT ![t] = "exec"]
    /\ UNCHANGED <<vars, proc, current, outcome, plan, kills>>

\* _monitor_cancellation
Monitor(t) ==
    /\ pc[t] \in {"exec", "ended", "commit"}
    /\ t \notin token
    /\ \/ current[t] \in cancelRequested
       \/ status[current[t]] \in JobTerminal
    /\ token' = token \cup {t}
    /\ UNCHANGED <<vars, proc, pc, current, outcome, plan, row, kills>>

\* The handler reports progress and stores the capture it produced.
Report(t) ==
    /\ pc[t] = "exec"
    /\ \/ \E p \in 0..Full : ReadProgress(t, current[t], p)
       \/ WriteProgress(t)
       \/ StorePcap(current[t])
    /\ UNCHANGED wvars

\* The handler returns, raises JobCancelled, which it does when it sees the
\* cancelled token, or raises another error; a refused update_progress is one.
HandlerEnds(t, o) ==
    /\ pc[t] = "exec"
    /\ o # "error" => request[t] = Idle
    /\ o = "cancelled" => t \in token
    /\ Abandon({t})
    /\ outcome' = [outcome EXCEPT ![t] = o]
    /\ pc' = [pc EXCEPT ![t] = "ended"]
    /\ UNCHANGED <<proc, current, token, plan, row, kills>>

\* get_job and the choice of the call that ends the job; the answer may be
\* out of date when that call is made.
Decide(t) ==
    /\ pc[t] = "ended"
    /\ LET cancelled == t \in token \/ current[t] \in cancelRequested IN
       plan' = [plan EXCEPT ![t] =
                  CASE outcome[t] = "cancelled" \/ cancelled -> "cancelled"
                    [] outcome[t] = "success"                -> "completed"
                    [] OTHER                                 -> "failed"]
    /\ pc' = [pc EXCEPT ![t] = IF status[current[t]] = "deleted"
                                 THEN "dying" ELSE "commit"]
    /\ UNCHANGED <<vars, proc, current, token, outcome, row, kills>>

EndJob(j, final) ==
    \/ final = "completed" /\ CompleteJob(j)
    \/ final = "failed" /\ FailJob(j)
    \/ final = "cancelled" /\ CancelRunningJob(j)

\* The call is accepted when the job still runs and its audit agrees.
EndAccepted(j, final) ==
    /\ final \in JOB_TRANSITIONS(status[j])
    /\ RefreshAllowed(AuditOf[j], [status EXCEPT ![j] = final])

\* The end of a job written past the service: the lock and the audit stay.
MutCommitDirect(t) ==
    /\ pc[t] = "commit"
    /\ status' = [status EXCEPT ![current[t]] = plan[t]]
    /\ pc' = [pc EXCEPT ![t] = "finish"]
    /\ UNCHANGED <<audit, stage, progress, attempt, born, cancelRequested, lock,
                   pcap, request>>
    /\ UNCHANGED <<proc, current, token, outcome, plan, row, kills>>

Commit(t) ==
    /\ pc[t] = "commit"
    /\ EndJob(current[t], plan[t])
    /\ pc' = [pc EXCEPT ![t] = "finish"]
    /\ UNCHANGED <<proc, current, token, outcome, plan, row, kills>>

\* InvalidTransition: raised in the try block it is handled as an error of
\* the handler, raised while an error is handled it ends the thread.
CommitRefused(t) ==
    /\ pc[t] = "commit"
    /\ ~EndAccepted(current[t], plan[t])
    /\ IF outcome[t] = "success"
         THEN /\ outcome' = [outcome EXCEPT ![t] = "error"]
              /\ pc' = [pc EXCEPT ![t] = "ended"]
         ELSE /\ pc' = [pc EXCEPT ![t] = "dying"]
              /\ UNCHANGED outcome
    /\ UNCHANGED <<vars, proc, current, token, plan, row, kills>>

\* The finally clause of _execute; nothing catches what it lets through.
Finish(t) ==
    /\ pc[t] \in {"finish", "dying"}
    /\ Heartbeat(t, "idle")
    /\ pc' = [pc EXCEPT ![t] = IF @ = "dying" THEN "dead" ELSE "last"]
    /\ token' = token \ {t}
    /\ outcome' = [outcome EXCEPT ![t] = "none"]
    /\ plan' = [plan EXCEPT ![t] = "none"]
    /\ UNCHANGED <<vars, proc, current, kills>>

\* The get_job after the finally clause, for the log: EntityNotFound, when the
\* audit has been deleted since the job ended, ends the thread.
ReadFinal(t) ==
    /\ pc[t] = "last"
    /\ pc' = [pc EXCEPT ![t] = IF status[current[t]] = "deleted"
                                 THEN "dead" ELSE "poll"]
    /\ current' = [current EXCEPT ![t] = NoJob]
    /\ UNCHANGED <<vars, proc, token, outcome, plan, row, kills>>

-----------------------------------------------------------------------------
\* SIGTERM sets the stop event; running handlers are not cancelled.
Terminate(s) ==
    /\ proc[s] = "up"
    /\ proc' = [proc EXCEPT ![s] = "stopping"]
    /\ UNCHANGED <<vars, pc, current, token, outcome, plan, row, kills>>

\* main returns, with exit status 0, when every thread has ended.
Exit(s) ==
    /\ proc[s] \in {"up", "stopping"}
    /\ \A t \in ThreadsOf(s) : pc[t] \in {"off", "dead"}
    /\ Heartbeat(s, "stopped")
    /\ proc' = [proc EXCEPT ![s] = "exited"]
    /\ pc' = [t \in Thread |-> IF SupervisorOf[t] = s THEN "off" ELSE pc[t]]
    /\ current' = [t \in Thread |->
                     IF SupervisorOf[t] = s THEN NoJob ELSE current[t]]
    /\ UNCHANGED <<vars, token, outcome, plan, kills>>

\* The process dies: power loss, SIGKILL at the end of TimeoutStopSec, ...
Kill(s) ==
    /\ proc[s] \in {"up", "stopping"}
    /\ kills < MaxKills
    /\ kills' = kills + 1
    /\ proc' = [proc EXCEPT ![s] = "down"]
    /\ pc' = [t \in Thread |-> IF SupervisorOf[t] = s THEN "off" ELSE pc[t]]
    /\ current' = [t \in Thread |->
                     IF SupervisorOf[t] = s THEN NoJob ELSE current[t]]
    /\ token' = token \ ThreadsOf(s)
    /\ outcome' = [t \in Thread |->
                     IF SupervisorOf[t] = s THEN "none" ELSE outcome[t]]
    /\ plan' = [t \in Thread |->
                  IF SupervisorOf[t] = s THEN "none" ELSE plan[t]]
    /\ Abandon(ThreadsOf(s))
    /\ UNCHANGED row

\* worker_stale_after_seconds pass without a heartbeat.  Only the execution of
\* a handler lasts that long in a live thread; the row of a supervisor is
\* written at its start and its end only.
Age(w) ==
    /\ row[w].fresh
    /\ w \in Thread => pc[w] \in {"exec", "off", "dead"}
    /\ w \in Supervisor => \A t \in ThreadsOf(w) : pc[t] # "start"
    /\ row' = [row EXCEPT ![w].fresh = FALSE]
    /\ UNCHANGED <<vars, proc, pc, current, token, outcome, plan, kills>>

-----------------------------------------------------------------------------
\* The operations of the API process.
ApiStep ==
    \/ \E c \in Api :
         \/ \E a \in Audit : CreateAudit(c, a)
         \/ SnapshotStored(c)
         \/ SnapshotFailed(c)
         \/ FailAudit(c)
         \/ \E j \in Job : ReadForCreate(c, j)
         \/ InsertJob(c)
    \/ \E C \in SUBSET Api : Abandon(C)
    \/ \E j, source \in Job : Retry(j, source)
    \/ \E j \in Job : EnqueueAnalysis(j) \/ RequestCancel(j) \/ DeletePcap(j)
                        \/ ExpirePcap(j)
    \/ \E a \in Audit : DeleteAudit(a)

ThreadStep(t) ==
    \/ Register(t)
    \/ Poll(t)
    \/ \E j \in Job : Claim(t, j)
    \/ ClaimNone(t)
    \/ Begin(t)
    \/ \E o \in {"success", "cancelled", "error"} : HandlerEnds(t, o)
    \/ Decide(t)
    \/ Commit(t)
    \/ CommitRefused(t)
    \/ Finish(t)
    \/ ReadFinal(t)

WNext ==
    \/ ApiStep /\ UNCHANGED wvars
    \/ \E t \in Thread : ThreadStep(t) \/ Report(t) \/ Monitor(t)
    \/ \E s \in Supervisor :
         StartSupervisor(s) \/ StartAgain(s) \/ Terminate(s) \/ Exit(s) \/ Kill(s)
    \/ \E w \in Worker : Age(w)

WSpec == WInit /\ [][WNext]_allvars

(***************************************************************************)
(* Fairness.  Threads are scheduled, every handler is bounded by its tool  *)
(* timeouts, time passes, and systemd starts a worker again that died      *)
(* (Restart=on-failure); it does not start one that exited with status 0.  *)
(***************************************************************************)
WFairSpec ==
    /\ WSpec
    /\ \A t \in Thread : WF_allvars(ThreadStep(t))
    /\ \A s \in Supervisor : WF_allvars(StartSupervisor(s)) /\ WF_allvars(Exit(s))
    /\ \A w \in Worker : WF_allvars(Age(w))

-----------------------------------------------------------------------------
WTypeOK ==
    /\ TypeOK
    /\ proc \in [Supervisor -> {"down", "up", "stopping", "exited"}]
    /\ pc \in [Thread -> PC]
    /\ current \in [Thread -> Job \cup {NoJob}]
    /\ token \subseteq Thread
    /\ outcome \in [Thread -> {"none", "success", "cancelled", "error"}]
    /\ plan \in [Thread -> {"none", "completed", "failed", "cancelled"}]
    /\ row \in [Worker -> Row]
    /\ kills \in 0..MaxKills

(***************************************************************************)
(* Every execution has its own running job, and every running job is being *)
(* executed unless its process is gone: no restart interrupts a job under  *)
(* a live thread, and no running row is left without a thread while a      *)
(* worker is up.                                                           *)
(***************************************************************************)
Ownership ==
    /\ \A t \in Thread : pc[t] \in Executing => status[current[t]] = "running"
    /\ \A t, u \in Thread :
          pc[t] \in Executing /\ pc[u] \in Executing /\ t # u
            => current[t] # current[u]
    /\ (\E s \in Supervisor : proc[s] \in {"up", "stopping"}) =>
          \A j \in Job : status[j] = "running" =>
             \E t \in Thread : pc[t] \in Executing /\ current[t] = j

\* The call with which a thread ends its job is never refused: the job still
\* runs, its audit agrees, and no thread is lost with its job left running.
NoEndRefused == \A t \in Thread : pc[t] # "dying"

\* Two handlers never work on the same resource at the same time, whatever the
\* rows say: crash, restart and late threads included.
HandlersExclusive ==
    \A t, u \in Thread :
        /\ pc[t] \in Executing /\ pc[u] \in Executing /\ t # u
        => KeyOf[current[t]] # KeyOf[current[u]] \/ KeyOf[current[t]] = NoKey

\* One supervisor at a time: the lease of prepare_supervisor.
OneSupervisor ==
    \A s, r \in Supervisor : proc[s] = "up" /\ proc[r] = "up" => s = r

\* A job whose cancellation was requested while it ran does not complete.
CancelHonoured ==
    \A j \in Job : j \in cancelRequested => status[j] # "completed"

(***************************************************************************)
(* Every job that is queued or running ends, through crashes and restarts  *)
(* of the worker and cancellations, unless the worker exits: an operator   *)
(* stopped it, or each of its threads was lost in ReadFinal.               *)
(***************************************************************************)
EveryJobEnds ==
    \A j \in Job : status[j] \in JobActive
                     ~> status[j] \notin JobActive
                          \/ \E s \in Supervisor : proc[s] = "exited"

\* A worker process that died is running again some time later: the rows it
\* left behind do not keep its successor from starting for ever.
WorkerReturns ==
    \A s \in Supervisor : proc[s] = "down" ~> proc[s] = "up"

\* The worker uses the job service only through its operations.
ImplementsService == Spec
=============================================================================
