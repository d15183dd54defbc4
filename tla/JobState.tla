------------------------------ MODULE JobState ------------------------------
(***************************************************************************)
(* The central state-transition rules of audits and jobs (jobs/state.py)   *)
(* and the rule by which an audit's status is computed from its jobs       *)
(* (JobService._refresh_audit).                                            *)
(***************************************************************************)

JobStatus == {"queued", "running", "completed", "failed", "cancelled",
              "interrupted"}

AuditStatus == {"created", "running", "completed", "failed", "cancelled",
                "interrupted"}

JobActive == {"queued", "running"}
JobTerminal == JobStatus \ JobActive          \* JobStatus.terminal
AuditTerminal == {"completed", "failed", "cancelled", "interrupted"}

JOB_TRANSITIONS(current) ==
    CASE current = "queued"  -> {"running", "cancelled"}
      [] current = "running" -> {"completed", "failed", "cancelled",
                                 "interrupted"}
      [] OTHER               -> {}

AUDIT_TRANSITIONS(current) ==
    CASE current = "created" -> {"running", "cancelled", "failed"}
      [] current = "running" -> {"completed", "failed", "cancelled",
                                 "interrupted"}
      [] current \in AuditTerminal -> {"running"}
      [] OTHER               -> {}

AUDIT_JOB_ACCEPTING == {"created", "running", "completed"}

\* RecoveryService.RETRYABLE_STATES
RETRYABLE_STATES == {"failed", "interrupted", "cancelled"}

\* A plausible slip in DesiredAudit: queued work no longer keeps an audit open.
MutDesiredIgnoresQueued(statuses) ==
    CASE "running" \in statuses     -> "running"
      [] "failed" \in statuses      -> "failed"
      [] "interrupted" \in statuses -> "interrupted"
      [] "cancelled" \in statuses   -> "cancelled"
      [] OTHER                      -> "completed"

(***************************************************************************)
(* The status _refresh_audit wants for an audit whose jobs have the given  *)
(* non-empty set of statuses.                                              *)
(***************************************************************************)
DesiredAudit(statuses) ==
    IF statuses \cap JobActive # {}      THEN "running"
    ELSE IF "failed" \in statuses        THEN "failed"
    ELSE IF "interrupted" \in statuses   THEN "interrupted"
    ELSE IF "cancelled" \in statuses     THEN "cancelled"
    ELSE "completed"
=============================================================================
