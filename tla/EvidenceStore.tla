--------------------------- MODULE EvidenceStore ---------------------------
(***************************************************************************)
(* Artifacts of storage/evidence.py: a file under the evidence root and a  *)
(* row in the artifacts table, written, swept and deleted by different     *)
(* processes in steps that are not one transaction, with power loss at any *)
(* point.  The database is durable (synchronous=FULL); a file is durable   *)
(* after its fsync, a rename after the fsync of its directory.             *)
(***************************************************************************)
CONSTANTS
    Artifact,       \* artifact ids (uuid4), never reused
    Audit,
    AuditOf,
    Snapshot,       \* artifacts put by an API request, outside any job
    Perishable      \* artifacts the retention policy may delete

VARIABLES
    audits,         \* audit rows
    row,            \* artifact rows
    place,          \* where the file of an artifact is
    content,        \* how much of the file is written
    put,            \* put_bytes or import_file of an artifact
    old,            \* files not written for temp_file_max_age_seconds
    doomed,         \* files whose rows a request has deleted, not yet unlinked
    tree,           \* audit directories a request is about to remove
    sweep,          \* run_startup_cleanup: at worker start and by API request
    retention       \* LifecycleService._delete_candidates

vars == <<audits, row, place, content, put, old, doomed, tree, sweep, retention>>

ASSUME ArtifactAssumption ==
    /\ AuditOf \in [Artifact -> Audit]
    /\ Snapshot \subseteq Artifact
    /\ Perishable \subseteq Artifact

-----------------------------------------------------------------------------
Process == {"api", "worker"}
Writer(x) == IF x \in Snapshot THEN "api" ELSE "worker"

\* "new" is a renamed file whose directory has not been synced.
Place == {"none", "temp", "new", "final"}
Content == {"partial", "cached", "synced"}
InProgress == {"writing", "named", "registering"}
PutState == {"idle", "over"} \cup InProgress

NoSweep == [step |-> "idle", todo |-> {}, known |-> {}, stale |-> {}]
Sweep == [step : {"idle", "temps", "orphans"}, todo : SUBSET Artifact,
          known : SUBSET Artifact, stale : SUBSET Artifact]
NoRetention == [todo |-> {}, ids |-> {}]

Init ==
    /\ audits = Audit
    /\ row = {}
    /\ place = [x \in Artifact |-> "none"]
    /\ content = [x \in Artifact |-> "partial"]
    /\ put = [x \in Artifact |-> "idle"]
    /\ old = {}
    /\ doomed = {}
    /\ tree = {}
    /\ sweep = [c \in Process |-> NoSweep]
    /\ retention = NoRetention

Unlink(S) ==
    /\ place' = [x \in Artifact |-> IF x \in S THEN "none" ELSE place[x]]
    /\ old' = old \ S

-----------------------------------------------------------------------------
\* put_bytes and import_file, step by step.
Open(x) ==
    /\ put[x] = "idle"
    /\ put' = [put EXCEPT ![x] = "writing"]
    /\ place' = [place EXCEPT ![x] = "temp"]
    /\ UNCHANGED <<audits, row, content, old, doomed, tree, sweep, retention>>

Write(x) ==
    /\ put[x] = "writing" /\ content[x] = "partial"
    /\ content' = [content EXCEPT ![x] = "cached"]
    /\ UNCHANGED <<audits, row, place, put, old, doomed, tree, sweep, retention>>

SyncFile(x) ==
    /\ put[x] = "writing" /\ content[x] = "cached"
    /\ content' = [content EXCEPT ![x] = "synced"]
    /\ UNCHANGED <<audits, row, place, put, old, doomed, tree, sweep, retention>>

\* A rename that does not wait for the fsync of the file.
MutRenameUnsynced(x) ==
    /\ put[x] = "writing" /\ content[x] # "partial" /\ place[x] = "temp"
    /\ place' = [place EXCEPT ![x] = "new"]
    /\ put' = [put EXCEPT ![x] = "named"]
    /\ UNCHANGED <<audits, row, content, old, doomed, tree, sweep, retention>>

\* os.replace; the temporary file is gone when its audit's tree was removed.
Rename(x) ==
    /\ put[x] = "writing" /\ content[x] = "synced" /\ place[x] = "temp"
    /\ place' = [place EXCEPT ![x] = "new"]
    /\ put' = [put EXCEPT ![x] = "named"]
    /\ UNCHANGED <<audits, row, content, old, doomed, tree, sweep, retention>>

SyncDirectory(x) ==
    /\ put[x] = "named"
    /\ place' = [place EXCEPT ![x] = IF @ = "new" THEN "final" ELSE @]
    /\ put' = [put EXCEPT ![x] = "registering"]
    /\ UNCHANGED <<audits, row, content, old, doomed, tree, sweep, retention>>

\* The foreign key on audit_id refuses the row of a deleted audit.
Register(x) ==
    /\ put[x] = "registering"
    /\ AuditOf[x] \in audits
    /\ row' = row \cup {x}
    /\ put' = [put EXCEPT ![x] = "over"]
    /\ UNCHANGED <<audits, place, content, old, doomed, tree, sweep, retention>>

\* Any exception, a refused row included: both paths are unlinked.
PutFails(x) ==
    /\ put[x] \in InProgress
    /\ put' = [put EXCEPT ![x] = "over"]
    /\ Unlink({x})
    /\ UNCHANGED <<audits, row, content, doomed, tree, sweep, retention>>

-----------------------------------------------------------------------------
\* AuditDeletionService.delete: the rows in one transaction, then the tree.
\* A handler puts artifacts only while its job runs, which refuses deletion.
DeletionAllowed(a) ==
    /\ a \in audits
    /\ \A x \in Artifact : AuditOf[x] = a /\ put[x] \in InProgress
                             => x \in Snapshot

DeleteAudit(a) ==
    /\ DeletionAllowed(a)
    /\ audits' = audits \ {a}
    /\ row' = {x \in row : AuditOf[x] # a}
    /\ tree' = tree \cup {a}
    /\ UNCHANGED <<place, content, put, old, doomed, sweep, retention>>

\* shutil.rmtree; an OSError leaves some files behind.
RemoveTree(a) ==
    /\ a \in tree
    /\ \E left \in SUBSET {x \in Artifact : AuditOf[x] = a} :
          Unlink({x \in Artifact : AuditOf[x] = a} \ left)
    /\ tree' = tree \ {a}
    /\ UNCHANGED <<audits, row, content, put, doomed, sweep, retention>>

\* DELETE of a capture's PCAP or of a report: its rows, then its files.
DeleteArtifact(x) ==
    /\ x \in row
    /\ row' = row \ {x}
    /\ doomed' = doomed \cup {x}
    /\ UNCHANGED <<audits, place, content, put, old, tree, sweep, retention>>

UnlinkDoomed(x) ==
    /\ x \in doomed
    /\ doomed' = doomed \ {x}
    /\ \/ Unlink({x})
       \/ UNCHANGED <<place, old>>                      \* OSError
    /\ UNCHANGED <<audits, row, content, put, tree, sweep, retention>>

-----------------------------------------------------------------------------
(***************************************************************************)
(* cleanup_stale_temporary_files, then cleanup_orphan_files.  The age      *)
(* limit is computed before the rows are read, and the rows before the     *)
(* files are visited.  A file that vanishes before its stat was either not *)
(* listed or raises FileNotFoundError, which ends the cleanup.             *)
(***************************************************************************)
Vanished(c, x) ==
    /\ \/ sweep' = [sweep EXCEPT ![c] = NoSweep]
       \/ sweep' = [sweep EXCEPT ![c].todo = @ \ {x}]
    /\ UNCHANGED <<place, old>>

ListTemps(c) ==
    /\ sweep[c].step = "idle"
    /\ sweep' = [sweep EXCEPT ![c] =
          [step |-> "temps", todo |-> {x \in Artifact : place[x] = "temp"},
           known |-> {}, stale |-> old]]
    /\ UNCHANGED <<audits, row, place, content, put, old, doomed, tree, retention>>

\* A sweep of temporary files that forgets their age.
MutVisitTempAnyAge(c, x) ==
    /\ sweep[c].step = "temps" /\ x \in sweep[c].todo /\ place[x] = "temp"
    /\ Unlink({x})
    /\ sweep' = [sweep EXCEPT ![c].todo = @ \ {x}]
    /\ UNCHANGED <<audits, row, content, put, doomed, tree, retention>>

VisitTemp(c, x) ==
    /\ sweep[c].step = "temps" /\ x \in sweep[c].todo
    /\ IF place[x] # "temp"
         THEN Vanished(c, x)
         ELSE /\ Unlink({x} \cap sweep[c].stale)
              /\ sweep' = [sweep EXCEPT ![c].todo = @ \ {x}]
    /\ UNCHANGED <<audits, row, content, put, doomed, tree, retention>>

ListFiles(c) ==
    /\ sweep[c].step = "temps" /\ sweep[c].todo = {}
    /\ sweep' = [sweep EXCEPT ![c] =
          [step |-> "orphans",
           todo |-> {x \in Artifact : place[x] \in {"new", "final"}},
           known |-> row, stale |-> old]]
    /\ UNCHANGED <<audits, row, place, content, put, old, doomed, tree, retention>>

VisitFile(c, x) ==
    /\ sweep[c].step = "orphans" /\ x \in sweep[c].todo
    /\ IF place[x] = "none"
         THEN Vanished(c, x)
         ELSE /\ Unlink(({x} \cap sweep[c].stale) \ sweep[c].known)
              /\ sweep' = [sweep EXCEPT ![c].todo = @ \ {x}]
    /\ UNCHANGED <<audits, row, content, put, doomed, tree, retention>>

EndSweep(c) ==
    /\ sweep[c].step = "orphans" /\ sweep[c].todo = {}
    /\ sweep' = [sweep EXCEPT ![c] = NoSweep]
    /\ UNCHANGED <<audits, row, place, content, put, old, doomed, tree, retention>>

-----------------------------------------------------------------------------
\* LifecycleService.cleanup with confirmation: the files of the candidates
\* first, then all their rows in one transaction.
CollectCandidates(S) ==
    /\ retention = NoRetention
    /\ S # {} /\ S \subseteq row \cap Perishable
    /\ retention' = [todo |-> S, ids |-> {}]
    /\ UNCHANGED <<audits, row, place, content, put, old, doomed, tree, sweep>>

UnlinkCandidate(x) ==
    /\ x \in retention.todo
    /\ Unlink({x})
    /\ retention' = [todo |-> retention.todo \ {x}, ids |-> retention.ids \cup {x}]
    /\ UNCHANGED <<audits, row, content, put, doomed, tree, sweep>>

DeleteCandidates ==
    /\ retention.todo = {} /\ retention.ids # {}
    /\ row' = row \ retention.ids
    /\ retention' = NoRetention
    /\ UNCHANGED <<audits, place, content, put, old, doomed, tree, sweep>>

-----------------------------------------------------------------------------
\* A put lasts less than temp_file_max_age_seconds.
Age(x) ==
    /\ place[x] # "none" /\ put[x] \notin InProgress /\ x \notin old
    /\ old' = old \cup {x}
    /\ UNCHANGED <<audits, row, place, content, put, doomed, tree, sweep, retention>>

\* The memory of the processes P is lost.
Die(P) ==
    /\ put' = [x \in Artifact |->
                 IF put[x] \in InProgress /\ Writer(x) \in P
                   THEN "over" ELSE put[x]]
    /\ doomed' = IF "api" \in P THEN {} ELSE doomed
    /\ tree' = IF "api" \in P THEN {} ELSE tree
    /\ sweep' = [c \in Process |-> IF c \in P THEN NoSweep ELSE sweep[c]]
    /\ retention' = IF "api" \in P THEN NoRetention ELSE retention

\* One process is killed; the files stay as they are.
Kill(c) ==
    /\ Die({c})
    /\ UNCHANGED <<audits, row, place, content, old>>

\* What the disk may hold after power loss.
Surviving(x) ==
    CASE place[x] = "temp" -> {"none", "temp"}
      [] place[x] = "new"  -> {"temp", "final"}
      [] OTHER             -> {place[x]}

PowerLoss ==
    /\ \E p \in [Artifact -> Place] :
          /\ \A x \in Artifact : p[x] \in Surviving(x)
          /\ place' = p
          /\ old' = {x \in old : p[x] # "none"}
    /\ \E k \in [Artifact -> Content] :
          /\ \A x \in Artifact :
                k[x] \in IF content[x] = "cached" THEN {"partial", "synced"}
                                                  ELSE {content[x]}
          /\ content' = k
    /\ Die(Process)
    /\ UNCHANGED <<audits, row>>

Next ==
    \/ \E x \in Artifact :
         \/ Open(x) \/ Write(x) \/ SyncFile(x) \/ Rename(x)
         \/ SyncDirectory(x) \/ Register(x) \/ PutFails(x)
         \/ DeleteArtifact(x) \/ UnlinkDoomed(x)
         \/ UnlinkCandidate(x) \/ Age(x)
    \/ \E a \in Audit : DeleteAudit(a) \/ RemoveTree(a)
    \/ \E c \in Process :
         \/ ListTemps(c) \/ ListFiles(c) \/ EndSweep(c) \/ Kill(c)
         \/ \E x \in Artifact : VisitTemp(c, x) \/ VisitFile(c, x)
    \/ \E S \in SUBSET Artifact : CollectCandidates(S)
    \/ DeleteCandidates
    \/ PowerLoss

Spec == Init /\ [][Next]_vars

-----------------------------------------------------------------------------
TypeOK ==
    /\ audits \subseteq Audit
    /\ row \subseteq Artifact
    /\ place \in [Artifact -> Place]
    /\ content \in [Artifact -> Content]
    /\ put \in [Artifact -> PutState]
    /\ old \subseteq Artifact
    /\ doomed \subseteq Artifact
    /\ tree \subseteq Audit
    /\ sweep \in [Process -> Sweep]
    /\ retention \in [todo : SUBSET Artifact, ids : SUBSET Artifact]

Durable(x) == place[x] = "final" /\ content[x] = "synced"

(***************************************************************************)
(* Every artifact row has its complete file on disk, through power loss,   *)
(* concurrent puts, deletions and sweeps; only an artifact that retention  *)
(* may delete can have a row whose file is gone, and never a truncated     *)
(* file.  A report or result that is listed can be read.                   *)
(***************************************************************************)
RowBacked ==
    \A x \in row : Durable(x) \/ (x \in Perishable /\ place[x] = "none")

\* A put loses the file it is writing only to the deletion of its audit:
\* sweeps of other processes that run at the same time leave it alone.
PutKeepsFile ==
    [][\A x \in Artifact :
          /\ put[x] \in InProgress /\ put'[x] \in InProgress
          /\ place[x] # "none" /\ place'[x] = "none"
          => AuditOf[x] \notin audits]_vars
=============================================================================
