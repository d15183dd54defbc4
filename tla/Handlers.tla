------------------------------ MODULE Handlers ------------------------------
(***************************************************************************)
(* One execution of a job handler (jobs/handlers) with the external tool   *)
(* it is waiting for (providers/tools.py).  A handler is a sequence of     *)
(* steps: checkpoints that look at the cancellation token, progress        *)
(* reports that fail when the job was taken away, tools, evidence, rows    *)
(* and the working directory (capture directory, nmap runtime directory or *)
(* the temporary files of an analyser).  Branches that depend on what the  *)
(* network answers are different plans of the same handler.                *)
(***************************************************************************)
EXTENDS Naturals, Sequences

CONSTANT Plans      \* the handler executions a run looks at

VARIABLES
    plan,           \* the handler and its branch
    at,             \* the next step
    child,          \* the tool's process group
    runner,         \* where ToolRunner.run is
    late,           \* the tool's deadline has passed
    token,          \* CancellationToken
    owned,          \* the job is still RUNNING for this worker
    percent,        \* progress of the job
    workdir,        \* the working directory and what is in it
    guarded,        \* a finally clause will remove it
    stopped,        \* the operator stopped a capture that has recorded
    stored,         \* artifacts registered for the job
    rows,           \* rows written, by the artifact they refer to
    ending          \* how execute ended

handlerVars == <<plan, at, child, runner, late, token, owned, percent,
                 workdir, guarded, stopped, stored, rows, ending>>

-----------------------------------------------------------------------------
\* Steps.
Progress(n) == [op |-> "progress", pct |-> n]
\* A progress callback that is silent once the job is cancelled.
Live(n) == [op |-> "live", pct |-> n]
EnsureNotCancelled == [op |-> "check"]
Load == [op |-> "load"]             \* reads and validation, may be refused
MakeDirectory == [op |-> "mkdir"]
Try == [op |-> "try"]
FinallyClause == [op |-> "finally"]
Store(a) == [op |-> "store", what |-> a]
\* Rows that name the artifacts of as.
Rows(as) == [op |-> "rows", what |-> as]

\* A tool.  stream: its output is read by threads while it runs; heed: it is
\* given the token; upto: the last percentage its callback may report; then:
\* what the caller does with the result; skip: steps left out when an optional
\* tool fails or a scan leaves no document.
Tool(stream, heed, upto, then, skip) ==
    [op |-> "run", stream |-> stream, heed |-> heed, upto |-> upto,
     then |-> then, skip |-> skip]

\* nmap --version and the availability probe of a protocol module, which is
\* left out with the rest of the module when the tool is missing or too old.
VersionProbe(skip) == Tool(FALSE, FALSE, 0, "available", skip)

-----------------------------------------------------------------------------
\* Handlers.
PacketCapture ==
    <<Load, Progress(1), Load, MakeDirectory,
      Tool(TRUE, TRUE, 99, "record", 1),
      Progress(99), Store("packet_capture"), FinallyClause,
      Store("packet_capture_result")>>

\* PassivePipeline.run, whose try statement starts after the capture and
\* removes the directory only when captures are not retained, and the handler.
PassiveDiscovery(retain) ==
    <<Progress(5), Load, Progress(10), MakeDirectory,
      Tool(FALSE, TRUE, 0, "capture", 1), Progress(50)>>
    \o (IF retain THEN <<>> ELSE <<Try>>)
    \o <<Progress(60), Tool(FALSE, TRUE, 0, "decode", 1), Progress(85),
         Progress(95)>>
    \o (IF retain THEN <<[op |-> "discard"], Store("packet_capture"), FinallyClause>>
        ELSE <<FinallyClause, EnsureNotCancelled>>)
    \o <<Store("passive_result"), Rows({"passive_result"})>>

\* NmapProvider.run_plan: the scan, its XML, what is traced in between and the
\* inventory made from it.
ScanThen(xml, upto, between) ==
    <<EnsureNotCancelled,
      Tool(TRUE, TRUE, upto, "must", 3 + Len(between)), Store(xml)>>
    \o between \o <<Rows({xml})>>
Scan(xml, upto) == ScanThen(xml, upto, <<>>)

\* Representative routed hosts are traced before the inventory is written.
RouteTrace ==
    <<Tool(FALSE, TRUE, 0, "collect", 1), Store("route_trace_result")>>

HostDiscovery(between) ==
    <<MakeDirectory, Try, EnsureNotCancelled, Progress(5), Load, Progress(10),
      Load, EnsureNotCancelled, Progress(15), VersionProbe(1)>>
    \o ScanThen("host_discovery", 29, between) \o <<Progress(30)>>

StandardTcp ==
    <<EnsureNotCancelled, Progress(35)>> \o Scan("tcp_scan", 69)
    \o <<Progress(70)>>

DeepTcp(open) ==
    <<EnsureNotCancelled, Progress(35)>> \o Scan("tcp_sweep", 60)
    \o <<Progress(61)>>
    \o IF open
       THEN <<EnsureNotCancelled, Progress(62)>> \o Scan("tcp_fingerprint", 79)
       ELSE <<Progress(79)>>

SelectedUdp ==
    <<EnsureNotCancelled, Progress(82)>> \o Scan("udp_scan", 89)

Correlate ==
    <<EnsureNotCancelled, Progress(90), Rows({}), Progress(96),
      Store("active_discovery_result"), FinallyClause>>

\* An analyser of a stored capture: a temporary file beside it, and tshark.
Analyser(first, then, reports) ==
    <<MakeDirectory, Try, Progress(first),
      Tool(FALSE, TRUE, 0, then, Len(reports) + 2)>> \o reports \o <<FinallyClause>>

\* The list of fields tshark knows, without which the next analyser is left out.
FieldProbe(first, next) ==
    <<Progress(first), MakeDirectory, Try,
      Tool(FALSE, TRUE, 0, "fields", Len(next) + 2), FinallyClause>> \o next

BaseAnalysis == Analyser(10, "must", <<Progress(45), Progress(60)>>)
AdvancedDiagnostics == Analyser(66, "may", <<Progress(72)>>)
ProtocolIntelligence == FieldProbe(73, Analyser(74, "may", <<Progress(76)>>))
TcpLatency == FieldProbe(76, Analyser(77, "may", <<>>))

TrafficAnalysis ==
    <<Load, Progress(2), Load>> \o BaseAnalysis \o AdvancedDiagnostics
    \o ProtocolIntelligence \o TcpLatency
    \o <<Progress(78), Progress(82), Store("traffic_analysis_text"),
         Store("traffic_analysis_markdown"), Progress(94),
         Store("traffic_analysis_result")>>

\* ProtocolModuleRunner.run for the n-th matched service.
ModuleRun(pct, output) ==
    <<EnsureNotCancelled, Progress(pct), EnsureNotCancelled, VersionProbe(5),
      EnsureNotCancelled, Tool(FALSE, TRUE, 0, "results", 1),
      Store(output), Rows({output})>>

ProtocolAudit ==
    <<EnsureNotCancelled, Progress(5), Load, EnsureNotCancelled, Progress(12)>>
    \o ModuleRun(15, "first_output") \o ModuleRun(52, "second_output")
    \o <<EnsureNotCancelled, Progress(94), Store("protocol_audit_result")>>

FindingsEvaluation ==
    <<EnsureNotCancelled, Progress(8), Load, EnsureNotCancelled, Progress(40),
      EnsureNotCancelled, Progress(75), Rows({}), Store("findings_result")>>

ReportGeneration ==
    <<EnsureNotCancelled, Progress(8), Load, EnsureNotCancelled, Progress(40),
      Load, EnsureNotCancelled, Progress(75), Store("report_json"),
      Store("report_html"), Rows({"report_json", "report_html"}),
      Store("report_result")>>

GlobalAnalysis ==
    <<Load, Progress(10), EnsureNotCancelled, Progress(35), Load,
      EnsureNotCancelled, Progress(80), Store("global_analysis_result"),
      Progress(100)>>

\* The read-only commands of the topology providers; a failure is a warning.
Walk(pct) == <<Live(pct), Tool(FALSE, TRUE, 0, "collect", 1)>>

SnmpTopology ==
    <<Load, Progress(2), EnsureNotCancelled>>
    \o Walk(4) \o Walk(80) \o <<Live(84)>> \o Walk(88)
    \o <<EnsureNotCancelled, Progress(90), Store("snmp_topology_result"),
         Progress(98)>>

\* The identity and known_hosts files live in a TemporaryDirectory.
SshTopology ==
    <<Load, Progress(2), EnsureNotCancelled, MakeDirectory, Try>>
    \o Walk(65) \o Walk(82)
    \o <<FinallyClause, EnsureNotCancelled, Progress(91),
         Store("ssh_topology_result"), Progress(98)>>

Steps(p) ==
    CASE p = "capture" -> PacketCapture
      [] p = "passive" -> PassiveDiscovery(FALSE)
      [] p = "passive_retained" -> PassiveDiscovery(TRUE)
      [] p = "active_routed" -> HostDiscovery(RouteTrace) \o Correlate
      [] p = "active_standard" -> HostDiscovery(<<>>) \o StandardTcp
                                  \o SelectedUdp \o Correlate
      [] p = "active_deep" -> HostDiscovery(<<>>) \o DeepTcp(TRUE)
                              \o SelectedUdp \o Correlate
      [] p = "active_closed" -> HostDiscovery(<<>>) \o DeepTcp(FALSE)
                                \o SelectedUdp \o Correlate
      [] p = "traffic" -> TrafficAnalysis
      [] p = "protocol" -> ProtocolAudit
      [] p = "findings" -> FindingsEvaluation
      [] p = "report" -> ReportGeneration
      [] p = "global" -> GlobalAnalysis
      [] p = "snmp" -> SnmpTopology
      [] p = "ssh" -> SshTopology

Program == [p \in Plans |-> Steps(p)]

-----------------------------------------------------------------------------
\* The order that the statements of every handler keep.  TLC evaluates it for
\* each plan; the proofs show what follows from it however a job is executed.
Reports(s) == {i \in DOMAIN s : s[i].op \in {"progress", "live"}}
Tools(s) == {i \in DOMAIN s : s[i].op = "run"}
Puts(s, a) == {i \in DOMAIN s : s[i].op = "store" /\ s[i].what = a}

WellFormed(s) ==
    /\ Len(s) \in Nat /\ DOMAIN s = 1..Len(s)
    /\ \A i \in Reports(s) : s[i].pct \in 0..100
    /\ \A i \in Tools(s) :
          /\ s[i].upto \in 0..100 /\ s[i].skip \in Nat \ {0}
          /\ s[i].then \in {"must", "may", "fields", "collect", "available",
                            "results", "record", "capture", "decode"}

\* Percentages never fall, those of a tool's callback included.
ReportsRise(s) ==
    \A i \in Reports(s) :
        /\ \A j \in Reports(s) : j <= i => s[j].pct <= s[i].pct
        /\ \A j \in Tools(s) : j < i => s[j].upto <= s[i].pct

\* Rows name artifacts that were put before, on every way to them.
Skipped(s, j, i) == \E k \in Tools(s) : k <= j /\ j < k + s[k].skip /\ k + s[k].skip <= i
PutsFirst(s) ==
    \A i \in DOMAIN s : s[i].op = "rows" =>
        \A a \in s[i].what : \E j \in Puts(s, a) : j < i /\ ~Skipped(s, j, i)

\* While there may be captured traffic in the directory, nothing leaves execute
\* in good order without removing it.
Capturing(s) == {k \in Tools(s) : s[k].then \in {"record", "capture"}}
Holding(s) ==
    {i \in 1..(Len(s) + 1) : \E k \in Capturing(s) :
        k < i /\ \A j \in (k + 1)..(i - 1) : s[j].op # "finally"}
CaptureHeld(s) ==
    \A i \in Holding(s) :
        /\ i \in DOMAIN s
        /\ \/ s[i].op \in {"progress", "try", "store", "discard", "finally"}
           \/ s[i].op = "run" /\ s[i].then = "decode"

\* What was recorded is stored before execute returns.
RecordingKept(s) ==
    \A k \in Tools(s) : s[k].then = "record" =>
        /\ \A i \in (k + 1)..Len(s) : s[i].op \in {"progress", "store", "finally"}
        /\ \A a \in {"packet_capture", "packet_capture_result"} : \E j \in Puts(s, a) : j > k

ASSUME PlansAssumption ==
    \A p \in Plans : /\ WellFormed(Program[p]) /\ ReportsRise(Program[p])
                     /\ PutsFirst(Program[p]) /\ CaptureHeld(Program[p])
                     /\ RecordingKept(Program[p])

-----------------------------------------------------------------------------
Running == ending = "none"
AtStep(op) ==
    Running /\ at <= Len(Program[plan]) /\ Program[plan][at].op = op
Step == Program[plan][at]

HandlerInit ==
    /\ plan \in Plans
    /\ at = 1
    /\ child = "none" /\ runner = "idle" /\ late = FALSE
    /\ token = FALSE /\ owned = TRUE
    /\ percent = 0
    /\ workdir = "none" /\ guarded = FALSE /\ stopped = FALSE
    /\ stored = {} /\ rows = {}
    /\ ending = "none"

EndWith(e, directory) ==
    /\ ending' = e
    /\ workdir' = directory
    /\ UNCHANGED <<plan, at, late, token, owned, guarded, stopped, stored, rows>>

\* An exception leaves execute through the finally clauses around it.
Raise(e) ==
    /\ EndWith(e, IF guarded THEN "none" ELSE workdir)
    /\ UNCHANGED <<child, runner, percent>>

JumpTo(n) ==
    /\ at' = n
    /\ UNCHANGED <<plan, child, runner, late, token, owned, ending>>
Onward == JumpTo(at + 1)

-----------------------------------------------------------------------------
\* Steps of the handler.
Checkpoint ==
    /\ AtStep("check")
    /\ IF token THEN Raise("cancelled")
       ELSE Onward /\ UNCHANGED <<percent, workdir, guarded, stopped, stored, rows>>

\* JobService.update_progress.
ReportProgress ==
    /\ AtStep("progress") \/ (AtStep("live") /\ ~token)
    /\ IF ~owned \/ Step.pct < percent THEN Raise("raised")
       ELSE /\ percent' = Step.pct
            /\ Onward
            /\ UNCHANGED <<workdir, guarded, stopped, stored, rows>>

SkipReport ==
    /\ AtStep("live") /\ token
    /\ Onward
    /\ UNCHANGED <<percent, workdir, guarded, stopped, stored, rows>>

LoadInput ==
    /\ AtStep("load")
    /\ \/ Onward /\ UNCHANGED <<percent, workdir, guarded, stopped, stored, rows>>
       \/ Raise("failed")

\* CaptureProvider._create_capture_directory, mkdtemp, mkstemp.
CreateDirectory ==
    /\ AtStep("mkdir")
    /\ workdir' = "empty"
    /\ Onward
    /\ UNCHANGED <<percent, guarded, stopped, stored, rows>>

EnterTry ==
    /\ AtStep("try")
    /\ guarded' = TRUE
    /\ Onward
    /\ UNCHANGED <<percent, workdir, stopped, stored, rows>>

\* A finally clause, and CaptureProvider.cleanup of a kept capture.
RemoveDirectory ==
    /\ AtStep("finally")
    /\ workdir' = "none" /\ guarded' = FALSE
    /\ Onward
    /\ UNCHANGED <<percent, stopped, stored, rows>>

\* PassiveDiscoveryHandler.execute after the pipeline, with a retained capture.
DiscardIfCancelled ==
    /\ AtStep("discard")
    /\ IF token
       THEN EndWith("cancelled", "none") /\ UNCHANGED <<child, runner, percent>>
       ELSE Onward /\ UNCHANGED <<percent, workdir, guarded, stopped, stored, rows>>

\* EvidenceStore.put_json, put_bytes and import_file; disks fill up.
PutArtifact ==
    /\ AtStep("store")
    /\ \/ /\ stored' = stored \cup {Step.what}
          /\ Onward
          /\ UNCHANGED <<percent, workdir, guarded, stopped, rows>>
       \/ Raise("raised")

\* Inventory, observations, findings and the row of a report.
WriteRows ==
    /\ AtStep("rows")
    /\ \/ /\ rows' = rows \cup Step.what
          /\ Onward
          /\ UNCHANGED <<percent, workdir, guarded, stopped, stored>>
       \/ Raise("raised")

\* execute returns; a stopped capture raises JobCancelled with its result.
Return ==
    /\ Running /\ at > Len(Program[plan])
    /\ Raise(IF stopped THEN "cancelled" ELSE "returned")

-----------------------------------------------------------------------------
\* ToolRunner.run.
Quiet == UNCHANGED <<plan, at, token, owned, percent, guarded, stopped, stored,
                     rows, ending>>

StartTool ==
    /\ AtStep("run") /\ runner = "idle"
    /\ child' = "running" /\ runner' = "poll" /\ late' = FALSE
    /\ UNCHANGED workdir
    /\ Quiet

\* A callback that may report the end of its tool's share of the progress.
MutContinue(n, clean) ==
    /\ at' = n
    /\ child' = "none" /\ runner' = "idle"
    /\ percent' \in {percent, IF Step.upto > percent THEN Step.upto + 1 ELSE percent}
    /\ workdir' = IF clean /\ guarded THEN "none" ELSE workdir
    /\ guarded' = (guarded /\ ~clean)
    /\ UNCHANGED <<plan, late, token, owned, stored, rows, ending>>

\* The handling of a ToolResult by its caller.
Continue(n, clean) ==
    /\ at' = n
    /\ child' = "none" /\ runner' = "idle"
    /\ percent' \in {percent, IF Step.upto > percent THEN Step.upto ELSE percent}
    /\ workdir' = IF clean /\ guarded THEN "none" ELSE workdir
    /\ guarded' = (guarded /\ ~clean)
    /\ UNCHANGED <<plan, late, token, owned, stored, rows, ending>>

GiveUp(e, directory) ==
    /\ EndWith(e, directory)
    /\ child' = "none" /\ runner' = "idle"
    /\ UNCHANGED percent

\* nmap: cancelled and failed scans end the job; so does the analysis itself.
MustSucceed(r) ==
    IF r = "ok"
    THEN /\ \/ \E n \in {at + 1, at + Step.skip} : Continue(n, FALSE)
            \* the last lines of output are reported after the tool has ended
            \/ ~owned /\ Step.stream /\ GiveUp("raised", "none")
         /\ UNCHANGED stopped
    ELSE GiveUp(IF r = "cancelled" THEN "cancelled" ELSE "failed", "none")

\* Optional analysers: only a cancellation ends the job.
MaySucceed(r) ==
    CASE r = "cancelled" -> GiveUp("cancelled", "none")
      [] r = "ok" -> /\ \/ Continue(at + 1, FALSE)
                        \/ Step.then = "fields" /\ Continue(at + Step.skip, TRUE)
                     /\ UNCHANGED stopped
      [] OTHER -> Continue(at + Step.skip, TRUE) /\ UNCHANGED stopped

\* Whatever the tool did is data.
Collect(r) ==
    /\ \/ Continue(at + 1, FALSE)
       \/ Step.then = "available" /\ Continue(at + Step.skip, FALSE)
    /\ UNCHANGED stopped

\* The commands of a protocol module.
ModuleResults(r) ==
    IF r = "cancelled" THEN GiveUp("cancelled", workdir)
    ELSE Continue(at + 1, FALSE) /\ UNCHANGED stopped

\* CaptureProvider.cleanup of a failed capture: a capture that never created
\* its file has no path, and its empty directory stays.
Discarded == IF workdir = "pcap" \/ plan # "capture" THEN "none" ELSE workdir

EndOf(r) == IF r = "cancelled" THEN "cancelled" ELSE "failed"

MutRecorded(r) ==
    IF workdir = "pcap" /\ r = "ok"
    THEN Continue(at + 1, FALSE) /\ stopped' = token
    ELSE GiveUp(EndOf(r), workdir)

\* CaptureProvider.record, which reports the last statistics before it looks
\* at the result, and PacketCaptureHandler.execute after it.
Recorded(r) ==
    \/ ~owned /\ GiveUp("raised", workdir)
    \/ IF workdir = "pcap" /\ r \in {"ok", "cancelled"}
       THEN /\ Continue(at + 1, FALSE)
            /\ stopped' = (r = "cancelled" \/ token)
       ELSE GiveUp(EndOf(r), Discarded)

\* The rest of PassivePipeline.run reports progress before the handler ends.
PipelineEnd(r) == IF owned THEN EndOf(r) ELSE "raised"

\* CaptureProvider.capture: only a completed capture keeps its directory.
Captured(r) ==
    IF r = "ok" /\ workdir = "pcap"
    THEN Continue(at + 1, FALSE) /\ UNCHANGED stopped
    ELSE GiveUp(PipelineEnd(r), Discarded)

\* PassivePacketParser.decode, after which the handler discards the capture
\* unless a progress report has failed before.
Decoded(r) ==
    IF r = "ok" THEN Continue(at + 1, FALSE) /\ UNCHANGED stopped
    ELSE GiveUp(PipelineEnd(r),
                IF owned \/ guarded THEN "none" ELSE workdir)

Handle(r) ==
    CASE Step.then = "must" -> MustSucceed(r)
      [] Step.then \in {"may", "fields"} -> MaySucceed(r)
      [] Step.then \in {"collect", "available"} -> Collect(r)
      [] Step.then = "results" -> ModuleResults(r)
      [] Step.then = "record" -> Recorded(r)
      [] Step.then = "capture" -> Captured(r)
      [] Step.then = "decode" -> Decoded(r)

\* A missing binary, a refused start, or shutil.which finds nothing.
FailedToStart ==
    /\ AtStep("run") /\ runner = "idle"
    /\ Handle("failed")

MutPoll ==
    /\ runner = "poll" /\ Running
    /\ \/ child = "exited" /\ Handle("ok")
       \/ child = "broken" /\ Handle("failed")
       \/ token /\ Raise("cancelled")

\* The loop looks at the token, then at the deadline, then at the process.
MustStop == (Step.heed /\ token) \/ late

Poll ==
    /\ runner = "poll" /\ Running
    /\ ~MustStop
    /\ \/ child = "exited" /\ Handle("ok")
       \/ child = "broken" /\ Handle("failed")

\* _terminate: SIGTERM to the process group, two seconds, SIGKILL.
Terminate ==
    /\ runner = "poll" /\ Running /\ MustStop
    /\ runner' = IF Step.heed /\ token THEN "cancelled" ELSE "timeout"
    /\ UNCHANGED <<child, late, workdir>>
    /\ Quiet

Terminating == runner \in {"cancelled", "timeout"} /\ Running

Reap ==
    /\ Terminating /\ child \in {"exited", "broken"}
    /\ Handle(runner)

MutKill ==
    /\ Terminating /\ child = "exited"
    /\ child' = "doomed"
    /\ UNCHANGED <<runner, late, workdir>>
    /\ Quiet

Kill ==
    /\ Terminating /\ child = "running"
    /\ child' = "doomed"
    /\ UNCHANGED <<runner, late, workdir>>
    /\ Quiet

\* process.wait(timeout=2) after SIGKILL raises when output is streamed.
WaitExpires ==
    /\ Terminating /\ child = "doomed" /\ Step.stream
    /\ EndWith("raised", IF guarded THEN "none" ELSE workdir)
    /\ UNCHANGED <<child, runner, percent>>

-----------------------------------------------------------------------------
\* The tool, the clock, the operator and the other workers.
ToolExits ==
    /\ child \in {"running", "doomed"} /\ Running
    /\ child' \in (IF child = "running" THEN {"exited", "broken"} ELSE {"broken"})
    /\ UNCHANGED <<runner, late, workdir>>
    /\ Quiet

\* dumpcap has written the header of the capture file.
DumpcapWrites ==
    /\ child = "running" /\ Running /\ workdir = "empty"
    /\ Step.then \in {"record", "capture"}
    /\ workdir' = "pcap"
    /\ UNCHANGED <<child, runner, late>>
    /\ Quiet

DeadlinePasses ==
    /\ runner = "poll" /\ Running /\ ~late
    /\ late' = TRUE
    /\ UNCHANGED <<child, runner, workdir>>
    /\ Quiet

\* _monitor_cancellation sees cancel_requested.
CancelSeen ==
    /\ Running /\ ~token
    /\ token' = TRUE
    /\ UNCHANGED <<plan, at, child, runner, late, owned, percent, workdir,
                   guarded, stopped, stored, rows, ending>>

\* Another worker has interrupted the job after this one's lease ran out.
JobTaken ==
    /\ Running /\ owned
    /\ owned' = FALSE
    /\ UNCHANGED <<plan, at, child, runner, late, token, percent, workdir,
                   guarded, stopped, stored, rows, ending>>

HandlerStep ==
    \/ Checkpoint \/ ReportProgress \/ SkipReport \/ LoadInput
    \/ CreateDirectory \/ EnterTry \/ RemoveDirectory \/ DiscardIfCancelled
    \/ PutArtifact \/ WriteRows \/ Return

RunnerStep ==
    StartTool \/ FailedToStart \/ Poll \/ Terminate \/ Reap \/ Kill \/ WaitExpires

HandlerNext ==
    \/ HandlerStep \/ RunnerStep
    \/ ToolExits \/ DumpcapWrites \/ DeadlinePasses \/ CancelSeen \/ JobTaken

\* The worker thread runs, time passes and SIGKILL works.  Nothing is assumed
\* of a tool that has not been killed.
HandlerFairness ==
    /\ WF_handlerVars(HandlerStep)
    /\ WF_handlerVars(RunnerStep)
    /\ WF_handlerVars(DeadlinePasses)
    /\ WF_handlerVars(child = "doomed" /\ ToolExits)

HandlerSpec == HandlerInit /\ [][HandlerNext]_handlerVars /\ HandlerFairness

-----------------------------------------------------------------------------
HandlerTypeOK ==
    /\ plan \in Plans /\ at \in Nat
    /\ child \in {"none", "running", "exited", "broken", "doomed"}
    /\ runner \in {"idle", "poll", "cancelled", "timeout"}
    /\ {late, token, owned, guarded, stopped} \subseteq BOOLEAN
    /\ percent \in 0..100
    /\ workdir \in {"none", "empty", "pcap"}
    /\ ending \in {"none", "returned", "cancelled", "failed", "raised"}

\* A job never ends with its tool still at work: whichever way execute is
\* left, the process group has ended or has been sent SIGKILL.
ToolStopped == ending # "none" => child \in {"none", "doomed"}

\* No row refers to an artifact that is not stored: evidence is registered
\* before the inventory, the observations and the report that name it.  The
\* captured traffic of a job that ended without an internal error is in the
\* evidence store or gone, never left in the capture directory, and a capture
\* the operator stopped keeps what it recorded.
EvidenceAccounted ==
    /\ rows \subseteq stored
    /\ ending \in {"returned", "cancelled", "failed"} =>
        /\ workdir # "pcap"
        /\ stopped => /\ ending = "cancelled"
                      /\ {"packet_capture", "packet_capture_result"} \subseteq stored

\* No handler reports less than it, or the callback of its tool, has already
\* reported: update_progress would refuse it and end the job.
ProgressForward ==
    AtStep("progress") \/ AtStep("live") => Step.pct >= percent

\* Whatever the tool does, every execution ends: by its deadline, by the
\* cancellation or by itself.
HandlerEnds == <>(ending # "none")
=============================================================================
