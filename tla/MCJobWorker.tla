----------------------------- MODULE MCJobWorker -----------------------------
(***************************************************************************)
(* Instances of JobWorker for TLC.  Two jobs of one audit need the same    *)
(* interface; the second may also be the retry of the first.               *)
(***************************************************************************)
EXTENDS JobWorker, TLC

CONSTANTS a1, j1, j2, s1, s2, t1, t2

Eth0 == <<"interface", "eth0">>
MCKey == {Eth0}
MCGroup == {"active_discovery"}
MCAuditOf == [j \in Job |-> a1]
MCTypeOf == [j \in Job |-> "active_discovery"]
MCKeyOf == [j \in Job |-> Eth0]
MCPriorityOf == [j \in Job |-> 0]
MCSourceOf == [j \in Job |-> NoJob]
MCLimit == [g \in Group |-> 2]
MCClient == Api \cup Thread
\* The jobs have the same columns and the threads the same process.
Symmetry == Permutations(Job) \cup Permutations(Thread)
OneProcess == [t \in Thread |-> s1]
TwoProcesses == [t \in Thread |-> IF t = t1 THEN s1 ELSE s2]
=============================================================================
