----------------------------- MODULE JobStages ------------------------------
(***************************************************************************)
(* What the job service promises about the execution of jobs, without      *)
(* lock rows, audits, progress or requests: a job goes through its stages  *)
(* once and in one direction, and no two jobs run that need the same       *)
(* resource, nor more jobs of a group than its limit.                      *)
(***************************************************************************)
EXTENDS Integers, FiniteSets

CONSTANTS Job, KeyOf, GroupOf, Limit, NoKey, NoGroup

VARIABLE phase

Ended == {"completed", "failed", "cancelled", "interrupted"}

Active(g) == {i \in Job : GroupOf[i] = g /\ phase[i] = "running"}

MayRun(j) ==
    /\ KeyOf[j] # NoKey =>
          \A i \in Job : KeyOf[i] = KeyOf[j] => phase[i] # "running"
    /\ GroupOf[j] # NoGroup /\ Limit[GroupOf[j]] # 0 =>
          Cardinality(Active(GroupOf[j])) < Limit[GroupOf[j]]

Init == phase = [j \in Job |-> "absent"]

Submit(j) == phase[j] = "absent" /\ phase' = [phase EXCEPT ![j] = "queued"]

Withdraw(j) ==
    phase[j] = "queued" /\ phase' = [phase EXCEPT ![j] = "cancelled"]

Start(j) ==
    /\ phase[j] = "queued"
    /\ MayRun(j)
    /\ phase' = [phase EXCEPT ![j] = "running"]

Finish(j) ==
    /\ phase[j] = "running"
    /\ \E end \in Ended \ {"interrupted"} :
          phase' = [phase EXCEPT ![j] = end]

Restart ==
    phase' = [j \in Job |->
                IF phase[j] = "running" THEN "interrupted" ELSE phase[j]]

\* A set of jobs that have all ended is forgotten.
Forget ==
    \E S \in SUBSET {j \in Job : phase[j] \in Ended} :
        phase' = [j \in Job |-> IF j \in S THEN "deleted" ELSE phase[j]]

Next ==
    \/ \E j \in Job : Submit(j) \/ Withdraw(j) \/ Start(j) \/ Finish(j)
    \/ Restart
    \/ Forget

Spec == Init /\ [][Next]_phase
=============================================================================
