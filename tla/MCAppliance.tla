---------------------------- MODULE MCAppliance ----------------------------
(***************************************************************************)
(* The parts of the appliance beside its audits: network helper, installer,*)
(* sessions and evidence store.  They share no variable and are checked    *)
(* side by side: part says which of them runs, the others stay in one of   *)
(* their initial states.                                                   *)
(***************************************************************************)
EXTENDS MCNetControl, MCInstaller, Sessions, EvidenceStore

CONSTANTS p1, a1, x1, x2

VARIABLE part

\* An environment snapshot, put by the API, and a packet capture, put by the
\* worker, of one audit.
MCAuditOf == [x \in Artifact |-> a1]

ApplianceInit ==
    /\ part \in {"network", "install", "sessions", "evidence"}
    /\ NetInit /\ (part # "network" => manager = "ip" /\ defaults = {})
    /\ InstInit /\ (part # "install" => options = Plain)
    /\ AuthInit /\ (part # "sessions" => password = [u \in Users |-> p1])
    /\ Init

ApplianceNext ==
    \/ part = "network" /\ NetNext /\ UNCHANGED <<part, instVars, authVars, vars>>
    \/ part = "install" /\ InstNext /\ UNCHANGED <<part, netVars, authVars, vars>>
    \/ part = "sessions" /\ AuthNext /\ UNCHANGED <<part, netVars, instVars, vars>>
    \/ part = "evidence" /\ Next /\ UNCHANGED <<part, netVars, instVars, authVars>>

ApplianceSpec == ApplianceInit /\ [][ApplianceNext]_<<part, netVars, instVars, authVars, vars>>
=============================================================================
