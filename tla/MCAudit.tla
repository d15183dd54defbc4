------------------------------ MODULE MCAudit ------------------------------
(***************************************************************************)
(* What an audit makes of its results: inventory, assessment and network   *)
(* map.  They share no variable and are checked side by side: part says    *)
(* which of them runs, the others stay in one of their initial states.     *)
(***************************************************************************)
EXTENDS MCInventory, MCAssessment, MCTopology

VARIABLE part

AuditInit ==
    /\ part \in {"inventory", "assessment", "topology"}
    /\ InventoryInit /\ (part # "inventory" => serial)
    /\ AssessInit
    /\ part # "assessment" => answer = [s \in Services |-> CHOOSE a \in Answers[s] : TRUE]
    /\ TopoInit
    /\ part # "topology" => /\ mapping = "global"
                            /\ evidence = [old |-> 1, new |-> 1]

AuditNext ==
    \/ part = "inventory" /\ InventoryNext /\ UNCHANGED <<part, assessVars, topoVars>>
    \/ part = "assessment" /\ AssessNext /\ UNCHANGED <<part, inventoryVars, topoVars>>
    \/ part = "topology" /\ TopoNext /\ UNCHANGED <<part, inventoryVars, assessVars>>

AuditSpec == AuditInit /\ [][AuditNext]_<<part, inventoryVars, assessVars, topoVars>>

\* The ids of assets are alike: only behaviours that use them in order are followed.
InOrder == \A a \in Present, b \in Assets : b < a => b \in Present
=============================================================================
