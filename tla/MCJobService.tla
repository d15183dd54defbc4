---------------------------- MODULE MCJobService ----------------------------
(***************************************************************************)
(* Instances of JobService for TLC:                                        *)
(*   shared    passive and active discovery of one interface, and passive  *)
(*             discovery of another in a second audit, which needs the     *)
(*             only capture slot;                                          *)
(*   analysis  a capture and two rows for its analysis, the second of      *)
(*             which may also be the retry of the first.                   *)
(***************************************************************************)
EXTENDS JobService

CONSTANTS a1, a2, j1, j2, j3

Is(x, y, z) == [j \in Job |->
                  CASE j = j1 -> x [] j = j2 -> y [] OTHER -> z]

Eth0 == <<"interface", "eth0">>
Eth1 == <<"interface", "eth1">>
Pcap1 == <<"pcap-analysis", j1>>

MCKey == {Eth0, Eth1, Pcap1}
MCGroup == {"packet_capture", "active_discovery", "traffic_analysis"}
MCLimit == [g \in MCGroup |-> 1]
OneAudit == Is(a1, a1, a1)
Same == Is(0, 0, 0)
NoSource == Is(NoJob, NoJob, NoJob)

SharedAuditOf == Is(a1, a1, a2)
SharedTypeOf == Is("passive_discovery", "active_discovery", "passive_discovery")
SharedGroupOf == Is("packet_capture", "active_discovery", "packet_capture")
SharedKeyOf == Is(Eth0, Eth0, Eth1)
SharedPriorityOf == Is(0, 5, 0)

AnalysisTypeOf == Is("packet_capture", "traffic_analysis", "traffic_analysis")
AnalysisKeyOf == Is(Eth0, Pcap1, Pcap1)
AnalysisSourceOf == Is(NoJob, j1, j1)
=============================================================================
