--------------------------- MODULE MCScopeProbes ---------------------------
(***************************************************************************)
(* Eight addresses of each family.  The interface has a network of four of *)
(* each; later only an IPv4 network of two, while the VLAN interface has   *)
(* another one.  Operators ask for networks that overlap, are larger than  *)
(* the limit of the profile, or are outside of the interface's network.    *)
(* One machine answers at three addresses.                                 *)
(***************************************************************************)
EXTENDS ScopeProbes, TLC

Dev(special) == [a \in Address |-> IF a \in DOMAIN special THEN special[a] ELSE "eth0"]
Wide ==
    [up |-> {"eth0", "eth0.10"},
     assigned |-> [i \in Interfaces |->
        IF i = "eth0" THEN {<< <<4, 5>>, <<4, 4, 2>> >>, << <<6, 5>>, <<6, 4, 2>> >>} ELSE {}],
     dev |-> Dev(<<4, 5>> :> "lo"),
     onlink |-> {<<"eth0", <<4, 4, 2>> >>}]
Narrow ==
    [up |-> {"eth0", "eth0.10"},
     assigned |-> [i \in Interfaces |->
        IF i = "eth0" THEN {<< <<4, 5>>, <<4, 4, 1>> >>} ELSE {<< <<4, 2>>, <<4, 2, 1>> >>}],
     dev |-> Dev(<<4, 5>> :> "lo" @@ <<4, 2>> :> "lo" @@ <<4, 3>> :> "eth0.10"),
     onlink |-> {}]
MCHostStates == {Wide, Narrow}
MCVlanParent == "eth0.10" :> "eth0"

Ask4(targets, profile) == [interface |-> "eth0", targets |-> targets, profile |-> profile]
MCScopeRequests ==
    {Ask4({<<4, 2, 1>>, <<4, 2, 0>>, <<6, 6, 1>>}, "discovery"),
     Ask4({<<4, 3, 1>>, <<4, 0, 3>>, <<4, 7, 0>>}, "discovery"),
     Ask4({<<4, 6, 0>>}, "deep")}
MCMachines == {[addresses |-> << <<4, 2>>, <<4, 6>>, <<6, 6>> >>, primary |-> <<4, 2>>]}
MCProfileLimit == "discovery" :> 6 @@ "standard" :> 5 @@ "deep" :> 2
=============================================================================
