----------------------------- MODULE NetControl -----------------------------
(***************************************************************************)
(* The addresses of the appliance, changed from its web page               *)
(* (engine/network.py, appliance/netctl.py).  A request is checked in the  *)
(* API process and again in a helper that runs as root; the helper then    *)
(* writes the configuration of the interface in the format of the host,    *)
(* brings the interface up, and rewrites the file of roles.  Nothing locks *)
(* the interfaces or the file of roles against a second request.           *)
(***************************************************************************)
EXTENDS FiniteSets

CONSTANTS
    Nics,           \* interfaces, loopback excluded
    Changes,        \* the ApplySpecs operators ask for
    Callers,        \* requests that may be under way at a time
    Backends,       \* network managers a host may have
    LanBound,       \* is the API bound to an address of the LAN?
    NoNic, NoChange

VARIABLES
    manager,        \* network manager of this host
    addressing,     \* IPv4 addressing of each interface
    defaults,       \* interfaces with a default route
    persistent,     \* configuration files of the interfaces
    roles,          \* network-roles.json
    caller,         \* the requests
    lasting         \* history: the change each interface was last given, while
                    \* no other request or failed command has touched it

netVars == <<manager, addressing, defaults, persistent, roles, caller, lasting>>
hostVars == <<addressing, defaults, persistent, roles, lasting>>

Methods == {"dhcp", "static", "none"}
Roles == {"management", "capture"}

Change == [nic : Nics, role : Roles, method : Methods, gateway : BOOLEAN,
           confirm : BOOLEAN, session : Nics \cup {NoNic}]

ASSUME ChangesAssumption == Changes \subseteq Change /\ NoNic \notin Nics \cup Callers

Idle == [step |-> "idle"]
Caller == {Idle} \cup
    [step : {"helper", "write", "up", "clean", "roles", "save"},
     change : Changes, fresh : BOOLEAN, alone : BOOLEAN, read : [Nics -> Roles \cup {"none"}]]

Busy(c) == caller[c].step \notin {"idle", "helper"}

-----------------------------------------------------------------------------
\* validate_spec, for the rules that relate two fields.
Valid(x) ==
    /\ ~(x.role = "management" /\ x.method = "none")
    /\ x.gateway => x.method = "static"

\* A projection that still counts the interface to be changed.
MutProjected(x) ==
    {n \in Nics : addressing[n] # "none"}
       \cup (IF x.method = "none" THEN {} ELSE {x.nic})

\* Interfaces with an IPv4 address once the change is made; an address that
\* DHCP has not given yet counts.
Projected(x) ==
    {n \in Nics \ {x.nic} : addressing[n] # "none"}
       \cup (IF x.method = "none" THEN {} ELSE {x.nic})

\* evaluate_safety: does the change need the operator's confirmation?
NeedsConfirm(x) ==
    /\ ~x.confirm
    /\ \/ LanBound /\ Projected(x) = {}
       \/ x.session = x.nic /\ x.method = "none"

\* Does the written configuration bring a default route with it?  ifupdown only
\* gives the route of a capture interface a high metric.
BringsDefault(x) ==
    \/ x.method = "static" /\ x.gateway /\ x.role = "management"
    \/ x.method = "dhcp" /\ (x.role = "management" \/ manager = "ifupdown")

\* A configuration that forgets never-default or IPv4DefaultRoute=no.
MutConfig(x) == [method |-> x.method, default |-> x.method = "dhcp" \/ x.gateway]

\* apply_nmcli's modify, _iface_stanza, the .network file.
Config(x) == [method |-> x.method, default |-> BringsDefault(x)]

NoConfig == [method |-> "unmanaged", default |-> FALSE]

\* The network manager brings interface n up as configured; DHCP may not answer.
Up(n, config, answered) ==
    LET on == config.method = "static" \/ (config.method = "dhcp" /\ answered)
    IN /\ addressing' = [addressing EXCEPT ![n] = IF on THEN config.method ELSE "none"]
       /\ defaults' = IF config.default /\ on THEN defaults \cup {n} ELSE defaults \ {n}

\* Checks of other requests are out of date once addresses change.
Outdated(c, d) ==
    IF d # c /\ caller[d] # Idle /\ addressing' # addressing
      THEN [caller[d] EXCEPT !.fresh = FALSE] ELSE caller[d]

Goto(c, step) ==
    caller' = [d \in Callers |-> IF d = c THEN [caller[c] EXCEPT !.step = step]
                                          ELSE Outdated(c, d)]

NetInit ==
    /\ manager \in Backends
    /\ addressing \in [Nics -> {"dhcp", "none"}]
    /\ defaults = {n \in Nics : addressing[n] = "dhcp"}
    /\ persistent = [n \in Nics |->
          IF addressing[n] = "dhcp" /\ manager # "ip"
            THEN [method |-> "dhcp", default |-> TRUE] ELSE NoConfig]
    /\ roles = [n \in Nics |-> "none"]
    /\ caller = [c \in Callers |-> Idle]
    /\ lasting = [n \in Nics |-> NoChange]

-----------------------------------------------------------------------------
\* NetworkService.apply up to the helper: an invalid or unconfirmed change is
\* refused.
AskChange(c, x) ==
    /\ caller[c] = Idle
    /\ Valid(x) /\ ~NeedsConfirm(x)
    /\ caller' = [caller EXCEPT ![c] =
          [step |-> "helper", change |-> x, fresh |-> TRUE, alone |-> TRUE,
           read |-> [n \in Nics |-> "none"]]]
    /\ UNCHANGED <<manager, hostVars>>

\* apply_configuration reads the interfaces again and repeats the check.
HelperCheck(c) ==
    /\ caller[c].step = "helper"
    /\ caller' = IF NeedsConfirm(caller[c].change)
         THEN [caller EXCEPT ![c] = Idle]
         ELSE [d \in Callers |->
                 IF d = c THEN [caller[c] EXCEPT !.step = "write", !.fresh = TRUE,
                                   !.alone = \A e \in Callers \ {c} : ~Busy(e)]
                 ELSE IF Busy(d) THEN [caller[d] EXCEPT !.alone = FALSE] ELSE caller[d]]
    /\ UNCHANGED <<manager, hostVars>>

\* The configuration file or NetworkManager connection; the plain "ip" backend
\* has none.
WriteConfig(c) ==
    /\ caller[c].step = "write"
    /\ LET x == caller[c].change IN
         /\ persistent' = IF manager = "ip" THEN persistent
                          ELSE [persistent EXCEPT ![x.nic] = Config(x)]
         /\ lasting' = [lasting EXCEPT ![x.nic] = NoChange]
    /\ caller' = [caller EXCEPT ![c].step = "up"]
    /\ UNCHANGED <<manager, addressing, defaults, roles>>

\* The commands of each manager; they act on the file.  A failing ifup is
\* replaced by ip commands, a failing networkctl goes unnoticed.
BroughtUp(c) ==
    /\ Goto(c, "clean")
    /\ UNCHANGED <<manager, persistent, roles, lasting>>

NmcliUp(c, answered) ==
    /\ caller[c].step = "up" /\ manager = "nmcli"
    /\ Up(caller[c].change.nic, persistent[caller[c].change.nic], answered)
    /\ BroughtUp(c)

Ifup(c, answered) ==
    /\ caller[c].step = "up" /\ manager = "ifupdown"
    /\ Up(caller[c].change.nic, persistent[caller[c].change.nic], answered)
    /\ BroughtUp(c)

NetworkctlUp(c, answered) ==
    /\ caller[c].step = "up" /\ manager = "networkd"
    /\ Up(caller[c].change.nic, persistent[caller[c].change.nic], answered)
    /\ BroughtUp(c)

ApplyIpLive(c, answered) ==
    /\ caller[c].step = "up" /\ manager \in {"ip", "ifupdown"}
    /\ caller[c].change.method = "dhcp" => answered
    /\ Up(caller[c].change.nic, Config(caller[c].change), answered)
    /\ BroughtUp(c)

UnnoticedFailure(c) ==
    /\ caller[c].step = "up" /\ manager = "networkd"
    /\ caller' = [caller EXCEPT ![c].step = "clean", ![c].alone = FALSE]
    /\ UNCHANGED <<manager, hostVars>>

\* A command fails or takes longer than 30 seconds: the helper exits with what
\* was done so far in place, and the role is not saved.
CommandFails(c) ==
    /\ caller[c].step \in {"write", "up", "clean"}
    /\ \/ UNCHANGED <<addressing, defaults>>
       \/ /\ caller[c].step = "up"
          /\ addressing' = [addressing EXCEPT ![caller[c].change.nic] = "none"]
          /\ defaults' = defaults \ {caller[c].change.nic}
    /\ caller' = [d \in Callers |-> IF d = c THEN Idle ELSE Outdated(c, d)]
    /\ UNCHANGED <<manager, persistent, roles, lasting>>

\* _drop_default_via, and the flush of a capture interface without address;
\* NetworkManager has disabled the address by itself.
Clean(c) ==
    /\ caller[c].step = "clean"
    /\ LET x == caller[c].change IN
         /\ defaults' = IF x.role = "capture" THEN defaults \ {x.nic} ELSE defaults
         /\ addressing' = IF x.role = "capture" /\ x.method = "none"
                               /\ manager \in {"ifupdown", "networkd"}
                            THEN [addressing EXCEPT ![x.nic] = "none"] ELSE addressing
    /\ Goto(c, "roles")
    /\ UNCHANGED <<manager, persistent, roles, lasting>>

\* load_roles, then save_roles of what was read with one role changed.
LoadRoles(c) ==
    /\ caller[c].step = "roles"
    /\ caller' = [caller EXCEPT ![c].step = "save", ![c].read = roles]
    /\ UNCHANGED <<manager, hostVars>>

SaveRoles(c) ==
    /\ caller[c].step = "save"
    /\ LET x == caller[c].change IN
         /\ roles' = [caller[c].read EXCEPT ![x.nic] = x.role]
         /\ lasting' = IF caller[c].alone THEN [lasting EXCEPT ![x.nic] = x]
                       ELSE [n \in Nics |-> NoChange]
    /\ caller' = [caller EXCEPT ![c] = Idle]
    /\ UNCHANGED <<manager, addressing, defaults, persistent>>

-----------------------------------------------------------------------------
\* A lease runs out or is given; a new one brings its route back.
Renew(n, answered) ==
    /\ persistent[n].method = "dhcp"
    /\ Up(n, persistent[n], answered)
    /\ caller' = [d \in Callers |-> Outdated(NoNic, d)]
    /\ UNCHANGED <<manager, persistent, roles, lasting>>

\* The host restarts: interfaces come up as their files say.
Reboot ==
    /\ addressing' = [n \in Nics |->
          IF persistent[n].method = "unmanaged" THEN "none" ELSE persistent[n].method]
    /\ defaults' = {n \in Nics : persistent[n].default}
    /\ caller' = [c \in Callers |-> Idle]
    /\ lasting' = IF manager = "ip" \/ \E c \in Callers : Busy(c)
                    THEN [n \in Nics |-> NoChange] ELSE lasting
    /\ UNCHANGED <<manager, persistent, roles>>

CallerStep(c) ==
    \/ \E x \in Changes : AskChange(c, x)
    \/ HelperCheck(c) \/ WriteConfig(c) \/ UnnoticedFailure(c)
    \/ \E answered \in BOOLEAN :
          \/ NmcliUp(c, answered) \/ Ifup(c, answered)
          \/ NetworkctlUp(c, answered) \/ ApplyIpLive(c, answered)
    \/ CommandFails(c) \/ Clean(c) \/ LoadRoles(c) \/ SaveRoles(c)

NetNext ==
    \/ \E c \in Callers : CallerStep(c)
    \/ \E n \in Nics, answered \in BOOLEAN : Renew(n, answered)
    \/ Reboot

NetSpec == NetInit /\ [][NetNext]_netVars

-----------------------------------------------------------------------------
NetTypeOK ==
    /\ addressing \in [Nics -> {"dhcp", "static", "none"}]
    /\ defaults \subseteq Nics
    /\ roles \in [Nics -> Roles \cup {"none"}]
    /\ caller \in [Callers -> Caller]
    /\ lasting \in [Nics -> Changes \cup {NoChange}]

(***************************************************************************)
(* A change that was made while no other request was under way holds, also *)
(* after leases are renewed and the host restarts: an interface without    *)
(* address has none, the role is the one asked for, and a capture          *)
(* interface has no default route.  The exception is DHCP under ifupdown,  *)
(* where the route is removed once and returns with the next lease.        *)
(***************************************************************************)
ChangeLasts ==
    \A n \in Nics :
        LET x == lasting[n] IN
        x # NoChange =>
            /\ x.method = "none" => addressing[n] = "none"
            /\ x.method = "static" => addressing[n] = "static"
            /\ roles[n] = x.role
            /\ x.role = "capture" /\ ~(manager = "ifupdown" /\ x.method = "dhcp")
                 => n \notin defaults

(***************************************************************************)
(* The last IPv4 address of an appliance that is reached over the LAN is   *)
(* taken away by a request only if the operator confirmed it, asked for an *)
(* address that was not given, or the interfaces have changed since the    *)
(* helper looked at them.                                                  *)
(***************************************************************************)
LastAddressConfirmed ==
    [][\A c \in Callers :
          /\ LanBound /\ Busy(c) /\ caller'[c].step # caller[c].step
          /\ \E n \in Nics : addressing[n] # "none"
          /\ \A n \in Nics : addressing'[n] = "none"
          => \/ caller[c].change.confirm
             \/ caller[c].change.method # "none"
             \/ ~caller[c].fresh
             \/ caller'[c] = Idle]_netVars
=============================================================================
