------------------------------- MODULE Routing -------------------------------
(***************************************************************************)
(* The data plane of korserver: which profile the configuration selects,   *)
(* which routing targets it describes, what an nftables ruleset rendered   *)
(* for them marks and drops, and where the kernel then sends a packet.     *)
(*                                                                         *)
(* Pure operators, shared by every module that drives the data plane.      *)
(* A profile's tunnel device is identified with the profile (the           *)
(* configuration validators keep the devices distinct), a target's fwmark  *)
(* and table with the target, and a list of routes or domains with whether *)
(* it is empty.                                                            *)
(***************************************************************************)
EXTENDS Naturals

CONSTANTS
    Profiles,   \* upstream.profiles: the VPN servers this host can dial
    Position,   \* index of each profile in upstream.profiles
    None,       \* "no profile", "no route", "no rule"
    Default,    \* the default routing target
    Uplink      \* routing.main_interface, the host's own connection

\* The profile list is a non-empty list of distinct profiles, so each part of
\* it has a first element.
ASSUME RoutingAssumption ==
    /\ Profiles # {}
    /\ None \notin Profiles \cup {Default, Uplink}
    /\ Default \notin Profiles
    /\ Uplink \notin Profiles
    /\ Position \in [Profiles -> Nat]
    /\ \A S \in SUBSET Profiles :
          S # {} => \E p \in S : \A q \in S : Position[p] <= Position[q]

Targets == Profiles \cup {Default}
Devices == Profiles \cup {Uplink}

(***************************************************************************)
(* The part of AppConfig that the data plane depends on.                   *)
(***************************************************************************)
Config ==
    [enabled         : BOOLEAN,                  \* upstream.enabled
     active          : Profiles \cup {None},     \* upstream.active_profile
     on              : SUBSET Profiles,          \* profiles with enabled: true
     clients         : SUBSET Profiles,          \* ... with client routes/domains
     hosts           : SUBSET Profiles,          \* ... with host routes/domains
     accept          : SUBSET Profiles,          \* ... with accept_server_routes
     client_traffic  : BOOLEAN,                  \* routing.client_traffic
     host_traffic    : {"off", "full", "split"}, \* routing.host_traffic/host_mode
     failover        : BOOLEAN,                  \* upstream.failover
     connect_on_boot : BOOLEAN]                  \* upstream.connect_on_boot

\* The first profile of S in list order.
First(S) == CHOOSE p \in S : \A q \in S : Position[p] <= Position[q]

\* UpstreamConfig.selected_profile: a disabled active_profile selects nothing.
config_selected_profile(c) ==
    CASE c.active \in c.on                  -> c.active
      [] c.active = None /\ c.on # {}       -> First(c.on)
      [] OTHER                              -> None

\* UpstreamService.selected_profile: the runtime marker m wins over the config.
selected_profile(c, m) ==
    IF m = None THEN config_selected_profile(c)
                ELSE IF m \in c.on THEN m ELSE None

\* Mutant: nothing stands in for a missing selection.
active_interface_unset(c, m) == selected_profile(c, m)

\* UpstreamService.active_interface: upstream.interface, the first profile's
\* device, when nothing is selected.
active_interface(c, m) ==
    IF selected_profile(c, m) = None THEN First(Profiles)
                                     ELSE selected_profile(c, m)

\* The outbound interface a rules refresh resolves when its caller names none.
resolve_outbound(c) ==
    IF c.enabled /\ config_selected_profile(c) # None
    THEN config_selected_profile(c)
    ELSE Uplink

(***************************************************************************)
(* RoutingService.list_targets.  pushed is the set of profiles for which   *)
(* the pushed-routing store holds lists.                                   *)
(***************************************************************************)
host_targets(c, pushed) ==
    IF c.enabled THEN c.hosts \cup (c.accept \cap pushed) ELSE {}

list_targets(c, pushed) ==
    {Default} \cup host_targets(c, pushed) \cup (IF c.enabled THEN c.clients ELSE {})

target_interface(c, outbound, t) ==
    CASE t # Default                      -> t
      [] t = Default /\ c.client_traffic  -> outbound
      [] t = Default /\ ~c.client_traffic -> Uplink

upstream_active(c) == c.enabled /\ config_selected_profile(c) # None

killswitch(c, t) == t = Default => upstream_active(c) /\ c.client_traffic

(***************************************************************************)
(* NftablesConfigRenderer: the set schema and the rules that a full        *)
(* recreate installs.  drop[t] is the interface the kill switch of t lets  *)
(* through (None: no rule), host_drop[t] the same for the host's own       *)
(* traffic.                                                                *)
(***************************************************************************)
expected_set_names(c, pushed) ==
    ({"client"} \X list_targets(c, pushed))
      \cup ({"host"} \X host_targets(c, pushed))
      \cup (IF c.host_traffic = "split" THEN {<<"host", Default>>} ELSE {})

render(c, pushed, outbound) ==
    LET targets == list_targets(c, pushed)
        hosts   == host_targets(c, pushed)
    IN  [sets      |-> expected_set_names(c, pushed),
         mark      |-> {t \in targets : t = Default => c.client_traffic},
         drop      |-> [t \in Targets |->
                          IF t \in targets /\ killswitch(c, t)
                          THEN target_interface(c, outbound, t) ELSE None],
         host_drop |-> [t \in Targets |->
                          CASE t \in hosts -> t
                            [] t = Default /\ upstream_active(c)
                                 /\ c.host_traffic # "off" -> outbound
                            [] OTHER -> None]]

Rulesets ==
    [sets      : SUBSET ({"client", "host"} \X Targets),
     mark      : SUBSET Targets,
     drop      : [Targets -> Devices \cup {None}],
     host_drop : [Targets -> Devices \cup {None}]]

\* No korserver table is loaded (a loaded one always has the default's sets).
NoTable ==
    [sets |-> {}, mark |-> {}, drop |-> [t \in Targets |-> None],
     host_drop |-> [t \in Targets |-> None]]

(***************************************************************************)
(* The kernel.  rules is the set of targets whose fwmark rule is           *)
(* installed, routes[t] the device of the default route of t's table.      *)
(***************************************************************************)
egress(rules, routes, t) ==
    IF t \in rules /\ routes[t] # None THEN routes[t] ELSE Uplink

dropped(nft, rules, routes, t) ==
    nft.drop[t] \notin {None, egress(rules, routes, t)}

\* The kernel removes every route that references a device when it goes away.
purge(routes, d) ==
    [t \in Targets |-> IF routes[t] = d THEN None ELSE routes[t]]
=============================================================================
