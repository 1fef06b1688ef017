------------------------------ MODULE RouteMarks ------------------------------
(***************************************************************************)
(* The fwmark, routing table and tunnel device of each profile with routes *)
(* of its own.  Unless set explicitly, both follow the profile's position  *)
(* in upstream.profiles, while openconnect keeps the device it was started *)
(* on and .routing_targets.json remembers the marks of the last apply by   *)
(* profile name.  The interleaving of the commands of one apply is the     *)
(* subject of Upstream; here an apply is one step.  No profile names an    *)
(* interface of its own.                                                   *)
(***************************************************************************)
EXTENDS Integers, Sequences, FiniteSets

CONSTANTS
    MarkNames,      \* profile names
    NoOwner,        \* no profile; no device
    MaxMark,        \* bound: the largest routing_offset
    MaxMarkEdits,   \* bound: profiles saved, added and deleted
    MaxApplies,     \* bound: rules applied by hand
    MaxTunnelDeaths \* bound: openconnect processes that die

ASSUME RouteMarksAssumption ==
    /\ IsFiniteSet(MarkNames) /\ NoOwner \notin MarkNames
    /\ MaxMark \in Nat /\ MaxMark >= Cardinality(MarkNames)
    /\ MaxMarkEdits \in Nat /\ MaxApplies \in Nat /\ MaxTunnelDeaths \in Nat

VARIABLES
    mark_profiles,   \* upstream.profiles: <<[name, routing_offset (0 unset), routed]>>
    mark_enabled,    \* upstream.enabled
    ip_rules,        \* marks with an ip rule
    ip_tables,       \* mark -> device of the table's default route, 0 without one
    targets_state,   \* .routing_targets.json: name -> mark at the last apply, 0 if absent
    tunnel,          \* device -> the profile whose openconnect runs on it
    mark_applied,    \* nothing changed since the last apply (history)
    mark_edits, mark_applies, tunnel_deaths

markVars == <<mark_profiles, mark_enabled, ip_rules, ip_tables, targets_state, tunnel,
              mark_applied, mark_edits, mark_applies, tunnel_deaths>>

Marks      == 1 .. MaxMark
TunDevices == 1 .. Cardinality(MarkNames)     \* upstream.interface, oc-up1, oc-up2, ...
kernelVars == <<ip_rules, ip_tables, tunnel>>

-----------------------------------------------------------------------------
(* UpstreamConfig and RoutingService.list_targets *)

positions == DOMAIN mark_profiles

\* A profile's offset by position or override, in a list of profiles ps.
profile_routing_offset(ps, i) ==
    IF ps[i].routing_offset # 0 THEN ps[i].routing_offset ELSE i

validate_profiles(ps) ==
    \A i, j \in DOMAIN ps : i # j =>
        /\ ps[i].name # ps[j].name
        /\ profile_routing_offset(ps, i) # profile_routing_offset(ps, j)

\* Named targets exist only while upstream is enabled.
mark_targets == {i \in positions : mark_enabled /\ mark_profiles[i].routed}
mark(i)      == profile_routing_offset(mark_profiles, i)

up(d) == tunnel[d] # NoOwner
device_of(name) == {d \in TunDevices : tunnel[d] = name}
_profile_connected(i) == device_of(mark_profiles[i].name) # {}

-----------------------------------------------------------------------------
(* PolicyRoutingService *)

\* apply or ensure for several targets; ip route replace fails when the device does
\* not exist.
routes_of(is) ==
    [m \in Marks |-> IF \E i \in is : mark(i) = m /\ up(i)
                       THEN CHOOSE i \in is : mark(i) = m
                       ELSE ip_tables[m]]

-----------------------------------------------------------------------------
(* NftablesService.apply: every target is re-asserted, then the marks of the *)
(* targets whose names are gone are cleaned up, then the names are recorded. *)

target_names == {mark_profiles[i].name : i \in mark_targets}
stale_marks  == {targets_state[n] : n \in MarkNames \ target_names} \ {0}

applied_rules  == (ip_rules \cup {mark(i) : i \in mark_targets}) \ stale_marks
applied_tables == [m \in Marks |-> IF m \in stale_marks THEN 0 ELSE routes_of(mark_targets)[m]]
applied_state  == [n \in MarkNames |->
    IF n \in target_names
      THEN mark(CHOOSE i \in mark_targets : mark_profiles[i].name = n) ELSE 0]

nft_apply ==
    /\ mark_applies < MaxApplies
    /\ mark_applies' = mark_applies + 1
    /\ ip_rules' = applied_rules
    /\ ip_tables' = applied_tables
    /\ targets_state' = applied_state
    /\ mark_applied' = TRUE
    /\ UNCHANGED <<mark_profiles, mark_enabled, tunnel, mark_edits, tunnel_deaths>>

-----------------------------------------------------------------------------
(* The watchdog: ensure_policy_routing and enforce_profile_enablement *)

\* Every connected named target gets its rule, if missing, and its route.
ensure_route_only ==                             \* mutant: a missing rule stays missing
    LET connected == {i \in mark_targets : _profile_connected(i)}
    IN  /\ ip_tables' = routes_of(connected)
        /\ UNCHANGED <<mark_profiles, mark_enabled, ip_rules, targets_state, tunnel,
                       mark_applied, mark_edits, mark_applies, tunnel_deaths>>
ensure_policy_routing ==
    LET connected == {i \in mark_targets : _profile_connected(i)}
    IN  /\ ip_rules' = ip_rules \cup {mark(i) : i \in connected}
        /\ ip_tables' = routes_of(connected)
        /\ UNCHANGED <<mark_profiles, mark_enabled, targets_state, tunnel,
                       mark_applied, mark_edits, mark_applies, tunnel_deaths>>

\* connect: the rules are applied before the device exists; openconnect takes the
\* profile's device, unless another process has it; then the profile's own target is
\* routed.  A dial that fails leaves what the apply did: nft_apply.
dial(i) ==
    /\ mark_enabled /\ i \in positions /\ ~_profile_connected(i) /\ ~up(i)
    /\ tunnel' = [tunnel EXCEPT ![i] = mark_profiles[i].name]
    /\ ip_rules' = applied_rules \cup {mark(j) : j \in mark_targets \cap {i}}
    /\ ip_tables' = [m \in Marks |->
            IF i \in mark_targets /\ m = mark(i) THEN i ELSE applied_tables[m]]
    /\ targets_state' = applied_state
    /\ mark_applied' = FALSE
    /\ UNCHANGED <<mark_profiles, mark_enabled, mark_edits, mark_applies, tunnel_deaths>>

\* The kernel drops the routes of a device that goes away.
tunnel_dies(d) ==
    /\ tunnel_deaths < MaxTunnelDeaths /\ up(d)
    /\ tunnel_deaths' = tunnel_deaths + 1
    /\ tunnel' = [tunnel EXCEPT ![d] = NoOwner]
    /\ ip_tables' = [m \in Marks |-> IF ip_tables[m] = d THEN 0 ELSE ip_tables[m]]
    /\ mark_applied' = FALSE
    /\ UNCHANGED <<mark_profiles, mark_enabled, ip_rules, targets_state, mark_edits,
                   mark_applies>>

-----------------------------------------------------------------------------
(* The panel *)

\* apply_config_patch refuses what validate_profiles refuses.
save_profiles(ps, enabled) ==
    /\ mark_edits < MaxMarkEdits
    /\ validate_profiles(ps)
    /\ mark_edits' = mark_edits + 1
    /\ mark_profiles' = ps
    /\ mark_enabled' = enabled
    /\ mark_applied' = FALSE
    /\ UNCHANGED <<kernelVars, targets_state, mark_applies, tunnel_deaths>>

edit_profile(i, offset, routed) ==
    /\ i \in positions
    /\ save_profiles([mark_profiles EXCEPT ![i].routing_offset = offset, ![i].routed = routed],
                     mark_enabled)

add_profile(name) ==
    save_profiles(Append(mark_profiles, [name |-> name, routing_offset |-> 0, routed |-> TRUE]),
                  mark_enabled)

\* The tunnel of the profile is left running; the last profile disables upstream.
delete_profile(i) ==
    /\ i \in positions
    /\ LET ps == [k \in 1 .. Len(mark_profiles) - 1 |->
                        mark_profiles[IF k < i THEN k ELSE k + 1]]
       IN  save_profiles(ps, mark_enabled /\ ps # <<>>)

set_upstream_enabled(enabled) ==
    /\ enabled # mark_enabled
    /\ mark_profiles # <<>>
    /\ save_profiles(mark_profiles, enabled)

-----------------------------------------------------------------------------

\* Booted with every profile dialled, routed and applied, in some order.
InitialOrder ==
    CHOOSE f \in [TunDevices -> MarkNames] : \A i, j \in TunDevices : f[i] = f[j] => i = j

MarkInit ==
    /\ mark_profiles =
            [i \in TunDevices |-> [name |-> InitialOrder[i], routing_offset |-> 0, routed |-> TRUE]]
    /\ mark_enabled = TRUE
    /\ ip_rules = {mark(i) : i \in positions}
    /\ ip_tables = [m \in Marks |-> IF m \in positions THEN m ELSE 0]
    /\ targets_state = [n \in MarkNames |->
            CHOOSE i \in positions : mark_profiles[i].name = n]
    /\ tunnel = [d \in TunDevices |-> mark_profiles[d].name]
    /\ mark_applied = TRUE
    /\ mark_edits = 0 /\ mark_applies = 0 /\ tunnel_deaths = 0

MarkNext ==
    \/ nft_apply \/ ensure_policy_routing
    \/ \E d \in TunDevices : dial(d) \/ tunnel_dies(d) \/ delete_profile(d)
    \/ \E i \in TunDevices, offset \in 0 .. MaxMark, routed \in BOOLEAN :
            edit_profile(i, offset, routed)
    \/ \E name \in MarkNames : add_profile(name)
    \/ \E enabled \in BOOLEAN : set_upstream_enabled(enabled)

\* The watchdog's tick never stops.
MarkFairness ==
    /\ WF_markVars(ensure_policy_routing)
    /\ \A d \in TunDevices : WF_markVars(dial(d))

MarkSpec == MarkInit /\ [][MarkNext]_markVars /\ MarkFairness

-----------------------------------------------------------------------------
(* Properties *)

(* Profiles have distinct names and marks, and the kernel's and the service's *)
(* tables hold marks, devices and profiles.                                   *)
MarkTypeOK ==
    /\ mark_profiles \in Seq([name : MarkNames, routing_offset : 0 .. MaxMark, routed : BOOLEAN])
    /\ Len(mark_profiles) <= Cardinality(MarkNames)
    /\ validate_profiles(mark_profiles)
    /\ mark_enabled \in BOOLEAN /\ mark_applied \in BOOLEAN
    /\ ip_rules \subseteq Marks
    /\ ip_tables \in [Marks -> {0} \cup TunDevices]
    /\ targets_state \in [MarkNames -> {0} \cup Marks]
    /\ tunnel \in [TunDevices -> MarkNames \cup {NoOwner}]

routed_by_kernel(i) == mark(i) \in ip_rules /\ ip_tables[mark(i)] = i

(* Right after an apply every target whose device is up has its rule and its *)
(* route: what the apply re-asserted, its own clean-up of the targets that   *)
(* are gone has not removed again.                                           *)
AppliedTargetsRouted ==
    mark_applied => \A i \in mark_targets : up(i) => routed_by_kernel(i)

(* Whatever sequence of edits, applies and tunnel deaths renumbered the marks *)
(* and the devices, the watchdog leads every target whose profile is connected *)
(* and whose device is up back to its rule and to a route through its device. *)
MarksHealed ==
    <>[](\A i \in mark_targets : _profile_connected(i) /\ up(i) => routed_by_kernel(i))
===============================================================================
