------------------------------- MODULE HostDns -------------------------------
(***************************************************************************)
(* routing.host_dns: the host's resolv.conf, which lives on a bind mount   *)
(* and is rewritten in place, the systemd-resolved drop-in, and dnsmasq.   *)
(*                                                                         *)
(* Three parties write resolv.conf: the host-dns-guard process, a panel    *)
(* thread that has saved the routing settings, and the host itself         *)
(* (NetworkManager, DHCP).  A rewrite in place is a truncation and a write. *)
(* Both of the host's paths are mounted into the container: without them   *)
(* the service changes nothing.                                            *)
(***************************************************************************)
EXTENDS Integers

CONSTANTS
    PanelThread,      \* a panel worker that saves routing settings
    MaxHostRewrites,  \* bound: times the host rewrites its resolv.conf
    MaxDnsSaves,      \* bound: settings saved in the panel
    MaxHostCrashes    \* bound: times the container is killed

ASSUME HostDnsAssumption ==
    /\ PanelThread # "guard"
    /\ MaxHostRewrites \in Nat /\ MaxDnsSaves \in Nat /\ MaxHostCrashes \in Nat

VARIABLES
    resolv_conf,   \* the host's resolv.conf: a version the host wrote, Ours or Empty
    resolv_orig,   \* the backup in data_dir, or Missing
    dropin,        \* the systemd-resolved drop-in exists
    host_dns,      \* routing.host_dns
    dns_active,    \* dns_tunnel_active(): dnsmasq is wanted
    port_53,       \* internal_dns.port is 53, the only one a resolv.conf can name
    dnsmasq,       \* dnsmasq runs
    hpc,           \* what the guard and the panel thread are doing
    guard,         \* "run", "stopping" (SIGTERM) or "exited"
    host_version,  \* versions the host has written; the last one is its own (history)
    spoiled,       \* a rewrite hit one of the windows below (history)
    late,          \* the panel pointed the host at dnsmasq after the guard's end (history)
    saves, host_crashes

hostVars == <<resolv_conf, resolv_orig, dropin, host_dns, dns_active, port_53, dnsmasq, hpc,
              guard, host_version, spoiled, late, saves, host_crashes>>

Actors == {"guard", PanelThread}
Modes  == {"off", "resolv_conf", "resolved"}
Rest   == [at |-> "rest"]

\* Contents: the host's versions are numbered from 1.
Ours    == 0
Empty   == -1
Missing == -2

ours(content) == content = Ours
wanted == host_dns # "off" /\ dns_active

\* Truncated by another actor, and not written yet.
half_written(a) == \E b \in Actors \ {a} : hpc[b].at = "write"

go(a, pc) == hpc' = [hpc EXCEPT ![a] = pc]
hostFrame == UNCHANGED <<host_dns, dns_active, port_53, dnsmasq, guard, host_version, saves,
                         host_crashes>>

-----------------------------------------------------------------------------
(* HostDnsService.apply and restore *)

\* Not wanted, or the resolved drop-in is: resolv.conf is given back, then the
\* drop-in is removed or written.  Wanted in resolv.conf: the drop-in goes first.
apply(a) ==
    /\ hpc[a].at = "apply"
    /\ IF wanted /\ host_dns = "resolv_conf"
         THEN go(a, [at |-> "point"]) /\ dropin' = FALSE
         ELSE go(a, [at |-> "restore", leaves |-> {wanted}]) /\ UNCHANGED dropin
    /\ UNCHANGED <<resolv_conf, resolv_orig, spoiled, late>> /\ hostFrame

\* What the drop-in is left as when a rewrite ends; restore() does not touch it.
_write_dropin(leaves) == dropin' = IF leaves = {} THEN dropin ELSE TRUE \in leaves

\* _point_resolv_conf: what is there and not ours is the host's own; keep it.  Our
\* own file is rewritten when it is outdated: internal_dns.listen has changed since.
backs_up_always(a) ==                            \* mutant: our own file is backed up too
    /\ hpc[a].at = "point" /\ port_53
    /\ spoiled' = (spoiled \/ half_written(a))
    /\ go(a, IF ours(resolv_conf) THEN Rest ELSE [at |-> "truncate", text |-> Ours, leaves |-> {}])
    /\ resolv_orig' = resolv_conf
    /\ UNCHANGED <<resolv_conf, dropin, late>> /\ hostFrame
_point_resolv_conf(a) ==
    /\ hpc[a].at = "point"
    /\ \/ ~port_53 /\ go(a, Rest) /\ UNCHANGED <<resolv_orig, spoiled>>
       \/ /\ port_53
          /\ spoiled' = (spoiled \/ half_written(a))
          /\ \E outdated \in BOOLEAN :
                go(a, IF ours(resolv_conf) /\ ~outdated THEN Rest
                      ELSE [at |-> "truncate", text |-> Ours, leaves |-> {}])
          /\ resolv_orig' = IF ours(resolv_conf) THEN resolv_orig ELSE resolv_conf
    /\ UNCHANGED <<resolv_conf, dropin, late>> /\ hostFrame

\* _restore_resolv_conf: only our own file is replaced, and only from a backup.
restores_nothing(a) ==                           \* mutant: the file is left to the host
    /\ hpc[a].at = "restore" /\ go(a, Rest)
    /\ _write_dropin(hpc[a].leaves)
    /\ UNCHANGED <<resolv_conf, resolv_orig, spoiled, late>> /\ hostFrame
_restore_resolv_conf(a) ==
    /\ hpc[a].at = "restore"
    /\ spoiled' = (spoiled \/ half_written(a))
    /\ IF ours(resolv_conf) /\ resolv_orig # Missing
         THEN /\ go(a, [at |-> "truncate", text |-> resolv_orig, leaves |-> hpc[a].leaves])
              /\ UNCHANGED dropin
         ELSE go(a, Rest) /\ _write_dropin(hpc[a].leaves)
    /\ UNCHANGED <<resolv_conf, resolv_orig, late>> /\ hostFrame

\* _write_in_place
truncate(a) ==
    /\ hpc[a].at = "truncate"
    /\ spoiled' = (spoiled \/ half_written(a))
    /\ resolv_conf' = Empty
    /\ go(a, [hpc[a] EXCEPT !.at = "write"])
    /\ UNCHANGED <<resolv_orig, dropin, late>> /\ hostFrame

write_in_place(a) ==
    /\ hpc[a].at = "write"
    /\ resolv_conf' = hpc[a].text
    /\ late' = (late \/ (a = PanelThread /\ guard # "run" /\ ours(hpc[a].text)))
    /\ go(a, Rest)
    /\ _write_dropin(hpc[a].leaves)
    /\ UNCHANGED <<resolv_orig, spoiled>> /\ hostFrame

-----------------------------------------------------------------------------
(* host-dns-guard, the panel and the host *)

\* A cycle of the guard, every 30 seconds.
guard_cycle_if_wanted ==                         \* mutant: nothing to do while off
    /\ guard = "run" /\ hpc["guard"] = Rest /\ wanted
    /\ go("guard", [at |-> "apply"])
    /\ UNCHANGED <<resolv_conf, resolv_orig, dropin, spoiled, late>> /\ hostFrame
guard_cycle ==
    /\ guard = "run" /\ hpc["guard"] = Rest
    /\ go("guard", [at |-> "apply"])
    /\ UNCHANGED <<resolv_conf, resolv_orig, dropin, spoiled, late>> /\ hostFrame

\* SIGTERM is noticed between cycles; then the guard restores and exits.
guard_sigterm ==
    /\ guard = "run"
    /\ guard' = "stopping"
    /\ UNCHANGED <<resolv_conf, resolv_orig, dropin, host_dns, dns_active, port_53,
                   dnsmasq, hpc,
                   host_version,
                   spoiled, late, saves, host_crashes>>

guard_restore ==
    /\ guard = "stopping" /\ hpc["guard"] = Rest
    /\ guard' = "exited"
    /\ go("guard", [at |-> "restore", leaves |-> {}])
    /\ UNCHANGED <<resolv_conf, resolv_orig, dropin, host_dns, dns_active, port_53,
                   dnsmasq, host_version,
                   spoiled, late, saves, host_crashes>>

\* save_routing_settings saves the mode and applies it at once.
save_routing_settings(mode) ==
    /\ hpc[PanelThread] = Rest
    /\ saves < MaxDnsSaves
    /\ saves' = saves + 1
    /\ host_dns' = mode
    /\ go(PanelThread, [at |-> "apply"])
    /\ UNCHANGED <<resolv_conf, resolv_orig, dropin, dns_active, port_53, dnsmasq, guard,
                   host_version, spoiled,
                   late, host_crashes>>

\* The internal DNS page restarts or stops dnsmasq; the host's resolver is left to
\* the guard's next cycle.
save_internal_dns_settings(active, on_53) ==
    /\ hpc[PanelThread] = Rest
    /\ saves < MaxDnsSaves
    /\ saves' = saves + 1
    /\ dns_active' = active
    /\ port_53' = on_53
    /\ dnsmasq' = active
    /\ UNCHANGED <<resolv_conf, resolv_orig, dropin, host_dns, hpc, guard, host_version,
                   spoiled, late,
                   host_crashes>>

\* NetworkManager or DHCP writes a new resolv.conf.
host_rewrites ==
    /\ host_version <= MaxHostRewrites
    /\ host_version' = host_version + 1
    /\ resolv_conf' = host_version + 1
    /\ spoiled' = (spoiled \/ \E a \in Actors : hpc[a].at \in {"truncate", "write"})
    /\ UNCHANGED <<resolv_orig, dropin, host_dns, dns_active, port_53, dnsmasq, hpc, guard,
                   late, saves, host_crashes>>

\* The container is killed and started again.
container_killed ==
    /\ host_crashes < MaxHostCrashes
    /\ host_crashes' = host_crashes + 1
    /\ spoiled' = (spoiled \/ \E a \in Actors : hpc[a].at = "write")
    /\ hpc' = [a \in Actors |-> Rest]
    /\ guard' = "run" /\ late' = FALSE /\ dnsmasq' = dns_active
    /\ UNCHANGED <<resolv_conf, resolv_orig, dropin, host_dns, dns_active, port_53,
                   host_version, saves>>

-----------------------------------------------------------------------------

HostInit ==
    /\ resolv_conf = 1 /\ host_version = 1 /\ resolv_orig = Missing /\ dropin = FALSE
    /\ host_dns \in Modes /\ dns_active = TRUE /\ dnsmasq = TRUE /\ port_53 \in BOOLEAN
    /\ hpc = [a \in Actors |-> Rest]
    /\ guard = "run" /\ spoiled = FALSE /\ late = FALSE
    /\ saves = 0 /\ host_crashes = 0

HostStep(a) == \/ apply(a) \/ _point_resolv_conf(a) \/ _restore_resolv_conf(a)
               \/ truncate(a) \/ write_in_place(a)

HostNext ==
    \/ \E a \in Actors : HostStep(a)
    \/ guard_cycle \/ guard_sigterm \/ guard_restore
    \/ \E mode \in Modes : save_routing_settings(mode)
    \/ \E active, on_53 \in BOOLEAN : save_internal_dns_settings(active, on_53)
    \/ host_rewrites \/ container_killed

\* supervisord keeps the guard running, its loop has no exit but SIGTERM, and a
\* handler runs to its end.
HostFairness ==
    /\ WF_hostVars(guard_cycle \/ guard_restore)
    /\ \A a \in Actors : WF_hostVars(HostStep(a))

HostSpec == HostInit /\ [][HostNext]_hostVars /\ HostFairness

-----------------------------------------------------------------------------
(* Properties *)

(* resolv.conf and its backup hold a version of the host, ours, or nothing,  *)
(* and an actor is at a step of the service.                                 *)
HostTypeOK ==
    /\ resolv_conf \in 1 .. host_version \cup {Ours, Empty}
    /\ resolv_orig \in 1 .. host_version \cup {Missing, Empty}
    /\ dropin \in BOOLEAN /\ dns_active \in BOOLEAN /\ port_53 \in BOOLEAN /\ dnsmasq \in BOOLEAN
    /\ host_dns \in Modes /\ guard \in {"run", "stopping", "exited"}
    /\ \A a \in Actors : hpc[a].at \in {"rest", "apply", "point", "restore", "truncate", "write"}

(* The host's own configuration is never lost: whatever the guard, the panel *)
(* and the host write, and wherever the container is killed, the last        *)
(* resolv.conf the host wrote is in place or in the backup - unless a        *)
(* rewrite in place was cut off, or read or overwritten half-way.            *)
OriginalKept ==
    ~spoiled => host_version \in {resolv_conf, resolv_orig}

(* The host is not left with a resolver that is gone: once the guard has     *)
(* answered SIGTERM, resolv.conf does not name dnsmasq, unless the panel     *)
(* pointed it there again while the container was stopping.                  *)
HostReleased ==
    (guard = "exited" /\ ~late /\ ~spoiled /\ \A a \in Actors : hpc[a] = Rest)
        => ~ours(resolv_conf)

(* When dnsmasq is stopped from its own page, or host_dns is turned off, the *)
(* guard takes the host's resolver back within its cycles.                   *)
HostFollows ==
    (ours(resolv_conf) /\ ~wanted /\ guard = "run" /\ ~spoiled)
        ~> (~ours(resolv_conf) \/ wanted \/ late \/ spoiled)
===============================================================================
