# korserver: verification project

korserver is a VPN gateway in one container: `ocserv` serves VPN clients, and
their traffic (and the host's own) can be sent on through one of several
*upstream* VPN servers, dialed with `openconnect`. A FastAPI panel, the `korctl`
CLI and a watchdog process all steer the same kernel state. This directory holds
TLA+ models of that control logic, TLC configurations that check them on small
instances, and proofs for TLAPS that hold for instances of every size.

## 1. The system

Paths are under `src/backend/korserver/` unless they start with `src/`.

| Component | State it keeps | Operations | Correct when |
|---|---|---|---|
| Upstream service (`services/upstream.py`) | runtime marker `active-upstream`, `.upstream.lock` with a depth counter per instance, openconnect processes and devices | connect, disconnect, switch_profile, recover, ensure_policy_routing, enforce_profile_enablement, is_healthy, apply_server_routing_if_changed, record_vpnc_event | the lock serialises whole operations; routes follow the selection; no packet leaks; a working tunnel is found |
| Watchdog (`cli.py`, `upstream watch`) | failure streak, settle deadline, whether a tunnel was ever healthy | one tick per check_interval | recovers, and converges to the enabled flags |
| nftables (`services/nftables.py`, `renderers/nftables.py`, `src/templates/nftables*.j2`) | the live tables, `.routing_targets.json` | apply (static refresh or full recreate), cleanup | kill switch covers every window; stale targets go |
| Policy routing (`services/policy_routing.py`) | fwmark rules and routing tables | apply, ensure, cleanup | rule and route name the right device |
| Routing lists and targets (`services/routing.py`) | route and domain files | list_targets, add/delete/set | one target per profile with lists |
| Server-pushed routing (`services/upstream_pushed.py`) | one file per profile, the applied fingerprint | save, effective, fingerprint, mark_applied | lists in effect are in the table |
| Configuration (`config/`, `services/config.py`, `api/routes_config.py`) | `config.yaml`, the panel's cached copy | load, patch, save source, restore masked secrets | no lost update, secrets stay with their owner |
| Panel sessions (`api/auth.py`, `api/routes_auth.py`) | tokens, failed logins | login, get, revoke, prune | expired or revoked tokens stay dead; throttle holds |
| Web terminal (`api/routes_terminal.py`) | tickets, number of sessions | issue, consume, release | tickets are single-use, the limit holds |
| Users, groups, OTP (`services/users.py`, ...) | `ocpasswd`, `users.oath`, per-user and per-group files | create, lock, delete, set groups, delete a group | no update is lost under the panel's lock; a deleted group leaves nothing behind |
| VPN sessions (`services/sessions.py`) | none: each call parses occtl's output | list, kick | - |
| Certificates (`services/certificates.py`, ...) | CA, certificates, CRL | issue, revoke, renew, upload, boot | revoked stays revoked; boot leaves a usable server certificate and never replaces its key |
| DNS (`services/host_dns.py`, `services/internal_dns.py`) | resolv.conf, its backup, records | apply, restore, edit | the original is never lost |
| External lists (`services/external_lists.py`) | cached downloads | refresh, preview | a failed refresh keeps the old list |
| Server control (`services/server.py`, `main.py`) | processes under supervisord, `ocserv.conf` | save, start, stop, reload, boot | ocserv runs with what is saved; a save drops sessions only if it must |
| Logs, diagnostics, statistics, command runner, files, frontend | none of their own | reads and I/O | - |

**How they interact.** Every panel request builds a fresh `UpstreamService` (its
own lock descriptor and depth counter) with the configuration of that moment;
each CLI call is a process of its own; the watchdog builds one per tick. They
meet in the marker file, the nftables table, the routing tables, the
openconnect processes and `config.yaml`. `.upstream.lock` serialises connect,
disconnect, switch, recover, ensure, enforce and the application of pushed
lists. What takes **no** lock: a rules reload and `nft cleanup`, the vpnc-script
hook, `sync_server_routes`, every configuration edit, `POST /switch`'s save of
`active_profile`, `is_healthy`, and the kernel and openconnect themselves.

**What is hard here.** Operations are sequences of external commands, and other
processes, the kernel and crashes act between any two of them; the lock is
reentrant and operations nest three deep; decisions (health, readiness of the
set schema, the fingerprint) are taken before the lock and used after it; the
kill switch must cover windows in which the rule or route is missing; and the
watchdog must get out of every state all this can leave behind. The list of
concrete hazards, each at its line, is in `PROJECT.json`.

## 2. Modules

| Module | Models | Checked by | Proved in |
|---|---|---|---|
| `Routing` | data plane as pure operators: configuration, selection, targets, rendered rules, `egress` | through `Upstream` | through `RouteProofs` |
| `Upstream`, `Mutex` | connect, disconnect, switch, recover, the watchdog and their environment; what the lock promises, over the processes inside a `_locked()` block | `MCUpstream_*` | `UpstreamProofs`, `RouteProofs` |
| `RouteMarks` | marks, tables and devices of the profiles under renumbering | `MCDaemons`, `RouteMarks_marks` | `DaemonProofs` |
| `PushedStore` | the stored lists of one profile under three writers | `MCDaemons` | `PushedStoreProofs` |
| `HostDns` | the host's resolv.conf, its backup, the guard | `MCDaemons` | `HostDnsProofs` |
| `TerminalSessions` | tickets, slots and shells of the web terminal | `MCDaemons` | `DaemonProofs` |
| `AuthSessions` | admin sessions, login, throttle | `MCPanel` | `PanelProofs` |
| `ConfigPatch` | `config.yaml`, the panel's cache, masked secrets | `MCPanel` | `PanelProofs` |
| `Accounts` | `ocpasswd`, `users.oath`, user and group files | `MCPanel` | `PanelProofs` |
| `Certificates` | CA, user and server certificates, revocation, boot | `MCPanel` | `CertificateProofs` |
| `ListFiles` | route and domain files, downloaded lists | `MCPanel` | `PanelProofs` |
| `AtomicUpdates` | the promise of a file that several threads rewrite whole: one update at a time, each made to the content of that moment | implemented by `Accounts` and `ListFiles`, through `MCPanel` | `PanelProofs` |
| `Lists` | list comprehensions and loops that extend a list, as recursive functions | through the modules that use it | `PanelProofs` |
| `ServerControl` | saves, restarts and reloads of ocserv | `MCPanel` | `ServerProofs` |

`MCDaemons` and `MCPanel` compose the parts that share no state: a behaviour
runs one of them, named by `part`, while the others rest in an initial state.
Their product would only multiply the states. That nothing is lost by the
composition is proved: a step of it is a step of one part and no step of the others
(`PanelStep`, `DaemonsStep`). `Upstream` meets two of them:
`PushedStore` refines what `Upstream` takes as "the server's lists changed", and
`RouteMarks` opens up the target names that `Upstream` uses for marks.

### `Upstream`

The watchdog and any number of admin processes, each with a program counter
`pc`, locals `loc`, a lock depth and a queue of `ip` commands (`job`, `dev`).
One action per command or file access.

| Code | Model |
|---|---|
| `_locked()` entry / exit / exception | `acquire`, `release`, `unwind` |
| `connect` | `connect_lock` (543), `connect_check` (already connected, `is_active`, call of `apply`), the apply, `connect_dial`, `connect_verify`, `connect_route`, `connect_named`, `push_*`, `connect_return` / `connect_raise` |
| `disconnect` | `disconnect_lock`, `_check`, `_kill` or `_kill_raises`, `_select`, `_return` |
| `switch_profile` and `POST /switch` | `switch_lock`, `_mark`, the apply, `_route`, `_return`, `switch_save` |
| `NftablesService.apply` | `nft_probe` (`_static_sets_ready`), `nft_load` (`_apply_ruleset`, queueing `_reassert_policy_routing`), `nft_stale`, `nft_save`; `nft_load_fails` |
| `PolicyRoutingService.apply/ensure/cleanup` | `ip_command`, in the order of the target list; a target's queue entry walks del → add → route, ensure → route, or cdel → flush |
| `upstream watch`, `is_healthy` | `watch_tick`, `watch_health`, `watch_ping`, `watch_verdict` |
| `ensure_policy_routing` | `ensure_lock`, `ensure_return` |
| `enforce_profile_enablement` | `enforce_lock`, `enforce_loop`, `enforce_return` |
| `recover` | `recover_lock`, `_start`, `_loop`, `_dial`, `_switch`, `_return` |
| `apply_server_routing_if_changed` | `push_check` (before the lock), `push_lock`, the apply, `push_mark` |
| panel and CLI requests | `request_*`; edits `set_profile_enabled`, `save_settings`, `save_profile`, `save_routing_settings` |
| servers, tunnels, hook, supervisord | `server_outage`, `tunnel_dies`, `device_bounces`, `record_vpnc_event`, `process_dies` |

Abstractions: a profile stands for its device, a target for its mark and table
(the configuration validators keep them distinct), a list of routes or domains
for whether it is empty, a fingerprint for the set of profiles that contribute
to it. `view` is the `AppConfig` an operation started with, which may be older
than `config.yaml`. Reads that only the lock holder can disturb are joined into
one step (the marker is written by `switch_mark` alone, inside the lock). A
profile is assumed to have a `check_host`, and `main_interface` to name a device
that exists. `_repair_stale_resolv_conf`, certificate files, pin negotiation and
dnsmasq are outside the modelled state. Docker compatibility rules and NAT are
left out of the table. A handler that edits the configuration is one step.

### `RouteMarks`

`mark(i)` is the mark and table of the profile at a position (by position, or by
`routing_offset`), `dial` and `tunnel_dies` are openconnect on the device of a
position, `nft_apply` is
`NftablesService.apply` with `_reassert_policy_routing` and then
`_cleanup_stale_targets` over `.routing_targets.json`, `ensure_policy_routing`
the watchdog's. `edit_profile`, `add_profile` and `delete_profile` save only what
the validators accept (`validate_profiles`). `dial` begins with connect's own apply
and ends with the routing of the dialled profile's target. An apply is one step
here; its interleavings are `Upstream`'s. No profile names an `interface` of its
own: the device is that of the position.

### `PushedStore`

`refresh_server_routes` (paced), `sync_profile` (panel, korctl) start a sync;
`sync_request` loads the record, `sync_answered`/`sync_failed` build the new one
(`parse_sync_payload`), `sync_save` stores it. `hook_load` and `save_handshake`
are the vpnc-script hook. Ages replace times and stop counting at the interval,
the one value the code compares them with. `watchdog_killed` ends the process
anywhere; its successor knows what was saved.

### `HostDns`

`apply`, `_point_resolv_conf` and `_restore_resolv_conf` by the guard and by a
panel thread, each rewrite as the truncation and the write it is (`truncate`,
`write_in_place`); `guard_cycle`, `guard_sigterm` and `guard_restore`; the host's
own rewrites, and a container killed anywhere and booted again. Versions of
resolv.conf are numbered; `Ours` is the one naming dnsmasq, which is rewritten when
it is outdated. With `internal_dns.port` other than 53 (`port_53`), pointing the
host at dnsmasq is refused. The host's files are assumed to be mounted; without
them the service does nothing.

### `TerminalSessions`

`issue`, `consume` and `release_slot` of the registry, and its creation on first
use by racing requests; a handler from `accept` to `release_slot`, with the reader
and the writer of the pty, and `_terminate_child`, which keeps the event loop
(`loop_free`) while it waits; the shell, which may ignore SIGTERM; the client.

### `AuthSessions`

Login as the steps a worker thread takes: `authenticate_password` (may this source
try), `check_password`, `second_factor`, `check_code`, `login_create`. Requests
with a cookie or Basic credentials (`require_admin`), `logout`, the creation of
the registry on first use by racing threads (`find_no_registry`,
`make_registry`), and time. Whether a password or a code is right is a choice.

### `ConfigPatch`

`apply_config_patch` as `load_existing` (read and merge), `write_config` (validate,
then replace the file), `load_back`, `publish` (replace the cache) and
`write_rendered_files`; handlers that build the patch from the cache
(`save_profile`, `set_profile_enabled`, `delete_profile`, `save_group_policy`, ...);
the source editor with masks restored by index (`get_config_source`,
`save_config_source`); korctl (`cli_edit`), which ends at once when the file does
not load. What follows the write is part of the request (`after`): `"render"`;
`"nothing"` for a save with `write_rendered` false (`PATCH /config`, `POST /source`,
the TOTP handlers); or `"republish"` for the certificate pages, which set the cache
a second time after rendering. Those pages (`certificate_patches`) go through the
same steps, but `_update_certificate_config` writes without validating: when the
file then does not load, the request ends in an error, with the new file in place
and the old cache. Files are also rendered without a save: `write_rendered_config`
stands for `POST /render` and the handlers that render from the cache alone,
`config_render` for korctl's. `behind` records that something was published and
not rendered since.

`save_profile` takes what `POST /profiles` may say (`Payloads`): a secret or none,
an offset that is omitted (the saved one stays), null or explicit, enabled or not.
A secret in the file is a value or a reference to one; loading resolves it, and
resolving a value changes nothing (`ConfigAssumption`). `Config` is what the file
and the cache may hold, `Shown` what the editor's page may: a mask or nothing in
place of a secret. The validators are `validate_profiles`, `validate_identity` and
`require_external_paths`; those that check the form of a single value, that
`upstream.enabled` has a profile, or that names differ after normalisation, are left
out. `BootAssumption` is that the container boots with a file that `load_config`
accepts; otherwise the panel does not start.

### `Accounts`

Every rewrite of a file is `read_lines` and `write_lines` with the lock the code
has (`locks`), or none: panel rewrites, the `ocpasswd` command, korctl.
The line format is modelled by its fields: a group field that is longer than 32
characters is read back as a hash (`LongLists`), so `readable` is what the panel
can read of an account. `delete_group` removes the file, goes member by member and
saves the policies last (`clear_policy`). That save can be refused
(`policy_refused`): for the group that `identity.default_select_group` names
(`save_identity_settings`), or because another section of `config.yaml` is invalid;
the request then ends in an error with the rest done. `AbsentAssumption` says that the value for "no line, no
file" is none of the lines or files.

### `Certificates`

One step per `certtool` or `certbot` call, each of which may fail
(`command_fails`); a revocation as `append_read` and `append_write` under
`_REVOKED_REWRITE_LOCK`, then `crl_read` and `crl_write` outside it; boot
(`boot_load`, `boot_ca`, `boot_server`) as the chain of `initialize_runtime`, run
again after a `crash`.

### `ListFiles`

`add_route`, `delete_route` and `set_routes` (`Edits`) as `read_locked`, `write_edit`
with the thread lock (panel) or without (`korctl_list`); a `refresh` as
`fetch_url_text`, `write_cache`, `write_meta`, `render_lists`, which renders with the
configuration the request began with (`using`). `split` is `routing.split`: inline
entries, configured files and URLs, in order and perhaps repeated (`ListSettings`
are those that may be saved, by the settings page, `PATCH /config` or the source
editor). `merged_list` joins the four sources in the code's order: inline entries,
which the validators accept in any spelling (they strip no more than blanks and a
trailing dot from a domain), the edited file, the configured files,
whose lines are normalised as they are read, and the cached URLs.

### `ServerControl`

`save_settings`, `patch_config` and `edit_elsewhere` (korctl) start a save; `merge`
is `apply_config_patch` (one step), `apply_config_change` compares the ocserv.conf
of the configuration the panel had cached with the new one and goes on to
`restart_server` or to SIGHUP; process actions of the panel (`stop_process`, `start_process`,
`signal_process`); calls that fail (`rpc_fails`) and `ocserv_dies`.

## 3. Properties and runs

### The `MCUpstream` runs

These use two profiles `A`, `B`, the watchdog and one admin process that can
start one operation after the other. Two profiles are the least with a standby,
a failover and a switch; one admin and the watchdog the least that contend.

| Run | Instance | Checks | Shows |
|---|---|---|---|
| `interleave` | 2 requests, 1 fault, A has lists of its own | `TypeOK`, `LockDepth`, `LockImplementsMutex`, `RoutesFollowSelection`, `NoDoubleDial`, `NoLeak` | the safety of every interleaving of the watchdog with two operations and a fault at any point, a crash inside any operation included |
| `edits` | 1 request, 1 edit, 1 change of pushed lists | `RoutesFollowSelection` | the same with configurations that change under a running operation and with lists that are applied from inside connect (lock depth 3) |
| `failover` | threshold 2, 2 faults | `Recovers`, `RoutesHealed` | after any two faults a working tunnel is selected and connected for good, and its route comes back |
| `admin` | 1 request, 1 edit (A disabled) | `RequestTerminates`, `EnablementEnforced`, `RoutesHealed` | no request waits forever; tunnels converge to the enabled flags; the default route comes back after any operation, an unlocked reload included |
| `switch` | 1 request | violates `SwitchRepointsRules` | see findings |
| `enable` | upstream enabled by an edit | violates `KillSwitchBeforeDial` | see findings |
| `manual` | connect_on_boot off | violates `WatchdogOnlyObserves` | see findings |
| `recover` | 1 request, 1 fault | violates `OnlyFailedTornDown` | see findings |
| `applied` | 3 changes of pushed lists | violates `PushedListsApplied` | see findings |

The important ones, in words:

- `LockImplementsMutex`: the processes inside a `_locked()` block, told by their
  program counters and not by the lock file, behave like those of a plain mutex.
  It implies `MutualExclusion`, which is stated and proved but not a property of
  a run of its own.
- `RoutesFollowSelection`: inside the lock, an `ip` command on the default
  target's route always agrees with the marker of that moment. This is the
  hazard the docstring of `_locked` describes.
- `NoLeak`: with an unchanged configuration that sends clients through an
  upstream, no marked packet can leave through the host's own connection, in
  any state: between the `del` and `add` of a rule, after a crash, with an
  unlocked reload running beside a switch. It is about leaks and not about
  connectivity: the `switch` finding below is a state in which it holds because
  everything is dropped.
- `RoutesHealed` says "again and again" and not "for good": when a standby does
  not answer, each tick's dial of it re-applies the rules, and each re-apply
  deletes and re-adds the rule.

**Bounds.** `MaxRequests`, `MaxEdits`, `MaxFaults` and `MaxPushes` bound what
comes from outside; the watchdog ticks without bound. Two requests are what it
takes to have one operation leave a state (a marker, a removed table) that the
next one meets. A fault is an outage, a death, a bounce, a failed nft run or a
crash. `Edit_Config` lists the results of edits that a run allows; the edits
themselves range over every payload.

**Fairness** (`FairSpec`). Weak fairness of each process's own steps: a process
that can go on does. Strong fairness of its lock steps: the lock is free again
and again but not continuously, and `flock` wakes its waiters in turn. Weak
fairness of `settle_expires`: time passes. Nothing is assumed about requests,
edits, faults or servers.

### The `daemons` run

| Property | Says |
|---|---|
| `SlotAccounting` | the registry's counter is the number of terminals that hold a slot, slots and open tickets together respect the limit, and a ticket opens one terminal at most |
| `NoOrphanShell` | a handler gives its slot back only when its shell is dead, SIGTERM ignored or not |
| `TerminalEnds` | a terminal whose client or shell is gone gives its slot back, although another handler may be blocking the event loop |
| `OriginalKept` | the last resolv.conf the host wrote is in place or in the backup, wherever the container is killed, unless a rewrite in place was cut off or overwritten half-way (`spoiled`) |
| `HostReleased` | a guard that answered SIGTERM has left no resolver that is gone, unless the panel pointed the host there again afterwards (`late`) |
| `HostFollows` | a host whose DNS is not wanted any more gets its resolver back |
| `PacedSync` | the watchdog leaves `sync_interval` between requests, failed ones and those of an earlier watchdog process included, unless that process was killed between its request and its save, or another process saved in between |
| `FailedSyncKeepsLists` | a failed sync changes no list in effect |
| `SyncConverges` | once the server's lists stay the same the stored ones become them for good, whatever was lost, overwritten or killed before |
| `MarksHealed` | the mark and table of every connected profile whose device is up come back after edits, deletions and deaths |

*Bounds.* Two connections and three tickets with a limit of two: a ticket that
competes, one that expires and one that is refused. Two settings saves, one
rewrite by the host and one kill: a kill between any two steps of an apply that
runs beside another. Three events at the store: a handshake, a manual sync and a
failure around one watchdog sync. Two profiles, two edits and two applies: delete,
add again and apply between.

*Fairness.* `TermFairness`: the event loop runs every ready handler, and a client
that is gone ends its writer, at the latest by the idle timeout; nothing is
assumed of shells, clients or tickets. `HostFairness`: supervisord keeps the
guard cycling, and a handler runs to its end; that SIGTERM follows a stop.
`PushedFairness`: the watchdog ticks, curl has a time limit, a lost tunnel is
dialled again (`Recovers`), time passes. `MarkFairness`: the watchdog's tick with
its dials. `MCDaemons!Fairness` is these four, each for the behaviours that run
its part.

### The `panel` run

| Property | Says |
|---|---|
| `GuessesBounded` | however many logins run in parallel, wrong answers to one factor stay within the limit plus the threads that were past the check; a right password does not reset the count of wrong codes |
| `AcceptedSessionLive` | a cookie is accepted only if it was used within a lifetime, is not older than four and was never logged out, although the registry itself may be replaced under it |
| `ConfigAlwaysValid` | whatever edits overlap, the configuration the panel holds and the one the generated files come from pass every validator, and the file on disk those of the profiles and the identity section; only the certificates section of the file may be invalid, since its pages write first |
| `LoneEditIsLocal` | saving or switching a profile, alone and with a fresh cache, leaves every other profile as it loads, and on its device and mark every one that was not given a new offset |
| `CacheFollowsFile` | when the panel's last edit overlapped no other, the cached configuration is what `config.yaml` loads to, and the rendered files are too unless a save asked for no rendering and none came since; also after an edit that was rejected and after overlaps before it |
| `SourceKeepsSecrets` | the source editor never writes a mask, and with the profiles in the file's order each one that the page showed with a mask keeps its secret |
| `ConfigInForce` | after any saves, stops, starts and crashes ocserv runs with what is saved, with the exceptions named in the property |
| `SaveKeepsSessions` | a save restarts ocserv only for a setting it cannot take over on SIGHUP |
| `AccountsImplementStore` | `ocpasswd` and `users.oath` implement `AtomicUpdates`: they change by one operation on one account at a time, made to what the file says at that moment, until an unlocked rewrite overlaps another |
| `DeletedGroupGone` | when a deletion with nothing else under way answers that it is done, no file, no policy and no group field that is read as one names the group; when its last step is refused, file and memberships are gone and the policies are as they were |
| `RevocationsKept` | a certificate that reached revoked.pem stays there |
| `ServerKeyKept` | an existing server key, which clients have pinned, is never replaced |
| `BootServes` | a boot that ends leaves the CA and the certificate that ocserv is configured with |
| `ListEditsKept` | no edit of a list is lost among panel threads; file and caches hold normalised entries, each once; the rendered list repeats no line and adds only inline entries, spelled as in `config.yaml` |
| `ListImplementsStore` | a list file implements `AtomicUpdates`: it changes by one add, delete or set at a time, made to the lines of that moment and in their order, until a korctl rewrite overlaps another |
| `RefreshKeepsList` | a failed or empty download leaves the cached list |

`AccountsKept` (the files say what the operations so far amount to) and
`UserConfigReadBack` (a per-user file reads back as the settings that were saved)
are stated in `Accounts` and proved; the first is a part of the inductive invariant.

*Bounds.* Two panel threads and, where it matters, one korctl process: the least
that race inside and outside a thread lock. Operations are bounded by `Max*Ops`
(two edits, three or four operations), so that one operation meets the result of
two overlapping ones. The two threads are the same model values in every part and
nothing distinguishes them, so `MC_Symmetry` permutes them; the run has safety
properties only. In the file the run boots with, one profile has a secret and one
has none, so that the editor's page shows a mask and a null; the certificate mode is
auto and no paths are set, so that the certificate page can leave a file that does
not load. The list settings have an inline entry in another spelling than the file's,
and a configured file with a line of rubbish. `LongLists = {}`
keeps the run small; the theorems of `PanelProofs` hold for every `LongLists`. The
server page is sent a port and a limit, changed or not, with and without a reload, or is
told to disable the server (`MC_Saves`). The run has about 720,000 distinct states.

### The `marks` run

`RouteMarks` alone; violates `AppliedTargetsRouted`, see findings.

### Deadlock

`CHECK_DEADLOCK FALSE` stands where the bounds on requests let the modelled
parts come to rest. That no process is stuck is what the liveness properties
say.

### Findings

Six runs check a sentence of the repository and show that the code does
something else. Each is described in `PROJECT.json`.

1. A switch between existing profiles takes the static refresh; the kill switch
   keeps the old device (`SwitchRepointsRules`).
2. A first connect after enabling upstream dials without a kill switch
   (`KillSwitchBeforeDial`).
3. With connect_on_boot off the watchdog still dials standbys
   (`WatchdogOnlyObserves`).
4. A switch during a failing health check makes recover tear down a healthy
   profile (`OnlyFailedTornDown`).
5. Lists that are withdrawn and come back count as applied
   (`PushedListsApplied`).
6. After a profile is deleted, an apply re-asserts the mark its successor
   inherited and then removes it as stale (`AppliedTargetsRouted`); the
   watchdog's next tick repairs it (`MarksHealed`).

## 4. Proofs

### The upstream service

`UpstreamProofs` and `RouteProofs` prove, for every set of profiles and admins, every boot
configuration and every bound (assumptions: `RoutingAssumption`, that profiles
form a non-empty ordered list distinct from the other names, and
`UpstreamAssumption`, that processes are distinct and configurations well
formed):

- `TypeCorrect`: `Spec => []TypeOK`
- `LockDepthCorrect`: `Spec => []LockDepth`
- `MutualExclusionHolds`: `Spec => []MutualExclusion`
- `LockRefinement`: `Spec => LockImplementsMutex`
- `NoDoubleDialHolds`: `Spec => []NoDoubleDial`
- `RoutesFollowSelectionHolds`: `Spec => []RoutesFollowSelection`
- `NoLeakHolds`: `Spec => []NoLeak`

*The inductive invariant* is `LockInv == TypeOK /\ LockDepth`. `TypeOK` alone is
not inductive: that a release keeps the depth a natural number needs the depth
to be positive there, which `LockDepth` gives by tying it to the place each
process is at (`Level`). `Level` is a function of the program counter and of
three locals — who called, where apply returns to, where the application of
pushed lists returns to — so each action is proved by one of four lemmas:
`Keeps`, `Enters`, `Leaves`, `Unwinds`. Mutual exclusion follows at once, since
the owner is unique. For the refinement, `Inside` is read off the program counters;
`InsideOwns` shows from `LockDepth` that it is `{owner}`, or empty when the lock is
free, and `OwnerStep` that no step moves the lock from one process to another. So a
nested entry and an inner exit are stuttering, and a crash inside is a `Leave`.

`NoDoubleDial` needs the window between connect's check and its dial, during
which `apply` runs: `DialInv` says that the profile stays down in all of it.
Another process can only bring it up from the same window, which is inside the
lock.

`RoutesFollowSelection` is about commands that run several steps after the
selection was read. `RouteInv` (in `RouteProofs`) says, of each process, that
what it has remembered is still true: the interface an apply under the lock runs
with is the selection's, connect's `is_act` holds from the check to the route,
the marker is switch_profile's argument from the write to the route, and the
profile disconnect has killed stays down until its cleanup is queued. Steps of
another process preserve it because the marker is written and a tunnel dialed
inside the lock only (`OneRoutes`, `OneMoves`, with `LockDepth`); a reload
without the lock has level 0 and is not covered by the property. `RouteInv` was
checked with TLC on the instances of `interleave` and `edits` first.

`NoLeak` must also hold for commands outside the lock, so its invariant `LeakInv`
uses no lock at all. It says that under a configuration as `NoLeak` describes it,
every view an operation runs with has the same targets (`Agrees`: only the active
profile may differ, which a switch saves), that everything a process has still to
load or install is safe (`Prepared`), that the loaded table marks and drops
whatever is not in a tunnel (`Guarded`), and that no table's default route is the
uplink (`Routed`). The kill switch and the routes need not agree with each other
for nothing to leak; that they can disagree is the `switch` finding. `NoLeak`
alone is not inductive: it does not see a route that is queued.

### The other components

Each module proves its property for every value of its constants; only the named
assumption of the component's module is used. The bounds on requests and faults
appear in guards only and play no part in the arguments.

- **`HostDnsProofs`** (`HostTypeCorrect`, `OriginalKeptHolds`,
  `HostReleasedHolds`). `HostInv` adds to the types: outside the windows that
  spoil it, whenever resolv.conf is not the host's the backup is, and an actor
  that is about to rewrite has made sure of that (`Kept`); after SIGTERM the
  guard only gives the file back (`Released`). `OriginalKept` alone is not
  inductive, because a rewrite decided on earlier could still overwrite the
  last copy.
- **`PushedStoreProofs`** (`PushedTypeCorrect`, `PacedSyncHolds`,
  `FailedSyncKeepsListsHolds`). `Paced` follows the age of the watchdog's last
  request through load, request, save and the death of the process: unless
  `disturbed`, the stored time or the one in flight is not older than the request.
  `Current` says that a request nobody has overtaken still holds what the file
  holds.
- **`CertificateProofs`** (`RevocationsKeptHolds`, `CertTypesHold`,
  `ServerKeyIsKept`, `BootsServe`). A thread that rewrites revoked.pem holds the
  lock (`Locked`), so what it has read is what the file still holds (`LoneAppend`),
  until korctl, which shares no lock, joins in. For the boot, `CertInv` adds to
  the types what each stage relies on (`BootOK`: the CA's key before it is signed,
  the CA before the server, a configured path only if its files exist) and that a
  request in progress has its files (`Prepared`). `BootServes` then is a matter of
  the last stage, and `ServerKeyKept` of the one step that writes the key.
- **`ServerProofs`** (`ServerTypesHold`, `ConfigInForceHolds`,
  `SaveKeepsSessionsHolds`).
  `ServerInv` says what ocserv may run with at each step of the one request in
  progress (`Due`), and that a lone request still knows what ocserv had when the
  request began (`NotedBy`). It was checked with TLC for four requests first.
- **`DaemonProofs`, terminals** (`TermTypeCorrect`, `SlotAccountingHolds`,
  `NoOrphanShellHolds`). `Slots` counts handlers with the cardinality lemmas of
  the library; `Single` ties each token to one registry or one connection;
  `Shells` ties a live shell to the steps between fork and `_terminate_child`.
- **`DaemonProofs`, marks** (`MarkTypesHold`). `MarkTypeOK` is inductive as it
  stands: the validators keep names distinct, so by the library's injection theorem
  there are no more profiles than names, and every position is a device and a mark.

- **`PanelProofs`, sessions** (`AuthTypesHold`, `GuessesAreBounded`,
  `AcceptedSessionsLive`). `Throttled` counts an answer that is under way as a
  wrong one: recorded failures plus threads past the check stay within the limit
  less one plus the number of threads. `GuessesBounded` alone is not inductive, since the
  check and the record are separate steps. For cookies, `Known` ties the registry
  in use to the histories of its tokens, and `Unmade` says that a registry about to
  be installed is empty, so replacing the registry can only forget sessions.
- **`PanelProofs`, accounts** (`AccTypesHold`, `AccountsAreKept`,
  `AccountRefinement`, `SettingsAreReadBack`, `DeletedGroupsGo`). `AccInv`: a lock is
  held exactly by
  the thread whose rewrite takes it (`LocksHeld`), so without an overlap there is
  one rewrite of a file at a time, of the file as it is (`OneRewrite`); a deletion
  that is alone still lists every remaining member (`Undisturbed`), across the
  rewrites it makes. The lemmas below it say what each operation does to the fields
  of a line: every line keeps its hash last, and what `parse_passwd_record` makes of
  the changed line is what the operation meant, for every set of long group lists
  (`ChangeMeans`). The refinement of `AtomicUpdates` (`AccountStoreStep`) follows from
  the two: without an overlap a write replaces the file it read (`OneRewrite`), and
  what it changes there is the effect of the operation on what the line says.
  `ViewReads` lets `ChangeMeans` start from the file itself and not from the history.
- **`PanelProofs`, configuration** (`CfgTypesHold`, `ConfigIsAlwaysValid`,
  `CacheIsTheFile`, `SourceSecretsKept`, `LoneEditsAreLocal`). `CfgInv`: an edit that
  is alone is the
  only one (`OneEdit`), holds what follows from the file and the cache of this
  moment until it writes, and after that brings cache and rendered files back to the
  file (`EditOK`); with a fresh cache nothing is under way and file, cache and
  rendered files agree (`FreshOK`, `InStep`; `behind` excuses the rendered files). `ConfigsValid` says of
  every configuration an editor holds after loading that it is valid, and of what a
  certificate page is about to write that its other sections are (`Holds`): they are
  the file's, by `SectionsKept`. `CacheFollowsFile` alone is not
  inductive: it does not see the edit between its write and its rendering.
  `LoneEditsAreLocal` assumes that the environment does not override
  `upstream.profiles`: with such an override the cache holds the overriding list,
  and an edit of a profile writes that list over the file's own. `SourceKeepsSecrets` is
  about profiles the page showed with a mask: a page loaded before a secret was
  set shows none for it, and saving it removes the secret set meanwhile. The proof
  attempt for the earlier statement, without that condition, showed it; TLC
  confirmed it on an instance with a profile without a secret.
- **`PanelProofs`, lists** (`ListTypesHold`, `ListEditsAreKept`,
  `ListRefinement`, `RefreshesKeepLists`). `ListInv`: the lock is held exactly by the panel thread
  that rewrites (`ListLocked`), what a lone rewrite read is what the file has
  (`EditsKept`), a cache file precedes its meta file (`MetaAfterCache`). That
  file and caches are free of rubbish and repetition, and rendered lists but for
  inline entries, rests on lemmas about `unique`,
  `parse_list_text` and `merged_list`. For the refinement of `AtomicUpdates`, a
  lone edit holds the file's own lines when it writes (`EditsKept`), and what it
  writes is the list the edit promises, order included (`WriteIsUpdate`): passing a
  clean list through `unique` once more changes nothing (`CleanIsUnique`, `OnlyAll`).

- **The compositions.** `MCPanel` and `MCDaemons` run one part at a time. `PanelStep`
  and `DaemonsStep` project a step of the composition onto each part, where it is a
  step of that part's next-state relation or leaves its variables alone. Hence
  `PanelImplementsParts` (in `ServerProofs`): the composed specification implies the
  specification of each of the six parts, so every theorem about a part is one about
  the composition that the run checks; `PanelTypesHold` is the first. In
  `DaemonProofs`, whose parts have fairness in their specifications, the lemmas
  are stated without it, and `DaemonsTypesHold` and `DaemonsSafe` give the
  `daemons` run's safety properties for the composition.

Those proofs need to know what `only` and `joined` return for sequences of every
length. They are written as recursive functions for that reason; `SetInduction`, which is
induction over the natural numbers for a set instead of a predicate, shows that
their recursion has a solution and what the elements of the result are.

`LeakInv`, `AuthInv`, `AccInv`, `CfgInv`, `ListInv` and `CertInv` were checked with
TLC on the instances of the components' runs before they were proved.

*Model-checked only.* Every liveness property (`Recovers`, `RoutesHealed`,
`RequestTerminates`, `EnablementEnforced`, `TerminalEnds`, `HostFollows`,
`SyncConverges`, `MarksHealed`): they rest on fairness, which is outside the
prover's reach. Every invariant and every action property that a passing run
checks is a theorem. The properties of the violation runs do not hold.

## 5. Not modelled

Listed per component in `PROJECT.json`, with reasons. In short:

- *VPN sessions* keep no state. Every call parses occtl's output, in one of
  several layouts, for display; what could be wrong is in the text.
- *Set contents, NAT and Docker rules, the dnsmasq configuration* are rendered
  text that no decision of the code reads back.
- *Cryptography, one-time passwords, the TLS probe for pins, mail and Telegram*
  are an answer, right or wrong, a success or a failure.
- *Logs, diagnostics, statistics, versions, health check, command runner, the
  public and client endpoints, the frontend* hold no state whose order of changes
  matters.

**What the properties exclude.** Some properties have an exception that is
itself behaviour of the code worth knowing:

- `OriginalKept`, `HostReleased`, `HostFollows` (`spoiled`): a container killed
  between the truncation and the write of resolv.conf leaves it empty. Nor do they
  speak of a live race of two rewrites: the guard and the panel thread have no lock
  between them, so one may read, back up or overwrite the file the other has
  truncated, and the host may write between our decision and our write; the host's
  version is then lost although nothing was killed. A panel that saves routing settings
  after the guard has answered SIGTERM points the host at a dnsmasq that goes
  away. `restore`, which "undoes everything", leaves the systemd-resolved drop-in.
  With host_dns `resolv_conf`, a port changed from 53 to another leaves our file in
  place, naming a dnsmasq that no longer listens there
  (`services/host_dns.py:136-142`).
- `FailedSyncKeepsLists`, `PacedSync`: a handshake stored while a sync waits for
  the network is overwritten by it (`services/upstream.py:976`). A handshake that
  loaded the file before a sync saved it puts the older time back, and a watchdog
  killed between its request and its save leaves no trace of the request: in both
  cases the next request comes sooner.
- `ConfigAlwaysValid`: `_update_certificate_config` writes before `load_config`
  validates (`api/routes_certificates.py:406`). External mode without paths leaves
  a `config.yaml` that does not load: other saves, which validate the merged data,
  are refused, korctl and the next boot fail, until a certificate page or an edit
  of the same setting puts it right.
- `CacheFollowsFile`: a save with `write_rendered` false leaves the generated files
  behind the file until something renders.
- `DeletedGroupGone`: the docstring of `delete_group`
  (`api/routes_groups.py:70-74`) promises that file, policy and memberships go
  together. Deleting the default group fails at the last of them
  (`config/models.py:921-922`): the answer is an error, the policy stays, and the
  next rendering makes the group's file again, while its members have lost it.
- `ListEditsKept`: inline `split.routes` and `split.domains` are rendered as they
  are spelled (`config/models.py:40-54`), so an entry that is also in a list can
  be rendered in two spellings.
- `AccountsImplementStore`, `ListImplementsStore`, `ListEditsKept`, `RevocationsKept`:
  a korctl or `ocpasswd` run
  beside the panel can lose an update; the locks are shared by threads only.
- `AccountsImplementStore`, `DeletedGroupGone`: a group field longer than 32 characters is
  taken for a password hash, so the panel shows that user without groups and does
  not find the user among a deleted group's members (`LongLists`), although
  ocserv reads the groups; deleting a user leaves the OTP secret, certificate and
  per-user file behind.
- `SourceKeepsSecrets`: a page that was loaded before a secret was set removes it
  when it is saved; masked secrets are restored by index, so reordering or
  deleting profiles in the source editor hands one profile another one's secret
  (`api/routes_config.py:227`). A list edited in the panel is written from the
  cached, resolved configuration: a `${SECRET:...}` reference becomes its value.
- `RevocationsKept` is about revoked.pem: crl.pem is generated outside the lock
  (`services/certificates.py:330`), so an older list can overwrite a newer one,
  and revoking a user reaches the newest certificate only.
- `ServerKeyKept` is about the server: the CA's key and certificate can be left
  apart when the second certtool call of a regeneration fails.
- `ConfigInForce`: the comparison is with the panel's cached configuration, not with what
  ocserv runs with. After a save with reload off, a plain PATCH or a korctl edit
  of a restart-only setting, the next save only sends SIGHUP and the old setting
  stays in force. Two saves that overlap can also leave the older configuration
  rendered (`services/server.py:59`).
- `SlotAccounting` counts as a holder a handler whose `accept` or audit write
  raised between `consume` and the `try` (`api/routes_terminal.py:173-181`): it
  never gives its slot back. A shell that needed SIGKILL is never waited for.
- `MarksHealed` is about targets that exist and whose device, the one of the
  profile's present position, is up. A profile that was renumbered while its tunnel
  keeps the old device is not covered: its route names a device that is down until
  it is dialled again. A changed `routing_offset` leaves
  the old rule and table (`services/nftables.py:227-230`), and a deleted
  profile's tunnel keeps running on a device that another profile may inherit.

## 6. Plan

Modelled, checked and proved as described above. What is left, in order:

1. `RouteMarks` with the ports and set contents of the dynamic sets.
2. `config.yaml` as an `AtomicUpdates` file: its rewrites take no lock, so the
   promise could only be stated for edits that are alone, where `LoneEditIsLocal`
   and `CacheFollowsFile` already say what it would.
