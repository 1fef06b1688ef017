------------------------------ MODULE PushedStore ------------------------------
(***************************************************************************)
(* The file that holds what a profile's server pushed: routes and domains, *)
(* from the handshake or from the server's panel, and the DNS servers,     *)
(* from the handshake only.  Three processes load it, work, and save it    *)
(* back without a lock: the watchdog's paced sync, a sync asked for in the *)
(* panel or by korctl, and the vpnc-script hook of openconnect.            *)
(*                                                                         *)
(* Times are ages, which stop counting at sync_interval: the code compares *)
(* them with nothing else.                                                 *)
(***************************************************************************)
EXTENDS Integers

CONSTANTS
    Lists,           \* what a server may push: routes and domains
    NoLists,         \* empty lists, the default of PushedRouting
    Resolvers,       \* what a server may push: DNS servers
    NoResolvers,     \* none of them, the default
    sync_interval,   \* profile.sync_interval
    MaxSyncEvents    \* bound: changes of the server's lists, handshakes, syncs asked for,
                     \* failed requests, lost tunnels and killed watchdogs together

ASSUME PushedStoreAssumption ==
    /\ NoLists \in Lists /\ NoResolvers \in Resolvers
    /\ sync_interval \in Nat \ {0}
    /\ MaxSyncEvents \in Nat

VARIABLES
    stored,     \* the file: [lists, dns, age of synced_at, failed (sync_error)]
    published,  \* what GET /api/client/routing of the server's panel answers
    online,     \* _profile_connected
    sync,       \* process -> its position and the record it loaded
    since,      \* age of the watchdog's last request (history)
    disturbed,  \* since then someone else saved, or the request died unrecorded (history)
    sync_events \* what MaxSyncEvents counts

pushedVars == <<stored, published, online, sync, since, disturbed, sync_events>>

Syncers   == {"watchdog", "manual"}
Savers    == Syncers \cup {"hook"}
Resting   == [at |-> "rest"]
Ages      == 0 .. sync_interval
older(n)  == IF n < sync_interval THEN n + 1 ELSE n
Routing_  == [lists : Lists, dns : Resolvers, age : Ages, failed : BOOLEAN]

sync_event == sync_events < MaxSyncEvents /\ sync_events' = sync_events + 1

\* p holds a record it has loaded.
in_flight(p) == sync[p].at \in {"curl", "save"}

\* PushedRoutingStore.save by process p: whoever holds a loaded record knows less
\* than the file from here on.
save(p, routing) ==
    /\ stored' = routing
    /\ sync' = [q \in Savers |->
                    IF q = p THEN Resting
                    ELSE IF in_flight(q) THEN [sync[q] EXCEPT !.overtaken = TRUE]
                    ELSE sync[q]]
    /\ disturbed' = (disturbed \/ p # "watchdog")
    /\ UNCHANGED <<published, online, since>>

-----------------------------------------------------------------------------
(* UpstreamService.refresh_server_routes and sync_server_routes *)

\* A tick finds the profile connected and its last sync old enough.
refresh_unless_failed ==                         \* mutant: a failed sync is not retried
    /\ sync["watchdog"] = Resting
    /\ online /\ stored.age >= sync_interval /\ ~stored.failed
    /\ sync' = [sync EXCEPT !["watchdog"] = [at |-> "load"]]
    /\ UNCHANGED <<stored, published, online, since, disturbed, sync_events>>
refresh_server_routes ==
    /\ sync["watchdog"] = Resting
    /\ online /\ stored.age >= sync_interval
    /\ sync' = [sync EXCEPT !["watchdog"] = [at |-> "load"]]
    /\ UNCHANGED <<stored, published, online, since, disturbed, sync_events>>

\* POST /profiles/{name}/sync and korctl upstream sync are not paced.
sync_profile ==
    /\ sync["manual"] = Resting
    /\ sync_event
    /\ sync' = [sync EXCEPT !["manual"] = [at |-> "load"]]
    /\ UNCHANGED <<stored, published, online, since, disturbed>>

\* sync_server_routes loads the record, notes the time and sends its request.
sync_request(p) ==
    /\ sync[p].at = "load"
    /\ sync' = [sync EXCEPT ![p] =
                    [at |-> "curl", previous |-> stored, age |-> 0, overtaken |-> FALSE]]
    /\ IF p = "watchdog" THEN since' = 0 /\ disturbed' = FALSE
                         ELSE UNCHANGED <<since, disturbed>>
    /\ UNCHANGED <<stored, published, online, sync_events>>

\* A request is over: routing is what its process will save.
returned(p, routing) ==
    sync' = [sync EXCEPT ![p] = [@ EXCEPT !.at = "save", !.previous = routing]]

\* parse_sync_payload: what the panel answers replaces routes and domains; the rest
\* of the record is the one loaded before the request.
sync_answered(p) ==
    /\ sync[p].at = "curl" /\ online
    /\ returned(p, [sync[p].previous EXCEPT !.lists = published, !.failed = FALSE])
    /\ UNCHANGED <<stored, published, online, since, disturbed, sync_events>>

\* curl fails, at once without a tunnel, or the answer is not a JSON object.
sync_failed_empties(p) ==                        \* mutant: a failure starts a new record
    /\ sync[p].at = "curl"
    /\ IF online THEN sync_event ELSE UNCHANGED sync_events
    /\ returned(p, [sync[p].previous EXCEPT !.lists = NoLists, !.failed = TRUE])
    /\ UNCHANGED <<stored, published, online, since, disturbed>>
sync_failed(p) ==
    /\ sync[p].at = "curl"
    /\ IF online THEN sync_event ELSE UNCHANGED sync_events
    /\ returned(p, [sync[p].previous EXCEPT !.failed = TRUE])
    /\ UNCHANGED <<stored, published, online, since, disturbed>>

\* Success or failure, the time of the request is stored with the record.
sync_save_if_ok(p) ==                            \* mutant: a failure is not a sync
    /\ sync[p].at = "save"
    /\ LET previous == sync[p].previous
       IN  save(p, IF previous.failed THEN previous ELSE [previous EXCEPT !.age = sync[p].age])
    /\ UNCHANGED sync_events
sync_save(p) ==
    /\ sync[p].at = "save"
    /\ save(p, [sync[p].previous EXCEPT !.age = sync[p].age])
    /\ UNCHANGED sync_events

-----------------------------------------------------------------------------
(* record_vpnc_event and save_handshake: the hook takes the time of the last *)
(* sync from the file and everything else from the handshake.                *)

hook_load(lists, dns) ==
    /\ sync["hook"] = Resting
    /\ sync_event
    /\ sync' = [sync EXCEPT !["hook"] =
                    [at |-> "save", age |-> stored.age, overtaken |-> FALSE,
                     previous |-> [lists |-> lists, dns |-> dns, age |-> stored.age,
                                   failed |-> FALSE]]]
    /\ UNCHANGED <<stored, published, online, since, disturbed>>

save_handshake ==
    /\ sync["hook"].at = "save"
    /\ save("hook", [sync["hook"].previous EXCEPT !.age = sync["hook"].age])
    /\ UNCHANGED sync_events

-----------------------------------------------------------------------------
(* Time, the server and faults *)

SyncTick ==
    /\ stored' = [stored EXCEPT !.age = older(@)]
    /\ sync' = [p \in Savers |->
                    IF in_flight(p) THEN [sync[p] EXCEPT !.age = older(@)] ELSE sync[p]]
    /\ since' = older(since)
    /\ UNCHANGED <<published, online, disturbed, sync_events>>

server_publishes(lists) ==
    /\ sync_event
    /\ published' = lists
    /\ UNCHANGED <<stored, online, sync, since, disturbed>>

tunnel_lost ==
    /\ online /\ sync_event
    /\ online' = FALSE
    /\ UNCHANGED <<stored, published, sync, since, disturbed>>

tunnel_back ==
    /\ ~online
    /\ online' = TRUE
    /\ UNCHANGED <<stored, published, sync, since, disturbed, sync_events>>

\* The new watchdog process knows of earlier requests only what was saved.
watchdog_killed ==
    /\ sync_event
    /\ sync' = [sync EXCEPT !["watchdog"] = Resting]
    /\ disturbed' = (disturbed \/ in_flight("watchdog"))
    /\ UNCHANGED <<stored, published, online, since>>

-----------------------------------------------------------------------------

\* A file that was never written: PushedRouting's defaults, synced_at long past.
PushedInit ==
    /\ stored = [lists |-> NoLists, dns |-> NoResolvers, age |-> sync_interval, failed |-> FALSE]
    /\ published \in Lists /\ online = TRUE
    /\ sync = [p \in Savers |-> Resting]
    /\ since = sync_interval /\ disturbed = FALSE
    /\ sync_events = 0

SyncStep(p) == sync_request(p) \/ sync_answered(p) \/ sync_failed(p) \/ sync_save(p)

PushedNext ==
    \/ refresh_server_routes \/ sync_profile
    \/ \E p \in Syncers : SyncStep(p)
    \/ \E lists \in Lists, dns \in Resolvers : hook_load(lists, dns)
    \/ save_handshake
    \/ SyncTick \/ tunnel_lost \/ tunnel_back \/ watchdog_killed
    \/ \E lists \in Lists : server_publishes(lists)

\* The watchdog ticks, curl has a time limit, handlers run to their end, the tunnel
\* is dialled again (Upstream!Recovers) and time passes.
PushedFairness ==
    /\ WF_pushedVars(refresh_server_routes)
    /\ \A p \in Syncers : WF_pushedVars(SyncStep(p))
    /\ WF_pushedVars(save_handshake)
    /\ WF_pushedVars(tunnel_back) /\ WF_pushedVars(SyncTick)

PushedSpec == PushedInit /\ [][PushedNext]_pushedVars /\ PushedFairness

-----------------------------------------------------------------------------
(* Properties *)

(* The file and the records in flight are pushed routing, ages included. *)
PushedTypeOK ==
    /\ stored \in Routing_ /\ published \in Lists
    /\ online \in BOOLEAN /\ disturbed \in BOOLEAN /\ since \in Ages
    /\ \A p \in Savers :
        /\ sync[p].at \in {"rest", "load", "curl", "save"}
        /\ in_flight(p) =>
            /\ sync[p].previous \in Routing_ /\ sync[p].age \in Ages

(* The watchdog leaves sync_interval between two requests, failed ones and   *)
(* ones of an earlier watchdog process included.  Two things excuse a sooner *)
(* request: the earlier process was killed after its request and before its  *)
(* save, so that nothing recorded it; or another process saved the file in   *)
(* between, as a handshake or a manual sync may put an older time back.      *)
PacedSync ==
    [][sync["watchdog"].at = "load" /\ sync'["watchdog"].at = "curl"
          => since >= sync_interval \/ disturbed]_pushedVars

(* A sync that fails leaves the routes, domains and DNS servers in effect as *)
(* they were, unless another process saved the file while it waited.         *)
FailedSyncKeepsLists ==
    [][\A p \in Syncers :
          (sync[p].at = "save" /\ sync'[p] = Resting /\ sync[p].previous.failed
              /\ ~sync[p].overtaken)
            => stored'.lists = stored.lists /\ stored'.dns = stored.dns]_pushedVars

(* Once the server's lists stay as they are, the stored ones become them for *)
(* good, whatever handshakes, failures and restarts came before.             *)
SyncConverges == <>[](stored.lists = published)
===============================================================================
