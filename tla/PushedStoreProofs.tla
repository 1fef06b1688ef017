-------------------------- MODULE PushedStoreProofs --------------------------
(***************************************************************************)
(* Proofs about PushedStore, for any lists and resolvers a server may      *)
(* push, any sync_interval and any number of events.                       *)
(***************************************************************************)
EXTENDS PushedStore, TLAPS

\* What a process can be doing.
Flight  == [at : {"curl", "save"}, previous : Routing_, age : Ages, overtaken : BOOLEAN]
SyncPc  == {Resting, [at |-> "load"]} \cup Flight

PushedTyped ==
    /\ stored \in Routing_ /\ published \in Lists
    /\ online \in BOOLEAN /\ disturbed \in BOOLEAN /\ since \in Ages
    /\ sync \in [Savers -> SyncPc]

\* Undisturbed, the age the watchdog finds or will store is never above the age of
\* its last request.
Paced ==
    ~disturbed =>
        /\ sync["watchdog"].at = "rest" => stored.age <= since
        /\ sync["watchdog"].at = "load" => since >= sync_interval
        /\ in_flight("watchdog") => sync["watchdog"].age <= since

\* A sync that nobody has overtaken still holds the lists and resolvers of the file,
\* unless the server has answered it.
Current ==
    \A p \in Syncers :
        (in_flight(p) /\ ~sync[p].overtaken /\ (sync[p].at = "curl" \/ sync[p].previous.failed)) =>
            /\ sync[p].previous.lists = stored.lists
            /\ sync[p].previous.dns = stored.dns

PushedInv == PushedTyped /\ Paced /\ Current

-----------------------------------------------------------------------------

LEMMA SyncPcFields ==
    /\ Resting \in SyncPc /\ [at |-> "load"] \in SyncPc
    /\ Resting.at = "rest" /\ [at |-> "load"].at = "load"
    /\ \A r \in SyncPc : /\ r.at \in {"rest", "load", "curl", "save"}
                         /\ r.at \in {"curl", "save"} => r \in Flight
                         /\ r.at = "rest" => r = Resting
BY DEF SyncPc, Flight, Resting

LEMMA OlderTyped ==
    /\ \A n \in Ages : older(n) \in Ages
    /\ \A m, n \in Ages : m <= n => older(m) <= older(n)
    /\ \A n \in Ages : n >= sync_interval => older(n) >= sync_interval
BY PushedStoreAssumption DEF Ages, older

LEMMA PushedInvInit == PushedInit => PushedInv
<1> SUFFICES ASSUME PushedInit PROVE PushedInv
  OBVIOUS
<1>1. sync = [p \in Savers |-> Resting] /\ stored.age = sync_interval /\ since = sync_interval
  BY DEF PushedInit
<1>2. PushedTyped
  <2>1. sync_interval \in Ages
    BY PushedStoreAssumption DEF Ages
  <2>2. stored \in Routing_
    BY <2>1, PushedStoreAssumption DEF PushedInit, Routing_
  <2> QED
    BY <1>1, <2>1, <2>2, SyncPcFields DEF PushedInit, PushedTyped
<1>3. \A p \in Savers : sync[p].at = "rest"
  BY <1>1, SyncPcFields
<1>4. Paced /\ Current
  BY <1>1, <1>3, PushedStoreAssumption DEF Paced, Current, in_flight, Savers, Syncers
<1> QED
  BY <1>2, <1>4 DEF PushedInv

-----------------------------------------------------------------------------
(* Every step, one lemma per kind of step *)

\* A step in which process p alone moves, to record r, and the file stays.
SyncMoves(p, r) ==
    /\ sync' = [sync EXCEPT ![p] = r]
    /\ UNCHANGED stored

LEMMA MovesTyped ==
    ASSUME PushedTyped, NEW p \in Savers, NEW r \in SyncPc, SyncMoves(p, r)
    PROVE  /\ sync' \in [Savers -> SyncPc]
           /\ sync'[p] = r
           /\ \A q \in Savers \ {p} : sync'[q] = sync[q]
           /\ stored' = stored
BY DEF PushedTyped, SyncMoves

\* Another process than the watchdog moves: the watchdog's pace is not touched.
LEMMA MovesPaced ==
    ASSUME PushedTyped, Paced, NEW p \in Savers, NEW r \in SyncPc, SyncMoves(p, r),
           p # "watchdog", since' = since, disturbed' = disturbed
    PROVE  Paced'
<1>1. sync'["watchdog"] = sync["watchdog"] /\ stored' = stored
  BY MovesTyped DEF Savers, Syncers
<1> QED
  BY <1>1 DEF Paced, in_flight

\* The record p moves to is current, if p is a sync that can fail.
LEMMA MovesCurrent ==
    ASSUME PushedTyped, Current, NEW p \in Savers, NEW r \in SyncPc, SyncMoves(p, r),
           (p \in Syncers /\ r.at \in {"curl", "save"} /\ ~r.overtaken
              /\ (r.at = "curl" \/ r.previous.failed))
             => r.previous.lists = stored.lists /\ r.previous.dns = stored.dns
    PROVE  Current'
<1>1. sync'[p] = r /\ stored' = stored /\ \A q \in Savers \ {p} : sync'[q] = sync[q]
  BY MovesTyped
<1> SUFFICES ASSUME NEW q \in Syncers, in_flight(q)', ~sync'[q].overtaken,
                    sync'[q].at = "curl" \/ sync'[q].previous.failed
             PROVE  /\ sync'[q].previous.lists = stored'.lists
                    /\ sync'[q].previous.dns = stored'.dns
  BY DEF Current
<1>2. CASE q = p
  BY <1>1, <1>2 DEF in_flight
<1>3. CASE q # p
  <2>1. sync'[q] = sync[q]
    BY <1>1, <1>3 DEF Savers
  <2> QED
    BY <1>1, <2>1 DEF Current, in_flight
<1> QED
  BY <1>2, <1>3

LEMMA RefreshStep == PushedInv /\ refresh_server_routes => PushedInv'
<1> SUFFICES ASSUME PushedInv, refresh_server_routes PROVE PushedInv'
  OBVIOUS
<1> USE DEF PushedInv
<1>1. SyncMoves("watchdog", [at |-> "load"]) /\ "watchdog" \in Savers
  BY DEF refresh_server_routes, SyncMoves, Savers, Syncers
<1>2. PushedTyped'
  BY <1>1, MovesTyped, SyncPcFields DEF PushedTyped, refresh_server_routes
<1>3. Current'
  BY <1>1, MovesCurrent, SyncPcFields
<1>4. Paced'
  <2>1. sync'["watchdog"].at = "load"
    BY <1>1, MovesTyped, SyncPcFields
  <2>2. sync["watchdog"].at = "rest" /\ stored.age >= sync_interval
    BY SyncPcFields DEF refresh_server_routes
  <2>3. stored.age \in Ages /\ since \in Ages /\ since' = since /\ disturbed' = disturbed
    BY DEF PushedTyped, Routing_, refresh_server_routes
  <2>4. ~disturbed => since >= sync_interval
    BY <2>2, <2>3, PushedStoreAssumption DEF Paced, Ages
  <2> QED
    BY <2>1, <2>3, <2>4 DEF Paced, in_flight
<1> QED
  BY <1>2, <1>3, <1>4

LEMMA ManualStep == PushedInv /\ sync_profile => PushedInv'
<1> SUFFICES ASSUME PushedInv, sync_profile PROVE PushedInv'
  OBVIOUS
<1> USE DEF PushedInv
<1>1. SyncMoves("manual", [at |-> "load"]) /\ "manual" \in Savers
  BY DEF sync_profile, SyncMoves, Savers, Syncers
<1>2. PushedTyped'
  BY <1>1, MovesTyped, SyncPcFields DEF PushedTyped, sync_profile
<1>3. Current'
  BY <1>1, MovesCurrent, SyncPcFields
<1>4. Paced'
  BY <1>1, MovesPaced, SyncPcFields DEF sync_profile
<1> QED
  BY <1>2, <1>3, <1>4

LEMMA RequestStep == ASSUME NEW p \in Syncers PROVE PushedInv /\ sync_request(p) => PushedInv'
<1> SUFFICES ASSUME PushedInv, sync_request(p) PROVE PushedInv'
  OBVIOUS
<1> USE DEF PushedInv
<1> DEFINE r == [at |-> "curl", previous |-> stored, age |-> 0, overtaken |-> FALSE]
<1>1. 0 \in Ages
  BY PushedStoreAssumption DEF Ages
<1>2. r \in SyncPc
  BY <1>1 DEF PushedTyped, SyncPc, Flight
<1>3. SyncMoves(p, r) /\ p \in Savers
  BY DEF sync_request, SyncMoves, Savers
<1>4. sync'[p] = r /\ sync' \in [Savers -> SyncPc]
  BY <1>2, <1>3, MovesTyped
<1>5. since' \in Ages /\ disturbed' \in BOOLEAN
  BY <1>1 DEF sync_request, PushedTyped
<1>6. PushedTyped'
  BY <1>4, <1>5 DEF PushedTyped, sync_request
<1>7. r.previous.lists = stored.lists /\ r.previous.dns = stored.dns
  OBVIOUS
<1>8. Current'
  BY <1>2, <1>3, <1>7, MovesCurrent
<1>9. Paced'
  <2>1. CASE p = "watchdog"
    <3>1. since' = 0 /\ sync'["watchdog"].at = "curl" /\ sync'["watchdog"].age = 0
      BY <1>4, <2>1 DEF sync_request
    <3> QED
      BY <3>1 DEF Paced
  <2>2. CASE p # "watchdog"
    BY <1>2, <1>3, <2>2, MovesPaced DEF sync_request
  <2> QED
    BY <2>1, <2>2
<1> QED
  BY <1>6, <1>8, <1>9

\* The answer, or the failure, leaves everything of a request but what it returned.
LEMMA AnsweredStep == ASSUME NEW p \in Syncers PROVE PushedInv /\ sync_answered(p) => PushedInv'
<1> SUFFICES ASSUME PushedInv, sync_answered(p) PROVE PushedInv'
  OBVIOUS
<1> USE DEF PushedInv
<1>1. p \in Savers /\ sync[p] \in Flight /\ sync[p].at = "curl"
  BY SyncPcFields DEF PushedTyped, Savers, sync_answered
<1> DEFINE prev == [sync[p].previous EXCEPT !.lists = published, !.failed = FALSE]
           r == [sync[p] EXCEPT !.at = "save", !.previous = prev]
<1>2. prev \in Routing_ /\ ~prev.failed
  BY <1>1 DEF Flight, Routing_, PushedTyped
<1>3. r \in SyncPc /\ r.at = "save" /\ r.previous = prev /\ r.age = sync[p].age
  BY <1>1, <1>2 DEF Flight, SyncPc
<1>4. SyncMoves(p, r)
  BY DEF sync_answered, returned, SyncMoves
<1>5. sync'[p] = r /\ sync' \in [Savers -> SyncPc]
  BY <1>1, <1>3, <1>4, MovesTyped
<1>6. PushedTyped'
  BY <1>5 DEF PushedTyped, sync_answered
<1>7. Current'
  BY <1>1, <1>2, <1>3, <1>4, MovesCurrent
<1>8. Paced'
  <2>1. CASE p = "watchdog"
    BY <1>1, <1>3, <1>5, <2>1 DEF Paced, in_flight, sync_answered
  <2>2. CASE p # "watchdog"
    BY <1>1, <1>3, <1>4, <2>2, MovesPaced DEF sync_answered
  <2> QED
    BY <2>1, <2>2
<1> QED
  BY <1>6, <1>7, <1>8

LEMMA FailedStep == ASSUME NEW p \in Syncers PROVE PushedInv /\ sync_failed(p) => PushedInv'
<1> SUFFICES ASSUME PushedInv, sync_failed(p) PROVE PushedInv'
  OBVIOUS
<1> USE DEF PushedInv
<1>1. p \in Savers /\ sync[p] \in Flight /\ sync[p].at = "curl"
  BY SyncPcFields DEF PushedTyped, Savers, sync_failed
<1> DEFINE prev == [sync[p].previous EXCEPT !.failed = TRUE]
           r == [sync[p] EXCEPT !.at = "save", !.previous = prev]
<1>2. /\ prev \in Routing_
      /\ prev.lists = sync[p].previous.lists /\ prev.dns = sync[p].previous.dns
  BY <1>1 DEF Flight, Routing_
<1>3. /\ r \in SyncPc /\ r.at = "save" /\ r.previous = prev /\ r.age = sync[p].age
      /\ r.overtaken = sync[p].overtaken
  BY <1>1, <1>2 DEF Flight, SyncPc
<1>4. SyncMoves(p, r)
  BY DEF sync_failed, returned, SyncMoves
<1>5. sync'[p] = r /\ sync' \in [Savers -> SyncPc]
  BY <1>1, <1>3, <1>4, MovesTyped
<1>6. PushedTyped'
  BY <1>5 DEF PushedTyped, sync_failed
<1>7. ~sync[p].overtaken => /\ sync[p].previous.lists = stored.lists
                            /\ sync[p].previous.dns = stored.dns
  BY <1>1 DEF Current, in_flight
<1>8. Current'
  BY <1>1, <1>2, <1>3, <1>4, <1>7, MovesCurrent
<1>9. Paced'
  <2>1. CASE p = "watchdog"
    BY <1>1, <1>3, <1>5, <2>1 DEF Paced, in_flight, sync_failed
  <2>2. CASE p # "watchdog"
    BY <1>1, <1>3, <1>4, <2>2, MovesPaced DEF sync_failed
  <2> QED
    BY <2>1, <2>2
<1> QED
  BY <1>6, <1>8, <1>9

\* A save: what the other processes hold is overtaken.
LEMMA SaveStep ==
    ASSUME PushedInv, NEW p \in Savers, NEW routing \in Routing_, save(p, routing),
           p = "watchdog" /\ ~disturbed => routing.age <= since
    PROVE  PushedInv'
<1> USE DEF PushedInv
<1>1. \A q \in Savers : in_flight(q) => sync[q] \in Flight
  BY SyncPcFields DEF PushedTyped, in_flight
<1>2. sync'[p] = Resting
  BY DEF save
<1>3. \A q \in Savers \ {p} :
        /\ in_flight(q) => sync'[q] = [sync[q] EXCEPT !.overtaken = TRUE]
        /\ ~in_flight(q) => sync'[q] = sync[q]
  BY DEF save
<1>4. \A q \in Savers \ {p} :
        /\ in_flight(q) => /\ sync'[q] \in Flight /\ sync'[q].overtaken
                           /\ sync'[q].at = sync[q].at /\ sync'[q].age = sync[q].age
        /\ ~in_flight(q) => sync'[q] = sync[q]
  <2> TAKE q \in Savers \ {p}
  <2>1. ASSUME in_flight(q)
        PROVE  /\ sync'[q] \in Flight /\ sync'[q].overtaken
               /\ sync'[q].at = sync[q].at /\ sync'[q].age = sync[q].age
    <3>1. sync[q] \in Flight
      BY <1>1, <2>1
    <3>2. sync'[q] = [sync[q] EXCEPT !.overtaken = TRUE]
      BY <1>3, <2>1
    <3>3. \A r \in Flight :
            LET o == [r EXCEPT !.overtaken = TRUE]
            IN  o \in Flight /\ o.overtaken /\ o.at = r.at /\ o.age = r.age
      BY DEF Flight
    <3> QED
      BY <3>1, <3>2, <3>3
  <2> QED
    BY <1>3, <2>1
<1>5. sync' \in [Savers -> SyncPc]
  <2>1. \A q \in Savers : sync'[q] \in SyncPc
    BY <1>2, <1>4, SyncPcFields DEF PushedTyped, SyncPc
  <2>2. sync' = [q \in Savers |-> sync'[q]]
    BY DEF save
  <2> QED
    BY <2>1, <2>2
<1>6. PushedTyped'
  BY <1>5 DEF PushedTyped, save
<1>7. Current'
  <2> SUFFICES ASSUME NEW q \in Syncers, in_flight(q)' PROVE sync'[q].overtaken
    BY DEF Current
  <2>1. q # p /\ q \in Savers
    BY <1>2, SyncPcFields DEF in_flight, Savers
  <2>2. in_flight(q)
    BY <1>4, <2>1 DEF in_flight
  <2> QED
    BY <1>4, <2>1, <2>2
<1>8. Paced'
  <2>1. CASE p = "watchdog"
    <3>1. sync'["watchdog"].at = "rest" /\ stored' = routing /\ since' = since
      BY <1>2, <2>1, SyncPcFields DEF save
    <3>2. ~disturbed' => ~disturbed
      BY DEF save, PushedTyped
    <3> QED
      BY <2>1, <3>1, <3>2 DEF Paced, in_flight
  <2>2. CASE p # "watchdog"
    BY <2>2 DEF Paced, save
  <2> QED
    BY <2>1, <2>2
<1> QED
  BY <1>6, <1>7, <1>8

LEMMA SyncSaveStep == ASSUME NEW p \in Syncers PROVE PushedInv /\ sync_save(p) => PushedInv'
<1> SUFFICES ASSUME PushedInv, sync_save(p) PROVE PushedInv'
  OBVIOUS
<1>1. p \in Savers /\ sync[p] \in Flight /\ sync[p].at = "save"
  BY SyncPcFields DEF PushedInv, PushedTyped, Savers, sync_save
<1> DEFINE routing == [sync[p].previous EXCEPT !.age = sync[p].age]
<1>2. routing \in Routing_ /\ routing.age = sync[p].age
  BY <1>1 DEF Flight, Routing_
<1>3. p = "watchdog" /\ ~disturbed => routing.age <= since
  BY <1>1, <1>2 DEF PushedInv, Paced, in_flight
<1>4. save(p, routing)
  BY DEF sync_save
<1> HIDE DEF routing
<1> QED
  BY <1>1, <1>2, <1>3, <1>4, SaveStep

LEMMA HandshakeStep == PushedInv /\ save_handshake => PushedInv'
<1> SUFFICES ASSUME PushedInv, save_handshake PROVE PushedInv'
  OBVIOUS
<1>1. "hook" \in Savers /\ sync["hook"] \in Flight
  BY SyncPcFields DEF PushedInv, PushedTyped, Savers, save_handshake
<1> DEFINE routing == [sync["hook"].previous EXCEPT !.age = sync["hook"].age]
<1>2. routing \in Routing_
  BY <1>1 DEF Flight, Routing_
<1>3. save("hook", routing)
  BY DEF save_handshake
<1> HIDE DEF routing
<1> QED
  BY <1>1, <1>2, <1>3, SaveStep

LEMMA HookLoadStep ==
    ASSUME NEW lists \in Lists, NEW dns \in Resolvers
    PROVE  PushedInv /\ hook_load(lists, dns) => PushedInv'
<1> SUFFICES ASSUME PushedInv, hook_load(lists, dns) PROVE PushedInv'
  OBVIOUS
<1> USE DEF PushedInv
<1> DEFINE prev == [lists |-> lists, dns |-> dns, age |-> stored.age, failed |-> FALSE]
           r == [at |-> "save", age |-> stored.age, overtaken |-> FALSE, previous |-> prev]
<1>1. stored.age \in Ages
  BY DEF PushedTyped, Routing_
<1>2. prev \in Routing_
  BY <1>1 DEF Routing_
<1>3. r \in SyncPc /\ "hook" \in Savers /\ "hook" \notin Syncers
  BY <1>1, <1>2 DEF SyncPc, Flight, Savers, Syncers
<1>4. SyncMoves("hook", r)
  BY DEF hook_load, SyncMoves
<1>5. PushedTyped'
  BY <1>3, <1>4, MovesTyped DEF PushedTyped, hook_load
<1>6. Current'
  BY <1>3, <1>4, MovesCurrent
<1>7. Paced'
  BY <1>3, <1>4, MovesPaced DEF hook_load
<1> QED
  BY <1>5, <1>6, <1>7

\* Time: every age grows, and keeps its place below the age of the last request.
LEMMA TickStep == PushedInv /\ SyncTick => PushedInv'
<1> SUFFICES ASSUME PushedInv, SyncTick PROVE PushedInv'
  OBVIOUS
<1> USE DEF PushedInv
<1>1. /\ stored' \in Routing_ /\ stored'.age = older(stored.age)
      /\ stored'.lists = stored.lists /\ stored'.dns = stored.dns
      /\ stored.age \in Ages
  BY OlderTyped DEF SyncTick, PushedTyped, Routing_
<1>2. since' = older(since) /\ since' \in Ages
  BY OlderTyped DEF SyncTick, PushedTyped
<1>3. \A q \in Savers :
        /\ in_flight(q) => /\ sync[q] \in Flight /\ sync'[q] \in Flight
                           /\ sync'[q].at = sync[q].at
                           /\ sync'[q].age = older(sync[q].age)
                           /\ sync'[q].previous = sync[q].previous
                           /\ sync'[q].overtaken = sync[q].overtaken
        /\ ~in_flight(q) => sync'[q] = sync[q]
  <2> TAKE q \in Savers
  <2>1. ~in_flight(q) => sync'[q] = sync[q]
    BY DEF SyncTick
  <2>2. in_flight(q) => sync[q] \in Flight /\ sync'[q] = [sync[q] EXCEPT !.age = older(sync[q].age)]
    BY SyncPcFields DEF SyncTick, PushedTyped, in_flight
  <2>3. \A r \in Flight :
          LET o == [r EXCEPT !.age = older(r.age)]
          IN  /\ o \in Flight /\ o.at = r.at /\ o.age = older(r.age)
              /\ o.previous = r.previous /\ o.overtaken = r.overtaken
    BY OlderTyped DEF Flight
  <2> QED
    BY <2>1, <2>2, <2>3
<1>4. sync' \in [Savers -> SyncPc]
  <2>1. \A q \in Savers : sync'[q] \in SyncPc
    BY <1>3 DEF PushedTyped, SyncPc
  <2>2. sync' = [q \in Savers |-> sync'[q]]
    BY DEF SyncTick
  <2> QED
    BY <2>1, <2>2
<1>5. PushedTyped'
  BY <1>1, <1>2, <1>4 DEF PushedTyped, SyncTick
<1>6. \A q \in Savers : sync'[q].at = sync[q].at
  BY <1>3
<1>7. Current'
  <2> SUFFICES ASSUME NEW q \in Syncers, in_flight(q)', ~sync'[q].overtaken,
                      sync'[q].at = "curl" \/ sync'[q].previous.failed
               PROVE  /\ sync'[q].previous.lists = stored'.lists
                      /\ sync'[q].previous.dns = stored'.dns
    BY DEF Current
  <2>1. q \in Savers /\ in_flight(q)
    BY <1>6 DEF in_flight, Savers
  <2>2. /\ sync'[q].at = sync[q].at /\ sync'[q].previous = sync[q].previous
        /\ sync'[q].overtaken = sync[q].overtaken
    BY <1>3, <2>1
  <2> QED
    BY <1>1, <2>1, <2>2 DEF Current
<1>8. Paced'
  <2> SUFFICES ASSUME ~disturbed'
               PROVE  /\ sync'["watchdog"].at = "rest" => stored'.age <= since'
                      /\ sync'["watchdog"].at = "load" => since' >= sync_interval
                      /\ in_flight("watchdog")' => sync'["watchdog"].age <= since'
    BY DEF Paced
  <2>1. ~disturbed /\ "watchdog" \in Savers /\ since \in Ages
    BY DEF SyncTick, Savers, Syncers, PushedTyped
  <2>2. sync'["watchdog"].at = "rest" => stored'.age <= since'
    BY <1>1, <1>2, <1>6, <2>1, OlderTyped DEF Paced
  <2>3. sync'["watchdog"].at = "load" => since' >= sync_interval
    BY <1>2, <1>6, <2>1, OlderTyped DEF Paced
  <2>4. in_flight("watchdog")' => sync'["watchdog"].age <= since'
    <3>1. in_flight("watchdog")' => in_flight("watchdog")
      BY <1>6, <2>1 DEF in_flight
    <3>2. in_flight("watchdog") => sync["watchdog"].age \in Ages /\ sync["watchdog"].age <= since
      BY <1>3, <2>1 DEF Paced, Flight
    <3> QED
      BY <1>2, <1>3, <2>1, <3>1, <3>2, OlderTyped
  <2> QED
    BY <2>2, <2>3, <2>4
<1> QED
  BY <1>5, <1>7, <1>8

\* The server, the tunnel and a killed watchdog do not touch the file.
LEMMA KilledStep == PushedInv /\ watchdog_killed => PushedInv'
<1> SUFFICES ASSUME PushedInv, watchdog_killed PROVE PushedInv'
  OBVIOUS
<1> USE DEF PushedInv
<1>1. SyncMoves("watchdog", Resting) /\ "watchdog" \in Savers
  BY DEF watchdog_killed, SyncMoves, Savers, Syncers
<1>2. PushedTyped'
  BY <1>1, MovesTyped, SyncPcFields DEF PushedTyped, watchdog_killed
<1>3. Current'
  BY <1>1, MovesCurrent, SyncPcFields
<1>4. Paced'
  <2>0. sync'["watchdog"] = Resting /\ Resting.at = "rest"
    BY <1>1, MovesTyped, SyncPcFields DEF Resting
  <2> SUFFICES ASSUME ~disturbed' PROVE stored'.age <= since'
    BY <2>0 DEF Paced, in_flight
  <2>1. /\ ~disturbed /\ ~in_flight("watchdog") /\ stored' = stored /\ since' = since
        /\ sync["watchdog"] \in SyncPc
    BY <1>1 DEF watchdog_killed, PushedTyped
  <2>2. sync["watchdog"].at \in {"rest", "load"}
    BY <2>1, SyncPcFields DEF in_flight
  <2>3. sync["watchdog"].at = "rest" => stored.age <= since
    BY <2>1 DEF Paced
  <2>4. sync["watchdog"].at = "load" => since >= sync_interval
    BY <2>1 DEF Paced
  <2>5. stored.age \in Ages /\ since \in Ages
    BY DEF PushedTyped, Routing_
  <2> QED
    BY <2>1, <2>2, <2>3, <2>4, <2>5, PushedStoreAssumption DEF Ages
<1> QED
  BY <1>2, <1>3, <1>4

LEMMA PublishStep ==
    ASSUME PushedInv, published' \in Lists, online' \in BOOLEAN,
           UNCHANGED <<stored, sync, since, disturbed>>
    PROVE  PushedInv'
BY DEF PushedInv, PushedTyped, Paced, Current, in_flight

LEMMA PushedInvStep == PushedInv /\ [PushedNext]_pushedVars => PushedInv'
<1> SUFFICES ASSUME PushedInv, [PushedNext]_pushedVars PROVE PushedInv'
  OBVIOUS
<1>1. ASSUME NEW p \in Syncers, SyncStep(p) PROVE PushedInv'
  BY <1>1, RequestStep, AnsweredStep, FailedStep, SyncSaveStep DEF SyncStep
<1>2. ASSUME NEW lists \in Lists, server_publishes(lists) PROVE PushedInv'
  BY <1>2, PublishStep DEF server_publishes, PushedInv, PushedTyped
<1>3. CASE tunnel_lost \/ tunnel_back
  BY <1>3, PublishStep DEF tunnel_lost, tunnel_back, PushedInv, PushedTyped
<1>4. CASE UNCHANGED pushedVars
  BY <1>4, PublishStep DEF pushedVars, PushedInv, PushedTyped
<1> QED
  BY <1>1, <1>2, <1>3, <1>4, RefreshStep, ManualStep, HookLoadStep, HandshakeStep, TickStep,
     KilledStep DEF PushedNext

\* Fairness plays no part in what the store keeps.
LEMMA PushedInvHolds == PushedInit /\ [][PushedNext]_pushedVars => []PushedInv
BY PushedInvInit, PushedInvStep, PTL

-----------------------------------------------------------------------------

LEMMA PushedInvTypes == PushedInv => PushedTypeOK
<1> SUFFICES ASSUME PushedInv PROVE PushedTypeOK
  OBVIOUS
<1>1. \A p \in Savers : sync[p] \in SyncPc
  BY DEF PushedInv, PushedTyped
<1>2. ASSUME NEW p \in Savers, in_flight(p)
      PROVE  sync[p].previous \in Routing_ /\ sync[p].age \in Ages
  BY <1>1, <1>2, SyncPcFields DEF in_flight, Flight
<1> QED
  BY <1>1, <1>2, SyncPcFields DEF PushedInv, PushedTyped, PushedTypeOK

(* The file and every record in flight stay pushed routing with ages within  *)
(* sync_interval, whatever loads and saves the three processes interleave.   *)
THEOREM PushedTypeCorrect == PushedSpec => []PushedTypeOK
BY PushedInvTypes, PushedInvHolds, PTL DEF PushedSpec

\* Which steps send the watchdog's request.
LEMMA RequestIsPaced ==
    PushedInv /\ [PushedNext]_pushedVars =>
        (sync["watchdog"].at = "load" /\ sync'["watchdog"].at = "curl"
            => since >= sync_interval \/ disturbed)
BY DEF PushedInv, Paced

LEMMA RequestsArePaced == PushedInit /\ [][PushedNext]_pushedVars => PacedSync
BY PushedInvHolds, RequestIsPaced, PTL DEF PacedSync

(* refresh_server_routes keeps sync_interval between two requests: for every *)
(* interval, however often the watchdog ticks, the server fails or time      *)
(* passes while a request is under way.                                      *)
THEOREM PacedSyncHolds == PushedSpec => PacedSync
BY RequestsArePaced, PTL DEF PushedSpec

\* A sync that ends in a save was that process's own save, or the watchdog was killed.
LEMMA FailureKeeps ==
    ASSUME PushedInv, [PushedNext]_pushedVars, NEW p \in Syncers,
           sync[p].at = "save", sync'[p] = Resting, sync[p].previous.failed,
           ~sync[p].overtaken
    PROVE  stored'.lists = stored.lists /\ stored'.dns = stored.dns
<1>1. p \in Savers /\ sync[p] \in Flight /\ sync[p] # Resting
  BY SyncPcFields DEF PushedInv, PushedTyped, Savers
<1>2. sync[p].previous.lists = stored.lists /\ sync[p].previous.dns = stored.dns
  BY DEF PushedInv, Current, in_flight
<1>3. CASE stored' = stored
  BY <1>3
<1>4. ASSUME NEW q \in Savers, NEW routing, save(q, routing), q # p PROVE FALSE
  <2>1. sync'[p] = [sync[p] EXCEPT !.overtaken = TRUE]
    BY <1>1, <1>4 DEF save, in_flight
  <2>2. sync'[p].at = "save"
    BY <1>1, <2>1 DEF Flight
  <2> QED
    BY <2>2, SyncPcFields
<1>5. CASE sync_save(p)
  <2>1. stored' = [sync[p].previous EXCEPT !.age = sync[p].age] /\ sync[p].previous \in Routing_
    BY <1>1, <1>5 DEF sync_save, save, Flight
  <2> QED
    BY <1>2, <2>1 DEF Routing_
<1>6. ASSUME NEW q \in Syncers, q # p, sync_save(q) PROVE FALSE
  BY <1>4, <1>6 DEF sync_save, Savers
<1>7. CASE save_handshake
  BY <1>4, <1>7 DEF save_handshake, Savers, Syncers
<1>8. CASE SyncTick
  BY <1>8 DEF SyncTick, PushedInv, PushedTyped, Routing_
<1>9. ASSUME NEW q \in Syncers, SyncStep(q), ~sync_save(q) PROVE stored' = stored
  BY <1>9 DEF SyncStep, sync_request, sync_answered, sync_failed
<1>10. CASE UNCHANGED pushedVars
  BY <1>10 DEF pushedVars
<1>11. CASE refresh_server_routes \/ sync_profile \/ tunnel_lost \/ tunnel_back \/ watchdog_killed
  BY <1>11 DEF refresh_server_routes, sync_profile, tunnel_lost, tunnel_back, watchdog_killed
<1>12. ASSUME NEW lists \in Lists, server_publishes(lists) PROVE stored' = stored
  BY <1>12 DEF server_publishes
<1>13. ASSUME NEW lists \in Lists, NEW dns \in Resolvers, hook_load(lists, dns)
       PROVE stored' = stored
  BY <1>13 DEF hook_load
<1> QED
  BY <1>3, <1>5, <1>6, <1>7, <1>8, <1>9, <1>10, <1>11, <1>12, <1>13 DEF PushedNext

LEMMA FailuresKeepLists == PushedInit /\ [][PushedNext]_pushedVars => FailedSyncKeepsLists
<1>1. PushedInv /\ [PushedNext]_pushedVars =>
        [\A p \in Syncers :
            (sync[p].at = "save" /\ sync'[p] = Resting /\ sync[p].previous.failed
                /\ ~sync[p].overtaken)
              => stored'.lists = stored.lists /\ stored'.dns = stored.dns]_pushedVars
  BY FailureKeeps
<1> QED
  BY <1>1, PushedInvHolds, PTL DEF FailedSyncKeepsLists

(* A failed sync_server_routes stores the lists and resolvers it found,      *)
(* unless a handshake or another sync saved the file while it waited.        *)
THEOREM FailedSyncKeepsListsHolds == PushedSpec => FailedSyncKeepsLists
BY FailuresKeepLists, PTL DEF PushedSpec
=============================================================================
