----------------------------- MODULE DaemonProofs -----------------------------
(***************************************************************************)
(* Theorems about two parts of the daemons run: the terminals, for any     *)
(* number of tickets, connections and racing registries, any limit and any *)
(* length of time; and the marks and tables of any number of profiles.     *)
(***************************************************************************)
EXTENDS MCDaemons, HostDnsProofs, PushedStoreProofs, FiniteSetTheorems, TLAPS

-----------------------------------------------------------------------------
(* Terminals *)

Conn == [at : {"new", "refused", "accept", "lost", "run", "close", "term", "release", "done"},
         ticket : Tickets \cup {NoTicket},
         r : Registries \cup {NoTerminal},
         shell : {"none", "alive", "exited", "reaped", "killed"},
         client : {"live", "gone"}, exited : BOOLEAN]

Before == {"new", "refused"}    \* no slot taken yet, or never

\* Slots are counted, and open tickets fit beside them.
Slots ==
    \A r \in Registries :
        /\ active_sessions[r] = Cardinality(Holding(r))
        /\ active_sessions[r] + Cardinality(tickets(r)) <= max_sessions

\* A token is open in one registry or used by one connection, and was issued.
Single ==
    /\ \A r \in Registries, t \in Tickets : expires_at[r][t] > 0 =>
            /\ t \in issued
            /\ \A c \in Conns : conn[c].ticket # t
            /\ \A q \in Registries : expires_at[q][t] > 0 => q = r
    /\ \A c \in Conns : conn[c].at \in Before => conn[c].ticket = NoTicket /\ conn[c].r = NoTerminal
    /\ \A c \in Conns : conn[c].ticket # NoTicket => conn[c].ticket \in issued
    /\ \A c, d \in Conns : conn[c].ticket = conn[d].ticket /\ conn[c].ticket # NoTicket => c = d

\* A shell runs between the fork and the end of its handler.
ShellOf(k) ==
    /\ k.shell = "alive" => k.at \in {"run", "close", "term"}
    /\ k.exited => k.shell = "reaped" /\ k.at \in {"close", "release", "done"}
Shells == \A c \in Conns : ShellOf(conn[c])

TermInv == TermTypeOK /\ Slots /\ Single /\ Shells

-----------------------------------------------------------------------------

LEMMA ConnTyped ==
    ASSUME TermTypeOK, NEW c \in Conns
    PROVE  conn[c] \in Conn
BY DEF TermTypeOK, Conn

LEMMA FiniteParts ==
    ASSUME NEW r \in Registries
    PROVE  /\ IsFiniteSet(Holding(r)) /\ IsFiniteSet(tickets(r))
           /\ Cardinality(Holding(r)) \in Nat /\ Cardinality(tickets(r)) \in Nat
<1>1. Holding(r) \in SUBSET Conns /\ tickets(r) \in SUBSET Tickets
  BY DEF Holding, tickets
<1>2. IsFiniteSet(Holding(r)) /\ IsFiniteSet(tickets(r))
  BY <1>1, FS_Subset, TerminalAssumption
<1> QED
  BY <1>2, FS_CardinalityType

LEMMA TermInvInit == TermInit => TermInv
<1> SUFFICES ASSUME TermInit PROVE TermInv
  OBVIOUS
<1>1. \A c \in Conns : conn[c] = NewConn
  BY DEF TermInit
<1>2. TermTypeOK
  BY <1>1, TerminalAssumption DEF TermInit, TermTypeOK, NewConn
<1>3. \A r \in Registries : Holding(r) = {} /\ tickets(r) = {}
  BY <1>1 DEF TermInit, Holding, Ended, tickets, NewConn
<1>4. Slots
  BY <1>3, FS_EmptySet, TerminalAssumption DEF Slots, TermInit
<1>5. Single /\ Shells
  BY <1>1 DEF Single, Shells, ShellOf, NewConn, TermInit, Before
<1> QED
  BY <1>2, <1>4, <1>5 DEF TermInv

-----------------------------------------------------------------------------
(* A handler that holds a slot goes on *)

LEMMA HandlerMoves ==
    ASSUME TermInv, NEW c \in Conns, NEW k \in Conn,
           conn' = [conn EXCEPT ![c] = k],
           conn[c].at \notin Ended, k.at \notin Ended,
           k.r = conn[c].r, k.ticket = conn[c].ticket, ShellOf(k),
           UNCHANGED <<term_now, terminal_enabled, registryVars>>
    PROVE  TermInv'
<1> USE DEF registryVars
<1>1. conn'[c] = k /\ \A d \in Conns \ {c} : conn'[d] = conn[d]
  BY DEF TermInv, TermTypeOK
<1>2. \A d \in Conns : /\ conn'[d].r = conn[d].r /\ conn'[d].ticket = conn[d].ticket
                       /\ conn'[d].at \in Ended <=> conn[d].at \in Ended
                       /\ conn'[d].at \in Before <=> conn[d].at \in Before
  BY <1>1 DEF Ended, Before
<1>3. conn' \in [Conns -> Conn]
  BY DEF TermInv, TermTypeOK, Conn
<1>4. TermTypeOK'
  BY <1>2, <1>3 DEF TermInv, TermTypeOK, Conn, Before
<1>5. \A r \in Registries : Holding(r)' = Holding(r) /\ tickets(r)' = tickets(r)
  BY <1>2 DEF Holding, tickets
<1>6. Slots'
  BY <1>5 DEF TermInv, Slots
<1>7. Single'
  BY <1>2 DEF TermInv, Single
<1>8. Shells'
  BY <1>1 DEF TermInv, Shells
<1> QED
  BY <1>4, <1>6, <1>7, <1>8 DEF TermInv

LEMMA AcceptStep ==
    ASSUME TermInv, NEW c \in Conns, NEW ok \in BOOLEAN, NEW forked \in BOOLEAN,
           accept(c, ok, forked)
    PROVE  TermInv'
<1>1. conn[c] \in Conn /\ conn[c].at = "accept" /\ ShellOf(conn[c])
  BY ConnTyped DEF TermInv, Shells, accept
<1>2. UNCHANGED <<term_now, terminal_enabled, registryVars>>
  BY DEF accept
<1>3. ASSUME NEW at \in {"lost", "release"}, conn' = [conn EXCEPT ![c] = [conn[c] EXCEPT !.at = at]]
      PROVE  TermInv'
  <2> DEFINE k == [conn[c] EXCEPT !.at = at]
  <2>1. k \in Conn /\ k.at = at /\ k.r = conn[c].r /\ k.ticket = conn[c].ticket
        /\ k.shell = conn[c].shell /\ k.exited = conn[c].exited
    BY <1>1 DEF Conn
  <2>2. ShellOf(k)
    BY <1>1, <2>1 DEF ShellOf
  <2> QED
    BY <1>1, <1>2, <1>3, <2>1, <2>2, HandlerMoves DEF Ended
<1>4. ASSUME conn' = [conn EXCEPT ![c] = [conn[c] EXCEPT !.at = "run", !.shell = "alive"]]
      PROVE  TermInv'
  <2> DEFINE k == [conn[c] EXCEPT !.at = "run", !.shell = "alive"]
  <2>1. k \in Conn /\ k.at = "run" /\ k.r = conn[c].r /\ k.ticket = conn[c].ticket
        /\ k.shell = "alive" /\ k.exited = conn[c].exited
    BY <1>1 DEF Conn
  <2>2. ShellOf(k)
    BY <1>1, <2>1 DEF ShellOf
  <2> QED
    BY <1>1, <1>2, <1>4, <2>1, <2>2, HandlerMoves DEF Ended
<1> QED
  BY <1>3, <1>4 DEF accept

LEMMA HandlerSteps ==
    ASSUME TermInv, NEW c \in Conns,
           \/ reap(c) \/ reader_ends(c) \/ writer_ends(c) \/ close_pty(c)
           \/ shell_exits(c) \/ client_leaves(c)
    PROVE  TermInv'
<1>1. conn[c] \in Conn /\ ShellOf(conn[c])
  BY ConnTyped DEF TermInv, Shells
<1>2. UNCHANGED <<term_now, terminal_enabled, registryVars>>
  BY DEF reap, reader_ends, writer_ends, close_pty, shell_exits, client_leaves
<1>3. CASE reap(c)
  <2> DEFINE k == [conn[c] EXCEPT !.shell = "reaped"]
  <2>1. k \in Conn /\ k.at = conn[c].at /\ k.r = conn[c].r /\ k.ticket = conn[c].ticket
        /\ k.shell = "reaped" /\ k.exited = conn[c].exited
    BY <1>1 DEF Conn
  <2>2. conn[c].at = "run" /\ conn' = [conn EXCEPT ![c] = k]
    BY <1>3 DEF reap
  <2> QED
    BY <1>1, <1>2, <2>1, <2>2, HandlerMoves DEF Ended, ShellOf
<1>4. CASE reader_ends(c)
  <2> DEFINE k == [conn[c] EXCEPT !.at = "close", !.exited = TRUE, !.client = "gone"]
  <2>1. k \in Conn /\ k.at = "close" /\ k.r = conn[c].r /\ k.ticket = conn[c].ticket
        /\ k.shell = conn[c].shell
    BY <1>1 DEF Conn
  <2>2. conn[c].at = "run" /\ conn[c].shell = "reaped" /\ conn' = [conn EXCEPT ![c] = k]
    BY <1>4 DEF reader_ends
  <2> QED
    BY <1>2, <2>1, <2>2, HandlerMoves DEF Ended, ShellOf
<1>5. CASE writer_ends(c)
  <2> DEFINE k == [conn[c] EXCEPT !.at = "close", !.client = "gone"]
  <2>1. k \in Conn /\ k.at = "close" /\ k.r = conn[c].r /\ k.ticket = conn[c].ticket
        /\ k.shell = conn[c].shell /\ k.exited = conn[c].exited
    BY <1>1 DEF Conn
  <2>2. conn[c].at = "run" /\ conn' = [conn EXCEPT ![c] = k]
    BY <1>5 DEF writer_ends
  <2> QED
    BY <1>1, <1>2, <2>1, <2>2, HandlerMoves DEF Ended, ShellOf
<1>6. CASE close_pty(c)
  <2>1. PICK at \in {"release", "term"} :
          at = IF conn[c].exited THEN "release" ELSE "term"
    OBVIOUS
  <2> DEFINE k == [conn[c] EXCEPT !.at = at]
  <2>2. k \in Conn /\ k.at = at /\ k.r = conn[c].r /\ k.ticket = conn[c].ticket
        /\ k.shell = conn[c].shell /\ k.exited = conn[c].exited
    BY <1>1 DEF Conn
  <2>3. conn[c].at = "close" /\ conn' = [conn EXCEPT ![c] = k]
    BY <1>6, <2>1 DEF close_pty
  <2>4. ShellOf(k)
    BY <1>1, <2>1, <2>2 DEF ShellOf
  <2> QED
    BY <1>2, <2>2, <2>3, <2>4, HandlerMoves DEF Ended
<1>7. CASE shell_exits(c)
  <2> DEFINE k == [conn[c] EXCEPT !.shell = "exited"]
  <2>1. k \in Conn /\ k.at = conn[c].at /\ k.r = conn[c].r /\ k.ticket = conn[c].ticket
        /\ k.shell = "exited" /\ k.exited = conn[c].exited
    BY <1>1 DEF Conn
  <2>2. conn[c].shell = "alive" /\ conn' = [conn EXCEPT ![c] = k]
    BY <1>7 DEF shell_exits
  <2>3. conn[c].at \in {"run", "close", "term"} /\ ~conn[c].exited
    BY <1>1, <2>2 DEF ShellOf
  <2> QED
    BY <1>2, <2>1, <2>2, <2>3, HandlerMoves DEF Ended, ShellOf
<1>8. CASE client_leaves(c)
  <2> DEFINE k == [conn[c] EXCEPT !.client = "gone"]
  <2>1. k \in Conn /\ k.at = conn[c].at /\ k.r = conn[c].r /\ k.ticket = conn[c].ticket
        /\ k.shell = conn[c].shell /\ k.exited = conn[c].exited
    BY <1>1 DEF Conn
  <2>2. conn[c].at = "run" /\ conn' = [conn EXCEPT ![c] = k]
    BY <1>8 DEF client_leaves
  <2> QED
    BY <1>1, <1>2, <2>1, <2>2, HandlerMoves DEF Ended, ShellOf
<1> QED
  BY <1>3, <1>4, <1>5, <1>6, <1>7, <1>8

LEMMA TerminateStep ==
    ASSUME TermInv, NEW c \in Conns, NEW gave_up \in BOOLEAN, _terminate_child(c, gave_up)
    PROVE  TermInv'
<1>1. conn[c] \in Conn /\ ShellOf(conn[c]) /\ conn[c].at = "term"
  BY ConnTyped DEF TermInv, Shells, _terminate_child
<1>2. PICK shell \in {"killed", "reaped"} : shell = IF gave_up THEN "killed" ELSE "reaped"
  OBVIOUS
<1> DEFINE k == [conn[c] EXCEPT !.at = "release", !.shell = shell]
<1>3. k \in Conn /\ k.at = "release" /\ k.r = conn[c].r /\ k.ticket = conn[c].ticket
      /\ k.shell = shell /\ k.exited = conn[c].exited
  BY <1>1 DEF Conn
<1>4. conn' = [conn EXCEPT ![c] = k] /\ UNCHANGED <<term_now, terminal_enabled, registryVars>>
  BY <1>2 DEF _terminate_child
<1>6. CASE ~conn[c].exited
  BY <1>1, <1>3, <1>4, <1>6, HandlerMoves DEF Ended, ShellOf
<1>7. CASE conn[c].exited
  BY <1>1, <1>3, <1>4, <1>7, HandlerMoves DEF Ended, ShellOf
<1> QED
  BY <1>6, <1>7

-----------------------------------------------------------------------------
(* Steps that take or give back a slot, or touch tickets *)

\* The connections that hold a slot of r when only c moves.
LEMMA HoldingMoves ==
    ASSUME TermTypeOK, NEW c \in Conns, NEW k \in Conn, conn' = [conn EXCEPT ![c] = k]
    PROVE  \A r \in Registries :
             /\ (k.r = r /\ k.at \notin Ended) => Holding(r)' = Holding(r) \cup {c}
             /\ ~(k.r = r /\ k.at \notin Ended) => Holding(r)' = Holding(r) \ {c}
<1>1. conn'[c] = k /\ \A d \in Conns \ {c} : conn'[d] = conn[d]
  BY DEF TermTypeOK
<1> QED
  BY <1>1 DEF Holding

\* A pruned ticket is one that was open.
LEMMA PruneOpen ==
    ASSUME TermTypeOK, NEW r \in Registries
    PROVE  /\ _prune_tickets(r) \in [Tickets -> Nat]
           /\ \A t \in Tickets : _prune_tickets(r)[t] > 0 => expires_at[r][t] > 0
BY DEF TermTypeOK, _prune_tickets

\* Fewer open tickets in one registry, the others as they were.
LEMMA FewerTickets ==
    ASSUME TermInv, NEW r \in Registries, NEW kept \in [Tickets -> Nat],
           \A t \in Tickets : kept[t] > 0 => expires_at[r][t] > 0,
           expires_at' = [expires_at EXCEPT ![r] = kept]
    PROVE  /\ expires_at' \in [Registries -> [Tickets -> Nat]]
           /\ \A q \in Registries : /\ tickets(q)' \subseteq tickets(q)
                                    /\ Cardinality(tickets(q)') <= Cardinality(tickets(q))
                                    /\ Cardinality(tickets(q)') \in Nat
           /\ \A q \in Registries, t \in Tickets : expires_at'[q][t] > 0 => expires_at[q][t] > 0
           /\ expires_at'[r] = kept
<1>1. expires_at \in [Registries -> [Tickets -> Nat]]
  BY DEF TermInv, TermTypeOK
<1>2. /\ expires_at'[r] = kept /\ \A q \in Registries \ {r} : expires_at'[q] = expires_at[q]
      /\ expires_at' \in [Registries -> [Tickets -> Nat]]
  BY <1>1
<1>3. \A q \in Registries, t \in Tickets : expires_at'[q][t] > 0 => expires_at[q][t] > 0
  BY <1>2
<1>4. ASSUME NEW q \in Registries
      PROVE  /\ tickets(q)' \subseteq tickets(q)
             /\ Cardinality(tickets(q)') <= Cardinality(tickets(q))
             /\ Cardinality(tickets(q)') \in Nat
  <2>1. tickets(q)' \subseteq tickets(q)
    BY <1>3 DEF tickets
  <2>2. IsFiniteSet(tickets(q)') /\ Cardinality(tickets(q)') <= Cardinality(tickets(q))
    BY <2>1, FiniteParts, FS_Subset
  <2> QED
    BY <2>1, <2>2, FS_CardinalityType
<1> QED
  BY <1>2, <1>3, <1>4

LEMMA RefusedIssue ==
    ASSUME TermInv, NEW r \in Registries,
           expires_at' = [expires_at EXCEPT ![r] = _prune_tickets(r)],
           UNCHANGED <<term_now, terminal_enabled, terminal_registry, making, active_sessions,
                       issued, conn>>
    PROVE  TermInv'
<1>1. /\ expires_at' \in [Registries -> [Tickets -> Nat]]
      /\ \A q \in Registries : /\ Cardinality(tickets(q)') <= Cardinality(tickets(q))
                               /\ Cardinality(tickets(q)') \in Nat
      /\ \A q \in Registries, t \in Tickets : expires_at'[q][t] > 0 => expires_at[q][t] > 0
  BY FewerTickets, PruneOpen DEF TermInv
<1>2. TermTypeOK'
  BY <1>1 DEF TermInv, TermTypeOK
<1>3. \A q \in Registries : Holding(q)' = Holding(q)
  BY DEF Holding
<1>4. Slots'
  <2> SUFFICES ASSUME NEW q \in Registries
               PROVE  /\ active_sessions'[q] = Cardinality(Holding(q)')
                      /\ active_sessions'[q] + Cardinality(tickets(q)') <= max_sessions
    BY DEF Slots
  <2>1. /\ active_sessions[q] = Cardinality(Holding(q))
        /\ active_sessions[q] + Cardinality(tickets(q)) <= max_sessions
        /\ active_sessions[q] \in Nat /\ max_sessions \in Nat
        /\ Cardinality(tickets(q)) \in Nat
    BY TerminalAssumption, FiniteParts DEF TermInv, Slots, TermTypeOK
  <2> QED
    BY <1>1, <1>3, <2>1
<1>5. Single' /\ Shells'
  BY <1>1 DEF TermInv, Single, Shells
<1> QED
  BY <1>2, <1>4, <1>5 DEF TermInv

LEMMA IssueStep ==
    ASSUME TermInv, NEW t \in Tickets, issue(t) PROVE TermInv'
<1> DEFINE r == terminal_registry
           live == _prune_tickets(r)
           open == {u \in Tickets : live[u] > 0}
           full == active_sessions[r] + Cardinality(open) >= max_sessions
<1>1. r \in Registries /\ t \notin issued
  BY DEF issue, TermInv, TermTypeOK
<1>2. live \in [Tickets -> Nat] /\ \A u \in Tickets : live[u] > 0 => expires_at[r][u] > 0
  BY <1>1, PruneOpen DEF TermInv
<1>3. UNCHANGED <<term_now, terminal_enabled, terminal_registry, making, active_sessions, conn>>
  BY DEF issue
<1>4. CASE full
  <2>1. expires_at' = [expires_at EXCEPT ![r] = _prune_tickets(r)] /\ issued' = issued
    BY <1>4 DEF issue
  <2> QED
    BY <1>1, <1>3, <2>1, RefusedIssue
<1>5. CASE ~full
  <2> DEFINE kept == [live EXCEPT ![t] = term_now + ttl]
  <2>1. expires_at' = [expires_at EXCEPT ![r] = kept] /\ issued' = issued \cup {t}
    BY <1>5 DEF issue
  <2>2. term_now + ttl \in Nat /\ term_now + ttl > 0
    BY TerminalAssumption DEF TermInv, TermTypeOK
  <2>3. /\ kept \in [Tickets -> Nat] /\ kept[t] = term_now + ttl
        /\ \A u \in Tickets \ {t} : kept[u] = live[u]
    BY <1>2, <2>2
  <2> HIDE DEF kept, live
  <2>4. expires_at \in [Registries -> [Tickets -> Nat]]
    BY DEF TermInv, TermTypeOK
  <2>5. /\ expires_at' \in [Registries -> [Tickets -> Nat]]
        /\ expires_at'[r] = kept /\ \A q \in Registries \ {r} : expires_at'[q] = expires_at[q]
    BY <1>1, <2>1, <2>3, <2>4
  <2>6. \A q \in Registries, u \in Tickets :
          expires_at'[q][u] > 0 => (q = r /\ u = t) \/ (u # t /\ expires_at[q][u] > 0)
    <3>1. \A q \in Registries : expires_at[q][t] > 0 => t \in issued
      BY DEF TermInv, Single
    <3>2. \A q \in Registries, u \in Tickets : expires_at[q][u] > 0 => u # t
      BY <1>1, <3>1
    <3> QED
      BY <1>2, <2>3, <2>5, <3>2
  <2>7. TermTypeOK'
    BY <1>3, <2>1, <2>5 DEF TermInv, TermTypeOK
  <2>8. \A q \in Registries : Holding(q)' = Holding(q)
    BY <1>3 DEF Holding
  <2>9. Slots'
    <3> SUFFICES ASSUME NEW q \in Registries
                 PROVE  /\ active_sessions'[q] = Cardinality(Holding(q)')
                        /\ active_sessions'[q] + Cardinality(tickets(q)') <= max_sessions
      BY DEF Slots
    <3>1. /\ active_sessions[q] = Cardinality(Holding(q))
          /\ active_sessions[q] + Cardinality(tickets(q)) <= max_sessions
          /\ active_sessions[q] \in Nat /\ max_sessions \in Nat
      BY TerminalAssumption DEF TermInv, Slots, TermTypeOK
    <3>2. CASE q # r
      <4>1. tickets(q)' = tickets(q)
        BY <2>5, <3>2 DEF tickets
      <4> QED
        BY <1>3, <2>8, <3>1, <4>1
    <3>3. CASE q = r
      <4>1. tickets(q)' = open \cup {t}
        BY <2>2, <2>3, <2>5, <3>3 DEF tickets
      <4>2. IsFiniteSet(open)
        BY TerminalAssumption, FS_Subset
      <4>3. Cardinality(tickets(q)') <= Cardinality(open) + 1
            /\ Cardinality(open) \in Nat /\ Cardinality(tickets(q)') \in Nat
        <5>1. Cardinality(open) \in Nat
          BY <4>2, FS_CardinalityType
        <5>2. /\ Cardinality(open \cup {t}) =
                   IF t \in open THEN Cardinality(open) ELSE Cardinality(open) + 1
          BY <4>2, FS_AddElement
        <5> HIDE DEF open
        <5>3. Cardinality(tickets(q)') =
                   IF t \in open THEN Cardinality(open) ELSE Cardinality(open) + 1
          BY <4>1, <5>2
        <5> QED
          BY <5>1, <5>3
      <4>4. active_sessions[r] + Cardinality(open) < max_sessions
        BY <1>5, <3>1, <3>3, <4>3
      <4>5. active_sessions[q] + Cardinality(tickets(q)') <= max_sessions
        BY <3>1, <3>3, <4>3, <4>4
      <4> QED
        BY <1>3, <2>8, <3>1, <4>5
    <3> QED
      BY <3>2, <3>3
  <2>10. Single'
    <3>1. /\ \A q \in Registries : ~(expires_at[q][t] > 0)
          /\ \A c \in Conns : conn[c].ticket # t
      <4>1. t # NoTicket
        BY TerminalAssumption
      <4> QED
        BY <1>1, <4>1 DEF TermInv, Single
    <3>2. ASSUME NEW q \in Registries, NEW u \in Tickets, expires_at'[q][u] > 0
          PROVE  /\ u \in issued'
                 /\ \A c \in Conns : conn'[c].ticket # u
                 /\ \A p \in Registries : expires_at'[p][u] > 0 => p = q
      <4>1. CASE u = t
        <5>1. \A p \in Registries : expires_at'[p][u] > 0 => p = r
          BY <2>6, <4>1
        <5> QED
          BY <1>3, <2>1, <3>1, <3>2, <4>1, <5>1
      <4>2. CASE u # t
        <5>1. \A p \in Registries : expires_at'[p][u] > 0 => expires_at[p][u] > 0
          BY <2>6, <4>2
        <5> QED
          BY <1>3, <2>1, <3>2, <5>1 DEF TermInv, Single
      <4> QED
        BY <4>1, <4>2
    <3> QED
      BY <1>3, <2>1, <3>2 DEF TermInv, Single
  <2>11. Shells'
    BY <1>3 DEF TermInv, Shells
  <2> QED
    BY <2>7, <2>9, <2>10, <2>11 DEF TermInv
<1> QED
  BY <1>4, <1>5

LEMMA ConsumeStep ==
    ASSUME TermInv, NEW c \in Conns, NEW t \in Tickets, consume(c, t) PROVE TermInv'
<1> DEFINE r == terminal_registry
           live == _prune_tickets(r)
           kept == [live EXCEPT ![t] = 0]
<1>1. r \in Registries /\ conn[c] \in Conn /\ conn[c].at = "new" /\ ShellOf(conn[c])
  BY ConnTyped DEF consume, TermInv, TermTypeOK, Shells
<1>2. /\ conn[c].ticket = NoTicket /\ conn[c].r = NoTerminal /\ conn[c].shell # "alive"
      /\ ~conn[c].exited
  BY <1>1 DEF TermInv, Single, Before, ShellOf
<1>3. live \in [Tickets -> Nat] /\ \A u \in Tickets : live[u] > 0 => expires_at[r][u] > 0
  BY <1>1, PruneOpen DEF TermInv
<1>4. /\ kept \in [Tickets -> Nat] /\ kept[t] = 0
      /\ \A u \in Tickets : kept[u] > 0 => u # t /\ live[u] > 0
  BY <1>3
<1>5. /\ expires_at' = [expires_at EXCEPT ![r] = kept]
      /\ UNCHANGED <<term_now, terminal_enabled, terminal_registry, making, issued>>
  BY DEF consume
<1>6. CASE live[t] = 0
  <2> DEFINE k == [conn[c] EXCEPT !.at = "refused"]
  <2>1. conn' = [conn EXCEPT ![c] = k] /\ active_sessions' = active_sessions
    BY <1>6 DEF consume
  <2>2. k \in Conn /\ k.at = "refused" /\ k.r = NoTerminal /\ k.ticket = NoTicket
        /\ k.shell # "alive" /\ ~k.exited
    BY <1>1, <1>2 DEF Conn
  <2> HIDE DEF k, kept, live
  <2>3. /\ expires_at' \in [Registries -> [Tickets -> Nat]]
        /\ \A q \in Registries : /\ Cardinality(tickets(q)') <= Cardinality(tickets(q))
                                 /\ Cardinality(tickets(q)') \in Nat
        /\ \A q \in Registries, u \in Tickets : expires_at'[q][u] > 0 => expires_at[q][u] > 0
    BY <1>1, <1>3, <1>4, <1>5, FewerTickets
  <2>4. conn' \in [Conns -> Conn] /\ conn'[c] = k /\ \A d \in Conns \ {c} : conn'[d] = conn[d]
    BY <2>1, <2>2 DEF TermInv, TermTypeOK, Conn
  <2>5. TermTypeOK'
    <3>1. \A d \in Conns : conn'[d].at \notin {"new", "refused"} =>
              conn'[d].r \in Registries /\ conn'[d].ticket \in Tickets
      BY <2>2, <2>4 DEF TermInv, TermTypeOK
    <3> QED
      BY <1>5, <2>1, <2>3, <2>4, <3>1 DEF TermInv, TermTypeOK, Conn
  <2>6. \A q \in Registries : Holding(q)' = Holding(q)
    BY <1>1, <2>2, <2>4 DEF Holding, Ended
  <2>7. Slots'
    <3> SUFFICES ASSUME NEW q \in Registries
                 PROVE  /\ active_sessions'[q] = Cardinality(Holding(q)')
                        /\ active_sessions'[q] + Cardinality(tickets(q)') <= max_sessions
      BY DEF Slots
    <3>1. /\ active_sessions[q] = Cardinality(Holding(q))
          /\ active_sessions[q] + Cardinality(tickets(q)) <= max_sessions
          /\ active_sessions[q] \in Nat /\ max_sessions \in Nat
          /\ Cardinality(tickets(q)) \in Nat
      BY TerminalAssumption, FiniteParts DEF TermInv, Slots, TermTypeOK
    <3> QED
      BY <2>1, <2>3, <2>6, <3>1
  <2>8. \A d \in Conns : /\ conn'[d].ticket = conn[d].ticket /\ conn'[d].r = conn[d].r
                         /\ conn'[d].at \in Before <=> conn[d].at \in Before
    BY <1>1, <1>2, <2>2, <2>4 DEF Before
  <2>9. Single'
    <3>1. \A q \in Registries, u \in Tickets : expires_at'[q][u] > 0 =>
              /\ u \in issued'
              /\ \A d \in Conns : conn'[d].ticket # u
              /\ \A p \in Registries : expires_at'[p][u] > 0 => p = q
      BY <1>5, <2>3, <2>8 DEF TermInv, Single
    <3>2. \A d \in Conns :
            /\ conn'[d].at \in Before => conn'[d].ticket = NoTicket /\ conn'[d].r = NoTerminal
            /\ conn'[d].ticket # NoTicket => conn'[d].ticket \in issued'
      BY <1>5, <2>8 DEF TermInv, Single
    <3>3. \A d, e \in Conns :
            conn'[d].ticket = conn'[e].ticket /\ conn'[d].ticket # NoTicket => d = e
      BY <2>8 DEF TermInv, Single
    <3> QED
      BY <3>1, <3>2, <3>3 DEF Single
  <2>10. Shells'
    BY <2>2, <2>4 DEF TermInv, Shells, ShellOf
  <2> QED
    BY <2>5, <2>7, <2>9, <2>10 DEF TermInv
<1>7. CASE live[t] # 0
  <2> DEFINE k == [conn[c] EXCEPT !.at = "accept", !.ticket = t, !.r = r]
  <2>1. conn' = [conn EXCEPT ![c] = k]
        /\ active_sessions' = [active_sessions EXCEPT ![r] = active_sessions[r] + 1]
    BY <1>7 DEF consume
  <2>2. k \in Conn /\ k.at = "accept" /\ k.r = r /\ k.ticket = t
        /\ k.shell # "alive" /\ ~k.exited
    BY <1>1, <1>2 DEF Conn
  <2>3. expires_at[r][t] > 0
    BY <1>3, <1>7
  <2> HIDE DEF k, kept, live
  <2>4. /\ expires_at' \in [Registries -> [Tickets -> Nat]]
        /\ \A q \in Registries : /\ tickets(q)' \subseteq tickets(q)
                                 /\ Cardinality(tickets(q)') <= Cardinality(tickets(q))
                                 /\ Cardinality(tickets(q)') \in Nat
        /\ \A q \in Registries, u \in Tickets : expires_at'[q][u] > 0 => expires_at[q][u] > 0
        /\ expires_at'[r] = kept
    BY <1>1, <1>3, <1>4, <1>5, FewerTickets
  <2>5. conn' \in [Conns -> Conn] /\ conn'[c] = k /\ \A d \in Conns \ {c} : conn'[d] = conn[d]
    BY <2>1, <2>2 DEF TermInv, TermTypeOK, Conn
  <2>6. /\ active_sessions' \in [Registries -> Nat] /\ active_sessions'[r] = active_sessions[r] + 1
        /\ \A q \in Registries \ {r} : active_sessions'[q] = active_sessions[q]
    BY <1>1, <2>1 DEF TermInv, TermTypeOK
  <2>7. TermTypeOK'
    <3>1. \A d \in Conns : conn'[d].at \notin {"new", "refused"} =>
              conn'[d].r \in Registries /\ conn'[d].ticket \in Tickets
      BY <1>1, <2>2, <2>5 DEF TermInv, TermTypeOK
    <3> QED
      BY <1>5, <2>4, <2>5, <2>6, <3>1 DEF TermInv, TermTypeOK, Conn
  <2>8. Slots'
    <3> SUFFICES ASSUME NEW q \in Registries
                 PROVE  /\ active_sessions'[q] = Cardinality(Holding(q)')
                        /\ active_sessions'[q] + Cardinality(tickets(q)') <= max_sessions
      BY DEF Slots
    <3>1. /\ active_sessions[q] = Cardinality(Holding(q))
          /\ active_sessions[q] + Cardinality(tickets(q)) <= max_sessions
          /\ active_sessions[q] \in Nat /\ max_sessions \in Nat
          /\ Cardinality(tickets(q)) \in Nat
          /\ IsFiniteSet(Holding(q)) /\ IsFiniteSet(tickets(q))
      BY TerminalAssumption, FiniteParts DEF TermInv, Slots, TermTypeOK
    <3>2. CASE q # r
      <4>1. Holding(q)' = Holding(q)
        BY <1>1, <2>2, <2>5, <3>2 DEF Holding, Ended
      <4> QED
        BY <2>4, <2>6, <3>1, <3>2, <4>1
    <3>3. CASE q = r
      <4>1. Holding(q)' = Holding(q) \cup {c} /\ c \notin Holding(q)
        BY <1>1, <2>2, <2>5, <3>3 DEF Holding, Ended
      <4>2. Cardinality(Holding(q)') = active_sessions[q] + 1
        <5>1. Cardinality(Holding(q) \cup {c}) = Cardinality(Holding(q)) + 1
          BY <3>1, <4>1, FS_AddElement
        <5> QED
          BY <3>1, <4>1, <5>1
      <4>3. t \in tickets(q) /\ tickets(q)' \in SUBSET (tickets(q) \ {t})
        <5>1. t \in tickets(q)
          BY <2>3, <3>3 DEF tickets
        <5>2. tickets(q)' = {u \in Tickets : kept[u] > 0}
          BY <2>4, <3>3 DEF tickets
        <5>3. t \notin tickets(q)'
          BY <1>4, <5>2
        <5>4. tickets(q)' \subseteq tickets(q)
          BY <2>4
        <5> QED
          BY <5>1, <5>3, <5>4
      <4>4. Cardinality(tickets(q) \ {t}) = Cardinality(tickets(q)) - 1
            /\ IsFiniteSet(tickets(q) \ {t})
        BY <3>1, <4>3, FS_RemoveElement
      <4>5. Cardinality(tickets(q)') <= Cardinality(tickets(q)) - 1
        BY <4>3, <4>4, FS_Subset
      <4> QED
        BY <2>4, <2>6, <3>1, <3>3, <4>2, <4>5
    <3> QED
      BY <3>2, <3>3
  <2>9. Single'
    <3>1. /\ t \in issued
          /\ \A d \in Conns : conn[d].ticket # t
          /\ \A q \in Registries : expires_at[q][t] > 0 => q = r
      BY <1>1, <2>3 DEF TermInv, Single
    <3>2. \A q \in Registries : ~(expires_at'[q][t] > 0)
      <4> SUFFICES ASSUME NEW q \in Registries, expires_at'[q][t] > 0 PROVE FALSE
        OBVIOUS
      <4>1. q = r
        BY <2>4, <3>1
      <4>2. expires_at'[q][t] = 0
        BY <1>4, <2>4, <4>1
      <4> QED
        BY <4>2
    <3>3. \A q \in Registries, u \in Tickets : expires_at'[q][u] > 0 =>
              /\ u \in issued'
              /\ \A d \in Conns : conn'[d].ticket # u
              /\ \A p \in Registries : expires_at'[p][u] > 0 => p = q
      BY <1>5, <2>2, <2>4, <2>5, <3>2 DEF TermInv, Single
    <3>4. \A d \in Conns : conn'[d].at \in Before =>
              conn'[d].ticket = NoTicket /\ conn'[d].r = NoTerminal
      BY <2>2, <2>5 DEF TermInv, Single, Before
    <3>5. \A d \in Conns : conn'[d].ticket # NoTicket => conn'[d].ticket \in issued'
      BY <1>5, <2>2, <2>5, <3>1 DEF TermInv, Single
    <3>6. \A d, e \in Conns :
              conn'[d].ticket = conn'[e].ticket /\ conn'[d].ticket # NoTicket => d = e
      BY <2>2, <2>5, <3>1 DEF TermInv, Single
    <3> QED
      BY <3>3, <3>4, <3>5, <3>6 DEF Single
  <2>10. Shells'
    BY <2>2, <2>5 DEF TermInv, Shells, ShellOf
  <2> QED
    BY <2>7, <2>8, <2>9, <2>10 DEF TermInv
<1> QED
  BY <1>6, <1>7

\* The handler ends: its slot, which it holds, is given back.
LEMMA ReleaseStep ==
    ASSUME TermInv, NEW c \in Conns, release_slot(c) PROVE TermInv'
<1> DEFINE k == [conn[c] EXCEPT !.at = "done"]
<1>1. conn[c] \in Conn /\ conn[c].at = "release" /\ ShellOf(conn[c])
  BY ConnTyped DEF release_slot, TermInv, Shells
<1>2. /\ k \in Conn /\ k.at = "done" /\ k.r = conn[c].r /\ k.ticket = conn[c].ticket
      /\ k.shell = conn[c].shell /\ k.exited = conn[c].exited
  BY <1>1 DEF Conn
<1>3. PICK r \in Registries : r = conn[c].r
  BY <1>1 DEF TermInv, TermTypeOK
<1>4. /\ conn' = [conn EXCEPT ![c] = k]
      /\ active_sessions' = [active_sessions EXCEPT ![r] =
                                IF active_sessions[r] = 0 THEN 0 ELSE active_sessions[r] - 1]
      /\ UNCHANGED <<term_now, terminal_enabled, terminal_registry, making, expires_at, issued>>
  BY <1>3 DEF release_slot
<1> HIDE DEF k
<1>5. conn' \in [Conns -> Conn] /\ conn'[c] = k /\ \A d \in Conns \ {c} : conn'[d] = conn[d]
  BY <1>2, <1>4 DEF TermInv, TermTypeOK, Conn
<1>6. c \in Holding(r)
  BY <1>1, <1>3 DEF Holding, Ended
<1>7. /\ IsFiniteSet(Holding(r)) /\ Cardinality(Holding(r)) \in Nat
      /\ active_sessions[r] = Cardinality(Holding(r)) /\ max_sessions \in Nat
  BY FiniteParts, TerminalAssumption DEF TermInv, Slots
<1>8. Cardinality(Holding(r) \ {c}) = active_sessions[r] - 1 /\ active_sessions[r] # 0
  <2>1. Cardinality(Holding(r) \ {c}) = Cardinality(Holding(r)) - 1
    BY <1>6, <1>7, FS_RemoveElement
  <2>2. Cardinality(Holding(r)) # 0
    BY <1>6, <1>7, FS_EmptySet
  <2> QED
    BY <1>7, <2>1, <2>2
<1>9. active_sessions[r] - 1 \in Nat
  BY <1>7, <1>8
<1>10. /\ active_sessions' \in [Registries -> Nat] /\ active_sessions'[r] = active_sessions[r] - 1
       /\ \A q \in Registries \ {r} : active_sessions'[q] = active_sessions[q]
  BY <1>4, <1>8, <1>9 DEF TermInv, TermTypeOK
<1>11. TermTypeOK'
  <2>1. \A d \in Conns : conn'[d].at \notin {"new", "refused"} =>
            conn'[d].r \in Registries /\ conn'[d].ticket \in Tickets
    BY <1>1, <1>2, <1>5 DEF TermInv, TermTypeOK
  <2> QED
    BY <1>4, <1>5, <1>10, <2>1 DEF TermInv, TermTypeOK, Conn
<1>12. Slots'
  <2> SUFFICES ASSUME NEW q \in Registries
               PROVE  /\ active_sessions'[q] = Cardinality(Holding(q)')
                      /\ active_sessions'[q] + Cardinality(tickets(q)') <= max_sessions
    BY DEF Slots
  <2>1. /\ active_sessions[q] = Cardinality(Holding(q))
        /\ active_sessions[q] + Cardinality(tickets(q)) <= max_sessions
        /\ active_sessions[q] \in Nat /\ max_sessions \in Nat
        /\ Cardinality(tickets(q)) \in Nat
    BY TerminalAssumption, FiniteParts DEF TermInv, Slots, TermTypeOK
  <2>2. tickets(q)' = tickets(q)
    BY <1>4 DEF tickets
  <2>3. CASE q # r
    <3>1. Holding(q)' = Holding(q)
      BY <1>2, <1>3, <1>5, <2>3 DEF Holding
    <3> QED
      BY <1>10, <2>1, <2>2, <2>3, <3>1
  <2>4. CASE q = r
    <3>1. Holding(q)' = Holding(q) \ {c}
      BY <1>2, <1>3, <1>5, <2>4 DEF Holding, Ended
    <3> QED
      BY <1>8, <1>10, <2>1, <2>2, <2>4, <3>1
  <2> QED
    BY <2>3, <2>4
<1>13. \A d \in Conns : /\ conn'[d].ticket = conn[d].ticket /\ conn'[d].r = conn[d].r
                        /\ conn'[d].at \in Before <=> conn[d].at \in Before
  BY <1>1, <1>2, <1>5 DEF Before
<1>14. Single'
  BY <1>4, <1>13 DEF TermInv, Single
<1>15. Shells'
  BY <1>1, <1>2, <1>5 DEF TermInv, Shells, ShellOf
<1> QED
  BY <1>11, <1>12, <1>14, <1>15 DEF TermInv

\* The registry's first use, the setting and the clock touch no slot and no ticket.
LEMMA RegistryStep ==
    ASSUME TermInv, term_now' \in Nat, terminal_enabled' \in BOOLEAN,
           terminal_registry' \in Registries \cup {NoTerminal}, making' \subseteq Registries,
           UNCHANGED <<expires_at, active_sessions, issued, conn>>
    PROVE  TermInv'
<1>1. TermTypeOK'
  BY DEF TermInv, TermTypeOK
<1>2. \A r \in Registries : Holding(r)' = Holding(r) /\ tickets(r)' = tickets(r)
  BY DEF Holding, tickets
<1> QED
  BY <1>1, <1>2 DEF TermInv, Slots, Single, Shells

LEMMA TermInvStep == TermInv /\ [TermNext]_termVars => TermInv'
<1> SUFFICES ASSUME TermInv, [TermNext]_termVars PROVE TermInv'
  OBVIOUS
<1> USE DEF registryVars
<1>1. ASSUME NEW r \in Registries, find_no_terminal(r) \/ make_terminal(r) PROVE TermInv'
  BY <1>1, RegistryStep DEF find_no_terminal, make_terminal, TermInv, TermTypeOK
<1>2. CASE set_terminal_enabled
  BY <1>2, RegistryStep DEF set_terminal_enabled, TermInv, TermTypeOK
<1>3. CASE TermTick
  BY <1>3, RegistryStep DEF TermTick, TermInv, TermTypeOK
<1>4. CASE UNCHANGED termVars
  BY <1>4, RegistryStep DEF termVars, TermInv, TermTypeOK
<1>5. ASSUME NEW c \in Conns, handler(c) PROVE TermInv'
  BY <1>5, AcceptStep, HandlerSteps, ReleaseStep, TerminateStep DEF handler
<1> QED
  BY <1>1, <1>2, <1>3, <1>4, <1>5, IssueStep, ConsumeStep, HandlerSteps DEF TermNext

\* Fairness plays no part in what the registries keep.
LEMMA TermInvHolds == TermInit /\ [][TermNext]_termVars => []TermInv
BY TermInvInit, TermInvStep, PTL

-----------------------------------------------------------------------------

\* What the invariant is for.
LEMMA TermInvSafe == TermInv => TermTypeOK /\ SlotAccounting /\ NoOrphanShell
BY DEF TermInv, Slots, Single, Shells, ShellOf, SlotAccounting, NoOrphanShell

(* The registry's maps, counters and connections keep their types.           *)
THEOREM TermTypeCorrect == TermSpec => []TermTypeOK
BY TermInvSafe, TermInvHolds, PTL DEF TermSpec

(* TerminalRegistry counts its slots right and keeps slots and open tickets  *)
(* within max_sessions, and a ticket opens one terminal at most: for any     *)
(* limit, any number of connections and however many registries the first    *)
(* users raced to make.                                                      *)
THEOREM SlotAccountingHolds == TermSpec => []SlotAccounting
BY TermInvSafe, TermInvHolds, PTL DEF TermSpec

(* terminal_websocket gives its slot back only when its shell is dead.       *)
THEOREM NoOrphanShellHolds == TermSpec => []NoOrphanShell
BY TermInvSafe, TermInvHolds, PTL DEF TermSpec


-----------------------------------------------------------------------------
(* Marks and tables *)

\* An entry of upstream.profiles.
MarkProfile == [name : MarkNames, routing_offset : 0 .. MaxMark, routed : BOOLEAN]

(* Distinct names fit in the set of names.                                   *)
LEMMA NamesFit ==
    ASSUME NEW ps \in Seq(MarkProfile), validate_profiles(ps)
    PROVE  Len(ps) <= Cardinality(MarkNames)
<1> DEFINE f == [i \in 1 .. Len(ps) |-> ps[i].name]
<1>1. Len(ps) \in Nat /\ DOMAIN ps = 1 .. Len(ps) /\ \A i \in 1 .. Len(ps) : ps[i] \in MarkProfile
  OBVIOUS
<1>2. f \in [1 .. Len(ps) -> MarkNames]
  BY <1>1 DEF MarkProfile
<1>3. \A i, j \in 1 .. Len(ps) : f[i] = f[j] => i = j
  BY <1>1 DEF validate_profiles
<1>4. f \in Injection(1 .. Len(ps), MarkNames)
  BY <1>2, <1>3 DEF Injection, IsInjective
<1>5. Cardinality(1 .. Len(ps)) <= Cardinality(MarkNames)
  BY <1>4, FS_Injection, RouteMarksAssumption
<1>6. Cardinality(1 .. Len(ps)) = Len(ps)
  <2>1. Cardinality(1 .. Len(ps)) = IF 1 > Len(ps) THEN 0 ELSE Len(ps) - 1 + 1
    BY <1>1, FS_Interval
  <2> QED BY <1>1, <2>1
<1> QED BY <1>5, <1>6

(* There are marks and devices enough for a profile of every name.           *)
LEMMA NumbersOfNames ==
    /\ Cardinality(MarkNames) \in Nat /\ Cardinality(MarkNames) <= MaxMark /\ MaxMark \in Nat
    /\ TunDevices \subseteq Marks
<1>1. Cardinality(MarkNames) \in Nat BY FS_CardinalityType, RouteMarksAssumption
<1> QED BY <1>1, RouteMarksAssumption DEF TunDevices, Marks

(* The positions of the profiles are devices, and their offsets are marks.   *)
LEMMA PositionsMarked ==
    ASSUME NEW ps \in Seq(MarkProfile), Len(ps) <= Cardinality(MarkNames)
    PROVE  /\ DOMAIN ps \subseteq TunDevices
           /\ \A i \in DOMAIN ps : /\ ps[i] \in MarkProfile
                                   /\ profile_routing_offset(ps, i) \in Marks
<1>1. Len(ps) \in Nat /\ DOMAIN ps = 1 .. Len(ps) /\ \A i \in 1 .. Len(ps) : ps[i] \in MarkProfile
  OBVIOUS
<1>2. DOMAIN ps \subseteq TunDevices
  BY <1>1, NumbersOfNames DEF TunDevices
<1>3. ASSUME NEW i \in DOMAIN ps PROVE profile_routing_offset(ps, i) \in Marks
  <2>1. i \in Marks BY <1>2, NumbersOfNames
  <2>2. ps[i].routing_offset \in 0 .. MaxMark BY <1>1 DEF MarkProfile
  <2> QED BY <2>1, <2>2, NumbersOfNames DEF profile_routing_offset, Marks
<1> QED BY <1>1, <1>2, <1>3

(* The names can be put in an order, and every one has a place in it.        *)
LEMMA OrderExists ==
    /\ InitialOrder \in [TunDevices -> MarkNames]
    /\ \A i, j \in TunDevices : InitialOrder[i] = InitialOrder[j] => i = j
    /\ \A n \in MarkNames : \E i \in TunDevices : InitialOrder[i] = n
<1> DEFINE Order(f) == \A i, j \in TunDevices : f[i] = f[j] => i = j
<1>1. \E f \in [TunDevices -> MarkNames] : Order(f)
  <2>1. ExistsBijection(1 .. Cardinality(MarkNames), MarkNames)
    BY FS_CardinalityType, RouteMarksAssumption
  <2>2. PICK f : f \in Bijection(TunDevices, MarkNames)
    BY <2>1 DEF ExistsBijection, TunDevices
  <2> QED BY <2>2 DEF Bijection, Injection, Surjection, IsInjective
<1>2. InitialOrder \in [TunDevices -> MarkNames] /\ Order(InitialOrder)
  BY <1>1 DEF InitialOrder
<1>3. InitialOrder \in Injection(TunDevices, MarkNames)
  BY <1>2 DEF Injection, IsInjective
<1>4. Cardinality(TunDevices) = Cardinality(MarkNames)
  <2> DEFINE N == Cardinality(MarkNames)
  <2>1. N \in Int /\ 1 \in Int BY NumbersOfNames
  <2>2. Cardinality(1 .. N) = IF 1 > N THEN 0 ELSE N - 1 + 1
    <3> HIDE DEF N
    <3> QED BY <2>1, FS_Interval
  <2> QED BY <2>2, NumbersOfNames DEF TunDevices
<1>5. InitialOrder \in Surjection(TunDevices, MarkNames)
  BY <1>3, <1>4, FS_Injection, RouteMarksAssumption
<1> QED BY <1>2, <1>5 DEF Surjection

(* Booted, the profiles have the positions as their marks and devices.       *)
LEMMA MarksInit == MarkInit => MarkTypeOK
<1> SUFFICES ASSUME MarkInit PROVE MarkTypeOK OBVIOUS
<1> DEFINE N == Cardinality(MarkNames)
<1>1. mark_profiles = [i \in 1 .. N |->
                         [name |-> InitialOrder[i], routing_offset |-> 0, routed |-> TRUE]]
  BY DEF MarkInit, TunDevices
<1>2. \A i \in 1 .. N :
        [name |-> InitialOrder[i], routing_offset |-> 0, routed |-> TRUE] \in MarkProfile
  BY OrderExists, NumbersOfNames DEF MarkProfile, TunDevices
<1>3. mark_profiles \in Seq(MarkProfile) /\ Len(mark_profiles) = N /\ positions = TunDevices
  BY <1>1, <1>2, NumbersOfNames DEF positions, TunDevices
<1>4. \A i \in TunDevices : mark_profiles[i].name = InitialOrder[i]
                            /\ mark_profiles[i].routing_offset = 0
  BY <1>1 DEF TunDevices
<1>5. \A i \in TunDevices : mark(i) = i
  BY <1>4 DEF mark, profile_routing_offset
<1>6. validate_profiles(mark_profiles)
  BY <1>3, <1>4, <1>5, OrderExists DEF validate_profiles, mark, positions
<1>7. ip_rules \subseteq Marks
  BY <1>3, <1>5, NumbersOfNames DEF MarkInit
<1>8. ip_tables \in [Marks -> {0} \cup TunDevices]
  BY <1>3 DEF MarkInit
<1>9. targets_state \in [MarkNames -> {0} \cup Marks]
  <2>1. ASSUME NEW n \in MarkNames
        PROVE  (CHOOSE i \in positions : mark_profiles[i].name = n) \in Marks
    <3>1. \E i \in positions : mark_profiles[i].name = n
      BY <1>3, <1>4, OrderExists
    <3> QED BY <3>1, <1>3, NumbersOfNames
  <2> QED BY <2>1 DEF MarkInit
<1>10. tunnel \in [TunDevices -> MarkNames \cup {NoOwner}]
  BY <1>4, OrderExists DEF MarkInit
<1>11. mark_enabled \in BOOLEAN /\ mark_applied \in BOOLEAN
  BY DEF MarkInit
<1>12. Len(mark_profiles) <= Cardinality(MarkNames)
  BY <1>3, NumbersOfNames
<1> QED BY <1>3, <1>6, <1>7, <1>8, <1>9, <1>10, <1>11, <1>12 DEF MarkTypeOK, MarkProfile

(* Routes that are installed lead to a device that exists.                   *)
LEMMA RoutesTyped ==
    ASSUME MarkTypeOK, NEW is \in SUBSET positions
    PROVE  routes_of(is) \in [Marks -> {0} \cup TunDevices]
<1>1. is \subseteq TunDevices
  BY PositionsMarked DEF MarkTypeOK, positions, MarkProfile
<1>2. ASSUME NEW m \in Marks, \E i \in is : mark(i) = m
      PROVE  (CHOOSE i \in is : mark(i) = m) \in TunDevices
  BY <1>1, <1>2
<1> QED BY <1>2 DEF routes_of, MarkTypeOK

(* A save writes profiles that the validators accept, and nothing else.      *)
LEMMA SaveTyped ==
    ASSUME MarkTypeOK, NEW ps \in Seq(MarkProfile), NEW enabled \in BOOLEAN,
           save_profiles(ps, enabled)
    PROVE  MarkTypeOK'
<1>1. Len(ps) <= Cardinality(MarkNames)
  BY NamesFit DEF save_profiles
<1>2. mark_profiles' = ps /\ validate_profiles(ps) /\ mark_enabled' = enabled /\ mark_applied' = FALSE
      /\ UNCHANGED <<ip_rules, ip_tables, tunnel, targets_state>>
  BY DEF save_profiles, kernelVars
<1>3. validate_profiles(mark_profiles')
  BY <1>2
<1> QED BY <1>1, <1>2, <1>3 DEF MarkTypeOK, MarkProfile

(* Each operation keeps the types.                                           *)
LEMMA MarksStep == MarkTypeOK /\ [MarkNext]_markVars => MarkTypeOK'
<1> SUFFICES ASSUME MarkTypeOK, [MarkNext]_markVars PROVE MarkTypeOK' OBVIOUS
<1> USE DEF Marks
<1>0. /\ mark_profiles \in Seq(MarkProfile) /\ positions \subseteq TunDevices
      /\ positions = 1 .. Len(mark_profiles) /\ Len(mark_profiles) \in Nat
      /\ \A i \in positions : mark_profiles[i] \in MarkProfile /\ mark(i) \in Marks
      /\ mark_targets \subseteq positions
  <2>1. mark_profiles \in Seq(MarkProfile) /\ Len(mark_profiles) <= Cardinality(MarkNames)
    BY DEF MarkTypeOK, MarkProfile
  <2>2. positions = 1 .. Len(mark_profiles) /\ Len(mark_profiles) \in Nat
    BY <2>1 DEF positions
  <2>3. positions \subseteq TunDevices
        /\ \A i \in positions : mark_profiles[i] \in MarkProfile /\ mark(i) \in Marks
    BY <2>1, PositionsMarked DEF positions, mark
  <2> QED BY <2>1, <2>2, <2>3 DEF mark_targets
<1>a. /\ applied_rules \subseteq Marks
      /\ applied_tables \in [Marks -> {0} \cup TunDevices]
      /\ applied_state \in [MarkNames -> {0} \cup Marks]
  <2>1. applied_rules \subseteq Marks
    BY <1>0 DEF applied_rules, MarkTypeOK
  <2>2. applied_tables \in [Marks -> {0} \cup TunDevices]
    BY <1>0, RoutesTyped DEF applied_tables
  <2>3. ASSUME NEW n \in target_names
        PROVE  mark(CHOOSE i \in mark_targets : mark_profiles[i].name = n) \in Marks
    <3>1. \E i \in mark_targets : mark_profiles[i].name = n BY DEF target_names
    <3> QED BY <3>1, <1>0
  <2> QED BY <2>1, <2>2, <2>3 DEF applied_state
<1>1. CASE nft_apply
  <2>1. validate_profiles(mark_profiles')
    BY <1>1 DEF nft_apply, MarkTypeOK
  <2> QED BY <1>1, <1>a, <2>1 DEF nft_apply, MarkTypeOK
<1>2. CASE ensure_policy_routing
  <2> DEFINE connected == {i \in mark_targets : _profile_connected(i)}
  <2>1. connected \subseteq positions BY <1>0
  <2>2. ip_rules' \subseteq Marks
    BY <1>0, <1>2 DEF ensure_policy_routing, MarkTypeOK
  <2>3. ip_tables' \in [Marks -> {0} \cup TunDevices]
    BY <1>2, <2>1, RoutesTyped DEF ensure_policy_routing
  <2>4. validate_profiles(mark_profiles')
    BY <1>2 DEF ensure_policy_routing, MarkTypeOK
  <2> QED BY <1>2, <2>2, <2>3, <2>4 DEF ensure_policy_routing, MarkTypeOK
<1>3. ASSUME NEW d \in TunDevices, dial(d) PROVE MarkTypeOK'
  <2>1. d \in positions /\ mark(d) \in Marks /\ mark_profiles[d].name \in MarkNames
    BY <1>0, <1>3 DEF dial, MarkProfile
  <2>2. tunnel' \in [TunDevices -> MarkNames \cup {NoOwner}]
    BY <1>3, <2>1 DEF dial, MarkTypeOK
  <2>3. ip_rules' \subseteq Marks
    BY <1>3, <1>a, <2>1 DEF dial
  <2>4. ip_tables' \in [Marks -> {0} \cup TunDevices]
    BY <1>3, <1>a DEF dial
  <2>5. validate_profiles(mark_profiles')
    BY <1>3 DEF dial, MarkTypeOK
  <2> QED BY <1>3, <1>a, <2>2, <2>3, <2>4, <2>5 DEF dial, MarkTypeOK
<1>4. ASSUME NEW d \in TunDevices, tunnel_dies(d) PROVE MarkTypeOK'
  <2>1. validate_profiles(mark_profiles')
    BY <1>4 DEF tunnel_dies, MarkTypeOK
  <2> QED BY <1>4, <2>1 DEF tunnel_dies, MarkTypeOK
<1>5. ASSUME NEW d \in TunDevices, delete_profile(d) PROVE MarkTypeOK'
  <2> DEFINE ps == [k \in 1 .. Len(mark_profiles) - 1 |-> mark_profiles[IF k < d THEN k ELSE k + 1]]
  <2>1. Len(mark_profiles) - 1 \in Nat
    BY <1>0, <1>5 DEF delete_profile
  <2>2. \A k \in 1 .. Len(mark_profiles) - 1 : mark_profiles[IF k < d THEN k ELSE k + 1] \in MarkProfile
    BY <1>0, <2>1
  <2>3. ps \in Seq(MarkProfile)
    BY <2>1, <2>2
  <2>4. save_profiles(ps, mark_enabled /\ ps # <<>>)
    BY <1>5 DEF delete_profile
  <2>5. (mark_enabled /\ ps # <<>>) \in BOOLEAN
    BY DEF MarkTypeOK
  <2> QED BY <2>3, <2>4, <2>5, SaveTyped
<1>6. ASSUME NEW i \in TunDevices, NEW offset \in 0 .. MaxMark, NEW routed \in BOOLEAN,
             edit_profile(i, offset, routed)
      PROVE  MarkTypeOK'
  <2> DEFINE ps == [mark_profiles EXCEPT ![i].routing_offset = offset, ![i].routed = routed]
  <2>1. [mark_profiles[i] EXCEPT !.routing_offset = offset] \in MarkProfile
    BY <1>0, <1>6 DEF edit_profile, MarkProfile
  <2>2. ps \in Seq(MarkProfile)
    <3> DEFINE q == [[mark_profiles[i] EXCEPT !.routing_offset = offset] EXCEPT !.routed = routed]
    <3>1. q \in MarkProfile BY <2>1 DEF MarkProfile
    <3>2. i \in 1 .. Len(mark_profiles) BY <1>0, <1>6 DEF edit_profile
    <3>3. ps = [mark_profiles EXCEPT ![i] = q] BY <1>0, <3>2
    <3> HIDE DEF q
    <3>4. [mark_profiles EXCEPT ![i] = q] \in Seq(MarkProfile) BY <1>0, <3>1, <3>2
    <3> QED BY <3>3, <3>4
  <2>3. save_profiles(ps, mark_enabled)
    BY <1>6 DEF edit_profile
  <2> QED BY <2>2, <2>3, SaveTyped DEF MarkTypeOK
<1>7. ASSUME NEW name \in MarkNames, add_profile(name) PROVE MarkTypeOK'
  <2> DEFINE new == [name |-> name, routing_offset |-> 0, routed |-> TRUE]
  <2>1. new \in MarkProfile BY NumbersOfNames DEF MarkProfile
  <2>2. Append(mark_profiles, new) \in Seq(MarkProfile) BY <1>0, <2>1
  <2>3. save_profiles(Append(mark_profiles, new), mark_enabled) BY <1>7 DEF add_profile
  <2> QED BY <2>2, <2>3, SaveTyped DEF MarkTypeOK
<1>8. ASSUME NEW enabled \in BOOLEAN, set_upstream_enabled(enabled) PROVE MarkTypeOK'
  BY <1>0, <1>8, SaveTyped DEF set_upstream_enabled
<1>9. CASE UNCHANGED markVars
  <2>1. validate_profiles(mark_profiles')
    BY <1>9 DEF markVars, MarkTypeOK
  <2> QED BY <1>9, <2>1 DEF markVars, MarkTypeOK
<1> QED BY <1>1, <1>2, <1>3, <1>4, <1>5, <1>6, <1>7, <1>8, <1>9 DEF MarkNext

(* The profiles keep distinct names and marks, no more of them than there are *)
(* names, and the kernel's rules, tables and devices and the recorded targets *)
(* hold marks and devices only, through every edit, apply, dial and death.    *)
THEOREM MarkTypesHold == MarkSpec => []MarkTypeOK
BY MarksInit, MarksStep, PTL DEF MarkSpec

-----------------------------------------------------------------------------
(* The composition that TLC checks *)

\* The composed step is a step of one part and leaves the others' state alone: each
\* part sees a step of its own or none.
LEMMA DaemonsStep ==
    [Next]_vars => /\ [TermNext]_termVars /\ [HostNext]_hostVars
                   /\ [PushedNext]_pushedVars /\ [MarkNext]_markVars
<1> SUFFICES ASSUME [Next]_vars
             PROVE  /\ [TermNext]_termVars /\ [HostNext]_hostVars
                    /\ [PushedNext]_pushedVars /\ [MarkNext]_markVars
  OBVIOUS
<1>1. CASE Terminal(TermNext)
  BY <1>1 DEF Terminal
<1>2. CASE Host(HostNext)
  BY <1>2 DEF Host
<1>3. CASE Pushed(PushedNext)
  BY <1>3 DEF Pushed
<1>4. CASE MarksOf(MarkNext)
  BY <1>4 DEF MarksOf
<1>5. CASE UNCHANGED vars
  BY <1>5 DEF vars
<1> QED
  BY <1>1, <1>2, <1>3, <1>4, <1>5 DEF Next

\* So a behaviour of MCDaemons is, part by part, one of each component's own module,
\* but for fairness, which it states for the part that runs.
LEMMA DaemonsParts ==
    Spec => /\ TermInit /\ [][TermNext]_termVars
            /\ HostInit /\ [][HostNext]_hostVars
            /\ PushedInit /\ [][PushedNext]_pushedVars
            /\ MarkInit /\ [][MarkNext]_markVars
<1>1. Init => TermInit /\ HostInit /\ PushedInit /\ MarkInit
  BY DEF Init
<1> QED
  BY <1>1, DaemonsStep, PTL DEF Spec

(* Terminals, host DNS guard, pushed lists and routing marks keep the types  *)
(* of their state, in the composition as in their own modules.               *)
THEOREM DaemonsTypesHold == Spec => []DaemonsTypeOK
<1>1. TermInv /\ HostInv /\ PushedInv /\ MarkTypeOK => DaemonsTypeOK
  BY TermInvSafe, HostInvSafe, PushedInvTypes DEF DaemonsTypeOK
<1> QED
  BY <1>1, DaemonsParts, TermInvHolds, HostInvariant, PushedInvHolds, MarksInit, MarksStep, PTL

(* The safety properties of MCDaemons, from the components' own invariants:  *)
(* slots counted, no shell orphaned, the host's resolv.conf kept and         *)
(* released, syncs paced, failed ones harmless.                              *)
THEOREM DaemonsSafe ==
    Spec => /\ [](SlotAccounting /\ NoOrphanShell)
            /\ [](OriginalKept /\ HostReleased)
            /\ PacedSync /\ FailedSyncKeepsLists
BY DaemonsParts, TermInvSafe, TermInvHolds, HostInvSafe, HostInvariant, RequestsArePaced,
   FailuresKeepLists, PTL
=============================================================================
