--------------------------- MODULE TerminalSessions ---------------------------
(***************************************************************************)
(* The web terminal: an authenticated POST issues a ticket, a WebSocket    *)
(* redeems it for one of max_sessions slots and runs a shell on a pty until*)
(* the shell ends, the client goes away or stays idle too long.  Tickets   *)
(* are issued by worker threads; everything after that runs on the event   *)
(* loop, which _terminate_child blocks while it waits for the shell.       *)
(***************************************************************************)
EXTENDS Integers, FiniteSets

CONSTANTS
    Tickets,        \* bound: tokens handed out
    Conns,          \* bound: WebSocket connections
    Registries,     \* the registries made by racing first users
    NoTerminal,     \* app.state.terminal_registry before its first use
    NoTicket,       \* no token
    max_sessions,   \* web.terminal_max_sessions
    ttl,            \* issue: ttl
    MaxTermTime     \* bound: the monotonic clock

ASSUME TerminalAssumption ==
    /\ IsFiniteSet(Tickets) /\ IsFiniteSet(Conns)
    /\ NoTerminal \notin Registries /\ NoTicket \notin Tickets
    /\ max_sessions \in Nat \ {0}
    /\ ttl \in Nat \ {0} /\ MaxTermTime \in Nat

VARIABLES
    term_now,          \* time.monotonic()
    terminal_enabled,  \* web.terminal_enabled
    terminal_registry, \* app.state.terminal_registry
    making,            \* registries whose maker saw none and has not stored its own yet
    expires_at,        \* registry -> token -> expiry of the ticket, 0 without one
    active_sessions,   \* registry -> slots taken
    issued,            \* tokens handed out (history)
    conn               \* connection -> its handler, shell and client

termVars == <<term_now, terminal_enabled, terminal_registry, making, expires_at,
              active_sessions, issued, conn>>
registryVars == <<terminal_registry, making, expires_at, active_sessions, issued>>

\* at: the handler's position; r: the registry it holds; shell: its child process.
NewConn == [at |-> "new", ticket |-> NoTicket, r |-> NoTerminal,
            shell |-> "none", client |-> "live", exited |-> FALSE]

tickets(r) == {t \in Tickets : expires_at[r][t] > 0}

_prune_tickets(r) ==
    [t \in Tickets |-> IF expires_at[r][t] <= term_now THEN 0 ELSE expires_at[r][t]]

\* Every step of a handler needs the event loop, which _terminate_child blocks.
loop_free(c) == \A d \in Conns : conn[d].at = "term" => d = c

-----------------------------------------------------------------------------
(* TerminalRegistry *)

find_no_terminal(r) ==
    /\ terminal_registry = NoTerminal
    /\ making' = making \cup {r}
    /\ UNCHANGED <<term_now, terminal_enabled, terminal_registry, expires_at,
                   active_sessions, issued, conn>>

\* _registry stores what it made, over one that another request stored meanwhile.
make_terminal(r) ==
    /\ r \in making
    /\ making' = making \ {r}
    /\ terminal_registry' = r
    /\ UNCHANGED <<term_now, terminal_enabled, expires_at, active_sessions, issued, conn>>

\* create_terminal_session and issue: refused when tickets and sessions fill the
\* limit; expired tickets are dropped either way.
issue_sessions_only(t) ==                        \* mutant: open tickets do not count
    LET r == terminal_registry
        live == _prune_tickets(r)
    IN  /\ terminal_enabled /\ r # NoTerminal /\ t \notin issued
        /\ IF active_sessions[r] >= max_sessions
             THEN /\ expires_at' = [expires_at EXCEPT ![r] = live]
                  /\ UNCHANGED issued
             ELSE /\ expires_at' = [expires_at EXCEPT ![r] =
                                        [live EXCEPT ![t] = term_now + ttl]]
                  /\ issued' = issued \cup {t}
        /\ UNCHANGED <<term_now, terminal_enabled, terminal_registry, making,
                       active_sessions, conn>>
issue(t) ==
    LET r == terminal_registry
        live == _prune_tickets(r)
        full == active_sessions[r] + Cardinality({u \in Tickets : live[u] > 0}) >= max_sessions
    IN  /\ terminal_enabled /\ r # NoTerminal /\ t \notin issued
        /\ IF full
             THEN /\ expires_at' = [expires_at EXCEPT ![r] = live]
                  /\ UNCHANGED issued
             ELSE /\ expires_at' = [expires_at EXCEPT ![r] =
                                        [live EXCEPT ![t] = term_now + ttl]]
                  /\ issued' = issued \cup {t}
        /\ UNCHANGED <<term_now, terminal_enabled, terminal_registry, making,
                       active_sessions, conn>>

\* terminal_websocket up to consume: a live ticket is used up for a slot, any
\* other token is refused.
consume(c, t) ==
    LET r == terminal_registry
        live == _prune_tickets(r)
    IN  /\ conn[c].at = "new" /\ terminal_enabled /\ r # NoTerminal /\ loop_free(c)
        /\ expires_at' = [expires_at EXCEPT ![r] = [live EXCEPT ![t] = 0]]
        /\ IF live[t] = 0
             THEN /\ conn' = [conn EXCEPT ![c].at = "refused"]
                  /\ UNCHANGED active_sessions
             ELSE /\ conn' = [conn EXCEPT ![c] =
                                [@ EXCEPT !.at = "accept", !.ticket = t, !.r = r]]
                  /\ active_sessions' = [active_sessions EXCEPT ![r] = @ + 1]
        /\ UNCHANGED <<term_now, terminal_enabled, terminal_registry, making, issued>>

\* websocket.accept and the audit record, outside the try whose finally releases:
\* a failure here ends the handler with the slot taken.  Then pty.fork.
accept(c, ok, forked) ==
    /\ conn[c].at = "accept" /\ loop_free(c)
    /\ conn' = [conn EXCEPT ![c] =
            CASE ~ok -> [@ EXCEPT !.at = "lost"]
              [] ok /\ ~forked -> [@ EXCEPT !.at = "release"]
              [] ok /\ forked -> [@ EXCEPT !.at = "run", !.shell = "alive"]]
    /\ UNCHANGED <<term_now, terminal_enabled, registryVars>>

-----------------------------------------------------------------------------
(* _run_terminal *)

\* _pty_to_websocket reaps a shell that has ended ...
reap(c) ==
    /\ conn[c].at = "run" /\ conn[c].shell = "exited" /\ loop_free(c)
    /\ conn' = [conn EXCEPT ![c].shell = "reaped"]
    /\ UNCHANGED <<term_now, terminal_enabled, registryVars>>

\* ... and returns once the pty is drained; the writer is cancelled.
reader_ends(c) ==
    /\ conn[c].at = "run" /\ conn[c].shell = "reaped" /\ loop_free(c)
    /\ conn' = [conn EXCEPT ![c].at = "close", ![c].exited = TRUE,
                            ![c].client = "gone"]
    /\ UNCHANGED <<term_now, terminal_enabled, registryVars>>

\* _websocket_to_pty ends on a disconnect, on a failed write or send, or after the
\* idle timeout; the reader is cancelled whatever it knew of the shell.  The client
\* counts as gone from here on.
writer_ends(c) ==
    /\ conn[c].at = "run" /\ loop_free(c)
    /\ conn' = [conn EXCEPT ![c].at = "close", ![c].client = "gone"]
    /\ UNCHANGED <<term_now, terminal_enabled, registryVars>>

\* The finally clause closes the pty, and signals a shell not known to have ended.
close_pty(c) ==
    /\ conn[c].at = "close" /\ loop_free(c)
    /\ conn' = [conn EXCEPT ![c].at = IF conn[c].exited THEN "release" ELSE "term"]
    /\ UNCHANGED <<term_now, terminal_enabled, registryVars>>

\* _terminate_child: the shell has ended (or was reaped before) within two seconds,
\* or it is killed.
terminate_term_only(c, late) ==                  \* mutant: no SIGKILL
    /\ conn[c].at = "term"
    /\ late \/ conn[c].shell \in {"exited", "reaped"}
    /\ conn' = [conn EXCEPT ![c].at = "release",
                            ![c].shell = IF late THEN @ ELSE "reaped"]
    /\ UNCHANGED <<term_now, terminal_enabled, registryVars>>
terminate_waits(c, late) ==                      \* mutant: waits without a deadline
    /\ conn[c].at = "term" /\ ~late
    /\ conn[c].shell \in {"exited", "reaped"}
    /\ conn' = [conn EXCEPT ![c].at = "release", ![c].shell = "reaped"]
    /\ UNCHANGED <<term_now, terminal_enabled, registryVars>>
_terminate_child(c, late) ==
    /\ conn[c].at = "term"
    /\ late \/ conn[c].shell \in {"exited", "reaped"}
    /\ conn' = [conn EXCEPT ![c].at = "release",
                            ![c].shell = IF late THEN "killed" ELSE "reaped"]
    /\ UNCHANGED <<term_now, terminal_enabled, registryVars>>

\* The end of terminal_websocket.
release_twice(c) ==                              \* mutant: also released on close
    /\ conn[c].at = "release" /\ loop_free(c)
    /\ active_sessions' = [active_sessions EXCEPT ![conn[c].r] =
            IF conn[c].exited THEN @ - 2 ELSE @ - 1]
    /\ conn' = [conn EXCEPT ![c].at = "done"]
    /\ UNCHANGED <<term_now, terminal_enabled, terminal_registry, making, expires_at, issued>>
release_slot(c) ==
    /\ conn[c].at = "release" /\ loop_free(c)
    /\ active_sessions' = [active_sessions EXCEPT ![conn[c].r] = IF @ = 0 THEN 0 ELSE @ - 1]
    /\ conn' = [conn EXCEPT ![c].at = "done"]
    /\ UNCHANGED <<term_now, terminal_enabled, terminal_registry, making, expires_at, issued>>

-----------------------------------------------------------------------------
(* The shell, the client, the clock and the setting *)

shell_exits(c) ==
    /\ conn[c].shell = "alive"
    /\ conn' = [conn EXCEPT ![c].shell = "exited"]
    /\ UNCHANGED <<term_now, terminal_enabled, registryVars>>

client_leaves(c) ==
    /\ conn[c].at = "run" /\ conn[c].client = "live"
    /\ conn' = [conn EXCEPT ![c].client = "gone"]
    /\ UNCHANGED <<term_now, terminal_enabled, registryVars>>

set_terminal_enabled ==
    /\ terminal_enabled' = ~terminal_enabled
    /\ UNCHANGED <<term_now, registryVars, conn>>

TermTick ==
    /\ term_now < MaxTermTime
    /\ term_now' = term_now + 1
    /\ UNCHANGED <<terminal_enabled, registryVars, conn>>

-----------------------------------------------------------------------------

TermInit ==
    /\ term_now = 1
    /\ terminal_enabled = TRUE
    /\ terminal_registry = NoTerminal
    /\ making = {}
    /\ expires_at = [r \in Registries |-> [t \in Tickets |-> 0]]
    /\ active_sessions = [r \in Registries |-> 0]
    /\ issued = {}
    /\ conn = [c \in Conns |-> NewConn]

\* Steps of one handler on the event loop.
handler(c) ==
    \/ \E ok, forked \in BOOLEAN : accept(c, ok, forked)
    \/ reap(c) \/ reader_ends(c) \/ close_pty(c) \/ release_slot(c)
    \/ \E late \in BOOLEAN : _terminate_child(c, late)

TermNext ==
    \/ \E r \in Registries : find_no_terminal(r) \/ make_terminal(r)
    \/ \E t \in Tickets : issue(t) \/ \E c \in Conns : consume(c, t)
    \/ \E c \in Conns : handler(c) \/ writer_ends(c) \/ shell_exits(c) \/ client_leaves(c)
    \/ set_terminal_enabled \/ TermTick

\* The event loop runs every ready handler; a client that is gone ends the writer,
\* at the latest by the idle timeout.
TermFairness ==
    \A c \in Conns : /\ WF_termVars(handler(c))
                     /\ WF_termVars(writer_ends(c) /\ conn[c].client = "gone")

TermSpec == TermInit /\ [][TermNext]_termVars /\ TermFairness

-----------------------------------------------------------------------------
(* Properties *)

Ended   == {"done", "refused", "new"}
Holding(r) == {c \in Conns : conn[c].r = r /\ conn[c].at \notin Ended}

(* The registry's counters, tickets and connections have their types. *)
TermTypeOK ==
    /\ term_now \in Nat /\ terminal_enabled \in BOOLEAN
    /\ terminal_registry \in Registries \cup {NoTerminal}
    /\ making \subseteq Registries /\ issued \subseteq Tickets
    /\ expires_at \in [Registries -> [Tickets -> Nat]]
    /\ active_sessions \in [Registries -> Nat]
    /\ conn \in [Conns -> [at : {"new", "refused", "accept", "lost", "run", "close", "term",
                                 "release", "done"},
                           ticket : Tickets \cup {NoTicket},
                           r : Registries \cup {NoTerminal},
                           shell : {"none", "alive", "exited", "reaped", "killed"},
                           client : {"live", "gone"}, exited : BOOLEAN]]
    /\ \A c \in Conns : conn[c].at \notin {"new", "refused"} =>
            conn[c].r \in Registries /\ conn[c].ticket \in Tickets

(* A registry's counter is the number of its connections that hold a slot,   *)
(* from consume to release - no slot is released twice or by a refused       *)
(* connection -, slots and open tickets together never exceed the limit, and *)
(* a ticket opens at most one terminal, however many connections present it. *)
SlotAccounting ==
    /\ \A r \in Registries :
        /\ active_sessions[r] = Cardinality(Holding(r))
        /\ active_sessions[r] + Cardinality(tickets(r)) <= max_sessions
    /\ \A c, d \in Conns : conn[c].ticket = conn[d].ticket /\ conn[c].ticket # NoTicket => c = d

(* When a handler gives its slot back its shell is dead: the limit on        *)
(* sessions is a limit on shells, also when the client left while the shell  *)
(* ignored SIGTERM.                                                          *)
NoOrphanShell == \A c \in Conns : conn[c].at \in {"release", "done"} => conn[c].shell # "alive"

(* A terminal whose client is gone or whose shell has ended gives its slot   *)
(* back, although another handler may be blocking the event loop.            *)
TerminalEnds ==
    \A c \in Conns :
        (conn[c].at = "run" /\ (conn[c].client = "gone" \/ conn[c].shell = "exited"))
            ~> conn[c].at = "done"
===============================================================================
