----------------------------- MODULE AuthSessions -----------------------------
(***************************************************************************)
(* The panel's admin sessions and login throttle.  AuthSessionRegistry     *)
(* takes its lock in every method, so each method is one step; a login is  *)
(* several: may this source try, is the password right, may it try a code, *)
(* is the code right, create the session.  Requests run in worker threads, *)
(* so the steps of several logins interleave.                              *)
(*                                                                         *)
(* The registry is made on first use without a lock.  A thread that saw    *)
(* none before another made one replaces it later, whenever it gets to run:*)
(* the registry a thread makes is identified with the thread.              *)
(***************************************************************************)
EXTENDS Integers, Sequences, FiniteSets, Lists

CONSTANTS
    Threads,           \* worker threads of the panel
    Sources,           \* client addresses
    Tokens,            \* bound: session tokens handed out
    NoRegistry,        \* app.state.auth_sessions before its first use
    session_lifetime,  \* web.session_lifetime
    login_limit,       \* login_allowed: limit
    login_window,      \* login_allowed: window_seconds
    MaxLogins          \* bound: passwords sent

ASSUME AuthAssumption ==
    /\ IsFiniteSet(Threads)
    /\ NoRegistry \notin Threads
    /\ session_lifetime \in Nat \ {0}
    /\ login_limit \in Nat \ {0}
    /\ login_window \in Nat
    /\ MaxLogins \in Nat

VARIABLES
    registry,     \* app.state.auth_sessions
    sessions,     \* registry -> token -> age of the session and of its last use
    failures,     \* registry -> key -> ages of the recorded failures
    login,        \* thread -> the login or Basic request it is serving
    logins,       \* passwords sent so far (bound)
    totp_enabled, \* web.admin_totp_enabled
    guesses,      \* registry -> factor -> wrong answers since a right one (history)
    history,      \* token -> its age, time since its last use, logged out (history)
    accepted      \* the token accepted by the last step (history)

authVars == <<registry, sessions, failures, login, logins,
              totp_enabled, guesses, history, accepted>>

Factors == {"password", "totp"}
LoginKeys == Factors \X Sources
NoToken == <<>>
NoSession == [age |-> -1, idle |-> -1]        \* no session under this token
NoLogin   == [at |-> "idle"]

\* A session may be renewed by use, but never beyond this age.
absolute_lifetime == 4 * session_lifetime

\* Times are kept as ages, which stop counting where nothing compares them any more.
older_age(n, limit) == IF n \in 0 .. limit THEN n + 1 ELSE n
Ages(limit) == -1 .. (limit + 1)

\* The throttle keys of the two login steps.
password_key(s) == <<"password", s>>
totp_key_shared(s) == <<"password", s>>     \* mutant: one key for both steps
totp_key(s) == <<"totp", s>>

-----------------------------------------------------------------------------
(* AuthSessionRegistry *)

_prune_age_only(tokens) ==                  \* mutant: idle sessions are kept
    [t \in Tokens |-> IF tokens[t].age > absolute_lifetime THEN NoSession ELSE tokens[t]]
_prune(tokens) ==
    [t \in Tokens |-> IF \/ tokens[t].idle >= session_lifetime
                         \/ tokens[t].age > absolute_lifetime
                        THEN NoSession ELSE tokens[t]]

create(r, t) ==
    /\ history[t].age = -1
    /\ sessions' = [sessions EXCEPT ![r] = [_prune(@) EXCEPT ![t] = [age |-> 0, idle |-> 0]]]
    /\ history' = [history EXCEPT ![t].age = 0, ![t].idle = 0]

\* A live session is renewed and returned; anything else is no session.
get(r, t) ==
    LET live == _prune(sessions[r])
    IN  IF live[t] = NoSession
          THEN /\ sessions' = [sessions EXCEPT ![r] = live]
               /\ accepted' = NoToken
               /\ UNCHANGED history
          ELSE /\ sessions' = [sessions EXCEPT ![r] = [live EXCEPT ![t].idle = 0]]
               /\ accepted' = <<t>>
               /\ history' = [history EXCEPT ![t].idle = 0]

revoke(r, t) ==
    /\ sessions' = [sessions EXCEPT ![r][t] = NoSession]
    /\ history' = [history EXCEPT ![t].revoked = TRUE]

\* The failures a check of the throttle keeps.
recent(attempts) ==
    only(attempts, {i \in DOMAIN attempts : attempts[i] <= login_window})

login_allowed(r, k) == Len(recent(failures[r][k])) < login_limit

\* login_allowed stores the list it filtered, whatever it answers.  The history
\* of wrong answers forgets the same ones.
prune_failures(r, k, factor) ==
    /\ failures' = [failures EXCEPT ![r][k] = recent(@)]
    /\ guesses'  = [guesses EXCEPT ![r][factor] = recent(@)]

record_failure(r, k, factor) ==
    /\ failures' = [failures EXCEPT ![r][k] = Append(@, 0)]
    /\ guesses'  = [guesses EXCEPT ![r][factor] = Append(@, 0)]

clear_failures(r, k, factor) ==
    /\ failures' = [failures EXCEPT ![r][k] = <<>>]
    /\ guesses'  = [guesses EXCEPT ![r][factor] = <<>>]

-----------------------------------------------------------------------------
(* Logins and Basic requests *)

\* auth_registry: a thread that finds no registry makes one ...
find_no_registry(w) ==
    /\ login[w] = NoLogin
    /\ registry = NoRegistry
    /\ login' = [login EXCEPT ![w] = [at |-> "make"]]
    /\ accepted' = NoToken
    /\ UNCHANGED <<registry, sessions, failures, totp_enabled, guesses, history, logins>>

\* ... and stores it, over one that another thread stored meanwhile.  The request
\* goes on with the registry it made; what it does there commutes with a later
\* replacement, so it continues as a new request.
make_registry(w) ==
    /\ login[w].at = "make"
    /\ registry' = w
    /\ login' = [login EXCEPT ![w] = NoLogin]
    /\ accepted' = NoToken
    /\ UNCHANGED <<sessions, failures, totp_enabled, guesses, history, logins>>

\* authenticate_password up to the check, for POST /login or a Basic request.
authenticate_password(w, s, for) ==
    LET k == password_key(s)
    IN  /\ login[w] = NoLogin
        /\ logins < MaxLogins
        /\ logins' = logins + 1
        /\ registry # NoRegistry
        /\ prune_failures(registry, k, k)
        /\ login' = [login EXCEPT ![w] =
                IF login_allowed(registry, k)
                  THEN [at |-> "password", r |-> registry, s |-> s, for |-> for]
                  ELSE NoLogin]
        /\ accepted' = NoToken
        /\ UNCHANGED <<registry, sessions, totp_enabled, history>>

\* The rest of authenticate_password: a wrong answer is recorded, a right one
\* clears the source's failures.  A Basic request then runs its handler (the one
\* that matters here sets admin_totp_enabled); a login looks whether a code is
\* needed, which the form is first sent without.
check_password(w, right, code) ==
    LET l == login[w]
        k == password_key(l.s)
    IN  /\ l.at = "password"
        /\ IF right THEN clear_failures(l.r, k, k) ELSE record_failure(l.r, k, k)
        /\ login' = [login EXCEPT ![w] =
                CASE ~right \/ l.for = "basic" -> NoLogin
                  [] right /\ l.for = "login" /\ ~totp_enabled -> [at |-> "create"]
                  [] right /\ l.for = "login" /\ totp_enabled ->
                        IF code THEN [at |-> "second", s |-> l.s] ELSE NoLogin]
        /\ totp_enabled' \in IF right /\ l.for = "basic" THEN BOOLEAN ELSE {totp_enabled}
        /\ accepted' = NoToken
        /\ UNCHANGED <<registry, sessions, history, logins>>

\* login, second factor: may this source try another code?
second_factor(w) ==
    LET l == login[w]
        k == totp_key(l.s)
    IN  /\ l.at = "second"
        /\ prune_failures(registry, k, <<"totp", l.s>>)
        /\ login' = [login EXCEPT ![w] =
                IF login_allowed(registry, k)
                  THEN [at |-> "code", r |-> registry, s |-> l.s] ELSE NoLogin]
        /\ accepted' = NoToken
        /\ UNCHANGED <<registry, sessions, totp_enabled, history, logins>>

\* verify_code, and what follows from its answer.
check_code(w, right) ==
    LET l == login[w]
        k == totp_key(l.s)
    IN  /\ l.at = "code"
        /\ IF right THEN clear_failures(l.r, k, <<"totp", l.s>>)
                    ELSE record_failure(l.r, k, <<"totp", l.s>>)
        /\ login' = [login EXCEPT ![w] = IF right THEN [at |-> "create"] ELSE NoLogin]
        /\ accepted' = NoToken
        /\ UNCHANGED <<registry, sessions, totp_enabled, history, logins>>

\* The end of login: the session goes into the registry of this moment.
login_create(w, t) ==
    /\ login[w].at = "create"
    /\ create(registry, t)
    /\ login' = [login EXCEPT ![w] = NoLogin]
    /\ accepted' = NoToken
    /\ UNCHANGED <<registry, failures, totp_enabled, guesses, logins>>

-----------------------------------------------------------------------------
(* Requests with a session cookie *)

\* require_admin on a request that carries t.  A session without the right CSRF
\* token is renewed all the same, but the request changes nothing.
require_admin(t, csrf, totp) ==
    /\ registry # NoRegistry
    /\ get(registry, t)
    /\ totp_enabled' = IF csrf /\ accepted' # NoToken THEN totp ELSE totp_enabled
    /\ UNCHANGED <<registry, failures, login, guesses, logins>>

logout(t) ==
    /\ registry # NoRegistry
    /\ history[t].age # -1
    /\ revoke(registry, t)
    /\ accepted' = NoToken
    /\ UNCHANGED <<registry, failures, login, totp_enabled, guesses, logins>>

\* Time passes for the sessions, the recorded failures and their histories.
AuthTick ==
    LET session_tick(x) == [x EXCEPT !.age = older_age(@, absolute_lifetime),
                                     !.idle = older_age(@, session_lifetime)]
        failure_tick(f) == [r \in Threads |-> [k \in LoginKeys |->
            [i \in DOMAIN f[r][k] |-> older_age(f[r][k][i], login_window)]]]
    IN  /\ sessions' = [r \in Threads |-> [t \in Tokens |-> session_tick(sessions[r][t])]]
        /\ history' = [t \in Tokens |-> session_tick(history[t])]
        /\ failures' = failure_tick(failures)
        /\ guesses' = failure_tick(guesses)
        /\ accepted' = NoToken
        /\ UNCHANGED <<registry, login, totp_enabled, logins>>

-----------------------------------------------------------------------------

AuthInit ==
    /\ registry = NoRegistry
    /\ sessions = [r \in Threads |-> [t \in Tokens |-> NoSession]]
    /\ failures = [r \in Threads |-> [k \in LoginKeys |-> <<>>]]
    /\ login = [w \in Threads |-> NoLogin]
    /\ logins = 0
    /\ totp_enabled \in BOOLEAN
    /\ guesses = [r \in Threads |-> [k \in LoginKeys |-> <<>>]]
    /\ history = [t \in Tokens |-> [age |-> -1, idle |-> -1, revoked |-> FALSE]]
    /\ accepted = NoToken

AuthNext ==
    \/ \E w \in Threads : \/ find_no_registry(w)
                          \/ make_registry(w)
                          \/ second_factor(w)
                          \/ \E right \in BOOLEAN : check_code(w, right)
                          \/ \E right, code \in BOOLEAN : check_password(w, right, code)
                          \/ \E t \in Tokens : login_create(w, t)
    \/ \E w \in Threads, s \in Sources, for \in {"login", "basic"} :
            authenticate_password(w, s, for)
    \/ \E t \in Tokens : \/ logout(t)
                         \/ \E csrf, totp \in BOOLEAN : require_admin(t, csrf, totp)
    \/ AuthTick

AuthSpec == AuthInit /\ [][AuthNext]_authVars

-----------------------------------------------------------------------------
(* Properties *)

Registry == Threads \cup {NoRegistry}
Request ==
    {NoLogin} \cup [at : {"make", "create"}]
    \cup [at : {"password"}, r : Threads, s : Sources, for : {"login", "basic"}]
    \cup [at : {"second"}, s : Sources]
    \cup [at : {"code"}, r : Threads, s : Sources]

(* The registry's maps hold sessions and lists of times, and every request is *)
(* at a step of login or require_admin.                                      *)
AuthTypeOK ==
    /\ logins \in Nat
    /\ registry \in Registry
    /\ sessions \in [Threads -> [Tokens -> [age : Ages(absolute_lifetime),
                                            idle : Ages(session_lifetime)]]]
    /\ failures \in [Threads -> [LoginKeys -> Seq(Ages(login_window))]]
    /\ guesses \in [Threads -> [LoginKeys -> Seq(Ages(login_window))]]
    /\ login \in [Threads -> Request]
    /\ totp_enabled \in BOOLEAN
    /\ registry = NoRegistry => \A w \in Threads : login[w].at \in {"idle", "make"}

(* However many logins run in parallel, a source gives at most limit - 1 +   *)
(* number of threads wrong answers to one factor between right answers to    *)
(* that factor, as far as one registry remembers them: the throttle's check  *)
(* and its record are separate steps, and a right password says nothing      *)
(* about the code (login keeps a key of its own for the codes).              *)
GuessesBounded ==
    \A r \in Threads, k \in LoginKeys :
        Len(guesses[r][k]) <= login_limit - 1 + Cardinality(Threads)

(* A cookie is accepted only while its session was used less than a lifetime *)
(* ago, is not older than four lifetimes, and was never logged out - also    *)
(* when a thread that saw no registry replaced the registry meanwhile.       *)
AcceptedSessionLive ==
    [][\A t \in Tokens : accepted' = <<t>> =>
            /\ ~history[t].revoked
            /\ history[t].age <= absolute_lifetime
            /\ history[t].idle < session_lifetime]_authVars
===============================================================================
