----------------------------- MODULE ServerControl -----------------------------
(***************************************************************************)
(* The ocserv process and the handlers that change what it should run      *)
(* with.  ocserv reads ocserv.conf when it starts; on SIGHUP it reads it   *)
(* again but keeps the ports, sockets and auth methods it started with.  A *)
(* handler that saves settings decides by comparing the ocserv.conf of the *)
(* configuration the panel held before the save with the one after it; it  *)
(* then restarts or signals the process through supervisord.               *)
(*                                                                         *)
(* The interior of apply_config_patch is the subject of ConfigPatch; here  *)
(* it is one step, and every call to supervisord is one.                   *)
(***************************************************************************)
EXTENDS Integers

CONSTANTS
    ServerWorkers,    \* worker threads of the panel, korctl processes
    ServerValues,     \* values of a setting
    Saves,            \* the saves of the settings pages that may be requested
    MaxServerOps,     \* bound: requests
    MaxServerFaults   \* bound: calls to supervisord that fail, and crashes of ocserv

\* The server page replaces the server section and may be told not to reload; the
\* auth methods and the identity connector are auth lines.
PageSaves ==
    [patch : [enabled : BOOLEAN, port : ServerValues, limit : ServerValues], reload : BOOLEAN]
    \cup [patch : [auth : ServerValues], reload : {TRUE}]

ASSUME ServerAssumption ==
    /\ ServerValues # {}
    /\ Saves \subseteq PageSaves
    /\ MaxServerOps \in Nat /\ MaxServerFaults \in Nat

VARIABLES
    saved,         \* config.yaml: server.enabled, the port, the auth methods, a limit
    panel_config,  \* app.state.config
    ocserv_conf,   \* the generated ocserv.conf
    ocserv,        \* [running, conf]: the process, and what it runs with
    sjob,          \* worker -> the request it is serving
    settled,       \* no save left ocserv behind since it last caught up (history)
    server_ops, server_faults

serverVars == <<saved, panel_config, ocserv_conf, ocserv, sjob, settled, server_ops,
                server_faults>>
configVars == <<saved, panel_config>>

Settings == [enabled : BOOLEAN, port : ServerValues, auth : ServerValues, limit : ServerValues]
Idling   == [at |-> "idle"]
Others(w) == {v \in ServerWorkers \ {w} : sjob[v] # Idling}

\* OcservConfigRenderer.render: server.enabled is no part of ocserv.conf.
render_ocserv(c) == [port |-> c.port, auth |-> c.auth, limit |-> c.limit]

restart_only_settings(conf) == <<conf.port, conf.auth>>
restart_never(previous, current) == FALSE                        \* mutant: SIGHUP will do
restart_always(previous, current) == previous # current          \* mutant
restart_required(previous, current) ==
    restart_only_settings(previous) # restart_only_settings(current)

go_on(w, j) == sjob' = [sjob EXCEPT ![w] = j]
done(w) == go_on(w, Idling)

\* A request arrives; whatever is in progress does not run alone any more (history).
begin(w, j) ==
    /\ sjob[w] = Idling
    /\ server_ops < MaxServerOps
    /\ server_ops' = server_ops + 1
    /\ sjob' = [v \in ServerWorkers |->
                    IF v = w THEN j
                    ELSE IF v \in Others(w) THEN [sjob[v] EXCEPT !.alone = FALSE] ELSE Idling]
    /\ settled' = (settled /\ Others(w) = {})
    /\ UNCHANGED server_faults

-----------------------------------------------------------------------------
(* Settings pages *)

\* running_ocserv_conf is rendered from the panel's configuration.
save_settings(w) ==
    /\ \E s \in Saves :
        begin(w, [at |-> "patch", save |-> s, previous |-> render_ocserv(panel_config),
                  alone |-> Others(w) = {}])
    /\ UNCHANGED <<configVars, ocserv_conf, ocserv>>

merge(c, patch) == [f \in DOMAIN c |-> IF f \in DOMAIN patch THEN patch[f] ELSE c[f]]

patch_config(w) ==
    /\ sjob[w].at = "patch"
    /\ LET s == sjob[w].save
           loaded == merge(saved, s.patch)
       IN  /\ saved' = loaded /\ panel_config' = loaded
           /\ ocserv_conf' = render_ocserv(loaded)
           /\ settled' = (settled /\ (s.reload \/ loaded = saved) /\ loaded.enabled)
           /\ go_on(w, IF s.reload
                         THEN [at |-> "apply", previous |-> sjob[w].previous, config |-> loaded,
                               alone |-> sjob[w].alone]
                         ELSE Idling)
    /\ UNCHANGED <<ocserv, server_ops, server_faults>>

\* PATCH /api/config, the source editor and korctl save and render without telling
\* ocserv; only the panel's own saves reach its cached configuration.
edit_elsewhere(patch, by_panel) ==
    LET loaded == merge(saved, patch)
    IN  /\ server_ops < MaxServerOps
        /\ loaded # saved
        /\ server_ops' = server_ops + 1
        /\ saved' = loaded /\ ocserv_conf' = render_ocserv(loaded)
        /\ panel_config' = IF by_panel THEN loaded ELSE panel_config
        /\ settled' = FALSE
        /\ UNCHANGED <<ocserv, sjob, server_faults>>

\* apply_config_change: nothing for a disabled server; a restart renders the files
\* of the configuration this request saved.
apply_config_change(w) ==
    LET config == sjob[w].config
        conf == render_ocserv(config)
    IN  /\ sjob[w].at = "apply"
        /\ \/ /\ ~config.enabled
              /\ done(w) /\ UNCHANGED ocserv_conf
           \/ /\ config.enabled /\ restart_required(sjob[w].previous, conf)
              /\ ocserv_conf' = conf
              /\ go_on(w, [at |-> "stop", for |-> "save", conf |-> conf, alone |-> sjob[w].alone])
           \/ /\ config.enabled /\ ~restart_required(sjob[w].previous, conf)
              /\ go_on(w, [at |-> "hup", alone |-> sjob[w].alone]) /\ UNCHANGED ocserv_conf
        /\ UNCHANGED <<configVars, ocserv, settled, server_ops, server_faults>>

-----------------------------------------------------------------------------
(* Start, stop, reload and restart.  The server page and korctl server render   *)
(* the files first, from the panel's configuration or from config.yaml; the     *)
(* process page and korctl server process do not.                               *)

files_before_start == {render_ocserv(panel_config), render_ocserv(saved), ocserv_conf}

start_server(w, conf) ==
    /\ begin(w, [at |-> "start", alone |-> Others(w) = {}])
    /\ ocserv_conf' = conf
    /\ UNCHANGED <<configVars, ocserv>>

restart_server(w, conf) ==
    /\ begin(w, [at |-> "stop", for |-> "restart", conf |-> conf, alone |-> Others(w) = {}])
    /\ ocserv_conf' = conf
    /\ UNCHANGED <<configVars, ocserv>>

stop_server(w) ==
    /\ begin(w, [at |-> "stop_only", alone |-> Others(w) = {}])
    /\ UNCHANGED <<configVars, ocserv_conf, ocserv>>

reload_server(w) ==
    /\ begin(w, [at |-> "hup", alone |-> Others(w) = {}])
    /\ UNCHANGED <<configVars, ocserv_conf, ocserv>>

-----------------------------------------------------------------------------
(* Calls to supervisord *)

\* stopProcess; for a restart a process that does not run is as good as stopped.
stop_process(w) ==
    /\ sjob[w].at \in {"stop", "stop_only"}
    /\ ocserv' = [ocserv EXCEPT !.running = FALSE]
    /\ go_on(w, IF sjob[w].at = "stop" THEN [at |-> "start", alone |-> sjob[w].alone] ELSE Idling)
    /\ UNCHANGED <<configVars, ocserv_conf, settled, server_ops, server_faults>>

\* startProcess: ALREADY_STARTED leaves the process as it is.
start_process(w) ==
    /\ sjob[w].at = "start"
    /\ IF ocserv.running
         THEN UNCHANGED <<ocserv, settled>>
         ELSE /\ ocserv' = [running |-> TRUE, conf |-> ocserv_conf]
              /\ settled' = IF sjob[w].alone
                              THEN saved.enabled /\ panel_config = saved
                                   /\ ocserv_conf = render_ocserv(saved)
                              ELSE settled
    /\ done(w)
    /\ UNCHANGED <<configVars, ocserv_conf, server_ops, server_faults>>

\* signalProcess HUP fails without a process.
signal_process(w) ==
    /\ sjob[w].at = "hup"
    /\ ocserv' = IF ocserv.running
                   THEN [ocserv EXCEPT !.conf = [port |-> ocserv.conf.port,
                                                 auth |-> ocserv.conf.auth,
                                                 limit |-> ocserv_conf.limit]]
                   ELSE ocserv
    /\ done(w)
    /\ UNCHANGED <<configVars, ocserv_conf, settled, server_ops, server_faults>>

\* supervisord does not answer: the request ends and reports the failure.
rpc_fails(w) ==
    /\ sjob[w].at \in {"stop", "stop_only", "start", "hup"}
    /\ server_faults < MaxServerFaults
    /\ server_faults' = server_faults + 1
    /\ settled' = FALSE
    /\ done(w)
    /\ UNCHANGED <<configVars, ocserv_conf, ocserv, server_ops>>

\* ocserv dies and supervisord starts it again, or gives up.
ocserv_dies(again) ==
    /\ ocserv.running
    /\ server_faults < MaxServerFaults
    /\ server_faults' = server_faults + 1
    /\ ocserv' = [running |-> again, conf |-> ocserv_conf]
    /\ sjob' = [v \in ServerWorkers |->
                    IF sjob[v] = Idling THEN Idling ELSE [sjob[v] EXCEPT !.alone = FALSE]]
    /\ UNCHANGED <<configVars, ocserv_conf, settled, server_ops>>

-----------------------------------------------------------------------------

ServerInit ==
    /\ saved = [enabled |-> TRUE, port |-> CHOOSE v \in ServerValues : TRUE,
                auth |-> CHOOSE v \in ServerValues : TRUE,
                limit |-> CHOOSE v \in ServerValues : TRUE]
    /\ panel_config = saved
    /\ ocserv_conf = render_ocserv(saved)
    /\ ocserv = [running |-> TRUE, conf |-> render_ocserv(saved)]
    /\ sjob = [w \in ServerWorkers |-> Idling]
    /\ settled = TRUE
    /\ server_ops = 0 /\ server_faults = 0

ServerNext ==
    \/ \E w \in ServerWorkers :
        \/ save_settings(w) \/ patch_config(w) \/ apply_config_change(w)
        \/ \E conf \in files_before_start : start_server(w, conf) \/ restart_server(w, conf)
        \/ stop_server(w) \/ reload_server(w)
        \/ stop_process(w) \/ start_process(w) \/ signal_process(w) \/ rpc_fails(w)
    \/ \E patch \in [auth : ServerValues] \cup [limit : ServerValues], by_panel \in BOOLEAN :
            edit_elsewhere(patch, by_panel)
    \/ \E again \in BOOLEAN : ocserv_dies(again)

ServerSpec == ServerInit /\ [][ServerNext]_serverVars

-----------------------------------------------------------------------------
(* Properties *)

Conf == [port : ServerValues, auth : ServerValues, limit : ServerValues]

(* Files and process hold configurations, and every request is at a step of  *)
(* a save or of a process action.                                            *)
ServerTypeOK ==
    /\ saved \in Settings /\ panel_config \in Settings
    /\ ocserv_conf \in Conf /\ ocserv \in [running : BOOLEAN, conf : Conf]
    /\ \A w \in ServerWorkers :
        /\ sjob[w].at \in {"idle", "patch", "apply", "stop", "stop_only", "start", "hup"}
        /\ sjob[w] # Idling => sjob[w].alone \in BOOLEAN
    /\ settled \in BOOLEAN

(* The running ocserv uses what is saved: after any sequence of saves, stops, *)
(* starts and crashes, auth methods and ports included - as long as nothing  *)
(* was saved without a reload since ocserv last caught up, no two requests   *)
(* overlapped and supervisord answered.                                      *)
ConfigInForce ==
    (settled /\ ocserv.running /\ \A w \in ServerWorkers : sjob[w] = Idling)
        => ocserv.conf = render_ocserv(saved)

(* A save disconnects the VPN sessions only for a setting that the running   *)
(* process cannot take over: it stops ocserv only if the ports or the auth   *)
(* methods it runs with differ from the saved ones.                          *)
SaveKeepsSessions ==
    [][\A w \in ServerWorkers :
         (/\ sjob[w].at = "stop" /\ sjob[w].for = "save" /\ sjob[w].alone /\ settled
          /\ ocserv.running /\ ~ocserv'.running)
           => restart_only_settings(ocserv.conf) # restart_only_settings(sjob[w].conf)]_serverVars
===============================================================================
