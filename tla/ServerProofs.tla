----------------------------- MODULE ServerProofs -----------------------------
(***************************************************************************)
(* Proofs about ServerControl, for any number of workers, values of the    *)
(* settings, requests and failures; and about the composition of all the   *)
(* panel's parts, for which it brings their proofs together.               *)
(***************************************************************************)
EXTENDS MCPanel, PanelProofs, CertificateProofs

\* What a worker can be doing.
SaveJob  == [patch : [enabled : BOOLEAN, port : ServerValues, limit : ServerValues]
                     \cup [auth : ServerValues], reload : BOOLEAN]
ServerJobs ==
    {Idling}
    \cup [at : {"patch"}, save : SaveJob, previous : Conf, alone : BOOLEAN]
    \cup [at : {"apply"}, previous : Conf, config : Settings, alone : BOOLEAN]
    \cup [at : {"stop"}, for : {"save", "restart"}, conf : Conf, alone : BOOLEAN]
    \cup [at : {"stop_only", "start", "hup"}, alone : BOOLEAN]

Busy(w) == sjob[w] # Idling

Typed ==
    /\ saved \in Settings /\ panel_config \in Settings
    /\ ocserv_conf \in Conf /\ ocserv \in [running : BOOLEAN, conf : Conf]
    /\ sjob \in [ServerWorkers -> ServerJobs]
    /\ settled \in BOOLEAN

\* A request that runs alone is the only one, and so is one that finds ocserv settled.
Lone ==
    \A v, w \in ServerWorkers :
        Busy(v) /\ Busy(w) /\ (sjob[w].alone \/ settled) => v = w

\* While ocserv is settled, the files are those of the saved configuration ...
ServerFiles ==
    settled => /\ saved.enabled /\ panel_config = saved /\ ocserv_conf = render_ocserv(saved)
               /\ \A w \in ServerWorkers : sjob[w].at = "apply" => sjob[w].config = saved

\* ... and so is what ocserv runs with, except for what the one request in progress
\* has yet to bring about: what conf may be during request j if c is saved.
Due(j, conf, c) ==
    /\ j.at = "patch" => j.previous = render_ocserv(c) /\ conf = render_ocserv(c)
    /\ j.at = "apply" => conf \in {j.previous, render_ocserv(c)}
    /\ j.at = "hup" => restart_only_settings(conf) = restart_only_settings(render_ocserv(c))
    /\ j.at \in {"idle", "start", "stop_only"} => conf = render_ocserv(c)

InForce ==
    settled /\ ocserv.running =>
        /\ (\A w \in ServerWorkers : ~Busy(w)) => ocserv.conf = render_ocserv(saved)
        /\ \A w \in ServerWorkers : Busy(w) => Due(sjob[w], ocserv.conf, saved)

\* Nothing but the lone request j has touched ocserv since j noted what ocserv had.
NotedBy(j, conf) ==
    j # Idling /\ j.alone =>
        /\ j.at \in {"patch", "apply"} => j.previous = conf
        /\ j.at = "stop" /\ j.for = "save" =>
                restart_only_settings(conf) # restart_only_settings(j.conf)
Noted ==
    settled /\ ocserv.running => \A w \in ServerWorkers : NotedBy(sjob[w], ocserv.conf)

ServerInv == Typed /\ Lone /\ ServerFiles /\ InForce /\ Noted

-----------------------------------------------------------------------------

LEMMA JobFields ==
    /\ Idling.at = "idle"
    /\ \A j \in ServerJobs :
        /\ j.at \in {"idle", "patch", "apply", "stop", "stop_only", "start", "hup"}
        /\ j # Idling <=> j.at # "idle"
        /\ j # Idling => j.alone \in BOOLEAN
        /\ j.at = "patch" => j \in [at : {"patch"}, save : SaveJob, previous : Conf, alone : BOOLEAN]
        /\ j.at = "apply" => j \in [at : {"apply"}, previous : Conf, config : Settings, alone : BOOLEAN]
        /\ j.at = "stop" => j \in [at : {"stop"}, for : {"save", "restart"}, conf : Conf, alone : BOOLEAN]
BY DEF ServerJobs, Idling

LEMMA RenderTyped ==
    \A c \in Settings : render_ocserv(c) \in Conf
BY DEF Settings, Conf, render_ocserv

LEMMA MergeTyped ==
    ASSUME NEW c \in Settings, NEW s \in SaveJob
    PROVE  merge(c, s.patch) \in Settings
<1> DEFINE patch == s.patch
<1>1. CASE patch \in [enabled : BOOLEAN, port : ServerValues, limit : ServerValues]
  <2>1. merge(c, patch) = [enabled |-> patch.enabled, port |-> patch.port, auth |-> c.auth,
                           limit |-> patch.limit]
    BY <1>1 DEF merge, Settings
  <2>2. patch.enabled \in BOOLEAN /\ patch.port \in ServerValues /\ patch.limit \in ServerValues
    BY <1>1
  <2> QED
    BY <2>1, <2>2 DEF Settings
<1>2. CASE patch \in [auth : ServerValues]
  <2>1. merge(c, patch) = [enabled |-> c.enabled, port |-> c.port, auth |-> patch.auth,
                           limit |-> c.limit]
    BY <1>2 DEF merge, Settings
  <2>2. patch.auth \in ServerValues
    BY <1>2
  <2> QED
    BY <2>1, <2>2 DEF Settings
<1> QED
  BY <1>1, <1>2 DEF SaveJob

-----------------------------------------------------------------------------
(* One worker moves *)

LEMMA MoveStep ==
    ASSUME ServerInv, NEW w \in ServerWorkers, NEW j \in ServerJobs, Busy(w),
           sjob' = [sjob EXCEPT ![w] = j],
           j = Idling \/ j.alone = sjob[w].alone,
           saved' \in Settings, panel_config' \in Settings, ocserv_conf' \in Conf,
           ocserv' \in [running : BOOLEAN, conf : Conf], settled' \in BOOLEAN,
           settled' => settled \/ sjob[w].alone,
           settled' => /\ saved'.enabled /\ panel_config' = saved'
                       /\ ocserv_conf' = render_ocserv(saved')
                       /\ j.at = "apply" => j.config = saved',
           settled' /\ ocserv'.running => Due(j, ocserv'.conf, saved') /\ NotedBy(j, ocserv'.conf)
    PROVE  ServerInv'
<1>1. /\ sjob'[w] = j /\ \A v \in ServerWorkers \ {w} : sjob'[v] = sjob[v]
      /\ sjob' \in [ServerWorkers -> ServerJobs]
  BY DEF ServerInv, Typed
<1>2. Typed'
  BY <1>1 DEF Typed
<1>3. \A v \in ServerWorkers : Busy(v)' => Busy(v) /\ (sjob'[v].alone => sjob[v].alone)
  BY <1>1 DEF Busy
<1>4. settled' => \A v \in ServerWorkers \ {w} : ~Busy(v)
  BY DEF ServerInv, Lone
<1>5. Lone'
  <2> SUFFICES ASSUME NEW u \in ServerWorkers, NEW v \in ServerWorkers,
                      Busy(u)', Busy(v)', sjob'[v].alone \/ settled'
               PROVE  u = v
    BY DEF Lone
  <2>1. Busy(u) /\ Busy(v)
    BY <1>3
  <2>2. CASE sjob'[v].alone
    BY <1>3, <2>1, <2>2 DEF ServerInv, Lone
  <2>3. CASE settled'
    BY <1>4, <2>1, <2>3
  <2> QED
    BY <2>2, <2>3
<1>7. settled' => \A v \in ServerWorkers \ {w} : sjob'[v] = Idling
  BY <1>1, <1>4 DEF Busy
<1>6. ServerFiles'
  BY <1>1, <1>7, JobFields DEF ServerFiles
<1>8. InForce'
  BY <1>1, <1>7, JobFields DEF InForce, Busy, Due
<1>9. Noted'
  BY <1>1, <1>7 DEF Noted, NotedBy
<1> QED
  BY <1>2, <1>5, <1>6, <1>8, <1>9 DEF ServerInv

\* A step that leaves ocserv unsettled has only the types and the loneliness to keep.
LEMMA IdlingTyped == Idling \in ServerJobs
BY DEF ServerJobs

LEMMA IdleJobs == Idling.at # "apply"
BY DEF Idling

LEMMA JobOf ==
    ASSUME Typed, NEW w \in ServerWorkers
    PROVE  sjob[w] \in ServerJobs /\ (Busy(w) <=> sjob[w].at # "idle")
BY JobFields DEF Typed, Busy

LEMMA PatchStep ==
    ASSUME ServerInv, NEW w \in ServerWorkers, patch_config(w) PROVE ServerInv'
<1>1. /\ Typed /\ Busy(w) /\ saved \in Settings /\ sjob[w].alone \in BOOLEAN
      /\ sjob[w] \in [at : {"patch"}, save : SaveJob, previous : Conf, alone : BOOLEAN]
  BY JobFields, JobOf DEF patch_config, ServerInv, Typed
<1> DEFINE s == sjob[w].save
           loaded == merge(saved, s.patch)
           j == [at |-> "apply", previous |-> sjob[w].previous, config |-> loaded,
                 alone |-> sjob[w].alone]
<1>2. s \in SaveJob /\ s.reload \in BOOLEAN
  BY <1>1 DEF SaveJob
<1>3. loaded \in Settings /\ render_ocserv(loaded) \in Conf
  BY <1>1, <1>2, MergeTyped, RenderTyped
<1>4. /\ saved' = loaded /\ panel_config' = loaded /\ ocserv_conf' = render_ocserv(loaded)
      /\ ocserv' = ocserv
      /\ settled' = (settled /\ (s.reload \/ loaded = saved) /\ loaded.enabled)
  BY DEF patch_config
<1>5. settled /\ ocserv.running =>
        /\ sjob[w].previous = render_ocserv(saved) /\ ocserv.conf = render_ocserv(saved)
  BY <1>1 DEF ServerInv, InForce, Due
<1> HIDE DEF loaded
<1>6. ocserv \in [running : BOOLEAN, conf : Conf] /\ settled' \in BOOLEAN
  BY <1>4 DEF ServerInv, Typed
<1>7. CASE s.reload
  <2>1. sjob' = [sjob EXCEPT ![w] = j]
    BY <1>7 DEF patch_config, go_on, loaded
  <2>2. j \in ServerJobs /\ j.alone = sjob[w].alone
    BY <1>1, <1>3 DEF ServerJobs
  <2>3. settled' /\ ocserv'.running => Due(j, ocserv'.conf, saved')
    BY <1>4, <1>5 DEF Due
  <2>4. settled' /\ ocserv'.running => NotedBy(j, ocserv'.conf)
    BY <1>4, <1>5 DEF NotedBy
  <2> QED
    BY <1>1, <1>3, <1>4, <1>6, <2>1, <2>2, <2>3, <2>4, MoveStep
<1>8. CASE ~s.reload
  <2>1. sjob' = [sjob EXCEPT ![w] = Idling]
    BY <1>8 DEF patch_config, go_on
  <2>2. settled' /\ ocserv'.running => Due(Idling, ocserv'.conf, saved')
    BY <1>4, <1>5, <1>8, JobFields DEF Due
  <2>3. NotedBy(Idling, ocserv'.conf)
    BY DEF NotedBy
  <2> QED
    BY <1>1, <1>3, <1>4, <1>6, <2>1, <2>2, <2>3, MoveStep, IdlingTyped, IdleJobs
<1> QED
  BY <1>2, <1>7, <1>8

LEMMA ApplyStep ==
    ASSUME ServerInv, NEW w \in ServerWorkers, apply_config_change(w) PROVE ServerInv'
<1>1. /\ Typed /\ Busy(w) /\ sjob[w].alone \in BOOLEAN
      /\ sjob[w] \in [at : {"apply"}, previous : Conf, config : Settings, alone : BOOLEAN]
  BY JobFields, JobOf DEF apply_config_change, ServerInv
<1> DEFINE config == sjob[w].config
           conf == render_ocserv(config)
           stop == [at |-> "stop", for |-> "save", conf |-> conf, alone |-> sjob[w].alone]
           hup == [at |-> "hup", alone |-> sjob[w].alone]
<1>2. config \in Settings /\ conf \in Conf
  BY <1>1, RenderTyped
<1>3. UNCHANGED <<saved, panel_config, ocserv, settled>>
  BY DEF apply_config_change, configVars
<1>4. /\ saved \in Settings /\ panel_config \in Settings /\ ocserv_conf \in Conf
      /\ ocserv \in [running : BOOLEAN, conf : Conf] /\ settled \in BOOLEAN
  BY DEF ServerInv, Typed
<1>5. settled => saved.enabled /\ panel_config = saved /\ ocserv_conf = render_ocserv(saved)
  BY DEF ServerInv, ServerFiles
<1>6. settled /\ ocserv.running =>
        /\ config = saved
        /\ ocserv.conf \in {sjob[w].previous, conf}
        /\ sjob[w].alone => sjob[w].previous = ocserv.conf
  <2> SUFFICES ASSUME settled, ocserv.running
               PROVE  /\ config = saved
                      /\ ocserv.conf \in {sjob[w].previous, conf}
                      /\ sjob[w].alone => sjob[w].previous = ocserv.conf
    OBVIOUS
  <2>1. sjob[w].at = "apply"
    BY <1>1
  <2>2. config = saved
    BY <2>1 DEF ServerInv, ServerFiles
  <2>3. Due(sjob[w], ocserv.conf, saved) /\ NotedBy(sjob[w], ocserv.conf)
    BY <1>1 DEF ServerInv, InForce, Noted
  <2>4. ocserv.conf \in {sjob[w].previous, conf}
    BY <2>1, <2>2, <2>3 DEF Due
  <2>5. sjob[w].alone => sjob[w].previous = ocserv.conf
    BY <1>1, <2>1, <2>3 DEF NotedBy, Busy
  <2> QED
    BY <2>2, <2>4, <2>5
<1>7. CASE ~config.enabled
  <2>1. sjob' = [sjob EXCEPT ![w] = Idling] /\ ocserv_conf' = ocserv_conf
    BY <1>7 DEF apply_config_change, done, go_on
  <2>2. settled /\ ocserv.running => FALSE
    BY <1>5, <1>6, <1>7
  <2> QED
    BY <1>1, <1>3, <1>4, <1>5, <2>1, <2>2, MoveStep, IdlingTyped, IdleJobs
<1>8. CASE config.enabled /\ restart_required(sjob[w].previous, conf)
  <2>1. sjob' = [sjob EXCEPT ![w] = stop] /\ ocserv_conf' = conf
    BY <1>8 DEF apply_config_change, go_on
  <2>2. stop \in ServerJobs /\ stop.alone = sjob[w].alone
    BY <1>1, <1>2 DEF ServerJobs
  <2>3. Due(stop, ocserv.conf, saved)
    BY DEF Due
  <2>4. settled /\ ocserv.running => NotedBy(stop, ocserv.conf)
    BY <1>6, <1>8 DEF NotedBy, restart_required
  <2>5. settled => config = saved
    BY <1>1 DEF ServerInv, ServerFiles
  <2> QED
    BY <1>1, <1>2, <1>3, <1>4, <1>5, <2>1, <2>2, <2>3, <2>4, <2>5, MoveStep
<1>9. CASE config.enabled /\ ~restart_required(sjob[w].previous, conf)
  <2>1. sjob' = [sjob EXCEPT ![w] = hup] /\ ocserv_conf' = ocserv_conf
    BY <1>9 DEF apply_config_change, go_on
  <2>2. hup \in ServerJobs /\ hup.alone = sjob[w].alone
    BY <1>1 DEF ServerJobs
  <2>3. settled /\ ocserv.running => Due(hup, ocserv.conf, saved)
    BY <1>6, <1>9 DEF Due, restart_required
  <2>4. NotedBy(hup, ocserv.conf)
    BY DEF NotedBy
  <2> QED
    BY <1>1, <1>3, <1>4, <1>5, <2>1, <2>2, <2>3, <2>4, MoveStep
<1> QED
  BY <1>7, <1>8, <1>9 DEF apply_config_change

-----------------------------------------------------------------------------
(* Calls to supervisord *)

LEMMA CallFacts ==
    ASSUME ServerInv, NEW w \in ServerWorkers, sjob[w].at # "idle"
    PROVE  /\ Busy(w) /\ sjob[w].alone \in BOOLEAN
           /\ saved \in Settings /\ panel_config \in Settings /\ ocserv_conf \in Conf
           /\ ocserv \in [running : BOOLEAN, conf : Conf] /\ settled \in BOOLEAN
           /\ settled => /\ saved.enabled /\ panel_config = saved
                         /\ ocserv_conf = render_ocserv(saved)
           /\ settled /\ ocserv.running => /\ Due(sjob[w], ocserv.conf, saved)
                                           /\ NotedBy(sjob[w], ocserv.conf)
<1>1. Typed /\ Busy(w)
  BY JobOf DEF ServerInv
<1>2. sjob[w].alone \in BOOLEAN
  BY <1>1, JobOf, JobFields
<1> QED
  BY <1>1, <1>2 DEF ServerInv, Typed, ServerFiles, InForce, Noted

LEMMA StopStep ==
    ASSUME ServerInv, NEW w \in ServerWorkers, stop_process(w) PROVE ServerInv'
<1> DEFINE begun == [at |-> "start", alone |-> sjob[w].alone]
<1>1. sjob[w].at # "idle"
  BY DEF stop_process
<1>2. ocserv' \in [running : BOOLEAN, conf : Conf] /\ ~ocserv'.running
  BY <1>1, CallFacts DEF stop_process
<1>3. UNCHANGED <<saved, panel_config, ocserv_conf, settled>>
  BY DEF stop_process, configVars
<1>4. CASE sjob' = [sjob EXCEPT ![w] = begun]
  <2>1. begun \in ServerJobs /\ begun.alone = sjob[w].alone /\ begun.at # "apply"
    BY <1>1, CallFacts DEF ServerJobs
  <2> QED
    BY <1>1, <1>2, <1>3, <1>4, <2>1, CallFacts, MoveStep
<1>5. CASE sjob' = [sjob EXCEPT ![w] = Idling]
  BY <1>1, <1>2, <1>3, <1>5, CallFacts, MoveStep, IdlingTyped, IdleJobs
<1> QED
  BY <1>4, <1>5 DEF stop_process, go_on

\* A start that runs alone settles ocserv if the files are those of what is saved.
LEMMA ServerStartStep ==
    ASSUME ServerInv, NEW w \in ServerWorkers, start_process(w) PROVE ServerInv'
<1>1. sjob[w].at = "start" /\ sjob[w].at # "idle"
  BY DEF start_process
<1>2. UNCHANGED <<saved, panel_config, ocserv_conf>>
      /\ sjob' = [sjob EXCEPT ![w] = Idling] /\ Idling.at = "idle"
  BY JobFields DEF start_process, configVars, done, go_on
<1>3. \A conf : NotedBy(Idling, conf)
  BY DEF NotedBy
<1>4. CASE ocserv.running
  <2>1. UNCHANGED <<ocserv, settled>>
    BY <1>4 DEF start_process
  <2>2. settled => Due(Idling, ocserv.conf, saved)
    BY <1>1, <1>2, <1>4, CallFacts DEF Due
  <2> QED
    BY <1>1, <1>2, <1>3, <1>4, <2>1, <2>2, CallFacts, MoveStep, IdlingTyped
<1>5. CASE ~ocserv.running
  <2>1. ocserv' = [running |-> TRUE, conf |-> ocserv_conf]
    BY <1>5 DEF start_process
  <2>2. settled' = IF sjob[w].alone
                     THEN saved.enabled /\ panel_config = saved
                          /\ ocserv_conf = render_ocserv(saved)
                     ELSE settled
    BY <1>5 DEF start_process
  <2>3. settled' => /\ settled \/ sjob[w].alone
                    /\ saved.enabled /\ panel_config = saved /\ ocserv_conf = render_ocserv(saved)
    BY <1>1, <2>2, CallFacts
  <2>4. settled' \in BOOLEAN
    <3>1. CASE sjob[w].alone
      BY <1>1, <2>2, <3>1, CallFacts DEF Settings
    <3>2. CASE ~sjob[w].alone
      BY <1>1, <2>2, <3>2, CallFacts
    <3> QED
      BY <3>1, <3>2
  <2>5. settled' => Due(Idling, ocserv'.conf, saved)
    BY <1>2, <2>1, <2>3 DEF Due
  <2>6. ocserv' \in [running : BOOLEAN, conf : Conf]
    BY <1>1, <2>1, CallFacts
  <2> QED
    BY <1>1, <1>2, <1>3, <2>3, <2>4, <2>5, <2>6, CallFacts, MoveStep, IdlingTyped
<1> QED
  BY <1>1, <1>4, <1>5, CallFacts

LEMMA SignalStep ==
    ASSUME ServerInv, NEW w \in ServerWorkers, signal_process(w) PROVE ServerInv'
<1>1. sjob[w].at = "hup" /\ sjob[w].at # "idle"
  BY DEF signal_process
<1>2. UNCHANGED <<saved, panel_config, ocserv_conf, settled>>
      /\ sjob' = [sjob EXCEPT ![w] = Idling] /\ Idling.at = "idle"
  BY JobFields DEF signal_process, configVars, done, go_on
<1>3. \A conf : NotedBy(Idling, conf)
  BY DEF NotedBy
<1>4. CASE ~ocserv.running
  <2>1. ocserv' = ocserv
    BY <1>4 DEF signal_process
  <2> QED
    BY <1>1, <1>2, <1>4, <2>1, CallFacts, MoveStep, IdlingTyped
<1>5. CASE ocserv.running
  <2> DEFINE conf == [port |-> ocserv.conf.port, auth |-> ocserv.conf.auth,
                      limit |-> ocserv_conf.limit]
  <2>1. ocserv' = [ocserv EXCEPT !.conf = conf]
    BY <1>5 DEF signal_process
  <2>2. conf \in Conf
    <3>1. ocserv_conf \in Conf /\ ocserv.conf \in Conf
      BY <1>1, CallFacts
    <3> QED
      BY <3>1 DEF Conf
  <2>3. settled => restart_only_settings(ocserv.conf) = restart_only_settings(render_ocserv(saved))
    BY <1>1, <1>5, CallFacts DEF Due
  <2>4. settled => ocserv.conf.port = saved.port /\ ocserv.conf.auth = saved.auth
    BY <2>3 DEF restart_only_settings, render_ocserv
  <2>5. settled => ocserv_conf.limit = saved.limit
    BY <1>1, CallFacts DEF render_ocserv
  <2>6. settled => conf = render_ocserv(saved)
    BY <2>4, <2>5 DEF render_ocserv
  <2> HIDE DEF conf
  <2>7. ocserv' \in [running : BOOLEAN, conf : Conf] /\ ocserv'.conf = conf
    BY <1>1, <2>1, <2>2, CallFacts
  <2>8. settled => Due(Idling, ocserv'.conf, saved)
    BY <1>2, <2>6, <2>7 DEF Due
  <2> QED
    BY <1>1, <1>2, <1>3, <2>7, <2>8, CallFacts, MoveStep, IdlingTyped
<1> QED
  BY <1>1, <1>4, <1>5, CallFacts

LEMMA FailStep ==
    ASSUME ServerInv, NEW w \in ServerWorkers, rpc_fails(w) PROVE ServerInv'
<1>1. sjob[w].at # "idle"
  BY DEF rpc_fails
<1>2. /\ UNCHANGED <<saved, panel_config, ocserv_conf, ocserv>> /\ settled' = FALSE
      /\ sjob' = [sjob EXCEPT ![w] = Idling]
  BY DEF rpc_fails, configVars, done, go_on
<1> QED
  BY <1>1, <1>2, CallFacts, MoveStep, IdlingTyped, IdleJobs

-----------------------------------------------------------------------------
(* Requests that arrive, edits made elsewhere, and ocserv's death *)

\* A request that is no longer alone.
Joined(j) == IF j = Idling THEN Idling ELSE [j EXCEPT !.alone = FALSE]

LEMMA JoinedJob ==
    ASSUME NEW j \in ServerJobs
    PROVE  /\ Joined(j) \in ServerJobs /\ (Joined(j) = Idling <=> j = Idling)
           /\ Joined(j).at = j.at
           /\ j # Idling => ~Joined(j).alone
           /\ j.at = "patch" => Joined(j).previous = j.previous
           /\ j.at = "apply" => Joined(j).previous = j.previous /\ Joined(j).config = j.config
<1>1. CASE j = Idling
  BY <1>1, JobFields DEF Joined
<1>2. CASE j # Idling
  <2>1. Joined(j) = [j EXCEPT !.alone = FALSE]
    BY <1>2 DEF Joined
  <2>2. CASE j \in [at : {"patch"}, save : SaveJob, previous : Conf, alone : BOOLEAN]
    <3>1. /\ Joined(j) \in [at : {"patch"}, save : SaveJob, previous : Conf, alone : BOOLEAN]
          /\ Joined(j).at = "patch" /\ ~Joined(j).alone /\ Joined(j).previous = j.previous
      BY <2>1, <2>2
    <3> QED
      BY <2>2, <3>1, <1>2, JobFields DEF ServerJobs
  <2>3. CASE j \in [at : {"apply"}, previous : Conf, config : Settings, alone : BOOLEAN]
    <3>1. /\ Joined(j) \in [at : {"apply"}, previous : Conf, config : Settings, alone : BOOLEAN]
          /\ Joined(j).at = "apply" /\ ~Joined(j).alone /\ Joined(j).previous = j.previous
          /\ Joined(j).config = j.config
      BY <2>1, <2>3
    <3> QED
      BY <2>3, <3>1, <1>2, JobFields DEF ServerJobs
  <2>4. CASE j \in [at : {"stop"}, for : {"save", "restart"}, conf : Conf, alone : BOOLEAN]
    <3>1. /\ Joined(j) \in [at : {"stop"}, for : {"save", "restart"}, conf : Conf, alone : BOOLEAN]
          /\ Joined(j).at = "stop" /\ ~Joined(j).alone
      BY <2>1, <2>4
    <3> QED
      BY <2>4, <3>1, <1>2, JobFields DEF ServerJobs
  <2>5. CASE j \in [at : {"stop_only", "start", "hup"}, alone : BOOLEAN]
    <3>1. /\ Joined(j) \in [at : {"stop_only", "start", "hup"}, alone : BOOLEAN]
          /\ Joined(j).at = j.at /\ ~Joined(j).alone
      BY <2>1, <2>5
    <3> QED
      BY <2>5, <3>1, <1>2, JobFields DEF ServerJobs
  <2> QED
    BY <1>2, <2>2, <2>3, <2>4, <2>5 DEF ServerJobs
<1> QED
  BY <1>1, <1>2

\* What is known of an idle worker's request when ocserv is settled.
LEMMA IdleFacts ==
    ASSUME ServerInv, NEW w \in ServerWorkers, sjob[w] = Idling, settled, ocserv.running,
           Others(w) = {}
    PROVE  ocserv.conf = render_ocserv(saved)
BY DEF ServerInv, InForce, Busy, Others

\* A request arrives; ocserv.conf may be rendered from the panel's configuration.
LEMMA BeginStep ==
    ASSUME ServerInv, NEW w \in ServerWorkers, NEW j \in ServerJobs, j # Idling, begin(w, j),
           j.alone <=> Others(w) = {}, j.at # "apply",
           UNCHANGED <<saved, panel_config, ocserv>>, ocserv_conf' \in files_before_start,
           settled /\ ocserv.running /\ ocserv.conf = render_ocserv(saved)
               => Due(j, ocserv.conf, saved) /\ NotedBy(j, ocserv.conf)
    PROVE  ServerInv'
<1>0. settled' /\ ocserv.running => Due(j, ocserv.conf, saved) /\ NotedBy(j, ocserv.conf)
  BY IdleFacts DEF begin
<1>1. /\ sjob'[w] = j /\ \A v \in ServerWorkers \ {w} : sjob'[v] = Joined(sjob[v])
      /\ sjob' = [v \in ServerWorkers |-> sjob'[v]]
      /\ settled' = (settled /\ Others(w) = {})
  BY DEF begin, Others, Joined
<1>2. \A v \in ServerWorkers : sjob[v] \in ServerJobs
  BY DEF ServerInv, Typed
<1>3. sjob' \in [ServerWorkers -> ServerJobs]
  BY <1>1, <1>2, JoinedJob
<1>4. ocserv_conf' \in Conf /\ (settled => ocserv_conf' = render_ocserv(saved))
  BY RenderTyped DEF files_before_start, ServerInv, Typed, ServerFiles
<1>5. Typed'
  BY <1>1, <1>3, <1>4 DEF ServerInv, Typed
<1>6. Others(w) = {} <=> \A v \in ServerWorkers \ {w} : ~Busy(v)
  BY DEF Others, Busy
<1>7. \A v \in ServerWorkers \ {w} : (Busy(v)' <=> Busy(v)) /\ (Busy(v) => ~sjob'[v].alone)
  BY <1>1, <1>2, JoinedJob DEF Busy
<1>8. Lone'
  <2> SUFFICES ASSUME NEW u \in ServerWorkers, NEW v \in ServerWorkers,
                      Busy(u)', Busy(v)', sjob'[v].alone \/ settled'
               PROVE  u = v
    BY DEF Lone
  <2>1. Others(w) = {}
    BY <1>1, <1>7
  <2> QED
    BY <1>6, <1>7, <2>1
<1>9. settled' => settled /\ \A v \in ServerWorkers \ {w} : sjob'[v] = Idling
  BY <1>1, <1>6, <1>7 DEF Busy
<1>10. ServerFiles'
  BY <1>1, <1>4, <1>9, JobFields DEF ServerInv, ServerFiles
<1>11. InForce'
  BY <1>0, <1>1, <1>9, JobFields DEF InForce, Busy
<1>12. Noted'
  BY <1>0, <1>1, <1>9 DEF Noted, NotedBy
<1> QED
  BY <1>5, <1>8, <1>10, <1>11, <1>12 DEF ServerInv

LEMMA SaveRequest ==
    ASSUME ServerInv, NEW w \in ServerWorkers, save_settings(w) PROVE ServerInv'
<1>1. PICK s \in Saves :
        begin(w, [at |-> "patch", save |-> s, previous |-> render_ocserv(panel_config),
                  alone |-> Others(w) = {}])
  BY DEF save_settings
<1>2. PICK b \in BOOLEAN : b <=> Others(w) = {}
  OBVIOUS
<1> DEFINE j == [at |-> "patch", save |-> s, previous |-> render_ocserv(panel_config),
                 alone |-> b]
<1>3. s \in SaveJob
  BY ServerAssumption DEF PageSaves, SaveJob
<1>4. render_ocserv(panel_config) \in Conf
  BY RenderTyped DEF ServerInv, Typed
<1>5. j \in ServerJobs /\ j.at = "patch" /\ j # Idling /\ (j.alone <=> Others(w) = {})
  BY <1>2, <1>3, <1>4, JobFields DEF ServerJobs
<1>6. (Others(w) = {}) = b
  BY <1>2
<1>7. begin(w, j)
  BY <1>1, <1>6
<1>8. settled => render_ocserv(panel_config) = render_ocserv(saved)
  BY DEF ServerInv, ServerFiles
<1>9. settled /\ ocserv.running /\ ocserv.conf = render_ocserv(saved)
        => Due(j, ocserv.conf, saved) /\ NotedBy(j, ocserv.conf)
  BY <1>5, <1>8 DEF Due, NotedBy
<1>10. UNCHANGED <<saved, panel_config, ocserv>> /\ ocserv_conf' \in files_before_start
  BY DEF save_settings, configVars, files_before_start
<1> QED
  BY <1>5, <1>7, <1>9, <1>10, BeginStep

LEMMA ProcessRequest ==
    ASSUME ServerInv, NEW w \in ServerWorkers, NEW conf \in files_before_start,
           start_server(w, conf) \/ restart_server(w, conf) \/ stop_server(w) \/ reload_server(w)
    PROVE  ServerInv'
<1>1. PICK b \in BOOLEAN : b <=> Others(w) = {}
  OBVIOUS
<1>2. (Others(w) = {}) = b
  BY <1>1
<1>3. UNCHANGED <<saved, panel_config, ocserv>> /\ ocserv_conf' \in files_before_start
  BY DEF start_server, restart_server, stop_server, reload_server, configVars,
         files_before_start
<1>4. conf \in Conf
  BY RenderTyped DEF files_before_start, ServerInv, Typed
<1>5. ASSUME NEW step \in {"start", "stop_only", "hup"}, begin(w, [at |-> step, alone |-> b])
      PROVE  ServerInv'
  <2> DEFINE j == [at |-> step, alone |-> b]
  <2>1. j \in ServerJobs /\ j.at = step /\ j # Idling /\ (j.alone <=> Others(w) = {})
    BY <1>1, JobFields DEF ServerJobs
  <2>2. ocserv.conf = render_ocserv(saved) => Due(j, ocserv.conf, saved) /\ NotedBy(j, ocserv.conf)
    BY <2>1 DEF Due, NotedBy
  <2> QED
    BY <1>3, <1>5, <2>1, <2>2, BeginStep
<1>6. CASE restart_server(w, conf)
  <2> DEFINE j == [at |-> "stop", for |-> "restart", conf |-> conf, alone |-> b]
  <2>1. /\ j \in ServerJobs /\ j.at = "stop" /\ j.for = "restart" /\ j # Idling
        /\ j.alone <=> Others(w) = {}
    BY <1>1, <1>4, JobFields DEF ServerJobs
  <2>2. Due(j, ocserv.conf, saved) /\ NotedBy(j, ocserv.conf)
    BY <2>1 DEF Due, NotedBy
  <2>3. begin(w, j)
    BY <1>2, <1>6 DEF restart_server
  <2> QED
    BY <1>3, <2>1, <2>2, <2>3, BeginStep
<1>7. CASE start_server(w, conf)
  <2>1. begin(w, [at |-> "start", alone |-> b])
    BY <1>2, <1>7 DEF start_server
  <2> QED
    BY <1>5, <2>1
<1>8. CASE stop_server(w)
  <2>1. begin(w, [at |-> "stop_only", alone |-> b])
    BY <1>2, <1>8 DEF stop_server
  <2> QED
    BY <1>5, <2>1
<1>9. CASE reload_server(w)
  <2>1. begin(w, [at |-> "hup", alone |-> b])
    BY <1>2, <1>9 DEF reload_server
  <2> QED
    BY <1>5, <2>1
<1> QED
  BY <1>6, <1>7, <1>8, <1>9

LEMMA EditStep ==
    ASSUME ServerInv, NEW patch \in [auth : ServerValues] \cup [limit : ServerValues],
           NEW by_panel \in BOOLEAN, edit_elsewhere(patch, by_panel)
    PROVE  ServerInv'
<1> DEFINE loaded == merge(saved, patch)
<1>1. saved \in Settings /\ panel_config \in Settings
  BY DEF ServerInv, Typed
<1>2. loaded \in Settings
  <2>1. CASE patch \in [auth : ServerValues]
    <3>1. loaded = [enabled |-> saved.enabled, port |-> saved.port, auth |-> patch.auth,
                    limit |-> saved.limit]
      BY <1>1, <2>1 DEF merge, Settings
    <3>2. patch.auth \in ServerValues
      BY <2>1
    <3> QED
      BY <1>1, <3>1, <3>2 DEF Settings
  <2>2. CASE patch \in [limit : ServerValues]
    <3>1. loaded = [enabled |-> saved.enabled, port |-> saved.port, auth |-> saved.auth,
                    limit |-> patch.limit]
      BY <1>1, <2>2 DEF merge, Settings
    <3>2. patch.limit \in ServerValues
      BY <2>2
    <3> QED
      BY <1>1, <3>1, <3>2 DEF Settings
  <2> QED
    BY <2>1, <2>2
<1> HIDE DEF loaded
<1>3. /\ saved' = loaded /\ ocserv_conf' = render_ocserv(loaded) /\ settled' = FALSE
      /\ panel_config' \in {loaded, panel_config} /\ UNCHANGED <<ocserv, sjob>>
  BY DEF edit_elsewhere, loaded
<1>4. Typed'
  BY <1>1, <1>2, <1>3, RenderTyped DEF ServerInv, Typed
<1>5. Lone'
  BY <1>3 DEF ServerInv, Lone, Busy
<1> QED
  BY <1>3, <1>4, <1>5 DEF ServerInv, ServerFiles, InForce, Noted

\* What ocserv runs with after it was started again is what the files say.
LEMMA DeathStep ==
    ASSUME ServerInv, NEW again \in BOOLEAN, ocserv_dies(again) PROVE ServerInv'
<1>1. /\ \A v \in ServerWorkers : sjob'[v] = Joined(sjob[v])
      /\ sjob' = [v \in ServerWorkers |-> sjob'[v]]
      /\ UNCHANGED <<saved, panel_config, ocserv_conf, settled>>
      /\ ocserv' = [running |-> again, conf |-> ocserv_conf]
  BY DEF ocserv_dies, Joined, configVars
<1>2. \A v \in ServerWorkers : sjob[v] \in ServerJobs
  BY DEF ServerInv, Typed
<1>3. /\ sjob' \in [ServerWorkers -> ServerJobs]
      /\ \A v \in ServerWorkers :
            /\ Busy(v)' <=> Busy(v)
            /\ Busy(v) => ~sjob'[v].alone
            /\ sjob'[v].at = sjob[v].at
            /\ sjob[v].at = "apply" => sjob'[v].config = sjob[v].config
            /\ sjob[v].at = "patch" => sjob'[v].previous = sjob[v].previous
  BY <1>1, <1>2, JoinedJob DEF Busy
<1>4. Typed'
  BY <1>1, <1>3 DEF ServerInv, Typed
<1>5. Lone'
  BY <1>1, <1>3 DEF ServerInv, Lone
<1>6. ServerFiles'
  BY <1>1, <1>3 DEF ServerInv, ServerFiles
<1>7. settled /\ again => ocserv.running /\ ocserv'.conf = render_ocserv(saved)
  BY <1>1 DEF ocserv_dies, ServerInv, ServerFiles
<1>8. ASSUME settled, again, NEW v \in ServerWorkers, Busy(v)
      PROVE  Due(sjob'[v], ocserv'.conf, saved)
  <2>1. Due(sjob[v], ocserv.conf, saved)
    BY <1>7, <1>8 DEF ServerInv, InForce
  <2> QED
    BY <1>3, <1>7, <1>8, <2>1 DEF Due
<1>9. InForce'
  BY <1>1, <1>3, <1>7, <1>8 DEF InForce
<1>10. Noted'
  BY <1>1, <1>3 DEF Noted, NotedBy, Busy
<1> QED
  BY <1>4, <1>5, <1>6, <1>9, <1>10 DEF ServerInv

-----------------------------------------------------------------------------

LEMMA ServerInvInit == ServerInit => ServerInv
<1> SUFFICES ASSUME ServerInit PROVE ServerInv
  OBVIOUS
<1>1. PICK v \in ServerValues : v = CHOOSE x \in ServerValues : TRUE
  BY ServerAssumption
<1>2. saved = [enabled |-> TRUE, port |-> v, auth |-> v, limit |-> v]
  BY <1>1 DEF ServerInit
<1>3. saved \in Settings /\ saved.enabled
  BY <1>2 DEF Settings
<1>4. /\ panel_config = saved /\ ocserv_conf = render_ocserv(saved)
      /\ ocserv = [running |-> TRUE, conf |-> render_ocserv(saved)]
      /\ sjob = [w \in ServerWorkers |-> Idling] /\ settled = TRUE
  BY DEF ServerInit
<1>5. \A w \in ServerWorkers : sjob[w] = Idling /\ sjob[w].at = "idle"
  BY <1>4, JobFields
<1>6. Typed
  BY <1>3, <1>4, RenderTyped, IdlingTyped DEF Typed
<1>7. Lone /\ ServerFiles /\ InForce /\ Noted
  BY <1>3, <1>4, <1>5 DEF Lone, ServerFiles, InForce, Noted, NotedBy, Busy
<1> QED
  BY <1>6, <1>7 DEF ServerInv

LEMMA ServerInvStep == ServerInv /\ [ServerNext]_serverVars => ServerInv'
<1> SUFFICES ASSUME ServerInv, [ServerNext]_serverVars PROVE ServerInv'
  OBVIOUS
<1>1. CASE UNCHANGED serverVars
  BY <1>1 DEF serverVars, ServerInv, Typed, Lone, ServerFiles, InForce, Noted, Busy
<1>2. ASSUME NEW w \in ServerWorkers, stop_server(w) \/ reload_server(w) PROVE ServerInv'
  <2>1. ocserv_conf \in files_before_start
    BY DEF files_before_start
  <2> QED
    BY <1>2, <2>1, ProcessRequest
<1> QED
  BY <1>1, <1>2, SaveRequest, PatchStep, ApplyStep, ProcessRequest, StopStep, ServerStartStep,
     SignalStep, FailStep, EditStep, DeathStep DEF ServerNext

LEMMA ServerInvHolds == ServerSpec => []ServerInv
BY ServerInvInit, ServerInvStep, PTL DEF ServerSpec

-----------------------------------------------------------------------------

(* The configuration, the generated file and the process hold settings, and  *)
(* every request is at a step, however saves and process actions interleave. *)
THEOREM ServerTypesHold == ServerSpec => []ServerTypeOK
<1>1. ServerInv => ServerTypeOK
  <2> SUFFICES ASSUME ServerInv PROVE ServerTypeOK
    OBVIOUS
  <2>1. \A w \in ServerWorkers : sjob[w] \in ServerJobs
    BY DEF ServerInv, Typed
  <2>2. \A w \in ServerWorkers :
          /\ sjob[w].at \in {"idle", "patch", "apply", "stop", "stop_only", "start", "hup"}
          /\ sjob[w] # Idling => sjob[w].alone \in BOOLEAN
    BY <2>1, JobFields
  <2> QED
    BY <2>2 DEF ServerInv, Typed, ServerTypeOK
<1> QED
  BY <1>1, ServerInvHolds, PTL

(* Whatever saves, edits, process actions, crashes and failures of           *)
(* supervisord came before, an ocserv that caught up runs with what is saved *)
(* once no request is in progress - for any number of workers and values.    *)
THEOREM ConfigInForceHolds == ServerSpec => []ConfigInForce
<1>1. ServerInv => ConfigInForce
  BY DEF ServerInv, InForce, ConfigInForce, Busy
<1> QED
  BY <1>1, ServerInvHolds, PTL

\* Only the lone request's own stopProcess stops ocserv while it waits to stop it.
LEMMA StopIsNeeded ==
    ASSUME ServerInv, NEW w \in ServerWorkers,
           sjob[w].at = "stop", sjob[w].for = "save", sjob[w].alone, settled, ocserv.running
    PROVE  restart_only_settings(ocserv.conf) # restart_only_settings(sjob[w].conf)
BY JobOf DEF ServerInv, Noted, NotedBy, Busy

(* apply_config_change stops ocserv only if the ports or the auth methods it *)
(* really runs with differ from the saved ones, although the decision is     *)
(* taken from the panel's cached configuration.                              *)
THEOREM SaveKeepsSessionsHolds == ServerSpec => SaveKeepsSessions
<1>1. ServerInv /\ [ServerNext]_serverVars =>
        [\A w \in ServerWorkers :
           (/\ sjob[w].at = "stop" /\ sjob[w].for = "save" /\ sjob[w].alone /\ settled
            /\ ocserv.running /\ ~ocserv'.running)
             => restart_only_settings(ocserv.conf) # restart_only_settings(sjob[w].conf)]_serverVars
  BY StopIsNeeded
<1> QED
  BY <1>1, ServerInvHolds, PTL DEF ServerSpec, SaveKeepsSessions

-----------------------------------------------------------------------------
(* The composition that TLC checks *)

\* The composed step is a step of one part and leaves the others' state alone: each
\* part sees a step of its own or none.
LEMMA PanelStep ==
    [Next]_vars => /\ [AuthNext]_authVars /\ [CfgNext]_cfgVars /\ [AccNext]_accVars
                   /\ [CertNext]_certVars /\ [ListNext]_listVars /\ [ServerNext]_serverVars
<1> SUFFICES ASSUME [Next]_vars
             PROVE  /\ [AuthNext]_authVars /\ [CfgNext]_cfgVars /\ [AccNext]_accVars
                    /\ [CertNext]_certVars /\ [ListNext]_listVars /\ [ServerNext]_serverVars
  OBVIOUS
<1>1. CASE Next
  BY <1>1 DEF Next
<1>2. CASE UNCHANGED vars
  BY <1>2 DEF vars
<1> QED
  BY <1>1, <1>2

(* A behaviour of MCPanel is, part by part, a behaviour of each component's  *)
(* own module: what is proved of a component holds in the composition.       *)
THEOREM PanelImplementsParts ==
    Spec => AuthSpec /\ CfgSpec /\ AccSpec /\ CertSpec /\ ListSpec /\ ServerSpec
<1>1. Init => AuthInit /\ CfgInit /\ AccInit /\ CertInit /\ ListInit /\ ServerInit
  BY DEF Init
<1> QED
  BY <1>1, PanelStep, PTL DEF Spec, AuthSpec, CfgSpec, AccSpec, CertSpec, ListSpec, ServerSpec

(* Sessions, configuration, accounts, certificates, lists and the ocserv     *)
(* process keep the types of their state, in the composition as in their own *)
(* modules.                                                                  *)
THEOREM PanelTypesHold == Spec => []PanelTypeOK
BY PanelImplementsParts, AuthTypesHold, CfgTypesHold, AccTypesHold, CertTypesHold,
   ListTypesHold, ServerTypesHold, PTL DEF PanelTypeOK
=============================================================================
