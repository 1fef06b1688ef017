-------------------------------- MODULE MCPanel --------------------------------
(***************************************************************************)
(* The parts of the panel that share no state, for TLC: admin sessions,    *)
(* the configuration file, accounts, certificates, list files and the      *)
(* ocserv process.  A behaviour runs one of them, from any of its initial  *)
(* states, while the others stay in one of theirs.                         *)
(***************************************************************************)
EXTENDS AuthSessions, ConfigPatch, Accounts, Certificates, ListFiles, ServerControl,
        TLC

CONSTANTS ProfA, ProfB, Ref, Plaintext, Level,   \* of ConfigPatch
          Net, Dom, NetSpelling, Rubbish         \* of ListFiles

\* A secret reference and the value it stands for.
MC_Resolved == (Ref :> Plaintext) @@ (Plaintext :> Plaintext)
MC_Env == <<>>
MC_File ==
    [level |-> Level, active |-> ProfA, groups |-> {}, default_group |-> Unset,
     cert_mode |-> "auto", cert_paths |-> FALSE,
     profiles |-> <<[name |-> ProfA, secret |-> Ref, offset |-> 0, on |-> TRUE],
                    [name |-> ProfB, secret |-> Unset, offset |-> 2, on |-> TRUE]>>]

\* A profile saved with what it has, with a new secret and off, with its offset set
\* and cleared.
MC_Payloads ==
    {[secret |-> Unset, offset |-> Unset, on |-> TRUE],
     [secret |-> Plaintext, offset |-> Unset, on |-> FALSE],
     [secret |-> Unset, offset |-> 3, on |-> TRUE],
     [secret |-> Unset, offset |-> 0, on |-> TRUE]}

\* A second spelling of an entry and a line that is none; a list with a repeated
\* entry and one without a valid entry.
MC_Normal == (Net :> Net) @@ (Dom :> Dom) @@ (NetSpelling :> Net) @@ (Rubbish :> Invalid)
MC_ListSettings ==
    {[inline |-> <<>>, files |-> <<>>, urls |-> <<>>]}
    \cup {[inline |-> <<NetSpelling>>, files |-> fs, urls |-> <<l>>] :
              l \in ListUrls, fs \in {<<>>, << <<Rubbish, Dom>> >>}}
MC_Downloads == {<<NetSpelling, Dom, Net>>, <<Rubbish>>}

\* Saves that change a port or a limit, with and without a reload, that take it back,
\* that disable the server, and those of the auth methods.
MC_Saves ==
    {[patch |-> [enabled |-> TRUE, port |-> n, limit |-> 0], reload |-> TRUE] : n \in {0, 1}}
    \cup {[patch |-> [enabled |-> TRUE, port |-> 0, limit |-> 1], reload |-> TRUE]}
    \cup {[patch |-> [enabled |-> TRUE, port |-> n, limit |-> 1], reload |-> FALSE] :
              n \in {0, 1}}
    \cup {[patch |-> [enabled |-> FALSE, port |-> 0, limit |-> 0], reload |-> TRUE]}
    \cup [patch : [auth : {0, 1}], reload : {TRUE}]

\* The worker threads are the same two everywhere, and nothing tells them apart.
MC_Symmetry == Permutations(Threads)

VARIABLE part    \* the part that runs

vars == <<part, authVars, cfgVars, accVars, certVars, listVars, serverVars>>

Init ==
    /\ part \in {"auth", "config", "accounts", "certificates", "lists", "server"}
    /\ AuthInit /\ CfgInit /\ AccInit /\ CertInit /\ ListInit /\ ServerInit
    /\ part # "auth" => ~totp_enabled
    /\ part # "certificates" => ~cert_config.letsencrypt
    /\ part # "lists" => split.urls = <<>>

Next ==
    \/ /\ part = "auth" /\ AuthNext
       /\ UNCHANGED <<part, cfgVars, accVars, certVars, listVars, serverVars>>
    \/ /\ part = "config" /\ CfgNext
       /\ UNCHANGED <<part, authVars, accVars, certVars, listVars, serverVars>>
    \/ /\ part = "accounts" /\ AccNext
       /\ UNCHANGED <<part, authVars, cfgVars, certVars, listVars, serverVars>>
    \/ /\ part = "certificates" /\ CertNext
       /\ UNCHANGED <<part, authVars, cfgVars, accVars, listVars, serverVars>>
    \/ /\ part = "lists" /\ ListNext
       /\ UNCHANGED <<part, authVars, cfgVars, accVars, certVars, serverVars>>
    \/ /\ part = "server" /\ ServerNext
       /\ UNCHANGED <<part, authVars, cfgVars, accVars, certVars, listVars>>

Spec == Init /\ [][Next]_vars

(* Every part's state has its type. *)
PanelTypeOK == AuthTypeOK /\ CfgTypeOK /\ AccTypeOK /\ CertTypeOK /\ ListTypeOK
               /\ ServerTypeOK
===============================================================================
