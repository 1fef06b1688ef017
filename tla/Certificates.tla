----------------------------- MODULE Certificates -----------------------------
(***************************************************************************)
(* The certificate authority, the certificates it signs, revocation and    *)
(* the server certificate ocserv is configured with.                       *)
(*                                                                         *)
(* Every certtool or certbot call is a step of its own: a key and the      *)
(* certificate that goes with it are two calls, and any call may fail,     *)
(* which ends the operation where it is.  Requests run in panel threads;   *)
(* korctl runs the same code in a process of its own.  A crash ends all of *)
(* them, and the container boots again.                                    *)
(***************************************************************************)
EXTENDS Integers, FiniteSets

CONSTANTS
    CertWorkers,     \* panel threads
    KorctlRuns,      \* korctl processes
    CertUsers,
    NoCert,          \* a file that does not exist, a lock that is free
    MaxCertOps,      \* bound: requests started
    MaxCertFaults    \* bound: failed commands and crashes

ASSUME CertAssumption ==
    /\ CertWorkers \cap KorctlRuns = {}
    /\ NoCert \notin CertWorkers \cup KorctlRuns \cup Int
    /\ NoCert \notin [key : Int, by : Int]                    \* no certificate either
    /\ MaxCertOps \in Nat /\ MaxCertFaults \in Nat

VARIABLES
    ca,            \* ca.key and ca.crt
    server,        \* server.key and server.crt
    user,          \* per user: .key, .crt and .p12
    material,      \* which of the external and Let's Encrypt files exist
    revoked,       \* certificates in revoked.pem
    crl,           \* certificates in crl.pem
    revoked_lock,  \* holder of _REVOKED_REWRITE_LOCK
    cjob,          \* what each process is doing
    cert_config,   \* the certificates section of config.yaml
    boot,          \* how far initialize_runtime has come, "up" when it is done
    next_key,      \* the next key certtool generates
    issued,        \* every certificate ever signed (history)
    revocations,   \* certificates whose revocation has reached revoked.pem (history)
    overlap,       \* two processes were rewriting revoked.pem at once (history)
    cert_ops, cert_faults

caFiles   == <<ca, server, user, next_key, issued>>
crlFiles  == <<revoked, crl, revoked_lock, revocations, overlap>>
certVars  == <<ca, server, user, next_key, issued, revoked, crl, revoked_lock, revocations,
               overlap, material, cjob, cert_config, boot, cert_ops, cert_faults>>

CertProcesses == CertWorkers \cup KorctlRuns
NoPair  == [key |-> NoCert, crt |-> NoCert]
IdleJob == [at |-> "idle"]

\* A certificate names the key it certifies and the CA key that signed it.
Cert(key, by) == [key |-> key, by |-> by]

at(w, step)      == boot = "up" /\ cjob[w].at = step
proceed(w, j)    == cjob' = [cjob EXCEPT ![w] = j]
idle(w)          == proceed(w, IdleJob)

\* A request arrives.
request(w, j) ==
    /\ at(w, "idle")
    /\ cert_ops < MaxCertOps
    /\ cert_ops' = cert_ops + 1
    /\ proceed(w, j)
    /\ UNCHANGED <<caFiles, crlFiles, material, cert_config, boot, cert_faults>>

-----------------------------------------------------------------------------
(* The CA and user certificates *)

\* init_ca, create_user_certificate: a new key, then a certificate for the key
\* that is in the file by then.
regenerate_ca(w) == request(w, [at |-> "ca_key"])

ca_generate_privkey(w) ==
    /\ at(w, "ca_key")
    /\ ca' = [ca EXCEPT !.key = next_key]
    /\ next_key' = next_key + 1
    /\ proceed(w, [at |-> "ca_crt"])
    /\ UNCHANGED <<server, user, issued, crlFiles, material, cert_config, boot, cert_ops,
                   cert_faults>>

ca_self_sign(w) ==
    /\ at(w, "ca_crt")
    /\ ca' = [ca EXCEPT !.crt = Cert(ca.key, ca.key)]
    /\ idle(w)
    /\ UNCHANGED <<server, user, next_key, issued, crlFiles, material, cert_config, boot,
                   cert_ops, cert_faults>>

\* save_ca_material: the certificate is written before its key.
upload_ca(w) == request(w, [at |-> "upload_crt"])

upload_ca_crt(w) ==
    /\ at(w, "upload_crt")
    /\ ca' = [ca EXCEPT !.crt = Cert(next_key, next_key)]
    /\ next_key' = next_key + 1
    /\ proceed(w, [at |-> "upload_key", key |-> next_key])
    /\ UNCHANGED <<server, user, issued, crlFiles, material, cert_config, boot, cert_ops,
                   cert_faults>>

upload_ca_key(w) ==
    /\ at(w, "upload_key")
    /\ ca' = [ca EXCEPT !.key = cjob[w].key]
    /\ idle(w)
    /\ UNCHANGED <<server, user, next_key, issued, crlFiles, material, cert_config, boot,
                   cert_ops, cert_faults>>

create_user_certificate(w, u) == request(w, [at |-> "user_key", user |-> u])

user_generate_privkey(w) ==
    /\ at(w, "user_key")
    /\ user' = [user EXCEPT ![cjob[w].user].key = next_key]
    /\ next_key' = next_key + 1
    /\ proceed(w, [cjob[w] EXCEPT !.at = "user_crt"])
    /\ UNCHANGED <<ca, server, issued, crlFiles, material, cert_config, boot, cert_ops,
                   cert_faults>>

user_sign(w) ==
    /\ at(w, "user_crt")
    /\ LET u == cjob[w].user
           crt == Cert(user[u].key, ca.key)
       IN  /\ user' = [user EXCEPT ![u].crt = crt]
           /\ issued' = issued \cup {crt}
    /\ idle(w)
    /\ UNCHANGED <<ca, server, next_key, crlFiles, material, cert_config, boot, cert_ops,
                   cert_faults>>

create_p12(w, u) ==
    /\ at(w, "idle")
    /\ cert_ops < MaxCertOps
    /\ user[u].key # NoCert /\ user[u].crt # NoCert
    /\ cert_ops' = cert_ops + 1
    /\ user' = [user EXCEPT ![u].p12 = [key |-> user[u].key, crt |-> user[u].crt]]
    /\ UNCHANGED <<ca, server, next_key, issued, crlFiles, cjob, material, cert_config, boot,
                   cert_faults>>

-----------------------------------------------------------------------------
(* Revocation *)

\* A user without a certificate file still gets a new CRL.
revoke_user_certificate(w, u) ==
    request(w, IF user[u].crt = NoCert THEN [at |-> "crl_read"]
               ELSE [at |-> "append_read", cert |-> user[u].crt])

revoke_certificate_pem(w) ==
    \E c \in issued : request(w, [at |-> "append_read", cert |-> c])

\* korctl does not share the lock (history).
unlocked_overlap(w) ==
    \E v \in CertProcesses \ {w} : at(v, "append_write") /\ {v, w} \cap KorctlRuns # {}

\* append_revoked_certificate: under a lock the threads of the panel share.
append_unlocked(w) ==                            \* mutant
    /\ at(w, "append_read")
    /\ overlap' = (overlap \/ unlocked_overlap(w))
    /\ proceed(w, [at |-> "append_write", cert |-> cjob[w].cert, existing |-> revoked])
    /\ UNCHANGED <<caFiles, revoked, revoked_lock, crl, revocations, material, cert_config, boot,
                   cert_ops, cert_faults>>
append_read(w) ==
    /\ at(w, "append_read")
    /\ w \in CertWorkers => revoked_lock = NoCert
    /\ revoked_lock' = IF w \in CertWorkers THEN w ELSE revoked_lock
    /\ overlap' = (overlap \/ unlocked_overlap(w))
    /\ proceed(w, [at |-> "append_write", cert |-> cjob[w].cert, existing |-> revoked])
    /\ UNCHANGED <<caFiles, revoked, crl, revocations, material, cert_config, boot,
                   cert_ops, cert_faults>>

append_write(w) ==
    /\ at(w, "append_write")
    /\ revoked' = IF cjob[w].cert \in cjob[w].existing THEN revoked
                  ELSE cjob[w].existing \cup {cjob[w].cert}
    /\ revocations' = revocations \cup {cjob[w].cert}
    /\ revoked_lock' = IF revoked_lock = w THEN NoCert ELSE revoked_lock
    /\ proceed(w, [at |-> "crl_read"])
    /\ UNCHANGED <<caFiles, crl, overlap, material, cert_config, boot, cert_ops, cert_faults>>

\* generate_crl runs outside the lock: certtool loads revoked.pem, signs and
\* writes crl.pem; it fails while there is no revoked.pem.
crl_read(w) ==
    /\ at(w, "crl_read")
    /\ proceed(w, IF revoked = {} THEN IdleJob ELSE [at |-> "crl_write", certs |-> revoked])
    /\ UNCHANGED <<caFiles, crlFiles, material, cert_config, boot, cert_ops, cert_faults>>

crl_write(w) ==
    /\ at(w, "crl_write")
    /\ crl' = cjob[w].certs
    /\ idle(w)
    /\ UNCHANGED <<caFiles, revoked, revoked_lock, revocations, overlap, material, cert_config,
                   boot, cert_ops, cert_faults>>

-----------------------------------------------------------------------------
(* The certificate ocserv is configured with *)

Valid(c) == c.mode = "external" => c.paths # "none"      \* require_external_paths
active_paths(c) == IF c.mode = "external" THEN c.paths ELSE "auto"

\* _update_certificate_config writes the file and loads it afterwards; a section
\* that does not load stays in the file, and the handler fails.
save_certificate_settings(w, mode) ==
    /\ at(w, "idle")
    /\ cert_ops < MaxCertOps
    /\ cert_ops' = cert_ops + 1
    /\ cert_config' = [cert_config EXCEPT !.mode = mode]
    /\ UNCHANGED <<caFiles, crlFiles, material, cjob, boot, cert_faults>>

save_letsencrypt_settings(w, enabled) ==
    /\ at(w, "idle")
    /\ cert_ops < MaxCertOps
    /\ cert_ops' = cert_ops + 1
    /\ cert_config' = [cert_config EXCEPT !.letsencrypt = enabled]
    /\ UNCHANGED <<caFiles, crlFiles, material, cjob, boot, cert_faults>>

\* upload_external writes the files, issue_letsencrypt has certbot write them; then
\* the panel points the configuration at them, which korctl leaves to the admin.
upload_external(w)   == request(w, [at |-> "write_material", what |-> "external"])
issue_letsencrypt(w) == request(w, [at |-> "write_material", what |-> "letsencrypt"])

write_material(w) ==
    /\ at(w, "write_material")
    /\ material' = material \cup {cjob[w].what}
    /\ proceed(w, IF w \in KorctlRuns THEN IdleJob ELSE [cjob[w] EXCEPT !.at = "activate"])
    /\ UNCHANGED <<caFiles, crlFiles, cert_config, boot, cert_ops, cert_faults>>

activate(w) ==
    /\ at(w, "activate")
    /\ cert_config' = [mode |-> "external", paths |-> cjob[w].what,
                       letsencrypt |-> cjob[w].what = "letsencrypt"]
    /\ idle(w)
    /\ UNCHANGED <<caFiles, crlFiles, material, boot, cert_ops, cert_faults>>

-----------------------------------------------------------------------------
(* initialize_runtime *)

Boot(from, to) == boot = from /\ boot' = to
BootFrame == UNCHANGED <<crlFiles, cjob, cert_ops>>

\* prepare_startup_letsencrypt: issue what is missing; on success the section is
\* pointed at the files, on failure boot goes on with what there is.
boot_load_eager ==                               \* mutant: activated although certbot failed
    /\ Boot("load", "ca") /\ Valid(cert_config) /\ BootFrame
    /\ cert_config' = IF cert_config.letsencrypt
                        THEN [cert_config EXCEPT !.mode = "external", !.paths = "letsencrypt"]
                        ELSE cert_config
    /\ UNCHANGED <<caFiles, material, cert_faults>>
boot_load ==
    /\ Boot("load", "ca") /\ Valid(cert_config) /\ BootFrame
    /\ \/ /\ ~cert_config.letsencrypt
          /\ UNCHANGED <<material, cert_config, cert_faults>>
       \/ /\ cert_config.letsencrypt
          /\ material' = material \cup {"letsencrypt"}
          /\ cert_config' = [cert_config EXCEPT !.mode = "external", !.paths = "letsencrypt"]
          /\ UNCHANGED cert_faults
       \/ /\ cert_config.letsencrypt /\ "letsencrypt" \notin material
          /\ cert_faults < MaxCertFaults
          /\ cert_faults' = cert_faults + 1
          /\ UNCHANGED <<material, cert_config>>
    /\ UNCHANGED caFiles

\* init_ca if either file is missing.
boot_ca ==
    /\ BootFrame /\ UNCHANGED <<server, user, issued, material, cert_config, cert_faults>>
    /\ \/ /\ NoCert \notin {ca.key, ca.crt}
          /\ Boot("ca", "server") /\ UNCHANGED <<ca, next_key>>
       \/ /\ NoCert \in {ca.key, ca.crt}
          /\ Boot("ca", "ca_sign")
          /\ ca' = [ca EXCEPT !.key = next_key] /\ next_key' = next_key + 1
       \/ /\ Boot("ca_sign", "server")
          /\ ca' = [ca EXCEPT !.crt = Cert(ca.key, ca.key)] /\ UNCHANGED next_key

\* create_server_certificate if either file is missing: an existing key is kept.
boot_server_new_key ==                           \* mutant: a new key every time
    /\ BootFrame /\ UNCHANGED <<ca, user, issued, material, cert_config, cert_faults>>
    /\ \/ /\ cert_config.mode # "auto" \/ NoCert \notin {server.key, server.crt}
          /\ Boot("server", "up") /\ UNCHANGED <<server, next_key>>
       \/ /\ cert_config.mode = "auto" /\ NoCert \in {server.key, server.crt}
          /\ Boot("server", "server_sign")
          /\ server' = [server EXCEPT !.key = next_key] /\ next_key' = next_key + 1
       \/ /\ Boot("server_sign", "up")
          /\ server' = [server EXCEPT !.crt = Cert(server.key, ca.key)] /\ UNCHANGED next_key
boot_server ==
    /\ BootFrame /\ UNCHANGED <<ca, user, issued, material, cert_config, cert_faults>>
    /\ \/ /\ cert_config.mode # "auto" \/ NoCert \notin {server.key, server.crt}
          /\ Boot("server", "up") /\ UNCHANGED <<server, next_key>>
       \/ /\ cert_config.mode = "auto" /\ NoCert \in {server.key, server.crt}
          /\ Boot("server", "server_sign")
          /\ IF server.key = NoCert
               THEN server' = [server EXCEPT !.key = next_key] /\ next_key' = next_key + 1
               ELSE UNCHANGED <<server, next_key>>
       \/ /\ Boot("server_sign", "up")
          /\ server' = [server EXCEPT !.crt = Cert(server.key, ca.key)] /\ UNCHANGED next_key

-----------------------------------------------------------------------------
(* Faults *)

\* A certtool or certbot call fails or times out: CommandError ends the request.
command_fails(w) ==
    /\ boot = "up"
    /\ cjob[w].at \in {"ca_key", "ca_crt", "user_key", "user_crt", "crl_read", "write_material"}
    /\ cert_faults < MaxCertFaults
    /\ cert_faults' = cert_faults + 1
    /\ idle(w)
    /\ UNCHANGED <<caFiles, crlFiles, material, cert_config, boot, cert_ops>>

\* A crash, or a call that fails while booting: everything in progress is gone.
crash ==
    /\ cert_faults < MaxCertFaults
    /\ cert_faults' = cert_faults + 1
    /\ boot' = "load"
    /\ cjob' = [w \in CertProcesses |-> IdleJob]
    /\ revoked_lock' = NoCert
    /\ UNCHANGED <<caFiles, revoked, crl, revocations, overlap, material, cert_config, cert_ops>>

-----------------------------------------------------------------------------

CertInit ==
    /\ ca = NoPair /\ server = NoPair
    /\ user = [u \in CertUsers |-> [key |-> NoCert, crt |-> NoCert, p12 |-> NoPair]]
    /\ material = {} /\ revoked = {} /\ crl = {} /\ revoked_lock = NoCert
    /\ cjob = [w \in CertProcesses |-> IdleJob]
    /\ cert_config \in [mode : {"auto"}, paths : {"none"}, letsencrypt : BOOLEAN]
    /\ boot = "load" /\ next_key = 1 /\ issued = {} /\ revocations = {} /\ overlap = FALSE
    /\ cert_ops = 0 /\ cert_faults = 0

CertNext ==
    \/ boot_load \/ boot_ca \/ boot_server \/ crash
    \/ \E w \in CertProcesses :
        \/ regenerate_ca(w) \/ ca_generate_privkey(w) \/ ca_self_sign(w)
        \/ upload_ca(w) \/ upload_ca_crt(w) \/ upload_ca_key(w)
        \/ user_generate_privkey(w) \/ user_sign(w)
        \/ revoke_certificate_pem(w) \/ append_read(w) \/ append_write(w)
        \/ crl_read(w) \/ crl_write(w) \/ command_fails(w)
        \/ upload_external(w) \/ issue_letsencrypt(w) \/ write_material(w)
        \/ \E u \in CertUsers : \/ create_user_certificate(w, u) \/ create_p12(w, u)
                                \/ revoke_user_certificate(w, u)
    \/ \E w \in CertWorkers :
        \/ activate(w)
        \/ \E mode \in {"auto", "external"} : save_certificate_settings(w, mode)
        \/ \E on \in BOOLEAN : save_letsencrypt_settings(w, on)

CertSpec == CertInit /\ [][CertNext]_certVars

-----------------------------------------------------------------------------
(* Properties *)

(* Keys are generated in order, certificates certify generated keys, and the *)
(* holder of the lock is a panel thread that rewrites revoked.pem.           *)
CertTypeOK ==
    LET Keys == 1 .. (next_key - 1)
        Certs == [key : Keys, by : Keys]
    IN  /\ \A pair \in {ca, server} \cup {user[u] : u \in CertUsers}
                            \cup {user[u].p12 : u \in CertUsers} :
            pair.key \in Keys \cup {NoCert} /\ pair.crt \in Certs \cup {NoCert}
        /\ crl \cup revoked \cup revocations \subseteq issued
        /\ revoked_lock # NoCert =>
                revoked_lock \in CertWorkers /\ cjob[revoked_lock].at = "append_write"
        /\ material \subseteq {"external", "letsencrypt"}
        /\ cert_config \in [mode : {"auto", "external"}, letsencrypt : BOOLEAN,
                            paths : {"none", "external", "letsencrypt"}]
        /\ boot \in {"load", "ca", "ca_sign", "server", "server_sign", "up"}

(* No revocation is lost: whatever certificates other threads revoke at the  *)
(* same time, and wherever the container crashes, a certificate that reached *)
(* revoked.pem stays there - unless korctl rewrote the file beside the panel. *)
RevocationsKept == ~overlap => revocations \subseteq revoked

(* Clients pin the server's public key: an existing server.key is never      *)
(* replaced, not by a boot that re-issues a missing certificate and not by a *)
(* crash between key and certificate.                                        *)
ServerKeyKept == [][server.key # NoCert => server'.key = server.key]_certVars

(* When the container is up, the server certificate ocserv is told to use    *)
(* exists, and so does the CA: Let's Encrypt files that could not be issued  *)
(* are never configured, and a failed or interrupted boot is completed.      *)
BootServes ==
    [][boot # "up" /\ boot' = "up" =>
        /\ NoCert \notin {ca.key, ca.crt}'
        /\ IF active_paths(cert_config)' = "auto" THEN NoCert \notin {server.key, server.crt}'
           ELSE active_paths(cert_config)' \in material']_certVars
===============================================================================
