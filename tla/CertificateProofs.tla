-------------------------- MODULE CertificateProofs --------------------------
(***************************************************************************)
(* Proofs about Certificates, for any number of panel threads, korctl      *)
(* runs, users, requests, failed commands and crashes.                     *)
(***************************************************************************)
EXTENDS Certificates, TLAPS

Appending(w) == cjob[w].at = "append_write"

\* The jobs that a later step changes in place.
CertJobs ==
    /\ cjob = [w \in CertProcesses |-> cjob[w]]
    /\ \A w \in CertProcesses :
        /\ cjob[w].at = "user_key" => cjob[w] \in [at : {"user_key"}, user : CertUsers]
        /\ cjob[w].at = "write_material" =>
                cjob[w] \in [at : {"write_material"}, what : {"external", "letsencrypt"}]

\* A panel thread that rewrites revoked.pem holds the lock.
Locked == \A w \in CertWorkers : Appending(w) => revoked_lock = w

\* Unless korctl joined in, one process at a time rewrites the file, from what the
\* file still holds, and nothing was lost so far.
LoneAppend ==
    ~overlap =>
        /\ \A v, w \in CertProcesses : Appending(v) /\ Appending(w) => v = w
        /\ \A w \in CertProcesses : Appending(w) => cjob[w].existing = revoked
        /\ revocations \subseteq revoked

RevocationInv == overlap \in BOOLEAN /\ CertJobs /\ Locked /\ LoneAppend

-----------------------------------------------------------------------------

LEMMA RevocationInit == CertInit => RevocationInv
<1> SUFFICES ASSUME CertInit PROVE RevocationInv
  OBVIOUS
<1>1. \A w \in CertProcesses : cjob[w] = IdleJob /\ cjob[w].at = "idle"
  BY DEF CertInit, IdleJob
<1>2. \A w \in CertWorkers : w \in CertProcesses
  BY DEF CertProcesses
<1>3. CertJobs
  BY <1>1 DEF CertJobs, CertInit
<1> QED
  BY <1>1, <1>2, <1>3 DEF CertInit, RevocationInv, Locked, LoneAppend, Appending

\* A process moves outside the rewriting of revoked.pem.
Elsewhere(w, j) ==
    /\ cjob' = [cjob EXCEPT ![w] = j]
    /\ ~Appending(w) /\ j.at # "append_write"
    /\ j.at = "user_key" => j \in [at : {"user_key"}, user : CertUsers]
    /\ j.at = "write_material" =>
            j \in [at : {"write_material"}, what : {"external", "letsencrypt"}]
    /\ UNCHANGED <<revoked, revoked_lock, revocations, overlap>>

LEMMA ElsewhereKeeps ==
    ASSUME RevocationInv, NEW w \in CertProcesses, NEW j, Elsewhere(w, j)
    PROVE  RevocationInv'
<1>1. cjob'[w] = j /\ \A v \in CertProcesses \ {w} : cjob'[v] = cjob[v]
  BY DEF Elsewhere, RevocationInv, CertJobs
<1>2. cjob' = [v \in CertProcesses |-> cjob'[v]]
  BY DEF Elsewhere, RevocationInv, CertJobs
<1>3. CertJobs'
  BY <1>1, <1>2 DEF Elsewhere, RevocationInv, CertJobs
<1>4. \A v \in CertProcesses : Appending(v)' => Appending(v) /\ cjob'[v] = cjob[v]
  BY <1>1 DEF Elsewhere, Appending
<1>5. \A v \in CertWorkers : v \in CertProcesses
  BY DEF CertProcesses
<1> QED
  BY <1>3, <1>4, <1>5 DEF Elsewhere, RevocationInv, Locked, LoneAppend

LEMMA StandsStill ==
    ASSUME RevocationInv, UNCHANGED <<cjob, revoked, revoked_lock, revocations, overlap>>
    PROVE  RevocationInv'
BY DEF RevocationInv, CertJobs, Locked, LoneAppend, Appending

-----------------------------------------------------------------------------
(* Requests and the steps of the other operations *)

LEMMA RequestStep ==
    ASSUME RevocationInv, NEW w \in CertProcesses, NEW j, request(w, j),
           j.at # "append_write",
           j.at = "user_key" => j \in [at : {"user_key"}, user : CertUsers],
           j.at = "write_material" =>
               j \in [at : {"write_material"}, what : {"external", "letsencrypt"}]
    PROVE  RevocationInv'
<1>1. Elsewhere(w, j)
  BY DEF Elsewhere, request, proceed, at, Appending, crlFiles
<1> QED
  BY <1>1, ElsewhereKeeps

LEMMA OtherRequests ==
    ASSUME RevocationInv, NEW w \in CertProcesses,
           \/ regenerate_ca(w) \/ upload_ca(w) \/ revoke_certificate_pem(w)
           \/ upload_external(w) \/ issue_letsencrypt(w)
           \/ \E u \in CertUsers : create_user_certificate(w, u) \/ revoke_user_certificate(w, u)
    PROVE  RevocationInv'
<1>1. CASE regenerate_ca(w)
  <2>1. request(w, [at |-> "ca_key"])
    BY <1>1 DEF regenerate_ca
  <2> QED
    BY <2>1, RequestStep
<1>2. CASE upload_ca(w)
  <2>1. request(w, [at |-> "upload_crt"])
    BY <1>2 DEF upload_ca
  <2> QED
    BY <2>1, RequestStep
<1>3. CASE revoke_certificate_pem(w)
  <2>1. PICK c \in issued : request(w, [at |-> "append_read", cert |-> c])
    BY <1>3 DEF revoke_certificate_pem
  <2> QED
    BY <2>1, RequestStep
<1>4. CASE upload_external(w)
  <2>1. request(w, [at |-> "write_material", what |-> "external"])
    BY <1>4 DEF upload_external
  <2> QED
    BY <2>1, RequestStep
<1>5. CASE issue_letsencrypt(w)
  <2>1. request(w, [at |-> "write_material", what |-> "letsencrypt"])
    BY <1>5 DEF issue_letsencrypt
  <2> QED
    BY <2>1, RequestStep
<1>6. ASSUME NEW u \in CertUsers, create_user_certificate(w, u) PROVE RevocationInv'
  <2>1. request(w, [at |-> "user_key", user |-> u])
    BY <1>6 DEF create_user_certificate
  <2> QED
    BY <2>1, RequestStep
<1>7. ASSUME NEW u \in CertUsers, revoke_user_certificate(w, u) PROVE RevocationInv'
  <2>1. \/ request(w, [at |-> "crl_read"])
        \/ request(w, [at |-> "append_read", cert |-> user[u].crt])
    BY <1>7 DEF revoke_user_certificate
  <2> QED
    BY <2>1, RequestStep
<1> QED
  BY <1>1, <1>2, <1>3, <1>4, <1>5, <1>6, <1>7

LEMMA OtherSteps ==
    ASSUME RevocationInv, NEW w \in CertProcesses,
           \/ ca_generate_privkey(w) \/ ca_self_sign(w)
           \/ upload_ca_crt(w) \/ upload_ca_key(w)
           \/ user_generate_privkey(w) \/ user_sign(w)
           \/ crl_read(w) \/ crl_write(w) \/ command_fails(w)
           \/ write_material(w) \/ activate(w)
    PROVE  RevocationInv'
<1> USE DEF Elsewhere, proceed, at, Appending, crlFiles, idle, IdleJob
<1>1. CASE ca_generate_privkey(w) \/ ca_self_sign(w) \/ upload_ca_crt(w) \/ upload_ca_key(w)
  <2>1. CASE ca_generate_privkey(w)
    <3>1. Elsewhere(w, [at |-> "ca_crt"])
      BY <2>1 DEF ca_generate_privkey
    <3> QED BY <3>1, ElsewhereKeeps
  <2>2. CASE upload_ca_crt(w)
    <3>1. Elsewhere(w, [at |-> "upload_key", key |-> next_key])
      BY <2>2 DEF upload_ca_crt
    <3> QED BY <3>1, ElsewhereKeeps
  <2>3. CASE ca_self_sign(w) \/ upload_ca_key(w)
    <3>1. Elsewhere(w, IdleJob)
      BY <2>3 DEF ca_self_sign, upload_ca_key
    <3> QED BY <3>1, ElsewhereKeeps
  <2> QED BY <1>1, <2>1, <2>2, <2>3
<1>2. CASE user_generate_privkey(w)
  <2>1. cjob[w] \in [at : {"user_key"}, user : CertUsers]
    BY <1>2 DEF user_generate_privkey, RevocationInv, CertJobs
  <2>2. Elsewhere(w, [cjob[w] EXCEPT !.at = "user_crt"])
    BY <1>2, <2>1 DEF user_generate_privkey
  <2> QED BY <2>2, ElsewhereKeeps
<1>3. CASE user_sign(w) \/ crl_write(w) \/ command_fails(w) \/ activate(w)
  <2>1. Elsewhere(w, IdleJob)
    BY <1>3 DEF user_sign, crl_write, command_fails, activate
  <2> QED BY <2>1, ElsewhereKeeps
<1>4. CASE crl_read(w)
  <2>1. Elsewhere(w, IdleJob) \/ Elsewhere(w, [at |-> "crl_write", certs |-> revoked])
    BY <1>4 DEF crl_read
  <2> QED BY <2>1, ElsewhereKeeps
<1>5. CASE write_material(w)
  <2>1. cjob[w] \in [at : {"write_material"}, what : {"external", "letsencrypt"}]
    BY <1>5 DEF write_material, RevocationInv, CertJobs
  <2>2. Elsewhere(w, IdleJob) \/ Elsewhere(w, [cjob[w] EXCEPT !.at = "activate"])
    BY <1>5, <2>1 DEF write_material
  <2> QED BY <2>2, ElsewhereKeeps
<1> QED
  BY <1>1, <1>2, <1>3, <1>4, <1>5

-----------------------------------------------------------------------------
(* The rewriting of revoked.pem *)

\* w starts: it holds the lock, or korctl is one of those it overlaps with.
LEMMA AppendReadStep ==
    ASSUME RevocationInv, NEW w \in CertProcesses, append_read(w)
    PROVE  RevocationInv'
<1> DEFINE j == [at |-> "append_write", cert |-> cjob[w].cert, existing |-> revoked]
<1>1. cjob'[w] = j /\ \A v \in CertProcesses \ {w} : cjob'[v] = cjob[v]
  BY DEF append_read, proceed, RevocationInv, CertJobs
<1>2. cjob' = [v \in CertProcesses |-> cjob'[v]]
  BY DEF append_read, proceed, RevocationInv, CertJobs
<1>3. CertJobs'
  BY <1>1, <1>2 DEF RevocationInv, CertJobs
<1>4. \A v \in CertProcesses : Appending(v)' /\ v # w => Appending(v) /\ cjob'[v] = cjob[v]
  BY <1>1 DEF Appending
<1>5. revoked' = revoked /\ revocations' = revocations /\ boot = "up" /\ ~Appending(w)
  BY DEF append_read, at, Appending
<1>6. CertWorkers \subseteq CertProcesses
  BY DEF CertProcesses
<1>7. w \in CertWorkers => \A v \in CertWorkers : ~Appending(v)
  BY CertAssumption DEF append_read, RevocationInv, Locked
<1>8. Locked'
  <2> SUFFICES ASSUME NEW v \in CertWorkers, Appending(v)' PROVE revoked_lock' = v
    BY DEF Locked
  <2>1. CASE v = w
    BY <2>1 DEF append_read
  <2>2. CASE v # w
    <3>1. Appending(v) /\ revoked_lock = v
      BY <1>4, <1>6, <2>2 DEF RevocationInv, Locked
    <3>2. w \notin CertWorkers
      BY <1>7, <3>1
    <3> QED
      BY <3>1, <3>2 DEF append_read
  <2> QED
    BY <2>1, <2>2
<1>9. overlap' \in BOOLEAN /\ (~overlap' => ~overlap /\ ~unlocked_overlap(w))
  BY DEF append_read, RevocationInv, unlocked_overlap
<1>10. ~overlap' => \A v \in CertProcesses \ {w} : ~Appending(v)
  <2> SUFFICES ASSUME ~overlap', NEW v \in CertProcesses \ {w}, Appending(v) PROVE FALSE
    OBVIOUS
  <2>1. v \notin KorctlRuns /\ w \notin KorctlRuns
    BY <1>5, <1>9 DEF unlocked_overlap, at, Appending
  <2> QED
    BY <1>7, <2>1 DEF CertProcesses
<1>11. LoneAppend'
  BY <1>1, <1>4, <1>5, <1>9, <1>10 DEF LoneAppend, RevocationInv
<1> QED
  BY <1>3, <1>8, <1>9, <1>11 DEF RevocationInv

LEMMA AppendWriteStep ==
    ASSUME RevocationInv, NEW w \in CertProcesses, append_write(w)
    PROVE  RevocationInv'
<1>1. cjob'[w] = [at |-> "crl_read"] /\ \A v \in CertProcesses \ {w} : cjob'[v] = cjob[v]
  BY DEF append_write, proceed, RevocationInv, CertJobs
<1>2. cjob' = [v \in CertProcesses |-> cjob'[v]]
  BY DEF append_write, proceed, RevocationInv, CertJobs
<1>3. CertJobs'
  BY <1>1, <1>2 DEF RevocationInv, CertJobs
<1>4. \A v \in CertProcesses : Appending(v)' => v # w /\ Appending(v) /\ cjob'[v] = cjob[v]
  BY <1>1 DEF Appending
<1>5. Appending(w) /\ overlap' = overlap
  BY DEF append_write, at, Appending
<1>6. Locked'
  <2> SUFFICES ASSUME NEW v \in CertWorkers, Appending(v)' PROVE revoked_lock' = v
    BY DEF Locked
  <2>1. v # w /\ revoked_lock = v
    BY <1>4 DEF RevocationInv, Locked, CertProcesses
  <2> QED
    BY <2>1 DEF append_write
<1>7. LoneAppend'
  <2> SUFFICES ASSUME ~overlap PROVE /\ \A v \in CertProcesses : ~Appending(v)'
                                     /\ revocations' \subseteq revoked'
    BY <1>5 DEF LoneAppend
  <2>1. \A v \in CertProcesses : ~Appending(v)'
    BY <1>4, <1>5 DEF RevocationInv, LoneAppend
  <2>2. cjob[w].existing = revoked /\ revocations \subseteq revoked
    BY <1>5 DEF RevocationInv, LoneAppend
  <2>3. revocations' \subseteq revoked'
    BY <2>2 DEF append_write
  <2> QED
    BY <2>1, <2>3
<1> QED
  BY <1>3, <1>5, <1>6, <1>7 DEF RevocationInv

LEMMA CrashStep == ASSUME RevocationInv, crash PROVE RevocationInv'
<1>1. cjob' = [w \in CertProcesses |-> cjob'[w]]
      /\ \A w \in CertProcesses : cjob'[w].at = "idle"
  BY DEF crash, IdleJob
<1>2. CertJobs'
  BY <1>1 DEF CertJobs
<1> QED
  BY <1>1, <1>2 DEF crash, RevocationInv, Locked, LoneAppend, Appending, CertProcesses

LEMMA RevocationStep == RevocationInv /\ [CertNext]_certVars => RevocationInv'
<1> SUFFICES ASSUME RevocationInv, [CertNext]_certVars PROVE RevocationInv'
  OBVIOUS
<1>1. CASE boot_load \/ boot_ca \/ boot_server
  BY <1>1, StandsStill DEF boot_load, boot_ca, boot_server, BootFrame, crlFiles
<1>2. ASSUME NEW w \in CertProcesses, NEW u \in CertUsers, create_p12(w, u)
      PROVE  RevocationInv'
  BY <1>2, StandsStill DEF create_p12, crlFiles
<1>3. ASSUME NEW w \in CertWorkers,
             \/ \E mode \in {"auto", "external"} : save_certificate_settings(w, mode)
             \/ \E on \in BOOLEAN : save_letsencrypt_settings(w, on)
      PROVE  RevocationInv'
  BY <1>3, StandsStill DEF save_certificate_settings, save_letsencrypt_settings, crlFiles
<1>4. ASSUME NEW w \in CertWorkers, activate(w) PROVE RevocationInv'
  BY <1>4, OtherSteps DEF CertProcesses
<1>5. CASE UNCHANGED certVars
  BY <1>5, StandsStill DEF certVars
<1> QED
  BY <1>1, <1>2, <1>3, <1>4, <1>5, OtherRequests, OtherSteps, AppendReadStep,
     AppendWriteStep, CrashStep DEF CertNext

-----------------------------------------------------------------------------

(* append_revoked_certificate loses no revocation: for any number of panel   *)
(* threads that revoke at once and crashes at any point, what was written to *)
(* revoked.pem stays, unless a korctl process rewrote it at the same time.   *)
THEOREM RevocationsKeptHolds == CertSpec => []RevocationsKept
<1>1. RevocationInv => RevocationsKept
  BY DEF RevocationInv, LoneAppend, RevocationsKept
<1> QED
  BY <1>1, RevocationInit, RevocationStep, PTL DEF CertSpec
-----------------------------------------------------------------------------
(* Types, the boot and the server's key *)

\* Files and jobs, when the keys below n are generated and the certificates in iss signed.
Keys(n)  == 1 .. (n - 1)
Certs(n) == [key : Keys(n), by : Keys(n)]
Pair(n)  == [key : Keys(n) \cup {NoCert}, crt : Certs(n) \cup {NoCert}]
UserFile(n, iss) == [key : Keys(n) \cup {NoCert}, crt : iss \cup {NoCert}, p12 : Pair(n)]

PlainJob     == [at : {"idle", "ca_key", "ca_crt", "upload_crt", "crl_read"}]
UploadJob(n) == [at : {"upload_key"}, key : Keys(n)]
UserJob      == [at : {"user_key", "user_crt"}, user : CertUsers]
ReadJob(iss) == [at : {"append_read"}, cert : iss]
WriteJob(iss) == [at : {"append_write"}, cert : iss, existing : SUBSET iss]
CrlJob(iss)  == [at : {"crl_write"}, certs : SUBSET iss]
MaterialJob  == [at : {"write_material", "activate"}, what : {"external", "letsencrypt"}]
CertJob(n, iss) == PlainJob \cup UploadJob(n) \cup UserJob \cup ReadJob(iss) \cup WriteJob(iss)
                   \cup CrlJob(iss) \cup MaterialJob

Section == [mode : {"auto", "external"}, letsencrypt : BOOLEAN,
            paths : {"none", "external", "letsencrypt"}]
Stage   == {"load", "ca", "ca_sign", "server", "server_sign", "up"}

CertTypes ==
    /\ next_key \in Nat \ {0} /\ issued \in SUBSET Certs(next_key)
    /\ ca \in Pair(next_key) /\ server \in Pair(next_key)
    /\ user \in [CertUsers -> UserFile(next_key, issued)]
    /\ cjob \in [CertProcesses -> CertJob(next_key, issued)]
    /\ revoked \in SUBSET issued /\ crl \in SUBSET issued /\ revocations \in SUBSET issued
    /\ material \in SUBSET {"external", "letsencrypt"}
    /\ cert_config \in Section /\ boot \in Stage

\* The lock is held by a panel thread that rewrites revoked.pem.
LockHeld ==
    revoked_lock # NoCert => revoked_lock \in CertWorkers /\ Appending(revoked_lock)

\* A certificate is signed for a key that is there, and files are configured that are.
Prepared ==
    \A w \in CertProcesses :
        /\ cjob[w].at = "user_crt" => user[cjob[w].user].key # NoCert
        /\ cjob[w].at = "activate" => cjob[w].what \in material

\* What each stage of the boot relies on.
BootOK ==
    /\ boot # "up" => \A w \in CertProcesses : cjob[w] = IdleJob
    /\ boot \in {"ca_sign", "server", "server_sign", "up"} => ca.key # NoCert
    /\ boot \in {"server", "server_sign", "up"} => ca.crt # NoCert
    /\ boot = "server_sign" => server.key # NoCert
    /\ boot \in {"ca", "ca_sign", "server", "server_sign"} => Valid(cert_config)
    /\ cert_config.paths \in material \cup {"none"}

CertInv == CertTypes /\ LockHeld /\ Prepared /\ BootOK

LEMMA FilesGrow ==
    ASSUME NEW n \in Nat, NEW m \in Nat, n <= m, NEW iss, NEW more, iss \subseteq more
    PROVE  /\ Keys(n) \subseteq Keys(m) /\ Certs(n) \subseteq Certs(m) /\ Pair(n) \subseteq Pair(m)
           /\ UserFile(n, iss) \subseteq UserFile(m, more)
           /\ CertJob(n, iss) \subseteq CertJob(m, more)
<1>1. Keys(n) \subseteq Keys(m) BY DEF Keys
<1>2. Certs(n) \subseteq Certs(m) BY <1>1 DEF Certs
<1>3. Pair(n) \subseteq Pair(m) BY <1>1, <1>2 DEF Pair
<1>4. UserFile(n, iss) \subseteq UserFile(m, more) BY <1>1, <1>3 DEF UserFile
<1>5. UploadJob(n) \subseteq UploadJob(m) BY <1>1 DEF UploadJob
<1>6. ReadJob(iss) \subseteq ReadJob(more) BY DEF ReadJob
<1>7. WriteJob(iss) \subseteq WriteJob(more) BY DEF WriteJob
<1>8. CrlJob(iss) \subseteq CrlJob(more) BY DEF CrlJob
<1>9. CertJob(n, iss) \subseteq CertJob(m, more) BY <1>5, <1>6, <1>7, <1>8 DEF CertJob
<1> QED BY <1>1, <1>2, <1>3, <1>4, <1>9

LEMMA CertJobAt ==
    ASSUME NEW n, NEW iss, NEW j \in CertJob(n, iss)
    PROVE  /\ j.at = "upload_key" => j.key \in Keys(n)
           /\ j.at \in {"user_key", "user_crt"} => j \in UserJob /\ j.user \in CertUsers
           /\ j.at = "append_read" => j.cert \in iss
           /\ j.at = "append_write" => j.cert \in iss /\ j.existing \in SUBSET iss
           /\ j.at = "crl_write" => j.certs \in SUBSET iss
           /\ j.at \in {"write_material", "activate"} =>
                j \in MaterialJob /\ j.what \in {"external", "letsencrypt"}
<1>1. CASE j \in PlainJob BY <1>1 DEF PlainJob
<1>2. CASE j \in UploadJob(n) BY <1>2 DEF UploadJob
<1>3. CASE j \in UserJob BY <1>3 DEF UserJob
<1>4. CASE j \in ReadJob(iss) BY <1>4 DEF ReadJob
<1>5. CASE j \in WriteJob(iss) BY <1>5 DEF WriteJob
<1>6. CASE j \in CrlJob(iss) BY <1>6 DEF CrlJob
<1>7. CASE j \in MaterialJob BY <1>7 DEF MaterialJob
<1> QED BY <1>1, <1>2, <1>3, <1>4, <1>5, <1>6, <1>7 DEF CertJob

LEMMA IdleIs == IdleJob \in PlainJob /\ IdleJob.at = "idle"
BY DEF IdleJob, PlainJob

\* A step of a request: what it may do to the files, and the job it leaves.
CertMoves(w, j) ==
    /\ cjob' = [cjob EXCEPT ![w] = j] /\ j \in CertJob(next_key', issued')
    /\ boot = "up" /\ boot' = "up" /\ server' = server
    /\ next_key' \in {next_key, next_key + 1}
    /\ issued' = issued \/ \E c \in Certs(next_key') : issued' = issued \cup {c}
    /\ ca' = ca \/ (ca' \in Pair(next_key') /\ ca'.key # NoCert /\ ca'.crt # NoCert)
    /\ user' = user \/ \E u \in CertUsers, f \in UserFile(next_key', issued') :
                            user' = [user EXCEPT ![u] = f] /\ f.key # NoCert
    /\ revoked' = revoked \/ revoked' \in SUBSET issued
    /\ crl' = crl \/ crl' \in SUBSET issued
    /\ revocations' = revocations \/ revocations' \in SUBSET issued
    /\ material \subseteq material' /\ material' \in SUBSET {"external", "letsencrypt"}
    /\ cert_config' \in Section /\ cert_config'.paths \in material' \cup {"none"}
    /\ j.at = "user_crt" => user'[j.user].key # NoCert
    /\ j.at = "activate" => j.what \in material'
    /\ (~Appending(w) /\ revoked_lock' = revoked_lock) \/ LockHeld'

LEMMA MovesKeeps ==
    ASSUME CertInv, NEW w \in CertProcesses, NEW j, CertMoves(w, j)
    PROVE  CertInv'
<1>1. CertTypes /\ LockHeld /\ Prepared /\ BootOK BY DEF CertInv
<1>2. /\ next_key \in Nat /\ next_key' \in Nat \ {0} /\ next_key <= next_key'
      /\ issued \subseteq issued'
  BY <1>1 DEF CertMoves, CertTypes
<1>3. /\ Certs(next_key) \subseteq Certs(next_key') /\ Pair(next_key) \subseteq Pair(next_key')
      /\ UserFile(next_key, issued) \subseteq UserFile(next_key', issued')
      /\ CertJob(next_key, issued) \subseteq CertJob(next_key', issued')
  BY <1>2, FilesGrow
<1>4. /\ cjob'[w] = j /\ \A v \in CertProcesses : v # w => cjob'[v] = cjob[v]
      /\ cjob' \in [CertProcesses -> CertJob(next_key', issued')]
  BY <1>1, <1>3 DEF CertMoves, CertTypes
<1>5. /\ user' \in [CertUsers -> UserFile(next_key', issued')]
      /\ \A u \in CertUsers : user[u].key # NoCert => user'[u].key # NoCert
  <2>1. user \in [CertUsers -> UserFile(next_key', issued')] BY <1>1, <1>3 DEF CertTypes
  <2>2. CASE user' = user BY <2>1, <2>2
  <2>3. CASE \E u \in CertUsers, f \in UserFile(next_key', issued') :
                  user' = [user EXCEPT ![u] = f] /\ f.key # NoCert
    BY <2>1, <2>3
  <2> QED BY <2>2, <2>3 DEF CertMoves
<1>6. issued' \in SUBSET Certs(next_key') BY <1>1, <1>3 DEF CertMoves, CertTypes
<1>7. ca' \in Pair(next_key') /\ ca'.key # NoCert /\ ca'.crt # NoCert
  <2>1. boot = "up" BY DEF CertMoves
  <2>2. ca \in Pair(next_key') /\ ca.key # NoCert /\ ca.crt # NoCert
    BY <1>1, <1>3, <2>1 DEF BootOK, CertTypes
  <2> QED BY <2>2 DEF CertMoves
<1>8. CertTypes'
  <2>1. server' \in Pair(next_key') BY <1>1, <1>3 DEF CertMoves, CertTypes
  <2>2. /\ revoked' \in SUBSET issued' /\ crl' \in SUBSET issued'
        /\ revocations' \in SUBSET issued'
    BY <1>1, <1>2 DEF CertMoves, CertTypes
  <2>3. /\ material' \in SUBSET {"external", "letsencrypt"} /\ cert_config' \in Section
        /\ boot' \in Stage
    BY DEF CertMoves, Stage
  <2> QED BY <1>2, <1>4, <1>5, <1>6, <1>7, <2>1, <2>2, <2>3 DEF CertTypes
<1>9. LockHeld'
  <2>1. CASE ~Appending(w) /\ revoked_lock' = revoked_lock
    <3>1. CertWorkers \subseteq CertProcesses BY DEF CertProcesses
    <3> QED BY <1>1, <1>4, <2>1, <3>1 DEF LockHeld, Appending
  <2> QED BY <2>1 DEF CertMoves
<1>10. Prepared'
  <2>1. ASSUME NEW v \in CertProcesses
        PROVE  /\ cjob'[v].at = "user_crt" => user'[cjob'[v].user].key # NoCert
               /\ cjob'[v].at = "activate" => cjob'[v].what \in material'
    <3>1. CASE v = w BY <1>4, <3>1 DEF CertMoves
    <3>2. CASE v # w
      <4>1. cjob'[v] = cjob[v] BY <1>4, <3>2
      <4>2. cjob[v] \in CertJob(next_key, issued) BY <1>1 DEF CertTypes
      <4>3. cjob[v].at = "user_crt" => cjob[v].user \in CertUsers BY <4>2, CertJobAt
      <4>4. material \subseteq material' BY DEF CertMoves
      <4> QED BY <1>1, <1>5, <4>1, <4>3, <4>4 DEF Prepared
    <3> QED BY <3>1, <3>2
  <2> QED BY <2>1 DEF Prepared
<1>11. BootOK' BY <1>7 DEF CertMoves, BootOK
<1> QED BY <1>8, <1>9, <1>10, <1>11 DEF CertInv

\* What a request finds when its step begins.
LEMMA AtStep ==
    ASSUME CertInv, NEW w \in CertProcesses, boot = "up"
    PROVE  /\ ca \in Pair(next_key) /\ ca.key \in Keys(next_key) /\ ca.crt \in Certs(next_key)
           /\ next_key \in Nat /\ next_key \in Keys(next_key + 1)
           /\ cjob[w] \in CertJob(next_key, issued)
           /\ cert_config \in Section /\ cert_config.paths \in material \cup {"none"}
           /\ material \in SUBSET {"external", "letsencrypt"}
           /\ NoCert \notin Nat
           /\ cjob = [v \in CertProcesses |-> cjob[v]] /\ DOMAIN cjob = CertProcesses
<1>1. CertTypes /\ BootOK BY DEF CertInv
<1>2. ca.key # NoCert /\ ca.crt # NoCert BY <1>1 DEF BootOK
<1>3. ca \in Pair(next_key) /\ ca.key \in Keys(next_key) /\ ca.crt \in Certs(next_key)
  BY <1>1, <1>2 DEF CertTypes, Pair
<1>4. next_key \in Nat /\ next_key \in Keys(next_key + 1) BY <1>1 DEF CertTypes, Keys
<1>5. NoCert \notin Nat BY CertAssumption
<1> QED BY <1>1, <1>3, <1>4, <1>5 DEF CertTypes, BootOK

\* Requests.
LEMMA RequestMoves ==
    ASSUME CertInv, NEW w \in CertProcesses, NEW j \in CertJob(next_key, issued), request(w, j),
           j.at \notin {"user_crt", "activate"}
    PROVE  CertInv'
<1>1. boot = "up" BY DEF request, at
<1>2. CertMoves(w, j)
  BY <1>1, AtStep DEF CertMoves, request, proceed, at, Appending, caFiles, crlFiles
<1> QED BY <1>2, MovesKeeps

LEMMA RequestsKeep ==
    ASSUME CertInv, NEW w \in CertProcesses,
           \/ regenerate_ca(w) \/ upload_ca(w) \/ revoke_certificate_pem(w)
           \/ upload_external(w) \/ issue_letsencrypt(w)
           \/ \E u \in CertUsers : create_user_certificate(w, u) \/ revoke_user_certificate(w, u)
    PROVE  CertInv'
<1>1. CASE regenerate_ca(w) \/ upload_ca(w)
  <2>1. PICK j \in PlainJob : request(w, j) /\ j.at \notin {"user_crt", "activate"}
    BY <1>1 DEF regenerate_ca, upload_ca, PlainJob
  <2> QED BY <2>1, RequestMoves DEF CertJob
<1>2. CASE revoke_certificate_pem(w)
  <2>1. PICK c \in issued : request(w, [at |-> "append_read", cert |-> c])
    BY <1>2 DEF revoke_certificate_pem
  <2> DEFINE j == [at |-> "append_read", cert |-> c]
  <2>2. j \in CertJob(next_key, issued) /\ j.at = "append_read" BY DEF CertJob, ReadJob
  <2> HIDE DEF j
  <2>3. request(w, j) BY <2>1 DEF j
  <2> QED BY <2>2, <2>3, RequestMoves
<1>3. CASE upload_external(w) \/ issue_letsencrypt(w)
  <2>1. PICK j \in MaterialJob : request(w, j) /\ j.at \notin {"user_crt", "activate"}
    BY <1>3 DEF upload_external, issue_letsencrypt, MaterialJob
  <2> QED BY <2>1, RequestMoves DEF CertJob
<1>4. ASSUME NEW u \in CertUsers, create_user_certificate(w, u) PROVE CertInv'
  <2>1. PICK j \in UserJob : request(w, j) /\ j.at \notin {"user_crt", "activate"}
    BY <1>4 DEF create_user_certificate, UserJob
  <2> QED BY <2>1, RequestMoves DEF CertJob
<1>5. ASSUME NEW u \in CertUsers, revoke_user_certificate(w, u) PROVE CertInv'
  <2>1. CASE user[u].crt = NoCert
    <3>1. PICK j \in PlainJob : request(w, j) /\ j.at \notin {"user_crt", "activate"}
      BY <1>5, <2>1 DEF revoke_user_certificate, PlainJob
    <3> QED BY <3>1, RequestMoves DEF CertJob
  <2>2. CASE user[u].crt # NoCert
    <3>1. user[u].crt \in issued BY <2>2 DEF CertInv, CertTypes, UserFile
    <3>2. PICK j \in ReadJob(issued) : request(w, j) /\ j.at \notin {"user_crt", "activate"}
      BY <1>5, <2>2, <3>1 DEF revoke_user_certificate, ReadJob
    <3> QED BY <3>2, RequestMoves DEF CertJob
  <2> QED BY <2>1, <2>2
<1> QED BY <1>1, <1>2, <1>3, <1>4, <1>5

\* The CA's key and certificate.
LEMMA CaStepsKeep ==
    ASSUME CertInv, NEW w \in CertProcesses,
           \/ ca_generate_privkey(w) \/ ca_self_sign(w) \/ upload_ca_crt(w) \/ upload_ca_key(w)
    PROVE  CertInv'
<1>1. boot = "up" BY DEF ca_generate_privkey, ca_self_sign, upload_ca_crt, upload_ca_key, at
<1>2. /\ ca \in Pair(next_key) /\ ca.key \in Keys(next_key) /\ ca.crt \in Certs(next_key)
      /\ next_key \in Nat /\ next_key \in Keys(next_key + 1)
      /\ cjob[w] \in CertJob(next_key, issued)
      /\ cert_config \in Section /\ cert_config.paths \in material \cup {"none"}
      /\ material \in SUBSET {"external", "letsencrypt"} /\ NoCert \notin Nat
  BY <1>1, AtStep
<1>3. \A n \in Nat : Keys(n) \subseteq Nat /\ NoCert \notin Keys(n) /\ NoCert \notin Certs(n)
  BY <1>2, CertAssumption DEF Keys, Certs
<1>4. Keys(next_key) \subseteq Keys(next_key + 1) /\ Certs(next_key) \subseteq Certs(next_key + 1)
      /\ Pair(next_key) \subseteq Pair(next_key + 1)
  BY <1>2, FilesGrow
<1> USE DEF CertMoves, proceed, idle, at, Appending, crlFiles
<1>5. CASE ca_generate_privkey(w)
  <2>1. [at |-> "ca_crt"] \in CertJob(next_key + 1, issued) BY DEF CertJob, PlainJob
  <2>2. [ca EXCEPT !.key = next_key] \in Pair(next_key + 1) /\ [ca EXCEPT !.key = next_key].key # NoCert
        /\ [ca EXCEPT !.key = next_key].crt # NoCert
    BY <1>2, <1>3, <1>4 DEF Pair
  <2>3. CertMoves(w, [at |-> "ca_crt"]) BY <1>1, <1>2, <1>5, <2>1, <2>2 DEF ca_generate_privkey
  <2> QED BY <2>3, MovesKeeps
<1>6. CASE ca_self_sign(w)
  <2>1. IdleJob \in CertJob(next_key, issued) /\ IdleJob.at = "idle" BY IdleIs DEF CertJob
  <2>2. Cert(ca.key, ca.key) \in Certs(next_key) BY <1>2 DEF Cert, Certs
  <2>3. [ca EXCEPT !.crt = Cert(ca.key, ca.key)] \in Pair(next_key)
        /\ [ca EXCEPT !.crt = Cert(ca.key, ca.key)].key # NoCert
        /\ [ca EXCEPT !.crt = Cert(ca.key, ca.key)].crt # NoCert
    BY <1>2, <1>3, <2>2 DEF Pair
  <2>4. CertMoves(w, IdleJob) BY <1>1, <1>2, <1>6, <2>1, <2>3 DEF ca_self_sign
  <2> QED BY <2>4, MovesKeeps
<1>7. CASE upload_ca_crt(w)
  <2> DEFINE j == [at |-> "upload_key", key |-> next_key]
  <2>1. j \in CertJob(next_key + 1, issued) /\ j.at = "upload_key" BY <1>2 DEF CertJob, UploadJob
  <2>2. Cert(next_key, next_key) \in Certs(next_key + 1) BY <1>2 DEF Cert, Certs
  <2>3. [ca EXCEPT !.crt = Cert(next_key, next_key)] \in Pair(next_key + 1)
        /\ [ca EXCEPT !.crt = Cert(next_key, next_key)].key # NoCert
        /\ [ca EXCEPT !.crt = Cert(next_key, next_key)].crt # NoCert
    BY <1>2, <1>3, <1>4, <2>2 DEF Pair
  <2>4. CertMoves(w, j) BY <1>1, <1>2, <1>7, <2>1, <2>3 DEF upload_ca_crt
  <2> QED BY <2>4, MovesKeeps
<1>8. CASE upload_ca_key(w)
  <2>1. IdleJob \in CertJob(next_key, issued) /\ IdleJob.at = "idle" BY IdleIs DEF CertJob
  <2>2. cjob[w].key \in Keys(next_key) BY <1>2, <1>8, CertJobAt DEF upload_ca_key
  <2>3. [ca EXCEPT !.key = cjob[w].key] \in Pair(next_key)
        /\ [ca EXCEPT !.key = cjob[w].key].key # NoCert
        /\ [ca EXCEPT !.key = cjob[w].key].crt # NoCert
    BY <1>2, <1>3, <2>2 DEF Pair
  <2>4. CertMoves(w, IdleJob) BY <1>1, <1>2, <1>8, <2>1, <2>3 DEF upload_ca_key
  <2> QED BY <2>4, MovesKeeps
<1> QED BY <1>5, <1>6, <1>7, <1>8

\* A user's key, certificate and bundle.
LEMMA UserStepsKeep ==
    ASSUME CertInv, NEW w \in CertProcesses,
           \/ user_generate_privkey(w) \/ user_sign(w) \/ \E u \in CertUsers : create_p12(w, u)
    PROVE  CertInv'
<1>1. boot = "up" BY DEF user_generate_privkey, user_sign, create_p12, at
<1>2. /\ ca.key \in Keys(next_key) /\ next_key \in Nat /\ next_key \in Keys(next_key + 1)
      /\ cjob[w] \in CertJob(next_key, issued)
      /\ cert_config \in Section /\ cert_config.paths \in material \cup {"none"}
      /\ material \in SUBSET {"external", "letsencrypt"} /\ NoCert \notin Nat
      /\ cjob = [v \in CertProcesses |-> cjob[v]]
  BY <1>1, AtStep
<1>3. user \in [CertUsers -> UserFile(next_key, issued)] BY DEF CertInv, CertTypes
<1>4. UserFile(next_key, issued) \subseteq UserFile(next_key + 1, issued) BY <1>2, FilesGrow
<1> USE DEF CertMoves, proceed, idle, at, Appending, crlFiles
<1>5. CASE user_generate_privkey(w)
  <2> DEFINE u == cjob[w].user
             f == [user[u] EXCEPT !.key = next_key]
             j == [cjob[w] EXCEPT !.at = "user_crt"]
  <2>1. cjob[w] \in UserJob /\ u \in CertUsers
    BY <1>2, <1>5, CertJobAt DEF user_generate_privkey
  <2>2. j \in UserJob /\ j.at = "user_crt" /\ j.user = u BY <2>1 DEF UserJob
  <2>3. f \in UserFile(next_key + 1, issued) /\ f.key = next_key
    BY <1>2, <1>3, <1>4, <2>1 DEF UserFile
  <2>4. user' = [user EXCEPT ![u] = f] /\ user'[u] = f
    BY <1>3, <1>5, <2>1 DEF user_generate_privkey
  <2>5. cjob' = [cjob EXCEPT ![w] = j] /\ next_key' = next_key + 1 /\ ~Appending(w)
        /\ UNCHANGED <<ca, server, issued, crlFiles, material, cert_config, boot>>
    BY <1>5 DEF user_generate_privkey
  <2>6. j \in CertJob(next_key', issued') BY <2>2 DEF CertJob
  <2> HIDE DEF f, j, u
  <2>7. CertMoves(w, j) BY <1>1, <1>2, <2>1, <2>2, <2>3, <2>4, <2>5, <2>6
  <2> QED BY <2>7, MovesKeeps
<1>6. CASE user_sign(w)
  <2> DEFINE u == cjob[w].user
             crt == Cert(user[u].key, ca.key)
             f == [user[u] EXCEPT !.crt = crt]
  <2>1. cjob[w].at = "user_crt" BY <1>6 DEF user_sign
  <2>2. u \in CertUsers BY <1>2, <2>1, CertJobAt
  <2>3. user[u].key # NoCert BY <2>1 DEF CertInv, Prepared
  <2>4. user[u].key \in Keys(next_key) BY <1>3, <2>2, <2>3 DEF UserFile
  <2>5. crt \in Certs(next_key) BY <1>2, <2>4 DEF Cert, Certs
  <2>6. f \in UserFile(next_key, issued \cup {crt}) /\ f.key # NoCert
    BY <1>3, <2>2, <2>3 DEF UserFile
  <2>7. user' = [user EXCEPT ![u] = f] /\ issued' = issued \cup {crt}
    BY <1>3, <1>6, <2>2 DEF user_sign
  <2>8. cjob' = [cjob EXCEPT ![w] = IdleJob] /\ ~Appending(w)
        /\ UNCHANGED <<ca, server, next_key, crlFiles, material, cert_config, boot>>
    BY <1>6 DEF user_sign
  <2>9. IdleJob \in CertJob(next_key', issued') /\ IdleJob.at = "idle" BY IdleIs DEF CertJob
  <2> HIDE DEF f, crt, u
  <2>10. CertMoves(w, IdleJob) BY <1>1, <1>2, <2>2, <2>5, <2>6, <2>7, <2>8, <2>9
  <2> QED BY <2>10, MovesKeeps
<1>7. ASSUME NEW u \in CertUsers, create_p12(w, u) PROVE CertInv'
  <2> DEFINE p == [key |-> user[u].key, crt |-> user[u].crt]
             f == [user[u] EXCEPT !.p12 = p]
  <2>1. user[u].key # NoCert /\ user[u].crt # NoCert BY <1>7 DEF create_p12
  <2>2. user[u].key \in Keys(next_key) /\ user[u].crt \in Certs(next_key)
    BY <1>3, <2>1 DEF UserFile, CertInv, CertTypes
  <2>3. p \in Pair(next_key) BY <2>2 DEF Pair
  <2>4. f \in UserFile(next_key, issued) /\ f.key # NoCert
    <3> HIDE DEF p
    <3> QED BY <1>3, <2>1, <2>3 DEF UserFile
  <2>5. user' = [user EXCEPT ![u] = f] BY <1>3, <1>7 DEF create_p12
  <2>6. cjob' = [cjob EXCEPT ![w] = cjob[w]] /\ cjob[w].at = "idle"
        /\ UNCHANGED <<ca, server, next_key, issued, crlFiles, material, cert_config, boot>>
    BY <1>2, <1>7 DEF create_p12
  <2> HIDE DEF f
  <2>7. CertMoves(w, cjob[w]) BY <1>1, <1>2, <2>4, <2>5, <2>6
  <2> QED BY <2>7, MovesKeeps
<1> QED BY <1>5, <1>6, <1>7

\* Revocation.
LEMMA RevokeStepsKeep ==
    ASSUME CertInv, NEW w \in CertProcesses,
           append_read(w) \/ append_write(w) \/ crl_read(w) \/ crl_write(w) \/ command_fails(w)
    PROVE  CertInv'
<1>1. boot = "up" BY DEF append_read, append_write, crl_read, crl_write, command_fails, at
<1>2. /\ cjob[w] \in CertJob(next_key, issued)
      /\ cert_config \in Section /\ cert_config.paths \in material \cup {"none"}
      /\ material \in SUBSET {"external", "letsencrypt"}
      /\ DOMAIN cjob = CertProcesses
  BY <1>1, AtStep
<1>3. /\ revoked \in SUBSET issued /\ revocations \in SUBSET issued /\ LockHeld
      /\ cjob \in [CertProcesses -> CertJob(next_key, issued)]
  BY DEF CertInv, CertTypes
<1>4. IdleJob \in CertJob(next_key, issued) /\ IdleJob.at = "idle" BY IdleIs DEF CertJob
<1>5. CertWorkers \subseteq CertProcesses BY DEF CertProcesses
<1> USE DEF CertMoves, proceed, idle, at, caFiles
<1>6. CASE append_read(w)
  <2> DEFINE j == [at |-> "append_write", cert |-> cjob[w].cert, existing |-> revoked]
  <2>1. cjob[w].at = "append_read" /\ cjob' = [cjob EXCEPT ![w] = j]
        /\ revoked_lock' = (IF w \in CertWorkers THEN w ELSE revoked_lock)
        /\ UNCHANGED <<caFiles, revoked, crl, revocations, material, cert_config, boot>>
    BY <1>6 DEF append_read
  <2>2. cjob[w].cert \in issued BY <1>2, <2>1, CertJobAt
  <2>3. j \in CertJob(next_key, issued) /\ j.at = "append_write"
    BY <1>3, <2>2 DEF CertJob, WriteJob
  <2> HIDE DEF j
  <2>4. cjob'[w] = j /\ \A v \in CertProcesses : v # w => cjob'[v] = cjob[v] BY <1>3, <2>1
  <2>5. LockHeld' BY <1>3, <1>5, <2>1, <2>3, <2>4 DEF LockHeld, Appending
  <2>6. CertMoves(w, j) BY <1>1, <1>2, <2>1, <2>3, <2>5
  <2> QED BY <2>6, MovesKeeps
<1>7. CASE append_write(w)
  <2> DEFINE j == [at |-> "crl_read"]
  <2>1. cjob[w].at = "append_write" /\ cjob' = [cjob EXCEPT ![w] = j]
        /\ revoked' = (IF cjob[w].cert \in cjob[w].existing THEN revoked
                       ELSE cjob[w].existing \cup {cjob[w].cert})
        /\ revocations' = revocations \cup {cjob[w].cert}
        /\ revoked_lock' = (IF revoked_lock = w THEN NoCert ELSE revoked_lock)
        /\ UNCHANGED <<caFiles, crl, material, cert_config, boot>>
    BY <1>7 DEF append_write
  <2>2. cjob[w].cert \in issued /\ cjob[w].existing \in SUBSET issued
    BY <1>2, <2>1, CertJobAt
  <2>3. j \in CertJob(next_key, issued) /\ j.at = "crl_read" BY DEF CertJob, PlainJob
  <2> HIDE DEF j
  <2>4. \A v \in CertProcesses : v # w => cjob'[v] = cjob[v] BY <1>3, <2>1
  <2>5. LockHeld' BY <1>3, <1>5, <2>1, <2>4 DEF LockHeld, Appending
  <2>6. revoked' \in SUBSET issued /\ revocations' \in SUBSET issued BY <1>3, <2>1, <2>2
  <2>7. CertMoves(w, j) BY <1>1, <1>2, <2>1, <2>3, <2>5, <2>6
  <2> QED BY <2>7, MovesKeeps
<1>8. CASE crl_read(w)
  <2> DEFINE j == IF revoked = {} THEN IdleJob ELSE [at |-> "crl_write", certs |-> revoked]
  <2>1. j \in CertJob(next_key, issued) /\ j.at \in {"idle", "crl_write"}
    <3>1. CASE revoked = {} BY <1>4, <3>1
    <3>2. CASE revoked # {} BY <1>3, <3>2 DEF CertJob, CrlJob
    <3> QED BY <3>1, <3>2
  <2>2. cjob' = [cjob EXCEPT ![w] = j] /\ ~Appending(w)
        /\ UNCHANGED <<caFiles, crlFiles, material, cert_config, boot>>
    BY <1>8 DEF crl_read, Appending
  <2> HIDE DEF j
  <2>3. CertMoves(w, j) BY <1>1, <1>2, <2>1, <2>2 DEF crlFiles
  <2> QED BY <2>3, MovesKeeps
<1>9. CASE crl_write(w)
  <2>1. cjob[w].at = "crl_write" /\ crl' = cjob[w].certs BY <1>9 DEF crl_write
  <2>2. crl' \in SUBSET issued BY <1>2, <2>1, CertJobAt
  <2>3. CertMoves(w, IdleJob) BY <1>1, <1>2, <1>4, <1>9, <2>2 DEF crl_write, Appending
  <2> QED BY <2>3, MovesKeeps
<1>10. CASE command_fails(w)
  <2>1. CertMoves(w, IdleJob) BY <1>1, <1>2, <1>4, <1>10 DEF command_fails, Appending, crlFiles
  <2> QED BY <2>1, MovesKeeps
<1> QED BY <1>6, <1>7, <1>8, <1>9, <1>10

\* The certificates section and the files it points at.
LEMMA SectionStepsKeep ==
    ASSUME CertInv, NEW w \in CertProcesses,
           \/ write_material(w) \/ activate(w)
           \/ \E mode \in {"auto", "external"} : save_certificate_settings(w, mode)
           \/ \E on \in BOOLEAN : save_letsencrypt_settings(w, on)
    PROVE  CertInv'
<1>1. boot = "up"
  BY DEF write_material, activate, save_certificate_settings, save_letsencrypt_settings, at
<1>2. /\ cjob[w] \in CertJob(next_key, issued)
      /\ cert_config \in Section /\ cert_config.paths \in material \cup {"none"}
      /\ material \in SUBSET {"external", "letsencrypt"}
      /\ cjob = [v \in CertProcesses |-> cjob[v]]
  BY <1>1, AtStep
<1>3. IdleJob \in CertJob(next_key, issued) /\ IdleJob.at = "idle" BY IdleIs DEF CertJob
<1> USE DEF CertMoves, proceed, idle, at, Appending, caFiles, crlFiles
<1>4. CASE write_material(w)
  <2> DEFINE j == IF w \in KorctlRuns THEN IdleJob ELSE [cjob[w] EXCEPT !.at = "activate"]
  <2>1. cjob[w].at = "write_material" /\ material' = material \cup {cjob[w].what}
        /\ cjob' = [cjob EXCEPT ![w] = j]
        /\ UNCHANGED <<caFiles, crlFiles, cert_config, boot>>
    BY <1>4 DEF write_material
  <2>2. cjob[w] \in MaterialJob /\ cjob[w].what \in {"external", "letsencrypt"}
    BY <1>2, <2>1, CertJobAt
  <2>3. j \in CertJob(next_key, issued) /\ j.at \in {"idle", "activate"}
        /\ (j.at = "activate" => j.what = cjob[w].what)
    <3>1. CASE w \in KorctlRuns BY <1>3, <3>1
    <3>2. CASE w \notin KorctlRuns BY <2>2, <3>2 DEF CertJob, MaterialJob
    <3> QED BY <3>1, <3>2
  <2> HIDE DEF j
  <2>4. CertMoves(w, j) BY <1>1, <1>2, <2>1, <2>2, <2>3
  <2> QED BY <2>4, MovesKeeps
<1>5. CASE activate(w)
  <2>1. cjob[w].at = "activate" /\ cjob' = [cjob EXCEPT ![w] = IdleJob]
        /\ cert_config' = [mode |-> "external", paths |-> cjob[w].what,
                           letsencrypt |-> cjob[w].what = "letsencrypt"]
        /\ UNCHANGED <<caFiles, crlFiles, material, boot>>
    BY <1>5 DEF activate
  <2>2. cjob[w].what \in {"external", "letsencrypt"} BY <1>2, <2>1, CertJobAt
  <2>3. cjob[w].what \in material BY <2>1 DEF CertInv, Prepared
  <2>4. cert_config' \in Section /\ cert_config'.paths = cjob[w].what BY <2>1, <2>2 DEF Section
  <2>5. CertMoves(w, IdleJob) BY <1>1, <1>2, <1>3, <2>1, <2>3, <2>4
  <2> QED BY <2>5, MovesKeeps
<1>6. CASE \/ \E mode \in {"auto", "external"} : save_certificate_settings(w, mode)
           \/ \E on \in BOOLEAN : save_letsencrypt_settings(w, on)
  <2>1. /\ cert_config' \in Section /\ cert_config'.paths = cert_config.paths
        /\ cjob' = [cjob EXCEPT ![w] = cjob[w]] /\ cjob[w].at = "idle"
        /\ UNCHANGED <<caFiles, crlFiles, material, boot>>
    BY <1>2, <1>6 DEF save_certificate_settings, save_letsencrypt_settings, Section
  <2>2. CertMoves(w, cjob[w]) BY <1>1, <1>2, <2>1
  <2> QED BY <2>2, MovesKeeps
<1> QED BY <1>4, <1>5, <1>6

\* The stages of the boot.
LEMMA BootStepsKeep ==
    ASSUME CertInv, boot_load \/ boot_ca \/ boot_server
    PROVE  /\ CertInv'
           /\ server.key # NoCert => server'.key = server.key
           /\ boot # "up" /\ boot' = "up" =>
                 /\ NoCert \notin {ca'.key, ca'.crt}
                 /\ Valid(cert_config) /\ UNCHANGED <<cert_config, material>>
                 /\ cert_config.mode = "auto" => NoCert \notin {server'.key, server'.crt}
<1>1. CertTypes /\ LockHeld /\ Prepared /\ BootOK BY DEF CertInv
<1>2. UNCHANGED <<user, issued, revoked, crl, revoked_lock, revocations, cjob>>
  BY DEF boot_load, boot_ca, boot_server, BootFrame, crlFiles, caFiles
<1>3. /\ next_key \in Nat \ {0} /\ next_key \in Keys(next_key + 1)
      /\ ca \in Pair(next_key) /\ server \in Pair(next_key)
  BY <1>1 DEF CertTypes, Keys
<1>4. Pair(next_key) \subseteq Pair(next_key + 1) BY <1>3, FilesGrow
<1>5. \A n \in Nat : Keys(n) \subseteq Nat /\ NoCert \notin Keys(n) /\ NoCert \notin Certs(n)
  BY CertAssumption DEF Keys, Certs
<1>6. /\ boot # "up" => \A w \in CertProcesses : cjob[w] = IdleJob
      /\ cert_config \in Section /\ material \in SUBSET {"external", "letsencrypt"}
      /\ cert_config.paths \in material \cup {"none"}
  BY <1>1 DEF BootOK, CertTypes
<1>7. ASSUME next_key' \in {next_key, next_key + 1}, ca' \in Pair(next_key'),
             server' \in Pair(next_key'), cert_config' \in Section, boot' \in Stage,
             material \subseteq material', material' \in SUBSET {"external", "letsencrypt"}
      PROVE  CertTypes' /\ LockHeld' /\ Prepared'
  <2>1. /\ Certs(next_key) \subseteq Certs(next_key')
        /\ UserFile(next_key, issued) \subseteq UserFile(next_key', issued')
        /\ CertJob(next_key, issued) \subseteq CertJob(next_key', issued')
    BY <1>2, <1>3, <1>7, FilesGrow
  <2>2. CertTypes' BY <1>1, <1>2, <1>3, <1>7, <2>1 DEF CertTypes
  <2>3. LockHeld' BY <1>1, <1>2 DEF LockHeld, Appending
  <2>4. Prepared' BY <1>1, <1>2, <1>7 DEF Prepared
  <2> QED BY <2>2, <2>3, <2>4
<1>8. CASE boot_load
  <2>1. boot = "load" /\ boot' = "ca" /\ Valid(cert_config)
        /\ UNCHANGED <<ca, server, next_key>>
    BY <1>8 DEF boot_load, Boot, caFiles
  <2>2. /\ cert_config' \in Section /\ Valid(cert_config')
        /\ material \subseteq material' /\ material' \in SUBSET {"external", "letsencrypt"}
        /\ cert_config'.paths \in material' \cup {"none"}
    BY <1>6, <1>8, <2>1 DEF boot_load, Section, Valid
  <2>3. CertTypes' /\ LockHeld' /\ Prepared' BY <1>3, <1>7, <2>1, <2>2 DEF Stage
  <2>4. BootOK' BY <1>2, <1>6, <2>1, <2>2 DEF BootOK
  <2> QED BY <2>1, <2>3, <2>4 DEF CertInv
<1>9. CASE boot_ca
  <2>1. boot \in {"ca", "ca_sign"} /\ boot' \in {"ca_sign", "server"}
        /\ UNCHANGED <<server, material, cert_config>>
    BY <1>9 DEF boot_ca, Boot
  <2>2. Valid(cert_config) BY <1>1, <2>1 DEF BootOK
  <2>3. /\ next_key' \in {next_key, next_key + 1} /\ ca' \in Pair(next_key')
        /\ ca'.key # NoCert /\ (boot' = "server" => ca'.crt # NoCert)
    <3>1. CASE boot = "ca" /\ NoCert \notin {ca.key, ca.crt}
      BY <1>3, <1>9, <3>1 DEF boot_ca, Boot
    <3>2. CASE boot = "ca" /\ NoCert \in {ca.key, ca.crt}
      <4>1. ca' = [ca EXCEPT !.key = next_key] /\ next_key' = next_key + 1 /\ boot' = "ca_sign"
        BY <1>9, <3>2 DEF boot_ca, Boot
      <4> QED BY <1>3, <1>4, <1>5, <4>1 DEF Pair
    <3>3. CASE boot = "ca_sign"
      <4>1. ca' = [ca EXCEPT !.crt = Cert(ca.key, ca.key)] /\ next_key' = next_key
        BY <1>9, <3>3 DEF boot_ca, Boot
      <4>2. ca.key # NoCert BY <1>1, <3>3 DEF BootOK
      <4>3. ca.key \in Keys(next_key) BY <1>3, <4>2 DEF Pair
      <4>4. Cert(ca.key, ca.key) \in Certs(next_key) BY <4>3 DEF Cert, Certs
      <4> QED BY <1>3, <1>5, <4>1, <4>2, <4>4 DEF Pair
    <3> QED BY <2>1, <3>1, <3>2, <3>3
  <2>4. server' \in Pair(next_key') BY <1>3, <1>4, <2>1, <2>3
  <2>5. CertTypes' /\ LockHeld' /\ Prepared' BY <1>6, <1>7, <2>1, <2>3, <2>4 DEF Stage
  <2>6. BootOK' BY <1>2, <1>6, <2>1, <2>2, <2>3 DEF BootOK
  <2> QED BY <2>1, <2>5, <2>6 DEF CertInv
<1>10. CASE boot_server
  <2>1. boot \in {"server", "server_sign"} /\ boot' \in {"server_sign", "up"}
        /\ UNCHANGED <<ca, material, cert_config>>
    BY <1>10 DEF boot_server, Boot
  <2>2. Valid(cert_config) /\ ca.key # NoCert /\ ca.crt # NoCert BY <1>1, <2>1 DEF BootOK
  <2>3. /\ next_key' \in {next_key, next_key + 1} /\ server' \in Pair(next_key')
        /\ server.key # NoCert => server'.key = server.key
        /\ boot' = "server_sign" => server'.key # NoCert
        /\ boot' = "up" /\ cert_config.mode = "auto" => NoCert \notin {server'.key, server'.crt}
    <3>1. CASE boot = "server" /\ boot' = "up"
      BY <1>3, <1>10, <3>1 DEF boot_server, Boot
    <3>2. CASE boot = "server" /\ boot' = "server_sign"
      <4>1. CASE server.key = NoCert
        <5>1. server' = [server EXCEPT !.key = next_key] /\ next_key' = next_key + 1
          BY <1>10, <3>2, <4>1 DEF boot_server, Boot
        <5> QED BY <1>3, <1>4, <1>5, <3>2, <4>1, <5>1 DEF Pair
      <4>2. CASE server.key # NoCert
        BY <1>3, <1>10, <3>2, <4>2 DEF boot_server, Boot
      <4> QED BY <4>1, <4>2
    <3>3. CASE boot = "server_sign"
      <4>1. server' = [server EXCEPT !.crt = Cert(server.key, ca.key)] /\ next_key' = next_key
            /\ boot' = "up"
        BY <1>10, <3>3 DEF boot_server, Boot
      <4>2. server.key # NoCert BY <1>1, <3>3 DEF BootOK
      <4>3. server.key \in Keys(next_key) /\ ca.key \in Keys(next_key)
        BY <1>3, <2>2, <4>2 DEF Pair
      <4>4. Cert(server.key, ca.key) \in Certs(next_key) BY <4>3 DEF Cert, Certs
      <4> QED BY <1>3, <1>5, <4>1, <4>2, <4>4 DEF Pair
    <3> QED BY <2>1, <3>1, <3>2, <3>3
  <2>4. ca' \in Pair(next_key') BY <1>3, <1>4, <2>1, <2>3
  <2>5. CertTypes' /\ LockHeld' /\ Prepared' BY <1>6, <1>7, <2>1, <2>3, <2>4 DEF Stage
  <2>6. BootOK' BY <1>2, <1>6, <2>1, <2>2, <2>3 DEF BootOK
  <2> QED BY <2>1, <2>2, <2>3, <2>5, <2>6 DEF CertInv
<1> QED BY <1>8, <1>9, <1>10

LEMMA CrashKeeps == ASSUME CertInv, crash PROVE CertInv'
<1>1. /\ UNCHANGED <<ca, server, user, next_key, issued, revoked, crl, revocations, material, cert_config>>
      /\ boot' = "load" /\ revoked_lock' = NoCert /\ cjob' = [w \in CertProcesses |-> IdleJob]
  BY DEF crash, caFiles
<1>2. IdleJob \in CertJob(next_key, issued) /\ IdleJob.at = "idle" BY IdleIs DEF CertJob
<1>3. CertTypes' BY <1>1, <1>2 DEF CertInv, CertTypes, Stage
<1>4. LockHeld' /\ Prepared' BY <1>1, <1>2 DEF LockHeld, Prepared
<1>5. BootOK' BY <1>1, <1>2 DEF CertInv, BootOK
<1> QED BY <1>3, <1>4, <1>5 DEF CertInv

LEMMA CertInvInit == CertInit => CertInv
<1> SUFFICES ASSUME CertInit PROVE CertInv OBVIOUS
<1>1. NoPair \in Pair(1) BY DEF NoPair, Pair
<1>2. [key |-> NoCert, crt |-> NoCert, p12 |-> NoPair] \in UserFile(1, {})
  BY <1>1 DEF UserFile
<1>3. IdleJob \in CertJob(1, {}) /\ IdleJob.at = "idle" BY IdleIs DEF CertJob
<1>4. cert_config \in Section /\ cert_config.paths = "none" BY DEF CertInit, Section
<1>5. CertTypes BY <1>1, <1>2, <1>3, <1>4 DEF CertInit, CertTypes, Stage
<1>6. LockHeld /\ Prepared BY <1>3 DEF CertInit, LockHeld, Prepared
<1>7. BootOK BY <1>4 DEF CertInit, BootOK
<1> QED BY <1>5, <1>6, <1>7 DEF CertInv

\* The server's files change in the boot only.
LEMMA ServerFilesKept ==
    ASSUME CertNext, ~(boot_load \/ boot_ca \/ boot_server)
    PROVE  server' = server /\ (boot' = "up" => boot = "up")
BY DEF CertNext, crash, regenerate_ca, ca_generate_privkey, ca_self_sign, upload_ca, upload_ca_crt,
       upload_ca_key, user_generate_privkey, user_sign, revoke_certificate_pem, append_read,
       append_write, crl_read, crl_write, command_fails, upload_external, issue_letsencrypt,
       write_material, create_user_certificate, create_p12, revoke_user_certificate, activate,
       save_certificate_settings, save_letsencrypt_settings, request, at, caFiles

LEMMA CertInvStep == CertInv /\ [CertNext]_certVars => CertInv'
<1> SUFFICES ASSUME CertInv, [CertNext]_certVars PROVE CertInv'
  OBVIOUS
<1>1. CASE UNCHANGED certVars
  <2>1. UNCHANGED <<ca, server, user, next_key, issued, revoked, crl, revoked_lock, revocations,
                    material, cjob, cert_config, boot>>
    BY <1>1 DEF certVars
  <2>2. CertTypes' BY <2>1 DEF CertInv, CertTypes
  <2> QED BY <2>1, <2>2 DEF CertInv, LockHeld, Appending, Prepared, BootOK
<1>2. CertWorkers \subseteq CertProcesses BY DEF CertProcesses
<1> QED BY <1>1, <1>2, BootStepsKeep, CrashKeeps, RequestsKeep, CaStepsKeep, UserStepsKeep,
           RevokeStepsKeep, SectionStepsKeep DEF CertNext

LEMMA CertInvHolds == CertSpec => []CertInv
BY CertInvInit, CertInvStep, PTL DEF CertSpec

(* Every file holds generated keys and certificates over generated keys,     *)
(* whatever commands failed and wherever the container crashed, and only a   *)
(* thread that rewrites revoked.pem holds its lock.                          *)
THEOREM CertTypesHold == CertSpec => []CertTypeOK
<1>1. CertInv => CertTypeOK
  <2> SUFFICES ASSUME CertInv PROVE CertTypeOK OBVIOUS
  <2>1. CertTypes /\ LockHeld BY DEF CertInv
  <2>2. \A p \in Pair(next_key) :
          p.key \in Keys(next_key) \cup {NoCert} /\ p.crt \in Certs(next_key) \cup {NoCert}
    BY DEF Pair
  <2>3. \A u \in CertUsers :
          /\ user[u].key \in Keys(next_key) \cup {NoCert}
          /\ user[u].crt \in Certs(next_key) \cup {NoCert} /\ user[u].p12 \in Pair(next_key)
    BY <2>1 DEF CertTypes, UserFile
  <2>4. \A pair \in {ca, server} \cup {user[u] : u \in CertUsers}
                            \cup {user[u].p12 : u \in CertUsers} :
          pair.key \in Keys(next_key) \cup {NoCert} /\ pair.crt \in Certs(next_key) \cup {NoCert}
    BY <2>1, <2>2, <2>3 DEF CertTypes
  <2>5. crl \cup revoked \cup revocations \subseteq issued BY <2>1 DEF CertTypes
  <2>6. revoked_lock # NoCert =>
          revoked_lock \in CertWorkers /\ cjob[revoked_lock].at = "append_write"
    BY <2>1 DEF LockHeld, Appending
  <2>7. material \subseteq {"external", "letsencrypt"} /\ cert_config \in Section /\ boot \in Stage
    BY <2>1 DEF CertTypes
  <2> QED BY <2>4, <2>5, <2>6, <2>7 DEF CertTypeOK, Keys, Certs, Section, Stage
<1> QED BY <1>1, CertInvHolds, PTL

(* The server's key, which clients pin, is never replaced: not by a boot     *)
(* that issues a missing certificate again, nor after a crash between the    *)
(* key and the certificate.                                                  *)
THEOREM ServerKeyIsKept == CertSpec => ServerKeyKept
<1> DEFINE Kept == server.key # NoCert => server'.key = server.key
<1>1. CertInv /\ [CertNext]_certVars => [Kept]_certVars
  BY BootStepsKeep, ServerFilesKept
<1>2. ServerKeyKept <=> [][Kept]_certVars BY PTL DEF ServerKeyKept
<1> QED BY <1>1, <1>2, CertInvHolds, PTL DEF CertSpec

(* Whenever a boot completes, the CA and the server certificate that the     *)
(* configuration names are there, after failed commands and crashes too.     *)
THEOREM BootsServe == CertSpec => BootServes
<1> DEFINE Serves ==
             boot # "up" /\ boot' = "up" =>
                /\ NoCert \notin {ca.key, ca.crt}'
                /\ IF active_paths(cert_config)' = "auto"
                     THEN NoCert \notin {server.key, server.crt}'
                     ELSE active_paths(cert_config)' \in material'
<1>1. CertInv /\ [CertNext]_certVars => [Serves]_certVars
  <2> SUFFICES ASSUME CertInv, CertNext, boot # "up", boot' = "up" PROVE Serves
    OBVIOUS
  <2>1. boot_load \/ boot_ca \/ boot_server BY ServerFilesKept
  <2>2. /\ NoCert \notin {ca'.key, ca'.crt}
        /\ Valid(cert_config) /\ UNCHANGED <<cert_config, material>>
        /\ cert_config.mode = "auto" => NoCert \notin {server'.key, server'.crt}
    BY <2>1, BootStepsKeep
  <2>3. /\ cert_config.mode \in {"auto", "external"}
        /\ cert_config.paths \in {"none", "external", "letsencrypt"}
        /\ cert_config.paths \in material \cup {"none"}
    BY DEF CertInv, CertTypes, BootOK, Section
  <2>4. CASE cert_config.mode = "auto" BY <2>2, <2>4 DEF active_paths
  <2>5. CASE cert_config.mode = "external"
    BY <2>2, <2>3, <2>5 DEF active_paths, Valid
  <2> QED BY <2>3, <2>4, <2>5
<1>2. BootServes <=> [][Serves]_certVars BY PTL DEF BootServes
<1> QED BY <1>1, <1>2, CertInvHolds, PTL DEF CertSpec
===============================================================================
