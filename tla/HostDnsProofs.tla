---------------------------- MODULE HostDnsProofs ----------------------------
(***************************************************************************)
(* Proofs about HostDns, for any number of rewrites, saves and crashes.    *)
(***************************************************************************)
EXTENDS HostDns, TLAPS

\* What an actor can be doing.  A rewrite in place carries the text it will write.
Contents == Nat \cup {Empty}
HostPc ==
    {Rest, [at |-> "apply"], [at |-> "point"]}
    \cup [at : {"restore"}, leaves : SUBSET BOOLEAN]
    \cup [at : {"truncate", "write"}, text : Contents, leaves : SUBSET BOOLEAN]

Rewriting(a) == hpc[a].at \in {"truncate", "write"}

Flags ==
    /\ dropin \in BOOLEAN /\ dns_active \in BOOLEAN /\ port_53 \in BOOLEAN /\ dnsmasq \in BOOLEAN
    /\ spoiled \in BOOLEAN /\ late \in BOOLEAN
    /\ host_dns \in Modes /\ guard \in {"run", "stopping", "exited"}
Texts ==
    /\ host_version \in Nat \ {0}
    /\ resolv_conf \in 1 .. host_version \cup {Ours, Empty}
    /\ resolv_orig \in 1 .. host_version \cup {Missing, Empty}
    /\ hpc \in [Actors -> HostPc]
    /\ \A a \in Actors : Rewriting(a) => hpc[a].text \in 1 .. host_version \cup {Ours, Empty}

\* Outside the windows that spoil it, resolv.conf is the host's or ours except
\* while one actor rewrites it; whenever it is not the host's, the backup is, and
\* so it is from the moment an actor has decided to rewrite.
Kept ==
    /\ resolv_conf # host_version => resolv_orig = host_version
    /\ (\A a \in Actors : hpc[a].at # "write") => resolv_conf \in {host_version, Ours}
    /\ \A a \in Actors : Rewriting(a) =>
            hpc[a].text \in {Ours, host_version} /\ resolv_orig = host_version
    /\ \A a, b \in Actors : hpc[a].at = "write" /\ hpc[b].at = "write" => a = b

\* After its SIGTERM the guard only gives resolv.conf back.
Released ==
    guard = "exited" /\ ~late =>
        /\ hpc["guard"].at \in {"rest", "restore", "truncate", "write"}
        /\ Rewriting("guard") => ~ours(hpc["guard"].text)
        /\ hpc["guard"].at = "rest" => ~ours(resolv_conf)

HostInv == Flags /\ Texts /\ (~spoiled => Kept /\ Released)

-----------------------------------------------------------------------------

LEMMA HostInvInit == HostInit => HostInv
<1> SUFFICES ASSUME HostInit PROVE HostInv
  OBVIOUS
<1>1. hpc \in [Actors -> HostPc] /\ \A a \in Actors : hpc[a].at = "rest"
  BY DEF HostInit, HostPc, Rest
<1>2. Flags
  BY DEF HostInit, Flags, Modes
<1>3. Texts
  BY <1>1 DEF HostInit, Texts, Ours, Empty, Missing, Rewriting
<1>4. Kept /\ Released
  BY <1>1 DEF HostInit, Kept, Released, Rewriting
<1> QED
  BY <1>2, <1>3, <1>4 DEF HostInv

LEMMA FlagsStep == HostInv /\ [HostNext]_hostVars => Flags'
<1> SUFFICES ASSUME Flags, [HostNext]_hostVars PROVE Flags'
  BY DEF HostInv
<1> USE DEF Flags
<1>1. ASSUME NEW a \in Actors, HostStep(a) PROVE Flags'
  <2>1. ASSUME NEW leaves, _write_dropin(leaves) PROVE dropin' \in BOOLEAN
    <3>1. (TRUE \in leaves) \in BOOLEAN
      OBVIOUS
    <3> QED
      BY <2>1, <3>1 DEF _write_dropin
  <2>2. CASE apply(a)
    BY <2>2 DEF apply, hostFrame
  <2>3. CASE _point_resolv_conf(a)
    BY <2>3 DEF _point_resolv_conf, hostFrame
  <2>4. CASE _restore_resolv_conf(a)
    BY <2>1, <2>4 DEF _restore_resolv_conf, hostFrame
  <2>5. CASE truncate(a)
    BY <2>5 DEF truncate, hostFrame
  <2>6. CASE write_in_place(a)
    BY <2>1, <2>6 DEF write_in_place, hostFrame
  <2> QED
    BY <1>1, <2>2, <2>3, <2>4, <2>5, <2>6 DEF HostStep
<1>2. CASE guard_cycle \/ guard_sigterm \/ guard_restore \/ host_rewrites \/ container_killed
  BY <1>2 DEF guard_cycle, guard_sigterm, guard_restore, host_rewrites, container_killed, hostFrame
<1>3. CASE \E mode \in Modes : save_routing_settings(mode)
  BY <1>3 DEF save_routing_settings
<1>4. CASE \E active, on_53 \in BOOLEAN : save_internal_dns_settings(active, on_53)
  BY <1>4 DEF save_internal_dns_settings
<1>5. CASE UNCHANGED hostVars
  BY <1>5 DEF hostVars
<1> QED
  BY <1>1, <1>2, <1>3, <1>4, <1>5 DEF HostNext

\* A step of one actor that leaves the others where they are.
Text == 1 .. host_version \cup {Ours, Empty}

LEMMA HostMoves ==
    ASSUME Texts, NEW a \in Actors, NEW r \in HostPc,
           r.at \in {"truncate", "write"} => r.text \in Text,
           hpc' = [hpc EXCEPT ![a] = r], host_version' = host_version,
           resolv_conf' \in Text, resolv_orig' \in 1 .. host_version \cup {Missing, Empty}
    PROVE  Texts'
BY DEF Texts, Text, Rewriting

LEMMA PcTyped ==
    /\ Rest \in HostPc /\ Rest.at = "rest"
    /\ [at |-> "apply"] \in HostPc /\ [at |-> "point"] \in HostPc
    /\ \A l \in SUBSET BOOLEAN :
        /\ [at |-> "restore", leaves |-> l] \in HostPc
        /\ \A t \in Contents : [at |-> "truncate", text |-> t, leaves |-> l] \in HostPc
BY DEF Rest, HostPc

LEMMA PcFields ==
    ASSUME NEW r \in HostPc
    PROVE  /\ r.at \in {"rest", "apply", "point", "restore", "truncate", "write"}
           /\ r.at = "rest" => r = Rest
           /\ r.at = "restore" => r.leaves \in SUBSET BOOLEAN
           /\ r.at \in {"truncate", "write"} =>
                r \in [at : {"truncate", "write"}, text : Contents, leaves : SUBSET BOOLEAN]
BY DEF Rest, HostPc

LEMMA TextsStep == HostInv /\ [HostNext]_hostVars => Texts'
<1> SUFFICES ASSUME Texts, [HostNext]_hostVars PROVE Texts'
  BY DEF HostInv
<1>0. /\ resolv_conf \in Text /\ resolv_orig \in 1 .. host_version \cup {Missing, Empty}
      /\ \A a \in Actors : hpc[a] \in HostPc /\ (Rewriting(a) => hpc[a].text \in Text)
  BY DEF Texts, Text
<1>1. ASSUME NEW a \in Actors, HostStep(a) PROVE Texts'
  <2>0. host_version' = host_version
    BY <1>1 DEF HostStep, apply, _point_resolv_conf, _restore_resolv_conf, truncate,
                write_in_place, hostFrame
  <2>2. CASE apply(a)
    <3>1. /\ resolv_conf' = resolv_conf /\ resolv_orig' = resolv_orig
          /\ \/ hpc' = [hpc EXCEPT ![a] = [at |-> "point"]]
             \/ hpc' = [hpc EXCEPT ![a] = [at |-> "restore", leaves |-> {wanted}]]
      BY <2>2 DEF apply, go
    <3>2. {wanted} \in SUBSET BOOLEAN
      BY DEF wanted
    <3>3. PICK l \in SUBSET BOOLEAN :
             \/ hpc' = [hpc EXCEPT ![a] = [at |-> "point"]]
             \/ hpc' = [hpc EXCEPT ![a] = [at |-> "restore", leaves |-> l]]
      BY <3>1, <3>2
    <3>4. [at |-> "point"].at = "point" /\ [at |-> "restore", leaves |-> l].at = "restore"
      OBVIOUS
    <3> QED
      BY <1>0, <2>0, <3>1, <3>3, <3>4, HostMoves, PcTyped
  <2>3. CASE _point_resolv_conf(a)
    <3>1. /\ resolv_conf' = resolv_conf
          /\ \/ resolv_orig' = resolv_orig
             \/ resolv_orig' = resolv_conf /\ resolv_conf # Ours
          /\ \/ hpc' = [hpc EXCEPT ![a] = Rest]
             \/ hpc' = [hpc EXCEPT ![a] = [at |-> "truncate", text |-> Ours, leaves |-> {}]]
      BY <2>3 DEF _point_resolv_conf, go, ours
    <3>2. resolv_orig' \in 1 .. host_version \cup {Missing, Empty}
      BY <1>0, <3>1 DEF Text
    <3>3. [at |-> "truncate", text |-> Ours, leaves |-> {}] \in HostPc
      BY PcTyped DEF Contents, Ours
    <3>4. [at |-> "truncate", text |-> Ours, leaves |-> {}].text \in Text
      BY DEF Text
    <3> QED
      BY <1>0, <2>0, <3>1, <3>2, <3>3, <3>4, HostMoves, PcTyped
  <2>4. CASE _restore_resolv_conf(a)
    <3>1. /\ resolv_conf' = resolv_conf /\ resolv_orig' = resolv_orig
          /\ hpc[a].at = "restore"
          /\ \/ hpc' = [hpc EXCEPT ![a] = Rest]
             \/ /\ hpc' = [hpc EXCEPT ![a] = [at |-> "truncate", text |-> resolv_orig,
                                              leaves |-> hpc[a].leaves]]
                /\ resolv_orig # Missing
      BY <2>4 DEF _restore_resolv_conf, go
    <3>2. hpc[a].leaves \in SUBSET BOOLEAN
      BY <1>0, <3>1, PcFields
    <3>3. resolv_orig # Missing => resolv_orig \in Text
      BY <1>0 DEF Text
    <3>4. Text \subseteq Contents
      BY DEF Text, Contents, Ours, Empty, Texts
    <3> DEFINE r == [at |-> "truncate", text |-> resolv_orig, leaves |-> hpc[a].leaves]
    <3>5. resolv_orig # Missing => r \in HostPc /\ r.text \in Text
      BY <3>2, <3>3, <3>4, PcTyped
    <3> HIDE DEF r
    <3> QED
      BY <1>0, <2>0, <3>1, <3>5, HostMoves, PcTyped DEF r
  <2>5. CASE truncate(a)
    <3>1. /\ resolv_conf' = Empty /\ resolv_orig' = resolv_orig /\ hpc[a].at = "truncate"
          /\ hpc' = [hpc EXCEPT ![a] = [hpc[a] EXCEPT !.at = "write"]]
      BY <2>5 DEF truncate, go
    <3>2. hpc[a] \in [at : {"truncate", "write"}, text : Contents, leaves : SUBSET BOOLEAN]
      BY <1>0, <3>1, PcFields
    <3>3. [hpc[a] EXCEPT !.at = "write"] \in HostPc
      BY <3>2 DEF HostPc
    <3>4. [hpc[a] EXCEPT !.at = "write"].text \in Text
      BY <1>0, <3>1, <3>2 DEF Rewriting
    <3>5. Empty \in Text
      BY DEF Text
    <3> QED
      BY <1>0, <2>0, <3>1, <3>3, <3>4, <3>5, HostMoves
  <2>6. CASE write_in_place(a)
    <3>1. /\ resolv_conf' = hpc[a].text /\ resolv_orig' = resolv_orig /\ hpc[a].at = "write"
          /\ hpc' = [hpc EXCEPT ![a] = Rest]
      BY <2>6 DEF write_in_place, go
    <3> QED
      BY <1>0, <2>0, <3>1, HostMoves, PcTyped DEF Rewriting
  <2> QED
    BY <1>1, <2>2, <2>3, <2>4, <2>5, <2>6 DEF HostStep
<1>2. CASE guard_cycle \/ guard_restore \/ \E mode \in Modes : save_routing_settings(mode)
  <2>1. /\ UNCHANGED <<resolv_conf, resolv_orig, host_version>>
        /\ \E a \in Actors : \/ hpc' = [hpc EXCEPT ![a] = [at |-> "apply"]]
                             \/ hpc' = [hpc EXCEPT ![a] = [at |-> "restore", leaves |-> {}]]
    BY <1>2 DEF guard_cycle, guard_restore, save_routing_settings, go, hostFrame, Actors
  <2>2. [at |-> "apply"].at = "apply" /\ [at |-> "restore", leaves |-> {}].at = "restore"
    OBVIOUS
  <2>3. [at |-> "restore", leaves |-> {}] \in HostPc
    BY PcTyped
  <2> QED
    BY <1>0, <2>1, <2>2, <2>3, HostMoves, PcTyped
<1>3. CASE \/ UNCHANGED hostVars \/ guard_sigterm
           \/ \E active, on_53 \in BOOLEAN : save_internal_dns_settings(active, on_53)
  BY <1>3 DEF hostVars, guard_sigterm, save_internal_dns_settings, Texts, Rewriting
<1>4. CASE host_rewrites
  BY <1>4 DEF host_rewrites, Texts, Rewriting
<1>5. CASE container_killed
  <2>1. /\ UNCHANGED <<resolv_conf, resolv_orig, host_version>>
        /\ hpc' = [a \in Actors |-> Rest]
    BY <1>5 DEF container_killed
  <2> QED
    BY <2>1, PcTyped DEF Texts, Rewriting
<1> QED
  BY <1>1, <1>2, <1>3, <1>4, <1>5 DEF HostNext

\* spoiled is never reset, and the windows are exactly where it is set.
LEMMA Unspoiled ==
    ASSUME HostInv, [HostNext]_hostVars, ~spoiled'
    PROVE  /\ ~spoiled
           /\ \A a \in Actors :
                (_point_resolv_conf(a) /\ port_53) \/ _restore_resolv_conf(a) \/ truncate(a)
                    => ~half_written(a)
           /\ host_rewrites => \A a \in Actors : ~Rewriting(a)
           /\ container_killed => \A a \in Actors : hpc[a].at # "write"
<1>1. ASSUME NEW a \in Actors
      PROVE  /\ HostStep(a) => ~spoiled
             /\ (_point_resolv_conf(a) /\ port_53) \/ _restore_resolv_conf(a) \/ truncate(a)
                    => ~half_written(a)
  BY DEF HostStep, apply, _point_resolv_conf, _restore_resolv_conf, truncate, write_in_place
<1>2. host_rewrites => ~spoiled /\ \A a \in Actors : ~Rewriting(a)
  BY DEF host_rewrites, Rewriting
<1>3. container_killed => ~spoiled /\ \A a \in Actors : hpc[a].at # "write"
  BY DEF container_killed
<1>4. \/ guard_cycle \/ guard_sigterm \/ guard_restore \/ UNCHANGED hostVars
      \/ \E mode \in Modes : save_routing_settings(mode)
      \/ \E active, on_53 \in BOOLEAN : save_internal_dns_settings(active, on_53)
      => ~spoiled
  BY DEF guard_cycle, guard_sigterm, guard_restore, save_routing_settings,
         save_internal_dns_settings, hostVars
<1> QED
  BY <1>1, <1>2, <1>3, <1>4 DEF HostNext

\* An actor that is not rewriting moves to where it is not rewriting either.
LEMMA KeptMoves ==
    ASSUME Texts, Kept, NEW a \in Actors, ~Rewriting(a), NEW r \in HostPc,
           r.at \notin {"truncate", "write"}, hpc' = [hpc EXCEPT ![a] = r],
           UNCHANGED <<resolv_conf, resolv_orig, host_version>>
    PROVE  Kept'
BY DEF Kept, Texts, Rewriting

LEMMA KeptStep ==
    ASSUME HostInv, [HostNext]_hostVars, ~spoiled'
    PROVE  Kept'
<1>0. ~spoiled /\ Kept /\ Texts /\ Texts'
  BY Unspoiled, TextsStep DEF HostInv
<1>a. \A a \in Actors : hpc[a] \in HostPc
  BY <1>0 DEF Texts
<1>1. ASSUME NEW a \in Actors, HostStep(a) PROVE Kept'
  <2>0. host_version' = host_version
    BY <1>1 DEF HostStep, apply, _point_resolv_conf, _restore_resolv_conf, truncate,
                write_in_place, hostFrame
  <2>2. CASE apply(a)
    <3>1. /\ UNCHANGED <<resolv_conf, resolv_orig>> /\ ~Rewriting(a)
          /\ \/ hpc' = [hpc EXCEPT ![a] = [at |-> "point"]]
             \/ hpc' = [hpc EXCEPT ![a] = [at |-> "restore", leaves |-> {wanted}]]
      BY <2>2 DEF apply, go, Rewriting
    <3>2. {wanted} \in SUBSET BOOLEAN
      BY DEF wanted
    <3>3. PICK l \in SUBSET BOOLEAN :
             \/ hpc' = [hpc EXCEPT ![a] = [at |-> "point"]]
             \/ hpc' = [hpc EXCEPT ![a] = [at |-> "restore", leaves |-> l]]
      BY <3>1, <3>2
    <3>4. [at |-> "point"].at = "point" /\ [at |-> "restore", leaves |-> l].at = "restore"
      OBVIOUS
    <3> QED
      BY <1>0, <2>0, <3>1, <3>3, <3>4, KeptMoves, PcTyped
  <2>3. CASE _point_resolv_conf(a) /\ ~port_53
    <3>1. /\ UNCHANGED <<resolv_conf, resolv_orig>> /\ ~Rewriting(a)
          /\ hpc' = [hpc EXCEPT ![a] = Rest]
      BY <2>3 DEF _point_resolv_conf, go, Rewriting
    <3> QED
      BY <1>0, <2>0, <3>1, KeptMoves, PcTyped
  <2>7. CASE _point_resolv_conf(a) /\ port_53
    <3>1. /\ resolv_conf' = resolv_conf /\ hpc[a].at = "point"
          /\ resolv_orig' = IF resolv_conf = Ours THEN resolv_orig ELSE resolv_conf
          /\ \/ hpc' = [hpc EXCEPT ![a] = Rest] /\ resolv_conf = Ours
             \/ hpc' = [hpc EXCEPT ![a] = [at |-> "truncate", text |-> Ours, leaves |-> {}]]
      BY <2>7 DEF _point_resolv_conf, go, ours
    <3>2. \A b \in Actors : hpc[b].at # "write"
      BY <1>1, <2>7, <3>1, Unspoiled DEF half_written
    <3>3. resolv_conf \in {host_version, Ours}
      BY <1>0, <3>2 DEF Kept
    <3>4. resolv_orig' = host_version
      BY <1>0, <3>1, <3>3 DEF Kept, Texts, Ours
    <3>5. \A b \in Actors : /\ hpc'[b].at # "write"
                            /\ hpc'[b].at = "truncate" =>
                                \/ hpc'[b].text = Ours
                                \/ hpc'[b] = hpc[b]
      BY <1>0, <3>1, <3>2, PcTyped DEF Texts
    <3> QED
      BY <1>0, <2>0, <3>1, <3>3, <3>4, <3>5 DEF Kept, Rewriting
  <2>4. CASE _restore_resolv_conf(a)
    <3>1. /\ resolv_conf' = resolv_conf /\ resolv_orig' = resolv_orig /\ hpc[a].at = "restore"
          /\ \/ hpc' = [hpc EXCEPT ![a] = Rest]
             \/ /\ hpc' = [hpc EXCEPT ![a] = [at |-> "truncate", text |-> resolv_orig,
                                              leaves |-> hpc[a].leaves]]
                /\ resolv_conf = Ours
      BY <2>4 DEF _restore_resolv_conf, go, ours
    <3>2. \A b \in Actors : hpc[b].at # "write"
      BY <1>1, <2>4, <3>1, Unspoiled DEF half_written
    <3>3. CASE hpc' = [hpc EXCEPT ![a] = Rest]
      BY <1>0, <2>0, <3>1, <3>3, KeptMoves, PcTyped DEF Rewriting
    <3>4. CASE hpc' # [hpc EXCEPT ![a] = Rest]
      <4>1. resolv_orig = host_version
        BY <1>0, <3>1, <3>4 DEF Kept, Texts, Ours
      <4>2. \A b \in Actors : /\ hpc'[b].at # "write"
                              /\ hpc'[b].at = "truncate" =>
                                  \/ hpc'[b].text = resolv_orig
                                  \/ hpc'[b] = hpc[b]
        BY <1>0, <3>1, <3>2, <3>4 DEF Texts
      <4> QED
        BY <1>0, <2>0, <3>1, <3>2, <4>1, <4>2 DEF Kept, Rewriting
    <3> QED
      BY <3>3, <3>4
  <2>5. CASE truncate(a)
    <3>1. /\ resolv_conf' = Empty /\ resolv_orig' = resolv_orig /\ hpc[a].at = "truncate"
          /\ hpc' = [hpc EXCEPT ![a] = [hpc[a] EXCEPT !.at = "write"]]
      BY <2>5 DEF truncate, go
    <3>2. hpc[a] \in [at : {"truncate", "write"}, text : Contents, leaves : SUBSET BOOLEAN]
      BY <1>a, <3>1, PcFields
    <3>3. hpc'[a].at = "write" /\ hpc'[a].text = hpc[a].text
      BY <1>0, <3>1, <3>2 DEF Texts
    <3>4. \A b \in Actors \ {a} : hpc'[b] = hpc[b] /\ hpc[b].at # "write"
      BY <1>0, <2>5, <3>1, Unspoiled DEF half_written, Texts
    <3>5. resolv_orig = host_version /\ hpc[a].text \in {Ours, host_version}
      BY <1>0, <3>1 DEF Kept, Rewriting
    <3> QED
      BY <1>0, <2>0, <3>1, <3>3, <3>4, <3>5 DEF Kept, Rewriting
  <2>6. CASE write_in_place(a)
    <3>1. /\ resolv_conf' = hpc[a].text /\ resolv_orig' = resolv_orig /\ hpc[a].at = "write"
          /\ hpc' = [hpc EXCEPT ![a] = Rest]
      BY <2>6 DEF write_in_place, go
    <3>2. hpc'[a].at = "rest" /\ \A b \in Actors \ {a} : hpc'[b] = hpc[b] /\ hpc[b].at # "write"
      BY <1>0, <3>1, PcTyped DEF Texts, Kept
    <3> QED
      BY <1>0, <2>0, <3>1, <3>2 DEF Kept, Rewriting
  <2> QED
    BY <1>1, <2>2, <2>3, <2>4, <2>5, <2>6, <2>7 DEF HostStep
<1>2. CASE guard_cycle \/ guard_restore \/ \E mode \in Modes : save_routing_settings(mode)
  <2>1. /\ UNCHANGED <<resolv_conf, resolv_orig, host_version>>
        /\ \E a \in Actors : /\ hpc[a] = Rest
                             /\ \/ hpc' = [hpc EXCEPT ![a] = [at |-> "apply"]]
                                \/ hpc' = [hpc EXCEPT ![a] = [at |-> "restore", leaves |-> {}]]
    BY <1>2 DEF guard_cycle, guard_restore, save_routing_settings, go, hostFrame, Actors
  <2>2. [at |-> "apply"].at = "apply" /\ [at |-> "restore", leaves |-> {}].at = "restore"
    OBVIOUS
  <2>3. [at |-> "restore", leaves |-> {}] \in HostPc
    BY PcTyped
  <2> QED
    BY <1>0, <2>1, <2>2, <2>3, KeptMoves, PcTyped DEF Rewriting
<1>3. CASE \/ UNCHANGED hostVars \/ guard_sigterm
           \/ \E active, on_53 \in BOOLEAN : save_internal_dns_settings(active, on_53)
  BY <1>0, <1>3 DEF hostVars, guard_sigterm, save_internal_dns_settings, Kept, Rewriting
<1>4. CASE host_rewrites
  BY <1>0, <1>4, Unspoiled DEF host_rewrites, Kept, Rewriting
<1>5. CASE container_killed
  <2>1. /\ UNCHANGED <<resolv_conf, resolv_orig, host_version>>
        /\ \A a \in Actors : hpc'[a].at = "rest" /\ hpc[a].at # "write"
    BY <1>5, PcTyped, Unspoiled DEF container_killed
  <2> QED
    BY <1>0, <2>1 DEF Kept, Rewriting
<1> QED
  BY <1>1, <1>2, <1>3, <1>4, <1>5 DEF HostNext

LEMMA ReleasedStep ==
    ASSUME HostInv, [HostNext]_hostVars, ~spoiled'
    PROVE  Released'
<1> SUFFICES ASSUME guard' = "exited", ~late'
             PROVE  /\ hpc'["guard"].at \in {"rest", "restore", "truncate", "write"}
                    /\ hpc'["guard"].at \in {"truncate", "write"} => hpc'["guard"].text # Ours
                    /\ hpc'["guard"].at = "rest" => resolv_conf' # Ours
  BY DEF Released, Rewriting, ours
<1>0. ~spoiled /\ Kept /\ Texts /\ Released
  BY Unspoiled DEF HostInv
<1>g. "guard" \in Actors /\ hpc["guard"] \in HostPc /\ Ours # Empty /\ PanelThread # "guard"
  BY <1>0, HostDnsAssumption DEF Texts, Actors, Ours, Empty
<1>1. ASSUME NEW a \in Actors, HostStep(a)
      PROVE  /\ hpc'["guard"].at \in {"rest", "restore", "truncate", "write"}
             /\ hpc'["guard"].at \in {"truncate", "write"} => hpc'["guard"].text # Ours
             /\ hpc'["guard"].at = "rest" => resolv_conf' # Ours
  <2>0. guard = "exited" /\ ~late
    <3>1. guard' = guard
      BY <1>1 DEF HostStep, apply, _point_resolv_conf, _restore_resolv_conf, truncate,
                  write_in_place, hostFrame
    <3>2. write_in_place(a) => ~late
      BY DEF write_in_place
    <3>3. apply(a) \/ _point_resolv_conf(a) \/ _restore_resolv_conf(a) \/ truncate(a) => ~late
      BY DEF apply, _point_resolv_conf, _restore_resolv_conf, truncate
    <3> QED
      BY <1>1, <3>1, <3>2, <3>3 DEF HostStep
  <2>1. /\ hpc["guard"].at \in {"rest", "restore", "truncate", "write"}
        /\ hpc["guard"].at \in {"truncate", "write"} => hpc["guard"].text # Ours
        /\ hpc["guard"].at = "rest" => resolv_conf # Ours
    BY <1>0, <2>0 DEF Released, Rewriting, ours
  <2>2. CASE a = "guard"
    <3>1. CASE _restore_resolv_conf(a)
      <4>1. /\ resolv_conf' = resolv_conf /\ hpc[a].at = "restore"
            /\ hpc' = [hpc EXCEPT ![a] = IF resolv_conf = Ours /\ resolv_orig # Missing
                         THEN [at |-> "truncate", text |-> resolv_orig, leaves |-> hpc[a].leaves]
                         ELSE Rest]
        BY <3>1 DEF _restore_resolv_conf, go, ours
      <4>2. resolv_conf = Ours => resolv_orig # Missing /\ resolv_orig # Ours
        BY <1>0 DEF Kept, Texts, Ours, Missing
      <4> QED
        BY <1>0, <1>g, <2>2, <4>1, <4>2, PcTyped DEF Texts
    <3>2. CASE truncate(a)
      <4>1. /\ hpc[a].at = "truncate"
            /\ hpc' = [hpc EXCEPT ![a] = [hpc[a] EXCEPT !.at = "write"]]
        BY <3>2 DEF truncate, go
      <4>2. hpc[a] \in [at : {"truncate", "write"}, text : Contents, leaves : SUBSET BOOLEAN]
        BY <1>g, <2>2, <4>1, PcFields
      <4> QED
        BY <1>0, <1>g, <2>1, <2>2, <4>1, <4>2 DEF Texts
    <3>3. CASE write_in_place(a)
      BY <1>0, <1>g, <2>1, <2>2, <3>3, PcTyped DEF write_in_place, go, Texts
    <3>4. ~apply(a) /\ ~_point_resolv_conf(a)
      BY <2>1, <2>2 DEF apply, _point_resolv_conf
    <3> QED
      BY <1>1, <3>1, <3>2, <3>3, <3>4 DEF HostStep
  <2>3. CASE a # "guard"
    <3>1. hpc'["guard"] = hpc["guard"]
      BY <1>0, <1>1, <1>g, <2>3 DEF HostStep, apply, _point_resolv_conf, _restore_resolv_conf,
                                    truncate, write_in_place, go, Texts
    <3>2. CASE write_in_place(a)
      <4>1. a = PanelThread /\ guard # "run"
        BY <2>0, <2>3 DEF Actors
      <4>2. resolv_conf' # Ours
        BY <3>2, <4>1 DEF write_in_place, ours
      <4> QED
        BY <2>1, <3>1, <4>2
    <3>3. CASE ~write_in_place(a)
      <4>1. resolv_conf' \in {resolv_conf, Empty}
        BY <1>1, <3>3 DEF HostStep, apply, _point_resolv_conf, _restore_resolv_conf, truncate
      <4> QED
        BY <1>g, <2>1, <3>1, <4>1
    <3> QED
      BY <3>2, <3>3
  <2> QED
    BY <2>2, <2>3
<1>2. CASE guard_restore
  BY <1>0, <1>2, <1>g DEF guard_restore, go, Texts
<1>3. CASE \E mode \in Modes : save_routing_settings(mode)
  <2>1. /\ guard = "exited" /\ ~late /\ UNCHANGED resolv_conf
        /\ hpc'["guard"] = hpc["guard"]
    <3>1. /\ hpc' = [hpc EXCEPT ![PanelThread] = [at |-> "apply"]]
          /\ UNCHANGED <<guard, late, resolv_conf>>
      BY <1>3 DEF save_routing_settings, go
    <3> QED
      BY <1>0, <1>g, <3>1 DEF Texts
  <2> QED
    BY <1>0, <2>1 DEF Released, Rewriting, ours
<1>4. CASE host_rewrites
  <2>1. /\ guard = "exited" /\ ~late /\ UNCHANGED hpc
        /\ resolv_conf' # Ours
    BY <1>0, <1>4 DEF host_rewrites, Texts, Ours
  <2> QED
    BY <1>0, <2>1 DEF Released, Rewriting, ours
<1>5. CASE UNCHANGED hostVars \/ \E active, on_53 \in BOOLEAN : save_internal_dns_settings(active, on_53)
  <2>1. guard = "exited" /\ ~late /\ UNCHANGED <<hpc, resolv_conf>>
    BY <1>5 DEF hostVars, save_internal_dns_settings
  <2> QED
    BY <1>0, <2>1 DEF Released, Rewriting, ours
<1>6. ~guard_cycle /\ ~guard_sigterm /\ ~container_killed
  BY DEF guard_cycle, guard_sigterm, container_killed, hostFrame
<1> QED
  BY <1>1, <1>2, <1>3, <1>4, <1>5, <1>6 DEF HostNext

-----------------------------------------------------------------------------

\* Fairness plays no part in the safety of the guard.
LEMMA HostInvariant == HostInit /\ [][HostNext]_hostVars => []HostInv
<1>1. HostInv /\ [HostNext]_hostVars => HostInv'
  BY FlagsStep, TextsStep, KeptStep, ReleasedStep DEF HostInv
<1> QED
  BY <1>1, HostInvInit, PTL

\* What the invariant is for.
LEMMA HostInvSafe == HostInv => HostTypeOK /\ OriginalKept /\ HostReleased
<1> SUFFICES ASSUME HostInv PROVE HostTypeOK /\ OriginalKept /\ HostReleased
  OBVIOUS
<1>1. HostTypeOK
  <2>1. \A a \in Actors : hpc[a].at \in {"rest", "apply", "point", "restore", "truncate", "write"}
    BY PcFields DEF HostInv, Texts
  <2> QED
    BY <2>1 DEF HostInv, Flags, Texts, HostTypeOK
<1>2. OriginalKept
  BY DEF HostInv, Kept, OriginalKept
<1>3. HostReleased
  <2> SUFFICES ASSUME guard = "exited", ~late, ~spoiled, \A a \in Actors : hpc[a] = Rest
               PROVE  ~ours(resolv_conf)
    BY DEF HostReleased
  <2>1. hpc["guard"].at = "rest"
    BY PcTyped DEF Actors
  <2> QED
    BY <2>1 DEF HostInv, Released
<1> QED
  BY <1>1, <1>2, <1>3

(* resolv.conf, its backup and the steps of guard and panel keep their types. *)
THEOREM HostTypeCorrect == HostSpec => []HostTypeOK
BY HostInvSafe, HostInvariant, PTL DEF HostSpec

(* The last resolv.conf the host wrote is never lost: it is in place or in the *)
(* backup, however guard, panel, host and crashes interleave, except in the    *)
(* windows of a rewrite in place that spoiled names.                           *)
THEOREM OriginalKeptHolds == HostSpec => []OriginalKept
BY HostInvSafe, HostInvariant, PTL DEF HostSpec

(* A guard that has answered SIGTERM leaves no resolv.conf behind that names a *)
(* resolver which is going away.                                               *)
THEOREM HostReleasedHolds == HostSpec => []HostReleased
BY HostInvSafe, HostInvariant, PTL DEF HostSpec
=============================================================================
