----------------------------- MODULE PanelProofs -----------------------------
(***************************************************************************)
(* Theorems about the panel: the login throttle and the sessions, the      *)
(* configuration file, the accounts and the list files.                    *)
(***************************************************************************)
EXTENDS AuthSessions, ConfigPatch, Accounts, ListFiles,
        NaturalsInduction, WellFoundedInduction, FiniteSetTheorems, TLAPS

-----------------------------------------------------------------------------
(* Lists *)

(* Induction on the natural numbers, for a set of numbers instead of a       *)
(* predicate: a number outside the set would have a least one among them.    *)
LEMMA SetInduction ==
    ASSUME NEW P \in SUBSET Nat, 0 \in P, \A n \in P : n + 1 \in P
    PROVE  \A n \in Nat : n \in P
<1> SUFFICES ASSUME \E n \in Nat : n \notin P PROVE FALSE
    OBVIOUS
<1> DEFINE T == Nat \ P
<1>1. IsWellFoundedOn(OpToRel(<, Nat), Nat)
  BY NatLessThanWellFounded
<1>2. PICK x \in T : \A y \in T : ~(<<y, x>> \in OpToRel(<, Nat))
  BY <1>1, WFMin
<1>3. \A y \in T : ~(y < x)
  BY <1>2 DEF OpToRel
<1>4. x # 0 /\ x - 1 \in Nat /\ x - 1 < x
  OBVIOUS
<1>5. x - 1 \in P
  BY <1>3, <1>4
<1> QED BY <1>4, <1>5

\* What only_upto says, for a function that is as long as needed.
Keeps(g, m, s, I) ==
    g = [n \in 0 .. m |-> IF n = 0 THEN <<>>
                          ELSE IF n \in I THEN Append(g[n - 1], s[n]) ELSE g[n - 1]]

(* The recursion of only_upto has a solution, so only_upto is one.           *)
LEMMA OnlyUpto ==
    ASSUME NEW s, NEW I, Len(s) \in Nat
    PROVE  Keeps(only_upto(s, I), Len(s), s, I)
<1> DEFINE P == {m \in Nat : \E g : Keeps(g, m, s, I)}
<1>1. 0 \in P
  <2> DEFINE g == [n \in 0 .. 0 |-> <<>>]
  <2>1. Keeps(g, 0, s, I)
    BY DEF Keeps
  <2> QED BY <2>1
<1>2. ASSUME NEW m \in P PROVE m + 1 \in P
  <2>1. PICK g : Keeps(g, m, s, I)
    OBVIOUS
  <2> DEFINE h == [n \in 0 .. (m + 1) |->
                     IF n <= m THEN g[n]
                     ELSE IF n \in I THEN Append(g[m], s[n]) ELSE g[m]]
  <2>2. \A n \in 0 .. m : h[n] = g[n]
    OBVIOUS
  <2>3. ASSUME NEW n \in 0 .. (m + 1)
        PROVE  h[n] = IF n = 0 THEN <<>>
                      ELSE IF n \in I THEN Append(h[n - 1], s[n]) ELSE h[n - 1]
    <3>1. CASE n <= m
      <4>1. n \in 0 .. m /\ (n # 0 => n - 1 \in 0 .. m) BY <3>1
      <4>2. h[n] = g[n] /\ (n # 0 => h[n - 1] = g[n - 1]) BY <2>2, <4>1
      <4>3. g[n] = IF n = 0 THEN <<>>
                   ELSE IF n \in I THEN Append(g[n - 1], s[n]) ELSE g[n - 1]
        BY <2>1, <4>1 DEF Keeps
      <4> QED BY <4>2, <4>3
    <3>2. CASE n = m + 1
      <4>1. n # 0 /\ n - 1 = m /\ m \in 0 .. m /\ ~(n <= m) BY <3>2
      <4>2. h[n - 1] = g[m] BY <2>2, <4>1
      <4> QED BY <4>1, <4>2
    <3> QED BY <3>1, <3>2
  <2>4. Keeps(h, m + 1, s, I)
    BY <2>3 DEF Keeps
  <2> QED BY <2>4
<1>3. \A m \in Nat : m \in P
  <2> HIDE DEF P
  <2>1. P \in SUBSET Nat BY DEF P
  <2> QED BY <1>1, <1>2, <2>1, SetInduction
<1>4. \E g : Keeps(g, Len(s), s, I)
  BY <1>3
<1>5. only_upto(s, I) = CHOOSE g : Keeps(g, Len(s), s, I)
  BY DEF only_upto, Keeps
<1> QED BY <1>4, <1>5

\* A list without repetitions.
Distinct(s) == \A i, j \in DOMAIN s : s[i] = s[j] => i = j

\* The list t has the elements of s at those of the first n positions that are in I.
KeptOf(t, s, I, n) ==
    /\ Len(t) <= n
    /\ \A k \in 1 .. Len(t) : \E i \in I \cap (1 .. n) : t[k] = s[i]
    /\ \A i \in I \cap (1 .. n) : \E k \in 1 .. Len(t) : t[k] = s[i]
    /\ (\A i, j \in I \cap (1 .. Len(s)) : s[i] = s[j] => i = j) =>
            \A k, l \in 1 .. Len(t) : t[k] = t[l] => k = l

LEMMA KeptOneMore ==
    ASSUME NEW S, NEW s \in Seq(S), NEW I, NEW n \in Nat, n + 1 <= Len(s), n + 1 \in I,
           NEW old \in Seq(S), KeptOf(old, s, I, n)
    PROVE  /\ Append(old, s[n + 1]) \in Seq(S)
           /\ KeptOf(Append(old, s[n + 1]), s, I, n + 1)
<1> DEFINE new == Append(old, s[n + 1])
<1>1. Len(s) \in Nat /\ Len(old) \in Nat /\ n + 1 \in 1 .. Len(s) /\ s[n + 1] \in S
  OBVIOUS
<1>2. /\ new \in Seq(S) /\ Len(new) = Len(old) + 1
      /\ new[Len(old) + 1] = s[n + 1]
      /\ \A k \in 1 .. Len(old) : new[k] = old[k]
  BY <1>1
<1> HIDE DEF new
<1>3. Len(new) <= n + 1
  BY <1>1, <1>2 DEF KeptOf
<1>4. ASSUME NEW k \in 1 .. Len(new)
      PROVE  \E i \in I \cap (1 .. (n + 1)) : new[k] = s[i]
  <2>1. CASE k = Len(old) + 1
    BY <1>1, <1>2, <2>1
  <2>2. CASE k \in 1 .. Len(old)
    <3>1. PICK i \in I \cap (1 .. n) : old[k] = s[i] BY <2>2 DEF KeptOf
    <3> QED BY <3>1, <1>2, <2>2
  <2> QED BY <2>1, <2>2, <1>1, <1>2
<1>5. ASSUME NEW i \in I \cap (1 .. (n + 1))
      PROVE  \E k \in 1 .. Len(new) : new[k] = s[i]
  <2>1. CASE i = n + 1
    <3>1. Len(old) + 1 \in 1 .. Len(new) BY <1>1, <1>2
    <3> QED BY <2>1, <3>1, <1>2
  <2>2. CASE i \in 1 .. n
    <3>1. PICK k \in 1 .. Len(old) : old[k] = s[i] BY <2>2 DEF KeptOf
    <3>2. k \in 1 .. Len(new) /\ new[k] = s[i] BY <3>1, <1>1, <1>2
    <3> QED BY <3>2
  <2> QED BY <2>1, <2>2
<1>6. ASSUME \A i, j \in I \cap (1 .. Len(s)) : s[i] = s[j] => i = j,
             NEW k \in 1 .. Len(new), NEW l \in 1 .. Len(new), new[k] = new[l]
      PROVE  k = l
  <2>1. ASSUME NEW m \in 1 .. Len(old) PROVE new[m] # s[n + 1]
    <3>1. PICK i \in I \cap (1 .. n) : old[m] = s[i] BY DEF KeptOf
    <3>2. i \in I \cap (1 .. Len(s)) /\ n + 1 \in I \cap (1 .. Len(s)) /\ i # n + 1
      BY <1>1
    <3> QED BY <3>1, <3>2, <1>6, <1>2
  <2>2. CASE k \in 1 .. Len(old) /\ l \in 1 .. Len(old)
    BY <1>2, <1>6, <2>2 DEF KeptOf
  <2>3. CASE k = Len(old) + 1 /\ l \in 1 .. Len(old)
    BY <1>2, <1>6, <2>1, <2>3
  <2>4. CASE l = Len(old) + 1 /\ k \in 1 .. Len(old)
    BY <1>2, <1>6, <2>1, <2>4
  <2>5. k \in 1 .. Len(old) \/ k = Len(old) + 1 BY <1>1, <1>2
  <2>6. l \in 1 .. Len(old) \/ l = Len(old) + 1 BY <1>1, <1>2
  <2> QED BY <2>2, <2>3, <2>4, <2>5, <2>6
<1>7. new \in Seq(S) /\ KeptOf(new, s, I, n + 1)
  BY <1>2, <1>3, <1>4, <1>5, <1>6 DEF KeptOf
<1> QED BY <1>7 DEF new

(* What a list comprehension returns: at most as many elements, exactly the  *)
(* elements at the positions asked for, and distinct ones if those were.     *)
LEMMA OnlyElements ==
    ASSUME NEW S, NEW s \in Seq(S), NEW I
    PROVE  /\ only(s, I) \in Seq(S)
           /\ Len(only(s, I)) <= Len(s)
           /\ ToSet(only(s, I)) = {s[i] : i \in I \cap DOMAIN s}
           /\ (\A i, j \in I \cap DOMAIN s : s[i] = s[j] => i = j) => Distinct(only(s, I))
<1> DEFINE g == only_upto(s, I)
           P == {n \in Nat : n <= Len(s) => g[n] \in Seq(S) /\ KeptOf(g[n], s, I, n)}
<1>0. Len(s) \in Nat /\ DOMAIN s = 1 .. Len(s) /\ \A i \in 1 .. Len(s) : s[i] \in S
  OBVIOUS
<1>1. Keeps(g, Len(s), s, I)
  BY <1>0, OnlyUpto
<1> HIDE DEF g
<1>2. g[0] = <<>>
  BY <1>0, <1>1 DEF Keeps
<1>3. ASSUME NEW n \in Nat, n + 1 <= Len(s)
      PROVE  g[n + 1] = IF n + 1 \in I THEN Append(g[n], s[n + 1]) ELSE g[n]
  <2>1. n + 1 \in 0 .. Len(s) /\ n + 1 # 0 /\ (n + 1) - 1 = n BY <1>0, <1>3
  <2> QED BY <1>1, <2>1 DEF Keeps
<1>4. 0 \in P
  <2>1. g[0] \in Seq(S) /\ Len(g[0]) = 0 BY <1>2
  <2>2. KeptOf(g[0], s, I, 0) BY <2>1 DEF KeptOf
  <2> QED BY <2>1, <2>2
<1>5. ASSUME NEW n \in P PROVE n + 1 \in P
  <2>1. ASSUME n + 1 <= Len(s)
        PROVE  g[n + 1] \in Seq(S) /\ KeptOf(g[n + 1], s, I, n + 1)
    <3>1. n \in Nat /\ g[n] \in Seq(S) /\ KeptOf(g[n], s, I, n)
      BY <1>0, <2>1
    <3>2. CASE n + 1 \notin I
      <4>1. g[n + 1] = g[n] BY <1>3, <2>1, <3>1, <3>2
      <4>2. I \cap (1 .. (n + 1)) = I \cap (1 .. n) BY <3>1, <3>2
      <4>3. Len(g[n]) \in Nat BY <3>1
      <4> QED BY <3>1, <4>1, <4>2, <4>3 DEF KeptOf
    <3>3. CASE n + 1 \in I
      <4>1. g[n + 1] = Append(g[n], s[n + 1]) BY <1>3, <2>1, <3>1, <3>3
      <4> QED BY <2>1, <3>1, <3>3, <4>1, KeptOneMore
    <3> QED BY <3>2, <3>3
  <2>2. n + 1 \in Nat OBVIOUS
  <2> QED BY <2>1, <2>2
<1>6. g[Len(s)] \in Seq(S) /\ KeptOf(g[Len(s)], s, I, Len(s))
  <2>1. P \in SUBSET Nat OBVIOUS
  <2> HIDE DEF P
  <2>2. Len(s) \in P BY <1>0, <1>4, <1>5, <2>1, SetInduction
  <2> QED BY <2>2, <1>0 DEF P
<1> DEFINE r == only(s, I)
<1>7. r = g[Len(s)]
  BY DEF only, g
<1> HIDE DEF r
<1>8. r \in Seq(S) /\ KeptOf(r, s, I, Len(s)) /\ DOMAIN r = 1 .. Len(r)
  BY <1>6, <1>7
<1>9. ToSet(r) \subseteq {s[i] : i \in I \cap DOMAIN s}
  BY <1>0, <1>8 DEF ToSet, KeptOf
<1>10. {s[i] : i \in I \cap DOMAIN s} \subseteq ToSet(r)
  BY <1>0, <1>8 DEF ToSet, KeptOf
<1>11. Len(r) <= Len(s)
  BY <1>8 DEF KeptOf
<1>12. (\A i, j \in I \cap DOMAIN s : s[i] = s[j] => i = j) => Distinct(r)
  BY <1>0, <1>8 DEF KeptOf, Distinct
<1>13. ToSet(r) = {s[i] : i \in I \cap DOMAIN s}
  BY <1>9, <1>10
<1> QED BY <1>8, <1>11, <1>12, <1>13 DEF r

(* A list comprehension depends on the list and the positions it looks at.   *)
LEMMA OnlyLooks ==
    ASSUME NEW S, NEW s \in Seq(S), NEW t \in Seq(S), NEW I, NEW J, Len(s) <= Len(t),
           \A i \in 1 .. Len(s) : t[i] = s[i] /\ (i \in I <=> i \in J)
    PROVE  only_upto(t, J)[Len(s)] = only(s, I)
<1> DEFINE g == only_upto(s, I)
           h == only_upto(t, J)
           P == {n \in Nat : n <= Len(s) => h[n] = g[n]}
<1>0. Len(s) \in Nat /\ Len(t) \in Nat
  OBVIOUS
<1>1. Keeps(g, Len(s), s, I) /\ Keeps(h, Len(t), t, J)
  BY <1>0, OnlyUpto
<1>2. only(s, I) = g[Len(s)]
  BY DEF only
<1> HIDE DEF g, h
<1>3. 0 \in P
  BY <1>0, <1>1 DEF Keeps
<1>4. ASSUME NEW n \in P PROVE n + 1 \in P
  <2>1. ASSUME n + 1 <= Len(s) PROVE h[n + 1] = g[n + 1]
    <3>1. n + 1 \in 0 .. Len(s) /\ n + 1 \in 0 .. Len(t) /\ n + 1 # 0 /\ (n + 1) - 1 = n
          /\ n + 1 \in 1 .. Len(s)
      BY <1>0, <2>1
    <3>2. g[n + 1] = IF n + 1 \in I THEN Append(g[n], s[n + 1]) ELSE g[n]
      BY <1>1, <3>1 DEF Keeps
    <3>3. h[n + 1] = IF n + 1 \in J THEN Append(h[n], t[n + 1]) ELSE h[n]
      BY <1>1, <3>1 DEF Keeps
    <3>4. h[n] = g[n] BY <1>0, <2>1
    <3> QED BY <3>1, <3>2, <3>3, <3>4
  <2> QED BY <2>1
<1>5. \A n \in Nat : n \in P
  <2>1. P \in SUBSET Nat OBVIOUS
  <2> HIDE DEF P
  <2> QED BY <1>3, <1>4, <2>1, SetInduction
<1>6. h[Len(s)] = g[Len(s)]
  BY <1>0, <1>5
<1> QED BY <1>2, <1>6 DEF h

LEMMA OnlyAppend ==
    ASSUME NEW S, NEW s \in Seq(S), NEW x \in S, NEW I, NEW J,
           \A i \in 1 .. Len(s) : i \in I <=> i \in J
    PROVE  only(Append(s, x), J) =
                IF Len(s) + 1 \in J THEN Append(only(s, I), x) ELSE only(s, I)
<1> DEFINE t == Append(s, x)
           h == only_upto(t, J)
<1>1. /\ t \in Seq(S) /\ Len(s) \in Nat /\ Len(t) = Len(s) + 1 /\ t[Len(s) + 1] = x
      /\ \A i \in 1 .. Len(s) : t[i] = s[i]
  OBVIOUS
<1> HIDE DEF t
<1>2. h[Len(s)] = only(s, I)
  BY <1>1, OnlyLooks
<1>3. Keeps(h, Len(t), t, J)
  BY <1>1, OnlyUpto
<1>4. only(t, J) = h[Len(s) + 1]
  BY <1>1 DEF only
<1> HIDE DEF h
<1>5. Len(s) + 1 \in 0 .. Len(t) /\ Len(s) + 1 # 0 /\ (Len(s) + 1) - 1 = Len(s)
  BY <1>1
<1>6. h[Len(s) + 1] = IF Len(s) + 1 \in J THEN Append(h[Len(s)], x) ELSE h[Len(s)]
  BY <1>1, <1>3, <1>5 DEF Keeps
<1> QED BY <1>2, <1>4, <1>6 DEF t

LEMMA OnlyEmpty ==
    ASSUME NEW I
    PROVE  only(<<>>, I) = <<>>
<1>1. Len(<<>>) = 0 /\ Len(<<>>) \in Nat OBVIOUS
<1>2. Keeps(only_upto(<<>>, I), Len(<<>>), <<>>, I) BY <1>1, OnlyUpto
<1> HIDE DEF only_upto
<1>3. only_upto(<<>>, I)[0] = <<>> BY <1>1, <1>2 DEF Keeps
<1> QED BY <1>1, <1>3 DEF only

(* A comprehension without a condition copies the list.                      *)
LEMMA OnlyAll ==
    ASSUME NEW S, NEW s \in Seq(S), NEW I, \A i \in 1 .. Len(s) : i \in I
    PROVE  only(s, I) = s
<1> DEFINE g == only_upto(s, I)
           Copy(t, n) == t \in Seq(S) /\ Len(t) = n /\ \A i \in 1 .. n : t[i] = s[i]
           P == {n \in Nat : n <= Len(s) => Copy(g[n], n)}
<1>0. Len(s) \in Nat /\ \A i \in 1 .. Len(s) : s[i] \in S
  OBVIOUS
<1>1. Keeps(g, Len(s), s, I)
  BY <1>0, OnlyUpto
<1>2. only(s, I) = g[Len(s)]
  BY DEF only
<1> HIDE DEF g
<1>3. 0 \in P
  <2>1. 0 \in 0 .. Len(s) BY <1>0
  <2>2. g[0] = <<>> BY <1>1, <2>1 DEF Keeps
  <2>3. <<>> \in Seq(S) /\ Len(<<>>) = 0 /\ 1 .. 0 = {} OBVIOUS
  <2>4. g[0] \in Seq(S) /\ Len(g[0]) = 0 /\ \A i \in 1 .. 0 : g[0][i] = s[i] BY <2>2, <2>3
  <2> QED BY <2>4
<1>4. ASSUME NEW n \in P PROVE n + 1 \in P
  <2>1. ASSUME n + 1 <= Len(s) PROVE Copy(g[n + 1], n + 1)
    <3>1. n + 1 \in 0 .. Len(s) /\ n + 1 # 0 /\ (n + 1) - 1 = n /\ n + 1 \in 1 .. Len(s)
      BY <1>0, <2>1
    <3>2. g[n + 1] = Append(g[n], s[n + 1])
      BY <1>1, <3>1 DEF Keeps
    <3>3. Copy(g[n], n) BY <1>0, <2>1
    <3>4. ASSUME NEW t \in Seq(S), Len(t) = n, NEW x \in S
          PROVE  /\ Append(t, x) \in Seq(S) /\ Len(Append(t, x)) = n + 1
                 /\ \A i \in 1 .. (n + 1) : Append(t, x)[i] = IF i = n + 1 THEN x ELSE t[i]
      BY <3>4
    <3>5. \A i \in 1 .. (n + 1) : i = n + 1 \/ i \in 1 .. n BY <3>1
    <3> QED BY <1>0, <3>1, <3>2, <3>3, <3>4, <3>5
  <2> QED BY <2>1
<1>5. \A n \in Nat : n \in P
  <2>1. P \in SUBSET Nat OBVIOUS
  <2> HIDE DEF P
  <2> QED BY <1>3, <1>4, <2>1, SetInduction
<1>6. Copy(g[Len(s)], Len(s))
  BY <1>0, <1>5
<1> QED BY <1>0, <1>2, <1>6

-----------------------------------------------------------------------------
(* The login throttle and the sessions *)

\* What the histories hold.
HistoryOK ==
    /\ history \in [Tokens -> [age : Ages(absolute_lifetime), idle : Ages(session_lifetime),
                               revoked : BOOLEAN]]
    /\ accepted \in {NoToken} \cup {<<t>> : t \in Tokens}

\* The registry a thread is about to make, and every registry before the first, has
\* no sessions; it was not in use before.
Unmade ==
    \A r \in Threads : registry = NoRegistry \/ login[r].at = "make" =>
        /\ registry # r
        /\ \A t \in Tokens : sessions[r][t] = NoSession

\* Only a token that was handed out is logged out.
Issued == \A t \in Tokens : history[t].revoked => history[t].age >= 0

\* The sessions of the registry in use are as old as the history says, and not
\* logged out.
Known ==
    \A t \in Tokens :
        registry # NoRegistry /\ sessions[registry][t] # NoSession =>
            /\ sessions[registry][t].age = history[t].age
            /\ sessions[registry][t].idle = history[t].idle
            /\ ~history[t].revoked
            /\ history[t].age >= 0

\* A login past the check of the throttle has an answer to give, under this key.
Answering(l) == l.at \in {"password", "code"}
key_of(l) == IF l.at = "password" THEN password_key(l.s) ELSE totp_key(l.s)

\* The threads that passed the check under key k and have not recorded an answer yet.
Guessing(r, k) ==
    {w \in Threads : Answering(login[w]) /\ login[w].r = r /\ key_of(login[w]) = k}

\* An answer under way counts as a wrong one.
Throttled ==
    \A r \in Threads, k \in LoginKeys :
        Len(failures[r][k]) + Cardinality(Guessing(r, k))
            <= login_limit - 1 + Cardinality(Threads)

AuthInv ==
    /\ AuthTypeOK /\ HistoryOK /\ Unmade /\ Issued /\ Known
    /\ guesses = failures
    /\ Throttled

(* A check of the throttle keeps some of the failures.                       *)
LEMMA RecentKeeps ==
    ASSUME NEW S, NEW a \in Seq(S)
    PROVE  recent(a) \in Seq(S) /\ Len(recent(a)) <= Len(a)
BY OnlyElements DEF recent

LEMMA AgesGrow ==
    ASSUME NEW limit \in Nat, NEW n \in Ages(limit)
    PROVE  older_age(n, limit) \in Ages(limit)
BY DEF Ages, older_age

LEMMA LimitsNat ==
    /\ absolute_lifetime \in Nat /\ session_lifetime \in Nat /\ login_window \in Nat
    /\ 0 \in Ages(absolute_lifetime) /\ 0 \in Ages(session_lifetime) /\ 0 \in Ages(login_window)
    /\ -1 \in Ages(absolute_lifetime) /\ -1 \in Ages(session_lifetime)
    /\ NoRegistry \notin Threads
BY AuthAssumption DEF absolute_lifetime, Ages

SessionType == [age : Ages(absolute_lifetime), idle : Ages(session_lifetime)]
FailureType == Seq(Ages(login_window))

LEMMA NoSessionType == NoSession \in SessionType /\ [age |-> 0, idle |-> 0] \in SessionType
BY LimitsNat DEF NoSession, SessionType

LEMMA NoSessionStays ==
    [NoSession EXCEPT !.age = older_age(@, absolute_lifetime),
                      !.idle = older_age(@, session_lifetime)] = NoSession
<1>1. absolute_lifetime \in Nat /\ session_lifetime \in Nat
  BY LimitsNat
<1>2. ~(-1 \in 0 .. absolute_lifetime) /\ ~(-1 \in 0 .. session_lifetime)
  BY <1>1
<1>3. /\ NoSession \in [age : {-1}, idle : {-1}]
      /\ older_age(-1, absolute_lifetime) = -1 /\ older_age(-1, session_lifetime) = -1
  BY <1>2 DEF NoSession, older_age
<1>4. \A x \in [age : {-1}, idle : {-1}] :
        [x EXCEPT !.age = older_age(@, absolute_lifetime),
                  !.idle = older_age(@, session_lifetime)] = x
  BY <1>3
<1> QED BY <1>3, <1>4

LEMMA PruneType ==
    ASSUME NEW tokens \in [Tokens -> SessionType]
    PROVE  _prune(tokens) \in [Tokens -> SessionType]
BY NoSessionType DEF _prune

\* The steps of a thread that is serving a login, and the others.
ThreadStep(w) ==
    \/ find_no_registry(w) \/ make_registry(w) \/ second_factor(w)
    \/ \E right \in BOOLEAN : check_code(w, right)
    \/ \E right, code \in BOOLEAN : check_password(w, right, code)
    \/ \E t \in Tokens : login_create(w, t)
    \/ \E s \in Sources, for \in {"login", "basic"} : authenticate_password(w, s, for)

(* A step of a login, whatever else it does, puts its thread at a step of a  *)
(* login again, and leaves the other threads where they are.                 *)
LEMMA LoginMoves ==
    ASSUME AuthTypeOK, NEW w \in Threads, ThreadStep(w)
    PROVE  /\ login' = [login EXCEPT ![w] = login'[w]]
           /\ login'[w] \in Request
           /\ registry' \in Registry
           /\ registry' # registry => registry' = w /\ login[w].at = "make" /\ make_registry(w)
           /\ login'[w].at = "make" => find_no_registry(w)
           /\ registry' = NoRegistry =>
                 registry = NoRegistry /\ login'[w].at \in {"idle", "make"}
           /\ logins' \in Nat /\ totp_enabled' \in BOOLEAN
<1> USE DEF AuthTypeOK, Registry
<1>0. login[w] \in Request /\ w \in DOMAIN login /\ NoRegistry \notin Threads
  BY LimitsNat
<1>1. CASE find_no_registry(w)
  BY <1>0, <1>1 DEF find_no_registry, Request
<1>2. CASE make_registry(w)
  BY <1>0, <1>2 DEF make_registry, Request, NoLogin
<1>3. CASE second_factor(w)
  <2>1. registry \in Threads BY <1>3 DEF second_factor
  <2>2. login[w].at = "second" /\ login[w].s \in Sources
    BY <1>0, <1>3 DEF second_factor, Request, NoLogin
  <2>3. login'[w] \in {[at |-> "code", r |-> registry, s |-> login[w].s], NoLogin}
    BY <1>0, <1>3 DEF second_factor
  <2> QED BY <1>0, <1>3, <2>1, <2>2, <2>3 DEF second_factor, Request, NoLogin
<1>4. ASSUME NEW right \in BOOLEAN, check_code(w, right)
      PROVE  login' = [login EXCEPT ![w] = login'[w]]
             /\ login'[w] \in {[at |-> "create"], NoLogin}
             /\ login[w].at = "code"
             /\ UNCHANGED <<registry, logins, totp_enabled>>
  BY <1>0, <1>4 DEF check_code
<1>5. ASSUME NEW right \in BOOLEAN, NEW code \in BOOLEAN, check_password(w, right, code)
      PROVE  /\ login' = [login EXCEPT ![w] = login'[w]]
             /\ login'[w] \in {[at |-> "create"], [at |-> "second", s |-> login[w].s], NoLogin}
             /\ login[w].at = "password" /\ login[w].s \in Sources
             /\ UNCHANGED <<registry, logins>> /\ totp_enabled' \in BOOLEAN
  <2>1. login[w].at = "password" /\ login[w].s \in Sources
        /\ login[w].for \in {"login", "basic"}
    BY <1>0, <1>5 DEF check_password, Request, NoLogin
  <2>2. login'[w] \in {[at |-> "create"], [at |-> "second", s |-> login[w].s], NoLogin}
    <3>1. CASE ~right \/ login[w].for = "basic" BY <1>0, <1>5, <3>1 DEF check_password
    <3>2. CASE right /\ login[w].for = "login" /\ ~totp_enabled
      BY <1>0, <1>5, <3>2 DEF check_password
    <3>3. CASE right /\ login[w].for = "login" /\ totp_enabled
      BY <1>0, <1>5, <3>3 DEF check_password
    <3> QED BY <2>1, <3>1, <3>2, <3>3
  <2>3. login' = [login EXCEPT ![w] = login'[w]]
    <3>1. PICK v : login' = [login EXCEPT ![w] = v] BY <1>5 DEF check_password
    <3> QED BY <1>0, <3>1
  <2>4. totp_enabled' \in BOOLEAN BY <1>5 DEF check_password
  <2> QED BY <1>5, <2>1, <2>2, <2>3, <2>4 DEF check_password
<1>6. ASSUME NEW t \in Tokens, login_create(w, t)
      PROVE  /\ login' = [login EXCEPT ![w] = login'[w]]
             /\ login'[w] = NoLogin /\ login[w].at = "create"
             /\ UNCHANGED <<registry, logins, totp_enabled>>
  BY <1>0, <1>6 DEF login_create
<1>7. ASSUME NEW s \in Sources, NEW for \in {"login", "basic"},
             authenticate_password(w, s, for)
      PROVE  /\ login' = [login EXCEPT ![w] = login'[w]]
             /\ login'[w] \in {NoLogin,
                    [at |-> "password", r |-> registry, s |-> s, for |-> for]}
             /\ registry \in Threads /\ logins' = logins + 1
             /\ UNCHANGED <<registry, totp_enabled>>
  BY <1>0, <1>7 DEF authenticate_password
<1>8. CASE \E right \in BOOLEAN : check_code(w, right)
  BY <1>0, <1>4, <1>8 DEF Request, NoLogin
<1>9. CASE \E right, code \in BOOLEAN : check_password(w, right, code)
  BY <1>0, <1>5, <1>9 DEF Request, NoLogin
<1>10. CASE \E t \in Tokens : login_create(w, t)
  BY <1>0, <1>6, <1>10 DEF Request, NoLogin
<1>11. CASE \E s \in Sources, for \in {"login", "basic"} : authenticate_password(w, s, for)
  BY <1>0, <1>7, <1>11 DEF Request, NoLogin
<1> QED BY <1>1, <1>2, <1>3, <1>8, <1>9, <1>10, <1>11 DEF ThreadStep

(* Time passes for a list of failures, none is lost or gained.               *)
LEMMA FailuresAge ==
    ASSUME NEW a \in FailureType
    PROVE  /\ [i \in DOMAIN a |-> older_age(a[i], login_window)] \in FailureType
           /\ Len([i \in DOMAIN a |-> older_age(a[i], login_window)]) = Len(a)
<1> DEFINE b == [i \in DOMAIN a |-> older_age(a[i], login_window)]
<1>1. DOMAIN a = 1 .. Len(a) /\ Len(a) \in Nat /\ \A i \in 1 .. Len(a) : a[i] \in Ages(login_window)
  BY DEF FailureType
<1>2. \A i \in 1 .. Len(a) : older_age(a[i], login_window) \in Ages(login_window)
  BY <1>1, AgesGrow, LimitsNat
<1>3. b \in [1 .. Len(a) -> Ages(login_window)]
  BY <1>1, <1>2
<1>4. b \in Seq(Ages(login_window)) /\ Len(b) = Len(a)
  <2> HIDE DEF b
  <2>1. b \in Seq(Ages(login_window)) BY <1>1, <1>3
  <2>2. DOMAIN b = 1 .. Len(a) BY <1>3
  <2> QED BY <1>1, <2>1, <2>2
<1> QED BY <1>4 DEF FailureType, b

\* A step on the failures under one key.
FailureStep(r, k) ==
    prune_failures(r, k, k) \/ record_failure(r, k, k) \/ clear_failures(r, k, k)

LEMMA FailureStepType ==
    ASSUME NEW r \in Threads, NEW k \in LoginKeys, FailureStep(r, k),
           failures \in [Threads -> [LoginKeys -> FailureType]],
           guesses \in [Threads -> [LoginKeys -> FailureType]]
    PROVE  /\ failures' \in [Threads -> [LoginKeys -> FailureType]]
           /\ guesses' \in [Threads -> [LoginKeys -> FailureType]]
           /\ guesses = failures => guesses' = failures'
<1>1. \E F \in FailureType : failures' = [failures EXCEPT ![r][k] = F]
  <2>1. recent(failures[r][k]) \in FailureType BY RecentKeeps DEF FailureType
  <2>2. Append(failures[r][k], 0) \in FailureType /\ <<>> \in FailureType
    BY LimitsNat DEF FailureType
  <2> QED BY <2>1, <2>2 DEF FailureStep, prune_failures, record_failure, clear_failures
<1>2. \E F \in FailureType : guesses' = [guesses EXCEPT ![r][k] = F]
  <2>1. recent(guesses[r][k]) \in FailureType BY RecentKeeps DEF FailureType
  <2>2. Append(guesses[r][k], 0) \in FailureType /\ <<>> \in FailureType
    BY LimitsNat DEF FailureType
  <2> QED BY <2>1, <2>2 DEF FailureStep, prune_failures, record_failure, clear_failures
<1>3. guesses = failures => guesses' = failures'
  <2>1. CASE prune_failures(r, k, k) BY <2>1 DEF prune_failures
  <2>2. CASE record_failure(r, k, k) BY <2>2 DEF record_failure
  <2>3. CASE clear_failures(r, k, k) BY <2>3 DEF clear_failures
  <2> QED BY <2>1, <2>2, <2>3 DEF FailureStep
<1> QED BY <1>1, <1>2, <1>3

LEMMA AuthSteps ==
    ASSUME AuthNext
    PROVE  \/ \E w \in Threads : ThreadStep(w)
           \/ \E t \in Tokens : logout(t)
           \/ \E t \in Tokens, csrf, totp \in BOOLEAN : require_admin(t, csrf, totp)
           \/ AuthTick
BY DEF AuthNext, ThreadStep

(* Only the last step of a login touches a session.                          *)
LEMMA ThreadSessions ==
    ASSUME NEW w \in Threads, ThreadStep(w)
    PROVE  \/ UNCHANGED <<sessions, history>> /\ accepted' = NoToken
           \/ \E t \in Tokens : login_create(w, t)
BY DEF ThreadStep, find_no_registry, make_registry, second_factor, check_code,
       check_password, authenticate_password

(* What a step of a login does to the throttle: nothing; the check, which    *)
(* lets the thread answer or not; or the answer.                             *)
LEMMA ThreadThrottle ==
    ASSUME AuthTypeOK, NEW w \in Threads, ThreadStep(w)
    PROVE  \/ /\ UNCHANGED <<failures, guesses>>
              /\ ~Answering(login[w]) /\ ~Answering(login'[w])
           \/ \E k \in LoginKeys :
                /\ registry \in Threads /\ prune_failures(registry, k, k)
                /\ ~Answering(login[w])
                /\ Answering(login'[w]) =>
                      /\ login'[w].r = registry /\ key_of(login'[w]) = k
                      /\ login_allowed(registry, k)
           \/ /\ Answering(login[w]) /\ login[w].r \in Threads /\ key_of(login[w]) \in LoginKeys
              /\ ~Answering(login'[w])
              /\ \/ record_failure(login[w].r, key_of(login[w]), key_of(login[w]))
                 \/ clear_failures(login[w].r, key_of(login[w]), key_of(login[w]))
<1>0. login[w] \in Request /\ login \in [Threads -> Request]
  BY DEF AuthTypeOK
<1>1. CASE find_no_registry(w)
  BY <1>0, <1>1 DEF find_no_registry, Answering, NoLogin
<1>2. CASE make_registry(w)
  BY <1>0, <1>2 DEF make_registry, Answering, NoLogin
<1>3. CASE second_factor(w)
  <2> DEFINE k == totp_key(login[w].s)
  <2>1. registry \in Threads /\ login[w].at = "second" /\ login[w].s \in Sources
    BY <1>0, <1>3 DEF second_factor, AuthTypeOK, Registry, Request, NoLogin
  <2>2. k \in LoginKeys /\ k = <<"totp", login[w].s>>
    BY <2>1 DEF totp_key, LoginKeys, Factors
  <2>3. prune_failures(registry, k, k)
    BY <1>3, <2>2 DEF second_factor
  <2>4. login'[w] = IF login_allowed(registry, k)
                      THEN [at |-> "code", r |-> registry, s |-> login[w].s] ELSE NoLogin
    BY <1>0, <1>3 DEF second_factor
  <2>5. ~Answering(login[w]) BY <2>1 DEF Answering
  <2>6. Answering(login'[w]) => /\ login'[w].r = registry /\ key_of(login'[w]) = k
                                /\ login_allowed(registry, k)
    BY <2>4 DEF Answering, key_of, NoLogin
  <2> QED BY <2>1, <2>2, <2>3, <2>5, <2>6
<1>4. CASE \E right \in BOOLEAN : check_code(w, right)
  <2>1. PICK right \in BOOLEAN : check_code(w, right) BY <1>4
  <2>2. login[w].at = "code" /\ login[w].r \in Threads /\ login[w].s \in Sources
    BY <1>0, <2>1 DEF check_code, Request, NoLogin
  <2>3. key_of(login[w]) = <<"totp", login[w].s>> /\ key_of(login[w]) = totp_key(login[w].s)
        /\ key_of(login[w]) \in LoginKeys
    BY <2>2 DEF key_of, totp_key, LoginKeys, Factors
  <2>4. \/ record_failure(login[w].r, key_of(login[w]), key_of(login[w]))
        \/ clear_failures(login[w].r, key_of(login[w]), key_of(login[w]))
    BY <2>1, <2>3 DEF check_code
  <2>5. ~Answering(login'[w])
    BY <1>0, <2>1 DEF check_code, Answering, NoLogin
  <2> QED BY <2>2, <2>3, <2>4, <2>5 DEF Answering
<1>5. CASE \E right, code \in BOOLEAN : check_password(w, right, code)
  <2>1. PICK right \in BOOLEAN, code \in BOOLEAN : check_password(w, right, code) BY <1>5
  <2>2. login[w].at = "password" /\ login[w].r \in Threads /\ login[w].s \in Sources
        /\ login[w].for \in {"login", "basic"}
    BY <1>0, <2>1 DEF check_password, Request, NoLogin
  <2>3. key_of(login[w]) = password_key(login[w].s) /\ key_of(login[w]) \in LoginKeys
    BY <2>2 DEF key_of, password_key, LoginKeys, Factors
  <2>4. \/ record_failure(login[w].r, key_of(login[w]), key_of(login[w]))
        \/ clear_failures(login[w].r, key_of(login[w]), key_of(login[w]))
    BY <2>1, <2>3 DEF check_password
  <2>5. ~Answering(login'[w])
    <3>1. CASE ~right \/ login[w].for = "basic"
      BY <1>0, <2>1, <3>1 DEF check_password, Answering, NoLogin
    <3>2. CASE right /\ login[w].for = "login" /\ ~totp_enabled
      BY <1>0, <2>1, <3>2 DEF check_password, Answering
    <3>3. CASE right /\ login[w].for = "login" /\ totp_enabled
      BY <1>0, <2>1, <3>3 DEF check_password, Answering, NoLogin
    <3> QED BY <2>2, <3>1, <3>2, <3>3
  <2> QED BY <2>2, <2>3, <2>4, <2>5 DEF Answering
<1>6. CASE \E t \in Tokens : login_create(w, t)
  BY <1>0, <1>6 DEF login_create, Answering, NoLogin
<1>7. CASE \E s \in Sources, for \in {"login", "basic"} : authenticate_password(w, s, for)
  <2>1. PICK s \in Sources, for \in {"login", "basic"} : authenticate_password(w, s, for)
    BY <1>7
  <2> DEFINE k == password_key(s)
  <2>2. registry \in Threads /\ login[w] = NoLogin
    BY <2>1 DEF authenticate_password, AuthTypeOK, Registry
  <2>3. k \in LoginKeys BY DEF password_key, LoginKeys, Factors
  <2>4. prune_failures(registry, k, k) BY <2>1 DEF authenticate_password
  <2>5. login'[w] = IF login_allowed(registry, k)
                      THEN [at |-> "password", r |-> registry, s |-> s, for |-> for]
                      ELSE NoLogin
    BY <1>0, <2>1 DEF authenticate_password
  <2>6. ~Answering(login[w]) BY <2>2 DEF Answering, NoLogin
  <2>7. Answering(login'[w]) => /\ login'[w].r = registry /\ key_of(login'[w]) = k
                                /\ login_allowed(registry, k)
    BY <2>5 DEF Answering, key_of, NoLogin
  <2> QED BY <2>2, <2>3, <2>4, <2>6, <2>7
<1> QED BY <1>1, <1>2, <1>3, <1>4, <1>5, <1>6, <1>7 DEF ThreadStep

\* The part of AuthTypeOK and HistoryOK that is about sessions.
SessionsOK == sessions \in [Threads -> [Tokens -> SessionType]] /\ HistoryOK

LEMMA SessionsStep ==
    ASSUME AuthTypeOK, HistoryOK, AuthNext
    PROVE  SessionsOK'
<1>0. /\ sessions \in [Threads -> [Tokens -> SessionType]]
      /\ history \in [Tokens -> [age : Ages(absolute_lifetime), idle : Ages(session_lifetime),
                                 revoked : BOOLEAN]]
      /\ registry # NoRegistry => registry \in Threads
  BY DEF AuthTypeOK, HistoryOK, SessionType, Registry
<1> USE DEF SessionsOK, HistoryOK
<1>1. CASE \E w \in Threads : ThreadStep(w)
  <2>1. PICK w \in Threads : ThreadStep(w) BY <1>1
  <2>2. CASE UNCHANGED <<sessions, history>> /\ accepted' = NoToken
    BY <1>0, <2>2
  <2>3. CASE \E t \in Tokens : login_create(w, t)
    <3>1. PICK t \in Tokens : login_create(w, t) BY <2>3
    <3>2. registry \in Threads /\ accepted' = NoToken
      BY <1>0, <3>1 DEF login_create, AuthTypeOK
    <3>3. _prune(sessions[registry]) \in [Tokens -> SessionType]
      BY <1>0, <3>2, PruneType
    <3>4. sessions' = [sessions EXCEPT ![registry] =
                          [_prune(sessions[registry]) EXCEPT ![t] = [age |-> 0, idle |-> 0]]]
      BY <3>1 DEF login_create, create
    <3>5. sessions' \in [Threads -> [Tokens -> SessionType]]
      BY <1>0, <3>2, <3>3, <3>4, NoSessionType
    <3>6. history' = [history EXCEPT ![t].age = 0, ![t].idle = 0]
      BY <3>1 DEF login_create, create
    <3>7. history' \in [Tokens -> [age : Ages(absolute_lifetime),
                                   idle : Ages(session_lifetime), revoked : BOOLEAN]]
      BY <1>0, <3>6, LimitsNat
    <3> QED BY <3>2, <3>5, <3>7
  <2> QED BY <2>1, <2>2, <2>3, ThreadSessions
<1>2. CASE \E t \in Tokens : logout(t)
  <2>1. PICK t \in Tokens : logout(t) BY <1>2
  <2>2. sessions' \in [Threads -> [Tokens -> SessionType]]
    BY <1>0, <2>1, NoSessionType DEF logout, revoke
  <2>3. history' \in [Tokens -> [age : Ages(absolute_lifetime),
                                 idle : Ages(session_lifetime), revoked : BOOLEAN]]
    BY <1>0, <2>1 DEF logout, revoke
  <2> QED BY <2>1, <2>2, <2>3 DEF logout
<1>3. CASE \E t \in Tokens, csrf, totp \in BOOLEAN : require_admin(t, csrf, totp)
  <2>1. PICK t \in Tokens : registry # NoRegistry /\ get(registry, t)
    BY <1>3 DEF require_admin
  <2>2. _prune(sessions[registry]) \in [Tokens -> SessionType]
    BY <1>0, <2>1, PruneType
  <2>3. CASE _prune(sessions[registry])[t] = NoSession
    BY <1>0, <2>1, <2>2, <2>3 DEF get
  <2>4. CASE _prune(sessions[registry])[t] # NoSession
    <3>1. sessions' = [sessions EXCEPT ![registry] =
                          [_prune(sessions[registry]) EXCEPT ![t].idle = 0]]
      BY <2>1, <2>4 DEF get
    <3>2. [_prune(sessions[registry]) EXCEPT ![t].idle = 0] \in [Tokens -> SessionType]
      BY <2>2, LimitsNat DEF SessionType
    <3>3. sessions' \in [Threads -> [Tokens -> SessionType]]
      BY <1>0, <2>1, <3>1, <3>2
    <3>4. history' = [history EXCEPT ![t].idle = 0] /\ accepted' = <<t>>
      BY <2>1, <2>4 DEF get
    <3>5. history' \in [Tokens -> [age : Ages(absolute_lifetime),
                                   idle : Ages(session_lifetime), revoked : BOOLEAN]]
      BY <1>0, <3>4, LimitsNat
    <3> QED BY <3>3, <3>4, <3>5
  <2> QED BY <2>3, <2>4
<1>4. CASE AuthTick
  <2> DEFINE ticked(x) == [x EXCEPT !.age = older_age(@, absolute_lifetime),
                                    !.idle = older_age(@, session_lifetime)]
  <2>1. ASSUME NEW x \in SessionType PROVE ticked(x) \in SessionType
    BY AgesGrow, LimitsNat DEF SessionType
  <2>2. sessions' \in [Threads -> [Tokens -> SessionType]]
    <3>1. sessions' = [r \in Threads |-> [t \in Tokens |-> ticked(sessions[r][t])]]
      BY <1>4 DEF AuthTick
    <3>2. \A r \in Threads, t \in Tokens : ticked(sessions[r][t]) \in SessionType
      BY <1>0, <2>1
    <3> HIDE DEF ticked
    <3> QED BY <3>1, <3>2
  <2>3. history' \in [Tokens -> [age : Ages(absolute_lifetime),
                                 idle : Ages(session_lifetime), revoked : BOOLEAN]]
    <3>1. history' = [t \in Tokens |-> ticked(history[t])]
      BY <1>4 DEF AuthTick
    <3>2. \A t \in Tokens : ticked(history[t]) \in [age : Ages(absolute_lifetime),
                                 idle : Ages(session_lifetime), revoked : BOOLEAN]
      BY <1>0, AgesGrow, LimitsNat
    <3> HIDE DEF ticked
    <3> QED BY <3>1, <3>2
  <2> QED BY <1>4, <2>2, <2>3 DEF AuthTick
<1> QED BY <1>1, <1>2, <1>3, <1>4, AuthSteps

(* The lists of the throttle keep their type, and the history agrees.        *)
LEMMA FailuresStep ==
    ASSUME AuthTypeOK, AuthNext
    PROVE  /\ failures' \in [Threads -> [LoginKeys -> FailureType]]
           /\ guesses' \in [Threads -> [LoginKeys -> FailureType]]
           /\ guesses = failures => guesses' = failures'
<1>0. /\ failures \in [Threads -> [LoginKeys -> FailureType]]
      /\ guesses \in [Threads -> [LoginKeys -> FailureType]]
  BY DEF AuthTypeOK, FailureType
<1>1. CASE \E w \in Threads : ThreadStep(w)
  <2>1. PICK w \in Threads : ThreadStep(w) BY <1>1
  <2>2. \/ UNCHANGED <<failures, guesses>>
        \/ \E r \in Threads, k \in LoginKeys : FailureStep(r, k)
    BY <2>1, ThreadThrottle DEF FailureStep
  <2> QED BY <1>0, <2>2, FailureStepType
<1>2. CASE UNCHANGED <<failures, guesses>>
  BY <1>0, <1>2
<1>3. CASE AuthTick
  <2> DEFINE aged(a) == [i \in DOMAIN a |-> older_age(a[i], login_window)]
  <2>1. ASSUME NEW a \in FailureType PROVE aged(a) \in FailureType
    BY FailuresAge
  <2>2. /\ failures' = [r \in Threads |-> [k \in LoginKeys |-> aged(failures[r][k])]]
        /\ guesses' = [r \in Threads |-> [k \in LoginKeys |-> aged(guesses[r][k])]]
    BY <1>3 DEF AuthTick
  <2> HIDE DEF aged
  <2>3. failures' \in [Threads -> [LoginKeys -> FailureType]] BY <1>0, <2>1, <2>2
  <2>4. guesses' \in [Threads -> [LoginKeys -> FailureType]] BY <1>0, <2>1, <2>2
  <2> QED BY <2>2, <2>3, <2>4
<1> QED BY <1>1, <1>2, <1>3, AuthSteps DEF logout, require_admin

LEMMA AuthTypeStep ==
    ASSUME AuthTypeOK, HistoryOK, AuthNext
    PROVE  AuthTypeOK' /\ HistoryOK'
<1>1. sessions' \in [Threads -> [Tokens -> SessionType]] /\ HistoryOK'
  BY SessionsStep DEF SessionsOK
<1>2. /\ failures' \in [Threads -> [LoginKeys -> FailureType]]
      /\ guesses' \in [Threads -> [LoginKeys -> FailureType]]
  BY FailuresStep
<1>3. /\ logins' \in Nat /\ registry' \in Registry /\ login' \in [Threads -> Request]
      /\ totp_enabled' \in BOOLEAN
      /\ registry' = NoRegistry => \A w \in Threads : login'[w].at \in {"idle", "make"}
  <2>1. CASE \E w \in Threads : ThreadStep(w)
    <3>1. PICK w \in Threads : ThreadStep(w) BY <2>1
    <3>2. /\ login' = [login EXCEPT ![w] = login'[w]] /\ login'[w] \in Request
          /\ registry' \in Registry
          /\ registry' = NoRegistry =>
                registry = NoRegistry /\ login'[w].at \in {"idle", "make"}
          /\ logins' \in Nat /\ totp_enabled' \in BOOLEAN
      BY <3>1, LoginMoves
    <3>3. login' \in [Threads -> Request] BY <3>2 DEF AuthTypeOK
    <3>4. \A v \in Threads : v # w => login'[v] = login[v] BY <3>2 DEF AuthTypeOK
    <3>5. registry' = NoRegistry => \A v \in Threads : login'[v].at \in {"idle", "make"}
      BY <3>2, <3>4 DEF AuthTypeOK
    <3> QED BY <3>2, <3>3, <3>5
  <2>2. CASE \E t \in Tokens : logout(t)
    BY <2>2 DEF logout, AuthTypeOK
  <2>3. CASE \E t \in Tokens, csrf, totp \in BOOLEAN : require_admin(t, csrf, totp)
    BY <2>3 DEF require_admin, AuthTypeOK
  <2>4. CASE AuthTick
    BY <2>4 DEF AuthTick, AuthTypeOK
  <2> QED BY <2>1, <2>2, <2>3, <2>4, AuthSteps
<1> QED BY <1>1, <1>2, <1>3 DEF AuthTypeOK, SessionType, FailureType

LEMMA AuthTypeInit ==
    ASSUME AuthInit
    PROVE  AuthTypeOK /\ HistoryOK
<1>1. <<>> \in Seq(Ages(login_window)) OBVIOUS
<1>2. NoLogin \in Request BY DEF Request
<1> QED BY <1>1, <1>2, LimitsNat, NoSessionType
        DEF AuthInit, AuthTypeOK, HistoryOK, Registry, SessionType, NoLogin, NoToken

LEMMA AuthTypeStutter ==
    ASSUME AuthTypeOK, HistoryOK, UNCHANGED authVars
    PROVE  AuthTypeOK' /\ HistoryOK'
BY DEF authVars, AuthTypeOK, HistoryOK

(* The panel's sessions, throttle and requests keep their types: no method   *)
(* stores an age below zero or beyond the horizon, and no request uses a     *)
(* registry that was never made.                                             *)
THEOREM AuthTypesHold == AuthSpec => []AuthTypeOK
<1>1. AuthInit => AuthTypeOK /\ HistoryOK
  BY AuthTypeInit
<1>2. AuthTypeOK /\ HistoryOK /\ [AuthNext]_authVars => AuthTypeOK' /\ HistoryOK'
  BY AuthTypeStep, AuthTypeStutter
<1> QED BY <1>1, <1>2, PTL DEF AuthSpec

(* The registry a thread makes was never used, and is not used twice.        *)
LEMMA UnmadeStep ==
    ASSUME AuthTypeOK, HistoryOK, Unmade, AuthNext
    PROVE  Unmade'
<1>0. /\ NoRegistry \notin Threads /\ registry \in Threads \cup {NoRegistry}
      /\ sessions \in [Threads -> [Tokens -> SessionType]]
  BY LimitsNat DEF AuthTypeOK, Registry, SessionType
<1>1. SUFFICES ASSUME NEW r \in Threads, registry' = NoRegistry \/ login'[r].at = "make"
               PROVE  registry' # r /\ \A t \in Tokens : sessions'[r][t] = NoSession
  BY DEF Unmade
<1>2. CASE \E w \in Threads : ThreadStep(w)
  <2>1. PICK w \in Threads : ThreadStep(w) BY <1>2
  <2>2. /\ login' = [login EXCEPT ![w] = login'[w]]
        /\ registry' # registry => registry' = w /\ login[w].at = "make"
        /\ registry' = NoRegistry => registry = NoRegistry
    BY <2>1, LoginMoves
  <2>3. \A v \in Threads : v # w => login'[v] = login[v] BY <2>2 DEF AuthTypeOK
  <2>4. CASE find_no_registry(w)
    BY <1>0, <2>4 DEF find_no_registry, Unmade
  <2>5. CASE make_registry(w)
    <3>1. login'[w] = NoLogin /\ registry' = w /\ UNCHANGED sessions
      BY <2>5 DEF make_registry, AuthTypeOK
    <3>2. r # w BY <1>0, <1>1, <3>1 DEF NoLogin
    <3>3. login[r].at = "make" BY <1>0, <1>1, <2>3, <3>1, <3>2
    <3> QED BY <3>1, <3>2, <3>3 DEF Unmade
  <2>6. CASE /\ ~find_no_registry(w) /\ ~make_registry(w)
    <3>1. login'[w].at # "make" /\ registry' = registry
      BY <2>1, <2>6, LoginMoves
    <3>2. registry = NoRegistry \/ login[r].at = "make" BY <1>1, <2>3, <3>1
    <3>3. registry # r /\ \A t \in Tokens : sessions[r][t] = NoSession BY <3>2 DEF Unmade
    <3>4. CASE UNCHANGED sessions BY <3>1, <3>3, <3>4
    <3>5. CASE \E t \in Tokens : login_create(w, t)
      <4>1. \E f : sessions' = [sessions EXCEPT ![registry] = f]
        BY <3>5 DEF login_create, create
      <4> QED BY <1>0, <3>1, <3>3, <4>1
    <3> QED BY <2>1, <3>4, <3>5, ThreadSessions
  <2> QED BY <2>4, <2>5, <2>6
<1>3. CASE \E t \in Tokens : logout(t)
  <2>1. PICK t \in Tokens : logout(t) BY <1>3
  <2>2. UNCHANGED <<registry, login>> BY <2>1 DEF logout
  <2>3. registry # r /\ \A u \in Tokens : sessions[r][u] = NoSession
    BY <1>1, <2>2 DEF Unmade
  <2>4. sessions'[r] = sessions[r]
    BY <1>0, <2>1, <2>3 DEF logout, revoke
  <2> QED BY <2>2, <2>3, <2>4
<1>4. CASE \E t \in Tokens, csrf, totp \in BOOLEAN : require_admin(t, csrf, totp)
  <2>1. PICK t \in Tokens : get(registry, t) /\ UNCHANGED <<registry, login>>
    BY <1>4 DEF require_admin
  <2>2. registry # r /\ \A u \in Tokens : sessions[r][u] = NoSession
    BY <1>1, <2>1 DEF Unmade
  <2>3. \E f : sessions' = [sessions EXCEPT ![registry] = f]
    BY <2>1 DEF get
  <2>4. sessions'[r] = sessions[r] BY <1>0, <2>2, <2>3
  <2> QED BY <2>1, <2>2, <2>4
<1>5. CASE AuthTick
  <2>1. UNCHANGED <<registry, login>> BY <1>5 DEF AuthTick
  <2>2. registry # r /\ \A u \in Tokens : sessions[r][u] = NoSession
    BY <1>1, <2>1 DEF Unmade
  <2>3. \A u \in Tokens : sessions'[r][u] = NoSession
    BY <1>5, <2>2, NoSessionStays DEF AuthTick
  <2> QED BY <2>1, <2>2, <2>3
<1> QED BY <1>2, <1>3, <1>4, <1>5, AuthSteps

(* A token that was handed out stays so.                                     *)
LEMMA IssuedStep ==
    ASSUME AuthTypeOK, HistoryOK, Issued, AuthNext
    PROVE  Issued'
<1>0. /\ history \in [Tokens -> [age : Ages(absolute_lifetime), idle : Ages(session_lifetime),
                                 revoked : BOOLEAN]]
      /\ absolute_lifetime \in Nat
  BY LimitsNat DEF HistoryOK
<1>1. CASE \E w \in Threads : ThreadStep(w)
  <2>1. PICK w \in Threads : ThreadStep(w) BY <1>1
  <2>2. CASE UNCHANGED history BY <2>2 DEF Issued
  <2>3. CASE \E t \in Tokens : login_create(w, t)
    BY <1>0, <2>3 DEF login_create, create, Issued
  <2> QED BY <2>1, <2>2, <2>3, ThreadSessions
<1>2. CASE \E t \in Tokens : logout(t)
  <2>1. PICK t \in Tokens : logout(t) BY <1>2
  <2>2. history[t].age >= 0 BY <1>0, <2>1 DEF logout, Ages
  <2> QED BY <1>0, <2>1, <2>2 DEF logout, revoke, Issued
<1>3. CASE \E t \in Tokens, csrf, totp \in BOOLEAN : require_admin(t, csrf, totp)
  <2>1. PICK t \in Tokens : \/ history' = history
                            \/ history' = [history EXCEPT ![t].idle = 0]
    BY <1>3 DEF require_admin, get
  <2> QED BY <1>0, <2>1 DEF Issued
<1>4. CASE AuthTick
  <2>1. \A t \in Tokens : /\ history'[t].age = older_age(history[t].age, absolute_lifetime)
                          /\ history'[t].revoked = history[t].revoked
    BY <1>0, <1>4 DEF AuthTick
  <2> QED BY <1>0, <2>1 DEF Issued, older_age, Ages
<1> QED BY <1>1, <1>2, <1>3, <1>4, AuthSteps

(* The sessions of the registry in use and their history move together.      *)
LEMMA KnownStep ==
    ASSUME AuthTypeOK, HistoryOK, Unmade, Issued, Known, AuthNext
    PROVE  Known'
<1>0. /\ NoRegistry \notin Threads /\ registry \in Threads \cup {NoRegistry}
      /\ sessions \in [Threads -> [Tokens -> SessionType]]
      /\ history \in [Tokens -> [age : Ages(absolute_lifetime), idle : Ages(session_lifetime),
                                 revoked : BOOLEAN]]
  BY LimitsNat DEF AuthTypeOK, Registry, SessionType, HistoryOK
<1>1. SUFFICES ASSUME NEW u \in Tokens, registry' # NoRegistry,
                      sessions'[registry'][u] # NoSession
               PROVE  /\ sessions'[registry'][u].age = history'[u].age
                      /\ sessions'[registry'][u].idle = history'[u].idle
                      /\ ~history'[u].revoked
                      /\ history'[u].age >= 0
  BY DEF Known
<1>2. CASE \E w \in Threads : ThreadStep(w)
  <2>1. PICK w \in Threads : ThreadStep(w) BY <1>2
  <2>2. registry' # registry => registry' = w /\ login[w].at = "make"
    BY <2>1, LoginMoves
  <2>3. CASE UNCHANGED <<sessions, history>>
    <3>1. registry' = registry
      BY <1>1, <2>2, <2>3 DEF Unmade
    <3> QED BY <1>1, <2>3, <3>1 DEF Known
  <2>4. CASE \E t \in Tokens : login_create(w, t)
    <3>1. PICK t \in Tokens : login_create(w, t) BY <2>4
    <3>2. registry \in Threads /\ registry' = registry
      BY <1>0, <1>1, <3>1 DEF login_create
    <3> DEFINE live == _prune(sessions[registry])
    <3>3. sessions' = [sessions EXCEPT ![registry] = [live EXCEPT ![t] = [age |-> 0, idle |-> 0]]]
          /\ history[t].age = -1
          /\ history' = [history EXCEPT ![t].age = 0, ![t].idle = 0]
      BY <3>1 DEF login_create, create
    <3>4. live \in [Tokens -> SessionType] BY <1>0, <3>2, PruneType
    <3>5. live[u] # NoSession => live[u] = sessions[registry][u] BY DEF _prune
    <3>6. CASE u # t
      <4>1. sessions'[registry][u] = live[u] /\ history'[u] = history[u]
        <5> HIDE DEF live
        <5> QED BY <1>0, <3>2, <3>3, <3>4, <3>6
      <4>2. sessions[registry][u] # NoSession /\ sessions'[registry][u] = sessions[registry][u]
        BY <1>1, <3>2, <3>5, <4>1
      <4> QED BY <3>2, <4>1, <4>2, <1>1 DEF Known
    <3>7. CASE u = t
      <4>1. sessions'[registry][u] = [age |-> 0, idle |-> 0]
        <5> HIDE DEF live
        <5> QED BY <1>0, <3>2, <3>3, <3>4, <3>7
      <4>2. history'[u].age = 0 /\ history'[u].idle = 0 /\ history'[u].revoked = history[u].revoked
        BY <1>0, <3>3, <3>7
      <4>3. ~history[u].revoked
        BY <3>3, <3>7 DEF Issued
      <4> QED BY <3>2, <4>1, <4>2, <4>3
    <3> QED BY <3>6, <3>7
  <2> QED BY <2>1, <2>3, <2>4, ThreadSessions
<1>3. CASE \E t \in Tokens : logout(t)
  <2>1. PICK t \in Tokens : logout(t) BY <1>3
  <2>2. registry' = registry /\ registry \in Threads BY <1>0, <2>1 DEF logout
  <2>3. u # t
    <3>1. sessions'[registry][t] = NoSession BY <1>0, <2>1, <2>2 DEF logout, revoke
    <3> QED BY <1>1, <2>2, <3>1
  <2>4. sessions'[registry][u] = sessions[registry][u] /\ history'[u] = history[u]
    BY <1>0, <2>1, <2>2, <2>3 DEF logout, revoke
  <2> QED BY <1>1, <2>2, <2>4 DEF Known
<1>4. CASE \E t \in Tokens, csrf, totp \in BOOLEAN : require_admin(t, csrf, totp)
  <2>1. PICK t \in Tokens : get(registry, t) /\ UNCHANGED registry
    BY <1>4 DEF require_admin
  <2> DEFINE live == _prune(sessions[registry])
  <2>2. registry \in Threads BY <1>0, <1>1, <2>1
  <2>3. live \in [Tokens -> SessionType] BY <1>0, <2>2, PruneType
  <2>4. live[u] # NoSession => live[u] = sessions[registry][u] BY DEF _prune
  <2>5. CASE live[t] = NoSession
    <3>1. sessions' = [sessions EXCEPT ![registry] = live] /\ history' = history
      BY <2>1, <2>5 DEF get
    <3>2. sessions'[registry][u] = live[u] BY <1>0, <2>2, <3>1
    <3> QED BY <1>1, <2>1, <2>2, <2>4, <3>1, <3>2 DEF Known
  <2>6. CASE live[t] # NoSession
    <3>1. sessions' = [sessions EXCEPT ![registry] = [live EXCEPT ![t].idle = 0]]
          /\ history' = [history EXCEPT ![t].idle = 0]
      BY <2>1, <2>6 DEF get
    <3>2. CASE u # t
      <4>1. sessions'[registry][u] = live[u] /\ history'[u] = history[u]
        <5> HIDE DEF live
        <5> QED BY <1>0, <2>2, <2>3, <3>1, <3>2
      <4> QED BY <1>1, <2>1, <2>2, <2>4, <4>1 DEF Known
    <3>3. CASE u = t
      <4>1. sessions'[registry][u] = [live[u] EXCEPT !.idle = 0]
        <5> HIDE DEF live
        <5> QED BY <1>0, <2>2, <2>3, <3>1, <3>3
      <4>2. history'[u] = [history[u] EXCEPT !.idle = 0] BY <1>0, <3>1, <3>3
      <4>3. live[u] \in SessionType BY <2>3
      <4>4. sessions'[registry][u].age = live[u].age /\ sessions'[registry][u].idle = 0
        <5> HIDE DEF live
        <5> QED BY <4>1, <4>3 DEF SessionType
      <4>5. history'[u].age = history[u].age /\ history'[u].idle = 0
            /\ history'[u].revoked = history[u].revoked
        BY <1>0, <4>2
      <4>6. live[u].age = history[u].age /\ ~history[u].revoked /\ history[u].age >= 0
        BY <1>1, <2>1, <2>2, <2>4, <2>6, <3>3 DEF Known
      <4> QED BY <2>1, <4>4, <4>5, <4>6
    <3> QED BY <3>2, <3>3
  <2> QED BY <2>5, <2>6
<1>5. CASE AuthTick
  <2>1. registry' = registry /\ registry \in Threads BY <1>0, <1>1, <1>5 DEF AuthTick
  <2>2. sessions'[registry][u] = [sessions[registry][u] EXCEPT
                                    !.age = older_age(@, absolute_lifetime),
                                    !.idle = older_age(@, session_lifetime)]
    BY <1>5, <2>1 DEF AuthTick
  <2>3. history'[u] = [history[u] EXCEPT !.age = older_age(@, absolute_lifetime),
                                         !.idle = older_age(@, session_lifetime)]
    BY <1>5 DEF AuthTick
  <2>4. sessions[registry][u] \in SessionType BY <1>0, <2>1
  <2>5. sessions[registry][u] # NoSession
    BY <1>1, <2>1, <2>2, NoSessionStays
  <2>6. /\ sessions'[registry][u].age = older_age(sessions[registry][u].age, absolute_lifetime)
        /\ sessions'[registry][u].idle = older_age(sessions[registry][u].idle, session_lifetime)
    BY <2>2, <2>4 DEF SessionType
  <2>7. /\ history'[u].age = older_age(history[u].age, absolute_lifetime)
        /\ history'[u].idle = older_age(history[u].idle, session_lifetime)
        /\ history'[u].revoked = history[u].revoked
    BY <1>0, <2>3
  <2>8. /\ sessions[registry][u].age = history[u].age /\ sessions[registry][u].idle = history[u].idle
        /\ ~history[u].revoked /\ history[u].age >= 0
    BY <1>0, <2>1, <2>5 DEF Known
  <2>9. history'[u].age >= 0
    BY <1>0, <2>7, <2>8 DEF older_age, Ages
  <2> QED BY <2>1, <2>6, <2>7, <2>8, <2>9
<1> QED BY <1>2, <1>3, <1>4, <1>5, AuthSteps

LEMMA GuessingFinite ==
    ASSUME NEW r, NEW k
    PROVE  /\ IsFiniteSet(Guessing(r, k)) /\ Cardinality(Guessing(r, k)) \in Nat
           /\ IsFiniteSet(Guessing(r, k)') /\ Cardinality(Guessing(r, k)') \in Nat
           /\ Cardinality(Threads) \in Nat
           /\ Cardinality(Guessing(r, k)) <= Cardinality(Threads)
           /\ Cardinality(Guessing(r, k)') <= Cardinality(Threads)
<1>1. IsFiniteSet(Threads) BY AuthAssumption
<1>2. Guessing(r, k) \subseteq Threads /\ Guessing(r, k)' \subseteq Threads
  BY DEF Guessing
<1> QED BY <1>1, <1>2, FS_Subset, FS_CardinalityType

(* The bound of the throttle, from its check to the answer: a thread that    *)
(* may answer found fewer than limit failures, so all the threads together   *)
(* cannot exceed the bound whatever they answer; an answer is recorded by a  *)
(* thread that was counted.                                                  *)
LEMMA ThrottledStep ==
    ASSUME AuthTypeOK, Throttled, AuthNext
    PROVE  Throttled'
<1>0. /\ failures \in [Threads -> [LoginKeys -> FailureType]]
      /\ login_limit \in Nat \ {0} /\ login \in [Threads -> Request]
  BY AuthAssumption DEF AuthTypeOK, FailureType
<1>1. SUFFICES ASSUME NEW r \in Threads, NEW k \in LoginKeys
               PROVE  Len(failures'[r][k]) + Cardinality(Guessing(r, k)')
                        <= login_limit - 1 + Cardinality(Threads)
  BY DEF Throttled
<1>2. /\ Len(failures[r][k]) + Cardinality(Guessing(r, k))
            <= login_limit - 1 + Cardinality(Threads)
      /\ Len(failures[r][k]) \in Nat /\ failures[r][k] \in FailureType
  BY <1>0 DEF Throttled, FailureType
<1>3. CASE \E w \in Threads : ThreadStep(w)
  <2>1. PICK w \in Threads : ThreadStep(w) BY <1>3
  <2>2. \A v \in Threads : v # w => login'[v] = login[v]
    BY <1>0, <2>1, LoginMoves
  <2>3. CASE UNCHANGED failures /\ ~Answering(login[w]) /\ ~Answering(login'[w])
    <3>1. Guessing(r, k)' = Guessing(r, k)
      BY <2>2, <2>3 DEF Guessing
    <3> QED BY <1>2, <2>3, <3>1
  <2>4. ASSUME NEW q \in LoginKeys, registry \in Threads, prune_failures(registry, q, q),
               ~Answering(login[w]),
               Answering(login'[w]) => /\ login'[w].r = registry /\ key_of(login'[w]) = q
                                       /\ login_allowed(registry, q)
        PROVE  Len(failures'[r][k]) + Cardinality(Guessing(r, k)')
                        <= login_limit - 1 + Cardinality(Threads)
    <3>1. recent(failures[registry][q]) \in FailureType
          /\ Len(recent(failures[registry][q])) <= Len(failures[registry][q])
      BY <1>0, <2>4, RecentKeeps DEF FailureType
    <3>2. failures' = [failures EXCEPT ![registry][q] = recent(failures[registry][q])]
      BY <2>4 DEF prune_failures
    <3>3. CASE r = registry /\ k = q /\ Answering(login'[w])
      <4>1. Len(failures'[r][k]) < login_limit
        BY <1>0, <2>4, <3>2, <3>3 DEF login_allowed
      <4>2. Len(failures'[r][k]) \in Nat
        BY <1>0, <3>1, <3>2, <3>3 DEF FailureType
      <4> QED BY <1>0, <4>1, <4>2, GuessingFinite
    <3>4. CASE ~(r = registry /\ k = q /\ Answering(login'[w]))
      <4>1. Guessing(r, k)' = Guessing(r, k)
        <5>1. w \notin Guessing(r, k) BY <2>4 DEF Guessing
        <5>2. w \notin Guessing(r, k)' BY <2>4, <3>4 DEF Guessing
        <5>3. \A v \in Threads : v # w => (v \in Guessing(r, k)' <=> v \in Guessing(r, k))
          BY <2>2 DEF Guessing
        <5>4. Guessing(r, k) \subseteq Threads /\ Guessing(r, k)' \subseteq Threads
          BY DEF Guessing
        <5> QED BY <5>1, <5>2, <5>3, <5>4
      <4>2. Len(failures'[r][k]) <= Len(failures[r][k]) /\ Len(failures'[r][k]) \in Nat
        BY <1>0, <1>2, <2>4, <3>1, <3>2 DEF FailureType
      <4> QED BY <1>0, <1>2, <4>1, <4>2, GuessingFinite
    <3> QED BY <3>3, <3>4
  <2>5. ASSUME Answering(login[w]), login[w].r \in Threads, key_of(login[w]) \in LoginKeys,
               ~Answering(login'[w]),
               \/ record_failure(login[w].r, key_of(login[w]), key_of(login[w]))
               \/ clear_failures(login[w].r, key_of(login[w]), key_of(login[w]))
        PROVE  Len(failures'[r][k]) + Cardinality(Guessing(r, k)')
                        <= login_limit - 1 + Cardinality(Threads)
    <3>1. Guessing(r, k)' = Guessing(r, k) \ {w}
      <4>1. w \notin Guessing(r, k)' BY <2>5 DEF Guessing
      <4>2. \A v \in Threads : v # w => (v \in Guessing(r, k)' <=> v \in Guessing(r, k))
        BY <2>2 DEF Guessing
      <4>3. Guessing(r, k) \subseteq Threads /\ Guessing(r, k)' \subseteq Threads
        BY DEF Guessing
      <4> QED BY <4>1, <4>2, <4>3
    <3>2. Cardinality(Guessing(r, k)') <= Cardinality(Guessing(r, k))
      BY <3>1, GuessingFinite, FS_Subset
    <3>3. CASE r = login[w].r /\ k = key_of(login[w])
      <4>1. w \in Guessing(r, k) BY <2>5, <3>3 DEF Guessing
      <4>2. Cardinality(Guessing(r, k)') = Cardinality(Guessing(r, k)) - 1
        BY <3>1, <4>1, GuessingFinite, FS_RemoveElement
      <4>3. Len(failures'[r][k]) \in Nat /\ Len(failures'[r][k]) <= Len(failures[r][k]) + 1
        <5>1. failures'[r][k] \in {Append(failures[r][k], 0), <<>>}
          BY <1>0, <2>5, <3>3 DEF record_failure, clear_failures
        <5> QED BY <1>2, <5>1 DEF FailureType
      <4> QED BY <1>0, <1>2, <4>2, <4>3, GuessingFinite
    <3>4. CASE ~(r = login[w].r /\ k = key_of(login[w]))
      <4>1. failures'[r][k] = failures[r][k]
        BY <1>0, <2>5, <3>4 DEF record_failure, clear_failures
      <4> QED BY <1>0, <1>2, <3>2, <4>1, GuessingFinite
    <3> QED BY <3>3, <3>4
  <2> QED BY <2>1, <2>3, <2>4, <2>5, ThreadThrottle
<1>4. CASE UNCHANGED <<failures, login>>
  <2>1. Guessing(r, k)' = Guessing(r, k) BY <1>4 DEF Guessing
  <2> QED BY <1>2, <1>4, <2>1
<1>5. CASE AuthTick
  <2>1. Guessing(r, k)' = Guessing(r, k) BY <1>5 DEF AuthTick, Guessing
  <2>2. Len(failures'[r][k]) = Len(failures[r][k])
    <3>1. failures'[r][k] = [i \in DOMAIN failures[r][k] |->
                                older_age(failures[r][k][i], login_window)]
      BY <1>5 DEF AuthTick
    <3> QED BY <1>2, <3>1, FailuresAge
  <2> QED BY <1>2, <2>1, <2>2
<1> QED BY <1>3, <1>4, <1>5, AuthSteps DEF logout, require_admin

LEMMA AuthInvInit ==
    ASSUME AuthInit
    PROVE  AuthInv
<1>1. AuthTypeOK /\ HistoryOK BY AuthTypeInit
<1>2. Unmade /\ Issued /\ Known /\ guesses = failures
  BY LimitsNat DEF AuthInit, Unmade, Issued, Known, NoLogin
<1>3. Throttled
  <2>1. SUFFICES ASSUME NEW r \in Threads, NEW k \in LoginKeys
                 PROVE  Len(failures[r][k]) + Cardinality(Guessing(r, k))
                          <= login_limit - 1 + Cardinality(Threads)
    BY DEF Throttled
  <2>2. Len(failures[r][k]) = 0 BY DEF AuthInit
  <2> QED BY <2>2, GuessingFinite, AuthAssumption
<1> QED BY <1>1, <1>2, <1>3 DEF AuthInv

LEMMA AuthInvStep ==
    ASSUME AuthInv, [AuthNext]_authVars
    PROVE  AuthInv'
<1>1. CASE AuthNext
  <2>1. AuthTypeOK' /\ HistoryOK' BY <1>1, AuthTypeStep DEF AuthInv
  <2>2. Unmade' BY <1>1, UnmadeStep DEF AuthInv
  <2>3. Issued' BY <1>1, IssuedStep DEF AuthInv
  <2>4. Known' BY <1>1, KnownStep DEF AuthInv
  <2>5. (guesses = failures)' BY <1>1, FailuresStep DEF AuthInv
  <2>6. Throttled' BY <1>1, ThrottledStep DEF AuthInv
  <2> QED BY <2>1, <2>2, <2>3, <2>4, <2>5, <2>6 DEF AuthInv
<1>2. CASE UNCHANGED authVars
  BY <1>2 DEF authVars, AuthInv, AuthTypeOK, HistoryOK, Unmade, Issued, Known, Throttled,
              Guessing, Answering, key_of
<1> QED BY <1>1, <1>2

(* The login throttle holds against parallel requests: whatever the threads  *)
(* do between login_allowed and record_failure, a source gives at most       *)
(* limit - 1 + number of threads wrong answers to one factor between right   *)
(* ones.                                                                     *)
THEOREM GuessesAreBounded == AuthSpec => []GuessesBounded
<1>1. AuthInv => GuessesBounded
  <2> SUFFICES ASSUME AuthInv, NEW r \in Threads, NEW k \in LoginKeys
               PROVE  Len(guesses[r][k]) <= login_limit - 1 + Cardinality(Threads)
    BY DEF GuessesBounded
  <2>1. Len(failures[r][k]) + Cardinality(Guessing(r, k))
            <= login_limit - 1 + Cardinality(Threads)
        /\ guesses = failures
    BY DEF AuthInv, Throttled
  <2>2. Len(failures[r][k]) \in Nat BY DEF AuthInv, AuthTypeOK
  <2> QED BY <2>1, <2>2, GuessingFinite, AuthAssumption
<1> QED BY <1>1, AuthInvInit, AuthInvStep, PTL DEF AuthSpec

(* A cookie is accepted only for a session that was used less than a         *)
(* lifetime ago, is at most four lifetimes old and was never logged out,     *)
(* also when threads that saw no registry replace it one after the other.    *)
THEOREM AcceptedSessionsLive == AuthSpec => AcceptedSessionLive
<1> DEFINE Live == \A t \in Tokens : accepted' = <<t>> =>
                        /\ ~history[t].revoked
                        /\ history[t].age <= absolute_lifetime
                        /\ history[t].idle < session_lifetime
<1>1. AuthInv /\ [AuthNext]_authVars => [Live]_authVars
  <2> SUFFICES ASSUME AuthInv, AuthNext, NEW t \in Tokens, accepted' = <<t>>
               PROVE  /\ ~history[t].revoked
                      /\ history[t].age <= absolute_lifetime
                      /\ history[t].idle < session_lifetime
    OBVIOUS
  <2>0. NoToken # <<t>> BY DEF NoToken
  <2>1. CASE \E w \in Threads : ThreadStep(w)
    BY <2>0, <2>1, ThreadSessions DEF login_create
  <2>2. CASE \E u \in Tokens : logout(u)
    BY <2>0, <2>2 DEF logout
  <2>3. CASE AuthTick
    BY <2>0, <2>3 DEF AuthTick
  <2>4. CASE \E u \in Tokens, csrf, totp \in BOOLEAN : require_admin(u, csrf, totp)
    <3>1. PICK u \in Tokens : registry # NoRegistry /\ get(registry, u)
      BY <2>4 DEF require_admin
    <3>2. _prune(sessions[registry])[u] # NoSession /\ u = t
      BY <2>0, <3>1 DEF get
    <3>3. registry \in Threads BY <3>1 DEF AuthInv, AuthTypeOK, Registry
    <3>4. sessions[registry][t] \in SessionType
      BY <3>3 DEF AuthInv, AuthTypeOK, SessionType
    <3>5. /\ ~(sessions[registry][t].idle >= session_lifetime)
          /\ ~(sessions[registry][t].age > absolute_lifetime)
          /\ sessions[registry][t] # NoSession
      BY <3>2 DEF _prune
    <3>6. /\ sessions[registry][t].age <= absolute_lifetime
          /\ sessions[registry][t].idle < session_lifetime
      BY <3>4, <3>5, LimitsNat DEF SessionType, Ages
    <3>7. /\ sessions[registry][t].age = history[t].age
          /\ sessions[registry][t].idle = history[t].idle
          /\ ~history[t].revoked
      BY <3>1, <3>5 DEF AuthInv, Known
    <3> QED BY <3>6, <3>7
  <2> QED BY <2>1, <2>2, <2>3, <2>4, AuthSteps
<1>2. AcceptedSessionLive <=> [][Live]_authVars
  BY PTL DEF AcceptedSessionLive
<1> QED BY <1>1, <1>2, AuthInvInit, AuthInvStep, PTL DEF AuthSpec

-----------------------------------------------------------------------------
(* Accounts *)

\* The operations, and what a process holds while it carries one out.
Op == UNION {Changes(u) : u \in Users}
Deletion == [at : {"list"}, g : UserGroups, left : SUBSET UserGroups, start : Nat,
             alone : BOOLEAN]
Clearing == [at : {"members"}, g : UserGroups, left : SUBSET UserGroups, start : Nat,
             alone : BOOLEAN, todo : UNION {[D -> SUBSET UserGroups] : D \in SUBSET Users}]
Rewrite == [at : {"write"}, op : Op, read : [Users -> Line \cup {Absent}],
            then : {NoJob} \cup Clearing]

AccTypes ==
    /\ store \in [Files -> [Users -> Line \cup {Absent}]]
    /\ truth \in [Files -> [Users -> Saying \cup {Absent}]]
    /\ rewrite_lock \in [Files -> AccountWorkers \cup {Absent}]
    /\ job \in [Processes -> {NoJob, Failed} \cup Deletion \cup Clearing \cup Rewrite]
    /\ group_files \subseteq UserGroups /\ policies \subseteq UserGroups
    /\ default_select_group \in UserGroups \cup {Absent}
    /\ ops \in Nat /\ contended \in BOOLEAN

\* A lock is held exactly by the panel thread whose rewrite takes it.
LocksHeld ==
    /\ \A f \in Files : rewrite_lock[f] # Absent => rewriting(rewrite_lock[f], f)
    /\ \A w \in Processes, f \in Files :
            rewriting(w, f) /\ locks(w, job[w].op) => rewrite_lock[f] = w

\* Without an overlap there is one rewrite of a file at a time, of the file as it is.
OneRewrite ==
    ~contended => \A w \in Processes, f \in Files : rewriting(w, f) =>
        /\ job[w].read = store[f]
        /\ \A v \in Processes : rewriting(v, f) => v = w

\* The deletion of a group a process is busy with.
deletion(w) == IF job[w].at = "write" THEN job[w].then ELSE job[w]

\* Some field of the line that is read lists the group; the same, of a user.
listed(line, g) == \E i \in DOMAIN line : g \in line[i].groups /\ line[i].groups \notin LongLists
Listed(u, g) == store["passwd"][u] # Absent /\ listed(store["passwd"][u], g)

\* A deletion that is still alone: nobody else is busy, the group is left only with
\* the members it has not come to, and it comes to each of them without the group.
Alone(w) == deletion(w).at \in {"list", "members"} /\ deletion(w).alone
            /\ deletion(w).start = ops
Undisturbed(w) ==
    /\ \A v \in Processes : v # w => job[v] = NoJob
    /\ deletion(w).g \notin group_files \cup deletion(w).left
    /\ job[w].at = "write" =>
         /\ job[w].op.file = "passwd" /\ job[w].op.what = "groups"
         /\ deletion(w).g \notin job[w].op.groups
         /\ job[w].read = store["passwd"]
    /\ deletion(w).at = "members" =>
         /\ \A u \in DOMAIN deletion(w).todo : deletion(w).g \notin deletion(w).todo[u]
         /\ \A u \in Users : Listed(u, deletion(w).g) =>
                u \in DOMAIN deletion(w).todo \/ (job[w].at = "write" /\ job[w].op.user = u)
DeletionOK(w) == /\ deletion(w).at \in {"list", "members"} => deletion(w).start <= ops
                 /\ Alone(w) => Undisturbed(w)
DeletionsOK == \A w \in Processes : DeletionOK(w)

\* A file holds what was saved last.
stored(c) == [file |-> IF c = NoSettings THEN Absent ELSE render_user_config(c), saved |-> c]
SettingsSaved == user_config \in [Users -> {stored(c) : c \in UserSettings}]

AccInv == AccTypes /\ LocksHeld /\ OneRewrite /\ AccountsKept /\ DeletionsOK /\ SettingsSaved

LEMMA PairConcat ==
    ASSUME NEW a, NEW b
    PROVE  <<a>> \o <<b>> = <<a, b>>
<1> DEFINE S == {a, b}
           c == <<a>> \o <<b>>
<1>1. <<a>> \in Seq(S) /\ <<b>> \in Seq(S) /\ Len(<<a>>) = 1 /\ Len(<<b>>) = 1
  OBVIOUS
<1>2. c \in Seq(S) /\ Len(c) = 2 /\ c[1] = a /\ c[2] = b
  BY <1>1
<1> HIDE DEF c
<1>3. c = <<a, b>>
  BY <1>2
<1> QED BY <1>3 DEF c

LEMMA OpCases ==
    ASSUME NEW op \in Op
    PROVE  /\ op.file \in Files /\ op.user \in Users
           /\ op.what \in {"groups", "delete", "lock", "unlock", "password", "otp_on", "otp_off"}
           /\ op.what = "groups" => op.groups \in SUBSET UserGroups
           /\ op.what \in {"password", "otp_on"} => op.hash \in Passwords
BY DEF Op, Changes, set_user_groups, delete_user, lock_user, change_password, set_otp,
       disable_otp, Files

\* The groups the panel reads from a group field.
read_groups(gs) == IF gs \in LongLists THEN {} ELSE gs

(* What a line of one field says, and one of two.                            *)
LEMMA OneField ==
    ASSUME NEW h \in HashField
    PROVE  /\ <<h>> \in Line /\ <<h>> # Absent /\ Len(<<h>>) = 1
           /\ view(<<h>>) = Says(h.hash, h.bang, {})
<1>1. <<h>> \in Line /\ <<h>> # Absent BY AbsentAssumption DEF Line
<1>2. Len(<<h>>) = 1 /\ <<h>>[1] = h /\ DOMAIN <<h>> = {1} OBVIOUS
<1>3. (\E i \in DOMAIN <<h>> : <<h>>[i].bang) = h.bang
  BY <1>2 DEF HashField
<1>4. parse_passwd_record(<<h>>).disabled = (\E i \in DOMAIN <<h>> : <<h>>[i].bang)
  BY DEF parse_passwd_record
<1>5. parse_passwd_record(<<h>>).groups = {}
  BY <1>2 DEF parse_passwd_record
<1> QED BY <1>1, <1>2, <1>3, <1>4, <1>5 DEF view

LEMMA TwoFields ==
    ASSUME NEW h \in HashField, NEW gs \in SUBSET UserGroups
    PROVE  /\ <<Group(gs), h>> \in Line /\ <<Group(gs), h>> # Absent
           /\ Len(<<Group(gs), h>>) = 2
           /\ view(<<Group(gs), h>>) = Says(h.hash, h.bang, read_groups(gs))
           /\ parse_passwd_record(<<Group(gs), h>>).groups = read_groups(gs)
<1> DEFINE line == <<Group(gs), h>>
<1>1. line \in Line /\ line # Absent BY AbsentAssumption DEF Line
<1>2. Len(line) = 2 /\ line[1] = Group(gs) /\ line[2] = h /\ DOMAIN line = {1, 2} OBVIOUS
<1>3. ~Group(gs).bang /\ Group(gs).hash = Absent /\ Group(gs).groups = gs BY DEF Group
<1>4. looks_like_password_hash(h)
  BY AccountsAssumption DEF looks_like_password_hash, HashField
<1>5. looks_like_password_hash(Group(gs)) <=> gs \in LongLists
  BY <1>3 DEF looks_like_password_hash
<1> HIDE DEF line
<1>6. (\E i \in DOMAIN line : line[i].bang) = h.bang
  BY <1>2, <1>3 DEF HashField
<1>7. parse_passwd_record(line).disabled = (\E i \in DOMAIN line : line[i].bang)
  BY DEF parse_passwd_record
<1>8. parse_passwd_record(line).groups = read_groups(gs)
  BY <1>2, <1>3, <1>4, <1>5 DEF parse_passwd_record, read_groups
<1>9. view(line) = Says(h.hash, h.bang, read_groups(gs))
  BY <1>1, <1>2, <1>6, <1>7, <1>8 DEF view
<1> QED BY <1>1, <1>2, <1>8, <1>9 DEF line

(* The effect of an operation on a line is the one on what the line says:    *)
(* editing the groups keeps the hash and the lock, a lock keeps hash and     *)
(* groups, a new password keeps the groups.                                  *)
LEMMA ChangeMeans ==
    ASSUME NEW op \in Op, NEW line \in Line \cup {Absent}, NEW t \in Saying \cup {Absent}
    PROVE  /\ changed(line, op) \in Line \cup {Absent}
           /\ meant(t, op) \in Saying \cup {Absent}
           /\ view(line) = readable(t) => view(changed(line, op)) = readable(meant(t, op))
<1> USE OpCases
<1>0. Absent \notin Line /\ Absent \notin Saying BY AbsentAssumption
<1>1. ASSUME t # Absent
      PROVE  /\ t \in Saying
             /\ readable(t) = Says(t.hash, t.locked, read_groups(t.groups))
  BY <1>1 DEF readable, Saying, Says, read_groups
<1>2. readable(Absent) = Absent /\ view(Absent) = Absent BY DEF readable, view
<1>3. (line = Absent) <=> (view(line) = Absent)
  <2>1. ASSUME NEW h, NEW l, NEW gs, h \in Passwords, l \in BOOLEAN, gs \subseteq UserGroups
        PROVE  Says(h, l, gs) # Absent
    BY <1>0, <2>1 DEF Says, Saying
  <2>2. ASSUME line # Absent PROVE view(line) # Absent
    <3>1. CASE \E h \in HashField : line = <<h>>
      <4>1. PICK h \in HashField : line = <<h>> BY <3>1
      <4>2. h.hash \in Passwords /\ h.bang \in BOOLEAN BY DEF HashField
      <4> QED BY <4>1, <4>2, <2>1, OneField
    <3>2. CASE \E gs \in SUBSET UserGroups, h \in HashField : line = <<Group(gs), h>>
      <4>1. PICK gs \in SUBSET UserGroups, h \in HashField : line = <<Group(gs), h>> BY <3>2
      <4>2. h.hash \in Passwords /\ h.bang \in BOOLEAN /\ read_groups(gs) \subseteq UserGroups
        BY DEF HashField, read_groups
      <4> QED BY <4>1, <4>2, <2>1, TwoFields
    <3> QED BY <2>2, <3>1, <3>2 DEF Line
  <2> QED BY <1>2, <2>2
<1>4. (t = Absent) <=> (readable(t) = Absent)
  <2>1. ASSUME t # Absent PROVE readable(t) # Absent
    <3>1. readable(t) \in Saying BY <1>1, <2>1 DEF Saying, Says, read_groups
    <3> QED BY <1>0, <3>1
  <2> QED BY <1>2, <2>1
<1>5. ASSUME NEW p \in Passwords
      PROVE  /\ Hash(p) \in HashField /\ Hash(p).hash = p /\ Hash(p).bang = FALSE
             /\ Says(p, FALSE, {}) \in Saying
             /\ readable(Says(p, FALSE, {})) = Says(p, FALSE, {})
  <2>0. Says(p, FALSE, {}) \in Saying /\ Says(p, FALSE, {}).groups = {}
    BY DEF Says, Saying
  <2>1. \A x \in Saying : x.groups = {} => [x EXCEPT !.groups = {}] = x
    BY DEF Saying
  <2>2. readable(Says(p, FALSE, {})) = Says(p, FALSE, {})
    BY <2>0, <2>1 DEF readable
  <2> QED BY <2>0, <2>2 DEF Hash, HashField
<1>6. CASE op.what \in {"delete", "otp_off"}
  BY <1>2, <1>6 DEF changed, meant
<1>7. CASE op.what = "otp_on"
  <2>1. changed(line, op) = <<Hash(op.hash)>> /\ meant(t, op) = Says(op.hash, FALSE, {})
    BY <1>7 DEF changed, meant
  <2> QED BY <1>5, <1>7, <2>1, OneField
<1>8. CASE op.what = "password" /\ line = Absent
  <2>1. changed(line, op) = <<Group({}), Hash(op.hash)>>
    BY <1>8 DEF changed, ocpasswd
  <2>2. read_groups({}) = {} BY DEF read_groups
  <2>3. op.hash \in Passwords BY <1>8
  <2>4. view(changed(line, op)) = Says(op.hash, FALSE, {}) /\ changed(line, op) \in Line
    <3>1. Hash(op.hash) \in HashField /\ Hash(op.hash).hash = op.hash
          /\ Hash(op.hash).bang = FALSE
      BY <1>5, <2>3
    <3>2. {} \in SUBSET UserGroups OBVIOUS
    <3> QED BY <2>1, <2>2, <3>1, <3>2, TwoFields
  <2>5. t = Absent => meant(t, op) = Says(op.hash, FALSE, {}) BY <1>8 DEF meant
  <2>6. t # Absent => meant(t, op) \in Saying
    BY <1>8, <2>3 DEF meant, Saying
  <2> QED BY <1>2, <1>4, <1>5, <1>8, <2>3, <2>4, <2>5, <2>6
<1>9. CASE op.what \in {"groups", "lock", "unlock"} /\ line = Absent
  <2>1. changed(line, op) = Absent BY <1>9 DEF changed, ocpasswd
  <2>2. t = Absent => meant(t, op) = Absent BY <1>9 DEF meant
  <2>3. t # Absent => meant(t, op) \in Saying BY <1>9 DEF meant, Saying
  <2> QED BY <1>2, <1>4, <1>9, <2>1, <2>2, <2>3
<1>10. CASE op.what \in {"groups", "lock", "unlock", "password"} /\ line # Absent
  \* What is left of t, when the line says the same.
  <2>1. ASSUME NEW h \in HashField, NEW gs \in SUBSET UserGroups,
               \/ line = <<h>> /\ gs = {}
               \/ line = <<Group(gs), h>>
        PROVE  /\ view(line) = Says(h.hash, h.bang, read_groups(gs))
               /\ Len(line) \in {1, 2} /\ line[Len(line)] = h
               /\ line = <<h>> => Len(line) = 1 /\ gs = {}
               /\ line = <<Group(gs), h>> => Len(line) = 2
    <3>1. read_groups({}) = {} BY DEF read_groups
    <3>2. CASE line = <<h>> /\ gs = {} BY <3>1, <3>2, OneField
    <3>3. CASE line = <<Group(gs), h>> BY <3>3, TwoFields
    <3> QED BY <2>1, <3>2, <3>3
  <2>2. \E h \in HashField : \E gs \in SUBSET UserGroups :
            (line = <<h>> /\ gs = {}) \/ line = <<Group(gs), h>>
    <3>1. CASE \E h \in HashField : line = <<h>> BY <3>1
    <3>2. CASE \E gs \in SUBSET UserGroups, h \in HashField : line = <<Group(gs), h>> BY <3>2
    <3> QED BY <1>10, <3>1, <3>2 DEF Line
  <2>3. PICK h \in HashField : \E gs \in SUBSET UserGroups :
            (line = <<h>> /\ gs = {}) \/ line = <<Group(gs), h>>
    BY <2>2
  <2>4. PICK gs \in SUBSET UserGroups : (line = <<h>> /\ gs = {}) \/ line = <<Group(gs), h>>
    BY <2>3
  <2>5. /\ view(line) = Says(h.hash, h.bang, read_groups(gs))
        /\ Len(line) \in {1, 2} /\ line[Len(line)] = h
        /\ h.hash \in Passwords /\ h.bang \in BOOLEAN /\ h.groups = {}
    BY <2>1, <2>4 DEF HashField
  \* What t is, when the line says the same.
  <2>6. ASSUME view(line) = readable(t)
        PROVE  /\ t \in Saying /\ t.hash = h.hash /\ t.locked = h.bang
               /\ read_groups(t.groups) = read_groups(gs)
    <3>1. t # Absent BY <1>3, <1>4, <1>10, <2>6
    <3>2. Says(h.hash, h.bang, read_groups(gs)) = Says(t.hash, t.locked, read_groups(t.groups))
      BY <1>1, <2>5, <2>6, <3>1
    <3> QED BY <1>1, <3>1, <3>2 DEF Says
  \* The new line has the fields k and hs, and t becomes n: then they say the same.
  <2>7. ASSUME NEW k \in HashField, NEW hs \in SUBSET UserGroups, NEW n \in Saying,
               (changed(line, op) = <<k>> /\ hs = {}) \/ changed(line, op) = <<Group(hs), k>>,
               n.hash = k.hash, n.locked = k.bang, read_groups(n.groups) = read_groups(hs)
        PROVE  changed(line, op) \in Line /\ view(changed(line, op)) = readable(n)
    <3>1. read_groups({}) = {} BY DEF read_groups
    <3>2. view(changed(line, op)) = Says(k.hash, k.bang, read_groups(hs))
          /\ changed(line, op) \in Line
      BY <2>7, <3>1, OneField, TwoFields
    <3>3. readable(n) = Says(n.hash, n.locked, read_groups(n.groups))
      BY <1>0 DEF readable, Saying, Says, read_groups
    <3> QED BY <2>7, <3>2, <3>3
  <2>8. t # Absent => meant(t, op) \in Saying
    BY <1>10 DEF meant, Saying
  <2>9. t = Absent => meant(t, op) \in Saying \cup {Absent}
    <3>1. CASE op.what = "password" BY <1>5, <3>1 DEF meant
    <3>2. CASE op.what # "password" BY <1>10, <3>2 DEF meant
    <3> QED BY <3>1, <3>2
  <2>10. CASE op.what = "groups"
    <3>1. changed(line, op) = render_passwd_record(line, op.groups)
      BY <1>10, <2>10 DEF changed
    <3>2. \/ changed(line, op) = <<h>> /\ op.groups = {}
          \/ changed(line, op) = <<Group(op.groups), h>>
      <4>1. CASE line = <<h>>
        <5>1. Len(line) = 1 BY <4>1
        <5>2. <<Group(op.groups)>> \o <<h>> = <<Group(op.groups), h>> BY PairConcat
        <5> QED BY <3>1, <4>1, <5>1, <5>2 DEF render_passwd_record
      <4>2. CASE line = <<Group(gs), h>>
        <5>1. Len(line) = 2 BY <4>2
        <5>2. Tail(line) = <<h>> BY <4>2
        <5>3. <<Group(op.groups)>> \o <<h>> = <<Group(op.groups), h>> BY PairConcat
        <5>4. changed(line, op) = IF op.groups = {} THEN Tail(line)
                                  ELSE <<Group(op.groups)>> \o Tail(line)
          BY <3>1, <5>1 DEF render_passwd_record
        <5> QED BY <5>2, <5>3, <5>4
      <4> QED BY <2>4, <4>1, <4>2
    <3>3. changed(line, op) \in Line
      BY <2>10, <3>2, OneField, TwoFields
    <3>4. ASSUME view(line) = readable(t)
          PROVE  view(changed(line, op)) = readable(meant(t, op))
      <4>1. meant(t, op) = [t EXCEPT !.groups = op.groups]
        BY <2>6, <2>10, <3>4, <1>0 DEF meant
      <4>2. /\ meant(t, op) \in Saying /\ meant(t, op).hash = h.hash
            /\ meant(t, op).locked = h.bang /\ meant(t, op).groups = op.groups
        BY <2>6, <2>10, <3>4, <4>1 DEF Saying
      <4> HIDE DEF meant, changed
      <4> QED BY <2>7, <2>10, <3>2, <4>2
    <3> QED BY <2>8, <2>9, <3>3, <3>4
  <2>11. CASE op.what \in {"lock", "unlock"}
    <3> DEFINE k == [h EXCEPT !.bang = (op.what = "lock")]
    <3>1. k \in HashField /\ k.hash = h.hash /\ k.bang = (op.what = "lock")
      BY DEF HashField
    <3>2. changed(line, op) = [line EXCEPT ![Len(line)].bang = (op.what = "lock")]
      BY <1>10, <2>11 DEF changed, ocpasswd
    <3>3. (changed(line, op) = <<k>> /\ gs = {}) \/ changed(line, op) = <<Group(gs), k>>
      <4>1. CASE line = <<h>> /\ gs = {}
        BY <3>2, <4>1
      <4>2. CASE line = <<Group(gs), h>>
        BY <3>2, <4>2
      <4> QED BY <2>4, <4>1, <4>2
    <3> HIDE DEF k
    <3>4. changed(line, op) \in Line
      BY <3>1, <3>3, OneField, TwoFields
    <3>5. ASSUME view(line) = readable(t)
          PROVE  view(changed(line, op)) = readable(meant(t, op))
      <4>1. meant(t, op) = [t EXCEPT !.locked = (op.what = "lock")]
        BY <2>6, <2>11, <3>5, <1>0 DEF meant
      <4>2. /\ meant(t, op) \in Saying /\ meant(t, op).hash = h.hash
            /\ meant(t, op).locked = (op.what = "lock") /\ meant(t, op).groups = t.groups
        BY <2>6, <3>5, <4>1 DEF Saying
      <4> QED BY <2>6, <2>7, <3>1, <3>3, <3>5, <4>2
    <3> QED BY <2>8, <2>9, <3>4, <3>5
  <2>12. CASE op.what = "password"
    <3>1. op.hash \in Passwords BY <2>12
    <3>2. Hash(op.hash) \in HashField /\ Hash(op.hash).hash = op.hash
          /\ Hash(op.hash).bang = FALSE
      BY <1>5, <3>1
    <3>3. changed(line, op) = [line EXCEPT ![Len(line)] = Hash(op.hash)]
      BY <1>10, <2>12 DEF changed, ocpasswd
    <3>4. \/ changed(line, op) = <<Hash(op.hash)>> /\ gs = {}
          \/ changed(line, op) = <<Group(gs), Hash(op.hash)>>
      <4>1. CASE line = <<h>> /\ gs = {}
        BY <3>3, <4>1
      <4>2. CASE line = <<Group(gs), h>>
        BY <3>3, <4>2
      <4> QED BY <2>4, <4>1, <4>2
    <3>5. changed(line, op) \in Line
      BY <3>2, <3>4, OneField, TwoFields
    <3>6. ASSUME view(line) = readable(t)
          PROVE  view(changed(line, op)) = readable(meant(t, op))
      <4>1. meant(t, op) = [t EXCEPT !.hash = op.hash, !.locked = FALSE]
        BY <2>6, <2>12, <3>6, <1>0 DEF meant
      <4>2. /\ meant(t, op) \in Saying /\ meant(t, op).hash = op.hash
            /\ meant(t, op).locked = FALSE /\ meant(t, op).groups = t.groups
        BY <2>6, <3>1, <3>6, <4>1 DEF Saying
      <4> QED BY <2>6, <2>7, <3>2, <3>4, <3>6, <4>2
    <3> QED BY <2>8, <2>9, <3>5, <3>6
  <2> QED BY <1>10, <2>10, <2>11, <2>12
<1> QED BY <1>6, <1>7, <1>8, <1>9, <1>10

\* What a process does to the accounts: begin a rewrite, end one, or neither.
Begins(w) == \E op \in Op, then \in {NoJob} \cup Clearing :
                job[w].at # "write" /\ read_lines(w, op, then)
Moves(w) == /\ UNCHANGED <<store, rewrite_lock, truth, contended>>
            /\ job[w].at # "write"
            /\ \E j \in {NoJob, Failed} \cup Deletion \cup Clearing : job' = [job EXCEPT ![w] = j]

LEMMA JobAt ==
    ASSUME AccTypes, NEW w \in Processes
    PROVE  /\ job[w] \in {NoJob, Failed} \cup Deletion \cup Clearing \cup Rewrite
           /\ job[w].at \in {"idle", "failed", "list", "members", "write"}
           /\ job[w].at = "idle" => job[w] = NoJob
           /\ job[w].at = "list" => job[w] \in Deletion
           /\ job[w].at = "members" => job[w] \in Clearing
           /\ job[w].at = "write" => job[w] \in Rewrite
BY DEF AccTypes, NoJob, Failed, Deletion, Clearing, Rewrite

LEMMA StartBegins ==
    ASSUME AccTypes, NEW w \in Processes, start_change(w)
    PROVE  /\ \E op \in Op : read_lines(w, op, NoJob)
           /\ Begins(w) /\ job[w] = NoJob
           /\ ops' = ops + 1 /\ UNCHANGED <<user_config, group_files, groupConfig>>
<1>1. PICK op \in Op : read_lines(w, op, NoJob) BY DEF start_change, Op
<1>2. job[w] = NoJob /\ job[w].at # "write" BY DEF start_change, NoJob
<1> QED BY <1>1, <1>2 DEF start_change, Begins

LEMMA DeleteMoves ==
    ASSUME AccTypes, NEW w \in AccountWorkers, NEW g \in UserGroups, delete_group(w, g)
    PROVE  /\ Moves(w) /\ ops' = ops + 1 /\ group_files' = group_files \ {g}
           /\ UNCHANGED <<user_config, groupConfig>>
<1> DEFINE j == [at |-> "list", g |-> g, left |-> policies \ {g}, start |-> ops',
                 alone |-> \A v \in Processes : job[v] = NoJob]
<1>1. job[w] = NoJob /\ job[w].at # "write" BY DEF delete_group, NoJob
<1>2. j \in Deletion
  <2>1. (\A v \in Processes : job[v] = NoJob) \in BOOLEAN OBVIOUS
  <2>2. ops' \in Nat BY DEF delete_group, AccTypes
  <2>3. policies \ {g} \in SUBSET UserGroups BY DEF AccTypes
  <2> QED BY <2>1, <2>2, <2>3 DEF Deletion
<1>3. job' = [job EXCEPT ![w] = j] BY DEF delete_group
<1> HIDE DEF j
<1> QED BY <1>1, <1>2, <1>3 DEF delete_group, Moves

LEMMA ListMoves ==
    ASSUME AccTypes, NEW w \in AccountWorkers, list_members(w)
    PROVE  Moves(w) /\ UNCHANGED <<ops, user_config, group_files, groupConfig>>
<1>1. job[w] \in Deletion /\ job[w].at = "list" BY JobAt DEF list_members, Processes
<1> DEFINE d == job[w]
           todo == [u \in members(d.g) |-> parse_passwd_record(store["passwd"][u]).groups \ {d.g}]
           j == [at |-> "members", g |-> d.g, left |-> d.left, start |-> d.start,
                 alone |-> d.alone, todo |-> todo]
<1>2. todo \in UNION {[D -> SUBSET UserGroups] : D \in SUBSET Users}
  <2>1. members(d.g) \in SUBSET Users BY DEF members
  <2>2. ASSUME NEW u \in members(d.g)
        PROVE  parse_passwd_record(store["passwd"][u]).groups \subseteq UserGroups
    <3>1. store["passwd"][u] \in Line BY <2>1, <2>2 DEF AccTypes, Files, members
    <3>2. CASE \E h \in HashField : store["passwd"][u] = <<h>>
      BY <3>2 DEF parse_passwd_record
    <3>3. CASE \E gs \in SUBSET UserGroups, h \in HashField : store["passwd"][u] = <<Group(gs), h>>
      <4>1. PICK gs \in SUBSET UserGroups, h \in HashField : store["passwd"][u] = <<Group(gs), h>>
        BY <3>3
      <4> QED BY <4>1, TwoFields DEF read_groups
    <3> QED BY <3>1, <3>2, <3>3 DEF Line
  <2>3. \A u \in members(d.g) :
            parse_passwd_record(store["passwd"][u]).groups \ {d.g} \in SUBSET UserGroups
    BY <2>2
  <2> DEFINE D == members(d.g)
             val(u) == parse_passwd_record(store["passwd"][u]).groups \ {d.g}
  <2>4. D \in SUBSET Users /\ \A u \in D : val(u) \in SUBSET UserGroups BY <2>1, <2>3
  <2>5. todo = [u \in D |-> val(u)] OBVIOUS
  <2> HIDE DEF D, val, todo
  <2>6. todo \in [D -> SUBSET UserGroups] BY <2>4, <2>5
  <2> QED BY <2>4, <2>6
<1>3. job' = [job EXCEPT ![w] = j] BY DEF list_members
<1> HIDE DEF todo
<1>4. j \in Clearing BY <1>1, <1>2 DEF Deletion, Clearing
<1> HIDE DEF j
<1> QED BY <1>1, <1>3, <1>4 DEF list_members, Moves

\* What is left to clear after one member.
rest(d, u) == [d EXCEPT !.todo = [v \in DOMAIN d.todo \ {u} |-> d.todo[v]]]

LEMMA ClearBegins ==
    ASSUME AccTypes, NEW w \in AccountWorkers, clear_member(w)
    PROVE  /\ job[w] \in Clearing
           /\ \E u \in DOMAIN job[w].todo :
                /\ u \in Users /\ job[w].todo[u] \in SUBSET UserGroups
                /\ rest(job[w], u) \in Clearing
                /\ rest(job[w], u).todo = [v \in DOMAIN job[w].todo \ {u} |-> job[w].todo[v]]
                /\ read_lines(w, [file |-> "passwd", user |-> u, what |-> "groups",
                                  groups |-> job[w].todo[u]], rest(job[w], u))
           /\ Begins(w) /\ UNCHANGED <<ops, user_config, group_files, groupConfig>>
<1>1. job[w] \in Clearing /\ job[w].at = "members" BY JobAt DEF clear_member, Processes
<1> DEFINE d == job[w]
<1>2. PICK u \in DOMAIN d.todo :
        read_lines(w, [file |-> "passwd", user |-> u, what |-> "groups", groups |-> d.todo[u]],
                   rest(d, u))
  BY DEF clear_member, rest
<1> DEFINE op == [file |-> "passwd", user |-> u, what |-> "groups", groups |-> d.todo[u]]
<1>3. PICK D \in SUBSET Users : d.todo \in [D -> SUBSET UserGroups] BY <1>1 DEF Clearing
<1>4. u \in Users /\ d.todo[u] \in SUBSET UserGroups BY <1>2, <1>3
<1>5. op \in Op
  <2>1. op \in set_user_groups(u) BY <1>4 DEF set_user_groups
  <2> QED BY <1>4, <2>1 DEF Op, Changes
<1>6. [v \in DOMAIN d.todo \ {u} |-> d.todo[v]] \in [(D \ {u}) -> SUBSET UserGroups]
  BY <1>3
<1>7. rest(d, u) \in Clearing
      /\ rest(d, u).todo = [v \in DOMAIN d.todo \ {u} |-> d.todo[v]]
  <2> DEFINE T == [v \in DOMAIN d.todo \ {u} |-> d.todo[v]]
  <2>1. T \in UNION {[E -> SUBSET UserGroups] : E \in SUBSET Users}
    <3>1. D \ {u} \in SUBSET Users OBVIOUS
    <3> QED BY <1>6, <3>1
  <2>2. rest(d, u) = [d EXCEPT !.todo = T] BY DEF rest
  <2> HIDE DEF T
  <2>3. rest(d, u) \in Clearing /\ rest(d, u).todo = T BY <1>1, <2>1, <2>2 DEF Clearing
  <2> QED BY <2>3 DEF T
<1>8. Begins(w)
  <2> HIDE DEF op
  <2>1. read_lines(w, op, rest(d, u)) BY <1>2 DEF op
  <2>2. job[w].at # "write" BY <1>1
  <2> QED BY <1>5, <1>7, <2>1, <2>2 DEF Begins
<1> QED BY <1>1, <1>2, <1>4, <1>7, <1>8 DEF clear_member

LEMMA PolicyMoves ==
    ASSUME AccTypes, NEW w \in AccountWorkers, clear_policy(w)
    PROVE  /\ Moves(w) /\ job[w] \in Clearing
           /\ UNCHANGED <<ops, user_config, default_select_group>>
           /\ policies' = job[w].left /\ group_files' = group_files \cup job[w].left
<1>1. job[w] \in Clearing /\ job[w].at = "members" BY JobAt DEF clear_policy, Processes
<1> QED BY <1>1 DEF clear_policy, Moves

\* The error path of a deletion moves its process alone.
LEMMA RefusalMoves ==
    ASSUME AccTypes, NEW w \in AccountWorkers, policy_refused(w) \/ answer_error(w)
    PROVE  Moves(w) /\ UNCHANGED <<ops, user_config, group_files, groupConfig>>
<1>1. CASE policy_refused(w) BY <1>1 DEF policy_refused, Moves
<1>2. CASE answer_error(w)
  <2>1. job[w].at # "write" BY <1>2 DEF answer_error, Failed
  <2> QED BY <1>2, <2>1 DEF answer_error, Moves
<1> QED BY <1>1, <1>2

(* Every step of the accounts is of one of these kinds.                      *)
LEMMA AccKinds ==
    ASSUME AccTypes, AccNext
    PROVE  /\ \/ \E w \in Processes : Begins(w)
              \/ \E w \in Processes : write_lines(w)
              \/ \E w \in Processes : Moves(w)
              \/ UNCHANGED <<store, rewrite_lock, truth, contended, job>>
           /\ ops' \in Nat /\ group_files' \subseteq UserGroups /\ policies' \subseteq UserGroups
           /\ default_select_group' \in UserGroups \cup {Absent}
           /\ UNCHANGED user_config \/
              \E u \in Users, c \in UserSettings : save_user_config(u, c)
<1>0. AccountWorkers \subseteq Processes /\ ops \in Nat /\ group_files \subseteq UserGroups
      /\ policies \subseteq UserGroups /\ default_select_group \in UserGroups \cup {Absent}
  BY DEF Processes, AccTypes
<1>1. ASSUME NEW w \in Processes, start_change(w)
      PROVE  Begins(w) /\ ops' \in Nat /\ UNCHANGED <<user_config, group_files, groupConfig>>
  BY <1>0, <1>1, StartBegins
<1>2. CASE \E w \in Processes : panel_account(w) \/ korctl_account(w)
  BY <1>0, <1>1, <1>2 DEF panel_account, korctl_account, groupConfig
<1>3. CASE \E w \in Processes : write_lines(w)
  BY <1>0, <1>3 DEF write_lines, groupConfig
<1>4. CASE \E w \in AccountWorkers : list_members(w)
  BY <1>0, <1>4, ListMoves DEF groupConfig
<1>5. CASE \E w \in AccountWorkers : clear_member(w)
  BY <1>0, <1>5, ClearBegins DEF groupConfig
<1>6. CASE \E w \in AccountWorkers : clear_policy(w)
  <2>1. PICK w \in AccountWorkers : clear_policy(w) BY <1>6
  <2>2. job[w].left \subseteq UserGroups BY <2>1, PolicyMoves DEF Clearing
  <2> QED BY <1>0, <2>1, <2>2, PolicyMoves
<1>7. CASE \E w \in AccountWorkers, g \in UserGroups : delete_group(w, g)
  BY <1>0, <1>7, DeleteMoves DEF groupConfig
<1>8. CASE \E g \in UserGroups : save_group_config(g) \/ delete_group_config(g)
  BY <1>0, <1>8 DEF save_group_config, delete_group_config, groupConfig
<1>9. CASE \E u \in Users, c \in UserSettings : save_user_config(u, c)
  <2>1. ops' = ops + 1
        /\ UNCHANGED <<store, rewrite_lock, job, group_files, groupConfig, truth,
                       contended>>
    BY <1>9 DEF save_user_config
  <2> QED BY <1>0, <1>9, <2>1 DEF groupConfig
<1>11. CASE \E w \in AccountWorkers : policy_refused(w) \/ answer_error(w)
  BY <1>0, <1>11, RefusalMoves DEF groupConfig
<1>12. CASE \E g \in UserGroups \cup {Absent} : save_identity_settings(g)
  BY <1>0, <1>12 DEF save_identity_settings
<1>10. \/ \E w \in Processes : panel_account(w) \/ korctl_account(w)
       \/ \E w \in Processes : write_lines(w)
       \/ \E w \in AccountWorkers : list_members(w)
       \/ \E w \in AccountWorkers : clear_member(w)
       \/ \E w \in AccountWorkers : clear_policy(w)
       \/ \E w \in AccountWorkers, g \in UserGroups : delete_group(w, g)
       \/ \E g \in UserGroups : save_group_config(g) \/ delete_group_config(g)
       \/ \E u \in Users, c \in UserSettings : save_user_config(u, c)
       \/ \E w \in AccountWorkers : policy_refused(w) \/ answer_error(w)
       \/ \E g \in UserGroups \cup {Absent} : save_identity_settings(g)
  BY Zenon DEF AccNext
<1> QED BY <1>2, <1>3, <1>4, <1>5, <1>6, <1>7, <1>8, <1>9, <1>10, <1>11, <1>12

\* A rewrite that begins, as a fact about the next state.
LEMMA BeginsFacts ==
    ASSUME AccTypes, NEW w \in Processes, NEW op \in Op, NEW then \in {NoJob} \cup Clearing,
           job[w].at # "write", read_lines(w, op, then)
    PROVE  /\ op.file \in Files
           /\ job'[w] \in Rewrite /\ job'[w].at = "write" /\ job'[w].op = op
           /\ job'[w].read = store[op.file] /\ job'[w].then = then
           /\ job' \in [Processes -> {NoJob, Failed} \cup Deletion \cup Clearing \cup Rewrite]
           /\ \A v \in Processes : v # w => job'[v] = job[v]
           /\ UNCHANGED <<store, truth>>
<1> DEFINE j == [at |-> "write", op |-> op, read |-> store[op.file], then |-> then]
<1>1. op.file \in Files BY OpCases
<1>2. j \in Rewrite BY <1>1 DEF Rewrite, AccTypes
<1>3. job' = [job EXCEPT ![w] = j] /\ UNCHANGED <<store, truth>> BY DEF read_lines
<1>4. j.at = "write" /\ j.op = op /\ j.read = store[op.file] /\ j.then = then OBVIOUS
<1> HIDE DEF j
<1> QED BY <1>1, <1>2, <1>3, <1>4 DEF AccTypes

\* A rewrite that ends: the user's line is changed in the lines read.
LEMMA WritesFacts ==
    ASSUME AccTypes, NEW w \in Processes, write_lines(w)
    PROVE  /\ job[w] \in Rewrite /\ job[w].op \in Op
           /\ job[w].op.file \in Files /\ job[w].op.user \in Users
           /\ job[w].read \in [Users -> Line \cup {Absent}]
           /\ job'[w] \in {NoJob} \cup Clearing /\ job'[w] = job[w].then /\ job'[w].at # "write"
           /\ job' \in [Processes -> {NoJob, Failed} \cup Deletion \cup Clearing \cup Rewrite]
           /\ \A v \in Processes : v # w => job'[v] = job[v]
           /\ store' = [store EXCEPT ![job[w].op.file] =
                            [job[w].read EXCEPT ![job[w].op.user] =
                                changed(job[w].read[job[w].op.user], job[w].op)]]
              \/ /\ store' = store /\ job[w].read[job[w].op.user] = Absent
                 /\ changed(job[w].read[job[w].op.user], job[w].op) = Absent
           /\ truth' = [truth EXCEPT ![job[w].op.file][job[w].op.user] =
                            meant(truth[job[w].op.file][job[w].op.user], job[w].op)]
           /\ rewrite_lock' = [rewrite_lock EXCEPT ![job[w].op.file] =
                                  IF @ = w THEN Absent ELSE @]
           /\ UNCHANGED <<ops, user_config, group_files, groupConfig, contended>>
<1>1. job[w] \in Rewrite BY JobAt DEF write_lines
<1>2. /\ job[w].op \in Op /\ job[w].read \in [Users -> Line \cup {Absent}]
      /\ job[w].then \in {NoJob} \cup Clearing
  BY <1>1 DEF Rewrite
<1>3. job[w].op.file \in Files /\ job[w].op.user \in Users BY <1>2, OpCases
<1>4. job' = [job EXCEPT ![w] = job[w].then] BY DEF write_lines
<1>5. /\ job'[w] = job[w].then /\ \A v \in Processes : v # w => job'[v] = job[v]
      /\ job' \in [Processes -> {NoJob, Failed} \cup Deletion \cup Clearing \cup Rewrite]
  BY <1>2, <1>4 DEF AccTypes
<1>6. job[w].then.at # "write" BY <1>2 DEF NoJob, Clearing
<1> DEFINE u == job[w].op.user
           line == changed(job[w].read[u], job[w].op)
           lines == [job[w].read EXCEPT ![u] = changed(@, job[w].op)]
<1>7. lines = [job[w].read EXCEPT ![u] = line] /\ lines[u] = line
  BY <1>2, <1>3
<1>8. \/ store' = [store EXCEPT ![job[w].op.file] = lines]
      \/ store' = store /\ job[w].read[u] = Absent /\ lines[u] = Absent
  BY DEF write_lines
<1>9. /\ truth' = [truth EXCEPT ![job[w].op.file][u] =
                            meant(truth[job[w].op.file][u], job[w].op)]
      /\ rewrite_lock' = [rewrite_lock EXCEPT ![job[w].op.file] = IF @ = w THEN Absent ELSE @]
      /\ UNCHANGED <<ops, user_config, group_files, groupConfig, contended>>
  BY DEF write_lines
<1> QED BY <1>1, <1>2, <1>3, <1>5, <1>6, <1>7, <1>8, <1>9

LEMMA AccTypesStep ==
    ASSUME AccTypes, AccNext
    PROVE  AccTypes'
<1>0. /\ ops' \in Nat /\ group_files' \subseteq UserGroups /\ policies' \subseteq UserGroups
      /\ default_select_group' \in UserGroups \cup {Absent}
  BY AccKinds
<1>1. CASE \E w \in Processes : Begins(w)
  <2>1. PICK w \in Processes, op \in Op, then \in {NoJob} \cup Clearing :
            job[w].at # "write" /\ read_lines(w, op, then)
    BY <1>1 DEF Begins
  <2>2. /\ job' \in [Processes -> {NoJob, Failed} \cup Deletion \cup Clearing \cup Rewrite]
        /\ UNCHANGED <<store, truth>>
    BY <2>1, BeginsFacts
  <2>3. rewrite_lock' \in [Files -> AccountWorkers \cup {Absent}]
    <3>1. rewrite_lock' = [rewrite_lock EXCEPT ![op.file] = IF locks(w, op) THEN w ELSE @]
      BY <2>1 DEF read_lines
    <3>2. locks(w, op) => w \in AccountWorkers BY DEF locks
    <3> QED BY <3>1, <3>2 DEF AccTypes
  <2>4. contended' \in BOOLEAN BY <2>1 DEF read_lines
  <2> QED BY <1>0, <2>2, <2>3, <2>4 DEF AccTypes
<1>2. CASE \E w \in Processes : write_lines(w)
  <2>1. PICK w \in Processes : write_lines(w) BY <1>2
  <2> DEFINE op == job[w].op
             line == changed(job[w].read[op.user], op)
             said == meant(truth[op.file][op.user], op)
  <2>2. /\ op \in Op /\ op.file \in Files /\ op.user \in Users
        /\ job[w].read \in [Users -> Line \cup {Absent}]
        /\ job' \in [Processes -> {NoJob, Failed} \cup Deletion \cup Clearing \cup Rewrite]
        /\ store' = [store EXCEPT ![op.file] = [job[w].read EXCEPT ![op.user] = line]]
           \/ store' = store
        /\ truth' = [truth EXCEPT ![op.file][op.user] = said]
        /\ rewrite_lock' = [rewrite_lock EXCEPT ![op.file] = IF @ = w THEN Absent ELSE @]
        /\ UNCHANGED contended
    BY <2>1, WritesFacts
  <2>3. job[w].read[op.user] \in Line \cup {Absent}
        /\ truth[op.file][op.user] \in Saying \cup {Absent}
    BY <2>2 DEF AccTypes
  <2> HIDE DEF op
  <2>4. line \in Line \cup {Absent} /\ said \in Saying \cup {Absent}
    BY <2>2, <2>3, ChangeMeans
  <2> HIDE DEF line, said
  <2>5. store' \in [Files -> [Users -> Line \cup {Absent}]]
    <3>1. [job[w].read EXCEPT ![op.user] = line] \in [Users -> Line \cup {Absent}]
      BY <2>2, <2>4
    <3> QED BY <2>2, <3>1 DEF AccTypes
  <2>6. truth' \in [Files -> [Users -> Saying \cup {Absent}]] BY <2>2, <2>4 DEF AccTypes
  <2>7. rewrite_lock' \in [Files -> AccountWorkers \cup {Absent}] BY <2>2 DEF AccTypes
  <2> QED BY <1>0, <2>2, <2>5, <2>6, <2>7 DEF AccTypes
<1>3. CASE \E w \in Processes : Moves(w)
  BY <1>0, <1>3 DEF Moves, AccTypes
<1>4. CASE UNCHANGED <<store, rewrite_lock, truth, contended, job>>
  BY <1>0, <1>4 DEF AccTypes
<1> QED BY <1>1, <1>2, <1>3, <1>4, AccKinds

(* The lock of a file and the rewrite of a panel thread come and go together. *)
LEMMA LocksHeldStep ==
    ASSUME AccTypes, LocksHeld, AccNext
    PROVE  LocksHeld'
<1>0. Absent \notin Processes BY AccountsAssumption DEF Processes
<1>1. CASE \E w \in Processes : Begins(w)
  <2>1. PICK w \in Processes, op \in Op, then \in {NoJob} \cup Clearing :
            job[w].at # "write" /\ read_lines(w, op, then)
    BY <1>1 DEF Begins
  <2>2. /\ op.file \in Files /\ job'[w].at = "write" /\ job'[w].op = op
        /\ \A v \in Processes : v # w => job'[v] = job[v]
    BY <2>1, BeginsFacts
  <2>3. /\ locks(w, op) => rewrite_lock[op.file] = Absent
        /\ rewrite_lock' = [rewrite_lock EXCEPT ![op.file] = IF locks(w, op) THEN w ELSE @]
    BY <2>1 DEF read_lines
  <2>4. ASSUME NEW f \in Files, rewrite_lock'[f] # Absent
        PROVE  /\ job'[rewrite_lock'[f]].at = "write"
               /\ job'[rewrite_lock'[f]].op.file = f
    <3>1. CASE f = op.file /\ locks(w, op)
      BY <2>2, <2>3, <3>1 DEF rewriting, AccTypes
    <3>2. CASE ~(f = op.file /\ locks(w, op))
      <4>1. rewrite_lock'[f] = rewrite_lock[f] BY <2>2, <2>3, <3>2 DEF AccTypes
      <4>2. rewriting(rewrite_lock[f], f) /\ rewrite_lock[f] \in Processes
        BY <2>4, <4>1 DEF LocksHeld, AccTypes, Processes
      <4>3. rewrite_lock[f] # w BY <2>1, <4>2 DEF rewriting
      <4> QED BY <2>2, <4>1, <4>2, <4>3 DEF rewriting
    <3> QED BY <3>1, <3>2
  <2>5. ASSUME NEW v \in Processes, NEW f \in Files, rewriting(v, f)', locks(v, job'[v].op)
        PROVE  rewrite_lock'[f] = v
    <3>1. CASE v = w
      BY <2>2, <2>3, <2>5, <3>1 DEF rewriting, AccTypes
    <3>2. CASE v # w
      <4>1. rewrite_lock[f] = v BY <2>2, <2>5, <3>2 DEF rewriting, LocksHeld
      <4>2. ~(f = op.file /\ locks(w, op)) BY <1>0, <2>3, <4>1
      <4> QED BY <2>3, <4>1, <4>2 DEF AccTypes
    <3> QED BY <3>1, <3>2
  <2> QED BY <2>4, <2>5 DEF LocksHeld, locks, rewriting
<1>2. CASE \E w \in Processes : write_lines(w)
  <2>1. PICK w \in Processes : write_lines(w) BY <1>2
  <2>2. /\ job[w].op.file \in Files /\ job'[w].at # "write"
        /\ \A v \in Processes : v # w => job'[v] = job[v]
        /\ rewrite_lock' = [rewrite_lock EXCEPT ![job[w].op.file] = IF @ = w THEN Absent ELSE @]
    BY <2>1, WritesFacts
  <2>3. ASSUME NEW f \in Files, rewrite_lock'[f] # Absent
        PROVE  /\ job'[rewrite_lock'[f]].at = "write"
               /\ job'[rewrite_lock'[f]].op.file = f
    <3>1. rewrite_lock'[f] = rewrite_lock[f] BY <2>2, <2>3 DEF AccTypes
    <3>2. rewriting(rewrite_lock[f], f) /\ rewrite_lock[f] \in Processes
      BY <2>3, <3>1 DEF LocksHeld, AccTypes, Processes
    <3>3. rewrite_lock[f] # w BY <2>2, <2>3, <3>1, <3>2 DEF rewriting, AccTypes
    <3> QED BY <2>2, <3>1, <3>2, <3>3 DEF rewriting
  <2>4. ASSUME NEW v \in Processes, NEW f \in Files, rewriting(v, f)', locks(v, job'[v].op)
        PROVE  rewrite_lock'[f] = v
    <3>1. v # w BY <2>2, <2>4 DEF rewriting
    <3>2. rewrite_lock[f] = v BY <2>2, <2>4, <3>1 DEF rewriting, LocksHeld
    <3> QED BY <2>2, <3>1, <3>2 DEF AccTypes
  <2> QED BY <2>3, <2>4 DEF LocksHeld, locks, rewriting
<1>3. CASE \E w \in Processes : Moves(w)
  <2>1. PICK w \in Processes : Moves(w) BY <1>3
  <2>2. job[w].at # "write" /\ job'[w].at # "write" /\ UNCHANGED rewrite_lock
        /\ \A v \in Processes : v # w => job'[v] = job[v]
    BY <2>1 DEF Moves, AccTypes, NoJob, Failed, Deletion, Clearing
  <2>3. \A v \in Processes, f \in Files : rewriting(v, f)' <=> rewriting(v, f)
    BY <2>2 DEF rewriting
  <2>4. \A v \in Processes, f \in Files : rewriting(v, f) => job'[v] = job[v]
    BY <2>2 DEF rewriting
  <2>5. \A f \in Files : rewrite_lock[f] # Absent => rewrite_lock[f] \in Processes
    BY DEF AccTypes, Processes
  <2> QED BY <2>2, <2>3, <2>4, <2>5 DEF LocksHeld, locks
<1>4. CASE UNCHANGED <<rewrite_lock, job>>
  BY <1>4 DEF LocksHeld, rewriting, locks
<1> QED BY <1>1, <1>2, <1>3, <1>4, AccKinds

(* Two rewrites of a file overlap only where an unlocked one is among them.  *)
LEMMA OneRewriteStep ==
    ASSUME AccTypes, LocksHeld, OneRewrite, AccNext
    PROVE  OneRewrite'
<1>0. Absent \notin Processes BY AccountsAssumption DEF Processes
<1>1. CASE \E w \in Processes : Begins(w)
  <2>1. PICK w \in Processes, op \in Op, then \in {NoJob} \cup Clearing :
            job[w].at # "write" /\ read_lines(w, op, then)
    BY <1>1 DEF Begins
  <2>2. /\ op.file \in Files /\ job'[w].at = "write" /\ job'[w].op = op
        /\ job'[w].read = store[op.file] /\ UNCHANGED store
        /\ \A v \in Processes : v # w => job'[v] = job[v]
    BY <2>1, BeginsFacts
  <2>3. SUFFICES ASSUME ~contended',
                        NEW v \in Processes, NEW f \in Files, rewriting(v, f)'
                 PROVE  /\ job'[v].read = store'[f]
                        /\ \A x \in Processes : rewriting(x, f)' => x = v
    BY DEF OneRewrite
  <2>4. ~contended /\ ~\E x \in Processes :
            rewriting(x, op.file) /\ (x \notin AccountWorkers \/ w \notin AccountWorkers
                                      \/ {op.what, job[x].op.what} \cap
                                         {"password", "lock", "unlock"} # {})
    BY <2>1, <2>3 DEF read_lines
  <2>5. ASSUME NEW x \in Processes, x # w PROVE ~rewriting(x, op.file)
    <3>1. SUFFICES ASSUME rewriting(x, op.file) PROVE FALSE OBVIOUS
    <3>2. locks(x, job[x].op) /\ locks(w, op) BY <2>4, <3>1 DEF locks
    <3>3. rewrite_lock[op.file] = x BY <2>2, <3>1, <3>2 DEF LocksHeld
    <3>4. rewrite_lock[op.file] = Absent BY <2>1, <3>2 DEF read_lines
    <3> QED BY <1>0, <3>3, <3>4
  <2>6. \A x \in Processes : x # w => (rewriting(x, f)' <=> rewriting(x, f))
    BY <2>2 DEF rewriting
  <2>7. CASE f = op.file
    BY <2>2, <2>3, <2>5, <2>6, <2>7
  <2>8. CASE f # op.file
    <3>1. ~rewriting(w, f)' /\ v # w BY <2>2, <2>3, <2>8 DEF rewriting
    <3>2. rewriting(v, f) /\ job'[v] = job[v] BY <2>2, <2>3, <2>6, <3>1
    <3> QED BY <2>2, <2>4, <2>6, <3>1, <3>2 DEF OneRewrite
  <2> QED BY <2>7, <2>8
<1>2. CASE \E w \in Processes : write_lines(w)
  <2>1. PICK w \in Processes : write_lines(w) BY <1>2
  <2>2. /\ job[w].op.file \in Files /\ job'[w].at # "write" /\ UNCHANGED contended
        /\ \A v \in Processes : v # w => job'[v] = job[v]
        /\ \A f \in Files : f # job[w].op.file => store'[f] = store[f]
    <3>1. /\ job[w].op.file \in Files /\ job'[w].at # "write" /\ UNCHANGED contended
          /\ \A v \in Processes : v # w => job'[v] = job[v]
      BY <2>1, WritesFacts
    <3>2. (\E lines : store' = [store EXCEPT ![job[w].op.file] = lines]) \/ store' = store
      BY <2>1, WritesFacts
    <3> QED BY <3>1, <3>2 DEF AccTypes
  <2>3. rewriting(w, job[w].op.file) BY <2>1 DEF write_lines, rewriting
  <2>4. \A x \in Processes, f \in Files : rewriting(x, f)' => x # w /\ rewriting(x, f)
    BY <2>2 DEF rewriting
  <2>5. SUFFICES ASSUME ~contended,
                        NEW v \in Processes, NEW f \in Files, rewriting(v, f)'
                 PROVE  /\ job'[v].read = store'[f]
                        /\ \A x \in Processes : rewriting(x, f)' => x = v
    BY <2>2 DEF OneRewrite
  <2>6. v # w /\ rewriting(v, f) BY <2>4, <2>5
  <2>7. f # job[w].op.file BY <2>2, <2>3, <2>5, <2>6 DEF OneRewrite
  <2> QED BY <2>2, <2>4, <2>5, <2>6, <2>7 DEF OneRewrite
<1>3. CASE \E w \in Processes : Moves(w)
  <2>1. PICK w \in Processes : Moves(w) BY <1>3
  <2>2. job[w].at # "write" /\ job'[w].at # "write" /\ UNCHANGED <<store, contended>>
        /\ \A v \in Processes : v # w => job'[v] = job[v]
    BY <2>1 DEF Moves, AccTypes, NoJob, Failed, Deletion, Clearing
  <2>3. \A v \in Processes, f \in Files :
            /\ rewriting(v, f)' <=> rewriting(v, f)
            /\ rewriting(v, f) => job'[v] = job[v]
    BY <2>2 DEF rewriting
  <2> QED BY <2>2, <2>3 DEF OneRewrite
<1>4. CASE UNCHANGED <<store, contended, job>>
  BY <1>4 DEF OneRewrite, rewriting
<1> QED BY <1>1, <1>2, <1>3, <1>4, AccKinds

(* So the lines written are the lines of the moment, with one change, and    *)
(* the change means for the line what the operation means for the account.   *)
LEMMA KeptStep ==
    ASSUME AccTypes, OneRewrite, AccountsKept, AccNext
    PROVE  AccountsKept'
<1>1. CASE \E w \in Processes : write_lines(w)
  <2>1. PICK w \in Processes : write_lines(w) BY <1>1
  <2> DEFINE op == job[w].op
             line == changed(job[w].read[op.user], op)
             said == meant(truth[op.file][op.user], op)
  <2>2. /\ op \in Op /\ op.file \in Files /\ op.user \in Users
        /\ job[w].read \in [Users -> Line \cup {Absent}]
        /\ \/ store' = [store EXCEPT ![op.file] = [job[w].read EXCEPT ![op.user] = line]]
           \/ store' = store /\ job[w].read[op.user] = Absent /\ line = Absent
        /\ truth' = [truth EXCEPT ![op.file][op.user] = said]
        /\ UNCHANGED contended
    <3>1. \/ store' = [store EXCEPT ![op.file] = [job[w].read EXCEPT ![op.user] = line]]
          \/ store' = store /\ job[w].read[op.user] = Absent /\ line = Absent
      BY <2>1, WritesFacts
    <3>2. /\ op \in Op /\ op.file \in Files /\ op.user \in Users
          /\ job[w].read \in [Users -> Line \cup {Absent}]
      BY <2>1, WritesFacts
    <3>3. truth' = [truth EXCEPT ![op.file][op.user] = said] /\ UNCHANGED contended
      BY <2>1, WritesFacts
    <3> HIDE DEF op, line, said
    <3> QED BY <3>1, <3>2, <3>3
  <2>3. SUFFICES ASSUME ~contended, NEW f \in Files, NEW u \in Users
                 PROVE  view(store'[f][u]) = readable(truth'[f][u])
    BY <2>2 DEF AccountsKept, view, readable
  <2>4. job[w].read = store[op.file]
    BY <2>1, <2>2, <2>3 DEF OneRewrite, rewriting, write_lines
  <2>5. view(store[f][u]) = readable(truth[f][u])
        /\ view(store[op.file][op.user]) = readable(truth[op.file][op.user])
    BY <2>2, <2>3 DEF AccountsKept
  <2>6. store[op.file][op.user] \in Line \cup {Absent}
        /\ truth[op.file][op.user] \in Saying \cup {Absent}
    BY <2>2 DEF AccTypes
  <2> HIDE DEF op
  <2>7. view(line) = readable(said)
    BY <2>2, <2>4, <2>5, <2>6, ChangeMeans
  <2> HIDE DEF line, said
  <2>8. CASE f = op.file /\ u = op.user
    <3>1. store'[f][u] = line BY <2>2, <2>4, <2>8 DEF AccTypes
    <3>2. truth'[f][u] = said BY <2>2, <2>8 DEF AccTypes
    <3> QED BY <2>7, <3>1, <3>2
  <2>9. CASE ~(f = op.file /\ u = op.user)
    <3>1. store'[f][u] = store[f][u] BY <2>2, <2>4, <2>9 DEF AccTypes
    <3>2. truth'[f][u] = truth[f][u] BY <2>2, <2>9 DEF AccTypes
    <3> QED BY <2>5, <3>1, <3>2
  <2> QED BY <2>8, <2>9
<1>2. CASE \E w \in Processes : Begins(w)
  <2>1. UNCHANGED <<store, truth>> /\ (~contended' => ~contended)
    BY <1>2 DEF Begins, read_lines
  <2> QED BY <2>1 DEF AccountsKept
<1>3. CASE UNCHANGED <<store, truth, contended>>
  BY <1>3 DEF AccountsKept
<1> QED BY <1>1, <1>2, <1>3, AccKinds DEF Moves

\* The values of a key, as parse_user_config_file collects them.
values_of(lines, k) ==
    LET of == only(lines, {i \in DOMAIN lines : lines[i][1] = k})
    IN  [i \in DOMAIN of |-> of[i][2]]
last_of(lines, k) ==
    IF values_of(lines, k) = <<>> THEN Absent ELSE values_of(lines, k)[Len(values_of(lines, k))]

LEMMA ParseValues ==
    ASSUME NEW lines
    PROVE  parse_user_config_file(lines) =
                [dns |-> values_of(lines, "dns"), keepalive |-> last_of(lines, "keepalive"),
                 no_udp |-> last_of(lines, "no-udp")]
BY DEF parse_user_config_file, values_of, last_of

(* One more line of a file adds its value to those of its key.               *)
LEMMA ValuesAppend ==
    ASSUME NEW S, NEW lines \in Seq(S), NEW l \in S, NEW k
    PROVE  values_of(Append(lines, l), k) =
                IF l[1] = k THEN Append(values_of(lines, k), l[2]) ELSE values_of(lines, k)
<1> DEFINE more == Append(lines, l)
           I == {i \in DOMAIN lines : lines[i][1] = k}
           J == {i \in DOMAIN more : more[i][1] = k}
           of == only(lines, I)
           T == {x[2] : x \in S}
           second(s) == [i \in DOMAIN s |-> s[i][2]]
<1>1. /\ more \in Seq(S) /\ Len(lines) \in Nat /\ Len(more) = Len(lines) + 1
      /\ DOMAIN lines = 1 .. Len(lines) /\ DOMAIN more = 1 .. (Len(lines) + 1)
      /\ more[Len(lines) + 1] = l /\ \A i \in 1 .. Len(lines) : more[i] = lines[i]
  OBVIOUS
<1>2. \A i \in 1 .. Len(lines) : i \in I <=> i \in J
  <2> HIDE DEF more
  <2> QED BY <1>1
<1>3. Len(lines) + 1 \in J <=> l[1] = k
  <2> HIDE DEF more
  <2> QED BY <1>1
<1>4. only(more, J) = IF l[1] = k THEN Append(of, l) ELSE of
  <2> HIDE DEF I, J
  <2> QED BY <1>2, <1>3, OnlyAppend
<1>5. of \in Seq(S)
  BY OnlyElements
<1>6. values_of(lines, k) = second(of) /\ values_of(more, k) = second(only(more, J))
  BY DEF values_of
<1> HIDE DEF of, more, I, J
<1>7. second(of) \in [1 .. Len(of) -> T] /\ Len(of) \in Nat
  BY <1>5
<1>8. second(of) \in Seq(T) /\ Len(second(of)) = Len(of)
  BY <1>7
<1>9. second(Append(of, l)) = Append(second(of), l[2])
  <2> DEFINE a == Append(of, l)
             b == second(of)
             c == Append(b, l[2])
  <2>1. /\ DOMAIN a = 1 .. (Len(of) + 1) /\ a[Len(of) + 1] = l
        /\ \A i \in 1 .. Len(of) : a[i] = of[i]
    BY <1>5
  <2>2. l[2] \in T OBVIOUS
  <2>3. \A i \in 1 .. Len(of) : b[i] = of[i][2]
    BY <1>5
  <2>4. b \in Seq(T) /\ Len(b) = Len(of) BY <1>8
  <2> HIDE DEF b, T
  <2>5. /\ c \in Seq(T) /\ Len(c) = Len(of) + 1 /\ c[Len(of) + 1] = l[2]
        /\ \A i \in 1 .. Len(of) : c[i] = b[i]
    BY <1>7, <2>2, <2>4
  <2> HIDE DEF a, c
  <2>6. Len(of) \in Nat BY <1>7
  <2>7. DOMAIN c = 1 .. (Len(of) + 1) /\ c = [i \in DOMAIN c |-> c[i]]
    BY <2>5
  <2>8. \A i \in 1 .. (Len(of) + 1) : c[i] = a[i][2]
    <3> SUFFICES ASSUME NEW i \in 1 .. (Len(of) + 1) PROVE c[i] = a[i][2] OBVIOUS
    <3>1. CASE i = Len(of) + 1 BY <2>1, <2>2, <2>5, <3>1
    <3>2. CASE i \in 1 .. Len(of) BY <2>1, <2>3, <2>5, <3>2
    <3>3. i = Len(of) + 1 \/ i \in 1 .. Len(of) BY <2>6
    <3> QED BY <3>1, <3>2, <3>3
  <2>9. second(a) = c BY <2>1, <2>7, <2>8
  <2> QED BY <2>9 DEF a, b, c
<1> HIDE DEF second
<1>10. values_of(more, k) = IF l[1] = k THEN Append(second(of), l[2]) ELSE second(of)
  BY <1>4, <1>6, <1>9
<1> QED BY <1>6, <1>10 DEF more

LEMMA ValuesEmpty ==
    ASSUME NEW k
    PROVE  values_of(<<>>, k) = <<>>
<1>1. only(<<>>, {i \in DOMAIN <<>> : <<>>[i][1] = k}) = <<>> BY OnlyEmpty
<1> QED BY <1>1 DEF values_of

\* A line that is written unless its value is absent.
optional(key, v) == IF v = Absent THEN <<>> ELSE << <<key, v>> >>

LEMMA OptionalLine ==
    ASSUME NEW S, NEW E \in Seq(S), NEW key, NEW v, <<key, v>> \in S, NEW k
    PROVE  /\ E \o optional(key, v) \in Seq(S)
           /\ values_of(E \o optional(key, v), k) =
                IF v # Absent /\ key = k THEN Append(values_of(E, k), v) ELSE values_of(E, k)
<1> DEFINE l == <<key, v>>
<1>1. CASE v = Absent
  <2>1. E \o <<>> = E OBVIOUS
  <2> QED BY <1>1, <2>1 DEF optional
<1>2. CASE v # Absent
  <2>1. l \in S /\ l[1] = key /\ l[2] = v OBVIOUS
  <2>2. optional(key, v) = <<l>> BY <1>2 DEF optional
  <2> HIDE DEF l
  <2>3. E \o <<l>> = Append(E, l) /\ Append(E, l) \in Seq(S) BY <2>1
  <2>4. values_of(Append(E, l), k) =
            IF key = k THEN Append(values_of(E, k), v) ELSE values_of(E, k)
    BY <2>1, ValuesAppend
  <2> QED BY <1>2, <2>2, <2>3, <2>4
<1> QED BY <1>1, <1>2

LEMMA AppendToOne ==
    ASSUME NEW x, NEW y
    PROVE  Append(<<x>>, y) = <<x, y>>
<1> DEFINE a == Append(<<x>>, y)
           b == <<x, y>>
<1>1. a \in Seq({x, y}) /\ b \in Seq({x, y}) /\ Len(a) = 2 /\ Len(b) = 2 OBVIOUS
<1>2. a[1] = x /\ a[2] = y /\ b[1] = x /\ b[2] = y OBVIOUS
<1> HIDE DEF a, b
<1>3. a = b BY <1>1, <1>2
<1> QED BY <1>3 DEF a, b

LEMMA TwoValues ==
    ASSUME NEW S, NEW l \in S, NEW m \in S, NEW q, l[1] = m[1]
    PROVE  values_of(<<l, m>>, q) = IF l[1] = q THEN <<l[2], m[2]>> ELSE <<>>
<1>1. PICK e \in Seq(S), e1 \in Seq(S) :
            e = <<>> /\ e1 = Append(e, l) /\ Append(e1, m) = <<l, m>>
  <2>1. Append(<<l>>, m) = <<l, m>> BY AppendToOne
  <2>2. Append(<<>>, l) = <<l>> OBVIOUS
  <2> WITNESS <<>> \in Seq(S), <<l>> \in Seq(S)
  <2> QED BY <2>1, <2>2
<1>2. PICK a : a = <<>> /\ Append(a, l[2]) = <<l[2]>>
  <2> WITNESS <<>>
  <2> QED OBVIOUS
<1>3. values_of(e, q) = a BY <1>1, <1>2, ValuesEmpty
<1>4. values_of(e1, q) = IF l[1] = q THEN Append(values_of(e, q), l[2]) ELSE values_of(e, q)
  <2>1. values_of(Append(e, l), q) =
            IF l[1] = q THEN Append(values_of(e, q), l[2]) ELSE values_of(e, q)
    BY ValuesAppend
  <2> QED BY <1>1, <2>1
<1>5. values_of(Append(e1, m), q) =
            IF m[1] = q THEN Append(values_of(e1, q), m[2]) ELSE values_of(e1, q)
  BY ValuesAppend
<1>6. CASE l[1] = q
  <2>1. values_of(e1, q) = <<l[2]>> BY <1>2, <1>3, <1>4, <1>6
  <2>2. values_of(<<l, m>>, q) = Append(<<l[2]>>, m[2]) BY <1>1, <1>5, <1>6, <2>1
  <2> QED BY <1>6, <2>2, AppendToOne
<1>7. CASE l[1] # q
  BY <1>1, <1>2, <1>3, <1>4, <1>5, <1>7
<1> QED BY <1>6, <1>7

(* The page and ocserv read back what was rendered: the repeated key in its  *)
(* order, zero and "false" as well as their absence.                         *)
LEMMA ReadBack ==
    ASSUME NEW c \in UserSettings
    PROVE  parse_user_config_file(render_user_config(c)) = c
<1> DEFINE d == c.dns
           k == c.keepalive
           n == c.no_udp
           S == {"dns", "keepalive", "no-udp"} \X {"a", "b", k, n}
           D == [i \in DOMAIN d |-> <<"dns", d[i]>>]
           E == D \o optional("keepalive", k)
           F == E \o optional("no-udp", n)
<1>0. d \in {<<>>, <<"a", "b">>} /\ c = [dns |-> d, keepalive |-> k, no_udp |-> n]
  BY DEF UserSettings
<1>1. /\ D \in Seq(S) /\ values_of(D, "dns") = d
      /\ values_of(D, "keepalive") = <<>> /\ values_of(D, "no-udp") = <<>>
  <2>1. CASE d = <<>>
    <3>1. D = <<>> BY <2>1
    <3> QED BY <2>1, <3>1, ValuesEmpty
  <2>2. CASE d = <<"a", "b">>
    <3> DEFINE l == <<"dns", "a">>
               m == <<"dns", "b">>
    <3>1. /\ l \in S /\ m \in S /\ l[1] = "dns" /\ l[2] = "a" /\ m[1] = "dns" /\ m[2] = "b"
      OBVIOUS
    <3>2. D = <<l, m>>
      <4>1. DOMAIN d = {1, 2} /\ d[1] = "a" /\ d[2] = "b" BY <2>2
      <4>2. DOMAIN <<l, m>> = {1, 2} /\ <<l, m>>[1] = l /\ <<l, m>>[2] = m
            /\ <<l, m>> = [i \in {1, 2} |-> <<l, m>>[i]]
        OBVIOUS
      <4>3. D = [i \in {1, 2} |-> <<l, m>>[i]] BY <4>1, <4>2
      <4> QED BY <4>2, <4>3
    <3>3. ASSUME NEW q
          PROVE  values_of(<<l, m>>, q) = IF "dns" = q THEN <<"a", "b">> ELSE <<>>
      <4> HIDE DEF l, m, S
      <4> QED BY <3>1, TwoValues
    <3>4. <<l, m>> \in Seq(S)
      <4> HIDE DEF l, m, S
      <4> QED BY <3>1
    <3> HIDE DEF l, m, S, D, d
    <3> QED BY <2>2, <3>2, <3>3, <3>4
  <2> QED BY <1>0, <2>1, <2>2
<1>2. <<"keepalive", k>> \in S /\ <<"no-udp", n>> \in S OBVIOUS
<1>3. render_user_config(c) = F
  BY DEF render_user_config, optional
<1> HIDE DEF D, S, d, k, n
<1>4. /\ E \in Seq(S) /\ values_of(E, "dns") = d
      /\ values_of(E, "keepalive") = (IF k # Absent THEN <<k>> ELSE <<>>)
      /\ values_of(E, "no-udp") = <<>>
  <2>1. ASSUME NEW q
        PROVE  /\ E \in Seq(S)
               /\ values_of(E, q) = IF k # Absent /\ "keepalive" = q
                                      THEN Append(values_of(D, q), k) ELSE values_of(D, q)
    BY <1>1, <1>2, OptionalLine
  <2> HIDE DEF E
  <2>2. Append(<<>>, k) = <<k>> OBVIOUS
  <2> QED BY <1>1, <2>1, <2>2
<1> HIDE DEF E
<1>5. /\ values_of(F, "dns") = d
      /\ values_of(F, "keepalive") = (IF k # Absent THEN <<k>> ELSE <<>>)
      /\ values_of(F, "no-udp") = (IF n # Absent THEN <<n>> ELSE <<>>)
  <2>1. ASSUME NEW q
        PROVE  values_of(F, q) = IF n # Absent /\ "no-udp" = q
                                   THEN Append(values_of(E, q), n) ELSE values_of(E, q)
    BY <1>2, <1>4, OptionalLine
  <2> HIDE DEF F
  <2>2. Append(<<>>, n) = <<n>> OBVIOUS
  <2> QED BY <1>4, <2>1, <2>2
<1> HIDE DEF F
<1>6. last_of(F, "keepalive") = k /\ last_of(F, "no-udp") = n
  <2>1. \A x : <<x>> # <<>> /\ <<x>>[Len(<<x>>)] = x OBVIOUS
  <2>2. last_of(F, "keepalive") = k BY <1>5, <2>1 DEF last_of
  <2>3. last_of(F, "no-udp") = n BY <1>5, <2>1 DEF last_of
  <2> QED BY <2>2, <2>3
<1> QED BY <1>0, <1>3, <1>5, <1>6, ParseValues

(* What a user's file holds is always what save_user_config rendered last.   *)
LEMMA SettingsStep ==
    ASSUME AccTypes, SettingsSaved, AccNext
    PROVE  SettingsSaved'
<1>1. CASE UNCHANGED user_config
  BY <1>1 DEF SettingsSaved, stored
<1>2. CASE \E u \in Users, c \in UserSettings : save_user_config(u, c)
  <2>1. PICK u \in Users, c \in UserSettings : save_user_config(u, c) BY <1>2
  <2>2. user_config' = [user_config EXCEPT ![u] = stored(c)]
    BY <2>1 DEF save_user_config, stored
  <2>3. user_config' \in [Users -> {stored(x) : x \in UserSettings}]
    BY <2>2 DEF SettingsSaved
  <2> QED BY <2>3 DEF SettingsSaved
<1> QED BY <1>1, <1>2, AccKinds

LEMMA SettingsReadBack == SettingsSaved => UserConfigReadBack
<1>1. ASSUME SettingsSaved, NEW u \in Users
      PROVE  IF user_config[u].file = Absent THEN user_config[u].saved = NoSettings
             ELSE parse_user_config_file(user_config[u].file) = user_config[u].saved
  <2>1. PICK c \in UserSettings : user_config[u] = stored(c) BY <1>1 DEF SettingsSaved
  <2>2. /\ user_config[u].saved = c
        /\ user_config[u].file = IF c = NoSettings THEN Absent ELSE render_user_config(c)
    BY <2>1 DEF stored
  <2>3. render_user_config(c) # Absent BY AbsentAssumption
  <2> QED BY <2>2, <2>3, ReadBack
<1> QED BY <1>1 DEF UserConfigReadBack

\* The groups a line is read to list, and those it lists once they are set.
LEMMA ListedRead ==
    ASSUME NEW line \in Line, NEW g, listed(line, g)
    PROVE  g \in parse_passwd_record(line).groups
<1>1. CASE \E h \in HashField : line = <<h>>
  BY <1>1 DEF listed, HashField
<1>2. CASE \E gs \in SUBSET UserGroups, h \in HashField : line = <<Group(gs), h>>
  <2>1. PICK gs \in SUBSET UserGroups, h \in HashField : line = <<Group(gs), h>> BY <1>2
  <2>2. DOMAIN line = {1, 2} /\ line[1] = Group(gs) /\ line[2] = h BY <2>1
  <2>3. Group(gs).groups = gs /\ h.groups = {} BY DEF Group, HashField
  <2>4. g \in gs /\ gs \notin LongLists BY <2>2, <2>3 DEF listed
  <2> QED BY <2>1, <2>4, TwoFields DEF read_groups
<1> QED BY <1>1, <1>2 DEF Line

LEMMA GroupsSet ==
    ASSUME NEW line \in Line, NEW op \in Op, op.what = "groups", NEW g, g \notin op.groups
    PROVE  ~listed(changed(line, op), g)
<1> DEFINE gs == op.groups
<1>0. line # Absent BY AbsentAssumption
<1>1. changed(line, op) = render_passwd_record(line, gs) BY <1>0 DEF changed
<1>2. ASSUME NEW h \in HashField PROVE ~listed(<<h>>, g) /\ ~listed(<<Group(gs), h>>, g)
  <2>1. h.groups = {} /\ Group(gs).groups = gs BY DEF HashField, Group
  <2>2. ~listed(<<h>>, g) BY <2>1 DEF listed
  <2> DEFINE l == <<Group(gs), h>>
  <2>3. DOMAIN l = {1, 2} /\ l[1] = Group(gs) /\ l[2] = h OBVIOUS
  <2> HIDE DEF l
  <2>4. ~listed(l, g) BY <2>1, <2>3 DEF listed
  <2> QED BY <2>2, <2>4 DEF l
<1>3. ASSUME NEW h \in HashField, line = <<h>> PROVE ~listed(changed(line, op), g)
  <2>1. Len(line) = 1 BY <1>3
  <2>2. changed(line, op) = IF gs = {} THEN line ELSE <<Group(gs)>> \o line
    BY <1>1, <2>1 DEF render_passwd_record
  <2> QED BY <1>2, <1>3, <2>2, PairConcat
<1>4. ASSUME NEW x \in SUBSET UserGroups, NEW h \in HashField, line = <<Group(x), h>>
      PROVE  ~listed(changed(line, op), g)
  <2>1. Len(line) = 2 /\ Tail(line) = <<h>> BY <1>4
  <2>2. changed(line, op) = IF gs = {} THEN Tail(line) ELSE <<Group(gs)>> \o Tail(line)
    BY <1>1, <2>1 DEF render_passwd_record
  <2> QED BY <1>2, <2>1, <2>2, PairConcat
<1> QED BY <1>3, <1>4 DEF Line

\* A deletion whose process does not move is passed by: either an operation has
\* started since, or it was not alone.
LEMMA DeletionPassed ==
    ASSUME AccTypes, DeletionsOK, NEW w \in Processes, job'[w] = job[w],
           \/ ops' = ops + 1
           \/ ops' = ops /\ \E p \in Processes : p # w /\ job[p].at # "idle"
    PROVE  DeletionOK(w)'
<1>1. deletion(w)' = deletion(w) BY DEF deletion
<1>2. ASSUME deletion(w).at \in {"list", "members"}
      PROVE  deletion(w).start \in Nat /\ deletion(w).start <= ops
  <2>1. deletion(w) \in {NoJob, Failed} \cup Deletion \cup Clearing
    BY JobAt DEF deletion, Rewrite
  <2>2. deletion(w).start \in Nat BY <1>2, <2>1 DEF NoJob, Failed, Deletion, Clearing
  <2> QED BY <1>2, <2>2 DEF DeletionsOK, DeletionOK
<1>3. ops \in Nat BY DEF AccTypes
<1>4. ~Alone(w)'
  <2>1. CASE ops' = ops + 1 BY <1>1, <1>2, <1>3, <2>1 DEF Alone
  <2>2. CASE ops' = ops /\ \E p \in Processes : p # w /\ job[p].at # "idle"
    <3>1. PICK p \in Processes : p # w /\ job[p].at # "idle" BY <2>2
    <3>2. job[p] # NoJob BY <3>1 DEF NoJob
    <3>3. ~Undisturbed(w) BY <3>1, <3>2 DEF Undisturbed
    <3>4. ~Alone(w) BY <3>3 DEF DeletionsOK, DeletionOK
    <3> QED BY <1>1, <2>2, <3>4 DEF Alone
  <2> QED BY <2>1, <2>2
<1>5. deletion(w).at \in {"list", "members"} => deletion(w).start <= ops'
  BY <1>2, <1>3
<1> QED BY <1>1, <1>4, <1>5 DEF DeletionOK

\* The same, where every process but the one that moves keeps its job.
LEMMA OthersPassed ==
    ASSUME AccTypes, DeletionsOK, NEW p \in Processes,
           \A v \in Processes : v # p => job'[v] = job[v],
           ops' = ops + 1 \/ (ops' = ops /\ job[p].at # "idle"),
           DeletionOK(p)'
    PROVE  DeletionsOK'
<1>1. ASSUME NEW w \in Processes, w # p PROVE DeletionOK(w)'
  BY <1>1, DeletionPassed
<1> QED BY <1>1 DEF DeletionsOK

\* No deletion, no obligation.
LEMMA NoDeletion ==
    ASSUME NEW w, deletion(w)' \in {NoJob, Failed}
    PROVE  DeletionOK(w)'
<1>1. (deletion(w)').at \in {"idle", "failed"} BY DEF NoJob, Failed
<1>2. ~((deletion(w)').at \in {"list", "members"}) BY <1>1
<1> QED BY <1>2 DEF DeletionOK, Alone

\* Every line of a user is one, or none.
LEMMA LineOf ==
    ASSUME AccTypes, NEW u \in Users
    PROVE  store["passwd"][u] \in Line \cup {Absent}
BY DEF AccTypes, Files

LEMMA DeleteGroupStep ==
    ASSUME AccTypes, DeletionsOK, NEW w \in AccountWorkers, NEW g \in UserGroups,
           delete_group(w, g)
    PROVE  DeletionsOK'
<1> DEFINE j == [at |-> "list", g |-> g, left |-> policies \ {g}, start |-> ops',
                 alone |-> \A v \in Processes : job[v] = NoJob]
<1>0. w \in Processes /\ ops \in Nat BY DEF Processes, AccTypes
<1>1. job' = [job EXCEPT ![w] = j] /\ ops' = ops + 1 /\ group_files' = group_files \ {g}
  BY DEF delete_group
<1>2. /\ j.at = "list" /\ j.g = g /\ j.left = policies \ {g} /\ j.start = ops'
      /\ j.alone <=> \A v \in Processes : job[v] = NoJob
  OBVIOUS
<1> HIDE DEF j
<1>3. job'[w] = j /\ \A v \in Processes : v # w => job'[v] = job[v]
  BY <1>0, <1>1 DEF AccTypes
<1>4. deletion(w)' = j BY <1>2, <1>3 DEF deletion
<1>5. Alone(w)' => Undisturbed(w)'
  BY <1>1, <1>2, <1>3, <1>4 DEF Alone, Undisturbed
<1>6. j.start <= ops' BY <1>0, <1>1, <1>2
<1>7. DeletionOK(w)' BY <1>4, <1>5, <1>6 DEF DeletionOK
<1> QED BY <1>0, <1>1, <1>3, <1>7, OthersPassed

LEMMA ListMembersStep ==
    ASSUME AccTypes, DeletionsOK, NEW w \in AccountWorkers, list_members(w)
    PROVE  DeletionsOK'
<1> DEFINE d == job[w]
           todo == [u \in members(d.g) |-> parse_passwd_record(store["passwd"][u]).groups \ {d.g}]
           j == [at |-> "members", g |-> d.g, left |-> d.left, start |-> d.start,
                 alone |-> d.alone, todo |-> todo]
<1>0. w \in Processes /\ d \in Deletion /\ d.at = "list"
  <2>1. w \in Processes BY DEF Processes
  <2> QED BY <2>1, JobAt DEF list_members
<1>1. job' = [job EXCEPT ![w] = j] /\ UNCHANGED <<ops, group_files, store>>
  BY DEF list_members
<1>2. \A u \in DOMAIN todo : d.g \notin todo[u] OBVIOUS
<1>3. ASSUME NEW u \in Users, Listed(u, d.g) PROVE u \in DOMAIN todo
  <2>1. store["passwd"][u] \in Line BY <1>3, LineOf DEF Listed
  <2>2. d.g \in parse_passwd_record(store["passwd"][u]).groups
    BY <1>3, <2>1, ListedRead DEF Listed
  <2>3. u \in members(d.g) BY <1>3, <2>2 DEF members, Listed
  <2> QED BY <2>3
<1> HIDE DEF todo
<1>4. /\ j.at = "members" /\ j.g = d.g /\ j.left = d.left /\ j.start = d.start
      /\ j.alone = d.alone /\ j.todo = todo
  OBVIOUS
<1> HIDE DEF j
<1>5. job'[w] = j /\ \A v \in Processes : v # w => job'[v] = job[v]
  BY <1>0, <1>1 DEF AccTypes
<1>6. deletion(w)' = j /\ deletion(w) = d BY <1>0, <1>4, <1>5 DEF deletion
<1>7. DeletionOK(w) BY <1>0 DEF DeletionsOK
<1>8. ASSUME Alone(w)' PROVE Undisturbed(w)'
  <2>1. Alone(w) BY <1>0, <1>1, <1>4, <1>6, <1>8 DEF Alone
  <2>2. /\ \A v \in Processes : v # w => job[v] = NoJob
        /\ d.g \notin group_files \cup d.left
    BY <1>6, <1>7, <2>1 DEF DeletionOK, Undisturbed
  <2>3. \A u \in Users : Listed(u, deletion(w).g)' => u \in DOMAIN todo
    <3>1. (deletion(w).g)' = d.g BY <1>4, <1>6
    <3>2. \A u \in Users : Listed(u, deletion(w).g)' <=> Listed(u, d.g)
      BY <1>1, <3>1 DEF Listed
    <3> QED BY <1>3, <3>2
  <2> QED BY <1>1, <1>2, <1>4, <1>5, <1>6, <2>2, <2>3 DEF Undisturbed
<1>9. j.start <= ops' BY <1>0, <1>1, <1>4, <1>6, <1>7 DEF DeletionOK
<1>10. DeletionOK(w)' BY <1>6, <1>8, <1>9 DEF DeletionOK
<1> QED BY <1>0, <1>1, <1>5, <1>10, OthersPassed

LEMMA ClearMemberStep ==
    ASSUME AccTypes, DeletionsOK, NEW w \in AccountWorkers, clear_member(w)
    PROVE  DeletionsOK'
<1> DEFINE d == job[w]
<1>0. w \in Processes /\ d \in Clearing /\ d.at = "members"
  <2>1. w \in Processes /\ job[w].at = "members" BY DEF Processes, clear_member
  <2> QED BY <2>1, JobAt
<1>1. PICK u \in DOMAIN d.todo :
        /\ u \in Users /\ d.todo[u] \in SUBSET UserGroups /\ rest(d, u) \in Clearing
        /\ rest(d, u).todo = [v \in DOMAIN d.todo \ {u} |-> d.todo[v]]
        /\ read_lines(w, [file |-> "passwd", user |-> u, what |-> "groups",
                          groups |-> d.todo[u]], rest(d, u))
  BY ClearBegins
<1> DEFINE op == [file |-> "passwd", user |-> u, what |-> "groups", groups |-> d.todo[u]]
           left == rest(d, u)
           j == [at |-> "write", op |-> op, read |-> store["passwd"], then |-> left]
<1>2. job' = [job EXCEPT ![w] = j] /\ UNCHANGED <<ops, group_files, store>>
  <2>1. job' = [job EXCEPT ![w] = j] /\ UNCHANGED store BY <1>1 DEF read_lines
  <2>2. UNCHANGED <<ops, group_files>> BY DEF clear_member
  <2> QED BY <2>1, <2>2
<1>3. /\ left.at = "members" /\ left.g = d.g /\ left.left = d.left /\ left.start = d.start
      /\ left.alone = d.alone
  BY <1>0 DEF rest, Clearing
<1>4. /\ DOMAIN left.todo = DOMAIN d.todo \ {u}
      /\ \A v \in DOMAIN left.todo : left.todo[v] = d.todo[v]
  BY <1>1
<1> HIDE DEF left
<1>5. op.file = "passwd" /\ op.user = u /\ op.what = "groups" /\ op.groups = d.todo[u]
  OBVIOUS
<1> HIDE DEF op
<1>6. j.at = "write" /\ j.op = op /\ j.read = store["passwd"] /\ j.then = left OBVIOUS
<1> HIDE DEF j
<1>7. job'[w] = j /\ \A v \in Processes : v # w => job'[v] = job[v]
  BY <1>0, <1>2 DEF AccTypes
<1>8. deletion(w)' = left /\ deletion(w) = d BY <1>0, <1>6, <1>7 DEF deletion
<1>9. DeletionOK(w) BY <1>0 DEF DeletionsOK
<1>10. ASSUME Alone(w)' PROVE Undisturbed(w)'
  <2>1. Alone(w) BY <1>0, <1>2, <1>3, <1>8, <1>10 DEF Alone
  <2>2. /\ \A v \in Processes : v # w => job[v] = NoJob
        /\ d.g \notin group_files \cup d.left
        /\ \A v \in DOMAIN d.todo : d.g \notin d.todo[v]
        /\ \A v \in Users : Listed(v, d.g) => v \in DOMAIN d.todo
    BY <1>0, <1>8, <1>9, <2>1 DEF DeletionOK, Undisturbed
  <2>3. \A v \in Users : Listed(v, deletion(w).g)' => v \in DOMAIN left.todo \/ v = u
    <3>1. (deletion(w).g)' = d.g BY <1>3, <1>8
    <3>2. \A v \in Users : Listed(v, deletion(w).g)' <=> Listed(v, d.g)
      BY <1>2, <3>1 DEF Listed
    <3> QED BY <1>4, <2>2, <3>2
  <2>4. /\ \A v \in Processes : v # w => job'[v] = NoJob
        /\ left.g \notin group_files' \cup left.left
        /\ left.g \notin op.groups
        /\ \A v \in DOMAIN left.todo : left.g \notin left.todo[v]
        /\ j.read = store'["passwd"]
    BY <1>1, <1>2, <1>3, <1>4, <1>5, <1>6, <1>7, <2>2
  <2> QED BY <1>3, <1>5, <1>6, <1>7, <1>8, <2>3, <2>4 DEF Undisturbed
<1>11. left.start <= ops' BY <1>0, <1>2, <1>3, <1>8, <1>9 DEF DeletionOK
<1>12. DeletionOK(w)' BY <1>8, <1>10, <1>11 DEF DeletionOK
<1> QED BY <1>0, <1>2, <1>7, <1>12, OthersPassed

LEMMA WriteLinesStep ==
    ASSUME AccTypes, DeletionsOK, NEW w \in Processes, write_lines(w)
    PROVE  DeletionsOK'
<1> DEFINE op == job[w].op
           d == job[w].then
           line == changed(job[w].read[op.user], op)
<1>1. /\ op \in Op /\ op.file \in Files /\ op.user \in Users
      /\ job[w].read \in [Users -> Line \cup {Absent}] /\ job[w].at = "write"
  <2>1. job[w].at = "write" BY DEF write_lines
  <2> QED BY <2>1, WritesFacts
<1>2. /\ job'[w] = d /\ d \in {NoJob} \cup Clearing /\ d.at # "write"
      /\ \A v \in Processes : v # w => job'[v] = job[v]
  BY WritesFacts
<1>3. UNCHANGED <<ops, group_files>> BY WritesFacts
<1>4. \/ store' = [store EXCEPT ![op.file] = [job[w].read EXCEPT ![op.user] = line]]
      \/ store' = store /\ job[w].read[op.user] = Absent
  BY WritesFacts
<1>5. deletion(w)' = d /\ deletion(w) = d BY <1>1, <1>2 DEF deletion
<1>6. DeletionOK(w) BY DEF DeletionsOK
<1>7. d.at \in {"list", "members"} => d.at = "members" BY <1>2 DEF NoJob, Clearing
<1>8. ASSUME Alone(w)' PROVE Undisturbed(w)'
  <2>1. Alone(w) /\ d.at = "members" BY <1>3, <1>5, <1>7, <1>8 DEF Alone
  <2>2. /\ \A v \in Processes : v # w => job[v] = NoJob
        /\ d.g \notin group_files \cup d.left
        /\ op.file = "passwd" /\ op.what = "groups" /\ d.g \notin op.groups
        /\ job[w].read = store["passwd"]
    BY <1>1, <1>5, <1>6, <2>1 DEF DeletionOK, Undisturbed
  <2>3. /\ \A v \in DOMAIN d.todo : d.g \notin d.todo[v]
        /\ \A v \in Users : Listed(v, d.g) => v \in DOMAIN d.todo \/ op.user = v
    BY <1>1, <1>5, <1>6, <2>1 DEF DeletionOK, Undisturbed
  <2>4. ASSUME NEW v \in Users, store'["passwd"][v] # Absent, listed(store'["passwd"][v], d.g)
        PROVE  v \in DOMAIN d.todo
    <3>1. CASE v = op.user
      <4>1. store["passwd"][v] # Absent => store["passwd"][v] \in Line BY LineOf
      <4>2. CASE store' = [store EXCEPT ![op.file] = [job[w].read EXCEPT ![op.user] = line]]
        <5>1. store'["passwd"][v] = line
          <6> HIDE DEF line, op
          <6> QED BY <1>1, <2>2, <3>1, <4>2 DEF AccTypes
        <5>2. store["passwd"][v] # Absent
          <6>1. store["passwd"][v] = Absent => line = Absent
            BY <2>2, <3>1 DEF changed
          <6> QED BY <2>4, <5>1, <6>1
        <5>3. ~listed(line, d.g)
          BY <1>1, <2>2, <3>1, <4>1, <5>2, GroupsSet
        <5> QED BY <2>4, <5>1, <5>3
      <4>3. CASE store' = store /\ job[w].read[op.user] = Absent
        BY <2>2, <2>4, <3>1, <4>3
      <4> QED BY <1>4, <4>2, <4>3
    <3>2. CASE v # op.user
      <4>1. store'["passwd"][v] = store["passwd"][v]
        <5> HIDE DEF line, op
        <5> QED BY <1>1, <1>4, <2>2, <3>2 DEF AccTypes
      <4>2. Listed(v, d.g) BY <2>4, <4>1 DEF Listed
      <4> QED BY <2>3, <3>2, <4>2
    <3> QED BY <3>1, <3>2
  <2>5. \A v \in Users : Listed(v, deletion(w).g)' => v \in DOMAIN d.todo
    BY <1>5, <2>4 DEF Listed, listed
  <2>6. \A v \in Processes : v # w => job'[v] = NoJob BY <1>2, <2>2
  <2> QED BY <1>2, <1>3, <1>5, <2>2, <2>3, <2>5, <2>6 DEF Undisturbed
<1>9. d.at \in {"list", "members"} => d.start <= ops'
  BY <1>3, <1>5, <1>6 DEF DeletionOK
<1>10. DeletionOK(w)' BY <1>5, <1>8, <1>9 DEF DeletionOK
<1>11. job[w].at # "idle" BY <1>1
<1> QED BY <1>2, <1>3, <1>10, <1>11, OthersPassed

(* The deletion of a group keeps its obligations, whoever moves.             *)
LEMMA DeletionsStep ==
    ASSUME AccTypes, DeletionsOK, AccNext
    PROVE  DeletionsOK'
<1>0. AccountWorkers \subseteq Processes BY DEF Processes
<1>1. ASSUME NEW w \in Processes, start_change(w) PROVE DeletionsOK'
  <2>1. PICK op \in Op : read_lines(w, op, NoJob) BY <1>1, StartBegins
  <2>2. ops' = ops + 1 /\ job[w].at # "write" BY <1>1, StartBegins DEF start_change, NoJob
  <2>3. /\ job'[w].at = "write" /\ job'[w].then = NoJob
        /\ \A v \in Processes : v # w => job'[v] = job[v]
    BY <2>1, <2>2, BeginsFacts
  <2>4. deletion(w)' = NoJob BY <2>3 DEF deletion
  <2>5. DeletionOK(w)' BY <2>4, NoDeletion
  <2> QED BY <2>2, <2>3, <2>5, OthersPassed
<1>2. ASSUME NEW w \in AccountWorkers, clear_policy(w) \/ policy_refused(w) \/ answer_error(w)
      PROVE  DeletionsOK'
  <2>1. /\ job' = [job EXCEPT ![w] = NoJob] \/ job' = [job EXCEPT ![w] = Failed]
        /\ ops' = ops /\ job[w].at \in {"members", "failed"}
    BY <1>2 DEF clear_policy, policy_refused, answer_error, Failed
  <2>2. job'[w] \in {NoJob, Failed} /\ \A v \in Processes : v # w => job'[v] = job[v]
    BY <1>0, <2>1 DEF AccTypes
  <2>3. deletion(w)' \in {NoJob, Failed} BY <2>2 DEF deletion, NoJob, Failed
  <2>4. DeletionOK(w)' BY <2>3, NoDeletion
  <2>5. w \in Processes /\ job[w].at # "idle" BY <1>0, <2>1
  <2> QED BY <2>1, <2>2, <2>4, <2>5, OthersPassed
<1>3. ASSUME ops' = ops + 1, job' = job PROVE DeletionsOK'
  <2>1. ASSUME NEW w \in Processes PROVE DeletionOK(w)'
    <3>1. job'[w] = job[w] BY <1>3
    <3> QED BY <1>3, <3>1, DeletionPassed
  <2> QED BY <2>1 DEF DeletionsOK
<1>4. CASE \E w \in Processes : panel_account(w) \/ korctl_account(w)
  BY <1>1, <1>4 DEF panel_account, korctl_account
<1>5. CASE \E w \in Processes : write_lines(w) BY <1>5, WriteLinesStep
<1>6. CASE \E w \in AccountWorkers : list_members(w) BY <1>6, ListMembersStep
<1>7. CASE \E w \in AccountWorkers : clear_member(w) BY <1>7, ClearMemberStep
<1>8. CASE \E w \in AccountWorkers : clear_policy(w) \/ policy_refused(w) \/ answer_error(w)
  BY <1>2, <1>8
<1>9. CASE \E w \in AccountWorkers, g \in UserGroups : delete_group(w, g)
  BY <1>9, DeleteGroupStep
<1>10. CASE \E g \in UserGroups : save_group_config(g) \/ delete_group_config(g)
  BY <1>3, <1>10 DEF save_group_config, delete_group_config
<1>11. CASE \E u \in Users, c \in UserSettings : save_user_config(u, c)
  BY <1>3, <1>11 DEF save_user_config
<1>12. CASE \E g \in UserGroups \cup {Absent} : save_identity_settings(g)
  BY <1>3, <1>12 DEF save_identity_settings
<1> QED BY <1>4, <1>5, <1>6, <1>7, <1>8, <1>9, <1>10, <1>11, <1>12, Zenon DEF AccNext

LEMMA AccInvInit == AccInit => AccInv
<1> SUFFICES ASSUME AccInit PROVE AccInv OBVIOUS
<1> DEFINE p == CHOOSE p \in Passwords : TRUE
<1>1. p \in Passwords BY AccountsAssumption
<1> HIDE DEF p
<1>2. Hash(p) \in HashField /\ Hash(p).hash = p /\ ~Hash(p).bang /\ Hash(p).bang = FALSE
  BY <1>1 DEF Hash, HashField
<1>3. {} \in SUBSET UserGroups /\ read_groups({}) = {} BY DEF read_groups
<1>4. /\ <<Group({}), Hash(p)>> \in Line /\ Says(p, FALSE, {}) \in Saying
      /\ view(<<Group({}), Hash(p)>>) = Says(p, FALSE, {})
  <2>1. view(<<Group({}), Hash(p)>>) = Says(Hash(p).hash, Hash(p).bang, read_groups({}))
        /\ <<Group({}), Hash(p)>> \in Line
    BY <1>2, <1>3, TwoFields
  <2>2. Says(p, FALSE, {}) \in Saying BY <1>1 DEF Says, Saying
  <2> QED BY <1>2, <1>3, <2>1, <2>2
<1>5. readable(Says(p, FALSE, {})) = Says(p, FALSE, {})
  <2>1. \A x \in Saying : x.groups = {} => [x EXCEPT !.groups = {}] = x BY DEF Saying
  <2>2. Says(p, FALSE, {}).groups = {} BY DEF Says
  <2> QED BY <1>4, <2>1, <2>2 DEF readable
<1>6. readable(Absent) = Absent /\ view(Absent) = Absent BY DEF readable, view
<1>7. store = [f \in Files |-> [u \in Users |->
                IF f = "passwd" THEN <<Group({}), Hash(p)>> ELSE Absent]]
      /\ truth = [f \in Files |-> [u \in Users |->
                IF f = "passwd" THEN Says(p, FALSE, {}) ELSE Absent]]
  BY DEF AccInit, p
<1>8. /\ rewrite_lock = [f \in Files |-> Absent] /\ job = [w \in Processes |-> NoJob]
      /\ ops = 0 /\ group_files = UserGroups /\ policies = UserGroups /\ contended = FALSE
      /\ default_select_group = Absent
      /\ user_config = [u \in Users |-> [file |-> Absent, saved |-> NoSettings]]
  BY DEF AccInit
<1>9. AccTypes
  <2> DEFINE line == <<Group({}), Hash(p)>>
             said == Says(p, FALSE, {})
  <2>1. line \in Line /\ said \in Saying BY <1>4
  <2>2. store = [f \in Files |-> [u \in Users |-> IF f = "passwd" THEN line ELSE Absent]]
        /\ truth = [f \in Files |-> [u \in Users |-> IF f = "passwd" THEN said ELSE Absent]]
    BY <1>7
  <2> HIDE DEF line, said
  <2>3. store \in [Files -> [Users -> Line \cup {Absent}]]
        /\ truth \in [Files -> [Users -> Saying \cup {Absent}]]
    BY <2>1, <2>2
  <2> QED BY <1>8, <2>3 DEF AccTypes
<1>10. \A w \in Processes : job[w] = NoJob /\ job[w].at = "idle" BY <1>8 DEF NoJob
<1>11. LocksHeld BY <1>8, <1>10 DEF LocksHeld, rewriting
<1>12. OneRewrite BY <1>10 DEF OneRewrite, rewriting
<1>13. AccountsKept
  <2>1. ASSUME NEW f \in Files, NEW u \in Users PROVE view(store[f][u]) = readable(truth[f][u])
    <3>1. CASE f = "passwd"
      <4>1. store[f][u] = <<Group({}), Hash(p)>> /\ truth[f][u] = Says(p, FALSE, {})
        BY <1>7, <3>1
      <4> QED BY <1>4, <1>5, <4>1
    <3>2. CASE f # "passwd"
      <4>1. store[f][u] = Absent /\ truth[f][u] = Absent BY <1>7, <3>2
      <4> QED BY <1>6, <4>1
    <3> QED BY <3>1, <3>2
  <2> QED BY <2>1 DEF AccountsKept
<1>14. DeletionsOK
  <2>1. ASSUME NEW w \in Processes PROVE DeletionOK(w)
    <3>1. deletion(w) = NoJob BY <1>10 DEF deletion
    <3>2. deletion(w).at = "idle" BY <3>1 DEF NoJob
    <3> QED BY <3>2 DEF DeletionOK, Alone
  <2> QED BY <2>1 DEF DeletionsOK
<1>15. SettingsSaved
  <2>1. NoSettings \in UserSettings BY DEF NoSettings, UserSettings
  <2>2. stored(NoSettings) = [file |-> Absent, saved |-> NoSettings] BY DEF stored
  <2> QED BY <1>8, <2>1, <2>2 DEF SettingsSaved
<1> QED BY <1>9, <1>11, <1>12, <1>13, <1>14, <1>15 DEF AccInv

LEMMA AccInvStep == AccInv /\ [AccNext]_accVars => AccInv'
<1>1. ASSUME AccInv, AccNext PROVE AccInv'
  BY <1>1, AccTypesStep, LocksHeldStep, OneRewriteStep, KeptStep, DeletionsStep, SettingsStep
     DEF AccInv
<1>2. ASSUME AccInv, UNCHANGED accVars PROVE AccInv'
  <2>1. UNCHANGED <<store, rewrite_lock, job, ops, user_config, group_files, policies,
                    default_select_group, truth, contended>>
    BY <1>2 DEF accVars
  <2>2. AccTypes' BY <1>2, <2>1 DEF AccInv, AccTypes
  <2>3. LocksHeld' BY <1>2, <2>1 DEF AccInv, LocksHeld, rewriting, locks
  <2>4. OneRewrite' BY <1>2, <2>1 DEF AccInv, OneRewrite, rewriting
  <2>5. AccountsKept' BY <1>2, <2>1 DEF AccInv, AccountsKept
  <2>6. SettingsSaved' BY <1>2, <2>1 DEF AccInv, SettingsSaved
  <2>7. DeletionsOK'
    <3>1. ASSUME NEW w \in Processes PROVE DeletionOK(w)'
      <4>1. deletion(w)' = deletion(w) BY <2>1 DEF deletion
      <4>2. \A u, g : Listed(u, g)' <=> Listed(u, g) BY <2>1 DEF Listed
      <4>3. Alone(w)' <=> Alone(w) BY <2>1, <4>1 DEF Alone
      <4>4. Undisturbed(w) => Undisturbed(w)' BY <2>1, <4>1, <4>2 DEF Undisturbed
      <4>5. DeletionOK(w) BY <1>2 DEF AccInv, DeletionsOK
      <4> QED BY <2>1, <4>1, <4>3, <4>4, <4>5 DEF DeletionOK
    <3> QED BY <3>1 DEF DeletionsOK
  <2> QED BY <2>2, <2>3, <2>4, <2>5, <2>6, <2>7 DEF AccInv
<1> QED BY <1>1, <1>2

LEMMA AccInvHolds == AccSpec => []AccInv
BY AccInvInit, AccInvStep, PTL DEF AccSpec

(* Type correctness: every line of ocpasswd and users.oath holds a hash, a   *)
(* lock is held by a panel thread that rewrites that file, every process is  *)
(* at a step of an operation.                                                *)
THEOREM AccTypesHold == AccSpec => []AccTypeOK
<1>1. AccInv => AccTypeOK
  <2> SUFFICES ASSUME AccInv PROVE AccTypeOK OBVIOUS
  <2>1. \A f \in Files, u \in Users : store[f][u] \in Line \cup {Absent} BY DEF AccInv, AccTypes
  <2>2. \A f \in Files : rewrite_lock[f] # Absent =>
            rewrite_lock[f] \in AccountWorkers /\ rewriting(rewrite_lock[f], f)
    BY DEF AccInv, AccTypes, LocksHeld
  <2>3. \A w \in Processes : job[w].at \in {"idle", "write", "list", "members", "failed"}
    BY JobAt DEF AccInv
  <2> QED BY <2>1, <2>2, <2>3 DEF AccInv, AccTypes, AccTypeOK
<1> QED BY <1>1, AccInvHolds, PTL

(* No parallel request of the panel loses another's change: without an       *)
(* overlapping ocpasswd or korctl run, the files say of every account what   *)
(* the operations so far amount to, for any number of users, threads,        *)
(* groups and operations.                                                    *)
THEOREM AccountsAreKept == AccSpec => []AccountsKept
<1>1. AccInv => AccountsKept BY DEF AccInv
<1> QED BY <1>1, AccInvHolds, PTL

(* Saved per-user settings are read back as they were saved, zero and        *)
(* "false" included.                                                         *)
THEOREM SettingsAreReadBack == AccSpec => []UserConfigReadBack
<1>1. AccInv => UserConfigReadBack BY SettingsReadBack DEF AccInv
<1> QED BY <1>1, AccInvHolds, PTL

(* delete_group leaves nothing of the group when it ran alone: not its file, *)
(* not its policy, no member.  When the validators refuse its last save, the *)
(* file and the members are gone all the same and the policies untouched;    *)
(* for any users, groups, threads and configurations.                        *)
THEOREM DeletedGroupsGo == AccSpec => DeletedGroupGone
<1> DEFINE Gone == \A w \in AccountWorkers, g \in UserGroups :
             (job[w].at = "members" /\ job[w].g = g /\ job[w].alone /\ job[w].start = ops)
                => /\ job'[w] = NoJob => ~Remains(g)'
                   /\ job'[w] = Failed => /\ g \notin group_files' /\ ~HasMember(g)'
                                          /\ policies' = policies
<1>1. AccInv /\ AccNext => Gone
  <2> SUFFICES ASSUME AccInv, AccNext, NEW w \in AccountWorkers, NEW g \in UserGroups,
                      job[w].at = "members", job[w].g = g, job[w].alone, job[w].start = ops,
                      job'[w] \in {NoJob, Failed}
               PROVE  /\ job'[w] = NoJob => ~Remains(g)'
                      /\ job'[w] = Failed => /\ g \notin group_files' /\ ~HasMember(g)'
                                             /\ policies' = policies
    OBVIOUS
  <2>0. /\ w \in Processes /\ AccTypes /\ DeletionOK(w) /\ AccountWorkers \subseteq Processes
        /\ NoJob.at = "idle" /\ Failed.at = "failed" /\ job[w] # job'[w]
    BY DEF Processes, AccInv, DeletionsOK, NoJob, Failed
  <2>1. deletion(w) = job[w] BY DEF deletion
  <2>2. Undisturbed(w) BY <2>0, <2>1 DEF Alone, DeletionOK
  <2>3. clear_policy(w) \/ policy_refused(w)
    <3>1. ASSUME NEW v \in Processes, Begins(v) PROVE FALSE
      <4>1. PICK op \in Op, then \in {NoJob} \cup Clearing :
                job[v].at # "write" /\ read_lines(v, op, then)
        BY <3>1 DEF Begins
      <4>2. job'[v].at = "write" /\ \A x \in Processes : x # v => job'[x] = job[x]
        BY <2>0, <4>1, BeginsFacts
      <4> QED BY <2>0, <4>2
    <3>2. ASSUME NEW v \in Processes, write_lines(v) PROVE FALSE
      <4>1. job[v].at = "write" /\ \A x \in Processes : x # v => job'[x] = job[x]
        BY <2>0, <3>2, WritesFacts DEF write_lines
      <4> QED BY <2>0, <4>1
    <3>3. ASSUME NEW v \in AccountWorkers, clear_policy(v) \/ policy_refused(v) PROVE v = w
      <4>1. \E j : job' = [job EXCEPT ![v] = j] BY <3>3 DEF clear_policy, policy_refused
      <4> QED BY <2>0, <4>1 DEF AccTypes
    <3>4. ASSUME NEW v \in AccountWorkers, list_members(v) \/ answer_error(v) PROVE FALSE
      <4>1. job[v].at \in {"list", "failed"} BY <3>4 DEF list_members, answer_error, Failed
      <4>2. \E j : job' = [job EXCEPT ![v] = j]
        <5>1. CASE list_members(v) BY <5>1 DEF list_members
        <5>2. CASE answer_error(v) BY <5>2 DEF answer_error
        <5> QED BY <3>4, <5>1, <5>2
      <4> QED BY <2>0, <4>1, <4>2 DEF AccTypes
    <3>5. ASSUME NEW v \in AccountWorkers, NEW h \in UserGroups, delete_group(v, h) PROVE FALSE
      <4>1. job[v].at = "idle" BY <2>0, <3>5 DEF delete_group
      <4>2. \E j : job' = [job EXCEPT ![v] = j] BY <3>5 DEF delete_group
      <4> QED BY <2>0, <4>1, <4>2 DEF AccTypes
    <3>6. job' # job BY <2>0
    <3>7. CASE \E v \in Processes : panel_account(v) \/ korctl_account(v)
      BY <2>0, <3>1, <3>7, StartBegins DEF panel_account, korctl_account
    <3>8. CASE \E v \in AccountWorkers : clear_member(v)
      BY <2>0, <3>1, <3>8, ClearBegins
    <3>9. CASE \/ \E h \in UserGroups : save_group_config(h) \/ delete_group_config(h)
              \/ \E h \in UserGroups \cup {Absent} : save_identity_settings(h)
      BY <3>6, <3>9 DEF save_group_config, delete_group_config, save_identity_settings
    <3>10. CASE \E u \in Users, c \in UserSettings : save_user_config(u, c)
      BY <3>6, <3>10 DEF save_user_config
    <3> QED BY <3>2, <3>3, <3>4, <3>5, <3>7, <3>8, <3>9, <3>10, Zenon DEF AccNext
  <2>4. DOMAIN job[w].todo = {} /\ UNCHANGED store
    BY <2>3 DEF clear_policy, policy_refused
  <2>5. \A u \in Users : ~Listed(u, g) BY <2>1, <2>2, <2>4 DEF Undisturbed
  <2>6. ~HasMember(g)' BY <2>4, <2>5 DEF HasMember, Listed, listed
  <2>7. g \notin group_files /\ g \notin job[w].left BY <2>1, <2>2 DEF Undisturbed
  <2>8. CASE clear_policy(w)
    <3>1. job'[w] = NoJob /\ policies' = job[w].left
          /\ group_files' = group_files \cup job[w].left
      BY <2>0, <2>8 DEF clear_policy, AccTypes
    <3> QED BY <2>0, <2>6, <2>7, <3>1 DEF Remains
  <2>9. CASE policy_refused(w)
    <3>1. job'[w] = Failed /\ UNCHANGED <<policies, group_files>>
      BY <2>0, <2>9 DEF policy_refused, AccTypes, groupConfig
    <3> QED BY <2>0, <2>6, <2>7, <3>1
  <2> QED BY <2>3, <2>8, <2>9
<1>2. DeletedGroupGone <=> [][Gone]_accVars BY PTL DEF DeletedGroupGone
<1> QED BY <1>1, <1>2, AccInvHolds, PTL DEF AccSpec

-----------------------------------------------------------------------------
(* The password files implement AtomicUpdates: without an overlap, what a    *)
(* rewrite read is still the file when it writes.                            *)

\* What is read of a line can be read.
LEMMA ViewReads ==
    ASSUME NEW line \in Line \cup {Absent}
    PROVE  view(line) \in Saying \cup {Absent} /\ readable(view(line)) = view(line)
<1>1. CASE line = Absent
  BY <1>1 DEF view, readable
<1>2. ASSUME NEW h \in HashField, NEW gs \in SUBSET UserGroups, gs = {} \/ gs \notin LongLists
      PROVE  /\ Says(h.hash, h.bang, gs) \in Saying
             /\ readable(Says(h.hash, h.bang, gs)) = Says(h.hash, h.bang, gs)
  <2>1. h.hash \in Passwords /\ h.bang \in BOOLEAN BY DEF HashField
  <2>2. Says(h.hash, h.bang, gs) \in Saying BY <2>1 DEF Says, Saying
  <2>3. ASSUME NEW t \in Saying, t.groups = {} \/ t.groups \notin LongLists
        PROVE  readable(t) = t
    <3>1. [t EXCEPT !.groups = {}] = [t EXCEPT !.groups = t.groups] \/ t.groups \notin LongLists
      BY <2>3
    <3>2. [t EXCEPT !.groups = t.groups] = t BY DEF Saying
    <3> QED BY <3>1, <3>2 DEF readable
  <2>4. Says(h.hash, h.bang, gs).groups = gs BY DEF Says
  <2> QED BY <1>2, <2>2, <2>3, <2>4
<1>3. CASE \E h \in HashField : line = <<h>>
  <2>1. PICK h \in HashField : line = <<h>> BY <1>3
  <2>2. view(line) = Says(h.hash, h.bang, {}) BY <2>1, OneField
  <2> QED BY <1>2, <2>2
<1>4. CASE \E gs \in SUBSET UserGroups, h \in HashField : line = <<Group(gs), h>>
  <2>1. PICK gs \in SUBSET UserGroups, h \in HashField : line = <<Group(gs), h>> BY <1>4
  <2>2. view(line) = Says(h.hash, h.bang, read_groups(gs)) BY <2>1, TwoFields
  <2>3. read_groups(gs) \in SUBSET UserGroups
        /\ (read_groups(gs) = {} \/ read_groups(gs) \notin LongLists)
    BY DEF read_groups
  <2> QED BY <1>2, <2>2, <2>3
<1> QED BY <1>1, <1>3, <1>4 DEF Line

\* Steps but for the writes leave both files alone; a race is never forgotten.
LEMMA FilesWritten ==
    ASSUME AccTypes, AccNext, \A w \in Processes : ~write_lines(w)
    PROVE  store' = store /\ (contended' = contended \/ contended' = TRUE)
<1>1. ASSUME NEW w \in Processes, NEW op \in Op, NEW then, read_lines(w, op, then)
      PROVE  store' = store /\ (contended' = contended \/ contended' = TRUE)
  BY <1>1 DEF read_lines, AccTypes
<1>2. ASSUME NEW w \in Processes, Begins(w)
      PROVE  store' = store /\ (contended' = contended \/ contended' = TRUE)
  BY <1>1, <1>2 DEF Begins
<1>3. CASE \E w \in Processes : panel_account(w) \/ korctl_account(w)
  BY <1>2, <1>3, StartBegins DEF panel_account, korctl_account
<1>4. CASE \E w \in AccountWorkers : clear_member(w)
  BY <1>2, <1>4, ClearBegins DEF Processes
<1>5. CASE \E w \in AccountWorkers : \/ list_members(w) \/ clear_policy(w)
                                    \/ policy_refused(w) \/ answer_error(w)
  BY <1>5 DEF list_members, clear_policy, policy_refused, answer_error
<1>6. CASE \E w \in AccountWorkers, g \in UserGroups : delete_group(w, g)
  BY <1>6 DEF delete_group
<1>7. CASE \E g \in UserGroups : save_group_config(g) \/ delete_group_config(g)
  BY <1>7 DEF save_group_config, delete_group_config
<1>8. CASE \E u \in Users, c \in UserSettings : save_user_config(u, c)
  BY <1>8 DEF save_user_config
<1>9. CASE \E g \in UserGroups \cup {Absent} : save_identity_settings(g)
  BY <1>9 DEF save_identity_settings
<1> QED BY <1>3, <1>4, <1>5, <1>6, <1>7, <1>8, <1>9, Zenon DEF AccNext

\* A rewrite changes the line of its account to what its operation means.
LEMMA AccountStoreStep ==
    ASSUME AccInv, [AccNext]_accVars
    PROVE  [AccountStore!Next]_<<store, contended>>
<1>0. AccTypes /\ OneRewrite /\ contended \in BOOLEAN BY DEF AccInv, AccTypes
<1>1. CASE store' = store /\ contended' = contended
  BY <1>1
<1>2. CASE contended' = TRUE
  BY <1>2 DEF AccountStore!Next, AccountStore!Race
<1>3. ASSUME NEW w \in Processes, write_lines(w), contended = FALSE
      PROVE  [AccountStore!Next]_<<store, contended>>
  <2> DEFINE op == job[w].op
             line == store[op.file][op.user]
             new == changed(line, op)
  <2>1. op \in Op /\ op.file \in Files /\ op.user \in Users BY <1>0, <1>3, WritesFacts
  <2>2. job[w].read = store[op.file]
    BY <1>0, <1>3, <2>1 DEF OneRewrite, rewriting, write_lines
  <2>3. \/ store' = [store EXCEPT ![op.file] = [store[op.file] EXCEPT ![op.user] = new]]
        \/ store' = store
    BY <1>0, <1>3, <2>2, WritesFacts
  <2>4. line \in Line \cup {Absent} BY <1>0, <2>1 DEF AccTypes
  <2>5. contended' = FALSE BY <1>0, <1>3, WritesFacts
  <2> HIDE DEF op
  <2>6. view(new) = readable(meant(view(line), op))
    BY <2>1, <2>4, ViewReads, ChangeMeans
  <2> HIDE DEF new
  <2>7. CASE store' = [store EXCEPT ![op.file] = [store[op.file] EXCEPT ![op.user] = new]]
    <3>1. store'[op.file][op.user] = new BY <1>0, <2>1, <2>7 DEF AccTypes
    <3>2. store' = [store EXCEPT ![op.file][op.user] = store'[op.file][op.user]]
      BY <2>7, <3>1
    <3>3. account_changed(op, store, store') BY <2>6, <3>1, <3>2 DEF account_changed
    <3>4. op \in AccountOps BY <2>1 DEF AccountOps, Op
    <3> QED BY <1>3, <2>5, <3>3, <3>4 DEF AccountStore!Next, AccountStore!Update
  <2> QED BY <1>1, <1>3, <2>3, <2>5, <2>7
<1>4. ASSUME NEW w \in Processes, write_lines(w) PROVE contended' = contended
  BY <1>4 DEF write_lines
<1>5. CASE AccNext /\ \A w \in Processes : ~write_lines(w)
  BY <1>0, <1>1, <1>2, <1>5, FilesWritten
<1>6. CASE \E w \in Processes : write_lines(w)
  BY <1>0, <1>2, <1>3, <1>4, <1>6
<1>7. CASE UNCHANGED accVars
  BY <1>1, <1>7 DEF accVars
<1> QED BY <1>5, <1>6, <1>7

(* ocpasswd and users.oath implement AtomicUpdates: however the rewrites of  *)
(* threads and korctl interleave, each is one operation on one account, made *)
(* to what the file says at that moment, until an ocpasswd or korctl rewrite *)
(* overlaps another one; for any users, groups, passwords and threads.       *)
THEOREM AccountRefinement == AccSpec => AccountsImplementStore
<1>1. AccInit => AccountStore!Init
  BY DEF AccInit, AccountStore!Init
<1>2. AccInv /\ [AccNext]_accVars => [AccountStore!Next]_<<store, contended>>
  BY AccountStoreStep
<1> QED
  BY <1>1, <1>2, AccInvHolds, PTL DEF AccSpec, AccountsImplementStore, AccountStore!Spec

-----------------------------------------------------------------------------
(* Configuration *)

\* What an editor holds at each step of an edit.
PatchOp == UNION {patches(c) : c \in Config}
After == {"render", "nothing", "republish"}
SourceOp == [what : {"source"}, after : {"render", "nothing"}, content : Shown]
Reading == [at : {"read"}, op : PatchOp \cup SourceOp, alone : BOOLEAN, fresh : BOOLEAN]
Writing == [at : {"write"}, op : PatchOp \cup SourceOp, alone : BOOLEAN, fresh : BOOLEAN,
            data : Config]
Loading == [at : {"load"}, after : After, alone : BOOLEAN]
Holding == [at : {"publish", "render"}, after : After, alone : BOOLEAN, fresh : BOOLEAN,
            config : Config]

Edit == {NoEdit} \cup Reading \cup Writing \cup Loading \cup Holding

CfgTypes ==
    /\ file \in Config /\ cached \in Config /\ rendered \in Config
    /\ editor # Unset => editor \in Shown
    /\ edit \in [Editors -> Edit]
    /\ edits \in Nat /\ fresh \in BOOLEAN /\ behind \in BOOLEAN

\* An edit that is alone is the only one.
OneEdit == \A w, v \in Editors : busy(w) /\ edit[w].alone /\ v # w => edit[v] = NoEdit

\* The cache is that of the file, and so are the generated files that are not behind.
InStep == cached = load_config(file) /\ (behind \/ rendered = load_config(file))

\* Until it writes, an edit alone holds what follows from the file and the cache of
\* this moment; after that, it brings the cache back to the file.
EditOK(w) ==
    busy(w) /\ edit[w].alone =>
        /\ edit[w].at \in {"read", "write"} /\ edit[w].fresh => InStep
        /\ edit[w].at \in {"read", "write"} /\ edit[w].fresh /\ edit[w].op.what # "source" =>
                edit[w].op \in patches(cached)
        /\ edit[w].at = "write" => edit[w].data =
                IF edit[w].op.what = "source" THEN _restore_masked_values(edit[w].op.content, file)
                ELSE deep_merge(file, edit[w].op.patch)
        /\ edit[w].at = "publish" => edit[w].config = load_config(file)
        /\ edit[w].at = "render" /\ edit[w].fresh =>
                edit[w].config = load_config(file) /\ cached = load_config(file)
EditsOK == \A w \in Editors : EditOK(w)

FreshOK == fresh => (\A v \in Editors : edit[v] = NoEdit) /\ InStep

\* The sections of a file that no handler writes unchecked.
sections_valid(f) == validate_profiles(load_config(f)) /\ validate_identity(load_config(f))

\* What is held of the configuration is valid; so is the file, and what a certificate
\* page is about to write, but for the certificates.
Holds == \A w \in Editors :
            /\ edit[w].at \in {"publish", "render"} => validated(edit[w].config)
            /\ edit[w].at = "write" /\ edit[w].op.what = "certificates" =>
                    sections_valid(edit[w].data)
ConfigsValid == sections_valid(file) /\ validated(cached) /\ validated(rendered) /\ Holds

CfgInv == CfgTypes /\ OneEdit /\ EditsOK /\ FreshOK /\ ConfigsValid

LEMMA ConfigFields ==
    ASSUME NEW S, NEW c \in ConfigOf(S)
    PROVE  /\ c.level \in Levels /\ c.profiles \in Seq(ProfileOf(S))
           /\ c.active \in ProfileNames \cup {Unset} /\ c.groups \in SUBSET Groups
           /\ c.default_group \in Groups \cup {Unset}
           /\ DOMAIN c = {"level", "profiles", "active", "groups", "default_group",
                           "cert_mode", "cert_paths"}
BY DEF ConfigOf

LEMMA WithProfiles ==
    ASSUME NEW S, NEW T, NEW c \in ConfigOf(S), NEW ps \in Seq(ProfileOf(T))
    PROVE  /\ [c EXCEPT !.profiles = ps] \in ConfigOf(T)
           /\ [c EXCEPT !.profiles = ps].profiles = ps
           /\ [c EXCEPT !.profiles = ps].active = c.active
           /\ [c EXCEPT !.profiles = ps].groups = c.groups
           /\ [c EXCEPT !.profiles = ps].default_group = c.default_group
BY DEF ConfigOf

\* A list of profiles, one by one.
LEMMA ProfileList ==
    ASSUME NEW S, NEW n \in Nat, NEW ps, DOMAIN ps = 1 .. n, ps = [i \in 1 .. n |-> ps[i]],
           \A i \in 1 .. n : ps[i] \in ProfileOf(S)
    PROVE  ps \in Seq(ProfileOf(S)) /\ Len(ps) = n
<1>1. ps \in [1 .. n -> ProfileOf(S)] OBVIOUS
<1> QED BY <1>1

LEMMA ProfilesOf ==
    ASSUME NEW S, NEW ps \in Seq(ProfileOf(S))
    PROVE  /\ Len(ps) \in Nat /\ DOMAIN ps = 1 .. Len(ps)
           /\ \A i \in DOMAIN ps : /\ ps[i] \in ProfileOf(S) /\ ps[i].name \in ProfileNames
                                   /\ ps[i].secret \in S /\ ps[i].offset \in 0..9
                                   /\ ps[i].on \in BOOLEAN
<1>1. \A p \in ProfileOf(S) : p.name \in ProfileNames /\ p.secret \in S /\ p.offset \in 0..9
                              /\ p.on \in BOOLEAN
  BY DEF ProfileOf
<1>2. Len(ps) \in Nat /\ DOMAIN ps = 1 .. Len(ps) /\ \A i \in DOMAIN ps : ps[i] \in ProfileOf(S)
  OBVIOUS
<1> QED BY <1>1, <1>2

\* Merging keeps the type, and what is not overridden.
LEMMA MergeType ==
    ASSUME NEW c \in Config, NEW p, is_patch(p)
    PROVE  /\ deep_merge(c, p) \in Config
           /\ "profiles" \notin DOMAIN p => deep_merge(c, p).profiles = c.profiles
           /\ "profiles" \in DOMAIN p => deep_merge(c, p).profiles = p.profiles
           /\ \A k \in DOMAIN c : deep_merge(c, p)[k] = IF k \in DOMAIN p THEN p[k] ELSE c[k]
<1>1. deep_merge(c, p) \in Config BY DEF deep_merge, is_patch, Config, ConfigOf
<1>2. DOMAIN c = {"level", "profiles", "active", "groups", "default_group",
                  "cert_mode", "cert_paths"}
  BY ConfigFields DEF Config
<1> QED BY <1>1, <1>2 DEF deep_merge

LEMMA ResolveType ==
    ASSUME NEW c \in Config
    PROVE  /\ resolve_secret_refs(c) \in Config
           /\ resolve_secret_refs(c).active = c.active
           /\ resolve_secret_refs(c).groups = c.groups
           /\ resolve_secret_refs(c).default_group = c.default_group
           /\ resolve_secret_refs(c).profiles = [i \in DOMAIN c.profiles |-> resolved(c.profiles[i])]
<1> DEFINE ps == c.profiles
           qs == [i \in DOMAIN ps |-> resolved(ps[i])]
           S == Secrets \cup {Unset}
<1>1. ps \in Seq(ProfileOf(S)) /\ c \in ConfigOf(S) BY ConfigFields DEF Config
<1>2. ASSUME NEW p \in ProfileOf(S) PROVE resolved(p) \in ProfileOf(S)
  BY ConfigAssumption DEF ProfileOf, resolved
<1>3. qs \in Seq(ProfileOf(S))
  <2> HIDE DEF ps, S
  <2>1. /\ Len(ps) \in Nat /\ DOMAIN ps = 1 .. Len(ps)
        /\ \A i \in DOMAIN ps : ps[i] \in ProfileOf(S)
    BY <1>1, ProfilesOf
  <2> QED BY <1>2, <2>1, ProfileList
<1>4. resolve_secret_refs(c) = [c EXCEPT !.profiles = qs]
  BY DEF resolve_secret_refs, resolved
<1> HIDE DEF qs, S
<1>5. resolve_secret_refs(c) \in ConfigOf(S) /\ resolve_secret_refs(c).profiles = qs
      /\ resolve_secret_refs(c).active = c.active
      /\ resolve_secret_refs(c).groups = c.groups
      /\ resolve_secret_refs(c).default_group = c.default_group
  BY <1>1, <1>3, <1>4, WithProfiles
<1> QED BY <1>5 DEF S, qs, Config

LEMMA LoadType ==
    ASSUME NEW c \in Config
    PROVE  load_config(c) \in Config
BY BootAssumption, MergeType, ResolveType DEF load_config

\* Settings of other sections leave the profiles and the identity section valid.
LEMMA SectionsKept ==
    ASSUME NEW f \in Config, NEW p, is_patch(p), sections_valid(f),
           DOMAIN p \subseteq {"level", "cert_mode", "cert_paths"}
    PROVE  sections_valid(deep_merge(f, p))
<1> DEFINE d == deep_merge(f, p)
           m == deep_merge(f, env_overrides)
           n == deep_merge(d, env_overrides)
<1>1. d \in Config /\ \A k \in {"profiles", "active", "groups", "default_group"} :
            k \in DOMAIN f /\ k \in DOMAIN d /\ d[k] = f[k]
  <2>1. d \in Config /\ \A k \in DOMAIN f : d[k] = IF k \in DOMAIN p THEN p[k] ELSE f[k]
    BY MergeType
  <2>2. DOMAIN f = {"level", "profiles", "active", "groups", "default_group",
                    "cert_mode", "cert_paths"} /\ DOMAIN d = DOMAIN f
    BY <2>1, ConfigFields DEF Config
  <2> HIDE DEF d
  <2> QED BY <2>1, <2>2
<1> HIDE DEF d
<1>2. m \in Config /\ n \in Config
      /\ \A k \in {"profiles", "active", "groups", "default_group"} : n[k] = m[k]
  <2>1. /\ m \in Config
        /\ \A k \in DOMAIN f : m[k] = IF k \in DOMAIN env_overrides THEN env_overrides[k] ELSE f[k]
    BY BootAssumption, MergeType
  <2>2. /\ n \in Config
        /\ \A k \in DOMAIN d : n[k] = IF k \in DOMAIN env_overrides THEN env_overrides[k] ELSE d[k]
    BY <1>1, BootAssumption, MergeType
  <2> HIDE DEF m, n
  <2> QED BY <1>1, <2>1, <2>2
<1>3. load_config(f) = resolve_secret_refs(m) /\ load_config(d) = resolve_secret_refs(n)
  BY DEF load_config
<1> HIDE DEF m, n
<1>4. n.profiles = m.profiles /\ n.active = m.active /\ n.groups = m.groups
      /\ n.default_group = m.default_group
  BY <1>2
<1>5. /\ load_config(d).profiles = load_config(f).profiles
      /\ load_config(d).active = load_config(f).active
      /\ load_config(d).groups = load_config(f).groups
      /\ load_config(d).default_group = load_config(f).default_group
  <2>1. /\ load_config(d).profiles = [i \in DOMAIN n.profiles |-> resolved(n.profiles[i])]
        /\ load_config(f).profiles = [i \in DOMAIN m.profiles |-> resolved(m.profiles[i])]
    BY <1>2, <1>3, ResolveType
  <2>2. load_config(d).profiles = load_config(f).profiles BY <1>4, <2>1
  <2>3. /\ load_config(d).active = load_config(f).active
        /\ load_config(d).groups = load_config(f).groups
        /\ load_config(d).default_group = load_config(f).default_group
    BY <1>2, <1>3, <1>4, ResolveType
  <2> QED BY <2>2, <2>3
<1>6. validate_profiles(load_config(d)) BY <1>5 DEF sections_valid, validate_profiles
<1>7. validate_identity(load_config(d)) BY <1>5 DEF sections_valid, validate_identity
<1> QED BY <1>6, <1>7 DEF sections_valid, d

\* What the page shows, what a save of it restores.
LEMMA RedactType ==
    ASSUME NEW c \in Config
    PROVE  redact(c) \in Shown
<1> DEFINE S == Secrets \cup {Unset}
           T == {Unset, Mask}
           ps == c.profiles
           hide(p) == [p EXCEPT !.secret = IF @ = Unset THEN @ ELSE Mask]
           qs == [i \in DOMAIN ps |-> hide(ps[i])]
<1>1. ps \in Seq(ProfileOf(S)) /\ c \in ConfigOf(S) BY ConfigFields DEF Config
<1>2. ASSUME NEW p \in ProfileOf(S) PROVE hide(p) \in ProfileOf(T)
  BY DEF ProfileOf
<1>3. redact(c) = [c EXCEPT !.profiles = qs] BY DEF redact
<1>4. qs \in Seq(ProfileOf(T))
  <2> HIDE DEF ps, S, T, hide
  <2>1. /\ Len(ps) \in Nat /\ DOMAIN ps = 1 .. Len(ps)
        /\ \A i \in DOMAIN ps : ps[i] \in ProfileOf(S)
    BY <1>1, ProfilesOf
  <2> QED BY <1>2, <2>1, ProfileList
<1> HIDE DEF qs, S, T
<1>5. redact(c) \in ConfigOf(T) BY <1>1, <1>3, <1>4, WithProfiles
<1> QED BY <1>5 DEF T, Shown

LEMMA RestoreType ==
    ASSUME NEW new \in Shown, NEW old \in Config
    PROVE  /\ _restore_masked_values(new, old) \in Config
           /\ DOMAIN _restore_masked_values(new, old).profiles = DOMAIN new.profiles
           /\ \A i \in DOMAIN new.profiles :
                i \in DOMAIN old.profiles /\ new.profiles[i].secret = Mask =>
                    _restore_masked_values(new, old).profiles[i].secret = old.profiles[i].secret
<1> DEFINE S == Secrets \cup {Unset}
           T == {Unset, Mask}
           ps == new.profiles
           os == old.profiles
           back(i) == IF ps[i].secret = Mask
                        THEN IF i \in DOMAIN os THEN os[i].secret ELSE Unset
                        ELSE ps[i].secret
           put(i) == [ps[i] EXCEPT !.secret = back(i)]
           qs == [i \in DOMAIN ps |-> put(i)]
<1>1. ps \in Seq(ProfileOf(T)) /\ new \in ConfigOf(T) /\ os \in Seq(ProfileOf(S))
  BY ConfigFields DEF Config, Shown
<1>2. _restore_masked_values(new, old) = [new EXCEPT !.profiles = qs]
  BY DEF _restore_masked_values
<1>3. Unset \in S /\ \A x \in T : x # Mask => x = Unset OBVIOUS
<1> HIDE DEF S, T, ps, os
<1>4. /\ Len(ps) \in Nat /\ DOMAIN ps = 1 .. Len(ps)
      /\ \A i \in DOMAIN ps : ps[i] \in ProfileOf(T) /\ ps[i].secret \in T
  BY <1>1, ProfilesOf
<1>5. \A i \in DOMAIN os : os[i].secret \in S BY <1>1, ProfilesOf
<1>6. ASSUME NEW i \in DOMAIN ps PROVE back(i) \in S
  BY <1>3, <1>4, <1>5
<1> HIDE DEF back
<1>7. ASSUME NEW i \in DOMAIN ps PROVE put(i) \in ProfileOf(S) /\ put(i).secret = back(i)
  <2>1. ASSUME NEW p \in ProfileOf(T), NEW s \in S
        PROVE  [p EXCEPT !.secret = s] \in ProfileOf(S) /\ [p EXCEPT !.secret = s].secret = s
    BY DEF ProfileOf
  <2> QED BY <1>4, <1>6, <2>1
<1> HIDE DEF put
<1>8. qs \in Seq(ProfileOf(S)) /\ DOMAIN qs = DOMAIN ps /\ \A i \in DOMAIN ps : qs[i] = put(i)
  BY <1>4, <1>7, ProfileList
<1> HIDE DEF qs
<1>9. _restore_masked_values(new, old) \in ConfigOf(S)
      /\ _restore_masked_values(new, old).profiles = qs
  BY <1>1, <1>2, <1>8, WithProfiles
<1>10. \A i \in DOMAIN ps : i \in DOMAIN os /\ ps[i].secret = Mask => qs[i].secret = os[i].secret
  BY <1>7, <1>8 DEF back
<1> QED BY <1>8, <1>9, <1>10 DEF S, Config, ps, os

\* The handlers' patches are settings of the same type.
LEMMA EntryIs ==
    ASSUME NEW ps, NEW n \in names(ps)
    PROVE  \E k \in DOMAIN ps : ps[k].name = n /\ entry(ps, n) = ps[k]
<1> DEFINE k == CHOOSE i \in DOMAIN ps : ps[i].name = n
<1>1. k \in DOMAIN ps /\ ps[k].name = n BY DEF names
<1>2. entry(ps, n) = ps[k] BY DEF entry
<1> QED BY <1>1, <1>2

LEMMA ReplacedType ==
    ASSUME NEW S, NEW ps \in Seq(ProfileOf(S)), NEW q \in ProfileOf(S)
    PROVE  /\ replaced(ps, q) \in Seq(ProfileOf(S)) /\ DOMAIN replaced(ps, q) = DOMAIN ps
           /\ \A i \in DOMAIN ps : replaced(ps, q)[i] = IF ps[i].name = q.name THEN q ELSE ps[i]
<1> DEFINE qs == [i \in DOMAIN ps |-> IF ps[i].name = q.name THEN q ELSE ps[i]]
<1>1. /\ Len(ps) \in Nat /\ DOMAIN ps = 1 .. Len(ps) /\ \A i \in DOMAIN ps : ps[i] \in ProfileOf(S)
  BY ProfilesOf
<1>2. qs \in Seq(ProfileOf(S)) BY <1>1, ProfileList
<1> QED BY <1>2 DEF replaced

LEMMA WithoutType ==
    ASSUME NEW S, NEW ps \in Seq(ProfileOf(S)), NEW n
    PROVE  without(ps, n) \in Seq(ProfileOf(S))
BY OnlyElements DEF without

\* The profiles with one saved: in its place, or at the end.
profiles_with(c, q) == IF q.name \in names(c.profiles) THEN replaced(c.profiles, q)
                       ELSE Append(c.profiles, q)

LEMMA SaveIs ==
    ASSUME NEW c \in Config, NEW n \in ProfileNames, NEW p \in Payloads
    PROVE  \E q \in ProfileOf(Secrets \cup {Unset}) :
             /\ q.name = n
             /\ n \in names(c.profiles) /\ p.offset = Unset =>
                  q.offset = entry(c.profiles, n).offset
             /\ save_profile(c, n, p) \in {[profiles |-> profiles_with(c, q)],
                                           [profiles |-> profiles_with(c, q), active |-> n]}
<1> DEFINE known == n \in names(c.profiles)
           kept == IF known THEN entry(c.profiles, n) ELSE [secret |-> Unset, offset |-> 0]
           q == saved_profile(c, n, p)
           S == Secrets \cup {Unset}
<1>1. c.profiles \in Seq(ProfileOf(S)) BY ConfigFields DEF Config
<1>2. kept.secret \in S /\ kept.offset \in 0..9
  <2>1. known => entry(c.profiles, n).secret \in S /\ entry(c.profiles, n).offset \in 0..9
    <3> HIDE DEF S
    <3> QED BY <1>1, EntryIs, ProfilesOf
  <2>2. [secret |-> Unset, offset |-> 0].secret \in S
        /\ [secret |-> Unset, offset |-> 0].offset \in 0..9
    OBVIOUS
  <2> QED BY <2>1, <2>2
<1>3. /\ p.secret \in S /\ p.offset \in 0..9 \cup {Unset} /\ p.on \in BOOLEAN
  BY PayloadsAssumption
<1>4. q = [name |-> n, on |-> p.on,
           secret |-> IF p.secret = Unset THEN kept.secret ELSE p.secret,
           offset |-> IF p.offset = Unset THEN kept.offset ELSE p.offset]
  BY DEF saved_profile
<1>5. save_profile(c, n, p) =
        with_active(c, n, IF known THEN replaced(c.profiles, q) ELSE Append(c.profiles, q))
  BY DEF save_profile
<1>6. known => kept = entry(c.profiles, n) OBVIOUS
<1> HIDE DEF kept, q
<1>7. q \in ProfileOf(S) /\ q.name = n BY <1>2, <1>3, <1>4 DEF ProfileOf
<1>8. known /\ p.offset = Unset => q.offset = entry(c.profiles, n).offset BY <1>4, <1>6
<1>9. save_profile(c, n, p) \in {[profiles |-> profiles_with(c, q)],
                                 [profiles |-> profiles_with(c, q), active |-> n]}
  BY <1>5, <1>7 DEF profiles_with, with_active
<1> QED BY <1>7, <1>8, <1>9

LEMMA ProfilesPatch ==
    ASSUME NEW ps \in Seq(ProfileOf(Secrets \cup {Unset})), NEW n \in ProfileNames \cup {Unset}
    PROVE  is_patch([profiles |-> ps]) /\ is_patch([profiles |-> ps, active |-> n])
BY DEF is_patch

\* What the certificate pages patch.
LEMMA CertificatePatchIs ==
    ASSUME NEW op \in certificate_patches
    PROVE  /\ op.what = "certificates" /\ op.after \in After /\ is_patch(op.patch)
           /\ DOMAIN op.patch \subseteq {"level", "cert_mode", "cert_paths"}
<1> DEFINE P == {[cert_mode |-> m] : m \in {"auto", "external"}} \cup {[level |-> l] : l \in Levels}
           b == [what |-> "certificates", after |-> "render",
                 patch |-> [cert_mode |-> "external", cert_paths |-> TRUE]]
<1>1. op \in [what : {"certificates"}, after : {"republish"}, patch : P] \/ op = b
  BY DEF certificate_patches
<1>2. ASSUME NEW p \in P
      PROVE  is_patch(p) /\ DOMAIN p \subseteq {"level", "cert_mode", "cert_paths"}
  <2>1. CASE \E m \in {"auto", "external"} : p = [cert_mode |-> m] BY <2>1 DEF is_patch
  <2>2. CASE \E l \in Levels : p = [level |-> l] BY <2>2 DEF is_patch
  <2> QED BY <1>2, <2>1, <2>2
<1> HIDE DEF P
<1>3. CASE op \in [what : {"certificates"}, after : {"republish"}, patch : P]
  BY <1>2, <1>3 DEF After
<1>4. CASE op = b
  BY <1>4 DEF is_patch, After
<1> QED BY <1>1, <1>3, <1>4

LEMMA PatchType ==
    ASSUME NEW c \in Config, NEW op \in patches(c)
    PROVE  /\ is_patch(op.patch) /\ op.after \in After
           /\ op.what \in {"settings", "save", "enable", "delete", "group", "certificates"}
           /\ op.what = "certificates" =>
                DOMAIN op.patch \subseteq {"level", "cert_mode", "cert_paths"}
<1> DEFINE S == Secrets \cup {Unset}
           ps == c.profiles
<1>1. ps \in Seq(ProfileOf(S)) /\ c.groups \in SUBSET Groups BY ConfigFields DEF Config
<1>2. \A i \in DOMAIN ps : ps[i] \in ProfileOf(S) /\ ps[i].name \in ProfileNames
  <2> HIDE DEF S, ps
  <2> QED BY <1>1, ProfilesOf
<1>3. names(ps) \subseteq ProfileNames BY <1>2 DEF names
<1>4. CASE op \in [what : {"settings"}, after : {"render", "nothing"}, patch : settings_patches(c)]
  <2>1. op.patch \in settings_patches(c) /\ op.what = "settings" /\ op.after \in After
    BY <1>4 DEF After
  <2>2. CASE \E l \in Levels : op.patch = [level |-> l] BY <2>1, <2>2 DEF is_patch
  <2>3. CASE \E g \in Groups \cup {Unset} : op.patch = [default_group |-> g]
    BY <2>1, <2>3 DEF is_patch
  <2>4. CASE \E n \in names(ps) : op.patch = [active |-> n] BY <1>3, <2>1, <2>4 DEF is_patch
  <2>5. CASE \E m \in {"auto", "external"} : op.patch = [cert_mode |-> m]
    BY <2>1, <2>5 DEF is_patch
  <2> QED BY <2>1, <2>2, <2>3, <2>4, <2>5 DEF settings_patches
<1>5. CASE \E n \in ProfileNames, p \in Payloads :
              op = [what |-> "save", name |-> n, keeps |-> p.offset = Unset, after |-> "render",
                    patch |-> save_profile(c, n, p)]
  <2>1. PICK n \in ProfileNames, p \in Payloads :
              op = [what |-> "save", name |-> n, keeps |-> p.offset = Unset, after |-> "render",
                    patch |-> save_profile(c, n, p)]
    BY <1>5
  <2>2. op.patch = save_profile(c, n, p) /\ op.what = "save" /\ op.after \in After
    BY <2>1 DEF After
  <2>3. PICK q \in ProfileOf(S) :
             save_profile(c, n, p) \in {[profiles |-> profiles_with(c, q)],
                                        [profiles |-> profiles_with(c, q), active |-> n]}
    BY SaveIs
  <2> DEFINE qs == profiles_with(c, q)
  <2>4. qs \in Seq(ProfileOf(S))
    <3> HIDE DEF S, ps
    <3>1. replaced(ps, q) \in Seq(ProfileOf(S)) BY <1>1, ReplacedType
    <3>2. Append(ps, q) \in Seq(ProfileOf(S)) BY <1>1
    <3> QED BY <3>1, <3>2 DEF profiles_with, ps
  <2>5. op.patch \in {[profiles |-> qs], [profiles |-> qs, active |-> n]} BY <2>2, <2>3
  <2> HIDE DEF qs
  <2> QED BY <2>2, <2>4, <2>5, ProfilesPatch
<1>6. CASE \E n \in names(ps), on \in BOOLEAN :
              op = [what |-> "enable", name |-> n, keeps |-> TRUE, after |-> "render",
                    patch |-> set_profile_enabled(c, n, on)]
  <2>1. PICK n \in names(ps), on \in BOOLEAN :
              op = [what |-> "enable", name |-> n, keeps |-> TRUE, after |-> "render",
                    patch |-> set_profile_enabled(c, n, on)]
    BY <1>6
  <2> DEFINE q == [entry(ps, n) EXCEPT !.on = on]
             qs == replaced(ps, q)
  <2>2. entry(ps, n) \in ProfileOf(S) BY <1>2, EntryIs
  <2>3. q \in ProfileOf(S) BY <2>2 DEF ProfileOf
  <2>4. op.patch = [profiles |-> qs] /\ op.what = "enable" /\ op.after \in After
    BY <2>1 DEF set_profile_enabled, After
  <2> HIDE DEF q
  <2>5. qs \in Seq(ProfileOf(S))
    <3> HIDE DEF S, ps
    <3> QED BY <1>1, <2>3, ReplacedType
  <2> HIDE DEF qs
  <2> QED BY <2>4, <2>5, ProfilesPatch
<1>7. CASE \E n \in names(ps) :
              op = [what |-> "delete", name |-> n, after |-> "render",
                    patch |-> delete_profile(c, n)]
  <2>1. PICK n \in names(ps) :
              op = [what |-> "delete", name |-> n, after |-> "render",
                    patch |-> delete_profile(c, n)]
    BY <1>7
  <2> DEFINE qs == without(ps, n)
  <2>2. op.patch = delete_profile(c, n) /\ op.what = "delete" /\ op.after \in After
    BY <2>1 DEF After
  <2>3. qs \in Seq(ProfileOf(S))
    <3> HIDE DEF S, ps
    <3> QED BY <1>1, WithoutType
  <2>4. /\ qs = <<>> => delete_profile(c, n) = [profiles |-> qs, active |-> Unset]
        /\ qs # <<>> /\ c.active = n =>
                delete_profile(c, n) = [profiles |-> qs, active |-> qs[1].name]
        /\ qs # <<>> /\ c.active # n => delete_profile(c, n) = [profiles |-> qs]
    BY DEF delete_profile
  <2> HIDE DEF qs
  <2>5. qs # <<>> => qs[1].name \in ProfileNames
    <3> HIDE DEF S
    <3>1. qs # <<>> => 1 \in DOMAIN qs BY <2>3
    <3> QED BY <2>3, <3>1, ProfilesOf
  <2> QED BY <2>2, <2>3, <2>4, <2>5, ProfilesPatch
<1>8. CASE op \in [what : {"group"}, after : {"render"},
                    patch : {save_group_policy(c, g) : g \in Groups}
                            \cup {delete_group_policy(c, g) : g \in Groups}]
  <2>1. op.what = "group" /\ op.after \in After BY <1>8 DEF After
  <2>2. PICK g \in Groups : op.patch \in {save_group_policy(c, g), delete_group_policy(c, g)}
    BY <1>8
  <2>3. is_patch(op.patch)
    BY <1>1, <2>2 DEF save_group_policy, delete_group_policy, is_patch
  <2> QED BY <2>1, <2>3
<1>9. CASE op \in certificate_patches
  BY <1>9, CertificatePatchIs
<1> QED BY <1>4, <1>5, <1>6, <1>7, <1>8, <1>9 DEF patches

LEMMA EditAt ==
    ASSUME CfgTypes, NEW w \in Editors
    PROVE  /\ edit[w] \in Edit
           /\ edit[w].at \in {"idle", "read", "write", "load", "publish", "render"}
           /\ edit[w].at # "idle" <=> busy(w)
           /\ edit[w].at = "read" => edit[w] \in Reading
           /\ edit[w].at = "write" => edit[w] \in Writing
           /\ edit[w].at = "load" => edit[w] \in Loading
           /\ edit[w].at \in {"publish", "render"} => edit[w] \in Holding
<1>1. edit[w] \in Edit BY DEF CfgTypes
<1>2. CASE edit[w] = NoEdit BY <1>1, <1>2 DEF NoEdit, busy
<1>3. CASE edit[w] \in Reading BY <1>1, <1>3 DEF Reading, NoEdit, busy
<1>4. CASE edit[w] \in Writing BY <1>1, <1>4 DEF Writing, NoEdit, busy
<1>5. CASE edit[w] \in Loading BY <1>1, <1>5 DEF Loading, NoEdit, busy
<1>6. CASE edit[w] \in Holding BY <1>1, <1>6 DEF Holding, NoEdit, busy
<1> QED BY <1>1, <1>2, <1>3, <1>4, <1>5, <1>6 DEF Edit

\* A step of one editor's edit: no other edit is alone, and the cache is not fresh.
LEMMA EditMoves ==
    ASSUME CfgInv, NEW w \in Editors, busy(w), NEW x \in Edit, edit' = [edit EXCEPT ![w] = x],
           x # NoEdit /\ x.alone => edit[w].alone
    PROVE  /\ edit' \in [Editors -> Edit] /\ edit'[w] = x /\ ~fresh
           /\ \A v \in Editors : v # w => edit'[v] = edit[v] /\ ~(busy(v) /\ edit[v].alone)
           /\ OneEdit' /\ (EditOK(w)' => EditsOK')
<1>1. edit' \in [Editors -> Edit] /\ edit'[w] = x /\ \A v \in Editors : v # w => edit'[v] = edit[v]
  BY DEF CfgInv, CfgTypes
<1>2. ~fresh BY DEF CfgInv, FreshOK, busy
<1>3. ASSUME NEW v \in Editors, v # w PROVE ~(busy(v) /\ edit[v].alone)
  BY <1>3 DEF CfgInv, OneEdit, busy
<1>4. OneEdit'
  <2> SUFFICES ASSUME NEW a \in Editors, NEW v \in Editors, edit'[a] # NoEdit, edit'[a].alone,
                      v # a
               PROVE  edit'[v] = NoEdit
    BY DEF OneEdit, busy
  <2>1. a = w BY <1>1, <1>3 DEF busy
  <2>2. edit[w].alone BY <1>1, <2>1
  <2> QED BY <1>1, <2>1, <2>2 DEF CfgInv, OneEdit
<1>5. ASSUME EditOK(w)' PROVE EditsOK'
  <2>1. ASSUME NEW v \in Editors, v # w PROVE EditOK(v)'
    <3>1. ~((busy(v) /\ edit[v].alone)') BY <1>1, <1>3, <2>1 DEF busy
    <3> QED BY <3>1 DEF EditOK
  <2> QED BY <1>5, <2>1 DEF EditsOK
<1> QED BY <1>1, <1>2, <1>3, <1>4, <1>5

\* Holds, when one editor's record is replaced.
LEMMA HoldsMoves ==
    ASSUME Holds, NEW w \in Editors, NEW x, edit'[w] = x,
           \A v \in Editors : v # w => edit'[v] = edit[v],
           x.at \in {"publish", "render"} => validated(x.config),
           x.at = "write" /\ x.op.what = "certificates" => sections_valid(x.data)
    PROVE  Holds'
<1>1. ASSUME NEW v \in Editors
      PROVE  /\ edit'[v].at \in {"publish", "render"} => validated(edit'[v].config)
             /\ edit'[v].at = "write" /\ edit'[v].op.what = "certificates" =>
                    sections_valid(edit'[v].data)
  BY DEF Holds
<1> QED BY <1>1 DEF Holds

LEMMA LoadExistingStep ==
    ASSUME CfgInv, NEW w \in Editors, load_existing(w)
    PROVE  CfgInv'
<1> DEFINE e == edit[w]
           data == IF e.op.what = "source" THEN _restore_masked_values(e.op.content, file)
                   ELSE deep_merge(file, e.op.patch)
           x == [at |-> "write", op |-> e.op, alone |-> e.alone, fresh |-> e.fresh, data |-> data]
<1>1. e.at = "read" /\ e \in Reading /\ busy(w) /\ file \in Config
  BY EditAt DEF load_existing, CfgInv, CfgTypes
<1>2. edit' = [edit EXCEPT ![w] = x]
      /\ UNCHANGED <<file, cached, rendered, behind, editor, edits, fresh>>
  BY DEF load_existing
<1>3. e.op \in PatchOp \cup SourceOp /\ e.alone \in BOOLEAN /\ e.fresh \in BOOLEAN
  BY <1>1 DEF Reading
<1>4. data \in Config
  <2>1. CASE e.op \in PatchOp
    <3>1. PICK c \in Config : e.op \in patches(c) BY <2>1 DEF PatchOp
    <3>2. is_patch(e.op.patch) /\ e.op.what # "source" BY <3>1, PatchType
    <3> QED BY <1>1, <3>2, MergeType
  <2>2. CASE e.op \in SourceOp
    <3>1. e.op.what = "source" /\ e.op.content \in Shown BY <2>2 DEF SourceOp
    <3> QED BY <1>1, <3>1, RestoreType
  <2> QED BY <1>3, <2>1, <2>2
<1>5. data = IF e.op.what = "source" THEN _restore_masked_values(e.op.content, file)
             ELSE deep_merge(file, e.op.patch)
  OBVIOUS
<1> HIDE DEF data
<1>6. /\ x.at = "write" /\ x.op = e.op /\ x.alone = e.alone /\ x.fresh = e.fresh /\ x.data = data
      /\ x \in Writing
  BY <1>3, <1>4 DEF Writing
<1> HIDE DEF x
<1>7. x \in Edit /\ x # NoEdit BY <1>6 DEF Edit, NoEdit
<1>8. /\ edit' \in [Editors -> Edit] /\ edit'[w] = x /\ ~fresh /\ OneEdit'
      /\ EditOK(w)' => EditsOK'
      /\ \A v \in Editors : v # w => edit'[v] = edit[v]
  BY <1>1, <1>2, <1>6, <1>7, EditMoves
<1>9. EditOK(w) BY DEF CfgInv, EditsOK
<1>10. EditOK(w)' BY <1>1, <1>2, <1>5, <1>6, <1>8, <1>9 DEF EditOK, InStep, busy
<1>11. CfgTypes' BY <1>2, <1>8 DEF CfgInv, CfgTypes
<1>12. FreshOK' BY <1>2, <1>8 DEF FreshOK
<1>13. ConfigsValid'
  <2>1. ASSUME e.op.what = "certificates" PROVE sections_valid(data)
    <3>1. e.op \in PatchOp BY <1>3, <2>1 DEF SourceOp
    <3>2. PICK c \in Config : e.op \in patches(c) BY <3>1 DEF PatchOp
    <3>3. is_patch(e.op.patch) /\ DOMAIN e.op.patch \subseteq {"level", "cert_mode", "cert_paths"}
      BY <2>1, <3>2, PatchType
    <3>4. data = deep_merge(file, e.op.patch) BY <1>5, <2>1
    <3> QED BY <1>1, <3>3, <3>4, SectionsKept DEF CfgInv, ConfigsValid
  <2>2. Holds' BY <1>6, <1>8, <2>1, HoldsMoves DEF CfgInv, ConfigsValid
  <2> QED BY <1>2, <2>2 DEF CfgInv, ConfigsValid
<1> QED BY <1>8, <1>10, <1>11, <1>12, <1>13 DEF CfgInv

LEMMA WriteConfigStep ==
    ASSUME CfgInv, NEW w \in Editors, write_config(w)
    PROVE  CfgInv'
<1> DEFINE e == edit[w]
           written == e.op.what = "certificates" \/ model_validate(e.data)
<1>1. e.at = "write" /\ e \in Writing /\ busy(w) BY EditAt DEF write_config, CfgInv
<1>2. e.data \in Config /\ e.alone \in BOOLEAN /\ e.op \in PatchOp \cup SourceOp
  BY <1>1 DEF Writing
<1>3. UNCHANGED <<cached, rendered, behind, editor, edits>> BY DEF write_config
<1>4. CASE written
  <2> DEFINE x == [at |-> "load", after |-> e.op.after, alone |-> e.alone]
  <2>1. file' = e.data /\ edit' = [edit EXCEPT ![w] = x] /\ UNCHANGED fresh
    BY <1>4 DEF write_config
  <2>2. e.op.after \in After
    <3>1. CASE e.op \in PatchOp BY <3>1, PatchType DEF PatchOp
    <3>2. CASE e.op \in SourceOp BY <3>2 DEF SourceOp, After
    <3> QED BY <1>2, <3>1, <3>2
  <2>3. x.at = "load" /\ x.alone = e.alone /\ x \in Loading BY <1>2, <2>2 DEF Loading
  <2> HIDE DEF x
  <2>4. x \in Edit /\ x # NoEdit BY <2>3 DEF Edit, NoEdit
  <2>5. /\ edit' \in [Editors -> Edit] /\ edit'[w] = x /\ ~fresh /\ OneEdit'
        /\ EditOK(w)' => EditsOK'
        /\ \A v \in Editors : v # w => edit'[v] = edit[v]
    BY <1>1, <2>1, <2>3, <2>4, EditMoves
  <2>6. EditOK(w)' BY <2>3, <2>5 DEF EditOK
  <2>7. CfgTypes' BY <1>2, <1>3, <2>1, <2>5 DEF CfgInv, CfgTypes
  <2>8. FreshOK' BY <2>1, <2>5 DEF FreshOK
  <2>9. ConfigsValid'
    <3>1. Holds' BY <2>3, <2>5, HoldsMoves DEF CfgInv, ConfigsValid
    <3>2. sections_valid(e.data)
      <4>1. CASE e.op.what = "certificates" BY <1>1, <4>1 DEF CfgInv, ConfigsValid, Holds
      <4>2. CASE model_validate(e.data)
        BY <4>2 DEF model_validate, validated, sections_valid
      <4> QED BY <1>4, <4>1, <4>2
    <3> QED BY <1>3, <2>1, <3>1, <3>2 DEF CfgInv, ConfigsValid
  <2> QED BY <2>5, <2>6, <2>7, <2>8, <2>9 DEF CfgInv
<1>5. CASE ~written
  <2>1. edit' = [edit EXCEPT ![w] = NoEdit] /\ fresh' = (e.alone /\ e.fresh) /\ UNCHANGED file
    BY <1>5 DEF write_config
  <2>2. NoEdit \in Edit BY DEF Edit
  <2>3. /\ edit' \in [Editors -> Edit] /\ edit'[w] = NoEdit /\ OneEdit'
        /\ EditOK(w)' => EditsOK'
        /\ \A v \in Editors : v # w => edit'[v] = edit[v]
    BY <1>1, <2>1, <2>2, EditMoves
  <2>4. EditOK(w)' BY <2>3 DEF EditOK, busy
  <2>5. fresh' \in BOOLEAN BY <2>1
  <2>6. CfgTypes' BY <1>3, <2>1, <2>3, <2>5 DEF CfgInv, CfgTypes
  <2>7. FreshOK'
    <3>1. SUFFICES ASSUME e.alone, e.fresh
                   PROVE  (\A v \in Editors : edit'[v] = NoEdit) /\ InStep
      BY <1>3, <2>1 DEF FreshOK, InStep
    <3>2. \A v \in Editors : v # w => edit[v] = NoEdit BY <1>1, <3>1 DEF CfgInv, OneEdit
    <3>3. InStep BY <1>1, <3>1 DEF CfgInv, EditsOK, EditOK
    <3> QED BY <2>3, <3>2, <3>3
  <2>8. ConfigsValid'
    <3>1. NoEdit.at = "idle" BY DEF NoEdit
    <3>2. Holds' BY <2>3, <3>1, HoldsMoves DEF CfgInv, ConfigsValid
    <3> QED BY <1>3, <2>1, <3>2 DEF CfgInv, ConfigsValid
  <2> QED BY <2>3, <2>4, <2>6, <2>7, <2>8 DEF CfgInv
<1> QED BY <1>4, <1>5

LEMMA LoadBackStep ==
    ASSUME CfgInv, NEW w \in Editors, load_back(w)
    PROVE  CfgInv'
<1> DEFINE e == edit[w]
           h == [at |-> IF w = Cli THEN "render" ELSE "publish", after |-> e.after,
                 alone |-> e.alone, fresh |-> w # Cli, config |-> load_config(file)]
           x == IF ~model_validate(file) THEN NoEdit ELSE h
<1>1. e.at = "load" /\ e \in Loading /\ busy(w) BY EditAt DEF load_back, CfgInv
<1>2. e.alone \in BOOLEAN /\ e.after \in After BY <1>1 DEF Loading
<1>3. edit' = [edit EXCEPT ![w] = x]
      /\ UNCHANGED <<file, cached, rendered, behind, editor, edits, fresh>>
  BY DEF load_back
<1>4. load_config(file) \in Config BY LoadType DEF CfgInv, CfgTypes
<1>5. /\ h.at \in {"publish", "render"} /\ (h.at = "render" => ~h.fresh)
      /\ h.alone = e.alone /\ h.config = load_config(file) /\ h \in Holding
  BY <1>2, <1>4 DEF Holding
<1> HIDE DEF h
<1>6. /\ x \in Edit /\ (x # NoEdit => x = h /\ validated(h.config))
      /\ h # NoEdit
  BY <1>5 DEF Edit, NoEdit, model_validate
<1> HIDE DEF x
<1>7. /\ edit' \in [Editors -> Edit] /\ edit'[w] = x /\ ~fresh /\ OneEdit'
      /\ EditOK(w)' => EditsOK'
      /\ \A v \in Editors : v # w => edit'[v] = edit[v]
  BY <1>1, <1>3, <1>5, <1>6, EditMoves
<1>8. EditOK(w)' BY <1>3, <1>5, <1>6, <1>7 DEF EditOK, busy
<1>9. CfgTypes' BY <1>3, <1>7 DEF CfgInv, CfgTypes
<1>10. FreshOK' BY <1>3, <1>7 DEF FreshOK
<1>11. ConfigsValid'
  <2>1. NoEdit.at = "idle" BY DEF NoEdit
  <2>2. Holds' BY <1>5, <1>6, <1>7, <2>1, HoldsMoves DEF CfgInv, ConfigsValid
  <2> QED BY <1>3, <2>2 DEF CfgInv, ConfigsValid
<1> QED BY <1>7, <1>8, <1>9, <1>10, <1>11 DEF CfgInv

LEMMA PublishStep ==
    ASSUME CfgInv, NEW w \in Editors, publish(w)
    PROVE  CfgInv'
<1> DEFINE e == edit[w]
<1>1. e.at = "publish" /\ e \in Holding /\ busy(w) BY EditAt DEF publish, CfgInv
<1>2. cached' = e.config /\ UNCHANGED <<file, rendered, editor, edits>> BY DEF publish
<1>3. e.config \in Config /\ e.alone \in BOOLEAN /\ validated(e.config)
  BY <1>1 DEF Holding, CfgInv, ConfigsValid, Holds
<1>4. e.alone => e.config = load_config(file) BY <1>1 DEF CfgInv, EditsOK, EditOK
<1>5. CASE e.after # "nothing"
  <2> DEFINE x == [e EXCEPT !.at = "render"]
  <2>1. edit' = [edit EXCEPT ![w] = x] /\ UNCHANGED <<fresh, behind>> BY <1>5 DEF publish
  <2>2. x.at = "render" /\ x.alone = e.alone /\ x.config = e.config /\ x \in Holding
    BY <1>1 DEF Holding
  <2> HIDE DEF x
  <2>3. x \in Edit /\ x # NoEdit BY <2>2 DEF Edit, NoEdit
  <2>4. /\ edit' \in [Editors -> Edit] /\ edit'[w] = x /\ ~fresh /\ OneEdit'
        /\ EditOK(w)' => EditsOK'
        /\ \A v \in Editors : v # w => edit'[v] = edit[v]
    BY <1>1, <2>1, <2>2, <2>3, EditMoves
  <2>5. EditOK(w)' BY <1>2, <1>4, <2>2, <2>4 DEF EditOK
  <2>6. CfgTypes' BY <1>2, <1>3, <2>1, <2>4 DEF CfgInv, CfgTypes
  <2>7. FreshOK' BY <2>1, <2>4 DEF FreshOK
  <2>8. ConfigsValid'
    <3>1. Holds' BY <1>3, <2>2, <2>4, HoldsMoves DEF CfgInv, ConfigsValid
    <3> QED BY <1>2, <1>3, <3>1 DEF CfgInv, ConfigsValid
  <2> QED BY <2>4, <2>5, <2>6, <2>7, <2>8 DEF CfgInv
<1>6. CASE e.after = "nothing"
  <2>1. edit' = [edit EXCEPT ![w] = NoEdit] /\ fresh' = e.alone /\ behind' = TRUE
    BY <1>6 DEF publish
  <2>2. NoEdit \in Edit /\ NoEdit.at = "idle" BY DEF Edit, NoEdit
  <2>3. /\ edit' \in [Editors -> Edit] /\ edit'[w] = NoEdit /\ OneEdit'
        /\ EditOK(w)' => EditsOK'
        /\ \A v \in Editors : v # w => edit'[v] = edit[v]
    BY <1>1, <2>1, <2>2, EditMoves
  <2>4. EditOK(w)' BY <2>3 DEF EditOK, busy
  <2>5. CfgTypes' BY <1>2, <1>3, <2>1, <2>3 DEF CfgInv, CfgTypes
  <2>6. FreshOK'
    <3>1. SUFFICES ASSUME e.alone PROVE \A v \in Editors : edit'[v] = NoEdit
      BY <1>2, <1>4, <2>1 DEF FreshOK, InStep
    <3>2. \A v \in Editors : v # w => edit[v] = NoEdit BY <1>1, <3>1 DEF CfgInv, OneEdit
    <3> QED BY <2>3, <3>2
  <2>7. ConfigsValid'
    <3>1. Holds' BY <2>2, <2>3, HoldsMoves DEF CfgInv, ConfigsValid
    <3> QED BY <1>2, <1>3, <3>1 DEF CfgInv, ConfigsValid
  <2> QED BY <2>3, <2>4, <2>5, <2>6, <2>7 DEF CfgInv
<1> QED BY <1>5, <1>6

LEMMA WriteRenderedStep ==
    ASSUME CfgInv, NEW w \in Editors, write_rendered_files(w)
    PROVE  CfgInv'
<1> DEFINE e == edit[w]
<1>1. e.at = "render" /\ e \in Holding /\ busy(w) BY EditAt DEF write_rendered_files, CfgInv
<1>2. /\ rendered' = e.config /\ edit' = [edit EXCEPT ![w] = NoEdit]
      /\ fresh' = (e.alone /\ e.fresh) /\ behind' = FALSE
      /\ cached' = e.config \/ cached' = cached
      /\ UNCHANGED <<file, editor, edits>>
  BY DEF write_rendered_files
<1>3. NoEdit \in Edit /\ NoEdit.at = "idle" BY DEF Edit, NoEdit
<1>4. /\ edit' \in [Editors -> Edit] /\ edit'[w] = NoEdit /\ OneEdit'
      /\ EditOK(w)' => EditsOK'
      /\ \A v \in Editors : v # w => edit'[v] = edit[v]
  BY <1>1, <1>2, <1>3, EditMoves
<1>5. e.config \in Config /\ validated(e.config)
  BY <1>1 DEF Holding, CfgInv, ConfigsValid, Holds
<1>6. EditOK(w)' BY <1>4 DEF EditOK, busy
<1>7. fresh' \in BOOLEAN /\ behind' \in BOOLEAN BY <1>2
<1>8. CfgTypes' BY <1>2, <1>4, <1>5, <1>7 DEF CfgInv, CfgTypes
<1>9. FreshOK'
  <2>1. SUFFICES ASSUME e.alone, e.fresh
                 PROVE  /\ \A v \in Editors : edit'[v] = NoEdit
                        /\ cached = load_config(file) /\ e.config = load_config(file)
    BY <1>2 DEF FreshOK, InStep
  <2>2. \A v \in Editors : v # w => edit[v] = NoEdit BY <1>1, <2>1 DEF CfgInv, OneEdit
  <2>3. cached = load_config(file) /\ e.config = load_config(file)
    BY <1>1, <2>1 DEF CfgInv, EditsOK, EditOK
  <2> QED BY <1>4, <2>2, <2>3
<1>10. ConfigsValid'
  <2>1. Holds' BY <1>3, <1>4, HoldsMoves DEF CfgInv, ConfigsValid
  <2>2. validated(cached') BY <1>2, <1>5 DEF CfgInv, ConfigsValid
  <2> QED BY <1>2, <1>5, <2>1, <2>2 DEF CfgInv, ConfigsValid
<1> QED BY <1>4, <1>6, <1>8, <1>9, <1>10 DEF CfgInv

\* An edit starts: those under way are no longer alone.
LEMMA StartStep ==
    ASSUME CfgInv, NEW w \in Editors, NEW x \in Reading \cup Holding, start(w, x),
           x.alone = alone, x.fresh = fresh,
           x.at = "read" /\ fresh /\ x.op.what # "source" => x.op \in patches(cached),
           x.at # "read" => x.at = "render" /\ validated(x.config),
           x.at # "read" /\ fresh => x.config = load_config(file)
    PROVE  CfgInv'
<1>1. /\ edit[w] = NoEdit /\ edits' = edits + 1 /\ fresh' = FALSE
      /\ UNCHANGED <<file, cached, rendered, behind, editor>>
  BY DEF start
<1>2. edit' = overlapped(w, x) BY DEF start
<1>3. alone \in BOOLEAN /\ fresh \in BOOLEAN BY DEF CfgInv, CfgTypes, alone
<1>4. alone <=> \A v \in Editors : edit[v] = NoEdit BY DEF busy, alone
<1>5. x.at \in {"read", "render"} /\ x # NoEdit BY DEF Reading, Holding, NoEdit
<1>6. edit'[w] = x BY <1>2 DEF overlapped
<1>7. ASSUME NEW v \in Editors, v # w, edit[v] = NoEdit PROVE edit'[v] = NoEdit
  BY <1>2, <1>7 DEF overlapped, busy
<1>8. ASSUME NEW v \in Editors, v # w, edit[v] # NoEdit
      PROVE  /\ edit'[v] \in Edit /\ edit'[v].alone = FALSE /\ edit'[v].at = edit[v].at
             /\ edit[v].at \in {"publish", "render"} => edit'[v].config = edit[v].config
             /\ edit[v].at = "write" => edit'[v].op = edit[v].op /\ edit'[v].data = edit[v].data
  <2>1. edit'[v] = [edit[v] EXCEPT !.alone = FALSE] BY <1>2, <1>8 DEF overlapped, busy
  <2>2. edit[v] \in Edit BY DEF CfgInv, CfgTypes
  <2>3. CASE edit[v] \in Reading BY <2>1, <2>3 DEF Reading, Edit
  <2>4. CASE edit[v] \in Writing BY <2>1, <2>4 DEF Writing, Edit
  <2>5. CASE edit[v] \in Loading BY <2>1, <2>5 DEF Loading, Edit
  <2>6. CASE edit[v] \in Holding BY <2>1, <2>6 DEF Holding, Edit
  <2> QED BY <1>8, <2>2, <2>3, <2>4, <2>5, <2>6 DEF Edit
<1>9. x \in Edit /\ NoEdit \in Edit BY DEF Edit
<1>10. edit' \in [Editors -> Edit]
  <2>1. \A v \in Editors : edit'[v] \in Edit BY <1>6, <1>7, <1>8, <1>9
  <2>2. edit' = [v \in Editors |-> edit'[v]] BY <1>2 DEF overlapped
  <2> QED BY <2>1, <2>2
<1>11. OneEdit'
  <2> SUFFICES ASSUME NEW a \in Editors, NEW v \in Editors, edit'[a] # NoEdit, edit'[a].alone,
                      v # a
               PROVE  edit'[v] = NoEdit
    BY DEF OneEdit, busy
  <2>1. a = w BY <1>7, <1>8
  <2>2. edit[v] = NoEdit BY <1>4, <1>5, <1>6, <2>1
  <2> QED BY <1>7, <2>1, <2>2
<1>12. EditsOK'
  <2>1. ASSUME NEW v \in Editors, v # w PROVE EditOK(v)'
    <3>1. ~((busy(v) /\ edit[v].alone)') BY <1>7, <1>8, <2>1 DEF busy
    <3> QED BY <3>1 DEF EditOK
  <2>2. EditOK(w)'
    <3>1. fresh => InStep BY DEF CfgInv, FreshOK
    <3> QED BY <1>1, <1>5, <1>6, <3>1 DEF EditOK, InStep
  <2> QED BY <2>1, <2>2 DEF EditsOK
<1>13. CfgTypes'
  <2>1. /\ file \in Config /\ cached \in Config /\ rendered \in Config
        /\ editor # Unset => editor \in Shown
        /\ edits \in Nat /\ behind \in BOOLEAN
    BY DEF CfgInv, CfgTypes
  <2>2. fresh' \in BOOLEAN BY <1>1
  <2>3. edits' \in Nat BY <1>1, <2>1
  <2> QED BY <1>1, <1>10, <2>1, <2>2, <2>3 DEF CfgTypes
<1>14. FreshOK' BY <1>1 DEF FreshOK
<1>15. ConfigsValid'
  <2>1. ASSUME NEW v \in Editors
        PROVE  /\ edit'[v].at \in {"publish", "render"} => validated(edit'[v].config)
               /\ edit'[v].at = "write" /\ edit'[v].op.what = "certificates" =>
                      sections_valid(edit'[v].data)
    <3>1. CASE v = w BY <1>5, <1>6, <3>1
    <3>2. CASE v # w /\ edit[v] = NoEdit BY <1>7, <3>2 DEF NoEdit
    <3>3. CASE v # w /\ edit[v] # NoEdit
      BY <1>8, <3>3 DEF CfgInv, ConfigsValid, Holds
    <3> QED BY <3>1, <3>2, <3>3
  <2>2. Holds' BY <2>1 DEF Holds
  <2> QED BY <1>1, <2>2 DEF CfgInv, ConfigsValid
<1> QED BY <1>11, <1>12, <1>13, <1>14, <1>15 DEF CfgInv

\* A save is requested.
LEMMA EditRequestStep ==
    ASSUME CfgInv, NEW w \in Editors, NEW op \in PatchOp \cup SourceOp, save_request(w, op),
           fresh /\ op.what # "source" => op \in patches(cached)
    PROVE  CfgInv'
<1> DEFINE x == [at |-> "read", op |-> op, alone |-> alone, fresh |-> fresh]
<1>1. start(w, x) BY DEF save_request
<1>2. alone \in BOOLEAN /\ fresh \in BOOLEAN BY DEF CfgInv, CfgTypes, alone
<1>3. x.at = "read" /\ x.op = op /\ x.alone = alone /\ x.fresh = fresh /\ x \in Reading
  BY <1>2 DEF Reading
<1> HIDE DEF x
<1> QED BY <1>1, <1>3, StartStep

\* A rendering is.
LEMMA RenderStep ==
    ASSUME CfgInv, NEW w \in Editors, NEW c \in Config, validated(c),
           fresh => c = load_config(file),
           start(w, [at |-> "render", after |-> "render", alone |-> alone, fresh |-> fresh,
                     config |-> c])
    PROVE  CfgInv'
<1> DEFINE x == [at |-> "render", after |-> "render", alone |-> alone, fresh |-> fresh,
                 config |-> c]
<1>1. start(w, x) OBVIOUS
<1>2. alone \in BOOLEAN /\ fresh \in BOOLEAN BY DEF CfgInv, CfgTypes, alone
<1>3. x.at = "render" /\ x.config = c /\ x.alone = alone /\ x.fresh = fresh /\ x \in Holding
  BY <1>2 DEF Holding, After
<1> HIDE DEF x
<1> QED BY <1>1, <1>3, StartStep

LEMMA ShownStep ==
    ASSUME CfgInv, UNCHANGED <<file, cached, rendered, behind, edit, edits, fresh>>,
           editor' = editor \/ editor' = redact(cached)
    PROVE  CfgInv'
<1>1. editor' # Unset => editor' \in Shown BY RedactType DEF CfgInv, CfgTypes
<1>2. CfgTypes' BY <1>1 DEF CfgInv, CfgTypes
<1>3. OneEdit' BY DEF CfgInv, OneEdit, busy
<1>4. EditsOK' BY DEF CfgInv, EditsOK, EditOK, InStep, busy
<1>5. FreshOK' BY DEF CfgInv, FreshOK, InStep
<1>6. ConfigsValid' BY DEF CfgInv, ConfigsValid, Holds
<1> QED BY <1>2, <1>3, <1>4, <1>5, <1>6 DEF CfgInv

LEMMA CfgInvInit == CfgInit => CfgInv
<1> SUFFICES ASSUME CfgInit PROVE CfgInv OBVIOUS
<1>1. /\ file = Init_File /\ cached = load_config(Init_File) /\ rendered = load_config(Init_File)
      /\ editor = Unset /\ edit = [w \in Editors |-> NoEdit] /\ edits = 0 /\ fresh = TRUE
      /\ behind = FALSE
  BY DEF CfgInit
<1>2. /\ load_config(Init_File) \in Config /\ validated(load_config(Init_File))
      /\ sections_valid(Init_File)
  BY BootAssumption, LoadType DEF model_validate, validated, sections_valid
<1>3. \A w \in Editors : edit[w] = NoEdit /\ edit[w].at = "idle" BY <1>1 DEF NoEdit
<1>4. CfgTypes BY <1>1, <1>2, BootAssumption DEF CfgTypes, Edit
<1>5. OneEdit BY <1>3 DEF OneEdit
<1>6. EditsOK BY <1>3 DEF EditsOK, EditOK, busy
<1>7. FreshOK BY <1>1, <1>3 DEF FreshOK, InStep
<1>8. ConfigsValid BY <1>1, <1>2, <1>3 DEF ConfigsValid, Holds
<1> QED BY <1>4, <1>5, <1>6, <1>7, <1>8 DEF CfgInv

LEMMA CfgInvStep == CfgInv /\ [CfgNext]_cfgVars => CfgInv'
<1> SUFFICES ASSUME CfgInv, [CfgNext]_cfgVars PROVE CfgInv' OBVIOUS
<1>0. Workers \subseteq Editors /\ Cli \in Editors BY DEF Editors
<1>1. CASE \E w \in Workers : panel_edit(w)
  <2>1. PICK w \in Workers, op \in patches(cached) : save_request(w, op)
    BY <1>1 DEF panel_edit
  <2>2. op \in PatchOp BY DEF PatchOp, CfgInv, CfgTypes
  <2> QED BY <1>0, <2>1, <2>2, EditRequestStep
<1>2. CASE \E w \in Workers : save_config_source(w)
  <2>1. PICK w \in Workers, gone \in ProfileNames \cup {Unset}, after \in {"render", "nothing"} :
          /\ editor # Unset
          /\ save_request(w, [what |-> "source", after |-> after,
                              content |-> [editor EXCEPT !.profiles = without(@, gone)]])
    BY <1>2 DEF save_config_source
  <2> DEFINE op == [what |-> "source", after |-> after,
                    content |-> [editor EXCEPT !.profiles = without(@, gone)]]
  <2>2. editor \in ConfigOf({Unset, Mask}) BY <2>1 DEF CfgInv, CfgTypes, Shown
  <2>3. without(editor.profiles, gone) \in Seq(ProfileOf({Unset, Mask}))
    BY <2>2, ConfigFields, WithoutType
  <2>4. [editor EXCEPT !.profiles = without(@, gone)] \in Shown
    <3> DEFINE ps == without(editor.profiles, gone)
    <3>1. [editor EXCEPT !.profiles = without(@, gone)] = [editor EXCEPT !.profiles = ps] OBVIOUS
    <3> HIDE DEF ps
    <3>2. [editor EXCEPT !.profiles = ps] \in ConfigOf({Unset, Mask})
      BY <2>2, <2>3, WithProfiles DEF ps
    <3> QED BY <3>1, <3>2 DEF Shown
  <2>5. op \in SourceOp /\ op.what = "source" BY <2>4 DEF SourceOp
  <2>6. save_request(w, op) BY <2>1
  <2> HIDE DEF op
  <2> QED BY <1>0, <2>5, <2>6, EditRequestStep
<1>3. CASE cli_edit
  <2>1. PICK op \in cli_patches(load_config(file)) : save_request(Cli, op)
    BY <1>3 DEF cli_edit
  <2>2. op \in patches(load_config(file)) BY DEF cli_patches
  <2>3. load_config(file) \in Config BY LoadType DEF CfgInv, CfgTypes
  <2>4. op \in PatchOp BY <2>2, <2>3 DEF PatchOp
  <2>5. fresh => op \in patches(cached) BY <2>2 DEF CfgInv, FreshOK, InStep
  <2> QED BY <1>0, <2>1, <2>4, <2>5, EditRequestStep
<1>7. CASE \E w \in Workers : write_rendered_config(w)
  <2>1. cached \in Config /\ validated(cached) /\ (fresh => cached = load_config(file))
    BY DEF CfgInv, CfgTypes, ConfigsValid, FreshOK, InStep
  <2> QED BY <1>0, <1>7, <2>1, RenderStep DEF write_rendered_config
<1>8. CASE config_render
  <2>1. load_config(file) \in Config BY LoadType DEF CfgInv, CfgTypes
  <2>2. validated(load_config(file)) BY <1>8 DEF config_render, model_validate
  <2> QED BY <1>0, <1>8, <2>1, <2>2, RenderStep DEF config_render
<1>4. CASE get_config_source
  <2>1. editor' = redact(cached) /\ UNCHANGED <<file, cached, rendered, behind, edit, edits, fresh>>
    BY <1>4 DEF get_config_source
  <2> QED BY <2>1, ShownStep
<1>5. CASE \E w \in Editors : apply_config_patch(w)
  BY <1>5, LoadExistingStep, WriteConfigStep, LoadBackStep, PublishStep, WriteRenderedStep
     DEF apply_config_patch
<1>6. CASE UNCHANGED cfgVars
  <2>1. editor' = editor /\ UNCHANGED <<file, cached, rendered, behind, edit, edits, fresh>>
    BY <1>6 DEF cfgVars
  <2> QED BY <2>1, ShownStep
<1> QED BY <1>1, <1>2, <1>3, <1>4, <1>5, <1>6, <1>7, <1>8 DEF CfgNext

LEMMA CfgInvHolds == CfgSpec => []CfgInv
BY CfgInvInit, CfgInvStep, PTL DEF CfgSpec

(* Type correctness: config.yaml, the cache and the rendered configuration   *)
(* never hold a mask, the source editor never a secret.                      *)
THEOREM CfgTypesHold == CfgSpec => []CfgTypeOK
<1>1. CfgInv => CfgTypeOK
  <2> SUFFICES ASSUME CfgInv PROVE CfgTypeOK OBVIOUS
  <2>1. \A w \in Editors : edit[w].at \in {"idle", "read", "write", "load", "publish", "render"}
    BY EditAt DEF CfgInv
  <2> QED BY <2>1 DEF CfgInv, CfgTypes, CfgTypeOK
<1> QED BY <1>1, CfgInvHolds, PTL

(* However edits interleave, what the panel holds and what was rendered      *)
(* passed every validator, and the file's profiles and identity section pass *)
(* theirs even when a certificate page left its own section invalid; for any *)
(* number of threads, edits, profiles and groups.                            *)
THEOREM ConfigIsAlwaysValid == CfgSpec => []ConfigAlwaysValid
<1>1. CfgInv => ConfigAlwaysValid
  BY DEF CfgInv, ConfigsValid, sections_valid, ConfigAlwaysValid
<1> QED BY <1>1, CfgInvHolds, PTL

(* Unless edits overlapped or korctl made the last one, the panel's cache is *)
(* that of the file, and so are the generated files, unless the last thing   *)
(* that became of them is a save that was not to be rendered.                *)
THEOREM CacheIsTheFile == CfgSpec => []CacheFollowsFile
<1>1. CfgInv => CacheFollowsFile BY DEF CfgInv, FreshOK, InStep, CacheFollowsFile
<1> QED BY <1>1, CfgInvHolds, PTL

\* The file changes only by an editor's write.
LEMMA FileWritten ==
    ASSUME CfgInv, CfgNext, file' # file
    PROVE  \E v \in Editors : /\ edit[v].at = "write" /\ busy(v) /\ file' = edit[v].data
                              /\ edit[v].data \in Config
<1>1. \E v \in Editors : write_config(v)
  BY DEF CfgNext, panel_edit, save_config_source, cli_edit, get_config_source,
         apply_config_patch, load_existing, load_back, publish, write_rendered_files,
         write_rendered_config, config_render, save_request, start
<1>2. PICK v \in Editors : write_config(v) BY <1>1
<1>3. edit[v].at = "write" /\ file' = edit[v].data BY <1>2 DEF write_config
<1>4. edit[v] \in Writing /\ busy(v) BY <1>3, EditAt DEF CfgInv
<1> QED BY <1>3, <1>4 DEF Writing

(* A save of the source editor never writes a mask, and every masked secret  *)
(* stays the one of the file.                                                *)
THEOREM SourceSecretsKept == CfgSpec => SourceKeepsSecrets
<1> DEFINE SecretsKept(w) ==
             LET e == edit[w]
             IN  e.at = "write" /\ e.op.what = "source" /\ file' # file =>
                   /\ \A i \in DOMAIN file'.profiles : file'.profiles[i].secret # Mask
                   /\ (e.alone /\ [i \in DOMAIN file'.profiles |-> file'.profiles[i].name]
                           = [i \in DOMAIN file.profiles |-> file.profiles[i].name])
                      => \A i \in DOMAIN file.profiles :
                           e.op.content.profiles[i].secret = Mask =>
                               file'.profiles[i].secret = file.profiles[i].secret
           AllKept == \A w \in Workers : SecretsKept(w)
<1>1. CfgInv /\ CfgNext => AllKept
  <2> SUFFICES ASSUME CfgInv, CfgNext, NEW w \in Workers, edit[w].at = "write",
                      edit[w].op.what = "source", file' # file
               PROVE  /\ \A i \in DOMAIN file'.profiles : file'.profiles[i].secret # Mask
                      /\ (/\ edit[w].alone
                          /\ [i \in DOMAIN file'.profiles |-> file'.profiles[i].name]
                                = [i \in DOMAIN file.profiles |-> file.profiles[i].name])
                         => \A i \in DOMAIN file.profiles :
                              edit[w].op.content.profiles[i].secret = Mask =>
                                  file'.profiles[i].secret = file.profiles[i].secret
    OBVIOUS
  <2>1. PICK v \in Editors : /\ edit[v].at = "write" /\ busy(v) /\ file' = edit[v].data
                             /\ edit[v].data \in Config
    BY FileWritten
  <2>2. \A i \in DOMAIN file'.profiles : file'.profiles[i].secret # Mask
    <3>1. file'.profiles \in Seq(ProfileOf(Secrets \cup {Unset})) BY <2>1, ConfigFields DEF Config
    <3>2. \A i \in DOMAIN file'.profiles : file'.profiles[i].secret \in Secrets \cup {Unset}
      BY <3>1, ProfilesOf
    <3> QED BY <3>2, ConfigAssumption
  <2>3. SUFFICES ASSUME edit[w].alone,
                        [i \in DOMAIN file'.profiles |-> file'.profiles[i].name]
                            = [i \in DOMAIN file.profiles |-> file.profiles[i].name],
                        NEW i \in DOMAIN file.profiles,
                        edit[w].op.content.profiles[i].secret = Mask
                 PROVE  file'.profiles[i].secret = file.profiles[i].secret
    BY <2>2
  <2>4. w \in Editors /\ busy(w) BY EditAt DEF Editors, CfgInv
  <2>5. v = w BY <2>1, <2>3, <2>4 DEF CfgInv, OneEdit, busy
  <2>6. file' = _restore_masked_values(edit[w].op.content, file)
    BY <2>1, <2>3, <2>4, <2>5 DEF CfgInv, EditsOK, EditOK
  <2>7. edit[w].op.content \in Shown /\ file \in Config
    <3>1. edit[w] \in Writing BY <2>4, EditAt DEF CfgInv
    <3>2. edit[w].op \in PatchOp \cup SourceOp BY <3>1 DEF Writing
    <3>3. edit[w].op \notin PatchOp BY PatchType DEF PatchOp
    <3> QED BY <3>2, <3>3 DEF SourceOp, CfgInv, CfgTypes
  <2>8. DOMAIN file'.profiles = DOMAIN file.profiles BY <2>3
  <2>9. i \in DOMAIN edit[w].op.content.profiles BY <2>6, <2>7, <2>8, RestoreType
  <2> QED BY <2>3, <2>6, <2>7, <2>9, RestoreType
<1>2. SourceKeepsSecrets <=> [][AllKept]_cfgVars BY PTL DEF SourceKeepsSecrets
<1> QED BY <1>1, <1>2, CfgInvHolds, PTL DEF CfgSpec

\* Loading a file whose profiles no environment variable overrides.
LEMMA LoadProfiles ==
    ASSUME NEW f \in Config, "profiles" \notin DOMAIN env_overrides
    PROVE  load_config(f).profiles = [i \in DOMAIN f.profiles |-> resolved(f.profiles[i])]
<1>1. deep_merge(f, env_overrides) \in Config
      /\ deep_merge(f, env_overrides).profiles = f.profiles
  BY BootAssumption, MergeType
<1> QED BY <1>1, ResolveType DEF load_config

LEMMA ResolvedKeeps ==
    ASSUME NEW p \in ProfileOf(Secrets \cup {Unset})
    PROVE  /\ resolved(p).name = p.name /\ resolved(p).offset = p.offset
           /\ resolved(resolved(p)) = resolved(p)
<1>1. p.secret \in Secrets => Resolved[p.secret] \in Secrets
                              /\ Resolved[Resolved[p.secret]] = Resolved[p.secret]
  BY ConfigAssumption
<1> QED BY <1>1 DEF resolved, ProfileOf

\* What saving a profile, or switching it on or off, makes of the profiles.
LEMMA EditedProfiles ==
    ASSUME NEW c \in Config, NEW op \in patches(c), op.what \in {"save", "enable"}
    PROVE  \E q \in ProfileOf(Secrets \cup {Unset}) :
             /\ q.name = op.name /\ "profiles" \in DOMAIN op.patch
             /\ op.patch.profiles = profiles_with(c, q)
             /\ op.keeps /\ q.name \in names(c.profiles) =>
                    q.offset = entry(c.profiles, q.name).offset
<1> DEFINE S == Secrets \cup {Unset}
<1>1. CASE \E n \in ProfileNames, p \in Payloads :
              op = [what |-> "save", name |-> n, keeps |-> p.offset = Unset, after |-> "render",
                    patch |-> save_profile(c, n, p)]
  <2>1. PICK n \in ProfileNames, p \in Payloads :
              op = [what |-> "save", name |-> n, keeps |-> p.offset = Unset, after |-> "render",
                    patch |-> save_profile(c, n, p)]
    BY <1>1
  <2>2. op.patch = save_profile(c, n, p) /\ op.name = n /\ (op.keeps <=> p.offset = Unset)
    BY <2>1
  <2>3. PICK q \in ProfileOf(S) :
             /\ q.name = n
             /\ n \in names(c.profiles) /\ p.offset = Unset =>
                  q.offset = entry(c.profiles, n).offset
             /\ save_profile(c, n, p) \in {[profiles |-> profiles_with(c, q)],
                                           [profiles |-> profiles_with(c, q), active |-> n]}
    BY SaveIs
  <2>4. "profiles" \in DOMAIN op.patch /\ op.patch.profiles = profiles_with(c, q) BY <2>2, <2>3
  <2> QED BY <2>2, <2>3, <2>4
<1>2. CASE \E n \in names(c.profiles), on \in BOOLEAN :
              op = [what |-> "enable", name |-> n, keeps |-> TRUE, after |-> "render",
                    patch |-> set_profile_enabled(c, n, on)]
  <2>1. PICK n \in names(c.profiles), on \in BOOLEAN :
              op = [what |-> "enable", name |-> n, keeps |-> TRUE, after |-> "render",
                    patch |-> set_profile_enabled(c, n, on)]
    BY <1>2
  <2> DEFINE q == [entry(c.profiles, n) EXCEPT !.on = on]
  <2>2. c.profiles \in Seq(ProfileOf(S)) BY ConfigFields DEF Config
  <2>3. entry(c.profiles, n) \in ProfileOf(S) /\ entry(c.profiles, n).name = n
    <3> HIDE DEF S
    <3> QED BY <2>2, EntryIs, ProfilesOf
  <2>4. q \in ProfileOf(S) /\ q.name = n /\ q.offset = entry(c.profiles, n).offset
    BY <2>3 DEF ProfileOf
  <2>5. op.patch = [profiles |-> replaced(c.profiles, q)] /\ op.name = n
    BY <2>1 DEF set_profile_enabled
  <2> HIDE DEF q
  <2>6. "profiles" \in DOMAIN op.patch /\ op.patch.profiles = profiles_with(c, q)
    BY <2>4, <2>5 DEF profiles_with
  <2> QED BY <2>4, <2>5, <2>6
<1>3. \/ \E n \in ProfileNames, p \in Payloads :
              op = [what |-> "save", name |-> n, keeps |-> p.offset = Unset, after |-> "render",
                    patch |-> save_profile(c, n, p)]
      \/ \E n \in names(c.profiles), on \in BOOLEAN :
              op = [what |-> "enable", name |-> n, keeps |-> TRUE, after |-> "render",
                    patch |-> set_profile_enabled(c, n, on)]
  <2>1. ASSUME op \in [what : {"settings"}, after : {"render", "nothing"},
                       patch : settings_patches(c)]
        PROVE  FALSE
    BY <2>1
  <2>2. ASSUME NEW n \in names(c.profiles),
               op = [what |-> "delete", name |-> n, after |-> "render",
                     patch |-> delete_profile(c, n)]
        PROVE  FALSE
    BY <2>2
  <2>3. ASSUME op \in [what : {"group"}, after : {"render"},
                       patch : {save_group_policy(c, g) : g \in Groups}
                               \cup {delete_group_policy(c, g) : g \in Groups}]
        PROVE  FALSE
    BY <2>3
  <2>4. op \notin certificate_patches BY CertificatePatchIs
  <2> QED BY <2>1, <2>2, <2>3, <2>4 DEF patches
<1> QED BY <1>1, <1>2, <1>3

\* Saving or switching one profile leaves the others, and every device, alone.
LEMMA LocalPatch ==
    ASSUME NEW f \in Config, sections_valid(f), "profiles" \notin DOMAIN env_overrides,
           NEW op \in patches(load_config(f)), op.what \in {"save", "enable"},
           NEW d, d = deep_merge(f, op.patch), NEW i \in DOMAIN f.profiles
    PROVE  /\ i \in DOMAIN d.profiles
           /\ op.keeps \/ f.profiles[i].name # op.name =>
                profile_routing_offset(d.profiles, i) = profile_routing_offset(f.profiles, i)
           /\ d.profiles[i].name = f.profiles[i].name
           /\ f.profiles[i].name # op.name =>
                load_config(d).profiles[i] = load_config(f).profiles[i]
<1> DEFINE S == Secrets \cup {Unset}
           c == load_config(f)
           ps == f.profiles
           cs == c.profiles
           ds == d.profiles
<1>1. c \in Config BY LoadType
<1>2. is_patch(op.patch) BY <1>1, PatchType
<1>3. d \in Config BY <1>2, MergeType
<1>4. ps \in Seq(ProfileOf(S)) /\ cs \in Seq(ProfileOf(S)) /\ ds \in Seq(ProfileOf(S))
  BY <1>1, <1>3, ConfigFields DEF Config
<1>5. cs = [j \in DOMAIN ps |-> resolved(ps[j])] BY LoadProfiles
<1>6. load_config(d).profiles = [j \in DOMAIN ds |-> resolved(ds[j])] BY <1>3, LoadProfiles
<1>7. PICK q \in ProfileOf(S) :
             /\ q.name = op.name /\ "profiles" \in DOMAIN op.patch
             /\ op.patch.profiles = profiles_with(c, q)
             /\ op.keeps /\ q.name \in names(cs) => q.offset = entry(cs, q.name).offset
  BY <1>1, EditedProfiles
<1>8. ds = profiles_with(c, q) BY <1>2, <1>7, MergeType
<1>9. \A j, k \in DOMAIN cs : j # k => cs[j].name # cs[k].name
  BY DEF sections_valid, validate_profiles
<1>10. ps[i] \in ProfileOf(S) /\ DOMAIN cs = 1 .. Len(cs) /\ Len(cs) \in Nat
  <2>1. i \in DOMAIN ps OBVIOUS
  <2> HIDE DEF S, cs, ps
  <2> QED BY <1>4, <2>1, ProfilesOf
<1>11. i \in DOMAIN cs /\ cs[i] = resolved(ps[i]) BY <1>5
<1>12. cs[i].name = ps[i].name /\ cs[i].offset = ps[i].offset /\ resolved(cs[i]) = cs[i]
  <2> HIDE DEF c, cs, ps
  <2>1. /\ resolved(ps[i]).name = ps[i].name /\ resolved(ps[i]).offset = ps[i].offset
        /\ resolved(resolved(ps[i])) = resolved(ps[i])
    BY <1>10, ResolvedKeeps
  <2> QED BY <1>11, <2>1
<1>13. CASE q.name \in names(cs)
  <2>1. ds = replaced(cs, q) BY <1>8, <1>13 DEF profiles_with
  <2> HIDE DEF S, c, cs, ps, ds
  <2>2. /\ DOMAIN ds = DOMAIN cs /\ ds[i] = IF cs[i].name = q.name THEN q ELSE cs[i]
    BY <1>4, <1>11, <2>1, ReplacedType
  <2>3. CASE cs[i].name = q.name
    <3>1. PICK k \in DOMAIN cs : cs[k].name = q.name /\ entry(cs, q.name) = cs[k]
      BY <1>13, EntryIs
    <3>2. k = i BY <1>9, <1>11, <2>3, <3>1
    <3>3. op.keeps => q.offset = ps[i].offset BY <1>7, <1>12, <1>13, <3>1, <3>2
    <3>4. ds[i] = q BY <2>2, <2>3
    <3> QED BY <1>7, <1>11, <1>12, <2>2, <2>3, <3>3, <3>4 DEF profile_routing_offset, ds, ps
  <2>4. CASE cs[i].name # q.name
    <3>1. ds[i] = cs[i] /\ i \in DOMAIN ds BY <1>11, <2>2, <2>4
    <3>2. load_config(d).profiles[i] = cs[i] BY <1>6, <1>12, <3>1
    <3> QED BY <1>12, <3>1, <3>2 DEF profile_routing_offset, ds, ps, cs, c
  <2> QED BY <2>3, <2>4
<1>14. CASE q.name \notin names(cs)
  <2>1. ds = Append(cs, q) BY <1>8, <1>14 DEF profiles_with
  <2> HIDE DEF S, c, cs, ps, ds
  <2>2. i \in DOMAIN ds /\ ds[i] = cs[i] BY <1>4, <1>10, <1>11, <2>1
  <2>3. load_config(d).profiles[i] = cs[i] BY <1>6, <1>12, <2>2
  <2> QED BY <1>12, <2>2, <2>3 DEF profile_routing_offset, ds, ps, cs, c
<1> QED BY <1>13, <1>14

(* Saving a profile or switching it on or off, alone and from a fresh cache, *)
(* leaves every other profile as it loads, and the routing offset of every   *)
(* profile it was not told a new offset of: when no environment variable     *)
(* overrides the profiles.                                                   *)
THEOREM LoneEditsAreLocal ==
    ASSUME "profiles" \notin DOMAIN env_overrides
    PROVE  CfgSpec => LoneEditIsLocal
<1> DEFINE IsLocal(w) ==
             LET e == edit[w]
             IN  (/\ e.at = "write" /\ e.alone /\ e.fresh /\ e.op.what \in {"save", "enable"}
                  /\ file' # file)
                 => \A i \in DOMAIN file.profiles :
                      /\ i \in DOMAIN file'.profiles
                      /\ e.op.keeps \/ file.profiles[i].name # e.op.name =>
                            profile_routing_offset(file'.profiles, i)
                                = profile_routing_offset(file.profiles, i)
                      /\ file'.profiles[i].name = file.profiles[i].name
                      /\ file.profiles[i].name # e.op.name =>
                            load_config(file').profiles[i] = load_config(file).profiles[i]
           AllLocal == \A w \in Workers : IsLocal(w)
<1>1. CfgInv /\ CfgNext => AllLocal
  <2> SUFFICES ASSUME CfgInv, CfgNext, NEW w \in Workers, edit[w].at = "write",
                      edit[w].alone, edit[w].fresh, edit[w].op.what \in {"save", "enable"},
                      file' # file, NEW i \in DOMAIN file.profiles
               PROVE  /\ i \in DOMAIN file'.profiles
                      /\ edit[w].op.keeps \/ file.profiles[i].name # edit[w].op.name =>
                            profile_routing_offset(file'.profiles, i)
                                = profile_routing_offset(file.profiles, i)
                      /\ file'.profiles[i].name = file.profiles[i].name
                      /\ file.profiles[i].name # edit[w].op.name =>
                            load_config(file').profiles[i] = load_config(file).profiles[i]
    OBVIOUS
  <2>1. PICK v \in Editors : /\ edit[v].at = "write" /\ busy(v) /\ file' = edit[v].data
                             /\ edit[v].data \in Config
    BY FileWritten
  <2>2. w \in Editors /\ busy(w) BY EditAt DEF Editors, CfgInv
  <2>3. v = w BY <2>1, <2>2 DEF CfgInv, OneEdit, busy
  <2>4. EditOK(w) BY <2>2 DEF CfgInv, EditsOK
  <2>5. cached = load_config(file) /\ edit[w].op \in patches(cached)
        /\ edit[w].data = deep_merge(file, edit[w].op.patch)
    BY <2>2, <2>4 DEF EditOK, InStep
  <2>6. file \in Config /\ sections_valid(file) BY DEF CfgInv, CfgTypes, ConfigsValid
  <2> QED BY <2>1, <2>3, <2>5, <2>6, LocalPatch
<1>2. LoneEditIsLocal <=> [][AllLocal]_cfgVars BY PTL DEF LoneEditIsLocal
<1> QED BY <1>1, <1>2, CfgInvHolds, PTL DEF CfgSpec
-----------------------------------------------------------------------------
(* List files *)

\* What joined_upto says, for a function that is as long as needed.
Joins(g, m, ss) == g = [n \in 0 .. m |-> IF n = 0 THEN <<>> ELSE g[n - 1] \o ss[n]]

(* The recursion of joined_upto has a solution, so joined_upto is one.       *)
LEMMA JoinedUpto ==
    ASSUME NEW ss, Len(ss) \in Nat
    PROVE  Joins(joined_upto(ss), Len(ss), ss)
<1> DEFINE P == {m \in Nat : \E g : Joins(g, m, ss)}
<1>1. 0 \in P
  <2> DEFINE g == [n \in 0 .. 0 |-> <<>>]
  <2>1. Joins(g, 0, ss)
    BY DEF Joins
  <2> QED BY <2>1
<1>2. ASSUME NEW m \in P PROVE m + 1 \in P
  <2>1. PICK g : Joins(g, m, ss)
    OBVIOUS
  <2> DEFINE h == [n \in 0 .. (m + 1) |-> IF n <= m THEN g[n] ELSE g[m] \o ss[n]]
  <2>2. \A n \in 0 .. m : h[n] = g[n]
    OBVIOUS
  <2>3. ASSUME NEW n \in 0 .. (m + 1)
        PROVE  h[n] = IF n = 0 THEN <<>> ELSE h[n - 1] \o ss[n]
    <3>1. CASE n <= m
      <4>1. n \in 0 .. m /\ (n # 0 => n - 1 \in 0 .. m) BY <3>1
      <4>2. h[n] = g[n] /\ (n # 0 => h[n - 1] = g[n - 1]) BY <2>2, <4>1
      <4>3. g[n] = IF n = 0 THEN <<>> ELSE g[n - 1] \o ss[n]
        BY <2>1, <4>1 DEF Joins
      <4> QED BY <4>2, <4>3
    <3>2. CASE n = m + 1
      <4>1. n # 0 /\ n - 1 = m /\ m \in 0 .. m /\ ~(n <= m) BY <3>2
      <4>2. h[n - 1] = g[m] BY <2>2, <4>1
      <4> QED BY <4>1, <4>2
    <3> QED BY <3>1, <3>2
  <2>4. Joins(h, m + 1, ss)
    BY <2>3 DEF Joins
  <2> QED BY <2>4
<1>3. \A m \in Nat : m \in P
  <2> HIDE DEF P
  <2>1. P \in SUBSET Nat BY DEF P
  <2> QED BY <1>1, <1>2, <2>1, SetInduction
<1>4. \E g : Joins(g, Len(ss), ss)
  BY <1>3
<1>5. joined_upto(ss) = CHOOSE g : Joins(g, Len(ss), ss)
  BY DEF joined_upto, Joins
<1> QED BY <1>4, <1>5

\* Lists of elements of S, one after the other, are a list of elements of S.
LEMMA JoinedType ==
    ASSUME NEW S, NEW ss, NEW m \in Nat, Len(ss) = m, \A i \in 1 .. m : ss[i] \in Seq(S)
    PROVE  joined(ss) \in Seq(S)
<1> DEFINE g == joined_upto(ss)
           P == {n \in Nat : n <= m => g[n] \in Seq(S)}
<1>1. Joins(g, m, ss) BY JoinedUpto
<1> HIDE DEF g
<1>2. g[0] = <<>> BY <1>1 DEF Joins
<1>3. 0 \in P
  <2>1. g[0] \in Seq(S) BY <1>2
  <2> QED BY <2>1
<1>4. ASSUME NEW n \in P PROVE n + 1 \in P
  <2>1. ASSUME n + 1 <= m PROVE g[n + 1] \in Seq(S)
    <3>1. n + 1 \in 0 .. m /\ n + 1 # 0 /\ (n + 1) - 1 = n /\ n + 1 \in 1 .. m BY <2>1
    <3>2. g[n + 1] = g[n] \o ss[n + 1] BY <1>1, <3>1 DEF Joins
    <3>3. g[n] \in Seq(S) /\ ss[n + 1] \in Seq(S) BY <2>1, <3>1
    <3> QED BY <3>2, <3>3
  <2> QED BY <2>1
<1>5. m \in P
  <2>1. P \in SUBSET Nat OBVIOUS
  <2> HIDE DEF P
  <2> QED BY <1>3, <1>4, <2>1, SetInduction
<1>6. joined(ss) = g[m] BY DEF joined, g
<1> QED BY <1>5, <1>6

\* Every element of a list occurs for a first time.
LEMMA FirstOccurrence ==
    ASSUME NEW s, NEW k \in Nat, k > 0
    PROVE  \E i \in 1 .. k : s[i] = s[k] /\ \A j \in 1 .. (i - 1) : s[j] # s[i]
<1> SUFFICES ASSUME \A i \in 1 .. k : s[i] = s[k] => \E j \in 1 .. (i - 1) : s[j] = s[i]
             PROVE  FALSE
    OBVIOUS
<1> DEFINE P == {n \in Nat : \A i \in 1 .. k : i <= n => s[i] # s[k]}
<1>1. 0 \in P OBVIOUS
<1>2. ASSUME NEW n \in P PROVE n + 1 \in P
  <2>1. ASSUME NEW i \in 1 .. k, i <= n + 1, s[i] = s[k] PROVE FALSE
    <3>1. PICK j \in 1 .. (i - 1) : s[j] = s[i] BY <2>1
    <3>2. j \in 1 .. k /\ j <= n BY <2>1, <3>1
    <3> QED BY <2>1, <3>1, <3>2
  <2> QED BY <2>1
<1>3. k \in P
  <2>1. P \in SUBSET Nat OBVIOUS
  <2> HIDE DEF P
  <2> QED BY <1>1, <1>2, <2>1, SetInduction
<1> QED BY <1>3

\* Removing repetitions keeps every element, once.
LEMMA UniqueElements ==
    ASSUME NEW S, NEW s \in Seq(S)
    PROVE  unique(s) \in Seq(S) /\ ToSet(unique(s)) = ToSet(s) /\ Distinct(unique(s))
<1> DEFINE I == {i \in DOMAIN s : \A j \in 1 .. (i - 1) : s[j] # s[i]}
<1>1. Len(s) \in Nat /\ DOMAIN s = 1 .. Len(s) OBVIOUS
<1>2. ASSUME NEW i \in I, NEW j \in I, s[i] = s[j] PROVE i = j
  <2>1. i \in 1 .. Len(s) /\ j \in 1 .. Len(s) BY <1>1
  <2>2. ~(i < j)
    <3>1. i < j => i \in 1 .. (j - 1) BY <2>1
    <3> QED BY <1>2, <3>1
  <2>3. ~(j < i)
    <3>1. j < i => j \in 1 .. (i - 1) BY <2>1
    <3> QED BY <1>2, <3>1
  <2> QED BY <2>1, <2>2, <2>3
<1>3. ASSUME NEW k \in DOMAIN s PROVE \E i \in I : s[i] = s[k]
  <2>1. k \in Nat /\ k > 0 BY <1>1
  <2>2. PICK i \in 1 .. k : s[i] = s[k] /\ \A j \in 1 .. (i - 1) : s[j] # s[i]
    BY <2>1, FirstOccurrence
  <2>3. i \in DOMAIN s BY <1>1, <2>1
  <2> QED BY <2>2, <2>3
<1>4. unique(s) = only(s, I) BY DEF unique
<1>5. I \cap DOMAIN s = I OBVIOUS
<1> HIDE DEF I
<1>6. /\ only(s, I) \in Seq(S) /\ ToSet(only(s, I)) = {s[i] : i \in I} /\ Distinct(only(s, I))
  BY <1>2, <1>5, OnlyElements
<1>7. {s[i] : i \in I} = ToSet(s) BY <1>3, <1>5 DEF ToSet
<1> QED BY <1>4, <1>6, <1>7

\* Lists of normalised entries without repetitions.
CleanLists == {s \in Seq(Entries) : Distinct(s)}

LEMMA CleanIs ==
    ASSUME NEW s \in CleanLists
    PROVE  s \in Seq(Entries) /\ Clean(s, Entries) /\ s # NoList /\ Len(s) \in Nat
<1>1. s \in Seq(Entries) /\ Distinct(s) BY DEF CleanLists
<1>2. DOMAIN s = 1 .. Len(s) /\ \A i \in DOMAIN s : s[i] \in Entries BY <1>1
<1>3. ToSet(s) \subseteq Entries BY <1>2 DEF ToSet
<1>4. s # NoList BY <1>1, ListAssumption
<1>5. Len(s) \in Nat BY <1>1
<1> QED BY <1>1, <1>3, <1>4, <1>5 DEF Clean, Distinct

LEMMA CleanEmpty == <<>> \in CleanLists /\ ToSet(<<>>) = {}
<1>1. <<>> \in Seq(Entries) /\ DOMAIN <<>> = {} OBVIOUS
<1> QED BY <1>1 DEF CleanLists, Distinct, ToSet

LEMMA UniqueClean ==
    ASSUME NEW s \in Seq(Entries)
    PROVE  unique(s) \in CleanLists /\ ToSet(unique(s)) = ToSet(s)
BY UniqueElements DEF CleanLists

LEMMA AppendElements ==
    ASSUME NEW S, NEW s \in Seq(S), NEW e \in S
    PROVE  s \o <<e>> \in Seq(S) /\ ToSet(s \o <<e>>) = ToSet(s) \cup {e}
<1> DEFINE t == s \o <<e>>
<1>1. /\ t \in Seq(S) /\ Len(s) \in Nat /\ DOMAIN s = 1 .. Len(s) /\ DOMAIN t = 1 .. (Len(s) + 1)
      /\ t[Len(s) + 1] = e /\ \A i \in 1 .. Len(s) : t[i] = s[i]
  OBVIOUS
<1> HIDE DEF t
<1>2. \A i \in DOMAIN t : i \in DOMAIN s \/ i = Len(s) + 1 BY <1>1
<1>3. ToSet(t) \subseteq ToSet(s) \cup {e} BY <1>1, <1>2 DEF ToSet
<1>4. ToSet(s) \cup {e} \subseteq ToSet(t)
  <2>1. \A i \in DOMAIN s : i \in DOMAIN t BY <1>1
  <2>2. Len(s) + 1 \in DOMAIN t BY <1>1
  <2> QED BY <1>1, <2>1, <2>2 DEF ToSet
<1> QED BY <1>1, <1>3, <1>4 DEF t

\* What an edit makes of the list it read, and of its entries.
LEMMA EditedList ==
    ASSUME NEW op \in Edits, NEW s \in CleanLists
    PROVE  /\ edited(op, s) \in CleanLists
           /\ ToSet(edited(op, s)) = intended(op, ToSet(s))
           /\ op.what = "add" /\ op.entry \in ToSet(s) => intended(op, ToSet(s)) = ToSet(s)
<1>0. s \in Seq(Entries) BY CleanIs
<1>1. Normalised \subseteq Entries
  <2>1. \A x \in Spellings : Normal[x] \in Entries \cup {Invalid} BY ListAssumption
  <2> QED BY <2>1 DEF Normalised
<1>2. CASE op \in [what : {"add", "delete"}, entry : Normalised]
  <2>1. op.what \in {"add", "delete"} /\ op.entry \in Entries BY <1>1, <1>2
  <2>2. CASE op.what = "add"
    <3>1. edited(op, s) = unique(s \o <<op.entry>>) /\ intended(op, ToSet(s)) = ToSet(s) \cup {op.entry}
      BY <2>2 DEF edited, intended
    <3>2. s \o <<op.entry>> \in Seq(Entries)
          /\ ToSet(s \o <<op.entry>>) = ToSet(s) \cup {op.entry}
      BY <1>0, <2>1, AppendElements
    <3> QED BY <3>1, <3>2, UniqueClean
  <2>3. CASE op.what = "delete"
    <3> DEFINE I == {i \in DOMAIN s : s[i] # op.entry}
    <3>1. edited(op, s) = unique(only(s, I)) /\ intended(op, ToSet(s)) = ToSet(s) \ {op.entry}
      BY <2>3 DEF edited, intended
    <3>2. {s[i] : i \in I \cap DOMAIN s} = ToSet(s) \ {op.entry} BY DEF ToSet
    <3> HIDE DEF I
    <3>3. only(s, I) \in Seq(Entries) /\ ToSet(only(s, I)) = ToSet(s) \ {op.entry}
      BY <1>0, <3>2, OnlyElements
    <3> QED BY <2>3, <3>1, <3>3, UniqueClean
  <2> QED BY <2>1, <2>2, <2>3
<1>3. CASE op \in [what : {"set"}, items : {<<e, e>> : e \in Normalised} \cup {<<>>}]
  <2>1. op.what = "set" /\ op.items \in {<<e, e>> : e \in Normalised} \cup {<<>>} BY <1>3
  <2>2. op.items \in Seq(Entries)
    <3>1. CASE op.items = <<>> BY <3>1
    <3>2. CASE \E e \in Normalised : op.items = <<e, e>> BY <1>1, <3>2
    <3> QED BY <2>1, <3>1, <3>2
  <2>3. edited(op, s) = unique(op.items) /\ intended(op, ToSet(s)) = ToSet(op.items)
    BY <2>1 DEF edited, intended
  <2> QED BY <2>1, <2>2, <2>3, UniqueClean
<1> QED BY <1>2, <1>3 DEF Edits

LEMMA IntendedType ==
    ASSUME NEW op \in Edits, NEW M \in SUBSET Entries
    PROVE  intended(op, M) \in SUBSET Entries
<1>1. Normalised \subseteq Entries
  <2>1. \A x \in Spellings : Normal[x] \in Entries \cup {Invalid} BY ListAssumption
  <2> QED BY <2>1 DEF Normalised
<1>2. CASE op \in [what : {"add", "delete"}, entry : Normalised]
  <2>1. op.what \in {"add", "delete"} /\ op.entry \in Entries BY <1>1, <1>2
  <2> QED BY <2>1 DEF intended
<1>3. CASE op \in [what : {"set"}, items : {<<e, e>> : e \in Normalised} \cup {<<>>}]
  <2>1. op.what = "set" /\ op.items \in {<<e, e>> : e \in Normalised} \cup {<<>>} BY <1>3
  <2>2. DOMAIN op.items = {} \/ \E e \in Entries : op.items = <<e, e>> BY <1>1, <2>1
  <2>3. \A i \in DOMAIN op.items : op.items[i] \in Entries BY <2>2
  <2>4. intended(op, M) = ToSet(op.items) BY <2>1 DEF intended
  <2> QED BY <2>3, <2>4 DEF ToSet
<1> QED BY <1>2, <1>3 DEF Edits

\* A list whose elements are entries is a list of entries.
LEMMA EntryList ==
    ASSUME NEW S, NEW s \in Seq(S), ToSet(s) \subseteq Entries
    PROVE  s \in Seq(Entries)
<1>1. Len(s) \in Nat /\ DOMAIN s = 1 .. Len(s) /\ s = [i \in 1 .. Len(s) |-> s[i]] OBVIOUS
<1>2. \A i \in 1 .. Len(s) : s[i] \in Entries BY <1>1 DEF ToSet
<1>3. s \in [1 .. Len(s) -> Entries] BY <1>1, <1>2
<1> QED BY <1>1, <1>3

\* Parsing yields normalised entries only, each once.
LEMMA ParsedClean ==
    ASSUME NEW lines \in Seq(Spellings)
    PROVE  parse_list_text(lines) \in CleanLists
<1> DEFINE n == Len(lines)
           S == Entries \cup {Invalid}
           es == [i \in DOMAIN lines |-> Normal[lines[i]]]
           I == {i \in DOMAIN lines : es[i] # Invalid}
<1>1. n \in Nat /\ DOMAIN lines = 1 .. n /\ \A i \in 1 .. n : lines[i] \in Spellings OBVIOUS
<1>2. es \in [1 .. n -> S] BY <1>1, ListAssumption
<1>3. parse_list_text(lines) = unique(only(es, I)) BY DEF parse_list_text
<1>4. {es[i] : i \in I \cap DOMAIN es} \subseteq Entries BY <1>1, <1>2
<1>5. es \in Seq(S) BY <1>1, <1>2
<1> HIDE DEF es, S, I
<1>6. only(es, I) \in Seq(S) /\ ToSet(only(es, I)) \subseteq Entries
  BY <1>4, <1>5, OnlyElements
<1>7. only(es, I) \in Seq(Entries) BY <1>6, EntryList
<1> QED BY <1>3, <1>7, UniqueClean

\* A merged list has every line once, and is made of entries and inline lines.
Lines == Entries \cup Inlined
CleanLines == {s \in Seq(Lines) : Distinct(s)}

LEMMA MergedClean ==
    ASSUME list_file = NoList \/ list_file \in CleanLists, NEW c \in ListSettings,
           \A u \in ListUrls : cache[u] = NoList \/ cache[u] \in CleanLists
    PROVE  merged_list(c) \in CleanLines
<1> DEFINE n == Len(c.urls)
           m == Len(c.files)
           ss == [i \in DOMAIN c.urls |-> lines_of(cache[c.urls[i]])]
           fs == [i \in DOMAIN c.files |-> parse_list_text(c.files[i])]
<1>0. c.inline \in Seq(Spellings) /\ c.files \in Seq(Seq(Spellings)) /\ c.urls \in Seq(ListUrls)
  BY ListAssumption
<1>1. n \in Nat /\ DOMAIN c.urls = 1 .. n /\ \A i \in 1 .. n : c.urls[i] \in ListUrls
  BY <1>0
<1>2. m \in Nat /\ DOMAIN c.files = 1 .. m /\ \A i \in 1 .. m : c.files[i] \in Seq(Spellings)
  BY <1>0
<1>3. \A s \in Seq(Entries) : s \in Seq(Lines)
  <2>1. Entries \subseteq Lines BY DEF Lines
  <2> QED BY <2>1
<1>4. ASSUME NEW f, f = NoList \/ f \in CleanLists PROVE lines_of(f) \in Seq(Lines)
  BY <1>3, <1>4, CleanIs, CleanEmpty DEF lines_of
<1>5. \A i \in 1 .. n : ss[i] \in Seq(Lines) BY <1>1, <1>4
<1>6. \A i \in 1 .. m : fs[i] \in Seq(Lines) BY <1>2, <1>3, ParsedClean, CleanIs
<1>7. Len(ss) = n /\ Len(fs) = m BY <1>1, <1>2
<1>8. c.inline \in Seq(Lines)
  <2>1. /\ Len(c.inline) \in Nat /\ DOMAIN c.inline = 1 .. Len(c.inline)
        /\ c.inline = [i \in 1 .. Len(c.inline) |-> c.inline[i]]
    BY <1>0
  <2>2. \A i \in 1 .. Len(c.inline) : c.inline[i] \in Lines BY <2>1 DEF Lines, Inlined, ToSet
  <2> QED BY <2>1, <2>2
<1>9. merged_list(c) = unique(c.inline \o lines_of(list_file) \o joined(fs) \o joined(ss))
  BY DEF merged_list
<1> HIDE DEF ss, fs
<1>10. joined(ss) \in Seq(Lines) /\ joined(fs) \in Seq(Lines)
  BY <1>1, <1>2, <1>5, <1>6, <1>7, JoinedType
<1>11. lines_of(list_file) \in Seq(Lines) BY <1>4
<1>12. c.inline \o lines_of(list_file) \o joined(fs) \o joined(ss) \in Seq(Lines)
  BY <1>8, <1>10, <1>11
<1> QED BY <1>9, <1>12, UniqueElements DEF CleanLines

\* What a process holds at each step of a request.
EditJob   == [at : {"edit"}, op : Edits, read : CleanLists]
FetchJob  == [at : {"fetch"}, url : ListUrls, using : ListSettings]
CacheJob  == [at : {"cache", "meta"}, url : ListUrls, using : ListSettings,
              items : CleanLists \ {<<>>}]
RenderJob == [at : {"render"}, using : ListSettings]
ListJob   == {AtRest} \cup EditJob \cup FetchJob \cup CacheJob \cup RenderJob

ListTypes ==
    /\ list_file = NoList \/ list_file \in CleanLists
    /\ list_lock \in ListWorkers \cup {NoList}
    /\ cache \in [ListUrls -> (CleanLists \ {<<>>}) \cup {NoList}]
    /\ meta \in [ListUrls -> Nat] /\ split \in ListSettings /\ list_rendered \in CleanLines
    /\ ljob \in [ListProcesses -> ListJob]
    /\ meant_list \in SUBSET Entries /\ collided \in BOOLEAN

\* The threads of the panel rewrite the file one at a time.
ListLocked == \A w \in ListWorkers : ljob[w].at = "edit" <=> list_lock = w

\* The cache file is written before the meta file.
MetaAfterCache ==
    /\ \A u \in ListUrls : meta[u] # 0 => cache[u] # NoList
    /\ \A w \in ListProcesses : ljob[w].at = "meta" => cache[ljob[w].url] # NoList

\* Until korctl rewrites the file at the same time, there is one rewrite at most, and
\* what it read is what the file has.
EditsKept ==
    ~collided =>
        /\ ToSet(lines_of(list_file)) = meant_list
        /\ \A w \in ListProcesses : ljob[w].at = "edit" =>
                /\ ljob[w].read = lines_of(list_file)
                /\ \A v \in ListProcesses : ljob[v].at = "edit" => v = w

ListInv == ListTypes /\ ListLocked /\ MetaAfterCache /\ EditsKept

LEMMA ListJobAt ==
    ASSUME NEW j \in ListJob
    PROVE  /\ j.at \in {"rest", "edit", "fetch", "cache", "meta", "render"}
           /\ j.at = "edit" => j \in EditJob /\ j.op \in Edits /\ j.read \in CleanLists
           /\ j.at = "fetch" => j.url \in ListUrls
           /\ j.at \in {"fetch", "cache", "meta", "render"} => j.using \in ListSettings
           /\ j.at \in {"cache", "meta"} =>
                /\ j \in CacheJob /\ j.url \in ListUrls
                /\ j.items \in CleanLists /\ j.items # <<>>
<1>1. CASE j = AtRest BY <1>1 DEF AtRest
<1>2. CASE j \in EditJob BY <1>2 DEF EditJob
<1>3. CASE j \in FetchJob BY <1>3 DEF FetchJob
<1>4. CASE j \in CacheJob BY <1>4 DEF CacheJob
<1>5. CASE j \in RenderJob BY <1>5 DEF RenderJob
<1> QED BY <1>1, <1>2, <1>3, <1>4, <1>5 DEF ListJob

LEMMA ListJobMoves ==
    ASSUME ListTypes, NEW w \in ListProcesses, NEW j \in ListJob, ljob' = [ljob EXCEPT ![w] = j]
    PROVE  /\ ljob' \in [ListProcesses -> ListJob] /\ ljob'[w] = j
           /\ \A v \in ListProcesses : v # w => ljob'[v] = ljob[v]
BY DEF ListTypes

\* A step of a request that is no rewrite leaves the rewrites alone.
LEMMA NoRewrite ==
    ASSUME ListInv, NEW w \in ListProcesses, NEW j \in ListJob, ljob' = [ljob EXCEPT ![w] = j],
           ljob[w].at # "edit", j.at # "edit",
           UNCHANGED <<list_file, list_lock, meant_list, collided>>
    PROVE  ListLocked' /\ EditsKept'
<1>1. /\ ljob'[w] = j /\ \A v \in ListProcesses : v # w => ljob'[v] = ljob[v]
  BY ListJobMoves DEF ListInv
<1>2. \A v \in ListProcesses : /\ ljob'[v].at = "edit" <=> ljob[v].at = "edit"
                               /\ ljob[v].at = "edit" => ljob'[v] = ljob[v]
  BY <1>1
<1>3. ListLocked' BY <1>2 DEF ListInv, ListLocked, ListProcesses
<1>4. EditsKept' BY <1>2 DEF ListInv, EditsKept, lines_of
<1> QED BY <1>3, <1>4

LEMMA ListInvInit == ListInit => ListInv
<1> SUFFICES ASSUME ListInit PROVE ListInv OBVIOUS
<1>1. ListTypes
  <2>1. AtRest \in ListJob BY DEF ListJob
  <2>2. split \in ListSettings BY DEF ListInit
  <2>3. list_rendered \in CleanLines
    <3>1. list_file = NoList /\ \A u \in ListUrls : cache[u] = NoList BY DEF ListInit
    <3>2. merged_list(split) \in CleanLines BY <2>2, <3>1, MergedClean
    <3> QED BY <3>2 DEF ListInit
  <2> QED BY <2>1, <2>2, <2>3 DEF ListInit, ListTypes
<1>2. ListLocked BY ListAssumption DEF ListInit, ListLocked, AtRest, ListProcesses
<1>3. MetaAfterCache BY DEF ListInit, MetaAfterCache, AtRest
<1>4. EditsKept BY CleanEmpty DEF ListInit, EditsKept, AtRest, lines_of
<1> QED BY <1>1, <1>2, <1>3, <1>4 DEF ListInv

\* A rewrite begins: under the lock in the panel, without it in korctl.
LEMMA StartEditStep ==
    ASSUME ListInv, NEW w \in ListProcesses, start_edit(w)
    PROVE  ListInv'
<1>1. PICK op \in Edits : read_locked(w, op) BY DEF start_edit
<1> DEFINE j == [at |-> "edit", op |-> op, read |-> lines_of(list_file)]
<1>2. lines_of(list_file) \in CleanLists BY CleanEmpty DEF ListInv, ListTypes, lines_of
<1>3. j \in ListJob BY <1>2 DEF ListJob, EditJob
<1>4. ljob' = [ljob EXCEPT ![w] = j] BY <1>1 DEF read_locked
<1>5. j.at = "edit" /\ j.read = lines_of(list_file) OBVIOUS
<1> HIDE DEF j
<1>6. /\ ljob' \in [ListProcesses -> ListJob] /\ ljob'[w] = j
      /\ \A v \in ListProcesses : v # w => ljob'[v] = ljob[v]
  BY <1>3, <1>4, ListJobMoves DEF ListInv
<1>7. UNCHANGED <<list_file, cache, meta, split, list_rendered, meant_list>> BY DEF start_edit
<1>8. /\ w \in ListWorkers => list_lock = NoList /\ list_lock' = w
      /\ w \notin ListWorkers => list_lock' = list_lock
      /\ collided' = (collided \/ \E v \in ListProcesses \ {w} :
                          ljob[v].at = "edit" /\ {v, w} \cap ListCli # {})
  BY <1>1 DEF read_locked
<1>9. ListTypes'
  <2>1. collided' \in BOOLEAN BY <1>8
  <2> QED BY <1>6, <1>7, <1>8, <2>1 DEF ListInv, ListTypes
<1>10. ListLocked'
  BY <1>5, <1>6, <1>8, ListAssumption DEF ListInv, ListLocked, ListProcesses
<1>11. MetaAfterCache' BY <1>5, <1>6, <1>7 DEF ListInv, MetaAfterCache
<1>12. EditsKept'
  <2> SUFFICES ASSUME ~collided' PROVE EditsKept' BY DEF EditsKept
  <2>1. ~collided /\ \A v \in ListProcesses \ {w} :
                        ljob[v].at = "edit" => {v, w} \cap ListCli = {}
    BY <1>8
  <2>2. ASSUME NEW v \in ListProcesses, v # w PROVE ljob[v].at # "edit"
    <3>1. SUFFICES ASSUME ljob[v].at = "edit" PROVE FALSE OBVIOUS
    <3>2. v \in ListWorkers /\ w \in ListWorkers BY <2>1, <2>2, <3>1 DEF ListProcesses
    <3>3. list_lock = v BY <3>1, <3>2 DEF ListInv, ListLocked
    <3> QED BY <1>8, <3>2, <3>3, ListAssumption
  <2>3. ToSet(lines_of(list_file)) = meant_list BY <2>1 DEF ListInv, EditsKept
  <2> QED BY <1>5, <1>6, <1>7, <2>2, <2>3 DEF EditsKept, lines_of
<1> QED BY <1>9, <1>10, <1>11, <1>12 DEF ListInv

\* A rewrite ends.
LEMMA WriteEditStep ==
    ASSUME ListInv, NEW w \in ListProcesses, write_edit(w)
    PROVE  ListInv'
<1> DEFINE op == ljob[w].op
           read == ljob[w].read
<1>1. ljob[w].at = "edit" /\ ljob[w] \in ListJob BY DEF write_edit, ListInv, ListTypes
<1>2. op \in Edits /\ read \in CleanLists BY <1>1, ListJobAt
<1>3. /\ list_file' = IF op.what = "add" /\ op.entry \in ToSet(read) THEN list_file
                      ELSE edited(op, read)
      /\ meant_list' = intended(op, meant_list)
      /\ list_lock' = IF list_lock = w THEN NoList ELSE list_lock
      /\ UNCHANGED <<cache, meta, split, list_rendered, collided>>
  BY DEF write_edit
<1>4. AtRest \in ListJob /\ AtRest.at = "rest" BY DEF ListJob, AtRest
<1>5. /\ ljob' \in [ListProcesses -> ListJob] /\ ljob'[w] = AtRest
      /\ \A v \in ListProcesses : v # w => ljob'[v] = ljob[v]
  BY <1>4, ListJobMoves DEF ListInv, write_edit
<1> HIDE DEF op, read
<1>6. /\ edited(op, read) \in CleanLists
      /\ ToSet(edited(op, read)) = intended(op, ToSet(read))
      /\ op.what = "add" /\ op.entry \in ToSet(read) => intended(op, ToSet(read)) = ToSet(read)
  BY <1>2, EditedList
<1>7. ListTypes'
  <2>1. meant_list' \in SUBSET Entries BY <1>2, <1>3, IntendedType DEF ListInv, ListTypes
  <2>2. list_file' = NoList \/ list_file' \in CleanLists
    BY <1>3, <1>6 DEF ListInv, ListTypes
  <2>3. list_lock' \in ListWorkers \cup {NoList} BY <1>3 DEF ListInv, ListTypes
  <2> QED BY <1>3, <1>5, <2>1, <2>2, <2>3 DEF ListInv, ListTypes
<1>8. ListLocked'
  <2>1. ASSUME NEW v \in ListWorkers PROVE ljob'[v].at = "edit" <=> list_lock' = v
    <3>1. v \in ListProcesses /\ v # NoList BY ListAssumption DEF ListProcesses
    <3>2. CASE v = w BY <1>3, <1>4, <1>5, <3>1, <3>2
    <3>3. CASE v # w BY <1>3, <1>5, <3>1, <3>3 DEF ListInv, ListLocked
    <3> QED BY <3>2, <3>3
  <2> QED BY <2>1 DEF ListLocked
<1>9. MetaAfterCache' BY <1>3, <1>4, <1>5 DEF ListInv, MetaAfterCache
<1>10. EditsKept'
  <2> SUFFICES ASSUME ~collided PROVE EditsKept' BY <1>3 DEF EditsKept
  <2>1. ToSet(lines_of(list_file)) = meant_list /\ read = lines_of(list_file)
    BY <1>1 DEF ListInv, EditsKept, read
  <2>2. \A v \in ListProcesses : ljob[v].at = "edit" => v = w
    BY <1>1 DEF ListInv, EditsKept
  <2>3. \A v \in ListProcesses : ljob'[v].at # "edit" BY <1>4, <1>5, <2>2
  <2>4. ToSet(lines_of(list_file')) = meant_list'
    <3>1. CASE op.what = "add" /\ op.entry \in ToSet(read) BY <1>3, <1>6, <2>1, <3>1
    <3>2. CASE ~(op.what = "add" /\ op.entry \in ToSet(read))
      <4>1. list_file' = edited(op, read) BY <1>3, <3>2
      <4>2. lines_of(list_file') = edited(op, read) BY <1>6, <4>1, CleanIs DEF lines_of
      <4> QED BY <1>3, <1>6, <2>1, <4>2
    <3> QED BY <3>1, <3>2
  <2> QED BY <2>3, <2>4 DEF EditsKept, lines_of
<1> QED BY <1>7, <1>8, <1>9, <1>10 DEF ListInv

\* A download is parsed, cached, described and rendered.
LEMMA FetchStep ==
    ASSUME ListInv, NEW w \in ListProcesses, fetch_url_text(w)
    PROVE  ListInv'
<1>1. /\ ljob[w].at = "fetch" /\ ljob[w] \in ListJob
      /\ UNCHANGED <<list_file, list_lock, cache, meta, split, list_rendered, meant_list, collided>>
  BY DEF fetch_url_text, ListInv, ListTypes
<1>2. ljob[w].url \in ListUrls /\ ljob[w].using \in ListSettings BY <1>1, ListJobAt
<1>3. \E j \in ListJob : ljob' = [ljob EXCEPT ![w] = j] /\ j.at \notin {"edit", "meta"}
  <2>1. AtRest \in ListJob /\ AtRest.at = "rest" BY DEF ListJob, AtRest
  <2>2. CASE ljob' = [ljob EXCEPT ![w] = AtRest] BY <2>1, <2>2
  <2>3. CASE \E lines \in Downloads :
              ljob' = [ljob EXCEPT ![w] =
                  IF acceptable(lines)
                    THEN [at |-> "cache", url |-> @.url, using |-> @.using,
                          items |-> parse_list_text(lines)]
                    ELSE AtRest]
    <3>1. PICK lines \in Downloads :
              ljob' = [ljob EXCEPT ![w] =
                  IF acceptable(lines)
                    THEN [at |-> "cache", url |-> @.url, using |-> @.using,
                          items |-> parse_list_text(lines)]
                    ELSE AtRest]
      BY <2>3
    <3>2. ljob \in [ListProcesses -> ListJob] BY DEF ListInv, ListTypes
    <3>3. CASE ~acceptable(lines)
      <4>1. ljob' = [ljob EXCEPT ![w] = AtRest] BY <3>1, <3>2, <3>3
      <4> QED BY <2>1, <4>1
    <3>4. CASE acceptable(lines)
      <4> DEFINE j == [at |-> "cache", url |-> ljob[w].url, using |-> ljob[w].using,
                        items |-> parse_list_text(lines)]
      <4>1. ljob' = [ljob EXCEPT ![w] = j] BY <3>1, <3>2, <3>4
      <4>2. parse_list_text(lines) \in CleanLists BY ListAssumption, ParsedClean
      <4>3. parse_list_text(lines) # <<>> BY <3>4 DEF acceptable
      <4>4. j \in ListJob /\ j.at = "cache" BY <1>2, <4>2, <4>3 DEF ListJob, CacheJob
      <4> QED BY <4>1, <4>4
    <3> QED BY <3>3, <3>4
  <2> QED BY <2>2, <2>3 DEF fetch_url_text
<1>4. PICK j \in ListJob : ljob' = [ljob EXCEPT ![w] = j] /\ j.at \notin {"edit", "meta"}
  BY <1>3
<1>5. /\ ljob' \in [ListProcesses -> ListJob] /\ ljob'[w] = j
      /\ \A v \in ListProcesses : v # w => ljob'[v] = ljob[v]
  BY <1>4, ListJobMoves DEF ListInv
<1>6. ListTypes' BY <1>1, <1>5 DEF ListInv, ListTypes
<1>7. ListLocked' /\ EditsKept' BY <1>1, <1>4, NoRewrite
<1>8. MetaAfterCache' BY <1>1, <1>4, <1>5 DEF ListInv, MetaAfterCache
<1> QED BY <1>6, <1>7, <1>8 DEF ListInv

LEMMA WriteCacheStep ==
    ASSUME ListInv, NEW w \in ListProcesses, write_cache(w)
    PROVE  ListInv'
<1> DEFINE u == ljob[w].url
           j == [ljob[w] EXCEPT !.at = "meta"]
<1>1. /\ ljob[w].at = "cache" /\ ljob[w] \in ListJob
      /\ cache' = [cache EXCEPT ![u] = ljob[w].items]
      /\ UNCHANGED <<list_file, list_lock, meta, split, list_rendered, meant_list, collided>>
  BY DEF write_cache, ListInv, ListTypes
<1>2. /\ ljob[w] \in CacheJob /\ u \in ListUrls
      /\ ljob[w].items \in CleanLists /\ ljob[w].items # <<>>
  BY <1>1, ListJobAt
<1>3. j \in CacheJob /\ j.at = "meta" /\ j.url = u BY <1>2 DEF CacheJob
<1>4. j \in ListJob BY <1>3 DEF ListJob
<1>5. ljob' = [ljob EXCEPT ![w] = j] BY DEF write_cache, ListInv, ListTypes
<1> HIDE DEF j
<1>6. /\ ljob' \in [ListProcesses -> ListJob] /\ ljob'[w] = j
      /\ \A v \in ListProcesses : v # w => ljob'[v] = ljob[v]
  BY <1>4, <1>5, ListJobMoves DEF ListInv
<1>7. cache \in [ListUrls -> (CleanLists \ {<<>>}) \cup {NoList}] BY DEF ListInv, ListTypes
<1>8. cache' \in [ListUrls -> (CleanLists \ {<<>>}) \cup {NoList}] BY <1>1, <1>2, <1>7
<1>9. cache'[u] # NoList /\ \A x \in ListUrls : cache[x] # NoList => cache'[x] # NoList
  <2>1. ljob[w].items # NoList BY <1>2, CleanIs
  <2> QED BY <1>1, <1>2, <1>7, <2>1
<1>10. ListTypes' BY <1>1, <1>6, <1>8 DEF ListInv, ListTypes
<1>11. ListLocked' /\ EditsKept'
  <2>1. ljob[w].at # "edit" /\ j.at # "edit" BY <1>1, <1>3
  <2> QED BY <1>1, <1>4, <1>5, <2>1, NoRewrite
<1>12. MetaAfterCache'
  <2>1. \A x \in ListUrls : meta'[x] # 0 => cache'[x] # NoList
    BY <1>1, <1>9 DEF ListInv, MetaAfterCache
  <2>2. ASSUME NEW v \in ListProcesses, ljob'[v].at = "meta" PROVE cache'[ljob'[v].url] # NoList
    <3>1. CASE v = w BY <1>3, <1>6, <1>9, <3>1
    <3>2. CASE v # w
      <4>1. ljob'[v] = ljob[v] /\ ljob[v] \in ListJob BY <1>6, <3>2 DEF ListInv, ListTypes
      <4>2. ljob[v].url \in ListUrls BY <2>2, <4>1, ListJobAt
      <4>3. cache[ljob[v].url] # NoList BY <2>2, <4>1 DEF ListInv, MetaAfterCache
      <4> QED BY <1>9, <4>1, <4>2, <4>3
    <3> QED BY <3>1, <3>2
  <2> QED BY <2>1, <2>2 DEF MetaAfterCache
<1> QED BY <1>10, <1>11, <1>12 DEF ListInv

LEMMA WriteMetaStep ==
    ASSUME ListInv, NEW w \in ListProcesses, write_meta(w)
    PROVE  ListInv'
<1> DEFINE u == ljob[w].url
           j == [at |-> "render", using |-> ljob[w].using]
<1>1. /\ ljob[w].at = "meta" /\ ljob[w] \in ListJob
      /\ meta' = [meta EXCEPT ![u] = Len(ljob[w].items)]
      /\ UNCHANGED <<list_file, list_lock, cache, split, list_rendered, meant_list, collided>>
  BY DEF write_meta, ListInv, ListTypes
<1>2. u \in ListUrls /\ Len(ljob[w].items) \in Nat /\ ljob[w].using \in ListSettings
  BY <1>1, ListJobAt, CleanIs
<1>3. j \in ListJob /\ j.at = "render" BY <1>2 DEF ListJob, RenderJob
<1>4. ljob' = [ljob EXCEPT ![w] = j] BY DEF write_meta
<1> HIDE DEF j
<1>5. /\ ljob' \in [ListProcesses -> ListJob] /\ ljob'[w] = j
      /\ \A v \in ListProcesses : v # w => ljob'[v] = ljob[v]
  BY <1>3, <1>4, ListJobMoves DEF ListInv
<1>6. meta \in [ListUrls -> Nat] BY DEF ListInv, ListTypes
<1>7. meta' \in [ListUrls -> Nat] /\ \A x \in ListUrls : x # u => meta'[x] = meta[x]
  BY <1>1, <1>2, <1>6
<1>8. ListTypes' BY <1>1, <1>5, <1>7 DEF ListInv, ListTypes
<1>9. ListLocked' /\ EditsKept'
  <2>1. ljob[w].at # "edit" /\ j.at # "edit" BY <1>1, <1>3
  <2> QED BY <1>1, <1>3, <1>4, <2>1, NoRewrite
<1>10. MetaAfterCache'
  <2>1. cache[u] # NoList BY <1>1 DEF ListInv, MetaAfterCache
  <2>2. \A x \in ListUrls : meta'[x] # 0 => cache'[x] # NoList
    BY <1>1, <1>7, <2>1 DEF ListInv, MetaAfterCache
  <2>3. \A v \in ListProcesses : ljob'[v].at = "meta" => cache'[ljob'[v].url] # NoList
    BY <1>1, <1>3, <1>5 DEF ListInv, MetaAfterCache
  <2> QED BY <2>2, <2>3 DEF MetaAfterCache
<1> QED BY <1>8, <1>9, <1>10 DEF ListInv

LEMMA RenderListsStep ==
    ASSUME ListInv, NEW w \in ListProcesses, render_lists(w)
    PROVE  ListInv'
<1>1. /\ ljob[w].at = "render" /\ list_rendered' = merged_list(ljob[w].using)
      /\ UNCHANGED <<list_file, list_lock, cache, meta, split, meant_list, collided>>
      /\ ljob' = [ljob EXCEPT ![w] = AtRest]
  BY DEF render_lists
<1>2. AtRest \in ListJob /\ AtRest.at = "rest" BY DEF ListJob, AtRest
<1>3. /\ ljob' \in [ListProcesses -> ListJob] /\ ljob'[w] = AtRest
      /\ \A v \in ListProcesses : v # w => ljob'[v] = ljob[v]
  BY <1>1, <1>2, ListJobMoves DEF ListInv
<1>4. merged_list(ljob[w].using) \in CleanLines
  <2>1. \A u \in ListUrls : cache[u] = NoList \/ cache[u] \in CleanLists
    BY DEF ListInv, ListTypes
  <2>2. ljob[w].using \in ListSettings BY <1>1, ListJobAt DEF ListInv, ListTypes
  <2> QED BY <2>1, <2>2, MergedClean DEF ListInv, ListTypes
<1>5. ListTypes' BY <1>1, <1>3, <1>4 DEF ListInv, ListTypes
<1>6. ListLocked' /\ EditsKept' BY <1>1, <1>2, NoRewrite
<1>7. MetaAfterCache' BY <1>1, <1>2, <1>3 DEF ListInv, MetaAfterCache
<1> QED BY <1>5, <1>6, <1>7 DEF ListInv

\* The settings page is saved, or a refresh asked for.
LEMMA ListRequestStep ==
    ASSUME ListInv, NEW w \in ListProcesses,
           (\E u \in ListUrls : refresh(w, u)) \/ (\E c \in ListSettings : save_list_settings(w, c))
    PROVE  ListInv'
<1>1. \E j \in ListJob :
        /\ j.at \notin {"edit", "meta"} /\ ljob' = [ljob EXCEPT ![w] = j]
        /\ ljob[w] = AtRest /\ split' \in ListSettings
        /\ UNCHANGED <<list_file, list_lock, cache, meta, list_rendered, meant_list, collided>>
  <2>1. CASE \E u \in ListUrls : refresh(w, u)
    <3>1. PICK u \in ListUrls : refresh(w, u) BY <2>1
    <3>2. split \in ListSettings BY DEF ListInv, ListTypes
    <3> DEFINE j == [at |-> "fetch", url |-> u, using |-> split]
    <3>3. j \in ListJob /\ j.at = "fetch" BY <3>2 DEF ListJob, FetchJob
    <3>4. /\ ljob' = [ljob EXCEPT ![w] = j] /\ ljob[w] = AtRest
          /\ UNCHANGED <<list_file, list_lock, cache, meta, split, list_rendered, meant_list, collided>>
      BY <3>1 DEF refresh
    <3> HIDE DEF j
    <3> QED BY <3>2, <3>3, <3>4
  <2>2. CASE \E c \in ListSettings : save_list_settings(w, c)
    <3>1. PICK c \in ListSettings : save_list_settings(w, c) BY <2>2
    <3> DEFINE j == [at |-> "render", using |-> c]
    <3>2. j \in ListJob /\ j.at = "render" BY DEF ListJob, RenderJob
    <3>3. /\ ljob' = [ljob EXCEPT ![w] = j] /\ ljob[w] = AtRest /\ split' = c
          /\ UNCHANGED <<list_file, list_lock, cache, meta, list_rendered, meant_list, collided>>
      BY <3>1 DEF save_list_settings
    <3> HIDE DEF j
    <3> QED BY <3>2, <3>3
  <2> QED BY <2>1, <2>2
<1>2. PICK j \in ListJob :
        /\ j.at \notin {"edit", "meta"} /\ ljob' = [ljob EXCEPT ![w] = j]
        /\ ljob[w] = AtRest /\ split' \in ListSettings
        /\ UNCHANGED <<list_file, list_lock, cache, meta, list_rendered, meant_list, collided>>
  BY <1>1
<1>3. /\ ljob' \in [ListProcesses -> ListJob] /\ ljob'[w] = j
      /\ \A v \in ListProcesses : v # w => ljob'[v] = ljob[v]
  BY <1>2, ListJobMoves DEF ListInv
<1>4. ListTypes' BY <1>2, <1>3 DEF ListInv, ListTypes
<1>5. ListLocked' /\ EditsKept'
  <2>1. ljob[w].at # "edit" BY <1>2 DEF AtRest
  <2> QED BY <1>2, <2>1, NoRewrite
<1>6. MetaAfterCache' BY <1>2, <1>3 DEF ListInv, MetaAfterCache
<1> QED BY <1>4, <1>5, <1>6 DEF ListInv

\* The configuration is saved without rendering.
LEMMA PatchSplitStep ==
    ASSUME ListInv, NEW c \in ListSettings, patch_split(c)
    PROVE  ListInv'
<1>1. /\ split' = c
      /\ UNCHANGED <<list_file, list_lock, cache, meta, list_rendered, ljob, meant_list, collided>>
  BY DEF patch_split
<1> QED BY <1>1 DEF ListInv, ListTypes, ListLocked, MetaAfterCache, EditsKept, lines_of

\* The panel dies: its rewrites are given up, the files are what they were.
LEMMA PanelKilledStep ==
    ASSUME ListInv, panel_killed
    PROVE  ListInv'
<1>1. /\ ljob' = [w \in ListProcesses |-> IF w \in ListWorkers THEN AtRest ELSE ljob[w]]
      /\ list_lock' = NoList
      /\ UNCHANGED <<list_file, cache, meta, split, list_rendered, meant_list, collided>>
  BY DEF panel_killed
<1>2. AtRest \in ListJob /\ AtRest.at = "rest" BY DEF ListJob, AtRest
<1>3. \A v \in ListProcesses : ljob'[v] = AtRest \/ ljob'[v] = ljob[v] BY <1>1
<1>4. \A v \in ListProcesses : ljob'[v].at \in {"edit", "meta"} => ljob'[v] = ljob[v]
  BY <1>2, <1>3
<1>5. ListTypes' BY <1>1, <1>2 DEF ListInv, ListTypes
<1>6. ListLocked' BY <1>1, <1>2, ListAssumption DEF ListLocked, ListProcesses
<1>7. MetaAfterCache' BY <1>1, <1>4 DEF ListInv, MetaAfterCache
<1>8. EditsKept' BY <1>1, <1>4 DEF ListInv, EditsKept, lines_of
<1> QED BY <1>5, <1>6, <1>7, <1>8 DEF ListInv

LEMMA ListInvStep == ListInv /\ [ListNext]_listVars => ListInv'
<1> SUFFICES ASSUME ListInv, [ListNext]_listVars PROVE ListInv' OBVIOUS
<1>1. CASE UNCHANGED listVars
  <2>1. UNCHANGED <<list_file, list_lock, cache, meta, split, list_rendered, ljob, meant_list, collided>>
    BY <1>1 DEF listVars
  <2> QED BY <2>1 DEF ListInv, ListTypes, ListLocked, MetaAfterCache, EditsKept, lines_of
<1>2. CASE panel_killed BY <1>2, PanelKilledStep
<1>3. ASSUME NEW w \in ListProcesses, edit_list(w) \/ korctl_list(w) PROVE ListInv'
  BY <1>3, StartEditStep DEF edit_list, korctl_list
<1>4. ASSUME NEW w \in ListProcesses, write_edit(w) PROVE ListInv' BY <1>4, WriteEditStep
<1>5. ASSUME NEW w \in ListProcesses, fetch_url_text(w) PROVE ListInv' BY <1>5, FetchStep
<1>6. ASSUME NEW w \in ListProcesses, write_cache(w) PROVE ListInv' BY <1>6, WriteCacheStep
<1>7. ASSUME NEW w \in ListProcesses, write_meta(w) PROVE ListInv' BY <1>7, WriteMetaStep
<1>8. ASSUME NEW w \in ListProcesses, render_lists(w) PROVE ListInv' BY <1>8, RenderListsStep
<1>9. ASSUME NEW w \in ListProcesses,
             (\E u \in ListUrls : refresh(w, u)) \/ (\E c \in ListSettings : save_list_settings(w, c))
      PROVE  ListInv'
  BY <1>9, ListRequestStep
<1>10. ASSUME NEW c \in ListSettings, patch_split(c) PROVE ListInv' BY <1>10, PatchSplitStep
<1> QED BY <1>1, <1>2, <1>3, <1>4, <1>5, <1>6, <1>7, <1>8, <1>9, <1>10 DEF ListNext

LEMMA ListInvHolds == ListSpec => []ListInv
BY ListInvInit, ListInvStep, PTL DEF ListSpec

(* Every process is at a step of a request, the lock is held by a panel      *)
(* thread that rewrites the file, and no meta file is there before its       *)
(* cache.                                                                    *)
THEOREM ListTypesHold == ListSpec => []ListTypeOK
<1>1. ListInv => ListTypeOK
  <2> SUFFICES ASSUME ListInv PROVE ListTypeOK OBVIOUS
  <2>1. \A w \in ListProcesses :
          ljob[w].at \in {"rest", "edit", "fetch", "cache", "meta", "render"}
    BY ListJobAt DEF ListInv, ListTypes
  <2> QED BY <2>1 DEF ListInv, ListTypes, ListLocked, MetaAfterCache, ListTypeOK
<1> QED BY <1>1, ListInvHolds, PTL

(* Edits of the panel's threads are all in the file, unless korctl rewrote   *)
(* it at the same time; the file and the caches hold normalised entries,     *)
(* each once, and the rendered list nothing but these and inline lines.      *)
THEOREM ListEditsAreKept == ListSpec => []ListEditsKept
<1>1. ListInv => ListEditsKept
  <2> SUFFICES ASSUME ListInv PROVE ListEditsKept OBVIOUS
  <2>1. list_file # NoList => Clean(list_file, Entries) BY CleanIs DEF ListInv, ListTypes
  <2>2. \A u \in ListUrls : cache[u] # NoList => Clean(cache[u], Entries)
    <3>1. \A u \in ListUrls : cache[u] # NoList => cache[u] \in CleanLists
      BY DEF ListInv, ListTypes
    <3> QED BY <3>1, CleanIs
  <2>3. Clean(list_rendered, Entries \cup Inlined)
    <3>1. list_rendered \in Seq(Lines) /\ Distinct(list_rendered)
      BY DEF ListInv, ListTypes, CleanLines
    <3>2. \A i \in DOMAIN list_rendered : list_rendered[i] \in Lines BY <3>1
    <3> QED BY <3>1, <3>2 DEF Clean, Distinct, Lines, ToSet
  <2> QED BY <2>1, <2>2, <2>3 DEF ListInv, EditsKept, ListEditsKept, ListsClean
<1> QED BY <1>1, ListInvHolds, PTL

(* No step, a crash included, takes a cached list away or empties it.        *)
THEOREM RefreshesKeepLists == ListSpec => RefreshKeepsList
<1> DEFINE Kept == \A u \in ListUrls : cache[u] # NoList => cache'[u] \notin {NoList, <<>>}
<1>1. ListInv /\ ListInv' => ([ListNext]_listVars => [Kept]_listVars)
  <2> SUFFICES ASSUME ListInv, ListInv', ListNext, NEW u \in ListUrls, cache[u] # NoList
               PROVE  cache'[u] \notin {NoList, <<>>}
    OBVIOUS
  <2>1. cache \in [ListUrls -> (CleanLists \ {<<>>}) \cup {NoList}] BY DEF ListInv, ListTypes
  <2>2. cache'[u] \in (CleanLists \ {<<>>}) \cup {NoList} BY DEF ListInv, ListTypes
  <2>3. cache'[u] # NoList
    <3>1. CASE \E w \in ListProcesses : write_cache(w)
      <4>1. PICK w \in ListProcesses : write_cache(w) BY <3>1
      <4>2. ljob[w].at = "cache" /\ ljob[w] \in ListJob
            /\ cache' = [cache EXCEPT ![ljob[w].url] = ljob[w].items]
        BY <4>1 DEF write_cache, ListInv, ListTypes
      <4>3. ljob[w].items \in CleanLists BY <4>2, ListJobAt
      <4>4. ljob[w].items # NoList BY <4>3, CleanIs
      <4> QED BY <2>1, <4>2, <4>4
    <3>2. CASE ~ \E w \in ListProcesses : write_cache(w)
      <4>1. cache' = cache
        BY <3>2 DEF ListNext, edit_list, korctl_list, start_edit, write_edit, fetch_url_text,
                    write_meta, render_lists, refresh, save_list_settings, patch_split, panel_killed
      <4> QED BY <4>1
    <3> QED BY <3>1, <3>2
  <2>4. <<>> # NoList BY CleanEmpty, CleanIs
  <2> QED BY <2>2, <2>3, <2>4
<1>2. RefreshKeepsList <=> [][Kept]_listVars BY PTL DEF RefreshKeepsList
<1> QED BY <1>1, <1>2, ListInvHolds, PTL DEF ListSpec

-----------------------------------------------------------------------------
(* The list file implements AtomicUpdates.  Between its read and its write an *)
(* edit alone holds the file's own lines, so that its write makes one update; *)
(* write_unique_lines changes nothing of a list that is clean.               *)

LEMMA CleanIsUnique ==
    ASSUME NEW s \in CleanLists
    PROVE  unique(s) = s
<1> DEFINE I == {i \in DOMAIN s : \A j \in 1 .. (i - 1) : s[j] # s[i]}
<1>1. s \in Seq(Entries) /\ Distinct(s) BY DEF CleanLists
<1>2. Len(s) \in Nat /\ DOMAIN s = 1 .. Len(s) BY <1>1
<1>3. ASSUME NEW i \in 1 .. Len(s) PROVE i \in I
  <2>1. ASSUME NEW j \in 1 .. (i - 1), s[j] = s[i] PROVE FALSE
    <3>1. j \in 1 .. Len(s) /\ j # i BY <1>2, <2>1
    <3> QED BY <1>1, <1>2, <2>1, <3>1 DEF Distinct
  <2> QED BY <1>2, <2>1
<1>4. unique(s) = only(s, I) BY DEF unique
<1> HIDE DEF I
<1> QED BY <1>1, <1>3, <1>4, OnlyAll

\* A write puts the list there that the edit promises.
LEMMA WriteIsUpdate ==
    ASSUME NEW op \in Edits, NEW s \in CleanLists
    PROVE  (IF op.what = "add" /\ op.entry \in ToSet(s) THEN s ELSE edited(op, s))
                = list_after(op, s)
<1>0. s \in Seq(Entries) /\ Distinct(s) /\ Len(s) \in Nat /\ DOMAIN s = 1 .. Len(s)
  BY DEF CleanLists
<1>1. CASE op \in [what : {"add", "delete"}, entry : Normalised]
  <2>1. op.what \in {"add", "delete"} /\ op.entry \in Entries
    BY <1>1, ListAssumption DEF Normalised
  <2>2. CASE op.what = "add" /\ op.entry \notin ToSet(s)
    <3> DEFINE t == Append(s, op.entry)
    <3>1. s \o <<op.entry>> = t BY <1>0, <2>1
    <3>2. /\ t \in Seq(Entries) /\ DOMAIN t = 1 .. (Len(s) + 1) /\ t[Len(s) + 1] = op.entry
          /\ \A i \in 1 .. Len(s) : t[i] = s[i]
      BY <1>0, <2>1
    <3> HIDE DEF t
    <3>3. \A i \in 1 .. Len(s) : s[i] # op.entry BY <1>0, <2>2 DEF ToSet
    <3>4. \A i \in DOMAIN t : i \in 1 .. Len(s) \/ i = Len(s) + 1 BY <1>0, <3>2
    <3>5. Distinct(t) BY <1>0, <3>2, <3>3, <3>4 DEF Distinct
    <3>6. unique(t) = t BY <3>2, <3>5, CleanIsUnique DEF CleanLists
    <3> QED BY <2>2, <3>1, <3>6 DEF edited, list_after, t
  <2>3. CASE op.what = "add" /\ op.entry \in ToSet(s)
    BY <2>3 DEF list_after
  <2>4. CASE op.what = "delete"
    <3> DEFINE I == {i \in DOMAIN s : s[i] # op.entry}
    <3>1. edited(op, s) = unique(only(s, I)) /\ list_after(op, s) = only(s, I)
      BY <2>4 DEF edited, list_after
    <3>2. \A i, j \in I \cap DOMAIN s : s[i] = s[j] => i = j BY <1>0 DEF Distinct
    <3> HIDE DEF I
    <3>3. only(s, I) \in CleanLists BY <1>0, <3>2, OnlyElements DEF CleanLists
    <3> QED BY <2>4, <3>1, <3>3, CleanIsUnique
  <2> QED BY <2>1, <2>2, <2>3, <2>4
<1>2. CASE op \in [what : {"set"}, items : {<<e, e>> : e \in Normalised} \cup {<<>>}]
  <2>1. op.what = "set" BY <1>2
  <2> QED BY <2>1 DEF edited, list_after
<1> QED BY <1>1, <1>2 DEF Edits

LEMMA ListStoreStep ==
    ASSUME ListInv, [ListNext]_listVars
    PROVE  [ListStore!Next]_<<lines_of(list_file), collided>>
<1>1. CASE list_file' = list_file /\ collided' = collided
  BY <1>1 DEF lines_of
<1>2. CASE collided' = TRUE
  BY <1>2 DEF ListStore!Next, ListStore!Race
<1>3. ASSUME NEW w \in ListProcesses, start_edit(w)
      PROVE  list_file' = list_file /\ (collided' = collided \/ collided' = TRUE)
  BY <1>3 DEF start_edit, read_locked, ListInv, ListTypes
<1>4. ASSUME NEW w \in ListProcesses, write_edit(w), collided = FALSE
      PROVE  [ListStore!Next]_<<lines_of(list_file), collided>>
  <2> DEFINE op == ljob[w].op
             s == lines_of(list_file)
  <2>1. ljob[w].at = "edit" /\ ljob[w] \in ListJob BY <1>4 DEF write_edit, ListInv, ListTypes
  <2>2. op \in Edits BY <2>1, ListJobAt
  <2>3. ljob[w].read = s /\ s \in CleanLists
    BY <1>4, <2>1, ListJobAt DEF ListInv, EditsKept
  <2>4. /\ list_file' = IF op.what = "add" /\ op.entry \in ToSet(s) THEN list_file
                         ELSE edited(op, s)
        /\ collided' = FALSE
    BY <1>4, <2>3 DEF write_edit
  <2>5. edited(op, s) # NoList BY <2>2, <2>3, EditedList, CleanIs
  <2> HIDE DEF op
  <2>6. lines_of(list_file') = list_after(op, s)
    <3>1. CASE op.what = "add" /\ op.entry \in ToSet(s)
      BY <2>2, <2>3, <2>4, <3>1, WriteIsUpdate
    <3>2. CASE ~(op.what = "add" /\ op.entry \in ToSet(s))
      <4>1. list_file' = list_after(op, s) BY <2>2, <2>3, <2>4, <3>2, WriteIsUpdate
      <4> QED BY <2>4, <2>5, <3>2, <4>1 DEF lines_of
    <3> QED BY <3>1, <3>2
  <2>7. list_edited(op, lines_of(list_file), lines_of(list_file')) BY <2>6 DEF list_edited
  <2> QED BY <1>4, <2>2, <2>4, <2>7 DEF ListStore!Next, ListStore!Update, lines_of
<1>5. ASSUME NEW w \in ListProcesses, write_edit(w) PROVE collided' = collided
  BY <1>5 DEF write_edit
<1>6. collided \in BOOLEAN BY DEF ListInv, ListTypes
<1>7. ASSUME NEW w \in ListProcesses,
             fetch_url_text(w) \/ write_cache(w) \/ write_meta(w) \/ render_lists(w)
      PROVE  list_file' = list_file /\ collided' = collided
  BY <1>7 DEF fetch_url_text, write_cache, write_meta, render_lists
<1>8. ASSUME NEW w \in ListProcesses, NEW u \in ListUrls, refresh(w, u)
      PROVE  list_file' = list_file /\ collided' = collided
  BY <1>8 DEF refresh
<1>9. ASSUME NEW c \in ListSettings, patch_split(c) \/ \E w \in ListProcesses : save_list_settings(w, c)
      PROVE  list_file' = list_file /\ collided' = collided
  BY <1>9 DEF save_list_settings, patch_split
<1>10. CASE panel_killed \/ UNCHANGED listVars
  BY <1>1, <1>10 DEF panel_killed, listVars
<1> QED
  BY <1>1, <1>2, <1>3, <1>4, <1>5, <1>6, <1>7, <1>8, <1>9, <1>10
     DEF ListNext, edit_list, korctl_list

(* The routes and domains file implements AtomicUpdates: the panel's reads   *)
(* and writes under its lock are single edits of the list of the moment,     *)
(* however threads, downloads, renderings and crashes interleave, for any    *)
(* entries and any number of threads and korctl processes, until a korctl    *)
(* rewrite overlaps another one.                                             *)
THEOREM ListRefinement == ListSpec => ListImplementsStore
<1>1. ListInit => ListStore!Init
  BY DEF ListInit, ListStore!Init
<1>2. ListInv /\ [ListNext]_listVars => [ListStore!Next]_<<lines_of(list_file), collided>>
  BY ListStoreStep
<1> QED
  BY <1>1, <1>2, ListInvHolds, PTL DEF ListSpec, ListImplementsStore, ListStore!Spec
===============================================================================
