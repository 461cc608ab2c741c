-------------------------- MODULE SshSessionsProofs --------------------------
(* Proofs about SshSessions, for any profiles, ports, secrets and contents of  *)
(* ~/.ssh/config: what a session is started with, what the managed file says,  *)
(* where a session goes, who asks for the Include, and what it leaves.        *)
EXTENDS SshSessions, SequenceTheorems, FiniteSetTheorems, WellFoundedInduction, TLAPS

\* The managed file says what the list of profiles says, from each good write of
\* this window until a write of its own fails or another window writes: no way
\* to change the list forgets the file.
ManagedFileIsCurrent == ~lost => managed = Render(profiles)

\* What the command of a session that starts owes to its profile.
CommandOK ==
    session.phase = "started" =>
        /\ session.config = IF session.jumpPorts = {} THEN "user" ELSE "managed"
        /\ session.arguments.jump = IF session.arguments.byAlias THEN None ELSE session.profile.jump
        /\ session.arguments.byAlias
              \/ (session.arguments.withPort <=> session.profile.port # DefaultPort)

SessionsInv ==
    /\ DOMAIN profiles \subseteq Ids
    /\ ManagedFileIsCurrent
    /\ CommandOK
    /\ LaunchKeepsPromises

\* The managed file has blocks of aliases only, and ~/.ssh/config has lines.
FilesInv == DOMAIN managed \subseteq Aliases /\ userConfig \in Seq(Lines)

------------------------------------------------------------------------------
(* Values. *)

LEMMA DocumentIds == \A d \in Documents : DOMAIN d \subseteq Ids
BY DEF Documents

\* A block of the managed file is that of a profile of the list.
LEMMA RenderIs ==
    ASSUME NEW list, NEW alias \in DOMAIN Render(list)
    PROVE  \E q \in Named(list, alias) :
              Render(list)[alias].port = list[q].port /\ Render(list)[alias].jump = list[q].jump
<1> DEFINE q == CHOOSE p \in Named(list, alias) : TRUE
<1>1. alias \in {AliasOf[p] : p \in DOMAIN list}
  BY DEF Render
<1>2. q \in Named(list, alias)
  BY <1>1 DEF Named
<1>3. Render(list)[alias] = [port |-> list[q].port, jump |-> list[q].jump]
  BY <1>1 DEF Render
<1> HIDE DEF q
<1>4. Render(list)[alias].port = list[q].port /\ Render(list)[alias].jump = list[q].jump
  BY <1>3
<1>5. QED
  BY <1>2, <1>4

\* Its host is an alias, so it is none that is not.
LEMMA RenderedAliases ==
    ASSUME NEW list, DOMAIN list \subseteq Ids
    PROVE  DOMAIN Render(list) \subseteq Aliases /\ Address \notin DOMAIN Render(list)
BY ConfigAssumption DEF Render, Heads, Aliases

\* What ssh takes from the managed file alone: the block of the host, if any.
LEMMA ManagedPort ==
    ASSUME NEW config, NEW host
    PROVE  FirstPort(<<"include">>, config, host) =
              IF host \in DOMAIN config THEN config[host].port ELSE DefaultPort
<1> DEFINE file == <<"include">>
           setters == Setters(file, config, host)
<1>1. DOMAIN file = {1} /\ file[1] = "include"
  OBVIOUS
<1>2. Applies(file, 1, host)
  BY DEF Applies
<1>3. CASE host \in DOMAIN config
  <2>1. setters = {1}
    BY <1>1, <1>2, <1>3 DEF Setters
  <2>2. Min(setters) = 1
    BY <2>1 DEF Min
  <2>3. QED
    BY <1>1, <1>3, <2>1, <2>2 DEF FirstPort
<1>5. CASE host \notin DOMAIN config
  <2>1. file[1] \notin Ports
    BY <1>1, ConfigAssumption
  <2>2. setters = {}
    BY <1>1, <1>5, <2>1 DEF Setters
  <2>3. QED
    BY <1>5, <2>2 DEF FirstPort
<1>6. QED
  BY <1>3, <1>5

------------------------------------------------------------------------------
(* Induction over the natural numbers, by sets: one that is not empty has a    *)
(* least element, one that is bounded has a greatest.                          *)

LEMMA LeastElement ==
    ASSUME NEW T \in SUBSET Nat, T # {}
    PROVE  Min(T) \in T /\ \A n \in T : Min(T) <= n
<1>1. PICK m \in T : \A n \in T : ~(<<n, m>> \in OpToRel(<, Nat))
  BY WFMin, NatLessThanWellFounded
<1>2. \A n \in T : ~(n < m)
  BY <1>1 DEF OpToRel
<1>3. \A n \in T : m <= n
  BY <1>2
<1>4. QED
  BY <1>3 DEF Min

LEMMA GreatestElement ==
    ASSUME NEW T, T # {}, NEW b \in Nat, T \subseteq 0 .. b
    PROVE  Max(T) \in T /\ \A n \in T : n <= Max(T)
<1> DEFINE U == {b - n : n \in T}
<1>1. U \in SUBSET Nat /\ U # {}
  <2>1. \A n \in T : n \in Nat /\ b - n \in Nat
    OBVIOUS
  <2>2. QED
    BY <2>1
<1>2. Min(U) \in U /\ \A n \in U : Min(U) <= n
  BY <1>1, LeastElement
<1>3. PICK m \in T : Min(U) = b - m
  BY <1>2
<1>4. \A n \in T : n <= m
  <2>1. \A n \in T : b - m <= b - n
    BY <1>2, <1>3
  <2>2. QED
    BY <2>1
<1>5. QED
  BY <1>4 DEF Max

LEMMA InductiveSet ==
    ASSUME NEW T, 0 \in T, \A n \in Nat : n \in T => n + 1 \in T
    PROVE  Nat \subseteq T
<1> SUFFICES ASSUME Nat \ T # {} PROVE FALSE
  OBVIOUS
<1>1. PICK m \in Nat \ T : \A n \in Nat \ T : m <= n
  BY LeastElement
<1>2. m # 0 /\ m - 1 \in Nat /\ m - 1 < m
  BY <1>1
<1>3. m - 1 \in T
  BY <1>1, <1>2
<1>4. (m - 1) + 1 \in T
  BY <1>2, <1>3
<1>5. QED
  BY <1>1, <1>4

------------------------------------------------------------------------------
(* The lines of a file that are in a set. *)

LEMMA KeptIs ==
    ASSUME NEW config, Len(config) \in Nat, NEW S
    PROVE  /\ Kept(config, S)[0] = <<>>
           /\ \A n \in 1 .. Len(config) :
                 Kept(config, S)[n] = IF config[n] \in S THEN Append(Kept(config, S)[n - 1], config[n])
                                      ELSE Kept(config, S)[n - 1]
<1> DEFINE next(f, n) == IF config[n] \in S THEN Append(f[n - 1], config[n]) ELSE f[n - 1]
           Good(f, m) == f = [n \in 0 .. m |-> IF n = 0 THEN <<>> ELSE next(f, n)]
           T == {m \in Nat : \E f : Good(f, m)}
           kept == CHOOSE f : Good(f, Len(config))
<1>1. Kept(config, S) = kept
  BY DEF Kept
<1>2. 0 \in T
  <2> DEFINE f == [n \in 0 .. 0 |-> <<>>]
  <2>1. f = [n \in 0 .. 0 |-> IF n = 0 THEN <<>> ELSE next(f, n)]
    OBVIOUS
  <2>2. QED
    BY <2>1
<1>3. ASSUME NEW m \in Nat, m \in T PROVE m + 1 \in T
  <2>1. PICK f : Good(f, m)
    BY <1>3
  <2> DEFINE g == [n \in 0 .. m + 1 |-> IF n <= m THEN f[n] ELSE next(f, m + 1)]
  <2>2. ASSUME NEW n \in 0 .. m + 1 PROVE g[n] = IF n = 0 THEN <<>> ELSE next(g, n)
    <3>1. CASE n <= m
      <4>1. n \in 0 .. m /\ (n # 0 => n - 1 \in 0 .. m + 1 /\ n - 1 <= m)
        BY <3>1
      <4>2. g[n] = f[n] /\ (n # 0 => g[n - 1] = f[n - 1])
        BY <3>1, <4>1
      <4>3. f[n] = IF n = 0 THEN <<>> ELSE next(f, n)
        BY <2>1, <4>1
      <4> HIDE DEF g
      <4>4. QED
        BY <4>2, <4>3
    <3>2. CASE ~(n <= m)
      <4>1. n = m + 1 /\ n # 0 /\ n - 1 = m /\ m \in 0 .. m + 1
        BY <3>2
      <4>2. g[n] = next(f, m + 1) /\ g[m] = f[m]
        BY <4>1, <3>2
      <4> HIDE DEF g
      <4>3. next(f, m + 1) = next(g, n)
        BY <4>1, <4>2
      <4>4. QED
        BY <4>1, <4>2, <4>3
    <3>3. QED
      BY <3>1, <3>2
  <2>3. g = [n \in 0 .. m + 1 |-> g[n]]
    OBVIOUS
  <2> HIDE DEF g
  <2>4. Good(g, m + 1)
    BY <2>2, <2>3
  <2>5. QED
    BY <2>4
<1>4. \A n \in Nat : n \in T => n + 1 \in T
  BY <1>3
<1>5. Len(config) \in T
  <2> HIDE DEF T
  <2>1. QED
    BY <1>2, <1>4, InductiveSet
<1>6. Good(kept, Len(config))
  BY <1>5
<1> HIDE DEF kept
<1>7. kept[0] = <<>>
  BY <1>6
<1>8. \A n \in 1 .. Len(config) : kept[n] = next(kept, n)
  <2> HIDE DEF next
  <2>1. \A n \in 1 .. Len(config) : n \in 0 .. Len(config) /\ n # 0
    OBVIOUS
  <2>2. QED
    BY <1>6, <2>1
<1>9. QED
  BY <1>1, <1>7, <1>8

\* The lines stand in the file in the same order, at places f.
Places(config, S, o, f, n) ==
    /\ f \in [1 .. Len(o) -> 1 .. n]
    /\ \A i, j \in 1 .. Len(o) : i < j => f[i] < f[j]
    /\ \A j \in 1 .. Len(o) : o[j] = config[f[j]]
    /\ \A i \in 1 .. n : config[i] \in S => \E j \in 1 .. Len(o) : f[j] = i

LEMMA KeptPlaces ==
    ASSUME NEW X, NEW config \in Seq(X), NEW S, NEW m \in 0 .. Len(config)
    PROVE  /\ Kept(config, S)[m] \in Seq(X \cap S)
           /\ \E f : Places(config, S, Kept(config, S)[m], f, m)
<1> DEFINE K(n) == Kept(config, S)[n]
           Good(n) == K(n) \in Seq(X \cap S) /\ \E f : Places(config, S, K(n), f, n)
           T == {n \in Nat : n <= Len(config) => Good(n)}
<1>0. Len(config) \in Nat /\ \A i \in 1 .. Len(config) : config[i] \in X
  OBVIOUS
<1>1. K(0) = <<>> /\ \A n \in 1 .. Len(config) :
         K(n) = IF config[n] \in S THEN Append(K(n - 1), config[n]) ELSE K(n - 1)
  BY <1>0, KeptIs
<1> HIDE DEF K
<1>2. 0 \in T
  <2> DEFINE e == <<>>
  <2>1. e \in Seq(X \cap S) /\ Len(e) = 0
    OBVIOUS
  <2>2. Places(config, S, e, [i \in {} |-> 1], 0)
    BY <2>1 DEF Places
  <2>3. Good(0)
    BY <1>1, <2>1, <2>2
  <2>4. QED
    BY <2>3
<1>3. ASSUME NEW n \in Nat, n \in T, n + 1 <= Len(config) PROVE Good(n + 1)
  <2>1. Good(n)
    BY <1>0, <1>3
  <2>2. PICK f : Places(config, S, K(n), f, n)
    BY <2>1
  <2>3. n + 1 \in 1 .. Len(config) /\ (n + 1) - 1 = n
    BY <1>0, <1>3
  <2>4. K(n) \in Seq(X \cap S) /\ Len(K(n)) \in Nat
    BY <2>1
  <2>5. CASE config[n + 1] \notin S
    <3>1. K(n + 1) = K(n)
      BY <1>1, <2>3, <2>5
    <3>2. Places(config, S, K(n), f, n + 1)
      BY <2>2, <2>4, <2>5 DEF Places
    <3>3. QED
      BY <2>4, <3>1, <3>2
  <2>6. CASE config[n + 1] \in S
    <3> DEFINE o == K(n)
               p == Append(o, config[n + 1])
               g == [j \in 1 .. Len(o) + 1 |-> IF j <= Len(o) THEN f[j] ELSE n + 1]
    <3>1. K(n + 1) = p
      BY <1>1, <2>3, <2>6
    <3>2. config[n + 1] \in X \cap S
      BY <1>0, <2>3, <2>6
    <3>3. /\ p \in Seq(X \cap S) /\ Len(p) = Len(o) + 1 /\ p[Len(o) + 1] = config[n + 1]
          /\ \A j \in 1 .. Len(o) : p[j] = o[j]
      BY <2>4, <3>2, AppendProperties
    <3> HIDE DEF p, o
    <3>4. /\ Len(o) \in Nat /\ f \in [1 .. Len(o) -> 1 .. n]
          /\ \A i, j \in 1 .. Len(o) : i < j => f[i] < f[j]
          /\ \A j \in 1 .. Len(o) : o[j] = config[f[j]]
          /\ \A i \in 1 .. n : config[i] \in S => \E j \in 1 .. Len(o) : f[j] = i
      BY <2>2, <2>4 DEF Places, o
    <3>5. /\ g \in [1 .. Len(o) + 1 -> 1 .. n + 1] /\ g[Len(o) + 1] = n + 1
          /\ \A j \in 1 .. Len(o) : g[j] = f[j]
      BY <3>4
    <3> HIDE DEF g
    <3>6. \A j \in 1 .. Len(o) + 1 : j = Len(o) + 1 \/ j \in 1 .. Len(o)
      BY <3>4
    <3>7. \A i, j \in 1 .. Len(o) + 1 : i < j => g[i] < g[j]
      <4> SUFFICES ASSUME NEW i \in 1 .. Len(o) + 1, NEW j \in 1 .. Len(o) + 1, i < j
                   PROVE  g[i] < g[j]
        OBVIOUS
      <4>1. i \in 1 .. Len(o) /\ g[i] = f[i] /\ f[i] \in 1 .. n
        <5>1. Len(o) \in Nat
          BY <3>4
        <5>2. i \in 1 .. Len(o)
          BY <5>1
        <5>3. f[i] \in 1 .. n
          BY <3>4, <5>2
        <5>4. QED
          BY <3>5, <5>2, <5>3
      <4>2. CASE j = Len(o) + 1
        BY <3>5, <4>1, <4>2
      <4>3. CASE j # Len(o) + 1
        <5>1. j \in 1 .. Len(o) /\ g[j] = f[j]
          BY <3>5, <3>6, <4>3
        <5>2. QED
          BY <3>4, <4>1, <5>1
      <4>4. QED
        BY <4>2, <4>3
    <3>8. \A j \in 1 .. Len(o) + 1 : p[j] = config[g[j]]
      BY <3>3, <3>4, <3>5, <3>6
    <3>9. \A i \in 1 .. n + 1 : config[i] \in S => \E j \in 1 .. Len(o) + 1 : g[j] = i
      <4> SUFFICES ASSUME NEW i \in 1 .. n + 1, config[i] \in S PROVE \E j \in 1 .. Len(o) + 1 : g[j] = i
        OBVIOUS
      <4>1. CASE i = n + 1
        BY <3>4, <3>5, <4>1
      <4>2. CASE i # n + 1
        <5>1. PICK j \in 1 .. Len(o) : f[j] = i
          BY <3>4, <4>2
        <5>2. j \in 1 .. Len(o) + 1 /\ g[j] = i
          BY <3>4, <3>5, <5>1
        <5>3. QED
          BY <5>2
      <4>3. QED
        BY <4>1, <4>2
    <3>10. Places(config, S, p, g, n + 1)
      BY <3>3, <3>5, <3>7, <3>8, <3>9 DEF Places
    <3>11. QED
      BY <3>1, <3>3, <3>10
  <2>7. QED
    BY <2>5, <2>6
<1>4. \A n \in Nat : n \in T => n + 1 \in T
  BY <1>3
<1> HIDE DEF Good
<1>5. m \in T
  <2> HIDE DEF T
  <2>1. QED
    BY <1>0, <1>2, <1>4, InductiveSet
<1>6. QED
  BY <1>0, <1>5 DEF Good, K

\* Lines that are not in the set may stand before a file without any effect.
Behind(s, t, d, m, S) ==
    /\ Len(s) \in Nat /\ Len(t) \in Nat /\ d \in Nat /\ m \in Nat
    /\ d + m <= Len(s) /\ m <= Len(t)
    /\ \A i \in 1 .. d : s[i] \notin S
    /\ \A i \in 1 .. m : s[d + i] = t[i]

LEMMA KeptBehind ==
    ASSUME NEW S, NEW s, NEW t, NEW d, NEW m, Behind(s, t, d, m, S)
    PROVE  Kept(s, S)[d + m] = Kept(t, S)[m]
<1> USE DEF Behind
<1> DEFINE K == Kept(s, S)
           L == Kept(t, S)
           T == {n \in Nat : n <= d => K[n] = <<>>}
           U == {n \in Nat : n <= m => K[d + n] = L[n]}
<1>1. K[0] = <<>> /\ \A n \in 1 .. Len(s) : K[n] = IF s[n] \in S THEN Append(K[n - 1], s[n]) ELSE K[n - 1]
  BY KeptIs
<1>2. L[0] = <<>> /\ \A n \in 1 .. Len(t) : L[n] = IF t[n] \in S THEN Append(L[n - 1], t[n]) ELSE L[n - 1]
  BY KeptIs
<1> HIDE DEF K, L
<1>3. d \in T
  <2>1. ASSUME NEW n \in Nat, n \in T PROVE n + 1 \in T
    <3> SUFFICES ASSUME n + 1 <= d PROVE K[n + 1] = <<>>
      OBVIOUS
    <3>1. n + 1 \in 1 .. d /\ n + 1 \in 1 .. Len(s) /\ (n + 1) - 1 = n /\ n <= d
      OBVIOUS
    <3>2. QED
      BY <1>1, <2>1, <3>1
  <2>2. 0 \in T
    BY <1>1
  <2> HIDE DEF T
  <2>3. QED
    BY <2>1, <2>2, InductiveSet
<1>4. m \in U
  <2>1. ASSUME NEW n \in Nat, n \in U PROVE n + 1 \in U
    <3> SUFFICES ASSUME n + 1 <= m PROVE K[d + (n + 1)] = L[n + 1]
      OBVIOUS
    <3>1. /\ n + 1 \in 1 .. m /\ n + 1 \in 1 .. Len(t) /\ (n + 1) - 1 = n /\ n <= m
          /\ d + (n + 1) \in 1 .. Len(s) /\ d + (n + 1) - 1 = d + n
      OBVIOUS
    <3>2. K[d + n] = L[n] /\ s[d + (n + 1)] = t[n + 1]
      BY <2>1, <3>1
    <3>3. K[d + (n + 1)] = IF s[d + (n + 1)] \in S THEN Append(K[d + n], s[d + (n + 1)]) ELSE K[d + n]
      BY <1>1, <3>1
    <3>4. L[n + 1] = IF t[n + 1] \in S THEN Append(L[n], t[n + 1]) ELSE L[n]
      BY <1>2, <3>1
    <3>5. QED
      BY <3>2, <3>3, <3>4
  <2>2. 0 \in U
    BY <1>2, <1>3
  <2> HIDE DEF U
  <2>3. QED
    BY <2>1, <2>2, InductiveSet
<1>5. QED
  BY <1>4 DEF K, L

LEMMA OnlyAppend ==
    ASSUME NEW X, NEW s \in Seq(X), NEW e \in X, NEW S
    PROVE  Only(Append(s, e), S) = IF e \in S THEN Append(Only(s, S), e) ELSE Only(s, S)
<1>1. PICK long : long = Append(s, e)
  OBVIOUS
<1>2. /\ Len(s) \in Nat /\ Len(long) = Len(s) + 1 /\ long[Len(s) + 1] = e
      /\ \A i \in 1 .. Len(s) : long[i] = s[i]
  BY <1>1, AppendProperties
<1>3. Behind(long, s, 0, Len(s), S)
  BY <1>2 DEF Behind
<1>4. Kept(long, S)[Len(s)] = Kept(s, S)[Len(s)]
  <2>1. Kept(long, S)[0 + Len(s)] = Kept(s, S)[Len(s)]
    BY <1>3, KeptBehind
  <2>2. QED
    BY <1>2, <2>1
<1>5. Len(s) + 1 \in 1 .. Len(long) /\ (Len(s) + 1) - 1 = Len(s) /\ Len(long) \in Nat
  BY <1>2
<1>6. Kept(long, S)[Len(s) + 1] = IF e \in S THEN Append(Kept(long, S)[Len(s)], e) ELSE Kept(long, S)[Len(s)]
  BY <1>2, <1>5, KeptIs
<1>7. QED
  BY <1>1, <1>2, <1>4, <1>6 DEF Only

\* Taking lines out that are not in the set does not change those that are.
LEMMA OnlyOfOnly ==
    ASSUME NEW X, NEW c \in Seq(X), NEW S, NEW R, S \subseteq R
    PROVE  Only(Only(c, R), S) = Only(c, S)
<1> DEFINE K(n) == Kept(c, R)[n]
           L(n) == Kept(c, S)[n]
           T == {n \in Nat : n <= Len(c) => Only(K(n), S) = L(n)}
<1>a. \A s \in Seq(X), e \in X :
         Only(Append(s, e), S) = IF e \in S THEN Append(Only(s, S), e) ELSE Only(s, S)
  BY OnlyAppend
<1>0. Len(c) \in Nat /\ \A i \in 1 .. Len(c) : c[i] \in X
  OBVIOUS
<1>1. K(0) = <<>> /\ \A n \in 1 .. Len(c) : K(n) = IF c[n] \in R THEN Append(K(n - 1), c[n]) ELSE K(n - 1)
  BY <1>0, KeptIs
<1>2. L(0) = <<>> /\ \A n \in 1 .. Len(c) : L(n) = IF c[n] \in S THEN Append(L(n - 1), c[n]) ELSE L(n - 1)
  BY <1>0, KeptIs
<1>3. \A n \in 0 .. Len(c) : K(n) \in Seq(X)
  <2> TAKE n \in 0 .. Len(c)
  <2>1. K(n) \in Seq(X \cap R)
    BY <1>0, KeptPlaces
  <2> HIDE DEF K
  <2>2. QED
    BY <2>1
<1> HIDE DEF K, L
<1>4. 0 \in T
  <2> DEFINE e == <<>>
  <2>1. Len(e) = 0
    OBVIOUS
  <2>2. Kept(e, S)[0] = <<>>
    BY <2>1, KeptIs
  <2>3. Only(<<>>, S) = <<>>
    BY <2>1, <2>2 DEF Only
  <2>4. QED
    BY <1>1, <1>2, <2>3
<1>5. ASSUME NEW n \in Nat, n \in T PROVE n + 1 \in T
  <2> SUFFICES ASSUME n + 1 <= Len(c) PROVE Only(K(n + 1), S) = L(n + 1)
    OBVIOUS
  <2>1. /\ n + 1 \in 1 .. Len(c) /\ (n + 1) - 1 = n /\ n <= Len(c) /\ n \in 0 .. Len(c)
    BY <1>0
  <2>2. Only(K(n), S) = L(n) /\ K(n) \in Seq(X) /\ c[n + 1] \in X
    BY <1>0, <1>3, <1>5, <2>1
  <2>3. Only(Append(K(n), c[n + 1]), S) =
           IF c[n + 1] \in S THEN Append(Only(K(n), S), c[n + 1]) ELSE Only(K(n), S)
    BY <1>a, <2>2
  <2>4. CASE c[n + 1] \in R
    BY <1>1, <1>2, <2>1, <2>2, <2>3, <2>4
  <2>5. CASE c[n + 1] \notin R
    BY <1>1, <1>2, <2>1, <2>2, <2>5
  <2>6. QED
    BY <2>4, <2>5
<1>6. Len(c) \in T
  <2> HIDE DEF T
  <2>1. QED
    BY <1>0, <1>4, <1>5, InductiveSet
<1>7. QED
  BY <1>0, <1>6 DEF Only, K, L

------------------------------------------------------------------------------
(* What installInclude writes, and what it leaves to a host that is no profile. *)

\* The places of OwnLines in the file it is taken from.
LEMMA OwnPlaces ==
    ASSUME NEW config \in Seq(Lines)
    PROVE  /\ OwnLines(config) \in Seq(Heads \cup Ports)
           /\ \E f : Places(config, Heads \cup Ports, OwnLines(config), f, Len(config))
<1> DEFINE S == Heads \cup Ports
<1>1. Len(config) \in 0 .. Len(config)
  OBVIOUS
<1>2. Kept(config, S)[Len(config)] = OwnLines(config)
  BY DEF OwnLines, Only
<1> HIDE DEF S
<1>3. OwnLines(config) \in Seq(Lines \cap S) /\ \E f : Places(config, S, OwnLines(config), f, Len(config))
  BY <1>1, <1>2, KeptPlaces
<1>4. OwnLines(config) \in Seq(S)
  BY <1>3
<1>5. QED
  BY <1>3, <1>4 DEF S

LEMMA DropBlanksIs ==
    ASSUME NEW X, NEW config \in Seq(X), NEW S, "blank" \notin S
    PROVE  DropBlanks(config) \in Seq(X) /\ Only(DropBlanks(config), S) = Only(config, S)
<1> DEFINE own == {i \in DOMAIN config : config[i] # "blank"}
<1>0. Len(config) \in Nat /\ DOMAIN config = 1 .. Len(config) /\ \A i \in 1 .. Len(config) : config[i] \in X
  OBVIOUS
<1>1. CASE own = {}
  <2>1. PICK empty : empty = <<>>
    OBVIOUS
  <2>2. DropBlanks(config) = empty
    BY <1>1, <2>1 DEF DropBlanks
  <2>3. Len(empty) = 0 /\ empty \in Seq(X)
    BY <2>1
  <2>4. Behind(config, empty, Len(config), 0, S)
    BY <1>0, <1>1, <2>3 DEF Behind
  <2>5. Kept(config, S)[Len(config) + 0] = Kept(empty, S)[0]
    BY <2>4, KeptBehind
  <2>6. Kept(config, S)[Len(config)] = Kept(empty, S)[Len(empty)]
    BY <1>0, <2>3, <2>5
  <2>7. QED
    BY <2>2, <2>3, <2>6 DEF Only
<1>2. CASE own # {}
  <2>1. PICK r : r = Min(own)
    OBVIOUS
  <2>2. r \in own /\ \A i \in own : r <= i
    <3>1. own \in SUBSET Nat
      BY <1>0
    <3> HIDE DEF own
    <3>2. QED
      BY <1>2, <2>1, <3>1, LeastElement
  <2>3. r \in 1 .. Len(config) /\ \A i \in 1 .. r - 1 : config[i] \notin S
    BY <1>0, <2>2
  <2>4. PICK rest : rest = SubSeq(config, r, Len(config))
    OBVIOUS
  <2>5. DropBlanks(config) = rest
    BY <1>2, <2>1, <2>4 DEF DropBlanks
  <2>6. /\ rest \in Seq(X) /\ Len(rest) = Len(config) - (r - 1)
        /\ \A i \in 1 .. Len(config) - (r - 1) : rest[i] = config[(r - 1) + i]
    <3>1. r \in Int /\ Len(config) \in Int /\ \A i \in r .. Len(config) : config[i] \in X
      BY <1>0, <2>3
    <3>2. rest \in Seq(X)
      BY <2>4, <3>1, SubSeqProperties
    <3>3. Len(rest) = IF r <= Len(config) THEN Len(config) - r + 1 ELSE 0
      BY <2>4, <3>1, SubSeqProperties
    <3>4. \A i \in 1 .. Len(config) - r + 1 : rest[i] = config[r + i - 1]
      BY <2>4, <3>1, SubSeqProperties
    <3>5. \A i \in 1 .. Len(config) - (r - 1) : i \in 1 .. Len(config) - r + 1 /\ r + i - 1 = (r - 1) + i
      BY <1>0, <2>3
    <3>6. QED
      BY <1>0, <2>3, <3>2, <3>3, <3>4, <3>5
  <2>7. Behind(config, rest, r - 1, Len(rest), S)
    BY <1>0, <2>3, <2>6 DEF Behind
  <2>8. Kept(config, S)[(r - 1) + Len(rest)] = Kept(rest, S)[Len(rest)]
    BY <2>7, KeptBehind
  <2>9. (r - 1) + Len(rest) = Len(config)
    BY <1>0, <2>3, <2>6
  <2>10. QED
    BY <2>5, <2>6, <2>8, <2>9 DEF Only
<1>3. QED
  BY <1>1, <1>2

\* The user's lines stay, in their order, and the Include stands once, on top.
LEMMA InstallIs ==
    ASSUME NEW config \in Seq(Lines)
    PROVE  /\ Install(config) \in Seq(Lines)
           /\ OwnLines(Install(config)) = OwnLines(config)
           /\ Install(config) # config =>
                IsIncluded(Install(config)) /\ Cardinality(Includes(Install(config))) = 1
<1> DEFINE S == Heads \cup Ports
           R == Lines \ {"marker", "include"}
           top == <<"marker", "include", "blank">>
<1>1. CASE IsIncluded(config)
  BY <1>1 DEF Install
<1>2. CASE ~IsIncluded(config)
  <2>1. /\ S \subseteq R /\ {"marker", "include", "blank"} \cap S = {}
        /\ {"marker", "include", "blank"} \subseteq Lines /\ R \subseteq Lines
    BY ConfigAssumption DEF Lines
  <2>2. PICK own : own = Only(config, R)
    OBVIOUS
  <2>3. own \in Seq(R)
    <3>1. Len(config) \in 0 .. Len(config)
      OBVIOUS
    <3> HIDE DEF R
    <3>2. own \in Seq(Lines \cap R)
      BY <2>2, <3>1, KeptPlaces DEF Only
    <3>3. QED
      BY <3>2
  <2>4. PICK rest : rest = DropBlanks(own)
    OBVIOUS
  <2>5. rest \in Seq(R) /\ Only(rest, S) = Only(config, S)
    <3> HIDE DEF R, S
    <3>1. rest \in Seq(R) /\ Only(rest, S) = Only(own, S)
      BY <2>1, <2>3, <2>4, DropBlanksIs
    <3>2. Only(own, S) = Only(config, S)
      BY <2>1, <2>2, OnlyOfOnly
    <3>3. QED
      BY <3>1, <3>2
  <2>6. PICK new : new = top \o rest
    OBVIOUS
  <2>7. Install(config) = new
    BY <1>2, <2>2, <2>4, <2>6 DEF Install
  <2>8. /\ Len(rest) \in Nat /\ \A i \in 1 .. Len(rest) : rest[i] \in R
        /\ Len(top) = 3 /\ top \in Seq(Lines) /\ rest \in Seq(Lines)
        /\ top[1] = "marker" /\ top[2] = "include" /\ top[3] = "blank"
    <3>1. Len(rest) \in Nat /\ (\A i \in 1 .. Len(rest) : rest[i] \in R) /\ rest \in Seq(Lines)
      <4> HIDE DEF R
      <4>1. QED
        BY <2>1, <2>5
    <3>2. QED
      BY <2>1, <3>1
  <2> HIDE DEF top
  <2>9. /\ new \in Seq(Lines) /\ Len(new) = Len(top) + Len(rest)
        /\ \A i \in 1 .. Len(top) + Len(rest) :
              new[i] = IF i <= Len(top) THEN top[i] ELSE rest[i - Len(top)]
    BY <2>6, <2>8, ConcatProperties
  <2>10. /\ Len(new) = 3 + Len(rest) /\ DOMAIN new = 1 .. Len(new)
         /\ new[1] = "marker" /\ new[2] = "include" /\ new[3] = "blank"
         /\ \A i \in 1 .. Len(rest) : new[3 + i] = rest[i]
    <3>1. \A i \in 1 .. 3 : i \in 1 .. 3 + Len(rest) /\ i <= 3
      BY <2>8
    <3>2. \A i \in 1 .. 3 : new[i] = top[i]
      BY <2>8, <2>9, <3>1
    <3>3. \A i \in 1 .. Len(rest) : 3 + i \in 1 .. 3 + Len(rest) /\ ~(3 + i <= 3) /\ (3 + i) - 3 = i
      BY <2>8
    <3>4. \A i \in 1 .. Len(rest) : new[3 + i] = rest[i]
      BY <2>8, <2>9, <3>3
    <3>5. QED
      BY <2>8, <2>9, <3>2, <3>4
  <2>11. \A i \in DOMAIN new : i \in 1 .. 3 \/ i - 3 \in 1 .. Len(rest)
    BY <2>8, <2>10
  <2>12. OwnLines(new) = OwnLines(config)
    <3>1. Behind(new, rest, 3, Len(rest), S)
      <4>1. \A i \in 1 .. 3 : i = 1 \/ i = 2 \/ i = 3
        OBVIOUS
      <4>2. \A i \in 1 .. 3 : new[i] \notin S
        BY <2>1, <2>10, <4>1
      <4>3. QED
        BY <2>8, <2>10, <4>2 DEF Behind
    <3>2. Kept(new, S)[3 + Len(rest)] = Kept(rest, S)[Len(rest)]
      BY <3>1, KeptBehind
    <3>3. QED
      BY <2>5, <2>10, <3>2 DEF Only, OwnLines
  <2>13. Includes(new) = {2}
    <3>1. ASSUME NEW i \in DOMAIN new, i - 3 \in 1 .. Len(rest) PROVE new[i] # "include"
      <4>1. 3 + (i - 3) = i
        BY <2>10, <3>1
      <4>2. new[i] = rest[i - 3]
        BY <2>10, <3>1, <4>1
      <4>3. QED
        BY <2>8, <3>1, <4>2
    <3>2. \A i \in 1 .. 3 : i = 1 \/ i = 2 \/ i = 3
      OBVIOUS
    <3>3. 2 \in DOMAIN new
      BY <2>8, <2>10
    <3>4. QED
      BY <2>10, <2>11, <3>1, <3>2, <3>3 DEF Includes
  <2>14. IsIncluded(new)
    <3>1. Min(Includes(new)) = 2
      BY <2>13 DEF Min
    <3>2. \A i \in 1 .. 2 : i = 1 \/ i = 2
      OBVIOUS
    <3>3. new[1] \notin Heads /\ new[2] \notin Heads
      BY <2>1, <2>10
    <3>4. QED
      BY <2>13, <3>1, <3>2, <3>3 DEF IsIncluded, HasInclude
  <2>15. Cardinality(Includes(new)) = 1
    BY <2>13, FS_Singleton
  <2>16. QED
    BY <2>7, <2>9, <2>12, <2>14, <2>15
<1>3. QED
  BY <1>1, <1>2

\* The lines that give a host that the managed file does
\* not name its port.
SettersIn(config, host) == {i \in DOMAIN config : config[i] \in Ports /\ Applies(config, i, host)}
PortIn(config, host) ==
    IF SettersIn(config, host) = {} THEN DefaultPort ELSE config[Min(SettersIn(config, host))]

LEMMA FirstIsOwn ==
    ASSUME NEW config \in Seq(Lines), NEW file, NEW host, host \notin DOMAIN file
    PROVE  FirstPort(config, file, host) = PortIn(config, host)
<1> DEFINE setters == SettersIn(config, host)
<1>1. Setters(config, file, host) = setters
  BY DEF Setters, SettersIn
<1>2. CASE setters = {}
  BY <1>1, <1>2 DEF FirstPort, PortIn
<1>3. CASE setters # {}
  <2>1. setters \in SUBSET Nat
    BY DEF SettersIn
  <2>2. Min(setters) \in setters
    <3> HIDE DEF setters
    <3>1. QED
      BY <1>3, <2>1, LeastElement
  <2>3. config[Min(setters)] # "include"
    BY <2>2, ConfigAssumption DEF SettersIn
  <2>4. QED
    BY <1>1, <1>3, <2>3 DEF FirstPort, PortIn
<1>4. QED
  BY <1>2, <1>3

\* It depends on the user's own lines only: a head applies to the same of them.
LEMMA OwnLinesDecide ==
    ASSUME NEW config \in Seq(Lines), NEW host
    PROVE  PortIn(config, host) = PortIn(OwnLines(config), host)
<1> DEFINE S == Heads \cup Ports
<1>1. PICK own : own = OwnLines(config)
  OBVIOUS
<1>2. own \in Seq(S)
  BY <1>1, OwnPlaces
<1>3. PICK f : Places(config, S, own, f, Len(config))
  BY <1>1, OwnPlaces
<1>4. /\ Len(own) \in Nat /\ DOMAIN own = 1 .. Len(own) /\ \A j \in 1 .. Len(own) : own[j] \in S
      /\ Len(config) \in Nat /\ DOMAIN config = 1 .. Len(config)
  <2> HIDE DEF S
  <2>1. QED
    BY <1>2
<1>5. /\ f \in [1 .. Len(own) -> 1 .. Len(config)]
      /\ \A i, j \in 1 .. Len(own) : i < j => f[i] < f[j]
      /\ \A j \in 1 .. Len(own) : own[j] = config[f[j]]
      /\ \A i \in 1 .. Len(config) : config[i] \in S => \E j \in 1 .. Len(own) : f[j] = i
  BY <1>3 DEF Places
<1>6. \A i, j \in 1 .. Len(own) : f[i] < f[j] => i < j
  <2> TAKE i \in 1 .. Len(own), j \in 1 .. Len(own)
  <2>1. i < j \/ i = j \/ j < i
    OBVIOUS
  <2>2. f[i] \in Nat /\ f[j] \in Nat
    BY <1>5
  <2>3. QED
    BY <1>5, <2>1, <2>2
\* The least and the greatest line of a set are so in the file, too.
<1>7. ASSUME NEW T \in SUBSET (1 .. Len(own)), NEW U, U = {f[j] : j \in T}, T # {}
      PROVE  /\ Min(T) \in T /\ Max(T) \in T /\ U # {}
             /\ Min(U) = f[Min(T)] /\ Max(U) = f[Max(T)]
  <2>1. T \in SUBSET Nat /\ T \subseteq 0 .. Len(own) /\ U # {}
    <3>1. \A n \in 1 .. Len(own) : n \in Nat /\ n \in 0 .. Len(own)
      BY <1>4
    <3>2. PICK n : n \in T
      BY <1>7
    <3>3. f[n] \in U
      BY <1>7, <3>2
    <3>4. QED
      BY <3>1, <3>3
  <2>2. U \in SUBSET Nat /\ U \subseteq 0 .. Len(config)
    BY <1>4, <1>5, <1>7
  <2>3. PICK a \in T : a = Min(T) /\ \A n \in T : a <= n
    BY <1>7, <2>1, LeastElement
  <2>4. PICK z \in T : z = Max(T) /\ \A n \in T : n <= z
    BY <1>4, <1>7, <2>1, GreatestElement
  <2>5. PICK u \in U : u = Min(U) /\ \A n \in U : u <= n
    BY <2>1, <2>2, LeastElement
  <2>6. PICK v \in U : v = Max(U) /\ \A n \in U : n <= v
    BY <1>4, <2>1, <2>2, GreatestElement
  <2>7. PICK b \in T, y \in T : u = f[b] /\ v = f[y]
    BY <1>7
  <2>8. f[b] <= f[a] /\ f[z] <= f[y] /\ a <= b /\ y <= z
    BY <1>7, <2>3, <2>4, <2>5, <2>6, <2>7
  <2>9. /\ a \in 1 .. Len(own) /\ b \in 1 .. Len(own) /\ y \in 1 .. Len(own) /\ z \in 1 .. Len(own)
        /\ f[a] \in Nat /\ f[b] \in Nat /\ f[y] \in Nat /\ f[z] \in Nat
    <3>1. \A j \in 1 .. Len(own) : f[j] \in Nat
      BY <1>4, <1>5
    <3>2. QED
      BY <3>1
  <2>10. a = b /\ y = z
    BY <1>5, <2>8, <2>9
  <2>11. QED
    BY <2>1, <2>3, <2>4, <2>5, <2>6, <2>7, <2>10
<1>8. ASSUME NEW j \in 1 .. Len(own)
      PROVE  Applies(config, f[j], host) <=> Applies(own, j, host)
  <2> DEFINE T == {k \in 1 .. j - 1 : own[k] \in Heads}
             U == {k \in 1 .. f[j] - 1 : config[k] \in Heads}
  <2>1. f[j] \in 1 .. Len(config)
    BY <1>5
  <2>2. ASSUME NEW k \in T PROVE f[k] \in U
    <3>1. k \in 1 .. Len(own) /\ k < j
      BY <1>4
    <3>2. f[k] \in 1 .. Len(config) /\ f[k] < f[j] /\ own[k] = config[f[k]]
      BY <1>5, <3>1
    <3>3. QED
      BY <2>1, <3>2
  <2>3. ASSUME NEW i \in U PROVE \E k \in T : f[k] = i
    <3>1. i \in 1 .. Len(config) /\ i < f[j] /\ config[i] \in S
      BY <1>4, <2>1
    <3>2. PICK k \in 1 .. Len(own) : f[k] = i
      BY <1>5, <3>1
    <3>3. k < j
      BY <1>6, <3>1, <3>2
    <3>4. own[k] \in Heads
      BY <1>5, <3>2
    <3>5. k \in T
      BY <3>3, <3>4
    <3>6. QED
      BY <3>2, <3>5
  <2>4. U = {f[k] : k \in T}
    <3> HIDE DEF T, U
    <3>1. QED
      BY <2>2, <2>3
  <2>5. T \in SUBSET (1 .. Len(own))
    BY <1>4
  <2>6. CASE T = {}
    <3>1. U = {}
      BY <2>4, <2>6
    <3>2. QED
      BY <2>6, <3>1 DEF Applies
  <2>7. CASE T # {}
    <3>1. Max(T) \in T /\ U # {} /\ Max(U) = f[Max(T)]
      <4> HIDE DEF T, U
      <4>1. QED
        BY <1>7, <2>4, <2>5, <2>7
    <3>2. Max(T) \in 1 .. Len(own)
      <4> HIDE DEF T
      <4>1. QED
        BY <2>5, <3>1
    <3>3. config[Max(U)] = own[Max(T)]
      BY <1>5, <3>1, <3>2
    <3>4. QED
      BY <2>7, <3>1, <3>3 DEF Applies
  <2>8. QED
    BY <2>6, <2>7
<1>9. SettersIn(config, host) = {f[j] : j \in SettersIn(own, host)}
  <2>1. ASSUME NEW j \in SettersIn(own, host) PROVE f[j] \in SettersIn(config, host)
    <3>1. j \in 1 .. Len(own) /\ own[j] \in Ports /\ Applies(own, j, host)
      BY <1>4 DEF SettersIn
    <3>2. f[j] \in 1 .. Len(config) /\ config[f[j]] \in Ports /\ Applies(config, f[j], host)
      BY <1>5, <1>8, <3>1
    <3>3. QED
      BY <1>4, <3>2 DEF SettersIn
  <2>2. ASSUME NEW i \in SettersIn(config, host) PROVE \E j \in SettersIn(own, host) : f[j] = i
    <3>1. i \in 1 .. Len(config) /\ config[i] \in Ports /\ Applies(config, i, host)
      BY <1>4 DEF SettersIn
    <3>2. PICK j \in 1 .. Len(own) : f[j] = i
      BY <1>5, <3>1
    <3>3. own[j] \in Ports /\ Applies(own, j, host)
      BY <1>5, <1>8, <3>1, <3>2
    <3>4. j \in SettersIn(own, host)
      BY <1>4, <3>3 DEF SettersIn
    <3>5. QED
      BY <3>2, <3>4
  <2>3. QED
    BY <2>1, <2>2
<1>10. SettersIn(own, host) \in SUBSET (1 .. Len(own))
  BY <1>4 DEF SettersIn
<1>11. CASE SettersIn(own, host) = {}
  <2>1. SettersIn(config, host) = {}
    BY <1>9, <1>11
  <2>2. QED
    BY <1>1, <1>11, <2>1 DEF PortIn
<1>12. CASE SettersIn(own, host) # {}
  <2>1. /\ Min(SettersIn(own, host)) \in SettersIn(own, host) /\ SettersIn(config, host) # {}
        /\ Min(SettersIn(config, host)) = f[Min(SettersIn(own, host))]
    BY <1>7, <1>9, <1>10, <1>12
  <2>2. config[Min(SettersIn(config, host))] = own[Min(SettersIn(own, host))]
    BY <1>5, <1>10, <2>1
  <2>3. QED
    BY <1>1, <1>12, <2>1, <2>2 DEF PortIn
<1>13. QED
  BY <1>11, <1>12

\* So a host that no profile has keeps its port as long as those lines stay.
LEMMA SameLinesSamePort ==
    ASSUME NEW old \in Seq(Lines), NEW new \in Seq(Lines), OwnLines(new) = OwnLines(old),
           NEW oldFile, NEW newFile, NEW host, host \notin DOMAIN oldFile, host \notin DOMAIN newFile
    PROVE  FirstPort(new, newFile, host) = FirstPort(old, oldFile, host)
<1>1. FirstPort(new, newFile, host) = PortIn(new, host) /\ FirstPort(old, oldFile, host) = PortIn(old, host)
  BY FirstIsOwn
<1>2. PortIn(new, host) = PortIn(OwnLines(new), host) /\ PortIn(old, host) = PortIn(OwnLines(old), host)
  BY OwnLinesDecide
<1>3. QED
  BY <1>1, <1>2

\* Of any host: it is the port of the managed block, or the first of the user's
\* own lines for that host, or nothing is said of it at all.
LEMMA PortsGiven ==
    ASSUME userConfig \in Seq(Lines), NEW host
    PROVE  \/ FirstPort(userConfig, managed, host) \in OwnPorts(host)
           \/ /\ host \in DOMAIN managed
              /\ FirstPort(userConfig, managed, host) = managed[host].port
<1> DEFINE setters == Setters(userConfig, managed, host)
           own == OwnSetters(host)
<1>1. own \subseteq setters
  BY DEF Setters, OwnSetters
<1>2. setters \in SUBSET Nat /\ own \in SUBSET Nat
  BY DEF Setters, OwnSetters
<1>3. CASE setters = {}
  <2>1. FirstPort(userConfig, managed, host) = DefaultPort /\ own = {}
    BY <1>1, <1>3 DEF FirstPort
  <2>2. ~Meets(userConfig, managed, host)
    BY <1>3 DEF Setters, Meets, Includes
  <2>3. QED
    BY <2>1, <2>2 DEF OwnPorts
<1>4. CASE setters # {}
  <2>1. PICK m : m = Min(setters)
    OBVIOUS
  <2>2. m \in setters /\ \A n \in setters : m <= n
    <3> HIDE DEF setters
    <3>1. QED
      BY <1>2, <1>4, <2>1, LeastElement
  <2>3. /\ userConfig[m] \in Ports \/ (userConfig[m] = "include" /\ host \in DOMAIN managed)
        /\ FirstPort(userConfig, managed, host) =
              IF userConfig[m] = "include" THEN managed[host].port ELSE userConfig[m]
    BY <1>4, <2>1, <2>2 DEF Setters, FirstPort
  <2>4. CASE userConfig[m] \in Ports
    <3>1. m \in own /\ userConfig[m] # "include"
      BY <2>2, <2>4, ConfigAssumption DEF Setters, OwnSetters
    <3>2. Min(own) \in own /\ \A n \in own : Min(own) <= n
      <4> HIDE DEF own
      <4>1. QED
        BY <1>2, <3>1, LeastElement
    <3>3. Min(own) = m
      <4>1. m <= Min(own) /\ Min(own) <= m /\ m \in Nat /\ Min(own) \in Nat
        <5> HIDE DEF own, setters
        <5>1. QED
          BY <1>1, <1>2, <2>2, <3>1, <3>2
      <4> HIDE DEF own
      <4>2. QED
        BY <4>1
    <3>4. QED
      BY <2>3, <3>1, <3>3 DEF OwnPorts
  <2>5. CASE userConfig[m] \notin Ports
    BY <2>3, <2>5
  <2>6. QED
    BY <2>4, <2>5
<1>5. QED
  BY <1>3, <1>4

------------------------------------------------------------------------------
(* Steps. *)

LEMMA InitInv == Init => SessionsInv
<1> SUFFICES ASSUME Init PROVE SessionsInv
  OBVIOUS
<1>1. DOMAIN profiles \subseteq Ids
  BY DocumentIds DEF Init, Lists
<1>2. QED
  BY <1>1 DEF Init, SessionsInv, ManagedFileIsCurrent, CommandOK, LaunchKeepsPromises, NoSession

\* The ways a list of profiles becomes another.
LEMMA ChangedLists ==
    ASSUME DOMAIN profiles \subseteq Ids, ImportConnections \/ Restart \/ \E p \in Ids : Upsert(p) \/ Delete(p)
    PROVE  /\ DOMAIN profiles' \subseteq Ids /\ Sync(profiles')
           /\ session' \in {session, NoSession}
<1>1. CASE ImportConnections
  <2>1. PICK list \in {With(profiles, ImportFile(userConfig)), profiles} : Change(list)
    BY <1>1 DEF ImportConnections
  <2>2. DOMAIN ImportFile(userConfig) \subseteq Ids
    BY ConfigAssumption DEF ImportFile, ImportedIds
  <2>3. DOMAIN list \subseteq Ids
    BY <2>1, <2>2 DEF With
  <2>4. QED
    BY <2>1, <2>3 DEF Change
<1>2. CASE Restart
  BY <1>2, DocumentIds DEF Restart, Lists
<1>3. ASSUME NEW p \in Ids, Upsert(p)
      PROVE  DOMAIN profiles' \subseteq Ids /\ Sync(profiles') /\ session' = session
  <2>1. PICK body \in Editions[p] : Change(With(profiles, [q \in {p} |-> body]))
    BY <1>3 DEF Upsert
  <2>2. DOMAIN With(profiles, [q \in {p} |-> body]) \subseteq Ids
    BY <1>3 DEF With
  <2>3. QED
    BY <2>1, <2>2 DEF Change
<1>4. ASSUME NEW p \in Ids, Delete(p)
      PROVE  DOMAIN profiles' \subseteq Ids /\ Sync(profiles') /\ session' = session
  BY <1>4 DEF Delete, Change
<1>5. QED
  BY <1>1, <1>2, <1>3, <1>4

\* What a write of the managed file leaves behind.
LEMMA SyncIs ==
    ASSUME Sync(profiles')
    PROVE  (~lost => managed = Render(profiles))'
BY DEF Sync, Write, WriteFails

\* Whoever repairs the Include: it changes only a file that has one.
LEMMA RepairIs ==
    ASSUME Repair
    PROVE  /\ userConfig' \in {userConfig, Install(userConfig)}
           /\ userConfig' # userConfig => HasInclude(userConfig)
BY DEF Repair, TryInstall

\* The program that is started fits the checks that let it start.
LEMMA OpenedCommand ==
    ASSUME NEW p \in Ids, NEW tunnels \in BOOLEAN, OpenSshSession(p, tunnels)
    PROVE  /\ (session.phase = "started")' =>
                 \E logging \in BOOLEAN, have \in Programs :
                    /\ ~Refused(p, tunnels, logging, have)
                    /\ session' = Command(p, tunnels, logging, have)
           /\ profiles' = profiles
           /\ Write(profiles) \/ WriteFails \/ UNCHANGED <<managed, lost>>
<1>1. NoSession.phase # "started"
  BY DEF NoSession
<1>2. session = NoSession /\ profiles' = profiles
  BY DEF OpenSshSession
<1>3. CASE UsesSavedJumpHost(profiles[p])
  <2>1. CASE Write(profiles) /\ \E logging \in BOOLEAN, have \in Programs :
                session' = IF Refused(p, tunnels, logging, have) THEN NoSession
                           ELSE Command(p, tunnels, logging, have)
    <3>1. PICK logging \in BOOLEAN, have \in Programs :
             session' = IF Refused(p, tunnels, logging, have) THEN NoSession
                        ELSE Command(p, tunnels, logging, have)
      BY <2>1
    <3>2. QED
      BY <1>1, <1>2, <2>1, <3>1
  <2>2. CASE WriteFails /\ UNCHANGED session
    BY <1>1, <1>2, <2>2
  <2>3. QED
    BY <1>3, <2>1, <2>2 DEF OpenSshSession
<1>4. CASE ~UsesSavedJumpHost(profiles[p])
  BY <1>2, <1>4 DEF OpenSshSession
<1>5. QED
  BY <1>3, <1>4

LEMMA CommandIs ==
    ASSUME NEW p \in Ids, NEW tunnels \in BOOLEAN, NEW logging \in BOOLEAN, NEW have \in Programs,
           ~Refused(p, tunnels, logging, have), session' = Command(p, tunnels, logging, have)
    PROVE  CommandOK' /\ LaunchKeepsPromises'
<1> DEFINE c == Command(p, tunnels, logging, have)
           byAlias == p \in Imported /\ ~tunnels
           given == Arguments(p, tunnels)
           wrappers == Wrappers(p, logging /\ ~tunnels)
<1>1. /\ c.profile = profiles[p] /\ c.id = p /\ c.audited = (logging /\ ~tunnels)
      /\ c.arguments = given
      /\ c.jumpPorts = {profiles[q].port : q \in Named(profiles, profiles[p].jump)}
      /\ c.config = IF UsesSavedJumpHost(profiles[p]) THEN "managed" ELSE "user"
      /\ c.ssh = Executable(have) /\ c.wrappers = wrappers /\ c.installed = wrappers \cap have
  BY DEF Command
<1>2. c.config = IF c.jumpPorts = {} THEN "user" ELSE "managed"
  BY <1>1 DEF UsesSavedJumpHost
<1>3. given.byAlias = byAlias /\ given.withPort = (~byAlias /\ profiles[p].port # DefaultPort)
  BY DEF Arguments
<1>4. given.jump = IF byAlias THEN None ELSE profiles[p].jump
  BY DEF Arguments
<1>5. c.profile.legacy => c.ssh = "private"
  BY <1>1 DEF Executable, Refused
<1>6. (c.audited => "logger" \in wrappers) /\ (c.id \in Secret => "helper" \in wrappers)
  BY <1>1 DEF Wrappers
<1>7. wrappers \cap have = wrappers
  <2>1. wrappers \subseteq have
    BY DEF Wrappers, Refused
  <2> HIDE DEF wrappers
  <2>2. QED
    BY <2>1
<1> HIDE DEF c, given, byAlias, wrappers
<1>8. session' = c
  BY DEF c
<1>9. c.arguments.byAlias \/ (c.arguments.withPort <=> c.profile.port # DefaultPort)
  BY <1>1, <1>3, Zenon
<1>10. c.arguments.jump = IF c.arguments.byAlias THEN None ELSE c.profile.jump
  BY <1>1, <1>3, <1>4
<1>11. CommandOK'
  BY <1>2, <1>8, <1>9, <1>10 DEF CommandOK
<1>12. c.wrappers = c.installed
  BY <1>1, <1>7
<1>13. LaunchKeepsPromises'
  BY <1>1, <1>5, <1>6, <1>8, <1>12 DEF LaunchKeepsPromises
<1>14. QED
  BY <1>11, <1>13

LEMMA InvStep == SessionsInv /\ [Next]_vars => SessionsInv'
<1> SUFFICES ASSUME SessionsInv, [Next]_vars PROVE SessionsInv'
  OBVIOUS
<1>0. DOMAIN profiles \subseteq Ids /\ ManagedFileIsCurrent /\ CommandOK /\ LaunchKeepsPromises
  BY DEF SessionsInv
<1>1. ASSUME session' \in {session, NoSession} PROVE CommandOK' /\ LaunchKeepsPromises'
  BY <1>0, <1>1 DEF CommandOK, LaunchKeepsPromises, NoSession
<1>2. ASSUME UNCHANGED <<profiles, managed, lost>>
      PROVE  DOMAIN profiles' \subseteq Ids /\ ManagedFileIsCurrent'
  BY <1>0, <1>2 DEF ManagedFileIsCurrent
<1>3. CASE ImportConnections \/ Restart \/ \E p \in Ids : Upsert(p) \/ Delete(p)
  BY <1>0, <1>1, <1>3, ChangedLists, SyncIs DEF SessionsInv, ManagedFileIsCurrent
<1>4. ASSUME NEW p \in Ids, Browse(p) PROVE SessionsInv'
  <2>1. session' = session /\ profiles' = profiles /\ (Write(profiles) \/ WriteFails)
    BY <1>4 DEF Browse
  <2>2. ManagedFileIsCurrent'
    BY <2>1 DEF Write, WriteFails, ManagedFileIsCurrent
  <2>3. QED
    BY <1>0, <1>1, <2>1, <2>2 DEF SessionsInv
<1>5. CASE Decline \/ Enable \/ OtherWindowAnswered \/ EditByHand \/ SessionEnds
  BY <1>1, <1>2, <1>5
  DEF Decline, Enable, Answered, OtherWindowAnswered, EditByHand, SessionEnds, fileVars, SessionsInv
<1>10. ASSUME NEW list \in Lists, OtherWindowWrites(list) PROVE SessionsInv'
  <2>1. lost' = TRUE /\ profiles' = profiles /\ session' = session
    BY <1>10 DEF OtherWindowWrites
  <2>2. QED
    BY <1>0, <1>1, <2>1 DEF SessionsInv, ManagedFileIsCurrent
<1>6. ASSUME NEW p \in Ids, NEW tunnels \in BOOLEAN, OpenSshSession(p, tunnels) PROVE SessionsInv'
  <2>1. profiles' = profiles /\ (Write(profiles) \/ WriteFails \/ UNCHANGED <<managed, lost>>)
    BY <1>6, OpenedCommand
  <2>2. ManagedFileIsCurrent'
    BY <1>0, <2>1 DEF Write, WriteFails, ManagedFileIsCurrent
  <2>3. CommandOK' /\ LaunchKeepsPromises'
    <3>1. CASE (session.phase = "started")'
      <4>1. PICK logging \in BOOLEAN, have \in Programs :
               ~Refused(p, tunnels, logging, have) /\ session' = Command(p, tunnels, logging, have)
        BY <1>6, <3>1, OpenedCommand
      <4>2. QED
        BY <4>1, CommandIs
    <3>2. CASE ~(session.phase = "started")'
      BY <3>2 DEF CommandOK, LaunchKeepsPromises
    <3>3. QED
      BY <3>1, <3>2
  <2>4. QED
    BY <1>0, <2>1, <2>2, <2>3 DEF SessionsInv
<1>7. CASE Connect
  <2>1. UNCHANGED <<profiles, managed, lost>> /\ session'.phase = "connected"
    BY <1>7 DEF Connect, fileVars
  <2>2. QED
    BY <1>2, <2>1 DEF SessionsInv, CommandOK, LaunchKeepsPromises
<1>8. CASE UNCHANGED vars
  BY <1>1, <1>2, <1>8 DEF vars, fileVars, SessionsInv
<1>9. QED
  BY <1>3, <1>4, <1>5, <1>6, <1>7, <1>8, <1>10 DEF Next

\* ~/.ssh/config is written by the user's hand, or by installInclude.
LEMMA FilesStep ==
    ASSUME SessionsInv, FilesInv, [Next]_vars
    PROVE  FilesInv' /\ (EditByHand \/ userConfig' \in {userConfig, Install(userConfig)})
<1> DEFINE Good == /\ DOMAIN managed' \subseteq Aliases
                   /\ EditByHand \/ userConfig' \in {userConfig, Install(userConfig)}
<1>1. DOMAIN profiles \subseteq Ids /\ DOMAIN managed \subseteq Aliases /\ userConfig \in Seq(Lines)
  BY DEF SessionsInv, FilesInv
<1>2. ASSUME NEW list, DOMAIN list \subseteq Ids, Write(list) \/ WriteFails \/ UNCHANGED managed
      PROVE  DOMAIN managed' \subseteq Aliases
  BY <1>1, <1>2, RenderedAliases DEF Write, WriteFails
<1>3. ASSUME ImportConnections \/ Restart \/ \E p \in Ids : Upsert(p) \/ Delete(p) PROVE Good
  <2>1. DOMAIN profiles' \subseteq Ids /\ Sync(profiles')
    BY <1>1, <1>3, ChangedLists
  <2>2. Write(profiles') \/ WriteFails
    BY <2>1 DEF Sync
  <2>3. userConfig' \in {userConfig, Install(userConfig)}
    BY <2>1, RepairIs DEF Sync
  <2>4. QED
    BY <1>2, <2>1, <2>2, <2>3
<1>4. ASSUME NEW p \in Ids, Browse(p) PROVE Good
  BY <1>1, <1>2, <1>4, RepairIs DEF Browse
<1>5. ASSUME Decline \/ Enable \/ OtherWindowAnswered PROVE Good
  BY <1>1, <1>5 DEF Decline, Enable, Answered, OtherWindowAnswered, TryInstall
<1>11. ASSUME NEW list \in Lists, OtherWindowWrites(list) PROVE Good
  <2>1. DOMAIN list \subseteq Ids
    BY DocumentIds DEF Lists
  <2>2. managed' = Render(list) /\ Repair
    BY <1>11 DEF OtherWindowWrites
  <2>3. QED
    BY <2>1, <2>2, RenderedAliases, RepairIs
<1>6. ASSUME NEW p \in Ids, NEW tunnels \in BOOLEAN, OpenSshSession(p, tunnels) PROVE Good
  <2>1. Write(profiles) \/ WriteFails \/ UNCHANGED <<managed, lost>>
    BY <1>6, OpenedCommand
  <2>2. QED
    BY <1>1, <1>2, <1>6, <2>1 DEF OpenSshSession
<1>7. ASSUME EditByHand \/ Connect \/ SessionEnds \/ UNCHANGED vars PROVE Good
  BY <1>1, <1>7 DEF EditByHand, Connect, SessionEnds, vars, fileVars
<1>8. Good
  BY <1>3, <1>4, <1>5, <1>6, <1>7, <1>11 DEF Next
<1>9. userConfig' \in Seq(Lines)
  <2>1. CASE EditByHand
    BY <2>1, SessionsAssumption DEF EditByHand
  <2>2. CASE userConfig' \in {userConfig, Install(userConfig)}
    BY <1>1, <2>2, InstallIs
  <2>3. QED
    BY <1>8, <2>1, <2>2
<1>10. QED
  BY <1>8, <1>9 DEF FilesInv

LEMMA InitFiles == Init => FilesInv
<1> SUFFICES ASSUME Init PROVE FilesInv
  OBVIOUS
<1>1. DOMAIN managed \subseteq Aliases
  BY DocumentIds, RenderedAliases DEF Init, Lists
<1>2. userConfig \in Seq(Lines)
  BY SessionsAssumption DEF Init
<1>3. QED
  BY <1>1, <1>2 DEF FilesInv

------------------------------------------------------------------------------
(* A session that connects. *)

LEMMA ConnectsIs ==
    ASSUME SessionsInv, Next, Connects
    PROVE  Connect
<1>1. DOMAIN profiles \subseteq Ids /\ session.phase = "started" /\ session'.phase = "connected"
  BY DEF SessionsInv, Connects
<1>2. session # NoSession /\ session' # session /\ session'.phase # "started" /\ session' # NoSession
  BY <1>1 DEF NoSession
<1>3. ~ImportConnections /\ ~Restart /\ ~(\E p \in Ids : Upsert(p) \/ Delete(p))
  BY <1>1, <1>2, ChangedLists
<1>4. QED
  BY <1>2, <1>3
  DEF Next, Decline, Enable, Answered, OtherWindowWrites, OtherWindowAnswered, EditByHand, SessionEnds,
      Browse, OpenSshSession

\* The file that ssh is given, and where it leads.
Given == IF session.config = "managed" THEN <<"include">> ELSE userConfig

LEMMA Destinations ==
    ASSUME SessionsInv, Connects, Connect, ~lost
    PROVE  /\ session'.to = IF ByAlias THEN Reached(Given, AliasOf[session.id])
                            ELSE IF session.profile.port # DefaultPort THEN session.profile.port
                            ELSE FirstPort(Given, managed, Address)
           /\ \/ \E jump \in JumpHosts :
                    session'.via = IF jump = None THEN "direct" ELSE Reached(Given, jump)
              \/ ByAlias /\ ~Meets(Given, managed, AliasOf[session.id]) /\ session'.via = "direct"
<1> DEFINE alias == AliasOf[session.id]
           given == session.arguments
           jump == IF given.byAlias /\ Meets(Given, managed, alias)
                   THEN managed[alias].jump ELSE given.jump
<1>1. /\ managed = Render(profiles)
      /\ given.jump = IF given.byAlias THEN None ELSE session.profile.jump
      /\ given.byAlias \/ (given.withPort <=> session.profile.port # DefaultPort)
  BY DEF SessionsInv, ManagedFileIsCurrent, CommandOK, Connects
<1>2. /\ session'.to = IF given.byAlias THEN Reached(Given, alias)
                       ELSE IF given.withPort THEN session.profile.port
                       ELSE FirstPort(Given, managed, Address)
      /\ session'.via = IF jump = None THEN "direct" ELSE Reached(Given, jump)
  BY DEF Connect, Given
<1>3. ByAlias = given.byAlias
  BY DEF ByAlias
<1>4. jump \in JumpHosts \/ (ByAlias /\ ~Meets(Given, managed, alias) /\ jump = None)
  <2>1. CASE given.byAlias /\ Meets(Given, managed, alias)
    <3>1. alias \in DOMAIN Render(profiles)
      BY <1>1, <2>1 DEF Meets
    <3>2. PICK q \in Named(profiles, alias) : managed[alias].jump = profiles[q].jump
      BY <1>1, <3>1, RenderIs
    <3>3. QED
      BY <1>3, <2>1, <3>2 DEF JumpHosts
  <2>2. CASE given.byAlias /\ ~Meets(Given, managed, alias)
    BY <1>1, <1>3, <2>2
  <2>3. CASE ~given.byAlias
    BY <1>1, <1>3, <2>3 DEF JumpHosts
  <2>4. QED
    BY <2>1, <2>2, <2>3
<1> HIDE DEF jump
<1>5. session'.to = IF ByAlias THEN Reached(Given, alias)
                    ELSE IF session.profile.port # DefaultPort THEN session.profile.port
                    ELSE FirstPort(Given, managed, Address)
  <2> HIDE DEF given
  <2>1. CASE given.byAlias
    BY <1>2, <1>3, <2>1
  <2>2. CASE ~given.byAlias
    BY <1>1, <1>2, <1>3, <2>2
  <2>3. QED
    BY <2>1, <2>2
<1>6. QED
  BY <1>2, <1>4, <1>5

\* The managed file leads to profiles as they are now.
LEMMA ManagedPortsAreNow ==
    ASSUME SessionsInv, ~lost, NEW name \in DOMAIN managed
    PROVE  managed[name].port \in PortsNow(name)
<1>1. managed = Render(profiles)
  BY DEF SessionsInv, ManagedFileIsCurrent
<1>2. QED
  BY <1>1, RenderIs DEF PortsNow

------------------------------------------------------------------------------
(* What holds of every session. *)

\* The command of a session, the managed file and the promises stay in step
\* with the profiles, over all that this window, another one and the user do.
THEOREM SessionsInvariant == Spec => []SessionsInv
BY InitInv, InvStep, PTL DEF Spec

\* A legacy profile never runs on the system's ssh, an audited shell never
\* without its logger, a saved secret never without the helper, and no program of
\* the command is missing when it starts (WaypaneWindow::openSshSession).
THEOREM LaunchesKeepPromises == Spec => []LaunchKeepsPromises
<1>1. SessionsInv => LaunchKeepsPromises
  BY DEF SessionsInv
<1>2. QED
  BY SessionsInvariant, <1>1, PTL

\* Whatever changes the list of profiles writes the managed file too, so that it
\* differs from the list only after a failed write or another window's
\* (WaypaneWindow::syncManagedSshConfig).
THEOREM ManagedFileFollows == Spec => []ManagedFileIsCurrent
<1>1. SessionsInv => ManagedFileIsCurrent
  BY DEF SessionsInv
<1>2. QED
  BY SessionsInvariant, <1>1, PTL

\* ~/.ssh/config stays a file of lines, whoever writes it.
THEOREM FilesInvariant == Spec => []FilesInv
BY SessionsInvariant, InitFiles, FilesStep, PTL DEF Spec

\* With a saved jump host ssh reaches the profile, and goes over the jump host
\* that the profile names, whatever the user's own configuration says, as long as
\* this window was the last to write the managed file
\* (WaypaneWindow::usesSavedJumpHost, SshCommandBuilder::arguments).
THEOREM SavedJumpsAreReached == Spec => SavedJumpIsReached
<1> DEFINE To == session'.to \in IF ByAlias THEN PortsNow(AliasOf[session.id]) ELSE {session.profile.port}
           Via == \E jump \in JumpHosts : session'.via \in IF jump = None THEN {"direct"} ELSE PortsNow(jump)
           Claim == Connects /\ ~lost /\ session.jumpPorts # {} => To /\ Via
<1>1. SessionsInv /\ [Next]_vars => [Claim]_vars
  <2> SUFFICES ASSUME SessionsInv, Next, Connects, ~lost, session.jumpPorts # {}
               PROVE  To /\ Via
    OBVIOUS
  <2>1. Connect
    BY ConnectsIs
  <2>2. Given = <<"include">> /\ session.config = "managed"
    BY DEF Given, SessionsInv, CommandOK, Connects
  <2>3. \A name : Reached(Given, name) # None => Meets(Given, managed, name) /\ Reached(Given, name) \in PortsNow(name)
    <3> SUFFICES ASSUME NEW name, Reached(Given, name) # None
                 PROVE  Meets(Given, managed, name) /\ Reached(Given, name) \in PortsNow(name)
      OBVIOUS
    <3>1. Meets(Given, managed, name) /\ Reached(Given, name) = FirstPort(Given, managed, name)
      BY <2>2 DEF Reached
    <3>2. name \in DOMAIN managed
      BY <3>1 DEF Meets
    <3>3. Reached(Given, name) = managed[name].port
      BY <2>2, <3>1, <3>2, ManagedPort
    <3>4. QED
      BY <3>1, <3>2, <3>3, ManagedPortsAreNow
  <2>4. FirstPort(Given, managed, Address) = DefaultPort
    <3>1. Address \notin DOMAIN managed
      BY RenderedAliases DEF SessionsInv, ManagedFileIsCurrent
    <3>2. QED
      BY <2>2, <3>1, ManagedPort
  <2>5. session'.to # None /\ session'.via # None
    BY DEF Connects
  <2>6. /\ session'.to = IF ByAlias THEN Reached(Given, AliasOf[session.id])
                         ELSE IF session.profile.port # DefaultPort THEN session.profile.port
                         ELSE FirstPort(Given, managed, Address)
        /\ \/ \E jump \in JumpHosts :
                 session'.via = IF jump = None THEN "direct" ELSE Reached(Given, jump)
           \/ ByAlias /\ ~Meets(Given, managed, AliasOf[session.id]) /\ session'.via = "direct"
    BY <2>1, Destinations
  <2>7. To
    BY <2>3, <2>4, <2>5, <2>6
  <2>8. ByAlias => Meets(Given, managed, AliasOf[session.id])
    BY <2>3, <2>5, <2>6
  <2>9. PICK jump \in JumpHosts : session'.via = IF jump = None THEN "direct" ELSE Reached(Given, jump)
    BY <2>6, <2>8
  <2>10. session'.via \in IF jump = None THEN {"direct"} ELSE PortsNow(jump)
    BY <2>3, <2>5, <2>9
  <2>11. QED
    BY <2>7, <2>10
<1>2. QED
  BY SessionsInvariant, <1>1, PTL DEF Spec, SavedJumpIsReached

\* Otherwise only what the user's own configuration says of that very host may
\* lead it elsewhere, and never a profile as it was before
\* (WaypaneWindow::syncManagedSshConfig, SshCommandBuilder::arguments).
THEOREM ProfilesAreReached == Spec => SessionReachesProfile
<1> DEFINE To == session'.to \in
                    IF ByAlias THEN PortsNow(AliasOf[session.id]) \cup OwnPorts(AliasOf[session.id])
                    ELSE IF session.profile.port = DefaultPort THEN OwnPorts(Address)
                    ELSE {session.profile.port}
           Via == \/ \E jump \in JumpHosts :
                        session'.via \in IF jump = None THEN {"direct"} ELSE PortsNow(jump) \cup OwnPorts(jump)
                  \/ /\ ByAlias /\ ~Meets(userConfig, managed, AliasOf[session.id])
                     /\ session'.via = "direct"
           Claim == Connects /\ ~lost /\ session.jumpPorts = {} => To /\ Via
<1>1. SessionsInv /\ FilesInv /\ [Next]_vars => [Claim]_vars
  <2> SUFFICES ASSUME SessionsInv, FilesInv, Next, Connects, ~lost, session.jumpPorts = {}
               PROVE  To /\ Via
    OBVIOUS
  <2>1. Connect
    BY ConnectsIs
  <2>2. Given = userConfig
    BY DEF Given, SessionsInv, CommandOK, Connects
  <2>3. \A name : FirstPort(userConfig, managed, name) \in PortsNow(name) \cup OwnPorts(name)
    <3> TAKE name
    <3>1. \/ FirstPort(userConfig, managed, name) \in OwnPorts(name)
          \/ /\ name \in DOMAIN managed
             /\ FirstPort(userConfig, managed, name) = managed[name].port
      BY PortsGiven DEF FilesInv
    <3>2. QED
      BY <3>1, ManagedPortsAreNow
  <2>4. \A name : Reached(Given, name) # None => Reached(Given, name) \in PortsNow(name) \cup OwnPorts(name)
    BY <2>2, <2>3 DEF Reached
  <2>5. FirstPort(Given, managed, Address) \in OwnPorts(Address)
    <3>1. Address \notin DOMAIN managed
      BY RenderedAliases DEF SessionsInv, ManagedFileIsCurrent
    <3>2. QED
      BY <2>2, <3>1, PortsGiven DEF FilesInv
  <2>6. session'.to # None /\ session'.via # None
    BY DEF Connects
  <2>7. /\ session'.to = IF ByAlias THEN Reached(Given, AliasOf[session.id])
                         ELSE IF session.profile.port # DefaultPort THEN session.profile.port
                         ELSE FirstPort(Given, managed, Address)
        /\ \/ \E jump \in JumpHosts :
                 session'.via = IF jump = None THEN "direct" ELSE Reached(Given, jump)
           \/ ByAlias /\ ~Meets(Given, managed, AliasOf[session.id]) /\ session'.via = "direct"
    BY <2>1, Destinations
  <2>8. To
    BY <2>4, <2>5, <2>6, <2>7
  <2>9. CASE \E jump \in JumpHosts : session'.via = IF jump = None THEN "direct" ELSE Reached(Given, jump)
    <3>1. PICK jump \in JumpHosts : session'.via = IF jump = None THEN "direct" ELSE Reached(Given, jump)
      BY <2>9
    <3>2. session'.via \in IF jump = None THEN {"direct"} ELSE PortsNow(jump) \cup OwnPorts(jump)
      BY <2>4, <2>6, <3>1
    <3>3. QED
      BY <2>8, <3>2
  <2>10. QED
    BY <2>2, <2>7, <2>8, <2>9
<1>2. QED
  BY SessionsInvariant, FilesInvariant, <1>1, PTL DEF Spec, SessionReachesProfile

\* "Your existing SSH settings will remain unchanged": whatever Waypane writes,
\* a host that is no profile keeps its port and the user's lines their order, and
\* the Include that is written stands once, where it takes effect
\* (ManagedSshConfig::installInclude).
THEOREM InstallIsHarmless == Spec => InstallKeepsSettings
<1> DEFINE Claim ==
      \/ EditByHand
      \/ /\ \A host \in {OtherHost, Address} :
               FirstPort(userConfig', managed', host) = FirstPort(userConfig, managed, host)
         /\ OwnLines(userConfig') = OwnLines(userConfig)
         /\ userConfig' # userConfig => IsIncluded(userConfig') /\ Cardinality(Includes(userConfig')) = 1
<1>1. SessionsInv /\ FilesInv /\ [Next]_vars => [Claim]_vars
  <2> SUFFICES ASSUME SessionsInv, FilesInv, Next, ~EditByHand PROVE Claim
    OBVIOUS
  <2>1. FilesInv' /\ userConfig' \in {userConfig, Install(userConfig)}
    BY FilesStep
  <2>2. /\ userConfig \in Seq(Lines) /\ userConfig' \in Seq(Lines)
        /\ DOMAIN managed \subseteq Aliases /\ DOMAIN managed' \subseteq Aliases
    BY <2>1 DEF FilesInv
  <2>3. /\ OwnLines(userConfig') = OwnLines(userConfig)
        /\ userConfig' # userConfig => IsIncluded(userConfig') /\ Cardinality(Includes(userConfig')) = 1
    BY <2>1, <2>2, InstallIs
  <2>4. OtherHost \notin Aliases /\ Address \notin Aliases
    BY ConfigAssumption DEF Heads
  <2>5. \A host \in {OtherHost, Address} :
           FirstPort(userConfig', managed', host) = FirstPort(userConfig, managed, host)
    BY <2>2, <2>3, <2>4, SameLinesSamePort
  <2>6. QED
    BY <2>3, <2>5
<1>2. QED
  BY SessionsInvariant, FilesInvariant, <1>1, PTL DEF Spec, InstallKeepsSettings

\* A refused Include is never in ~/.ssh/config, and none that the user took out:
\* every other writer only repairs one that is there
\* (WaypaneWindow::ensureManagedSshConfig, syncManagedSshConfig).
THEOREM IncludeNeedsConsent == Spec => []ConsentBeforeInclude
<1>1. Init => ConsentBeforeInclude
  BY DEF Init, ConsentBeforeInclude
<1>2. ConsentBeforeInclude /\ [Next]_vars => ConsentBeforeInclude'
  <2> SUFFICES ASSUME HasInclude(userConfig) => wanted, [Next]_vars
               PROVE  HasInclude(userConfig') => wanted'
    BY DEF ConsentBeforeInclude
  <2>1. ASSUME wanted' = wanted, (userConfig' # userConfig => HasInclude(userConfig))
        PROVE  HasInclude(userConfig') => wanted'
    BY <2>1
  <2>2. ASSUME NEW list, Sync(list) PROVE userConfig' # userConfig => HasInclude(userConfig)
    BY <2>2, RepairIs DEF Sync
  <2>3. CASE ImportConnections \/ Restart \/ \E p \in Ids : Upsert(p) \/ Delete(p)
    BY <2>1, <2>2, <2>3 DEF ImportConnections, Restart, Upsert, Delete, Change
  <2>4. ASSUME NEW p \in Ids, Browse(p) PROVE HasInclude(userConfig') => wanted'
    BY <2>1, <2>4, RepairIs DEF Browse
  <2>5. ASSUME NEW list \in Lists, OtherWindowWrites(list) PROVE HasInclude(userConfig') => wanted'
    BY <2>1, <2>5, RepairIs DEF OtherWindowWrites
  <2>6. CASE Decline
    BY <2>6 DEF Decline, Answered
  <2>7. CASE Enable \/ EditByHand
    BY <2>7 DEF Enable, Answered, EditByHand
  <2>8. CASE OtherWindowAnswered
    BY <2>8 DEF OtherWindowAnswered
  <2>9. ASSUME NEW p \in Ids, NEW tunnels \in BOOLEAN, OpenSshSession(p, tunnels)
        PROVE  HasInclude(userConfig') => wanted'
    BY <2>1, <2>9 DEF OpenSshSession
  <2>10. CASE Connect \/ SessionEnds \/ UNCHANGED vars
    BY <2>1, <2>10 DEF Connect, SessionEnds, vars, fileVars
  <2>11. QED
    BY <2>3, <2>4, <2>5, <2>6, <2>7, <2>8, <2>9, <2>10 DEF Next
<1>3. QED
  BY <1>1, <1>2, PTL DEF Spec
==============================================================================
