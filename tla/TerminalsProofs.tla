--------------------------- MODULE TerminalsProofs ---------------------------
(* Proofs about Terminals, for any profiles and any number of tabs and panes:  *)
(* that the sessions are the panes of the tabs, that an empty tab is queued to *)
(* be closed, what a queued close may take with it, and that restoring brings  *)
(* back the layout that was saved.                                             *)
EXTENDS Terminals, SequenceTheorems, WellFoundedInduction, TLAPS

------------------------------------------------------------------------------
(* Sequences without duplicates. *)

LEMMA AppendIs ==
    ASSUME NEW S, NEW s \in Seq(S), NEW e \in S
    PROVE  /\ Append(s, e) \in Seq(S)
           /\ Range(Append(s, e)) = Range(s) \cup {e}
           /\ IsInjective(s) /\ e \notin Range(s) => IsInjective(Append(s, e))
<1> DEFINE t == Append(s, e)
<1>1. /\ t \in Seq(S) /\ DOMAIN t = 1 .. Len(s) + 1 /\ DOMAIN s = 1 .. Len(s) /\ Len(s) \in Nat
      /\ t[Len(s) + 1] = e /\ \A i \in DOMAIN s : t[i] = s[i]
  BY AppendProperties
<1> HIDE DEF t
<1>2. \A i \in DOMAIN t : i \in DOMAIN s \/ i = Len(s) + 1
  BY <1>1
<1>3. Range(t) = Range(s) \cup {e}
  <2>1. \A i \in DOMAIN t : t[i] \in Range(s) \cup {e}
    BY <1>1, <1>2 DEF Range
  <2>2. \A i \in DOMAIN s : i \in DOMAIN t /\ s[i] = t[i]
    BY <1>1
  <2>3. Len(s) + 1 \in DOMAIN t /\ t[Len(s) + 1] = e
    BY <1>1
  <2>4. QED
    BY <2>1, <2>2, <2>3 DEF Range
<1>4. IsInjective(s) /\ e \notin Range(s) => IsInjective(t)
  <2>1. e \notin Range(s) => \A i \in DOMAIN s : s[i] # e
    BY DEF Range
  <2>2. QED
    BY <1>1, <1>2, <2>1 DEF IsInjective
<1>5. QED
  BY <1>1, <1>3, <1>4 DEF t

LEMMA RemoveAtIs ==
    ASSUME NEW S, NEW s \in Seq(S), IsInjective(s), NEW r \in DOMAIN s
    PROVE  /\ RemoveAt(s, r) \in Seq(S) /\ IsInjective(RemoveAt(s, r))
           /\ Range(RemoveAt(s, r)) = Range(s) \ {s[r]}
<1> DEFINE before == SubSeq(s, 1, r - 1)
           behind == SubSeq(s, r + 1, Len(s))
           new == before \o behind
           old(i) == IF i < r THEN i ELSE i + 1
<1>1. /\ Len(s) \in Nat /\ DOMAIN s = 1 .. Len(s)
      /\ r \in 1 .. Len(s) /\ \A i \in 1 .. Len(s) : s[i] \in S
  OBVIOUS
<1>2. /\ before \in Seq(S) /\ Len(before) = r - 1
      /\ \A i \in 1 .. r - 1 : before[i] = s[i]
  BY <1>1, SubSeqProperties
<1>3. /\ behind \in Seq(S) /\ Len(behind) = Len(s) - r
      /\ \A i \in 1 .. Len(s) - r : behind[i] = s[i + r]
  <2>1. r + 1 \in Int /\ Len(s) \in Int /\ \A i \in r + 1 .. Len(s) : s[i] \in S
    BY <1>1
  <2>2. behind \in Seq(S)
    BY <2>1, SubSeqProperties
  <2>3. Len(behind) = IF r + 1 <= Len(s) THEN Len(s) - (r + 1) + 1 ELSE 0
    BY <2>1, SubSeqProperties
  <2>4. \A i \in 1 .. Len(s) - (r + 1) + 1 : behind[i] = s[(r + 1) + i - 1]
    BY <2>1, SubSeqProperties
  <2> HIDE DEF behind
  <2>5. \A i \in 1 .. Len(s) - r : i \in 1 .. Len(s) - (r + 1) + 1 /\ (r + 1) + i - 1 = i + r
    BY <1>1
  <2>6. QED
    BY <1>1, <2>2, <2>3, <2>4, <2>5
<1>4. RemoveAt(s, r) = new
  BY DEF RemoveAt
<1> HIDE DEF before, behind
<1>5. /\ new \in Seq(S) /\ DOMAIN new = 1 .. Len(s) - 1
      /\ \A i \in 1 .. Len(s) - 1 : new[i] = IF i <= r - 1 THEN before[i] ELSE behind[i - (r - 1)]
  <2>1. /\ new \in Seq(S) /\ Len(new) = Len(before) + Len(behind)
        /\ \A i \in 1 .. Len(before) + Len(behind) :
              new[i] = IF i <= Len(before) THEN before[i] ELSE behind[i - Len(before)]
    BY <1>2, <1>3, ConcatProperties
  <2>2. Len(before) + Len(behind) = Len(s) - 1
    BY <1>1, <1>2, <1>3
  <2> HIDE DEF new
  <2>3. QED
    BY <1>2, <2>1, <2>2
<1> HIDE DEF new
<1>6. \A i \in DOMAIN new : new[i] = s[old(i)] /\ old(i) \in DOMAIN s \ {r}
  <2> SUFFICES ASSUME NEW i \in DOMAIN new
               PROVE  new[i] = s[old(i)] /\ old(i) \in DOMAIN s \ {r}
    OBVIOUS
  <2>1. CASE i < r
    BY <2>1, <1>1, <1>2, <1>5
  <2>2. CASE ~(i < r)
    <3>1. i - (r - 1) \in 1 .. Len(s) - r /\ (i - (r - 1)) + r = i + 1
      BY <2>2, <1>1, <1>5
    <3>2. i \in 1 .. Len(s) - 1 /\ ~(i <= r - 1)
      BY <2>2, <1>1, <1>5
    <3>3. new[i] = behind[i - (r - 1)]
      BY <3>2, <1>5
    <3>4. QED
      BY <2>2, <1>1, <1>3, <1>5, <3>1, <3>3
  <2>3. QED
    BY <2>1, <2>2
<1>7. \A i \in DOMAIN s \ {r} : \E k \in DOMAIN new : old(k) = i
  <2> SUFFICES ASSUME NEW i \in DOMAIN s \ {r} PROVE \E k \in DOMAIN new : old(k) = i
    OBVIOUS
  <2>1. CASE i < r
    BY <2>1, <1>1, <1>5
  <2>2. CASE i > r
    <3>1. i - 1 \in DOMAIN new /\ old(i - 1) = i
      BY <2>2, <1>1, <1>5
    <3>2. QED
      BY <3>1
  <2>3. QED
    BY <2>1, <2>2, <1>1
<1>8. \A i, j \in DOMAIN new : old(i) = old(j) => i = j
  BY <1>1, <1>5
<1> HIDE DEF old
<1>9. IsInjective(new)
  BY <1>6, <1>8 DEF IsInjective
<1>10. Range(new) = Range(s) \ {s[r]}
  <2>1. \A i \in DOMAIN s \ {r} : s[i] # s[r]
    BY DEF IsInjective
  <2>2. QED
    BY <1>6, <1>7, <2>1 DEF Range
<1>11. QED
  BY <1>4, <1>5, <1>9, <1>10

LEMMA RemoveFirstIs ==
    ASSUME NEW S, NEW s \in Seq(S), IsInjective(s), NEW e
    PROVE  /\ RemoveFirst(s, e) \in Seq(S) /\ IsInjective(RemoveFirst(s, e))
           /\ Range(RemoveFirst(s, e)) = Range(s) \ {e}
<1>1. DOMAIN s = 1 .. Len(s) /\ Len(s) \in Nat
  OBVIOUS
<1>2. ASSUME NEW r \in 1 .. Len(s), s[r] = e
      PROVE  RemoveFirst(s, e) = RemoveAt(s, r)
  <2> DEFINE I == {i \in 1 .. Len(s) : s[i] = e}
  <2>1. I = {r}
    BY <1>1, <1>2 DEF IsInjective
  <2>2. Min(I) = r
    BY <2>1 DEF Min
  <2>3. SelectInSeq(s, LAMBDA v : v = e) = r
    BY <2>1, <2>2 DEF SelectInSeq
  <2>4. QED
    BY <1>2, <2>3 DEF RemoveFirst
<1>3. CASE \E r \in 1 .. Len(s) : s[r] = e
  BY <1>1, <1>2, <1>3, RemoveAtIs
<1>4. CASE ~(\E r \in 1 .. Len(s) : s[r] = e)
  BY <1>1, <1>4 DEF RemoveFirst, Range
<1>5. QED
  BY <1>3, <1>4

------------------------------------------------------------------------------
(* Tabs, panes and sessions. *)

\* A tab has one place in the tab widget and a pane one place in its splitter, so
\* that taking it out once takes it out altogether.
TabsInv ==
    /\ tabs \in Seq(Splitters) /\ IsInjective(tabs)
    /\ panes \in [Splitters -> Seq(Panes)] /\ \A w \in Splitters : IsInjective(panes[w])
    /\ SessionsMatchPanes

LEMMA EmptySequence == \A S : <<>> \in Seq(S) /\ IsInjective(<<>>) /\ Range(<<>>) = {}
<1>1. DOMAIN <<>> = {}
  OBVIOUS
<1>2. QED
  BY <1>1 DEF IsInjective, Range

LEMMA TabsAreSplitters == ASSUME TabsInv PROVE Range(tabs) \subseteq Splitters
  BY RangeOfSeq DEF TabsInv, Range

\* SessionsMatchPanes, said of one pane at a time.
EachPane(ts, ps, s) ==
    /\ \A x : x \in DOMAIN s <=> \E v \in Range(ts) : x \in Range(ps[v])
    /\ \A u, v \in Range(ts) : \A x : x \in Range(ps[u]) /\ x \in Range(ps[v]) => u = v
    /\ \A v \in Splitters \ Range(ts) : ps[v] = <<>>

LEMMA ByPane ==
    /\ SessionsMatchPanes <=> EachPane(tabs, panes, session)
    /\ SessionsMatchPanes' <=> EachPane(tabs', panes', session')
<1>1. ASSUME NEW ts, NEW ps, NEW s
      PROVE  (DOMAIN s = UNION {Range(ps[w]) : w \in Range(ts)})
               <=> (\A x : x \in DOMAIN s <=> \E v \in Range(ts) : x \in Range(ps[v]))
  <2>1. \A x : x \in UNION {Range(ps[w]) : w \in Range(ts)} <=> \E v \in Range(ts) : x \in Range(ps[v])
    OBVIOUS
  <2> DEFINE D == DOMAIN s
             U == UNION {Range(ps[w]) : w \in Range(ts)}
  <2>2. (D = U) <=> (\A x : x \in D <=> x \in U)
    <3> HIDE DEF D, U
    <3>1. QED
      OBVIOUS
  <2>3. QED
    BY <2>1, <2>2
<1>2. ASSUME NEW T, NEW ps
      PROVE  (\A v, w \in T : v # w => Range(ps[v]) \cap Range(ps[w]) = {})
               <=> (\A u, v \in T : \A x : x \in Range(ps[u]) /\ x \in Range(ps[v]) => u = v)
  OBVIOUS
<1>3. SessionsMatchPanes <=> EachPane(tabs, panes, session)
  <2>1. (DOMAIN session = UNION {Range(panes[w]) : w \in Range(tabs)})
          <=> (\A x : x \in DOMAIN session <=> \E v \in Range(tabs) : x \in Range(panes[v]))
    BY <1>1
  <2>2. (\A v, w \in Range(tabs) : v # w => Range(panes[v]) \cap Range(panes[w]) = {})
          <=> (\A u, v \in Range(tabs) : \A x :
                  x \in Range(panes[u]) /\ x \in Range(panes[v]) => u = v)
    BY <1>2
  <2>3. QED
    BY <2>1, <2>2 DEF SessionsMatchPanes, EachPane
<1>4. SessionsMatchPanes' <=> EachPane(tabs', panes', session')
  <2>1. (DOMAIN session' = UNION {Range(panes'[w]) : w \in Range(tabs')})
          <=> (\A x : x \in DOMAIN session' <=> \E v \in Range(tabs') : x \in Range(panes'[v]))
    BY <1>1
  <2>2. (\A v, w \in Range(tabs') : v # w => Range(panes'[v]) \cap Range(panes'[w]) = {})
          <=> (\A u, v \in Range(tabs') : \A x :
                  x \in Range(panes'[u]) /\ x \in Range(panes'[v]) => u = v)
    BY <1>2
  <2>3. QED
    BY <2>1, <2>2 DEF SessionsMatchPanes, EachPane
<1>5. QED
  BY <1>3, <1>4

LEMMA FreshIs ==
    /\ FreshPanes \subseteq Panes \ DOMAIN session
    /\ FreshSplitters \subseteq Splitters \ Range(tabs)
BY DEF FreshPanes, FreshSplitters, NewIn

\* A splitter that is in no tab holds no pane.
LEMMA AddTabStep ==
    ASSUME TabsInv, NEW w \in FreshSplitters, NEW t \in FreshPanes, NEW kind, AddTab(w, t, kind)
    PROVE  TabsInv'
<1>1. w \in Splitters \ Range(tabs) /\ t \in Panes \ DOMAIN session
  BY FreshIs
<1>2. /\ tabs' = Append(tabs, w) /\ panes' = [panes EXCEPT ![w] = Append(panes[w], t)]
      /\ DOMAIN session' = DOMAIN session \cup {t}
  BY DEF AddTab, AddPane
<1>3. panes[w] = <<>>
  BY <1>1 DEF TabsInv, SessionsMatchPanes
<1>4. tabs' \in Seq(Splitters) /\ IsInjective(tabs') /\ Range(tabs') = Range(tabs) \cup {w}
  BY <1>1, <1>2, AppendIs DEF TabsInv
<1>5. Append(<<>>, t) \in Seq(Panes) /\ IsInjective(Append(<<>>, t)) /\ Range(Append(<<>>, t)) = {t}
  <2>1. <<>> \in Seq(Panes) /\ IsInjective(<<>>) /\ Range(<<>>) = {} /\ t \in Panes
    BY <1>1, EmptySequence
  <2> DEFINE empty == <<>>
  <2> HIDE DEF empty
  <2>2. empty \in Seq(Panes) /\ IsInjective(empty) /\ Range(empty) = {}
    BY <2>1 DEF empty
  <2>3. Append(empty, t) \in Seq(Panes) /\ IsInjective(Append(empty, t)) /\ Range(Append(empty, t)) = {t}
    BY <2>1, <2>2, AppendIs
  <2>4. QED
    BY <2>3 DEF empty
<1>6. /\ panes' \in [Splitters -> Seq(Panes)] /\ \A v \in Splitters : IsInjective(panes'[v])
      /\ Range(panes'[w]) = {t} /\ \A v \in Splitters \ {w} : panes'[v] = panes[v]
  BY <1>1, <1>2, <1>3, <1>5 DEF TabsInv
<1>7. EachPane(tabs, panes, session)
  BY ByPane DEF TabsInv
<1>8. SessionsMatchPanes'
  <2>1. \A x : x \in DOMAIN session' <=> \E v \in Range(tabs') : x \in Range(panes'[v])
    BY <1>1, <1>2, <1>4, <1>6, <1>7, TabsAreSplitters DEF EachPane
  <2>2. \A u, v \in Range(tabs') : \A x : x \in Range(panes'[u]) /\ x \in Range(panes'[v]) => u = v
    <3>1. \A v \in Range(tabs) : panes'[v] = panes[v] /\ t \notin Range(panes[v])
      BY <1>1, <1>6, <1>7, TabsAreSplitters DEF EachPane
    <3>2. \A u, v \in Range(tabs) : \A x : x \in Range(panes'[u]) /\ x \in Range(panes'[v]) => u = v
      BY <1>7, <3>1 DEF EachPane
    <3>3. \A x : x \in Range(panes'[w]) <=> x = t
      BY <1>6
    <3>4. QED
      BY <1>4, <3>1, <3>2, <3>3
  <2>3. \A v \in Splitters \ Range(tabs') : panes'[v] = <<>>
    BY <1>1, <1>4, <1>6, <1>7 DEF EachPane
  <2>4. QED
    BY <2>1, <2>2, <2>3, ByPane DEF EachPane
<1>9. QED
  BY <1>4, <1>6, <1>8 DEF TabsInv

LEMMA AddPaneStep ==
    ASSUME TabsInv, NEW w \in Range(tabs), NEW t \in FreshPanes, NEW kind, AddPane(w, t, kind),
           tabs' = tabs
    PROVE  TabsInv'
<1>1. w \in Splitters /\ t \in Panes \ DOMAIN session
  BY FreshIs, TabsAreSplitters
<1>2. /\ panes' = [panes EXCEPT ![w] = Append(panes[w], t)]
      /\ DOMAIN session' = DOMAIN session \cup {t}
  BY DEF AddPane
<1>3. \A v \in Range(tabs) : t \notin Range(panes[v])
  BY <1>1 DEF TabsInv, SessionsMatchPanes
<1>4. /\ Append(panes[w], t) \in Seq(Panes) /\ IsInjective(Append(panes[w], t))
      /\ Range(Append(panes[w], t)) = Range(panes[w]) \cup {t}
  BY <1>1, <1>3, AppendIs DEF TabsInv
<1>5. /\ panes' \in [Splitters -> Seq(Panes)] /\ \A v \in Splitters : IsInjective(panes'[v])
      /\ Range(panes'[w]) = Range(panes[w]) \cup {t} /\ \A v \in Splitters \ {w} : panes'[v] = panes[v]
  BY <1>1, <1>2, <1>4 DEF TabsInv
<1>6. SessionsMatchPanes'
  <2>1. EachPane(tabs, panes, session)
    BY ByPane DEF TabsInv
  <2>2. \A x : x \in DOMAIN session' <=> \E v \in Range(tabs) : x \in Range(panes'[v])
    BY <1>1, <1>2, <1>5, <2>1, TabsAreSplitters DEF EachPane
  <2>3. \A u, v \in Range(tabs) : \A x : x \in Range(panes'[u]) /\ x \in Range(panes'[v]) => u = v
    BY <1>1, <1>3, <1>5, <2>1, TabsAreSplitters DEF EachPane
  <2>4. \A v \in Splitters \ Range(tabs) : panes'[v] = <<>>
    BY <1>1, <1>5, <2>1 DEF EachPane
  <2>5. QED
    BY <2>2, <2>3, <2>4, ByPane DEF EachPane
<1>7. QED
  BY <1>5, <1>6 DEF TabsInv

\* The panes of a tab that closes are in no other tab.
LEMMA CloseStep ==
    ASSUME TabsInv, NEW w \in Range(tabs), CloseTerminal(w)
    PROVE  TabsInv'
<1>1. w \in Splitters
  BY TabsAreSplitters
<1>2. /\ tabs' = RemoveFirst(tabs, w) /\ panes' = [panes EXCEPT ![w] = <<>>]
      /\ DOMAIN session' = DOMAIN session \ Range(panes[w])
  BY DEF CloseTerminal
<1>3. tabs' \in Seq(Splitters) /\ IsInjective(tabs') /\ Range(tabs') = Range(tabs) \ {w}
  BY <1>2, RemoveFirstIs DEF TabsInv
<1>4. /\ panes' \in [Splitters -> Seq(Panes)] /\ \A v \in Splitters : IsInjective(panes'[v])
      /\ panes'[w] = <<>> /\ \A v \in Splitters \ {w} : panes'[v] = panes[v]
  BY <1>1, <1>2, EmptySequence DEF TabsInv
<1>5. SessionsMatchPanes'
  <2>1. EachPane(tabs, panes, session)
    BY ByPane DEF TabsInv
  <2>2. \A v \in Range(tabs') : v # w /\ v \in Range(tabs) /\ panes'[v] = panes[v]
    BY <1>3, <1>4, TabsAreSplitters
  <2>3. \A x : x \in DOMAIN session' <=> \E v \in Range(tabs') : x \in Range(panes'[v])
    BY <1>2, <1>3, <2>1, <2>2 DEF EachPane
  <2>4. \A u, v \in Range(tabs') : \A x : x \in Range(panes'[u]) /\ x \in Range(panes'[v]) => u = v
    BY <2>1, <2>2 DEF EachPane
  <2>5. \A v \in Splitters \ Range(tabs') : panes'[v] = <<>>
    BY <1>3, <1>4, <2>1 DEF EachPane
  <2>6. QED
    BY <2>3, <2>4, <2>5, ByPane DEF EachPane
<1>6. QED
  BY <1>3, <1>4, <1>5 DEF TabsInv

LEMMA ExitStep ==
    ASSUME TabsInv, NEW t \in Panes, Exit(t)
    PROVE  TabsInv'
<1>1. /\ tabs' = tabs /\ panes' = [w \in Splitters |-> RemoveFirst(panes[w], t)]
      /\ DOMAIN session' = DOMAIN session \ {t}
  BY DEF Exit, PaneExits
<1>2. ASSUME NEW w \in Splitters
      PROVE  /\ panes'[w] \in Seq(Panes) /\ IsInjective(panes'[w])
             /\ Range(panes'[w]) = Range(panes[w]) \ {t}
             /\ panes[w] = <<>> => panes'[w] = <<>>
  <2>1. panes[w] \in Seq(Panes) /\ IsInjective(panes[w])
    BY DEF TabsInv
  <2>2. panes'[w] = RemoveFirst(panes[w], t)
    BY <1>1
  <2>3. panes[w] = <<>> => panes'[w] = <<>>
    BY <2>2 DEF RemoveFirst
  <2>4. QED
    BY <2>1, <2>2, <2>3, RemoveFirstIs
<1>3. panes' \in [Splitters -> Seq(Panes)]
  BY <1>1, <1>2
<1>4. SessionsMatchPanes'
  <2>1. EachPane(tabs, panes, session)
    BY ByPane DEF TabsInv
  <2>2. \A v \in Range(tabs) : \A x : x \in Range(panes'[v]) <=> x \in Range(panes[v]) /\ x # t
    BY <1>2, TabsAreSplitters
  <2>3. \A x : x \in DOMAIN session' <=> \E v \in Range(tabs') : x \in Range(panes'[v])
    BY <1>1, <2>1, <2>2 DEF EachPane
  <2>4. \A u, v \in Range(tabs') : \A x : x \in Range(panes'[u]) /\ x \in Range(panes'[v]) => u = v
    BY <1>1, <2>1, <2>2 DEF EachPane
  <2>5. \A v \in Splitters \ Range(tabs') : panes'[v] = <<>>
    BY <1>1, <1>2, <2>1 DEF EachPane
  <2>6. QED
    BY <2>3, <2>4, <2>5, ByPane DEF EachPane
<1>5. QED
  BY <1>1, <1>2, <1>3, <1>4 DEF TabsInv

\* With the last tab the last session went, so both panes of a new split are new.
LEMMA SplitStep ==
    ASSUME TabsInv, Split
    PROVE  TabsInv'
<1>1. CASE tabs # <<>>
  BY <1>1, AddPaneStep DEF Split
<1>2. CASE tabs = <<>>
  <2>1. PICK w \in FreshSplitters, t \in FreshPanes, u \in NewIn(Panes \ FreshPanes) :
           /\ tabs' = <<w>> /\ panes' = [panes EXCEPT ![w] = <<t, u>>]
           /\ DOMAIN session' = {t, u}
    BY <1>2 DEF Split
  <2>2. w \in Splitters /\ t \in Panes /\ u \in Panes /\ t # u
    BY FreshIs DEF NewIn
  <2>3. tabs' \in Seq(Splitters) /\ IsInjective(tabs') /\ Range(tabs') = {w}
    BY <2>1, <2>2 DEF IsInjective, Range
  <2>4. <<t, u>> \in Seq(Panes) /\ IsInjective(<<t, u>>) /\ Range(<<t, u>>) = {t, u}
    <3>1. DOMAIN <<t, u>> = {1, 2} /\ <<t, u>>[1] = t /\ <<t, u>>[2] = u
      OBVIOUS
    <3>2. QED
      BY <2>2, <3>1 DEF IsInjective, Range
  <2>5. Range(tabs) = {} /\ \A v \in Splitters : panes[v] = <<>>
    BY <1>2, EmptySequence DEF TabsInv, SessionsMatchPanes
  <2>6. /\ panes' \in [Splitters -> Seq(Panes)] /\ \A v \in Splitters : IsInjective(panes'[v])
        /\ Range(panes'[w]) = {t, u} /\ \A v \in Splitters \ {w} : panes'[v] = <<>>
    BY <2>1, <2>2, <2>4, <2>5, EmptySequence DEF TabsInv
  <2>7. SessionsMatchPanes'
    BY <2>1, <2>3, <2>6 DEF SessionsMatchPanes
  <2>8. QED
    BY <2>3, <2>6, <2>7 DEF TabsInv
<1>3. QED
  BY <1>1, <1>2

LEMMA EmptyWindow ==
    ASSUME tabs' = <<>>, panes' = [w \in Splitters |-> <<>>], session' = <<>>
    PROVE  TabsInv'
<1>1. DOMAIN <<>> = {}
  OBVIOUS
<1>2. SessionsMatchPanes'
  BY <1>1, EmptySequence DEF SessionsMatchPanes
<1>3. QED
  BY <1>2, EmptySequence DEF TabsInv

LEMMA TabsStep == TabsInv /\ [Next]_vars => TabsInv'
<1> SUFFICES ASSUME TabsInv, [Next]_vars PROVE TabsInv'
  OBVIOUS
<1>1. ASSUME UNCHANGED <<tabs, panes, session>> PROVE TabsInv'
  BY <1>1 DEF TabsInv, SessionsMatchPanes
<1>2. CASE NewLocal \/ \E p \in Profiles : ConnectSelected(p) \/ ConnectSelectedTunnels(p)
  BY <1>2, AddTabStep DEF NewLocal, ConnectSelected, ConnectSelectedTunnels, Open
<1>3. CASE Quit \/ Crash
  BY <1>3, EmptyWindow DEF Quit, Crash, Gone
<1>4. CASE ChangeSettings \/ Start \/ SkipPane \/ PaneFails \/ DismissBox \/ NextTab \/ Restored
           \/ (\E p \in Profiles : DeleteProfile(p)) \/ UNCHANGED vars
  BY <1>1, <1>4 DEF ChangeSettings, Start, SkipPane, PaneFails, DismissBox, NextTab, TabDone,
     Restored, DeleteProfile, vars, tabVars
<1>5. CASE RestorePane
  BY <1>1, <1>5, AddTabStep, AddPaneStep DEF RestorePane
<1>6. ASSUME NEW w \in Splitters, CloseTab(w) \/ TimerFires(w) PROVE TabsInv'
  BY <1>1, <1>6, CloseStep DEF CloseTab, TimerFires, Idle
<1>7. CASE Split
  BY <1>7, SplitStep
<1>8. ASSUME NEW t \in Panes, Exit(t) PROVE TabsInv'
  BY <1>8, ExitStep
<1>9. QED
  BY <1>2, <1>3, <1>4, <1>5, <1>6, <1>7, <1>8 DEF Next

LEMMA TabsInit == Init => TabsInv
<1> SUFFICES ASSUME Init PROVE TabsInv
  OBVIOUS
<1>1. tabs = <<>> /\ panes = [w \in Splitters |-> <<>>] /\ session = <<>> /\ DOMAIN <<>> = {}
  BY DEF Init
<1>2. SessionsMatchPanes
  BY <1>1, EmptySequence DEF SessionsMatchPanes
<1>3. QED
  BY <1>1, <1>2, EmptySequence DEF TabsInv

\* m_terminalSessions holds exactly the panes of the tabs, each of them in one
\* place, whatever exits, is split and is closed in any order
\* (WaypaneWindow::createTerminal, closeTerminal).
THEOREM SessionsArePanes == Spec => []SessionsMatchPanes
<1>1. TabsInv => SessionsMatchPanes
  BY DEF TabsInv
<1>2. QED
  BY TabsInit, TabsStep, <1>1, PTL DEF Spec

------------------------------------------------------------------------------
(* Tabs without panes. *)

EmptyTabsQueued == \A w \in Range(tabs) : panes[w] = <<>> => w \in timers

\* A step after which a tab is as it was, has a pane or has its timer.
LEMMA QueuedStep ==
    ASSUME EmptyTabsQueued, timers \subseteq timers',
           \A v \in Range(tabs') : \/ v \in Range(tabs) /\ panes'[v] = panes[v]
                                   \/ panes'[v] # <<>>
                                   \/ v \in timers'
    PROVE  EmptyTabsQueued'
BY DEF EmptyTabsQueued

LEMMA AddTabQueues ==
    ASSUME TabsInv, EmptyTabsQueued, NEW w \in FreshSplitters, NEW t \in FreshPanes, NEW kind,
           AddTab(w, t, kind), timers' = timers
    PROVE  EmptyTabsQueued'
<1>1. w \in Splitters \ Range(tabs) /\ t \in Panes /\ panes[w] \in Seq(Panes)
  BY FreshIs DEF TabsInv
<1>2. tabs' = Append(tabs, w) /\ panes' = [panes EXCEPT ![w] = Append(panes[w], t)]
  BY DEF AddTab, AddPane
<1>3. Range(tabs') = Range(tabs) \cup {w}
  BY <1>1, <1>2, AppendIs DEF TabsInv
<1>4. panes'[w] # <<>> /\ \A v \in Splitters \ {w} : panes'[v] = panes[v]
  BY <1>1, <1>2, AppendProperties DEF TabsInv
<1>5. QED
  BY <1>3, <1>4, QueuedStep, TabsAreSplitters

LEMMA AddPaneQueues ==
    ASSUME TabsInv, EmptyTabsQueued, NEW w \in Range(tabs), NEW t \in FreshPanes, NEW kind,
           AddPane(w, t, kind), tabs' = tabs, timers' = timers
    PROVE  EmptyTabsQueued'
<1>1. w \in Splitters /\ t \in Panes /\ panes[w] \in Seq(Panes)
  BY FreshIs, TabsAreSplitters DEF TabsInv
<1>2. panes' = [panes EXCEPT ![w] = Append(panes[w], t)]
  BY DEF AddPane
<1>3. panes'[w] # <<>> /\ \A v \in Splitters \ {w} : panes'[v] = panes[v]
  BY <1>1, <1>2, AppendProperties DEF TabsInv
<1>4. QED
  BY <1>3, QueuedStep, TabsAreSplitters

LEMMA CloseLeaves ==
    ASSUME TabsInv, NEW w \in Range(tabs), CloseTerminal(w)
    PROVE  /\ Range(tabs') = Range(tabs) \ {w}
           /\ \A v \in Range(tabs') : panes'[v] = panes[v]
<1>1. Range(tabs') = Range(tabs) \ {w}
  BY RemoveFirstIs DEF CloseTerminal, TabsInv
<1>2. \A v \in Splitters \ {w} : panes'[v] = panes[v]
  BY DEF CloseTerminal, TabsInv
<1>3. QED
  BY <1>1, <1>2, TabsAreSplitters

\* A tab that loses its last pane is the one whose timer the exit queues.
LEMMA ExitQueues ==
    ASSUME TabsInv, EmptyTabsQueued, NEW t \in Panes, Exit(t)
    PROVE  EmptyTabsQueued'
<1>1. /\ tabs' = tabs /\ panes' = [w \in Splitters |-> RemoveFirst(panes[w], t)]
      /\ timers' = timers \cup OwnerOf(t)
  BY DEF Exit, PaneExits
<1>2. ASSUME NEW v \in Range(tabs), panes'[v] = <<>>, panes[v] # <<>>
      PROVE  v \in OwnerOf(t)
  <2>1. v \in Splitters /\ panes[v] \in Seq(Panes) /\ IsInjective(panes[v])
    BY TabsAreSplitters DEF TabsInv
  <2>2. Range(RemoveFirst(panes[v], t)) = Range(panes[v]) \ {t}
    BY <2>1, RemoveFirstIs
  <2>3. RemoveFirst(panes[v], t) = <<>>
    BY <1>1, <1>2, <2>1
  <2>4. Range(panes[v]) \ {t} = {}
    BY <2>2, <2>3, EmptySequence
  <2>5. Range(panes[v]) # {}
    <3>1. 1 \in DOMAIN panes[v]
      BY <1>2, <2>1
    <3>2. QED
      BY <3>1 DEF Range
  <2>6. t \in Range(panes[v])
    BY <2>4, <2>5
  <2>7. QED
    BY <2>6 DEF OwnerOf
<1>3. QED
  BY <1>1, <1>2 DEF EmptyTabsQueued

\* A timer that leaves its tab found a pane in it.
LEMMA TimerQueues ==
    ASSUME TabsInv, EmptyTabsQueued, NEW w \in Splitters, TimerFires(w)
    PROVE  EmptyTabsQueued'
<1>1. CASE w \in Range(tabs) /\ ~IsLive(w)
  <2>1. CloseTerminal(w) /\ timers' = timers \ {w}
    BY <1>1 DEF TimerFires, Idle
  <2>2. QED
    BY <1>1, <2>1, CloseLeaves DEF EmptyTabsQueued
<1>2. CASE ~(w \in Range(tabs) /\ ~IsLive(w))
  <2>1. timers' = timers \ {w} /\ tabs' = tabs /\ panes' = panes
    BY <1>2 DEF TimerFires, Idle
  <2>2. w \in Range(tabs) => panes[w] # <<>>
    BY <1>2, EmptySequence DEF IsLive
  <2>3. QED
    BY <2>1, <2>2 DEF EmptyTabsQueued
<1>3. QED
  BY <1>1, <1>2

LEMMA EmptyTabsStep == TabsInv /\ EmptyTabsQueued /\ [Next]_vars => EmptyTabsQueued'
<1> SUFFICES ASSUME TabsInv, EmptyTabsQueued, [Next]_vars PROVE EmptyTabsQueued'
  OBVIOUS
<1>1. ASSUME UNCHANGED <<tabs, panes, timers>> PROVE EmptyTabsQueued'
  BY <1>1 DEF EmptyTabsQueued
<1>2. CASE NewLocal \/ \E p \in Profiles : ConnectSelected(p) \/ ConnectSelectedTunnels(p)
  BY <1>2, AddTabQueues DEF NewLocal, ConnectSelected, ConnectSelectedTunnels, Open
<1>3. CASE Quit \/ Crash
  <2>1. tabs' = <<>>
    BY <1>3 DEF Quit, Crash, Gone
  <2>2. QED
    BY <2>1, EmptySequence DEF EmptyTabsQueued
<1>4. CASE ChangeSettings \/ Start \/ SkipPane \/ PaneFails \/ DismissBox \/ NextTab \/ Restored
           \/ (\E p \in Profiles : DeleteProfile(p)) \/ UNCHANGED vars
  BY <1>1, <1>4 DEF ChangeSettings, Start, SkipPane, PaneFails, DismissBox, NextTab, TabDone,
     Restored, DeleteProfile, vars, tabVars
<1>5. CASE RestorePane
  BY <1>1, <1>5, AddTabQueues, AddPaneQueues DEF RestorePane
<1>6. ASSUME NEW w \in Splitters, CloseTab(w) PROVE EmptyTabsQueued'
  <2>1. CloseTerminal(w) /\ w \in Range(tabs) /\ timers' = timers
    BY <1>6 DEF CloseTab
  <2>2. QED
    BY <2>1, CloseLeaves, QueuedStep
<1>7. CASE Split
  <2>1. CASE tabs # <<>>
    BY <1>7, <2>1, AddPaneQueues DEF Split
  <2>2. CASE tabs = <<>>
    <3>1. PICK w \in FreshSplitters :
             \E t, u : tabs' = <<w>> /\ panes' = [panes EXCEPT ![w] = <<t, u>>]
      BY <1>7, <2>2 DEF Split
    <3>2. w \in Splitters /\ Range(<<w>>) = {w}
      BY <3>1, FreshIs DEF Range
    <3>3. panes'[w] # <<>>
      BY <3>1, <3>2 DEF TabsInv
    <3>4. QED
      BY <3>1, <3>2, <3>3 DEF EmptyTabsQueued
  <2>3. QED
    BY <2>1, <2>2
<1>8. QED
  BY <1>2, <1>3, <1>4, <1>5, <1>6, <1>7, ExitQueues, TimerQueues DEF Next

\* A tab without panes always has its timer queued, so that the event loop needs
\* nobody's help to close it: an exit queues the timer of its own tab, and a timer
\* that leaves a tab alone found a pane in it (WaypaneWindow::createTerminal).
THEOREM EmptyTabsAreQueued == Spec => []EmptyTabsQueued
<1>1. Init => EmptyTabsQueued
  BY EmptySequence DEF Init, EmptyTabsQueued
<1>2. QED
  BY <1>1, TabsInit, TabsStep, EmptyTabsStep, PTL DEF Spec

------------------------------------------------------------------------------
(* Timers and restoring. *)

\* m_terminalSessions maps panes to what they run, and nothing else.
SessionIsMap == session = [t \in DOMAIN session |-> session[t]]

LEMMA InitMap == Init => SessionIsMap
<1> SUFFICES ASSUME Init PROVE SessionIsMap
  OBVIOUS
<1>1. session = <<>>
  BY DEF Init
<1>2. QED
  BY <1>1 DEF SessionIsMap

LEMMA MapStep == SessionIsMap /\ [Next]_vars => SessionIsMap'
<1> SUFFICES ASSUME SessionIsMap, [Next]_vars PROVE SessionIsMap'
  OBVIOUS
<1>1. ASSUME session' = session PROVE SessionIsMap'
  BY <1>1 DEF SessionIsMap
<1>2. ASSUME session' = <<>> PROVE SessionIsMap'
  BY <1>2 DEF SessionIsMap
<1>3. ASSUME NEW w, NEW t, NEW kind, AddPane(w, t, kind) PROVE SessionIsMap'
  BY <1>3 DEF AddPane, SessionIsMap
<1>4. ASSUME NEW w, CloseTerminal(w) PROVE SessionIsMap'
  BY <1>4 DEF CloseTerminal, SessionIsMap
<1>5. CASE NewLocal \/ \E p \in Profiles : ConnectSelected(p) \/ ConnectSelectedTunnels(p)
  BY <1>3, <1>5 DEF NewLocal, ConnectSelected, ConnectSelectedTunnels, Open, AddTab
<1>6. CASE Split
  <2>1. ASSUME NEW t, NEW u, session' = [x \in {t, u} |-> Local] PROVE SessionIsMap'
    BY <2>1 DEF SessionIsMap
  <2>2. QED
    BY <1>3, <1>6, <2>1 DEF Split
<1>7. CASE Quit \/ Crash
  BY <1>2, <1>7 DEF Quit, Crash, Gone
<1>8. CASE ChangeSettings \/ Start \/ SkipPane \/ PaneFails \/ DismissBox \/ NextTab \/ Restored
           \/ (\E p \in Profiles : DeleteProfile(p)) \/ UNCHANGED vars
  BY <1>1, <1>8 DEF ChangeSettings, Start, SkipPane, PaneFails, DismissBox, NextTab, TabDone,
     Restored, DeleteProfile, vars, tabVars
<1>9. CASE RestorePane
  BY <1>1, <1>3, <1>9 DEF RestorePane, AddTab, tabVars
<1>10. ASSUME NEW w \in Splitters, CloseTab(w) \/ TimerFires(w) PROVE SessionIsMap'
  BY <1>1, <1>4, <1>10 DEF CloseTab, TimerFires, Idle
<1>11. ASSUME NEW t \in Panes, Exit(t) PROVE SessionIsMap'
  BY <1>11 DEF Exit, PaneExits, SessionIsMap
<1>12. QED
  BY <1>5, <1>6, <1>7, <1>8, <1>9, <1>10, <1>11 DEF Next

\* A step that only takes a timer off the queue is the timer's.
LEMMA TimerSteps ==
    ASSUME Next, timers' # timers, timers' \subseteq timers, phase' = phase
    PROVE  \E w \in Splitters : TimerFires(w)
<1>1. ~(\E t \in Panes : Exit(t))
  BY DEF Exit, PaneExits
<1>2. ~Quit /\ ~Crash
  BY DEF Quit, Crash, Gone
<1>3. ~(\E w \in Splitters : CloseTab(w)) /\ ~NewLocal /\ ~Split /\ ~ChangeSettings
  BY DEF CloseTab, NewLocal, Split, ChangeSettings, tabVars
<1>4. ~(\E p \in Profiles : ConnectSelected(p) \/ ConnectSelectedTunnels(p) \/ DeleteProfile(p))
  BY DEF ConnectSelected, ConnectSelectedTunnels, Open, DeleteProfile, tabVars
<1>5. /\ ~Start /\ ~SkipPane /\ ~RestorePane /\ ~PaneFails
      /\ ~DismissBox /\ ~NextTab /\ ~Restored
  BY DEF Start, SkipPane, RestorePane, PaneFails, DismissBox, NextTab, TabDone, Restored, tabVars
<1>6. QED
  BY <1>1, <1>2, <1>3, <1>4, <1>5 DEF Next

\* The queued close of an idle tab leaves every session as it was: a pane that
\* was split in meanwhile keeps its terminal (WaypaneWindow's close-if-idle
\* timer).
THEOREM TimersSpareLiveTabs == Spec => TimerSparesLiveTabs
<1>1. SessionIsMap /\ [Next]_vars =>
        [timers' # timers /\ timers' \subseteq timers /\ phase' = phase => session' = session]_vars
  <2> SUFFICES ASSUME SessionIsMap, Next, timers' # timers, timers' \subseteq timers, phase' = phase
               PROVE  session' = session
    OBVIOUS
  <2>1. PICK w \in Splitters : TimerFires(w)
    BY TimerSteps
  <2>2. CASE w \in Range(tabs) /\ ~IsLive(w)
    <3>1. session' = [t \in DOMAIN session \ Range(panes[w]) |-> session[t]]
      BY <2>1, <2>2 DEF TimerFires, Idle, CloseTerminal
    <3>2. DOMAIN session \ Range(panes[w]) = DOMAIN session
      BY <2>2 DEF IsLive
    <3>3. QED
      BY <3>1, <3>2 DEF SessionIsMap
  <2>3. CASE ~(w \in Range(tabs) /\ ~IsLive(w))
    BY <2>1, <2>3 DEF TimerFires, Idle
  <2>4. QED
    BY <2>2, <2>3
<1>2. QED
  BY InitMap, MapStep, <1>1, PTL DEF Spec, TimerSparesLiveTabs

------------------------------------------------------------------------------
(* Filters: what of a sequence is kept. *)

LEMMA LeastElement ==
    ASSUME NEW T \in SUBSET Nat, T # {}
    PROVE  Min(T) \in T /\ \A n \in T : Min(T) <= n
<1>1. PICK m \in T : \A n \in T : ~(<<n, m>> \in OpToRel(<, Nat))
  BY WFMin, NatLessThanWellFounded
<1>2. \A n \in T : ~(n < m)
  BY <1>1 DEF OpToRel
<1>3. \A n \in T : m <= n
  BY <1>2
<1>4. QED
  BY <1>3 DEF Min

LEMMA InductiveSet ==
    ASSUME NEW T, 0 \in T, \A n \in Nat : n \in T => n + 1 \in T
    PROVE  Nat \subseteq T
<1> SUFFICES ASSUME Nat \ T # {} PROVE FALSE
  OBVIOUS
<1>1. PICK m \in Nat \ T : \A n \in Nat \ T : m <= n
  BY LeastElement
<1>2. m # 0 /\ m - 1 \in Nat /\ m - 1 < m
  BY <1>1
<1>3. m - 1 \in T
  BY <1>1, <1>2
<1>4. (m - 1) + 1 \in T
  BY <1>2, <1>3
<1>5. QED
  BY <1>1, <1>4

LEMMA KeptIs ==
    ASSUME NEW seq, Len(seq) \in Nat, NEW S
    PROVE  /\ Kept(seq, S)[0] = <<>>
           /\ \A n \in 1 .. Len(seq) :
                 Kept(seq, S)[n] = IF seq[n] \in S THEN Append(Kept(seq, S)[n - 1], seq[n])
                                      ELSE Kept(seq, S)[n - 1]
<1> DEFINE next(f, n) == IF seq[n] \in S THEN Append(f[n - 1], seq[n]) ELSE f[n - 1]
           Good(f, m) == f = [n \in 0 .. m |-> IF n = 0 THEN <<>> ELSE next(f, n)]
           T == {m \in Nat : \E f : Good(f, m)}
           kept == CHOOSE f : Good(f, Len(seq))
<1>1. Kept(seq, S) = kept
  BY DEF Kept
<1>2. 0 \in T
  <2> DEFINE f == [n \in 0 .. 0 |-> <<>>]
  <2>1. f = [n \in 0 .. 0 |-> IF n = 0 THEN <<>> ELSE next(f, n)]
    OBVIOUS
  <2>2. QED
    BY <2>1
<1>3. ASSUME NEW m \in Nat, m \in T PROVE m + 1 \in T
  <2>1. PICK f : Good(f, m)
    BY <1>3
  <2> DEFINE g == [n \in 0 .. m + 1 |-> IF n <= m THEN f[n] ELSE next(f, m + 1)]
  <2>2. ASSUME NEW n \in 0 .. m + 1 PROVE g[n] = IF n = 0 THEN <<>> ELSE next(g, n)
    <3>1. CASE n <= m
      <4>1. n \in 0 .. m /\ (n # 0 => n - 1 \in 0 .. m + 1 /\ n - 1 <= m)
        BY <3>1
      <4>2. g[n] = f[n] /\ (n # 0 => g[n - 1] = f[n - 1])
        BY <3>1, <4>1
      <4>3. f[n] = IF n = 0 THEN <<>> ELSE next(f, n)
        BY <2>1, <4>1
      <4> HIDE DEF g
      <4>4. QED
        BY <4>2, <4>3
    <3>2. CASE ~(n <= m)
      <4>1. n = m + 1 /\ n # 0 /\ n - 1 = m /\ m \in 0 .. m + 1
        BY <3>2
      <4>2. g[n] = next(f, m + 1) /\ g[m] = f[m]
        BY <4>1, <3>2
      <4> HIDE DEF g
      <4>3. next(f, m + 1) = next(g, n)
        BY <4>1, <4>2
      <4>4. QED
        BY <4>1, <4>2, <4>3
    <3>3. QED
      BY <3>1, <3>2
  <2>3. g = [n \in 0 .. m + 1 |-> g[n]]
    OBVIOUS
  <2> HIDE DEF g
  <2>4. Good(g, m + 1)
    BY <2>2, <2>3
  <2>5. QED
    BY <2>4
<1>4. \A n \in Nat : n \in T => n + 1 \in T
  BY <1>3
<1>5. Len(seq) \in T
  <2> HIDE DEF T
  <2>1. QED
    BY <1>2, <1>4, InductiveSet
<1>6. Good(kept, Len(seq))
  BY <1>5
<1> HIDE DEF kept
<1>7. kept[0] = <<>>
  BY <1>6
<1>8. \A n \in 1 .. Len(seq) : kept[n] = next(kept, n)
  <2> HIDE DEF next
  <2>1. \A n \in 1 .. Len(seq) : n \in 0 .. Len(seq) /\ n # 0
    OBVIOUS
  <2>2. QED
    BY <1>6, <2>1
<1>9. QED
  BY <1>1, <1>7, <1>8

LEMMA KeptSeq ==
    ASSUME NEW X, NEW seq \in Seq(X), NEW S, NEW m \in 0 .. Len(seq)
    PROVE  Kept(seq, S)[m] \in Seq(X \cap S)
<1> DEFINE K == Kept(seq, S)
           T == {n \in Nat : n <= Len(seq) => K[n] \in Seq(X \cap S)}
<1>0. Len(seq) \in Nat /\ \A i \in 1 .. Len(seq) : seq[i] \in X
  OBVIOUS
<1>1. K[0] = <<>> /\ \A n \in 1 .. Len(seq) : K[n] = IF seq[n] \in S THEN Append(K[n - 1], seq[n]) ELSE K[n - 1]
  BY <1>0, KeptIs
<1> HIDE DEF K
<1>2. 0 \in T
  <2>1. Len(<<>>) = 0 /\ \A R : <<>> \in Seq(R)
    OBVIOUS
  <2>2. QED
    BY <1>1, <2>1
<1>3. ASSUME NEW n \in Nat, n \in T PROVE n + 1 \in T
  <2> SUFFICES ASSUME n + 1 <= Len(seq) PROVE K[n + 1] \in Seq(X \cap S)
    OBVIOUS
  <2>1. n + 1 \in 1 .. Len(seq) /\ (n + 1) - 1 = n /\ n <= Len(seq)
    BY <1>0
  <2>2. K[n + 1] = IF seq[n + 1] \in S THEN Append(K[n], seq[n + 1]) ELSE K[n]
    BY <1>1, <2>1
  <2>3. K[n] \in Seq(X \cap S)
    BY <1>3, <2>1
  <2>4. CASE seq[n + 1] \in S
    <3>1. seq[n + 1] \in X \cap S
      BY <1>0, <2>1, <2>4
    <3>2. Append(K[n], seq[n + 1]) \in Seq(X \cap S)
      BY <2>3, <3>1, AppendProperties
    <3>3. QED
      BY <2>2, <2>4, <3>2
  <2>5. CASE seq[n + 1] \notin S
    BY <2>2, <2>3, <2>5
  <2>6. QED
    BY <2>4, <2>5
<1>4. m \in T
  <2> HIDE DEF T
  <2>1. QED
    BY <1>0, <1>2, <1>3, InductiveSet
<1>5. QED
  BY <1>0, <1>4 DEF K

\* A sequence of members of the set is kept whole.
LEMMA OnlyAll ==
    ASSUME NEW S, NEW seq \in Seq(S)
    PROVE  Only(seq, S) = seq
<1> DEFINE K == Kept(seq, S)
           T == {n \in Nat : n <= Len(seq) =>
                    K[n] \in Seq(S) /\ Len(K[n]) = n /\ \A i \in 1 .. n : K[n][i] = seq[i]}
<1>0. Len(seq) \in Nat /\ \A i \in 1 .. Len(seq) : seq[i] \in S
  OBVIOUS
<1>1. K[0] = <<>> /\ \A n \in 1 .. Len(seq) : K[n] = IF seq[n] \in S THEN Append(K[n - 1], seq[n]) ELSE K[n - 1]
  BY <1>0, KeptIs
<1> HIDE DEF K
<1>2. 0 \in T
  <2>1. Len(<<>>) = 0 /\ \A R : <<>> \in Seq(R)
    OBVIOUS
  <2>2. K[0] \in Seq(S) /\ Len(K[0]) = 0
    BY <1>1, <2>1
  <2>3. \A i \in 1 .. 0 : FALSE
    OBVIOUS
  <2>4. QED
    BY <2>2, <2>3
<1>3. ASSUME NEW n \in Nat, n \in T PROVE n + 1 \in T
  <2> SUFFICES ASSUME n + 1 <= Len(seq)
               PROVE  /\ K[n + 1] \in Seq(S) /\ Len(K[n + 1]) = n + 1
                      /\ \A i \in 1 .. n + 1 : K[n + 1][i] = seq[i]
    OBVIOUS
  <2>1. n + 1 \in 1 .. Len(seq) /\ (n + 1) - 1 = n /\ n <= Len(seq)
    BY <1>0
  <2>2. K[n + 1] = Append(K[n], seq[n + 1]) /\ seq[n + 1] \in S
    BY <1>0, <1>1, <2>1
  <2>3. K[n] \in Seq(S) /\ Len(K[n]) = n /\ \A i \in 1 .. n : K[n][i] = seq[i]
    BY <1>3, <2>1
  <2>4. /\ K[n + 1] \in Seq(S) /\ Len(K[n + 1]) = Len(K[n]) + 1 /\ K[n + 1][Len(K[n]) + 1] = seq[n + 1]
        /\ \A i \in 1 .. Len(K[n]) : K[n + 1][i] = K[n][i]
    BY <2>2, <2>3, AppendProperties
  <2>5. \A i \in 1 .. n + 1 : i \in 1 .. n \/ i = n + 1
    OBVIOUS
  <2>6. QED
    BY <2>3, <2>4, <2>5
<1>4. Len(seq) \in T
  <2> HIDE DEF T
  <2>1. QED
    BY <1>0, <1>2, <1>3, InductiveSet
<1>5. K[Len(seq)] = seq
  <2>1. /\ K[Len(seq)] \in Seq(S) /\ Len(K[Len(seq)]) = Len(seq)
        /\ \A i \in 1 .. Len(seq) : K[Len(seq)][i] = seq[i]
    BY <1>4
  <2>2. QED
    BY <2>1, SeqEqual
<1>6. QED
  BY <1>5 DEF Only, K

\* What saveWorkspace writes: tabs with panes, all of them of the kinds asked for.
LEMMA SelectIs ==
    ASSUME NEW layout \in Seq(Seq(Kinds)), NEW W
    PROVE  Select(layout, W) \in Seq(Seq(Kinds \cap W) \ {<<>>})
<1> DEFINE rows == [i \in 1 .. Len(layout) |-> Only(layout[i], W)]
           Rows == Seq(Kinds \cap W)
           Full == Seq(Kinds) \ {<<>>}
<1>1. \A i \in 1 .. Len(layout) : Only(layout[i], W) \in Rows
  <2> TAKE i \in 1 .. Len(layout)
  <2>1. layout[i] \in Seq(Kinds) /\ Len(layout[i]) \in 0 .. Len(layout[i])
    OBVIOUS
  <2>2. QED
    BY <2>1, KeptSeq DEF Only
<1>2. rows \in Seq(Rows) /\ Len(rows) \in 0 .. Len(rows)
  <2>1. Len(layout) \in Nat
    OBVIOUS
  <2> HIDE DEF Rows
  <2>2. rows \in Seq(Rows)
    BY <1>1, <2>1
  <2> HIDE DEF rows
  <2>3. QED
    BY <2>2
<1>3. Only(rows, Full) \in Seq(Rows \cap Full)
  <2> HIDE DEF Rows, Full, rows
  <2>1. QED
    BY <1>2, KeptSeq DEF Only
<1>4. Rows \cap Full \subseteq Seq(Kinds \cap W) \ {<<>>}
  OBVIOUS
<1>5. QED
  <2> DEFINE A == Rows \cap Full
             B == Seq(Kinds \cap W) \ {<<>>}
  <2>1. Only(rows, Full) \in Seq(A) /\ A \subseteq B
    BY <1>3, <1>4
  <2> HIDE DEF A, B
  <2>2. Only(rows, Full) \in Seq(B)
    BY <2>1
  <2>3. QED
    BY <2>2 DEF B, Select

------------------------------------------------------------------------------
(* Restoring a layout: n tabs are done, and of the next one m panes. *)

Full == Seq(Kinds) \ {<<>>}
Rows(layout, W) == [i \in 1 .. Len(layout) |-> Only(layout[i], W)]

\* What is left to do.
Left(layout, n, m, left) ==
    /\ n \in 0 .. Len(layout) /\ Len(left) = Len(layout) - n
    /\ \A i \in 2 .. Len(left) : left[i] = layout[n + i]
    /\ left # <<>> =>
          /\ m \in 0 .. Len(layout[n + 1]) /\ Len(left[1]) = Len(layout[n + 1]) - m
          /\ \A i \in 1 .. Len(left[1]) : left[1][i] = layout[n + 1][m + i]

\* Of the next tab, the panes that are restored.
Part(layout, W, n, m) == Kept(layout[n + 1], W)[m]

\* What has been done: the tabs that have panes, and of the next tab those panes
\* that are restored, in the tab that was opened last, if there are any.
Done(layout, W, n, m, left, current, shown, lastTab) ==
    LET full == Kept(Rows(layout, W), Full)[n]
        part == Part(layout, W, n, m)
    IN  \/ current = None /\ shown = full /\ (left # <<>> => part = <<>>)
        \/ /\ current # None /\ current = lastTab
           /\ left # <<>> /\ part # <<>> /\ shown = Append(full, part)

LEMMA RowsAre ==
    ASSUME NEW layout \in Seq(Seq(Kinds)), NEW W
    PROVE  /\ Rows(layout, W) \in Seq(Seq(Kinds)) /\ Len(Rows(layout, W)) = Len(layout)
           /\ \A i \in 1 .. Len(layout) : Rows(layout, W)[i] = Kept(layout[i], W)[Len(layout[i])]
           /\ \A n \in 0 .. Len(layout) : Kept(Rows(layout, W), Full)[n] \in Seq(Seq(Kinds))
<1> DEFINE rows == Rows(layout, W)
           K == Seq(Kinds)
<1>0. Len(layout) \in Nat /\ \A i \in 1 .. Len(layout) : layout[i] \in K
  <2> HIDE DEF K
  <2>1. QED
    BY DEF K
<1>1. \A i \in 1 .. Len(layout) : Only(layout[i], W) \in Seq(Kinds)
  <2> TAKE i \in 1 .. Len(layout)
  <2>1. layout[i] \in Seq(Kinds) /\ Len(layout[i]) \in 0 .. Len(layout[i])
    BY <1>0
  <2>2. Only(layout[i], W) \in Seq(Kinds \cap W)
    BY <2>1, KeptSeq DEF Only
  <2>3. QED
    BY <2>2
<1>2. rows \in Seq(K) /\ Len(rows) = Len(layout)
  <2> HIDE DEF K
  <2>1. QED
    BY <1>0, <1>1 DEF Rows, K
<1>3. \A i \in 1 .. Len(layout) : rows[i] = Kept(layout[i], W)[Len(layout[i])]
  BY DEF Rows, Only
<1>4. \A n \in 0 .. Len(layout) : Kept(rows, Full)[n] \in Seq(K)
  <2> HIDE DEF K, rows
  <2> TAKE n \in 0 .. Len(layout)
  <2>1. Kept(rows, Full)[n] \in Seq(K \cap Full)
    BY <1>2, KeptSeq
  <2>2. QED
    BY <2>1
<1>5. QED
  BY <1>2, <1>3, <1>4

\* What is left when the next pane is done with.
FirstPane(left) == left[1][1]
AfterPane(left) == [left EXCEPT ![1] = Tail(left[1])]

\* With a pane k more, the part is longer if k is wanted.
Longer(layout, W, n, m, k) ==
    /\ Part(layout, W, n, m) \in Seq(Kinds)
    /\ k \in W => Part(layout, W, n, m + 1) = Append(Part(layout, W, n, m), k)
    /\ k \notin W => Part(layout, W, n, m + 1) = Part(layout, W, n, m)

LEMMA PaneIsDone ==
    ASSUME NEW layout \in Seq(Seq(Kinds)), NEW W, NEW n \in Nat, NEW m \in Nat, NEW left \in Seq(Seq(Kinds)),
           Left(layout, n, m, left), left # <<>>, left[1] # <<>>
    PROVE  /\ Left(layout, n, m + 1, AfterPane(left))
           /\ Longer(layout, W, n, m, FirstPane(left))
<1> SUFFICES ASSUME NEW after, after = [left EXCEPT ![1] = Tail(left[1])]
    PROVE  /\ Left(layout, n, m + 1, after)
           /\ Kept(layout[n + 1], W)[m] \in Seq(Kinds)
           /\ Kept(layout[n + 1], W)[m + 1] =
                 IF left[1][1] \in W THEN Append(Kept(layout[n + 1], W)[m], left[1][1])
                 ELSE Kept(layout[n + 1], W)[m]
  BY DEF AfterPane, FirstPane, Longer, Part
<1> DEFINE K == Seq(Kinds)
<1>1. /\ Len(layout) \in Nat /\ Len(left) \in Nat /\ Len(left) >= 1
      /\ \A i \in 1 .. Len(left) : left[i] \in K
      /\ \A i \in 1 .. Len(layout) : layout[i] \in K
  <2> HIDE DEF K
  <2>1. QED
    BY DEF K
<1>2. /\ n \in 0 .. Len(layout) /\ Len(left) = Len(layout) - n
      /\ \A i \in 2 .. Len(left) : left[i] = layout[n + i]
      /\ m \in 0 .. Len(layout[n + 1]) /\ Len(left[1]) = Len(layout[n + 1]) - m
      /\ \A i \in 1 .. Len(left[1]) : left[1][i] = layout[n + 1][m + i]
  BY DEF Left
<1>3. n + 1 \in 1 .. Len(layout) /\ layout[n + 1] \in Seq(Kinds) /\ left[1] \in Seq(Kinds)
  BY <1>1, <1>2
<1>4. PICK row : row = left[1]
  OBVIOUS
<1>5. row \in Seq(Kinds) /\ row # <<>> /\ Len(row) \in Nat /\ Len(row) >= 1
  BY <1>3, <1>4
<1>6. PICK rest : rest = Tail(row)
  OBVIOUS
<1>7. /\ rest \in Seq(Kinds) /\ Len(rest) = Len(row) - 1
      /\ \A i \in 1 .. Len(rest) : rest[i] = row[i + 1]
  BY <1>5, <1>6, HeadTailProperties
<1>8. /\ after \in Seq(Seq(Kinds)) /\ Len(after) = Len(left) /\ after[1] = rest
      /\ \A i \in 2 .. Len(left) : after[i] = left[i]
  <2>1. rest \in K
    BY <1>7
  <2>2. after = [left EXCEPT ![1] = rest]
    BY <1>4, <1>6
  <2> HIDE DEF K
  <2>3. left \in Seq(K)
    BY DEF K
  <2>4. after \in Seq(K) /\ Len(after) = Len(left) /\ after[1] = rest
        /\ \A i \in 2 .. Len(left) : after[i] = left[i]
    <3>1. 1 \in 1 .. Len(left) /\ \A i \in 2 .. Len(left) : i \in 1 .. Len(left) /\ i # 1
      BY <1>1
    <3>2. /\ [left EXCEPT ![1] = rest] \in Seq(K) /\ Len([left EXCEPT ![1] = rest]) = Len(left)
          /\ \A j \in 1 .. Len(left) : [left EXCEPT ![1] = rest][j] = IF j = 1 THEN rest ELSE left[j]
      BY <2>1, <2>3, <3>1, ExceptSeq
    <3>3. QED
      BY <2>2, <3>1, <3>2
  <2>5. QED
    BY <2>4 DEF K
<1>9. after # <<>>
  BY <1>1, <1>8
<1>10. m + 1 \in 0 .. Len(layout[n + 1]) /\ Len(layout[n + 1]) \in Nat /\ m \in Nat
  BY <1>2, <1>3, <1>4, <1>5
<1>11. Left(layout, n, m + 1, after)
  <2>1. \A i \in 2 .. Len(after) : after[i] = layout[n + i]
    BY <1>2, <1>8
  <2>2. Len(after[1]) = Len(layout[n + 1]) - (m + 1)
    BY <1>2, <1>4, <1>7, <1>8, <1>10
  <2>3. ASSUME NEW i \in 1 .. Len(after[1]) PROVE after[1][i] = layout[n + 1][(m + 1) + i]
    <3>1. i + 1 \in 1 .. Len(left[1]) /\ m + (i + 1) = (m + 1) + i
      <4>1. Len(after[1]) = Len(row) - 1 /\ Len(left[1]) = Len(row) /\ i \in Nat
        BY <1>4, <1>7, <1>8, <1>5
      <4>2. QED
        BY <1>5, <4>1
    <3>2. after[1][i] = left[1][i + 1]
      BY <1>4, <1>7, <1>8, <2>3
    <3>3. QED
      BY <1>2, <3>1, <3>2
  <2>4. QED
    BY <1>2, <1>8, <1>10, <2>1, <2>2, <2>3 DEF Left
<1>12. left[1][1] \in Kinds /\ left[1][1] = layout[n + 1][m + 1]
  BY <1>2, <1>4, <1>5
<1>13. /\ Kept(layout[n + 1], W)[m + 1] =
             IF layout[n + 1][m + 1] \in W THEN Append(Kept(layout[n + 1], W)[m], layout[n + 1][m + 1])
             ELSE Kept(layout[n + 1], W)[m]
       /\ Kept(layout[n + 1], W)[m] \in Seq(Kinds)
  <2>1. PICK s : s = layout[n + 1]
    OBVIOUS
  <2>2. s \in Seq(Kinds) /\ Len(s) \in Nat /\ m + 1 \in 1 .. Len(s) /\ (m + 1) - 1 = m /\ m \in 0 .. Len(s)
    BY <1>3, <1>10, <2>1
  <2>3. Kept(s, W)[m + 1] = IF s[m + 1] \in W THEN Append(Kept(s, W)[m], s[m + 1]) ELSE Kept(s, W)[m]
    BY <2>2, KeptIs
  <2>4. Kept(s, W)[m] \in Seq(Kinds \cap W)
    BY <2>2, KeptSeq
  <2>5. Kept(s, W)[m] \in Seq(Kinds)
    BY <2>4
  <2>6. QED
    BY <2>1, <2>3, <2>5
<1>14. QED
  BY <1>8, <1>9, <1>11, <1>12, <1>13

\* A tab is done with: it counts if any of its panes was restored.
LEMMA TabIsDone ==
    ASSUME NEW layout \in Seq(Seq(Kinds)), NEW W, NEW n, NEW m, NEW left \in Seq(Seq(Kinds)),
           NEW current, NEW shown, NEW lastTab,
           Left(layout, n, m, left), Done(layout, W, n, m, left, current, shown, lastTab),
           left # <<>>, left[1] = <<>>
    PROVE  /\ Left(layout, n + 1, 0, Tail(left))
           /\ Done(layout, W, n + 1, 0, Tail(left), None, shown, lastTab)
<1> DEFINE K == Seq(Kinds)
           part == Part(layout, W, n, m)
           full == Kept(Rows(layout, W), Full)[n]
<1>1. /\ Len(layout) \in Nat /\ Len(left) \in Nat /\ Len(left) >= 1
      /\ \A i \in 1 .. Len(layout) : layout[i] \in K
  <2> HIDE DEF K
  <2>1. QED
    BY DEF K
<1>2. /\ n \in 0 .. Len(layout) /\ Len(left) = Len(layout) - n
      /\ \A i \in 2 .. Len(left) : left[i] = layout[n + i]
      /\ m \in 0 .. Len(layout[n + 1]) /\ Len(left[1]) = Len(layout[n + 1]) - m
  BY DEF Left
<1>3. n + 1 \in 1 .. Len(layout) /\ (n + 1) - 1 = n /\ layout[n + 1] \in Seq(Kinds) /\ m = Len(layout[n + 1])
  <2>1. n + 1 \in 1 .. Len(layout) /\ (n + 1) - 1 = n
    BY <1>1, <1>2
  <2>2. layout[n + 1] \in Seq(Kinds)
    BY <1>1, <2>1
  <2>3. Len(left[1]) = 0
    OBVIOUS
  <2>4. QED
    BY <1>2, <2>1, <2>2, <2>3
<1>4. PICK rest : rest = Tail(left)
  OBVIOUS
<1>5. /\ Len(rest) = Len(left) - 1 /\ rest \in Seq(Seq(Kinds))
      /\ \A i \in 1 .. Len(rest) : rest[i] = left[i + 1]
  BY <1>4, HeadTailProperties
<1>6. Left(layout, n + 1, 0, rest)
  <2>1. ASSUME NEW i \in 1 .. Len(rest) PROVE rest[i] = layout[(n + 1) + i]
    <3>1. i + 1 \in 2 .. Len(left) /\ n + (i + 1) = (n + 1) + i
      BY <1>1, <1>2, <1>5
    <3>2. QED
      BY <1>2, <1>5, <3>1
  <2>2. n + 1 \in 0 .. Len(layout) /\ Len(rest) = Len(layout) - (n + 1)
    BY <1>1, <1>2, <1>3, <1>5
  <2>3. ASSUME rest # <<>>
        PROVE  /\ 0 \in 0 .. Len(layout[(n + 1) + 1]) /\ Len(rest[1]) = Len(layout[(n + 1) + 1]) - 0
               /\ \A i \in 1 .. Len(rest[1]) : rest[1][i] = layout[(n + 1) + 1][0 + i]
    <3>1. 1 \in 1 .. Len(rest)
      BY <1>5, <2>3
    <3>2. rest[1] = layout[(n + 1) + 1] /\ rest[1] \in Seq(Kinds)
      BY <1>5, <2>1, <3>1
    <3>3. PICK row : row = rest[1]
      OBVIOUS
    <3>4. row \in Seq(Kinds) /\ Len(row) \in Nat
      BY <3>2, <3>3
    <3>5. \A i \in 1 .. Len(row) : 0 + i = i
      BY <3>4
    <3>6. 0 \in 0 .. Len(row) /\ Len(row) = Len(row) - 0
      BY <3>4
    <3>7. QED
      BY <3>2, <3>3, <3>5, <3>6
  <2>4. \A i \in 2 .. Len(rest) : rest[i] = layout[(n + 1) + i]
    <3>1. \A i \in 2 .. Len(rest) : i \in 1 .. Len(rest)
      BY <1>1, <1>5
    <3>2. QED
      BY <2>1, <3>1
  <2>5. QED
    BY <2>2, <2>3, <2>4 DEF Left
<1>7. part \in Seq(Kinds) /\ (part \in Full <=> part # <<>>)
  <2>1. PICK s : s = layout[n + 1]
    OBVIOUS
  <2>2. s \in Seq(Kinds) /\ m \in 0 .. Len(s)
    BY <1>2, <1>3, <2>1
  <2>3. Kept(s, W)[m] \in Seq(Kinds \cap W)
    BY <2>2, KeptSeq
  <2>4. Kept(s, W)[m] \in Seq(Kinds)
    BY <2>3
  <2>5. QED
    BY <2>1, <2>4 DEF Full, Part
<1>8. Kept(Rows(layout, W), Full)[n + 1] = IF part # <<>> THEN Append(full, part) ELSE full
  <2>1. PICK rows : rows = Rows(layout, W)
    OBVIOUS
  <2>2. Len(rows) = Len(layout) /\ rows[n + 1] = part
    BY <1>3, <2>1, RowsAre DEF Part
  <2>3. Kept(rows, Full)[n + 1] = IF rows[n + 1] \in Full THEN Append(Kept(rows, Full)[n], rows[n + 1])
                                  ELSE Kept(rows, Full)[n]
    BY <1>1, <1>3, <2>2, KeptIs
  <2>4. QED
    BY <1>7, <2>1, <2>2, <2>3
<1>9. shown = Kept(Rows(layout, W), Full)[n + 1]
  BY <1>8 DEF Done
<1>10. rest # <<>> => Part(layout, W, n + 1, 0) = <<>>
  <2> SUFFICES ASSUME rest # <<>> PROVE Kept(layout[(n + 1) + 1], W)[0] = <<>>
    BY DEF Part
  <2>1. (n + 1) + 1 \in 1 .. Len(layout)
    BY <1>1, <1>2, <1>5
  <2>2. layout[(n + 1) + 1] \in Seq(Kinds)
    BY <1>1, <2>1
  <2>3. Len(layout[(n + 1) + 1]) \in Nat
    BY <2>2
  <2>4. QED
    BY <2>3, KeptIs
<1>11. Done(layout, W, n + 1, 0, rest, None, shown, lastTab)
  BY <1>9, <1>10 DEF Done
<1>12. QED
  BY <1>4, <1>6, <1>11

------------------------------------------------------------------------------
(* What the window shows. *)

ShownOf(ts, ps, s) ==
    [i \in 1 .. Len(ts) |-> [j \in 1 .. Len(ps[ts[i]]) |->
        IF ps[ts[i]][j] \in DOMAIN s THEN s[ps[ts[i]][j]] ELSE Local]]

LEMMA ShownIs ==
    /\ Shown = ShownOf(tabs, panes, session)
    /\ Shown' = ShownOf(tabs', panes', session')
BY DEF Shown, ShownOf, Kind

\* Tabs, panes and sessions of them, of their kinds.
Window(ts, ps, s) ==
    /\ ts \in Seq(Splitters) /\ IsInjective(ts)
    /\ ps \in [Splitters -> Seq(Panes)]
    /\ \A t \in DOMAIN s : s[t] \in Kinds
    /\ \A v \in Range(ts) : Range(ps[v]) \subseteq DOMAIN s

\* The kinds of the panes p.
RowOf(row, p, s) ==
    /\ row \in Seq(Kinds) /\ Len(row) = Len(p)
    /\ \A j \in 1 .. Len(p) : p[j] \in DOMAIN s /\ row[j] = s[p[j]]

LEMMA ShownOfIs ==
    ASSUME NEW ts, NEW ps, NEW s, Window(ts, ps, s)
    PROVE  /\ ShownOf(ts, ps, s) \in Seq(Seq(Kinds)) /\ Len(ShownOf(ts, ps, s)) = Len(ts)
           /\ \A i \in 1 .. Len(ts) : RowOf(ShownOf(ts, ps, s)[i], ps[ts[i]], s)
<1> DEFINE K == Seq(Kinds)
           row(i) == [j \in 1 .. Len(ps[ts[i]]) |->
                        IF ps[ts[i]][j] \in DOMAIN s THEN s[ps[ts[i]][j]] ELSE Local]
<1>1. Len(ts) \in Nat /\ \A i \in 1 .. Len(ts) : ts[i] \in Splitters /\ ts[i] \in Range(ts)
  BY DEF Window, Range
<1>2. ASSUME NEW i \in 1 .. Len(ts)
      PROVE  row(i) \in Seq(Kinds) /\ RowOf(row(i), ps[ts[i]], s)
  <2>1. PICK p : p = ps[ts[i]]
    OBVIOUS
  <2>2. p \in Seq(Panes) /\ Range(p) \subseteq DOMAIN s /\ ts[i] \in Splitters
    BY <1>1, <2>1 DEF Window
  <2>3. Len(p) \in Nat /\ DOMAIN p = 1 .. Len(p)
    BY <2>2
  <2>4. \A j \in 1 .. Len(p) : p[j] \in DOMAIN s
    BY <2>2, <2>3 DEF Range
  <2>5. \A j \in 1 .. Len(p) : s[p[j]] \in Kinds
    BY <2>4 DEF Window
  <2>6. PICK r : r = [j \in 1 .. Len(p) |-> s[p[j]]]
    OBVIOUS
  <2>7. r \in Seq(Kinds) /\ Len(r) = Len(p) /\ \A j \in 1 .. Len(p) : r[j] = s[p[j]]
    BY <2>3, <2>5, <2>6
  <2>8. row(i) = r
    BY <2>1, <2>4, <2>6
  <2>9. QED
    BY <2>1, <2>2, <2>4, <2>7, <2>8 DEF RowOf
<1>3. ShownOf(ts, ps, s) = [i \in 1 .. Len(ts) |-> row(i)]
  BY DEF ShownOf
<1> HIDE DEF row
<1>4. ShownOf(ts, ps, s) \in Seq(K) /\ Len(ShownOf(ts, ps, s)) = Len(ts)
  <2>1. \A i \in 1 .. Len(ts) : row(i) \in K
    BY <1>2
  <2> HIDE DEF K
  <2>2. QED
    BY <1>1, <1>3, <2>1
<1>5. \A i \in 1 .. Len(ts) : ShownOf(ts, ps, s)[i] = row(i)
  BY <1>3
<1>6. QED
  BY <1>2, <1>4, <1>5

\* A session that is in s is in r, and the same there.
Extends(s, r) == \A t \in DOMAIN s : t \in DOMAIN r /\ r[t] = s[t]

\* Of the same panes, the rows are the same.
LEMMA SameRow ==
    ASSUME NEW a, NEW b, NEW p \in Seq(Panes), NEW s, NEW r, Extends(s, r), RowOf(a, p, s), RowOf(b, p, r)
    PROVE  a = b
<1>1. /\ a \in Seq(Kinds) /\ b \in Seq(Kinds) /\ Len(a) = Len(p) /\ Len(b) = Len(p)
      /\ \A j \in 1 .. Len(a) : a[j] = b[j]
  BY DEF RowOf, Extends
<1>2. QED
  BY <1>1, SeqEqual

\* A new pane is shown where it was put.
Opened(s, r, t, k) ==
    /\ t \in Panes \ DOMAIN s /\ k \in Kinds
    /\ r = [x \in DOMAIN s \cup {t} |-> IF x = t THEN k ELSE s[x]]

\* With one more pane in a splitter.
With(ps, w, t) == [ps EXCEPT ![w] = Append(ps[w], t)]

LEMMA NewTabShown ==
    ASSUME NEW ts, NEW ps, NEW s, Window(ts, ps, s),
           NEW r, NEW t, NEW k, Opened(s, r, t, k),
           NEW w \in Splitters \ Range(ts), ps[w] = <<>>
    PROVE  ShownOf(Append(ts, w), With(ps, w, t), r) = Append(ShownOf(ts, ps, s), <<k>>)
<1> SUFFICES ASSUME NEW us, us = Append(ts, w), NEW qs, qs = [ps EXCEPT ![w] = Append(ps[w], t)]
             PROVE  ShownOf(us, qs, r) = Append(ShownOf(ts, ps, s), <<k>>)
  BY DEF With
<1>1. /\ t \in Panes \ DOMAIN s /\ k \in Kinds /\ DOMAIN r = DOMAIN s \cup {t} /\ r[t] = k
      /\ \A x \in DOMAIN s : x \in DOMAIN r /\ r[x] = s[x]
  BY DEF Opened
<1>2. /\ us \in Seq(Splitters) /\ IsInjective(us) /\ Range(us) = Range(ts) \cup {w}
      /\ Len(ts) \in Nat /\ Len(us) = Len(ts) + 1 /\ us[Len(ts) + 1] = w
      /\ \A i \in 1 .. Len(ts) : us[i] = ts[i] /\ ts[i] \in Range(ts) /\ ts[i] \in Splitters
  <2>1. ts \in Seq(Splitters) /\ IsInjective(ts)
    BY DEF Window
  <2>2. us \in Seq(Splitters) /\ IsInjective(us) /\ Range(us) = Range(ts) \cup {w}
    <3>1. w \in Splitters /\ w \notin Range(ts)
      OBVIOUS
    <3>2. /\ Append(ts, w) \in Seq(Splitters) /\ Range(Append(ts, w)) = Range(ts) \cup {w}
          /\ IsInjective(ts) /\ w \notin Range(ts) => IsInjective(Append(ts, w))
      BY <2>1, <3>1, AppendIs
    <3>3. QED
      BY <2>1, <3>1, <3>2
  <2>3. /\ Len(us) = Len(ts) + 1 /\ us[Len(ts) + 1] = w
        /\ \A i \in 1 .. Len(ts) : us[i] = ts[i]
    BY <2>1, AppendProperties
  <2>4. Len(ts) \in Nat /\ \A i \in 1 .. Len(ts) : ts[i] \in Range(ts) /\ ts[i] \in Splitters
    BY <2>1 DEF Range
  <2>5. QED
    BY <2>2, <2>3, <2>4
<1>3. PICK one : one = Append(ps[w], t)
  OBVIOUS
<1>4. one \in Seq(Panes) /\ Len(one) = 1 /\ one[1] = t /\ Range(one) = {t}
  <2>1. ps[w] \in Seq(Panes) /\ Len(ps[w]) = 0 /\ Range(ps[w]) = {}
    BY EmptySequence DEF Window
  <2>2. IsInjective(ps[w])
    BY EmptySequence
  <2>3. PICK p : p = ps[w]
    OBVIOUS
  <2>4. one = Append(p, t) /\ p \in Seq(Panes) /\ Len(p) = 0 /\ Range(p) = {}
    BY <1>3, <2>1, <2>3
  <2>5. Append(p, t) \in Seq(Panes) /\ Range(Append(p, t)) = Range(p) \cup {t}
    <3>1. t \in Panes /\ p \in Seq(Panes)
      BY <1>1, <2>4
    <3>2. QED
      BY <3>1, AppendIs
  <2>6. Len(Append(p, t)) = Len(p) + 1 /\ Append(p, t)[Len(p) + 1] = t
    BY <1>1, <2>4, AppendProperties
  <2>7. QED
    BY <2>4, <2>5, <2>6
<1>5. /\ qs \in [Splitters -> Seq(Panes)] /\ qs[w] = one
      /\ \A v \in Range(ts) : v # w /\ v \in Splitters /\ qs[v] = ps[v]
  <2>1. \A v \in Range(ts) : v # w /\ v \in Splitters
    BY RangeOfSeq DEF Window, Range
  <2>2. qs = [ps EXCEPT ![w] = one] /\ ps \in [Splitters -> Seq(Panes)]
    BY <1>3 DEF Window
  <2>3. QED
    BY <1>4, <2>1, <2>2
<1>6. Window(us, qs, r)
  <2>1. \A x \in DOMAIN r : r[x] \in Kinds
    BY <1>1 DEF Window
  <2>2. \A v \in Range(us) : Range(qs[v]) \subseteq DOMAIN r
    BY <1>1, <1>2, <1>4, <1>5 DEF Window
  <2>3. QED
    BY <1>2, <1>5, <2>1, <2>2 DEF Window
<1> DEFINE old == ShownOf(ts, ps, s)
           new == ShownOf(us, qs, r)
           both == Append(old, <<k>>)
<1>7. old \in Seq(Seq(Kinds)) /\ Len(old) = Len(ts) /\ new \in Seq(Seq(Kinds)) /\ Len(new) = Len(ts) + 1
  <2>1. old \in Seq(Seq(Kinds)) /\ Len(old) = Len(ts)
    BY ShownOfIs
  <2>2. new \in Seq(Seq(Kinds)) /\ Len(new) = Len(us)
    BY <1>6, ShownOfIs
  <2> HIDE DEF old, new
  <2>3. QED
    BY <1>2, <2>1, <2>2
<1>8. \A i \in 1 .. Len(ts) : new[i] = old[i]
  <2> TAKE i \in 1 .. Len(ts)
  <2>1. /\ i \in 1 .. Len(us) /\ us[i] = ts[i] /\ qs[us[i]] = ps[ts[i]]
        /\ ts[i] \in Splitters /\ ps \in [Splitters -> Seq(Panes)]
    <3>1. i \in 1 .. Len(us) /\ us[i] = ts[i] /\ ts[i] \in Range(ts) /\ ts[i] \in Splitters
      BY <1>2
    <3>2. qs[ts[i]] = ps[ts[i]]
      BY <1>5, <3>1
    <3>3. ps \in [Splitters -> Seq(Panes)]
      BY DEF Window
    <3>4. QED
      BY <3>1, <3>2, <3>3
  <2>2. RowOf(ShownOf(ts, ps, s)[i], ps[ts[i]], s)
    BY ShownOfIs
  <2>3. RowOf(ShownOf(us, qs, r)[i], qs[us[i]], r)
    BY <1>6, <2>1, ShownOfIs
  <2>4. Extends(s, r) /\ ps[ts[i]] \in Seq(Panes) /\ RowOf(ShownOf(us, qs, r)[i], ps[ts[i]], r)
    BY <1>1, <2>1, <2>3 DEF Extends
  <2>5. QED
    BY <2>2, <2>4, SameRow
<1>9. new[Len(ts) + 1] = <<k>>
  <2>1. Len(ts) + 1 \in 1 .. Len(us) /\ qs[us[Len(ts) + 1]] = one
    BY <1>2, <1>5
  <2>2. /\ new[Len(ts) + 1] \in Seq(Kinds) /\ Len(new[Len(ts) + 1]) = Len(one)
        /\ \A j \in 1 .. Len(one) : new[Len(ts) + 1][j] = r[one[j]]
    <3>1. RowOf(ShownOf(us, qs, r)[Len(ts) + 1], qs[us[Len(ts) + 1]], r)
      BY <1>6, <2>1, ShownOfIs
    <3>2. QED
      BY <2>1, <3>1 DEF RowOf
  <2> HIDE DEF new
  <2>3. PICK row : row = new[Len(ts) + 1]
    OBVIOUS
  <2>4. row \in Seq(Kinds) /\ Len(row) = 1 /\ row[1] = k
    BY <1>1, <1>4, <2>2, <2>3
  <2>5. row = <<k>>
    BY <1>1, <2>4
  <2>6. QED
    BY <2>3, <2>5
<1> HIDE DEF old, new
<1>10. /\ both \in Seq(Seq(Kinds)) /\ Len(both) = Len(ts) + 1 /\ both[Len(ts) + 1] = <<k>>
       /\ \A i \in 1 .. Len(ts) : both[i] = old[i]
  <2>1. <<k>> \in Seq(Kinds)
    BY <1>1
  <2>2. PICK e : e = <<k>>
    OBVIOUS
  <2>3. both = Append(old, e) /\ e \in Seq(Kinds)
    BY <2>1, <2>2
  <2>4. /\ both \in Seq(Seq(Kinds)) /\ Len(both) = Len(old) + 1 /\ both[Len(old) + 1] = e
        /\ \A i \in 1 .. Len(old) : both[i] = old[i]
    <3> DEFINE K == Seq(Kinds)
    <3>1. e \in K /\ old \in Seq(K)
      BY <1>7, <2>3
    <3> HIDE DEF K
    <3>2. /\ Append(old, e) \in Seq(K) /\ Len(Append(old, e)) = Len(old) + 1
          /\ Append(old, e)[Len(old) + 1] = e /\ \A i \in 1 .. Len(old) : Append(old, e)[i] = old[i]
      BY <3>1, AppendProperties
    <3>3. QED
      BY <2>3, <3>2 DEF K
  <2>5. QED
    BY <1>7, <2>2, <2>4
<1> HIDE DEF both
<1>11. \A i \in 1 .. Len(ts) + 1 : new[i] = both[i]
  <2>1. \A i \in 1 .. Len(ts) + 1 : i \in 1 .. Len(ts) \/ i = Len(ts) + 1
    BY <1>2
  <2>2. QED
    BY <1>8, <1>9, <1>10, <2>1
<1>12. new = both
  <2> DEFINE K == Seq(Kinds)
  <2>1. new \in Seq(K) /\ both \in Seq(K) /\ Len(new) = Len(both)
    BY <1>7, <1>10
  <2> HIDE DEF K
  <2>2. QED
    BY <1>7, <1>11, <2>1, SeqEqual
<1>13. QED
  BY <1>12 DEF new, both, old

LastOf(ts, w) == w \in Range(ts) /\ w = ts[Len(ts)]

LEMMA NewPaneShown ==
    ASSUME NEW ts, NEW ps, NEW s, Window(ts, ps, s),
           NEW r, NEW t, NEW k, Opened(s, r, t, k),
           NEW w, LastOf(ts, w),
           NEW full \in Seq(Seq(Kinds)), NEW part \in Seq(Kinds), ShownOf(ts, ps, s) = Append(full, part)
    PROVE  ShownOf(ts, With(ps, w, t), r) = Append(full, Append(part, k))
<1> SUFFICES ASSUME NEW qs, qs = [ps EXCEPT ![w] = Append(ps[w], t)]
             PROVE  ShownOf(ts, qs, r) = Append(full, Append(part, k))
  BY DEF With
<1>0. w \in Range(ts) /\ w = ts[Len(ts)]
  BY DEF LastOf
<1>1. /\ t \in Panes \ DOMAIN s /\ k \in Kinds /\ DOMAIN r = DOMAIN s \cup {t} /\ r[t] = k
      /\ \A x \in DOMAIN s : x \in DOMAIN r /\ r[x] = s[x]
  BY DEF Opened
<1>2. /\ Len(ts) \in Nat /\ DOMAIN ts = 1 .. Len(ts) /\ \A i, j \in 1 .. Len(ts) : ts[i] = ts[j] => i = j
      /\ \A i \in 1 .. Len(ts) : ts[i] \in Range(ts) /\ ts[i] \in Splitters
  BY DEF Window, IsInjective, Range
<1>3. PICK n \in 1 .. Len(ts) : n = Len(ts) /\ w = ts[n]
  <2>1. \E i \in DOMAIN ts : ts[i] = w
    BY <1>0 DEF Range
  <2>2. Len(ts) \in 1 .. Len(ts)
    BY <1>2, <2>1
  <2>3. QED
    BY <1>0, <2>2
<1>4. PICK p : p = ps[w]
  OBVIOUS
<1>5. p \in Seq(Panes) /\ Len(p) \in Nat /\ w \in Splitters /\ Range(p) \subseteq DOMAIN s
  BY <1>0, <1>2, <1>3, <1>4 DEF Window
<1>6. PICK q : q = Append(p, t)
  OBVIOUS
<1>7. /\ q \in Seq(Panes) /\ Range(q) = Range(p) \cup {t} /\ Len(q) = Len(p) + 1
      /\ q[Len(p) + 1] = t /\ \A j \in 1 .. Len(p) : q[j] = p[j]
  <2>1. q \in Seq(Panes) /\ Range(q) = Range(p) \cup {t}
    BY <1>1, <1>5, <1>6, AppendIs
  <2>2. Len(q) = Len(p) + 1 /\ q[Len(p) + 1] = t /\ \A j \in 1 .. Len(p) : q[j] = p[j]
    BY <1>1, <1>5, <1>6, AppendProperties
  <2>3. QED
    BY <2>1, <2>2
<1>8. qs \in [Splitters -> Seq(Panes)] /\ qs[w] = q /\ \A v \in Splitters \ {w} : qs[v] = ps[v]
  <2>1. qs = [ps EXCEPT ![w] = q] /\ ps \in [Splitters -> Seq(Panes)]
    BY <1>4, <1>6 DEF Window
  <2>2. QED
    BY <1>5, <1>7, <2>1
<1>9. Window(ts, qs, r)
  <2>1. \A x \in DOMAIN r : r[x] \in Kinds
    BY <1>1 DEF Window
  <2>2. \A v \in Range(ts) : v \in Splitters
    BY RangeOfSeq DEF Window, Range
  <2>3. \A v \in Range(ts) : Range(qs[v]) \subseteq DOMAIN r
    BY <1>1, <1>5, <1>7, <1>8, <2>2 DEF Window
  <2>4. QED
    BY <1>8, <2>1, <2>3 DEF Window
<1> DEFINE old == ShownOf(ts, ps, s)
           new == ShownOf(ts, qs, r)
           longer == Append(part, k)
           both == Append(full, longer)
           K == Seq(Kinds)
<1>10. old \in Seq(K) /\ Len(old) = n /\ new \in Seq(K) /\ Len(new) = n
  BY <1>3, <1>9, ShownOfIs
<1>11. /\ longer \in K /\ Len(part) \in Nat /\ Len(longer) = Len(part) + 1 /\ longer[Len(part) + 1] = k
       /\ \A j \in 1 .. Len(part) : longer[j] = part[j]
  BY <1>1, AppendProperties
<1>12. \A i \in 1 .. n : i # n => new[i] = old[i]
  <2> TAKE i \in 1 .. n
  <2> HAVE i # n
  <2>1. /\ i \in 1 .. Len(ts) /\ qs[ts[i]] = ps[ts[i]]
        /\ ts[i] \in Splitters /\ ps \in [Splitters -> Seq(Panes)]
    BY <1>2, <1>3, <1>8 DEF Window
  <2>2. RowOf(ShownOf(ts, ps, s)[i], ps[ts[i]], s)
    BY <2>1, ShownOfIs
  <2>3. RowOf(ShownOf(ts, qs, r)[i], qs[ts[i]], r)
    BY <1>9, <2>1, ShownOfIs
  <2>4. Extends(s, r) /\ ps[ts[i]] \in Seq(Panes) /\ RowOf(ShownOf(ts, qs, r)[i], ps[ts[i]], r)
    BY <1>1, <2>1, <2>3 DEF Extends
  <2>5. QED
    BY <2>2, <2>4, SameRow
<1>13. /\ old[n] \in Seq(Kinds) /\ Len(old[n]) = Len(p)
       /\ \A j \in 1 .. Len(p) : p[j] \in DOMAIN s /\ old[n][j] = s[p[j]]
  <2>1. RowOf(ShownOf(ts, ps, s)[n], ps[ts[n]], s)
    BY ShownOfIs
  <2>2. QED
    BY <1>3, <1>4, <2>1 DEF RowOf
<1>14. new[n] \in Seq(Kinds) /\ Len(new[n]) = Len(q) /\ \A j \in 1 .. Len(q) : new[n][j] = r[q[j]]
  <2>1. RowOf(ShownOf(ts, qs, r)[n], qs[ts[n]], r)
    BY <1>9, ShownOfIs
  <2>2. QED
    BY <1>3, <1>8, <2>1 DEF RowOf
<1> HIDE DEF new, longer
<1>15. /\ Len(full) \in Nat /\ n = Len(full) + 1 /\ old[n] = part
       /\ \A i \in 1 .. Len(full) : old[i] = full[i]
  <2>1. part \in K /\ full \in Seq(K)
    OBVIOUS
  <2> HIDE DEF K, old
  <2>2. /\ Len(Append(full, part)) = Len(full) + 1 /\ Append(full, part)[Len(full) + 1] = part
        /\ \A i \in 1 .. Len(full) : Append(full, part)[i] = full[i]
    BY <2>1, AppendProperties
  <2>3. old = Append(full, part)
    BY DEF old
  <2>4. QED
    BY <1>10, <2>1, <2>2, <2>3
<1> HIDE DEF old
<1>16. /\ both \in Seq(K) /\ Len(both) = n /\ both[n] = longer
       /\ \A i \in 1 .. Len(full) : both[i] = full[i]
  <2>1. full \in Seq(K) /\ longer \in K
    BY <1>11
  <2> HIDE DEF K
  <2>2. QED
    BY <1>15, <2>1, AppendProperties
<1>17. new[n] = longer
  <2>1. PICK row : row = new[n]
    OBVIOUS
  <2>2. row \in Seq(Kinds) /\ Len(row) = Len(part) + 1 /\ \A j \in 1 .. Len(q) : row[j] = r[q[j]]
    BY <1>7, <1>13, <1>14, <1>15, <2>1
  <2>3. Len(p) = Len(part) /\ \A j \in 1 .. Len(p) : p[j] \in DOMAIN s /\ part[j] = s[p[j]]
    BY <1>13, <1>15
  <2>4. ASSUME NEW j \in 1 .. Len(part) + 1 PROVE row[j] = longer[j]
    <3>1. CASE j = Len(part) + 1
      <4>1. j \in 1 .. Len(q) /\ q[j] = t
        BY <1>7, <1>11, <2>3, <3>1
      <4>2. QED
        BY <1>1, <1>11, <2>2, <3>1, <4>1
    <3>2. CASE j # Len(part) + 1
      <4>1. j \in 1 .. Len(part) /\ j \in 1 .. Len(p) /\ j \in 1 .. Len(q)
        BY <1>7, <1>11, <2>3, <3>2
      <4>2. row[j] = r[q[j]] /\ q[j] = p[j] /\ p[j] \in DOMAIN s /\ part[j] = s[p[j]]
        BY <1>7, <2>2, <2>3, <4>1
      <4>3. QED
        BY <1>1, <1>11, <4>1, <4>2
    <3>3. QED
      BY <3>1, <3>2
  <2>5. row = longer
    BY <1>11, <2>2, <2>4, SeqEqual
  <2>6. QED
    BY <2>1, <2>5
<1> HIDE DEF both
<1>18. \A i \in 1 .. n : new[i] = both[i]
  <2>1. \A i \in 1 .. n : i = n \/ (i # n /\ i \in 1 .. Len(full))
    BY <1>15
  <2>2. QED
    BY <1>12, <1>15, <1>16, <1>17, <2>1
<1>19. new = both
  <2> HIDE DEF K
  <2>1. QED
    BY <1>10, <1>16, <1>18, SeqEqual
<1>20. QED
  BY <1>19 DEF new, both, longer

------------------------------------------------------------------------------
(* What restoring has done and what is left of it. *)

Wants == {k \in Kinds : Wanted(k)}

Progress(layout, W, left, current, shown, lastTab) ==
    \E n, m \in Nat : Left(layout, n, m, left) /\ Done(layout, W, n, m, left, current, shown, lastTab)

SessionKinds(s) == \A t \in DOMAIN s : s[t] \in Kinds

LayoutInv ==
    /\ saved \in Seq(Seq(Kinds)) /\ todo \in Seq(Seq(Kinds))
    /\ known \subseteq Profiles /\ SessionKinds(session)
    /\ phase = "off" => tabs = <<>> /\ ~box /\ workspace = None
    /\ box => ~clean
    /\ phase = "restoring" /\ clean /\ restore =>
          Progress(saved, Wants, todo, workspace, Shown, tabs[Len(tabs)])

LEMMA WindowIs == ASSUME TabsInv, LayoutInv PROVE Window(tabs, panes, session)
<1>1. \A v \in Range(tabs) : Range(panes[v]) \subseteq DOMAIN session
  BY DEF TabsInv, SessionsMatchPanes
<1>2. QED
  BY <1>1 DEF TabsInv, LayoutInv, Window, SessionKinds

\* The layout that an orderly exit saves.
LEMMA LayoutIs == ASSUME TabsInv, LayoutInv PROVE Layout \in Seq(Seq(Kinds))
<1>1. Shown \in Seq(Seq(Kinds))
  BY WindowIs, ShownOfIs, ShownIs
<1>2. Layout \in Seq(Seq(Kinds \cap (Kinds \ {Transient})) \ {<<>>})
  BY <1>1, SelectIs DEF Layout
<1>3. Seq(Kinds \cap (Kinds \ {Transient})) \ {<<>>} \subseteq Seq(Kinds)
  OBVIOUS
<1> DEFINE A == Seq(Kinds \cap (Kinds \ {Transient})) \ {<<>>}
           B == Seq(Kinds)
<1>4. Layout \in Seq(A) /\ A \subseteq B
  BY <1>2, <1>3
<1> HIDE DEF A, B
<1>5. Layout \in Seq(B)
  BY <1>4
<1>6. QED
  BY <1>5 DEF B

LEMMA LayoutInit == Init => LayoutInv
<1> SUFFICES ASSUME Init PROVE LayoutInv
  OBVIOUS
<1>1. /\ saved = <<>> /\ todo = <<>> /\ session = <<>> /\ tabs = <<>> /\ known = Profiles
      /\ phase = "off" /\ ~box /\ workspace = None
  BY DEF Init
<1>2. DOMAIN <<>> = {} /\ <<>> \in Seq(Seq(Kinds))
  BY EmptySequence
<1>3. SessionKinds(session)
  BY <1>1, <1>2 DEF SessionKinds
<1>4. saved \in Seq(Seq(Kinds)) /\ todo \in Seq(Seq(Kinds))
  BY <1>1, <1>2
<1>5. QED
  BY <1>1, <1>3, <1>4 DEF LayoutInv

\* Steps while nothing is restored, or after a message box.
LEMMA ElsewhereStep ==
    ASSUME LayoutInv, phase # "off", ~(phase = "restoring" /\ clean), phase' = phase,
           UNCHANGED <<saved, todo, box, clean>>, known' \subseteq known, SessionKinds(session')
    PROVE  LayoutInv'
BY DEF LayoutInv

\* What opening and closing do to the kinds.
LEMMA AddPaneKinds ==
    ASSUME SessionKinds(session), NEW w, NEW t, NEW k \in Kinds, AddPane(w, t, k)
    PROVE  SessionKinds(session')
<1>1. session' = [x \in DOMAIN session \cup {t} |-> IF x = t THEN k ELSE session[x]]
  BY DEF AddPane
<1>2. QED
  BY <1>1 DEF SessionKinds

LEMMA FewerKinds ==
    ASSUME SessionKinds(session), NEW D, D \subseteq DOMAIN session, session' = [t \in D |-> session[t]]
    PROVE  SessionKinds(session')
BY DEF SessionKinds

LEMMA WindowStep ==
    ASSUME LayoutInv,
           \/ NewLocal \/ Split \/ ChangeSettings
           \/ \E p \in Profiles : ConnectSelected(p) \/ ConnectSelectedTunnels(p) \/ DeleteProfile(p)
           \/ \E w \in Splitters : CloseTab(w) \/ TimerFires(w)
           \/ \E t \in Panes : Exit(t)
    PROVE  LayoutInv'
<1>0. SessionKinds(session) /\ Local \in Kinds /\ Transient \in Kinds /\ Profiles \subseteq Kinds
  BY DEF LayoutInv, Kinds
<1>1. CASE NewLocal
  <2>1. PICK w \in FreshSplitters, t \in FreshPanes : AddTab(w, t, Local)
    BY <1>1 DEF NewLocal
  <2>2. SessionKinds(session')
    BY <1>0, <2>1, AddPaneKinds DEF AddTab
  <2>3. QED
    BY <1>1, <2>2, ElsewhereStep DEF NewLocal, settingVars, restoreVars
<1>2. CASE Split
  <2>1. SessionKinds(session')
    <3>1. CASE tabs # <<>>
      <4>1. PICK w \in Range(tabs), t \in FreshPanes : AddPane(w, t, Local)
        BY <1>2, <3>1 DEF Split
      <4>2. QED
        BY <1>0, <4>1, AddPaneKinds
    <3>2. CASE tabs = <<>>
      <4>1. PICK t, u : session' = [x \in {t, u} |-> Local]
        BY <1>2, <3>2 DEF Split
      <4>2. QED
        BY <1>0, <4>1 DEF SessionKinds
    <3>3. QED
      BY <3>1, <3>2
  <2>2. QED
    BY <1>2, <2>1, ElsewhereStep DEF Split, settingVars, restoreVars
<1>3. CASE ChangeSettings \/ \E p \in Profiles : DeleteProfile(p)
  <2>1. session' = session
    BY <1>3 DEF ChangeSettings, DeleteProfile, tabVars
  <2>2. QED
    BY <1>0, <1>3, <2>1, ElsewhereStep DEF ChangeSettings, DeleteProfile, restoreVars
<1>4. CASE \E p \in Profiles : ConnectSelected(p) \/ ConnectSelectedTunnels(p)
  <2>1. PICK p \in Profiles, k \in Kinds : Open(p, k)
    BY <1>0, <1>4 DEF ConnectSelected, ConnectSelectedTunnels
  <2>2. PICK w \in FreshSplitters, t \in FreshPanes : AddTab(w, t, k)
    BY <2>1 DEF Open
  <2>3. SessionKinds(session')
    BY <1>0, <2>2, AddPaneKinds DEF AddTab
  <2>4. QED
    BY <2>1, <2>3, ElsewhereStep DEF Open, settingVars, restoreVars
<1>5. CASE \E w \in Splitters : CloseTab(w)
  <2>1. PICK w \in Splitters : CloseTab(w)
    BY <1>5
  <2>2. SessionKinds(session')
    BY <1>0, <2>1, FewerKinds DEF CloseTab, CloseTerminal
  <2>3. QED
    BY <2>1, <2>2, ElsewhereStep DEF CloseTab, settingVars, restoreVars
<1>6. Loop => phase # "off" /\ ~(phase = "restoring" /\ clean)
  BY DEF Loop, LayoutInv
<1>7. CASE \E w \in Splitters : TimerFires(w)
  <2>1. PICK w \in Splitters : TimerFires(w)
    BY <1>7
  <2>2. SessionKinds(session')
    BY <1>0, <2>1, FewerKinds DEF TimerFires, Idle, CloseTerminal
  <2>3. QED
    BY <1>6, <2>1, <2>2, ElsewhereStep DEF TimerFires, Idle, settingVars, restoreVars
<1>8. CASE \E t \in Panes : Exit(t)
  <2>1. PICK t \in Panes : Exit(t)
    BY <1>8
  <2>2. SessionKinds(session')
    BY <1>0, <2>1, FewerKinds DEF Exit, PaneExits
  <2>3. QED
    BY <1>6, <2>1, <2>2, ElsewhereStep DEF Exit, PaneExits, settingVars, restoreVars
<1>9. QED
  BY <1>1, <1>2, <1>3, <1>4, <1>5, <1>7, <1>8

LEMMA LeaveStep == ASSUME TabsInv, LayoutInv, Quit \/ Crash PROVE LayoutInv'
<1>1. DOMAIN <<>> = {} /\ <<>> \in Seq(Seq(Kinds))
  BY EmptySequence
<1>2. /\ phase' = "off" /\ tabs' = <<>> /\ session' = <<>> /\ todo' = <<>> /\ workspace' = None
      /\ box' = FALSE /\ known' = known
  BY DEF Quit, Crash, Gone
<1>3. saved' \in Seq(Seq(Kinds))
  BY LayoutIs DEF Quit, Crash, LayoutInv
<1>4. todo' \in Seq(Seq(Kinds)) /\ SessionKinds(session')
  BY <1>1, <1>2 DEF SessionKinds
<1>5. QED
  BY <1>2, <1>3, <1>4 DEF LayoutInv

LEMMA StartStep == ASSUME LayoutInv, Start PROVE LayoutInv'
<1>1. /\ phase = "off" /\ phase' = "restoring" /\ todo' = IF restore THEN saved ELSE <<>>
      /\ UNCHANGED <<tabs, panes, session, saved, restore, reconnect, known, workspace, box>>
  BY DEF Start, tabVars, settingVars
<1>2. /\ tabs = <<>> /\ ~box /\ workspace = None /\ saved \in Seq(Seq(Kinds))
      /\ known \subseteq Profiles /\ SessionKinds(session)
  BY <1>1 DEF LayoutInv
<1>3. todo' \in Seq(Seq(Kinds))
  BY <1>1, <1>2, EmptySequence
<1>4. Shown' = <<>>
  <2>1. tabs' = <<>> /\ Len(<<>>) = 0
    BY <1>1, <1>2
  <2>2. QED
    BY <2>1 DEF Shown
<1>5. ASSUME restore
      PROVE  Left(saved, 0, 0, saved) /\ Done(saved, Wants, 0, 0, saved, None, <<>>, tabs'[Len(tabs')])
  <2> DEFINE K == Seq(Kinds)
  <2>1. saved \in Seq(K) /\ Len(saved) \in Nat /\ \A i \in 1 .. Len(saved) : saved[i] \in K
    <3>1. saved \in Seq(K)
      BY <1>2
    <3> HIDE DEF K
    <3>2. QED
      BY <3>1
  <2>2. ASSUME saved # <<>>
        PROVE  /\ Len(saved[0 + 1]) \in Nat /\ saved[1] = saved[0 + 1]
               /\ Kept(saved[0 + 1], Wants)[0] = <<>>
    <3>1. 1 \in 1 .. Len(saved) /\ 0 + 1 = 1
      <4> HIDE DEF K
      <4>1. QED
        BY <2>1, <2>2
    <3>2. PICK row : row = saved[1]
      OBVIOUS
    <3>3. Len(row) \in Nat
      BY <2>1, <3>1, <3>2
    <3>4. Kept(row, Wants)[0] = <<>>
      BY <3>3, KeptIs
    <3>5. QED
      BY <3>1, <3>2, <3>3, <3>4
  <2>3. Kept(Rows(saved, Wants), Full)[0] = <<>>
    <3>1. PICK rows : rows = Rows(saved, Wants)
      OBVIOUS
    <3>2. Len(rows) \in Nat
      BY <1>2, <2>1, <3>1, RowsAre
    <3>3. QED
      BY <3>1, <3>2, KeptIs
  <2>4. Left(saved, 0, 0, saved)
    <3>1. 0 \in 0 .. Len(saved) /\ Len(saved) = Len(saved) - 0 /\ \A i \in 2 .. Len(saved) : 0 + i = i
      BY <2>1
    <3>2. ASSUME saved # <<>>
          PROVE  /\ 0 \in 0 .. Len(saved[0 + 1]) /\ Len(saved[1]) = Len(saved[0 + 1]) - 0
                 /\ \A i \in 1 .. Len(saved[1]) : saved[1][i] = saved[0 + 1][0 + i]
      <4>1. PICK row : row = saved[1]
        OBVIOUS
      <4>2. saved[0 + 1] = row /\ Len(row) \in Nat
        BY <2>2, <3>2, <4>1
      <4>3. \A i \in 1 .. Len(row) : 0 + i = i
        BY <4>2
      <4>4. 0 \in 0 .. Len(row) /\ Len(row) = Len(row) - 0
        BY <4>2
      <4>5. QED
        BY <4>1, <4>2, <4>3, <4>4
    <3>3. QED
      BY <3>1, <3>2 DEF Left
  <2>5. QED
    BY <2>2, <2>3, <2>4 DEF Done, Part
<1>6. Wants' = Wants
  BY <1>1 DEF Wants, Wanted
<1>7. restore' => Progress(saved', Wants', todo', workspace', Shown', tabs'[Len(tabs')])
  BY <1>1, <1>2, <1>4, <1>5, <1>6 DEF Progress
<1>8. QED
  BY <1>1, <1>2, <1>3, <1>7 DEF LayoutInv

\* Steps of restoring: the settings and the profiles stay.
LEMMA SameWants == ASSUME UNCHANGED <<known, reconnect>> PROVE Wants' = Wants
BY DEF Wants, Wanted

\* The pane that restoring has come to is the next one of the layout.
LEMMA AtPaneIs ==
    ASSUME LayoutInv, AtPane, PaneDone
    PROVE  /\ todo # <<>> /\ todo[1] # <<>> /\ Current = FirstPane(todo) /\ Current \in Kinds
           /\ todo' = AfterPane(todo) /\ todo' \in Seq(Seq(Kinds)) /\ todo' # <<>>
           /\ Current \in Wants <=> Wanted(Current)
<1>1. todo # <<>> /\ todo[1] # <<>> /\ Current = FirstPane(todo) /\ todo' = AfterPane(todo)
  BY DEF AtPane, PaneDone, Current, FirstPane, AfterPane
<1>2. todo \in Seq(Seq(Kinds))
  BY DEF LayoutInv
<1> DEFINE K == Seq(Kinds)
<1>3. Len(todo) \in Nat /\ Len(todo) >= 1 /\ todo[1] \in K /\ todo \in Seq(K)
  <2>1. todo \in Seq(K)
    BY <1>2
  <2> HIDE DEF K
  <2>2. QED
    BY <1>1, <2>1
<1>4. PICK row : row = todo[1]
  OBVIOUS
<1>5. row \in Seq(Kinds) /\ row # <<>> /\ Tail(row) \in Seq(Kinds) /\ row[1] \in Kinds
  BY <1>1, <1>3, <1>4
<1>6. AfterPane(todo) \in Seq(K) /\ Len(AfterPane(todo)) = Len(todo)
  <2>1. Tail(todo[1]) \in K
    BY <1>4, <1>5
  <2> HIDE DEF K
  <2>2. QED
    BY <1>3, <2>1 DEF AfterPane
<1>7. AfterPane(todo) # <<>> /\ AfterPane(todo) \in Seq(Seq(Kinds))
  <2>1. AfterPane(todo) \in Seq(Seq(Kinds))
    BY <1>6
  <2>2. Len(<<>>) = 0 /\ Len(AfterPane(todo)) # 0
    BY <1>3, <1>6
  <2>3. QED
    BY <2>1, <2>2
<1>8. Current \in Kinds /\ (Current \in Wants <=> Wanted(Current))
  BY <1>1, <1>4, <1>5 DEF Wants, FirstPane
<1>9. QED
  BY <1>1, <1>7, <1>8

LEMMA SkipStep == ASSUME LayoutInv, SkipPane PROVE LayoutInv'
<1>1. /\ AtPane /\ PaneDone /\ ~Wanted(Current) /\ phase = "restoring"
      /\ UNCHANGED <<phase, tabs, panes, session, saved, restore, reconnect, known, workspace, box, clean>>
  BY DEF SkipPane, AtPane, tabVars, settingVars
<1>2. /\ todo # <<>> /\ todo[1] # <<>> /\ Current = FirstPane(todo) /\ Current \notin Wants
      /\ todo' = AfterPane(todo) /\ todo' \in Seq(Seq(Kinds)) /\ todo' # <<>>
  BY <1>1, AtPaneIs
<1>3. Wants' = Wants /\ Shown' = Shown
  BY <1>1, SameWants, ShownIs
<1>4. ASSUME clean, restore
      PROVE  Progress(saved, Wants, todo', workspace, Shown, tabs[Len(tabs)])
  <2>1. PICK n, m \in Nat :
           Left(saved, n, m, todo) /\ Done(saved, Wants, n, m, todo, workspace, Shown, tabs[Len(tabs)])
    BY <1>1, <1>4 DEF LayoutInv, Progress
  <2>2. saved \in Seq(Seq(Kinds)) /\ todo \in Seq(Seq(Kinds))
    BY DEF LayoutInv
  <2>3. PICK after : after = todo'
    OBVIOUS
  <2>4. after = AfterPane(todo)
    BY <1>2, <2>3
  <2>5. /\ Left(saved, n, m + 1, after)
        /\ Part(saved, Wants, n, m + 1) = Part(saved, Wants, n, m)
    <3>1. todo # <<>> /\ todo[1] # <<>> /\ FirstPane(todo) \notin Wants
      BY <1>2
    <3>2. Left(saved, n, m + 1, after) /\ Longer(saved, Wants, n, m, FirstPane(todo))
      BY <2>1, <2>2, <2>4, <3>1, PaneIsDone
    <3>3. QED
      BY <3>1, <3>2 DEF Longer
  <2>6. Done(saved, Wants, n, m + 1, after, workspace, Shown, tabs[Len(tabs)])
    BY <1>2, <2>1, <2>3, <2>5 DEF Done
  <2>7. m + 1 \in Nat
    OBVIOUS
  <2>8. QED
    BY <2>1, <2>3, <2>5, <2>6, <2>7 DEF Progress
<1>5. QED
  BY <1>1, <1>2, <1>3, <1>4 DEF LayoutInv

\* A pane that is restored is shown behind those that were.
LEMMA RestoredIsShown ==
    ASSUME TabsInv, LayoutInv, RestorePane, clean, restore,
           Progress(saved, Wants, todo, workspace, Shown, tabs[Len(tabs)])
    PROVE  /\ phase' = phase
           /\ Progress(saved, Wants, todo', workspace', Shown', tabs'[Len(tabs')])
<1>1. AtPane /\ PaneDone /\ Wanted(Current)
  BY DEF RestorePane
<1>2. /\ todo # <<>> /\ todo[1] # <<>> /\ Current = FirstPane(todo) /\ Current \in Kinds /\ Current \in Wants
      /\ todo' = AfterPane(todo) /\ todo' # <<>>
  BY <1>1, AtPaneIs
<1>3. PICK n, m \in Nat :
         Left(saved, n, m, todo) /\ Done(saved, Wants, n, m, todo, workspace, Shown, tabs[Len(tabs)])
  BY DEF Progress
<1>4. saved \in Seq(Seq(Kinds)) /\ todo \in Seq(Seq(Kinds)) /\ SessionKinds(session)
  BY DEF LayoutInv
<1>5. PICK after : after = todo'
  OBVIOUS
<1>6. after = AfterPane(todo)
  BY <1>2, <1>5
<1>7. PICK full, part : full = Kept(Rows(saved, Wants), Full)[n] /\ part = Part(saved, Wants, n, m)
  OBVIOUS
<1>8. /\ Left(saved, n, m + 1, after) /\ part \in Seq(Kinds)
      /\ Part(saved, Wants, n, m + 1) = Append(part, Current)
  <2>1. Left(saved, n, m + 1, after) /\ Longer(saved, Wants, n, m, FirstPane(todo))
    BY <1>2, <1>3, <1>4, <1>6, PaneIsDone
  <2>2. FirstPane(todo) \in Wants /\ Current = FirstPane(todo)
    BY <1>2
  <2>3. QED
    BY <1>7, <2>1, <2>2 DEF Longer
<1>9. full \in Seq(Seq(Kinds))
  <2>1. n \in 0 .. Len(saved)
    BY <1>3 DEF Left
  <2>2. QED
    BY <1>4, <1>7, <2>1, RowsAre
<1>10. \/ workspace = None /\ Shown = full /\ part = <<>>
       \/ /\ workspace # None /\ workspace = tabs[Len(tabs)]
          /\ part # <<>> /\ Shown = Append(full, part)
  BY <1>2, <1>3, <1>7 DEF Done
<1>11. Append(part, Current) # <<>>
  <2>1. part \in Seq(Kinds) /\ Current \in Kinds
    BY <1>2, <1>8
  <2>2. QED
    BY <2>1, AppendProperties
<1>12. ASSUME workspace' # None, workspace' = tabs'[Len(tabs')], Shown' = Append(full, Append(part, Current))
       PROVE  Progress(saved, Wants, todo', workspace', Shown', tabs'[Len(tabs')])
  <2>1. Done(saved, Wants, n, m + 1, after, workspace', Shown', tabs'[Len(tabs')])
    BY <1>2, <1>5, <1>7, <1>8, <1>11, <1>12 DEF Done
  <2>2. m + 1 \in Nat
    OBVIOUS
  <2>3. QED
    BY <1>5, <1>8, <2>1, <2>2 DEF Progress
<1>13. Window(tabs, panes, session)
  BY WindowIs
<1>14. CASE workspace = None
  <2>1. PICK w \in FreshSplitters, t \in FreshPanes : AddTab(w, t, Current) /\ workspace' = w /\ UNCHANGED phase
    BY <1>14 DEF RestorePane
  <2>2. w \in Splitters \ Range(tabs) /\ panes[w] = <<>> /\ w # None
    BY <2>1, FreshIs, TerminalsAssumption DEF TabsInv, SessionsMatchPanes
  <2>3. Opened(session, session', t, Current)
    BY <1>2, <2>1, FreshIs DEF Opened, AddTab, AddPane
  <2>4. tabs' = Append(tabs, w) /\ panes' = With(panes, w, t)
    BY <2>1 DEF AddTab, AddPane, With
  <2>5. ShownOf(tabs', panes', session') = Append(ShownOf(tabs, panes, session), <<Current>>)
    BY <1>13, <2>2, <2>3, <2>4, NewTabShown
  <2>6. Append(part, Current) = <<Current>> /\ Shown = full
    BY <1>10, <1>14
  <2>7. Shown' = Append(full, Append(part, Current))
    BY <2>5, <2>6, ShownIs
  <2>8. tabs'[Len(tabs')] = w
    <3>1. tabs \in Seq(Splitters) /\ w \in Splitters
      BY <2>2 DEF TabsInv
    <3>2. QED
      BY <2>4, <3>1, AppendProperties
  <2>9. QED
    BY <1>12, <2>1, <2>2, <2>7, <2>8
<1>15. CASE workspace # None
  <2>1. workspace = tabs[Len(tabs)] /\ Shown = Append(full, part)
    BY <1>10, <1>15
  <2>2. workspace \in Range(tabs)
    <3>1. Shown \in Seq(Seq(Kinds)) /\ Len(Shown) = Len(tabs)
      BY <1>13, ShownIs, ShownOfIs
    <3>2. Len(Append(full, part)) = Len(full) + 1 /\ Len(full) \in Nat
      <4> DEFINE K == Seq(Kinds)
      <4>1. full \in Seq(K) /\ part \in K
        BY <1>8, <1>9
      <4> HIDE DEF K
      <4>2. QED
        BY <4>1, AppendProperties
    <3>3. tabs \in Seq(Splitters)
      BY DEF TabsInv
    <3>4. Len(tabs) = Len(full) + 1
      BY <2>1, <3>1, <3>2
    <3>5. Len(tabs) \in DOMAIN tabs
      BY <3>2, <3>3, <3>4
    <3>6. QED
      BY <2>1, <3>5 DEF Range
  <2>3. PICK t \in FreshPanes : AddPane(workspace, t, Current) /\ UNCHANGED <<phase, tabs, workspace>>
    BY <1>15, <2>2 DEF RestorePane
  <2>4. Opened(session, session', t, Current)
    BY <1>2, <2>3, FreshIs DEF Opened, AddPane
  <2>5. panes' = With(panes, workspace, t) /\ LastOf(tabs, workspace)
    BY <2>1, <2>2, <2>3 DEF AddPane, With, LastOf
  <2>6. ShownOf(tabs, panes, session) = Append(full, part)
    BY <2>1, ShownIs
  <2>7. ShownOf(tabs, panes', session') = Append(full, Append(part, Current))
    <3>1. part \in Seq(Kinds)
      BY <1>8
    <3>2. QED
      BY <1>9, <1>13, <2>4, <2>5, <2>6, <3>1, NewPaneShown
  <2>8. Shown' = Append(full, Append(part, Current))
    BY <2>3, <2>7, ShownIs
  <2>9. QED
    BY <1>12, <1>15, <2>1, <2>3, <2>8
<1>16. QED
  BY <1>14, <1>15

LEMMA RestoreStep == ASSUME TabsInv, LayoutInv, RestorePane PROVE LayoutInv'
<1>1. /\ AtPane /\ PaneDone /\ phase = "restoring" /\ ~box
      /\ UNCHANGED <<saved, restore, reconnect, known, box, clean>>
  BY DEF RestorePane, AtPane, settingVars
<1>2. Current \in Kinds /\ todo' \in Seq(Seq(Kinds))
  BY <1>1, AtPaneIs
<1>3. SessionKinds(session) /\ phase' # "off"
  BY <1>1 DEF LayoutInv, RestorePane
<1>4. SessionKinds(session')
  <2>1. CASE session' = session
    BY <1>3, <2>1
  <2>2. CASE session' # session
    <3>1. \E w, t : AddPane(w, t, Current)
      BY <2>2 DEF RestorePane, AddTab
    <3>2. QED
      BY <1>2, <1>3, <3>1, AddPaneKinds
  <2>3. QED
    BY <2>1, <2>2
<1>5. Wants' = Wants
  BY <1>1, SameWants
<1>6. ASSUME clean, restore
      PROVE  Progress(saved, Wants, todo', workspace', Shown', tabs'[Len(tabs')])
  <2>1. Progress(saved, Wants, todo, workspace, Shown, tabs[Len(tabs)])
    BY <1>1, <1>6 DEF LayoutInv
  <2>2. QED
    BY <1>6, <2>1, RestoredIsShown
<1>7. QED
  BY <1>1, <1>2, <1>3, <1>4, <1>5, <1>6 DEF LayoutInv

LEMMA NextTabStep == ASSUME LayoutInv, NextTab PROVE LayoutInv'
<1>1. /\ phase = "restoring" /\ ~box /\ todo # <<>> /\ Head(todo) = <<>> /\ todo' = Tail(todo)
      /\ workspace' = None /\ phase' \in {phase, "wild"}
      /\ UNCHANGED <<tabs, panes, session, saved, restore, reconnect, known, box, clean>>
  BY DEF NextTab, TabDone, tabVars, settingVars
<1>2. Wants' = Wants /\ Shown' = Shown
  BY <1>1, SameWants, ShownIs
<1>3. saved \in Seq(Seq(Kinds)) /\ todo \in Seq(Seq(Kinds))
  BY DEF LayoutInv
<1>4. todo[1] = <<>> /\ todo' \in Seq(Seq(Kinds))
  <2> DEFINE K == Seq(Kinds)
  <2>1. todo \in Seq(K)
    BY <1>3
  <2> HIDE DEF K
  <2>2. Tail(todo) \in Seq(K)
    BY <1>1, <2>1
  <2>3. QED
    BY <1>1, <2>2 DEF K
<1>5. ASSUME clean, restore
      PROVE  Progress(saved, Wants, todo', None, Shown, tabs[Len(tabs)])
  <2>1. PICK n, m \in Nat :
           Left(saved, n, m, todo) /\ Done(saved, Wants, n, m, todo, workspace, Shown, tabs[Len(tabs)])
    BY <1>1, <1>5 DEF LayoutInv, Progress
  <2>2. /\ Left(saved, n + 1, 0, Tail(todo))
        /\ Done(saved, Wants, n + 1, 0, Tail(todo), None, Shown, tabs[Len(tabs)])
    BY <1>1, <1>3, <1>4, <2>1, TabIsDone
  <2>3. n + 1 \in Nat /\ 0 \in Nat
    OBVIOUS
  <2>4. QED
    BY <1>1, <2>2, <2>3 DEF Progress
<1>6. QED
  BY <1>1, <1>2, <1>4, <1>5 DEF LayoutInv

LEMMA LayoutStep == TabsInv /\ LayoutInv /\ [Next]_vars => LayoutInv'
<1> SUFFICES ASSUME TabsInv, LayoutInv, [Next]_vars PROVE LayoutInv'
  OBVIOUS
<1>1. CASE UNCHANGED vars
  <2>1. UNCHANGED <<phase, tabs, panes, session, saved, restore, reconnect, known, todo, workspace, box, clean>>
    BY <1>1 DEF vars, tabVars, settingVars, restoreVars
  <2>2. Wants' = Wants /\ Shown' = Shown
    BY <2>1, SameWants, ShownIs
  <2>3. QED
    BY <2>1, <2>2 DEF LayoutInv
<1>2. CASE PaneFails
  <2>1. AtPane /\ PaneDone
    BY <1>2 DEF PaneFails
  <2>2. todo' \in Seq(Seq(Kinds))
    BY <2>1, AtPaneIs
  <2>3. QED
    BY <1>2, <2>1, <2>2 DEF PaneFails, AtPane, LayoutInv, tabVars, settingVars
<1>3. CASE DismissBox
  BY <1>3 DEF DismissBox, LayoutInv, tabVars, settingVars
<1>4. CASE Restored
  BY <1>4 DEF Restored, LayoutInv, tabVars, settingVars
<1>5. QED
  BY <1>1, <1>2, <1>3, <1>4, WindowStep, LeaveStep, StartStep, SkipStep, RestoreStep, NextTabStep DEF Next

\* What has been restored in the end is what is to be restored.
LEMMA RestoredIs ==
    ASSUME LayoutInv, Restored, clean, restore
    PROVE  Layout = Restorable
<1>1. phase = "restoring" /\ todo = <<>>
  BY DEF Restored
<1>2. PICK n, m \in Nat :
         Left(saved, n, m, todo) /\ Done(saved, Wants, n, m, todo, workspace, Shown, tabs[Len(tabs)])
  BY <1>1 DEF LayoutInv, Progress
<1>3. saved \in Seq(Seq(Kinds))
  BY DEF LayoutInv
<1>4. n = Len(saved)
  <2>1. Len(saved) \in Nat
    <3> DEFINE K == Seq(Kinds)
    <3>1. saved \in Seq(K)
      BY <1>3
    <3> HIDE DEF K
    <3>2. QED
      BY <3>1
  <2>2. QED
    BY <1>1, <1>2, <2>1 DEF Left
<1>5. Shown = Select(saved, Wants)
  <2>1. Shown = Kept(Rows(saved, Wants), Full)[n]
    BY <1>1, <1>2 DEF Done
  <2>2. Len(Rows(saved, Wants)) = Len(saved)
    BY <1>3, RowsAre
  <2>3. Select(saved, Wants) = Only(Rows(saved, Wants), Full)
    BY DEF Select, Rows, Full
  <2>4. QED
    BY <1>4, <2>1, <2>2, <2>3 DEF Only
<1>6. Restorable = Select(saved, Wants)
  BY DEF Restorable, Wants
<1> DEFINE Lasting == Kinds \ {Transient}
<1>7. Shown \in Seq(Seq(Lasting) \ {<<>>})
  <2>1. Shown \in Seq(Seq(Kinds \cap Wants) \ {<<>>})
    BY <1>3, <1>5, SelectIs
  <2>2. Kinds \cap Wants \subseteq Lasting
    <3>1. Transient \notin known /\ Transient # Local
      BY TerminalsAssumption DEF LayoutInv
    <3>2. QED
      BY <3>1 DEF Wants, Wanted
  <2> DEFINE A == Seq(Kinds \cap Wants) \ {<<>>}
             B == Seq(Lasting) \ {<<>>}
  <2>3. A \subseteq B
    BY <2>2
  <2>4. Shown \in Seq(A)
    BY <2>1
  <2> HIDE DEF A, B
  <2>5. Shown \in Seq(B)
    BY <2>3, <2>4
  <2>6. QED
    BY <2>5 DEF B
<1>8. Select(Shown, Lasting) = Shown
  <2> DEFINE B == Seq(Lasting) \ {<<>>}
  <2>1. \A x \in B : x \in Seq(Lasting) /\ x \in Full
    BY DEF Full
  <2>2. Shown \in Seq(B)
    BY <1>7
  <2>3. \A x \in B : Only(x, Lasting) = x
    BY <2>1, OnlyAll
  <2> HIDE DEF B
  <2>4. PICK rows : rows = [i \in 1 .. Len(Shown) |-> Only(Shown[i], Lasting)]
    OBVIOUS
  <2>5. \A i \in 1 .. Len(Shown) : Only(Shown[i], Lasting) = Shown[i]
    <3> TAKE i \in 1 .. Len(Shown)
    <3>1. Shown[i] \in B
      BY <2>2
    <3>2. QED
      BY <2>3, <3>1
  <2>6. rows = Shown
    <3>1. rows = [i \in 1 .. Len(Shown) |-> Shown[i]]
      BY <2>4, <2>5, Zenon
    <3>2. QED
      BY <2>2, <3>1
  <2>7. Shown \in Seq(Full)
    BY <2>1, <2>2
  <2>8. Only(Shown, Full) = Shown
    BY <2>7, OnlyAll
  <2>9. QED
    BY <2>4, <2>6, <2>8 DEF Select, Full
<1>9. QED
  BY <1>5, <1>6, <1>8 DEF Layout

\* While restoring, what is shown is what of the layout was read so far, less the
\* panes that are not to be restored, and what is left is the rest of it.
THEOREM LayoutInvariant == Spec => [](TabsInv /\ LayoutInv)
BY TabsInit, TabsStep, LayoutInit, LayoutStep, PTL DEF Spec

\* A start brings back the layout that was saved, tab by tab and pane by pane,
\* less the panes that are not to be restored: restoreWorkspace opens the panes in
\* the order of the saved layout and drops a tab of which it restores nothing.
THEOREM LayoutIsRestored == Spec => RestoresLayout
<1>1. ASSUME LayoutInv, [Next]_vars
      PROVE  [phase = "restoring" /\ phase' = "running" /\ clean /\ restore => Layout = Restorable]_vars
  <2>1. CASE UNCHANGED vars
    BY <2>1
  <2>2. CASE Restored
    <3> SUFFICES ASSUME clean, restore PROVE Layout = Restorable
      OBVIOUS
    <3>1. QED
      BY <1>1, <2>2, RestoredIs
  <2>3. CASE ~Restored /\ Next
    <3> SUFFICES ASSUME phase = "restoring" PROVE phase' # "running"
      OBVIOUS
    <3>1. QED
      BY <2>3 DEF Next, NewLocal, Split, ChangeSettings, Quit, Crash, Gone, Start, SkipPane, RestorePane,
                  PaneFails, DismissBox, NextTab, TabDone, ConnectSelected, ConnectSelectedTunnels, Open,
                  DeleteProfile, CloseTab, TimerFires, Idle, Exit, PaneExits
  <2>4. QED
    BY <1>1, <2>1, <2>2, <2>3
<1>2. QED
  BY LayoutInvariant, <1>1, PTL DEF Spec, RestoresLayout
==============================================================================
