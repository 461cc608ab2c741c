-------------------------- MODULE LiveControlProofs --------------------------
(* Proofs about LiveControl, for any number of windows and calls: whose the    *)
(* path is, that no caller is forgotten, and that every step of the windows    *)
(* and the callers is one that LiveCalls allows, or none of its concern.       *)
EXTENDS LiveControl, SequenceTheorems, TLAPS

\* What makes ListenerReachable inductive: while starts do not overlap, at most
\* one window starts, and none serves then.
PathOK ==
    ~overlap =>
        /\ \A g \in Serving : file = g
        /\ \A g, h \in Starting : g = h
        /\ Starting # {} => Serving = {}

\* How far a call has come limits what has been done about it.
CallsOK ==
    \A c \in Calls :
        /\ c \in unread => /\ at[c] \in Guis /\ taken[c] = 0 /\ answer[c] = "none"
                           /\ phase[c] \in {"waiting", "error"}
        /\ phase[c] = "idle" => /\ at[c] = Nobody /\ taken[c] = 0 /\ answer[c] = "none"
                                /\ c \notin unread \cup freed
        /\ c \in freed => phase[c] \notin {"idle", "waiting"}
        /\ answer[c] = "ok" => taken[c] = 1
        /\ answer[c] = "refused" => taken[c] = 0 /\ c \notin unread
        /\ phase[c] \in {"ok", "refused"} => answer[c] = phase[c]

\* A handler that waits behind a message box is its call's only one, belongs to
\* its own window, and has not answered.
StacksOK ==
    \A g \in Guis :
        /\ \A i \in 1 .. Len(stack[g]) :
              /\ at[stack[g][i]] = g
              /\ stack[g][i] \notin unread
              /\ answer[stack[g][i]] = "none" /\ taken[stack[g][i]] = 1
        /\ \A i, j \in 1 .. Len(stack[g]) : stack[g][i] = stack[g][j] => i = j

LiveInv ==
    /\ TypeOK
    /\ PathOK
    /\ CallsOK
    /\ StacksOK
    /\ CallerIsServed

------------------------------------------------------------------------------
\* The elements of a sequence, and what is left of it and gone with its last.
LEMMA RangeIs ==
    ASSUME NEW S, NEW s \in Seq(S)
    PROVE  /\ Range(s) = {s[i] : i \in 1 .. Len(s)}
           /\ Len(s) \in Nat /\ \A i \in 1 .. Len(s) : s[i] \in S
BY DEF Range

LEMMA FrontIs ==
    ASSUME NEW S, NEW s \in Seq(S), s # <<>>
    PROVE  /\ Front(s) \in Seq(S) /\ Len(Front(s)) = Len(s) - 1
           /\ \A i \in 1 .. Len(s) - 1 : Front(s)[i] = s[i]
           /\ Len(s) \in Nat \ {0} /\ Last(s) = s[Len(s)] /\ Last(s) \in S
<1> DEFINE n == Len(s) - 1
<1>1. Len(s) \in Nat \ {0} /\ \A i \in 1 .. Len(s) : s[i] \in S
  OBVIOUS
<1>2. n \in Int /\ \A i \in 1 .. n : s[i] \in S
  BY <1>1
<1>3. /\ SubSeq(s, 1, n) \in Seq(S)
      /\ Len(SubSeq(s, 1, n)) = IF 1 <= n THEN n - 1 + 1 ELSE 0
      /\ \A i \in 1 .. n - 1 + 1 : SubSeq(s, 1, n)[i] = s[1 + i - 1]
  BY <1>2, SubSeqProperties
<1>4. n \in Nat /\ n = Len(s) - 1
  BY <1>1
<1> DEFINE f == SubSeq(s, 1, n)
<1>5. Front(s) = f
  BY DEF Front
<1> HIDE DEF n, f
<1>6. Len(f) = n
  BY <1>3, <1>4 DEF f
<1>7. \A i \in 1 .. n : f[i] = s[i]
  <2>1. n - 1 + 1 = n /\ \A i \in 1 .. n : 1 + i - 1 = i
    BY <1>4
  <2>2. QED
    BY <1>3, <2>1 DEF f
<1>8. Last(s) = s[Len(s)] /\ Last(s) \in S /\ f \in Seq(S)
  BY <1>1, <1>3 DEF Last, f
<1>9. QED
  BY <1>1, <1>4, <1>5, <1>6, <1>7, <1>8

\* Only a window that serves is reached.
LEMMA ReachableIs == TypeOK /\ Reachable => file \in Guis
BY DEF Reachable, Serving

LEMMA InitInv == Init => LiveInv
<1> SUFFICES ASSUME Init PROVE LiveInv
  OBVIOUS
<1>1. TypeOK
  <2>1. <<>> \in Seq(Calls)
    OBVIOUS
  <2>2. stack \in [Guis -> Seq(Calls)]
    BY <2>1 DEF Init
  <2>3. QED
    BY <2>2 DEF Init, TypeOK, Phases
<1>2. PathOK /\ CallsOK /\ CallerIsServed
  BY DEF Init, PathOK, CallsOK, CallerIsServed, Serving, Starting
<1>3. StacksOK
  BY DEF Init, StacksOK
<1>4. QED
  BY <1>1, <1>2, <1>3 DEF LiveInv

\* Every step of the model, in terms of the actions it is written with.
LEMMA Steps ==
    ASSUME Next
    PROVE  \/ \E g \in Guis : \/ \E state \in {"probed", "deaf"} : Probe(g) /\ StartAs(g, state)
                              \/ RemoveServer(g) \/ Listen(g)
                              \/ Quit(g) \/ Crash(g) \/ Dismiss(g)
           \/ \E c \in Calls : \/ Ask(c) \/ Receive(c) \/ TimeOut(c)
                               \/ Refuse(c) \/ Perform(c) \/ Begin(c) \/ Hangup(c)
BY DEF Next, Probe

LEMMA TypeStep == LiveInv /\ [Next]_vars => TypeOK'
<1> SUFFICES ASSUME LiveInv, [Next]_vars PROVE TypeOK'
  OBVIOUS
<1>0. TypeOK
  BY DEF LiveInv
<1>1. ASSUME NEW g \in Guis, NEW state \in {"probed", "deaf"}, StartAs(g, state) PROVE TypeOK'
  BY <1>0, <1>1 DEF TypeOK, StartAs, Starting, callVars
<1>2. ASSUME NEW g \in Guis, RemoveServer(g) \/ Listen(g) PROVE TypeOK'
  BY <1>0, <1>2 DEF TypeOK, RemoveServer, Listen, callVars
<1>3. ASSUME NEW g \in Guis, Quit(g) \/ Crash(g) PROVE TypeOK'
  <2>1. <<>> \in Seq(Calls)
    OBVIOUS
  <2>2. stack' \in [Guis -> Seq(Calls)] /\ at' \in [Calls -> Guis \cup {Nobody}]
    BY <1>0, <1>3, <2>1 DEF TypeOK, Quit, Crash, Disconnect
  <2>3. QED
    BY <1>0, <1>3, <2>2 DEF TypeOK, Quit, Crash, Disconnect
<1>4. ASSUME NEW g \in Guis, Dismiss(g) PROVE TypeOK'
  <2>1. Front(stack[g]) \in Seq(Calls) /\ Last(stack[g]) \in Calls
    BY <1>0, <1>4, FrontIs DEF TypeOK, Dismiss, Finish
  <2>2. QED
    BY <1>0, <1>4, <2>1 DEF TypeOK, Dismiss, Finish, Reply, guiVars
<1>5. ASSUME NEW c \in Calls, Ask(c) \/ Receive(c) \/ TimeOut(c) \/ Hangup(c) PROVE TypeOK'
  BY <1>0, <1>5, ReachableIs DEF TypeOK, Ask, Connect, Receive, TimeOut, Hangup, guiVars, Phases
<1>6. ASSUME NEW c \in Calls, Refuse(c) \/ Perform(c) PROVE TypeOK'
  <2>1. answer' \in [Calls -> {"none", "ok", "refused"}]
    BY <1>0, <1>6 DEF TypeOK, Refuse, Perform, CarryOut, Reply
  <2>2. taken' \in [Calls -> Nat]
    BY <1>0, <1>6 DEF TypeOK, Refuse, Perform, CarryOut
  <2>3. QED
    BY <1>0, <1>6, <2>1, <2>2 DEF TypeOK, Refuse, Perform, CarryOut, guiVars
<1>7. ASSUME NEW c \in Calls, Begin(c) PROVE TypeOK'
  <2>1. \A g \in Guis : Append(stack[g], c) \in Seq(Calls)
    BY <1>0, AppendProperties DEF TypeOK
  <2>2. stack' \in [Guis -> Seq(Calls)]
    BY <1>0, <1>7, <2>1 DEF TypeOK, Begin
  <2>3. QED
    BY <1>0, <1>7, <2>2 DEF TypeOK, Begin, guiVars
<1>8. CASE UNCHANGED vars
  BY <1>0, <1>8 DEF TypeOK, vars, guiVars, callVars
<1>9. QED
  BY <1>1, <1>2, <1>3, <1>4, <1>5, <1>6, <1>7, <1>8, Steps

\* Who may name the path.
LEMMA PathStep == LiveInv /\ [Next]_vars => PathOK'
<1> SUFFICES ASSUME LiveInv, [Next]_vars PROVE PathOK'
  OBVIOUS
<1>0. TypeOK /\ PathOK
  BY DEF LiveInv
<1>1. ASSUME NEW g \in Guis, Probe(g) PROVE PathOK'
  BY <1>0, <1>1 DEF TypeOK, PathOK, Probe, StartAs, Starting, Serving, Reachable
<1>2. ASSUME NEW g \in Guis, RemoveServer(g) PROVE PathOK'
  BY <1>0, <1>2 DEF TypeOK, PathOK, RemoveServer, Starting, Serving
<1>3. ASSUME NEW g \in Guis, Listen(g) PROVE PathOK'
  BY <1>0, <1>3 DEF TypeOK, PathOK, Listen, Starting, Serving
<1>4. ASSUME NEW g \in Guis, Quit(g) \/ Crash(g) PROVE PathOK'
  BY <1>0, <1>4 DEF TypeOK, PathOK, Quit, Crash, Starting, Serving
<1>5. ASSUME UNCHANGED guiVars PROVE PathOK'
  BY <1>0, <1>5 DEF PathOK, Starting, Serving, guiVars
<1>6. CASE UNCHANGED vars
  BY <1>5, <1>6 DEF vars
<1>7. ASSUME NEW g \in Guis, Dismiss(g) PROVE PathOK'
  BY <1>5, <1>7 DEF Dismiss, Finish
<1>8. ASSUME NEW c \in Calls, \/ Ask(c) \/ Receive(c) \/ TimeOut(c)
                              \/ Refuse(c) \/ Perform(c) \/ Begin(c) \/ Hangup(c)
      PROVE PathOK'
  BY <1>5, <1>8 DEF Ask, Connect, Receive, TimeOut, Refuse, Perform, CarryOut, Begin, Hangup
<1>9. QED
  BY <1>1, <1>2, <1>3, <1>4, <1>6, <1>7, <1>8 DEF Next

\* What handlers and callers do to one call agrees with how far it has come.
LEMMA CallsStep == LiveInv /\ [Next]_vars => CallsOK'
<1> SUFFICES ASSUME LiveInv, [Next]_vars PROVE CallsOK'
  OBVIOUS
<1>0. TypeOK /\ CallsOK /\ StacksOK
  BY DEF LiveInv
<1>1. ASSUME UNCHANGED callVars PROVE CallsOK'
  BY <1>0, <1>1 DEF CallsOK, callVars
<1>2. ASSUME NEW g \in Guis, \/ \E state \in {"probed", "deaf"} : StartAs(g, state)
                             \/ RemoveServer(g) \/ Listen(g)
      PROVE CallsOK'
  BY <1>1, <1>2 DEF StartAs, RemoveServer, Listen
<1>3. ASSUME NEW g \in Guis, Quit(g) \/ Crash(g) PROVE CallsOK'
  <2>1. Disconnect(g)
    BY <1>3 DEF Quit, Crash
  <2>2. QED
    BY <1>0, <2>1 DEF TypeOK, CallsOK, Disconnect
<1>4. ASSUME NEW g \in Guis, Dismiss(g) PROVE CallsOK'
  <2> DEFINE c == Last(stack[g])
  <2>1. Len(stack[g]) \in 1 .. Len(stack[g]) /\ c = stack[g][Len(stack[g])] /\ c \in Calls
    BY <1>0, <1>4, FrontIs DEF TypeOK, Dismiss, Finish
  <2>2. at[c] = g /\ c \notin unread /\ answer[c] = "none" /\ taken[c] = 1
    BY <1>0, <2>1 DEF StacksOK
  <2>3. phase[c] # "idle"
    BY <1>0, <2>1, <2>2, GuisAssumption DEF CallsOK
  <2>4. /\ \/ answer' = [answer EXCEPT ![c] = "ok"] /\ phase[c] = "waiting"
           \/ answer' = answer
        /\ UNCHANGED <<phase, at, unread, freed, taken>>
    BY <1>4 DEF Dismiss, Finish, Reply
  <2> HIDE DEF c
  <2>5. QED
    BY <1>0, <2>1, <2>2, <2>3, <2>4 DEF TypeOK, CallsOK
<1>5. ASSUME NEW c \in Calls, Ask(c) PROVE CallsOK'
  BY <1>0, <1>5, ReachableIs DEF TypeOK, CallsOK, Ask, Connect, Phases
<1>6. ASSUME NEW c \in Calls, Receive(c) \/ TimeOut(c) \/ Hangup(c) PROVE CallsOK'
  <2>1. CASE Receive(c)
    <3>1. /\ phase' = [phase EXCEPT ![c] = IF answer[c] = "none" THEN "error" ELSE answer[c]]
          /\ UNCHANGED <<at, unread, answer, freed, taken>> /\ phase[c] = "waiting"
      BY <2>1 DEF Receive
    <3>2. c \in unread => answer[c] = "none"
      BY <1>0 DEF CallsOK
    <3>3. answer[c] \in {"none", "ok", "refused"}
      BY <1>0 DEF TypeOK
    <3>4. QED
      BY <1>0, <3>1, <3>2, <3>3 DEF TypeOK, CallsOK
  <2>2. CASE TimeOut(c)
    BY <1>0, <2>2 DEF TypeOK, CallsOK, TimeOut
  <2>3. CASE Hangup(c)
    BY <1>0, <2>3 DEF TypeOK, CallsOK, Hangup
  <2>4. QED
    BY <1>6, <2>1, <2>2, <2>3
<1>7. ASSUME NEW c \in Calls, Refuse(c) PROVE CallsOK'
  BY <1>0, <1>7 DEF TypeOK, CallsOK, Refuse, Readable, Reply
<1>8. ASSUME NEW c \in Calls, Perform(c) PROVE CallsOK'
  BY <1>0, <1>8 DEF TypeOK, CallsOK, Perform, CarryOut, Readable, Reply
<1>9. ASSUME NEW c \in Calls, Begin(c) PROVE CallsOK'
  BY <1>0, <1>9 DEF TypeOK, CallsOK, Begin, Readable
<1>10. CASE UNCHANGED vars
  BY <1>1, <1>10 DEF vars
<1>11. QED
  BY <1>2, <1>3, <1>4, <1>5, <1>6, <1>7, <1>8, <1>9, <1>10, Steps

\* Handlers are entered once and left from the inside.
LEMMA StacksStep == LiveInv /\ [Next]_vars => StacksOK'
<1> SUFFICES ASSUME LiveInv, [Next]_vars PROVE StacksOK'
  OBVIOUS
<1>0. TypeOK /\ CallsOK /\ StacksOK
  BY DEF LiveInv
<1>1. \A g \in Guis : Len(stack[g]) \in Nat /\ \A i \in 1 .. Len(stack[g]) : stack[g][i] \in Calls
  BY <1>0, RangeIs DEF TypeOK
<1>2. ASSUME UNCHANGED callVars PROVE StacksOK'
  BY <1>0, <1>2 DEF StacksOK, callVars
<1>3. ASSUME NEW g \in Guis, \/ \E state \in {"probed", "deaf"} : StartAs(g, state)
                             \/ RemoveServer(g) \/ Listen(g)
      PROVE StacksOK'
  BY <1>2, <1>3 DEF StartAs, RemoveServer, Listen
<1>4. ASSUME NEW g \in Guis, Quit(g) \/ Crash(g) PROVE StacksOK'
  <2>1. Disconnect(g)
    BY <1>4 DEF Quit, Crash
  <2>2. stack'[g] = <<>> /\ \A h \in Guis \ {g} : stack'[h] = stack[h]
    BY <1>0, <2>1 DEF TypeOK, Disconnect
  <2>3. \A h \in Guis \ {g} : \A i \in 1 .. Len(stack[h]) :
           at'[stack[h][i]] = h /\ stack[h][i] \notin unread'
    BY <1>0, <1>1, <2>1 DEF TypeOK, StacksOK, Disconnect
  <2>4. answer' = answer /\ taken' = taken
    BY <2>1 DEF Disconnect
  <2>5. QED
    BY <1>0, <2>2, <2>3, <2>4 DEF StacksOK
<1>5. ASSUME NEW g \in Guis, Dismiss(g) PROVE StacksOK'
  <2> DEFINE s == stack[g]
             c == Last(s)
  <2>1. s \in Seq(Calls) /\ s # <<>>
    BY <1>0, <1>5 DEF TypeOK, Dismiss, Finish
  <2>2. /\ Len(Front(s)) = Len(s) - 1 /\ Len(s) \in Nat \ {0} /\ c = s[Len(s)]
        /\ \A i \in 1 .. Len(s) - 1 : Front(s)[i] = s[i]
    BY <2>1, FrontIs
  <2>3. /\ stack'[g] = Front(s) /\ \A h \in Guis \ {g} : stack'[h] = stack[h]
        /\ answer' \in {answer, [answer EXCEPT ![c] = "ok"]}
        /\ UNCHANGED <<at, unread, taken>>
    BY <1>0, <1>5 DEF TypeOK, Dismiss, Finish, Reply
  <2>4. at[c] = g
    BY <1>0, <2>2 DEF StacksOK
  <2>5. \A h \in Guis \ {g} : \A i \in 1 .. Len(stack[h]) : stack[h][i] # c
    BY <1>0, <2>4 DEF StacksOK
  <2>6. \A i \in 1 .. Len(s) - 1 : s[i] # c
    BY <1>0, <2>2 DEF StacksOK
  <2> HIDE DEF c
  <2>7. \A h \in Guis : \A i \in 1 .. Len(stack'[h]) :
           i \in 1 .. Len(stack[h]) /\ stack'[h][i] = stack[h][i] /\ stack[h][i] # c
    BY <2>2, <2>3, <2>5, <2>6
  <2>8. \A h \in Guis : \A i \in 1 .. Len(stack'[h]) : answer'[stack[h][i]] = "none"
    BY <1>0, <1>1, <2>3, <2>7 DEF TypeOK, StacksOK
  <2>9. QED
    BY <1>0, <2>3, <2>7, <2>8 DEF StacksOK
<1>6. ASSUME NEW c \in Calls, Ask(c) PROVE StacksOK'
  <2>1. at[c] = Nobody /\ UNCHANGED <<stack, answer, taken>>
        /\ \A d \in Calls \ {c} : at'[d] = at[d] /\ (d \in unread' <=> d \in unread)
    BY <1>0, <1>6 DEF TypeOK, CallsOK, Ask, Connect
  <2>2. \A g \in Guis : \A i \in 1 .. Len(stack[g]) : stack[g][i] \in Calls \ {c}
    BY <1>0, <1>1, <2>1, GuisAssumption DEF StacksOK
  <2>3. QED
    BY <1>0, <2>1, <2>2 DEF StacksOK
<1>7. ASSUME NEW c \in Calls, Receive(c) \/ TimeOut(c) \/ Hangup(c) PROVE StacksOK'
  BY <1>0, <1>7 DEF StacksOK, Receive, TimeOut, Hangup
<1>8. ASSUME NEW c \in Calls, Refuse(c) \/ Perform(c) PROVE StacksOK'
  <2>1. /\ c \in unread /\ unread' = unread \ {c} /\ UNCHANGED <<stack, at>>
        /\ \A d \in Calls \ {c} : answer'[d] = answer[d] /\ taken'[d] = taken[d]
    BY <1>0, <1>8 DEF TypeOK, Refuse, Perform, CarryOut, Readable, Reply
  <2>2. \A g \in Guis : \A i \in 1 .. Len(stack[g]) : stack[g][i] \in Calls \ {c}
    BY <1>0, <1>1, <2>1 DEF StacksOK
  <2>3. QED
    BY <1>0, <2>1, <2>2 DEF StacksOK
<1>9. ASSUME NEW c \in Calls, Begin(c) PROVE StacksOK'
  <2> DEFINE g == at[c]
             s == Append(stack[g], c)
  <2>1. /\ c \in unread /\ unread' = unread \ {c} /\ UNCHANGED <<at, answer>>
        /\ g \in Guis /\ answer[c] = "none" /\ taken'[c] = 1
        /\ \A d \in Calls \ {c} : taken'[d] = taken[d]
        /\ stack'[g] = s /\ \A h \in Guis \ {g} : stack'[h] = stack[h]
    BY <1>0, <1>9 DEF TypeOK, CallsOK, Begin, Readable
  <2>2. \A h \in Guis : \A i \in 1 .. Len(stack[h]) : stack[h][i] \in Calls \ {c}
    BY <1>0, <1>1, <2>1 DEF StacksOK
  <2>3. /\ Len(s) = Len(stack[g]) + 1 /\ s[Len(stack[g]) + 1] = c
        /\ \A i \in 1 .. Len(stack[g]) : s[i] = stack[g][i]
    BY <1>0, <2>1, AppendProperties DEF TypeOK
  <2>4. /\ \A i \in 1 .. Len(s) : at[s[i]] = g /\ s[i] \notin unread' /\ answer[s[i]] = "none" /\ taken'[s[i]] = 1
        /\ \A i, j \in 1 .. Len(s) : s[i] = s[j] => i = j
    <3> HIDE DEF s
    <3>1. Len(stack[g]) \in Nat
      BY <1>1, <2>1
    <3>2. \A i \in 1 .. Len(s) : i \in 1 .. Len(stack[g]) \/ i = Len(stack[g]) + 1
      BY <2>3, <3>1
    <3>3. \A i \in 1 .. Len(stack[g]) : /\ at[stack[g][i]] = g /\ stack[g][i] \notin unread'
                                         /\ answer[stack[g][i]] = "none" /\ taken'[stack[g][i]] = 1
      BY <1>0, <2>1, <2>2 DEF StacksOK
    <3>4. c \notin unread' /\ at[c] = g
      BY <2>1
    <3>5. \A i, j \in 1 .. Len(stack[g]) : stack[g][i] = stack[g][j] => i = j
      BY <1>0, <2>1 DEF StacksOK
    <3>6. \A i \in 1 .. Len(stack[g]) : s[i] # c
      BY <2>1, <2>2, <2>3
    <3> HIDE DEF g
    <3>7. \A i \in 1 .. Len(s) : at[s[i]] = g /\ s[i] \notin unread' /\ answer[s[i]] = "none" /\ taken'[s[i]] = 1
      BY <2>1, <2>3, <3>2, <3>3, <3>4
    <3>8. \A i, j \in 1 .. Len(s) : s[i] = s[j] => i = j
      BY <2>3, <3>2, <3>5, <3>6
    <3>9. QED
      BY <3>7, <3>8
  <2> HIDE DEF s
  <2>5. ASSUME NEW h \in Guis, h # g
        PROVE  \A i \in 1 .. Len(stack[h]) : /\ at[stack[h][i]] = h /\ stack[h][i] \notin unread'
                                            /\ answer[stack[h][i]] = "none" /\ taken'[stack[h][i]] = 1
    BY <1>0, <2>1, <2>2 DEF StacksOK
  <2> HIDE DEF g
  <2>6. QED
    BY <1>0, <2>1, <2>4, <2>5 DEF StacksOK
<1>10. CASE UNCHANGED vars
  BY <1>2, <1>10 DEF vars
<1>11. QED
  BY <1>3, <1>4, <1>5, <1>6, <1>7, <1>8, <1>9, <1>10, Steps

\* A handler that has not been left, or the reply it wrote, is still there for
\* a caller that waits.
LEMMA ServedStep == LiveInv /\ [Next]_vars => CallerIsServed'
<1> SUFFICES ASSUME LiveInv, [Next]_vars PROVE CallerIsServed'
  OBVIOUS
<1>0. TypeOK /\ TypeOK' /\ CallsOK /\ StacksOK /\ CallerIsServed
  BY TypeStep DEF LiveInv
<1>1. \A g \in Guis : /\ Range(stack[g]) = {stack[g][i] : i \in 1 .. Len(stack[g])}
                      /\ Range(stack'[g]) = {stack'[g][i] : i \in 1 .. Len(stack'[g])}
                      /\ Len(stack[g]) \in Nat
  BY <1>0, RangeIs DEF TypeOK
<1>2. ASSUME UNCHANGED callVars PROVE CallerIsServed'
  BY <1>0, <1>2 DEF CallerIsServed, callVars
<1>3. ASSUME NEW g \in Guis, \/ \E state \in {"probed", "deaf"} : StartAs(g, state)
                             \/ RemoveServer(g) \/ Listen(g)
      PROVE CallerIsServed'
  BY <1>2, <1>3 DEF StartAs, RemoveServer, Listen
<1>4. ASSUME NEW g \in Guis, Quit(g) \/ Crash(g) PROVE CallerIsServed'
  <2>1. Disconnect(g)
    BY <1>4 DEF Quit, Crash
  <2>2. \A c \in Calls : at'[c] # Nobody =>
          at'[c] = at[c] /\ at[c] # g /\ stack'[at[c]] = stack[at[c]]
    BY <1>0, <2>1 DEF TypeOK, Disconnect
  <2>3. QED
    BY <1>0, <2>1, <2>2 DEF TypeOK, CallerIsServed, Disconnect
<1>5. ASSUME NEW g \in Guis, Dismiss(g) PROVE CallerIsServed'
  <2> DEFINE s == stack[g]
             c == Last(s)
  <2>1. s \in Seq(Calls) /\ s # <<>>
    BY <1>0, <1>5 DEF TypeOK, Dismiss, Finish
  <2>2. /\ Len(Front(s)) = Len(s) - 1 /\ Len(s) \in Nat \ {0} /\ c = s[Len(s)] /\ c \in Calls
        /\ \A i \in 1 .. Len(s) - 1 : Front(s)[i] = s[i]
    BY <2>1, FrontIs
  <2>3. /\ stack'[g] = Front(s) /\ \A h \in Guis \ {g} : stack'[h] = stack[h]
        /\ UNCHANGED <<at, unread, phase>>
        /\ answer' = IF phase[c] = "waiting" /\ c \notin freed
                     THEN [answer EXCEPT ![c] = "ok"] ELSE answer
    BY <1>0, <1>5 DEF TypeOK, Dismiss, Finish, Reply
  <2>4. phase[c] = "waiting" => answer'[c] = "ok"
    BY <1>0, <2>2, <2>3 DEF TypeOK, CallsOK
  <2>5. \A d \in Calls \ {c} : answer'[d] = answer[d]
    BY <1>0, <2>3 DEF TypeOK
  <2> HIDE DEF c
  <2>6. \A d \in Calls \ {c} : \A i \in 1 .. Len(s) :
           s[i] = d => i \in 1 .. Len(Front(s)) /\ Front(s)[i] = d
    BY <2>2
  <2>7. \A d \in Calls \ {c} : d \in Range(s) => d \in Range(stack'[g])
    <3> HIDE DEF s
    <3>1. Range(s) = {s[i] : i \in 1 .. Len(s)}
      BY <1>1 DEF s
    <3>2. Range(stack'[g]) = {stack'[g][i] : i \in 1 .. Len(stack'[g])}
      BY <1>1
    <3>3. stack'[g] = Front(s)
      BY <2>3
    <3>4. QED
      BY <2>6, <3>1, <3>2, <3>3
  <2>8. \A d \in Calls \ {c} : \A h \in Guis : d \in Range(stack[h]) => d \in Range(stack'[h])
    BY <2>3, <2>7
  <2>9. QED
    BY <1>0, <2>3, <2>4, <2>5, <2>8 DEF TypeOK, CallerIsServed
<1>6. ASSUME NEW c \in Calls, Ask(c) PROVE CallerIsServed'
  <2>1. /\ UNCHANGED <<stack, answer>> /\ (phase'[c] = "waiting" => c \in unread')
        /\ \A d \in Calls \ {c} : at'[d] = at[d] /\ phase'[d] = phase[d] /\ (d \in unread => d \in unread')
    BY <1>0, <1>6 DEF TypeOK, Ask, Connect
  <2>2. QED
    BY <1>0, <2>1 DEF CallerIsServed
<1>7. ASSUME NEW c \in Calls, Receive(c) \/ TimeOut(c) \/ Hangup(c) PROVE CallerIsServed'
  <2>1. /\ UNCHANGED <<stack, answer, at, unread>>
        /\ \A d \in Calls : phase'[d] = "waiting" => phase[d] = "waiting"
    BY <1>0, <1>7 DEF TypeOK, Receive, TimeOut, Hangup
  <2>2. QED
    BY <1>0, <2>1 DEF CallerIsServed
<1>8. ASSUME NEW c \in Calls, Refuse(c) \/ Perform(c) PROVE CallerIsServed'
  <2>1. /\ UNCHANGED <<stack, at, phase>> /\ unread' = unread \ {c}
        /\ \A d \in Calls \ {c} : answer'[d] = answer[d]
    BY <1>0, <1>8 DEF TypeOK, Refuse, Perform, CarryOut, Reply
  <2>2. phase[c] = "waiting" => c \notin freed
    BY <1>0 DEF CallsOK
  <2>3. phase[c] = "waiting" => answer'[c] \in {"ok", "refused"}
    BY <1>0, <1>8, <2>2 DEF TypeOK, Refuse, Perform, CarryOut, Reply
  <2>4. QED
    BY <1>0, <2>1, <2>3 DEF CallerIsServed
<1>9. ASSUME NEW c \in Calls, Begin(c) PROVE CallerIsServed'
  <2> DEFINE g == at[c]
             s == stack[g]
  <2>1. /\ g \in Guis /\ unread' = unread \ {c} /\ UNCHANGED <<at, answer, phase>>
        /\ stack'[g] = Append(s, c) /\ \A h \in Guis \ {g} : stack'[h] = stack[h]
    BY <1>0, <1>9 DEF TypeOK, CallsOK, Begin, Readable
  <2>2. s \in Seq(Calls)
    BY <1>0, <2>1 DEF TypeOK
  <2>3. /\ Len(stack'[g]) = Len(s) + 1 /\ stack'[g][Len(s) + 1] = c
        /\ \A i \in 1 .. Len(s) : stack'[g][i] = s[i]
    BY <2>1, <2>2, AppendProperties
  <2>4. /\ Len(s) \in Nat /\ Range(s) = {s[i] : i \in 1 .. Len(s)}
        /\ Range(stack'[g]) = {stack'[g][i] : i \in 1 .. Len(stack'[g])}
    BY <1>1, <2>1
  <2> HIDE DEF g, s
  <2>5. c \in Range(stack'[g]) /\ \A d \in Range(s) : d \in Range(stack'[g])
    BY <2>3, <2>4
  <2>6. \A h \in Guis : \A d \in Range(stack[h]) : d \in Range(stack'[h])
    BY <2>1, <2>5 DEF s
  <2>7. at[c] = g
    BY DEF g
  <2>8. QED
    BY <1>0, <2>1, <2>5, <2>6, <2>7 DEF TypeOK, CallerIsServed
<1>10. CASE UNCHANGED vars
  BY <1>2, <1>10 DEF vars
<1>11. QED
  BY <1>3, <1>4, <1>5, <1>6, <1>7, <1>8, <1>9, <1>10, Steps

------------------------------------------------------------------------------
\* Whose the path is, how far every call has come, the handlers behind message
\* boxes and the callers that wait agree in every reachable state.
THEOREM LiveInvariant == Spec => []LiveInv
<1>1. LiveInv /\ [Next]_vars => LiveInv'
  BY TypeStep, PathStep, CallsStep, StacksStep, ServedStep DEF LiveInv
<1>2. QED
  BY InitInv, <1>1, PTL DEF Spec

\* Every variable of the socket and of its calls keeps its type.
THEOREM LiveTypeCorrect == Spec => []TypeOK
<1>1. LiveInv => TypeOK
  BY DEF LiveInv
<1>2. QED
  BY LiveInvariant, <1>1, PTL

\* Unless two starts have overlapped, the window that listens is the one the
\* path leads to (LiveControlServer::start).
THEOREM ListenerIsReachable == Spec => []ListenerReachable
<1>1. LiveInv => ListenerReachable
  BY DEF LiveInv, PathOK, ListenerReachable
<1>2. QED
  BY LiveInvariant, <1>1, PTL

\* No caller that waits at a living window is forgotten, however message boxes
\* nest (LiveControlServer::acceptConnection).
THEOREM CallersAreServed == Spec => []CallerIsServed
<1>1. LiveInv => CallerIsServed
  BY DEF LiveInv
<1>2. QED
  BY LiveInvariant, <1>1, PTL

\* Seen by their callers, the socket and its windows do nothing that LiveCalls
\* does not allow: a request is taken up at most once, "ok" means that it was
\* and "refused" that it never will be.
THEOREM RefinesCalls == Spec => Promise!Safety
<1>1. Init => Promise!Init
  BY DEF Init, Promise!Init
<1>2. LiveInv /\ [Next]_vars => [Promise!Next]_(Promise!vars)
  <2> SUFFICES ASSUME LiveInv, [Next]_vars PROVE Promise!Next \/ UNCHANGED <<phase, taken>>
    BY DEF Promise!vars
  <2>0. TypeOK /\ CallsOK
    BY DEF LiveInv
  <2>1. ASSUME NEW g \in Guis, \/ \E state \in {"probed", "deaf"} : StartAs(g, state)
                               \/ RemoveServer(g) \/ Listen(g)
                               \/ Quit(g) \/ Crash(g) \/ Dismiss(g)
        PROVE UNCHANGED <<phase, taken>>
    BY <2>1 DEF StartAs, RemoveServer, Listen, Quit, Crash, Disconnect, Dismiss, Finish, callVars
  <2>2. ASSUME NEW c \in Calls, Ask(c) PROVE Promise!Next
    BY <2>2 DEF Ask, Connect, Promise!Next, Promise!Ask, Promise!Fail
  <2>3. ASSUME NEW c \in Calls, Receive(c) PROVE Promise!Next
    <3> DEFINE r == IF answer[c] = "none" THEN "error" ELSE answer[c]
    <3>1. phase[c] = "waiting" /\ phase' = [phase EXCEPT ![c] = r] /\ UNCHANGED taken
      BY <2>3 DEF Receive
    <3>2. r \in {"ok", "refused", "error"}
      BY <2>0 DEF TypeOK
    <3>3. (r = "ok" => taken[c] = 1) /\ (r = "refused" => taken[c] = 0)
      BY <2>0 DEF CallsOK
    <3> HIDE DEF r
    <3>4. Promise!Return(c)
      BY <3>1, <3>2, <3>3 DEF Promise!Return
    <3>5. QED
      BY <3>4 DEF Promise!Next
  <2>4. ASSUME NEW c \in Calls, TimeOut(c) PROVE Promise!Next
    BY <2>4 DEF TimeOut, Promise!Next, Promise!Return
  <2>5. ASSUME NEW c \in Calls, Perform(c) \/ Begin(c) PROVE Promise!Next
    <3>1. c \in unread /\ taken' = [taken EXCEPT ![c] = taken[c] + 1] /\ UNCHANGED phase
      BY <2>5 DEF Perform, CarryOut, Begin, Readable
    <3>2. taken[c] = 0 /\ phase[c] \in {"waiting", "error"}
      BY <2>0, <3>1 DEF CallsOK
    <3>3. Promise!TakeUp(c)
      BY <3>1, <3>2 DEF Promise!TakeUp
    <3>4. QED
      BY <3>3 DEF Promise!Next
  <2>6. ASSUME NEW c \in Calls, Refuse(c) \/ Hangup(c) PROVE UNCHANGED <<phase, taken>>
    BY <2>6 DEF Refuse, Hangup
  <2>7. CASE UNCHANGED vars
    BY <2>7 DEF vars, callVars
  <2>8. QED
    BY <2>1, <2>2, <2>3, <2>4, <2>5, <2>6, <2>7, Steps
<1>3. QED
  BY LiveInvariant, <1>1, <1>2, PTL DEF Spec, Promise!Safety
==============================================================================
