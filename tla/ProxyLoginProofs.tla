-------------------------- MODULE ProxyLoginProofs --------------------------
(***************************************************************************)
(* Proofs about ProxyLogin, for every number of listeners and connections, *)
(* every limit and every history of the user file: the proxy's two         *)
(* counters are exact, and a login is let in only within its limits.       *)
(***************************************************************************)
EXTENDS ProxyLogin, FiniteSetTheorems, TLAPS

(* The types that do not count anything. *)
StateTypeOK ==
  /\ lphase \in [Listeners -> Conns \cup {NoConn}]
  /\ phase \in [Conns -> LoginPhases \cup {"none", "refused", "welcome", "authed", "end", "ended", "closed"}]
  /\ preAuth \in [Conns -> BOOLEAN] /\ window \in [Conns -> 0..LoginTimeout]
  /\ session \in [Conns -> Versions \cup {0}]
  /\ passwdMap \in Versions /\ file \in Versions \cup {0}
  /\ expired \subseteq Versions /\ reloadDue \in BOOLEAN

(* Which connections still count as before their login, which have a       *)
(* version, and which ones the listeners are about to refuse, one each.    *)
Control ==
  /\ \A c \in Conns :
       /\ phase[c] \in LoginPhases \cup {"welcome"} => preAuth[c]
       /\ phase[c] \in {"none", "refused", "authed", "closed"} => ~preAuth[c]
       /\ session[c] # 0 => phase[c] \in {"welcome", "authed", "end", "ended"}
  /\ \A l \in Listeners : lphase[l] # NoConn => phase[lphase[l]] = "refused"
  /\ \A l, m \in Listeners : lphase[l] # NoConn /\ lphase[l] = lphase[m] => l = m

Unknown == {c \in Conns : preAuth[c]}
Refusing == {l \in Listeners : lphase[l] # NoConn}
Sessions == {c \in Conns : session[c] # 0 /\ phase[c] \in {"welcome", "authed", "end"}}

(* The listeners count before they look, but keep no more than the limit.  *)
CountInv ==
  /\ proxyPreAuthConns = Cardinality(Unknown) + Cardinality(Refusing)
  /\ Cardinality(Unknown) <= proxyMaxPreAuth
  /\ CountConns = Cardinality(Sessions)

IInv == StateTypeOK /\ Control /\ CountInv

(* The sets whose sizes the counters follow are finite.                    *)
LEMMA FiniteParts ==
  /\ IsFiniteSet(Unknown) /\ Cardinality(Unknown) \in Nat
  /\ IsFiniteSet(Refusing) /\ Cardinality(Refusing) \in 0..Cardinality(Listeners)
  /\ IsFiniteSet(Sessions) /\ Cardinality(Sessions) \in 0..Cardinality(Conns)
  /\ Cardinality(Listeners) \in Nat /\ Cardinality(Conns) \in Nat
  <1>1. Unknown \subseteq Conns /\ Refusing \subseteq Listeners /\ Sessions \subseteq Conns
    BY DEF Unknown, Refusing, Sessions
  <1>2. /\ IsFiniteSet(Unknown) /\ IsFiniteSet(Refusing) /\ IsFiniteSet(Sessions)
        /\ Cardinality(Refusing) <= Cardinality(Listeners)
        /\ Cardinality(Sessions) <= Cardinality(Conns)
    BY <1>1, FS_Subset, LoginAssumption
  <1>3. /\ Cardinality(Unknown) \in Nat /\ Cardinality(Refusing) \in Nat
        /\ Cardinality(Sessions) \in Nat
        /\ Cardinality(Listeners) \in Nat /\ Cardinality(Conns) \in Nat
    BY <1>2, FS_CardinalityType, LoginAssumption
  <1> QED
    BY <1>2, <1>3

-----------------------------------------------------------------------------
(* No connection, and the users of the file loaded. *)
LEMMA InitIInv == Init => IInv
  <1> SUFFICES ASSUME Init PROVE IInv
    OBVIOUS
  <1>1. StateTypeOK
    <2>1. window \in [Conns -> 0..LoginTimeout]
      BY LoginAssumption DEF Init
    <2> QED
      BY <2>1, Zenon DEF Init, StateTypeOK
  <1>2. Control
    BY DEF Init, Control, LoginPhases
  <1>3. Unknown = {} /\ Refusing = {} /\ Sessions = {}
    BY DEF Init, Unknown, Refusing, Sessions
  <1>4. CountInv
    BY <1>3, FS_EmptySet, LoginAssumption DEF Init, CountInv
  <1> QED
    BY <1>1, <1>2, <1>4 DEF IInv

-----------------------------------------------------------------------------
(* Types and control state. *)
LEMMA ControlStep == StateTypeOK /\ Control /\ [Next]_vars => StateTypeOK' /\ Control'
  <1> SUFFICES ASSUME StateTypeOK, Control, [Next]_vars PROVE StateTypeOK' /\ Control'
    OBVIOUS
  <1> USE LoginAssumption DEF StateTypeOK, Control, LoginPhases, Set, To, world
  <1>1. ASSUME NEW l \in Listeners, NEW c \in Conns, Accept(l, c) PROVE StateTypeOK' /\ Control'
    <2>1. CASE proxyPreAuthConns' > proxyMaxPreAuth
      <3>1. /\ lphase[l] = NoConn /\ phase[c] = "none"
            /\ phase' = [phase EXCEPT ![c] = "refused"] /\ lphase' = [lphase EXCEPT ![l] = c]
            /\ UNCHANGED <<preAuth, window, session, passwdMap, world>>
        BY <1>1, <2>1 DEF Accept
      <3>2. StateTypeOK'
        BY <3>1
      <3>3. Control'
        BY <3>1
      <3> QED
        BY <3>2, <3>3
    <2>2. CASE ~(proxyPreAuthConns' > proxyMaxPreAuth)
      <3>1. /\ lphase[l] = NoConn /\ phase[c] = "none"
            /\ phase' = [phase EXCEPT ![c] = "open"] /\ preAuth' = [preAuth EXCEPT ![c] = TRUE]
            /\ UNCHANGED <<lphase, window, session, passwdMap, world>>
        BY <1>1, <2>2 DEF Accept
      <3>2. StateTypeOK'
        BY <3>1
      <3>3. Control'
        BY <3>1
      <3> QED
        BY <3>2, <3>3
    <2> QED
      BY <2>1, <2>2
  <1>2. ASSUME NEW l \in Listeners, Refuse(l) PROVE StateTypeOK' /\ Control'
    BY <1>2 DEF Refuse
  <1>3. ASSUME NEW c \in Conns, Command(c) \/ Leave(c) PROVE StateTypeOK' /\ Control'
    BY <1>3 DEF Command, Leave, vars, conns
  <1>4. ASSUME NEW c \in Conns, NEW v \in Versions \cup {0}, Verify(c, v) PROVE StateTypeOK' /\ Control'
    BY <1>4 DEF Verify
  <1>5. ASSUME NEW c \in Conns, WindowRuns(c) PROVE StateTypeOK' /\ Control'
    BY <1>5 DEF WindowRuns
  <1>6. ASSUME NEW c \in Conns, LoginTimesOut(c) \/ SessionExpires(c) PROVE StateTypeOK' /\ Control'
    BY <1>6 DEF LoginTimesOut, SessionExpires
  <1>7. ASSUME NEW c \in Conns, Reload(c) PROVE StateTypeOK' /\ Control'
    BY <1>7 DEF Reload, loadPasswdFile
  <1>8. ASSUME NEW c \in Conns, Admit(c) PROVE StateTypeOK' /\ Control'
    BY <1>8 DEF Admit
  <1>9. ASSUME NEW c \in Conns, LoggedIn(c) PROVE StateTypeOK' /\ Control'
    BY <1>9 DEF LoggedIn
  <1>10. ASSUME NEW c \in Conns, Cleanup(c) PROVE StateTypeOK' /\ Control'
    BY <1>10 DEF Cleanup
  <1>11. ASSUME NEW c \in Conns, Ended(c) PROVE StateTypeOK' /\ Control'
    <2>1. StateTypeOK'
      BY <1>11 DEF Ended
    <2>2. Control'
      BY <1>11 DEF Ended
    <2> QED
      BY <2>1, <2>2
  <1>12. ASSUME NEW v \in Versions \cup {0}, EditFile(v) PROVE StateTypeOK' /\ Control'
    BY <1>12 DEF EditFile, conns
  <1>13. ASSUME NEW v \in Versions, Expire(v) PROVE StateTypeOK' /\ Control'
    BY <1>13 DEF Expire, conns
  <1>14. CASE MinutePasses
    BY <1>14, Zenon DEF MinutePasses, conns
  <1>15. CASE UNCHANGED vars
    BY <1>15 DEF vars, conns
  <1> QED
    BY <1>1, <1>2, <1>3, <1>4, <1>5, <1>6, <1>7, <1>8, <1>9, <1>10, <1>11, <1>12, <1>13, <1>14, <1>15
    DEF Next, Goroutine

-----------------------------------------------------------------------------
(* One element more, or one less. *)
LEMMA OneMore ==
  ASSUME NEW S, IsFiniteSet(S), NEW x, x \notin S
  PROVE  Cardinality(S \cup {x}) = Cardinality(S) + 1
  BY FS_AddElement

(* A connection that leaves a set makes it smaller by one.                 *)
LEMMA OneLess ==
  ASSUME NEW S, IsFiniteSet(S), NEW x, x \in S
  PROVE  Cardinality(S \ {x}) = Cardinality(S) - 1 /\ Cardinality(S) >= 1
  <1>1. Cardinality(S) \in Nat /\ Cardinality(S) # 0
    BY FS_CardinalityType, FS_EmptySet
  <1> QED
    BY <1>1, FS_RemoveElement

(* The counters, step by step. *)
LEMMA CountStep == IInv /\ [Next]_vars => CountInv'
  <1> SUFFICES ASSUME IInv, [Next]_vars PROVE CountInv'
    OBVIOUS
  <1>0. /\ StateTypeOK /\ Control /\ CountInv
        /\ proxyMaxPreAuth \in Nat
        /\ Cardinality(Unknown) \in Nat /\ Cardinality(Refusing) \in Nat
        /\ Cardinality(Sessions) \in Nat
    BY FiniteParts, LoginAssumption DEF IInv
  <1> USE DEF StateTypeOK, Control, CountInv, LoginPhases, Set, To, world, Unknown, Refusing, Sessions
  <1>a. ASSUME Unknown' = Unknown, Refusing' = Refusing, Sessions' = Sessions,
               UNCHANGED <<proxyPreAuthConns, CountConns>>
        PROVE  CountInv'
    BY <1>a, <1>0
  <1>1. ASSUME NEW l \in Listeners, NEW c \in Conns, Accept(l, c) PROVE CountInv'
    <2>1. /\ proxyPreAuthConns' = proxyPreAuthConns + 1 /\ CountConns' = CountConns
          /\ Sessions' = Sessions /\ c \notin Unknown /\ l \notin Refusing
      BY <1>1, <1>0 DEF Accept
    <2>2. CASE proxyPreAuthConns' > proxyMaxPreAuth
      <3>1. Unknown' = Unknown /\ Refusing' = Refusing \cup {l}
        BY <1>1, <2>2, <1>0, LoginAssumption DEF Accept
      <3>2. Cardinality(Refusing') = Cardinality(Refusing) + 1
        BY <2>1, <3>1, FiniteParts, OneMore
      <3> HIDE DEF Unknown, Refusing, Sessions
      <3> QED
        BY <2>1, <3>1, <3>2, <1>0
    <2>3. CASE ~(proxyPreAuthConns' > proxyMaxPreAuth)
      <3>1. Unknown' = Unknown \cup {c} /\ Refusing' = Refusing
        BY <1>1, <2>3, <1>0 DEF Accept
      <3>2. Cardinality(Unknown') = Cardinality(Unknown) + 1
        BY <2>1, <3>1, FiniteParts, OneMore
      <3> HIDE DEF Unknown, Refusing, Sessions
      <3> QED
        BY <2>1, <2>3, <3>1, <3>2, <1>0
    <2> QED
      BY <2>2, <2>3
  <1>2. ASSUME NEW l \in Listeners, Refuse(l) PROVE CountInv'
    <2>1. /\ proxyPreAuthConns' = proxyPreAuthConns - 1 /\ CountConns' = CountConns
          /\ Unknown' = Unknown /\ Refusing' = Refusing \ {l} /\ l \in Refusing
      BY <1>2, <1>0 DEF Refuse
    <2>2. Sessions' = Sessions
      BY <1>2, <1>0 DEF Refuse
    <2>3. Cardinality(Refusing') = Cardinality(Refusing) - 1
      BY <2>1, FiniteParts, OneLess
    <2> HIDE DEF Unknown, Refusing, Sessions
    <2> QED
      BY <2>1, <2>2, <2>3, <1>0
  <1>3. ASSUME NEW c \in Conns, Command(c) \/ Leave(c) PROVE CountInv'
    BY <1>3, <1>0, <1>a DEF Command, Leave, vars, conns
  <1>4. ASSUME NEW c \in Conns, NEW v \in Versions \cup {0}, Verify(c, v) PROVE CountInv'
    BY <1>4, <1>0, <1>a DEF Verify
  <1>5. ASSUME NEW c \in Conns, WindowRuns(c) \/ LoginTimesOut(c) \/ SessionExpires(c) PROVE CountInv'
    BY <1>5, <1>0, <1>a DEF WindowRuns, LoginTimesOut, SessionExpires
  <1>6. ASSUME NEW c \in Conns, Reload(c) PROVE CountInv'
    BY <1>6, <1>0, <1>a DEF Reload
  <1>7. ASSUME NEW c \in Conns, Admit(c) PROVE CountInv'
    <2>1. CASE MayLogin
      <3>1. /\ CountConns' = CountConns + 1 /\ proxyPreAuthConns' = proxyPreAuthConns
            /\ Unknown' = Unknown /\ Refusing' = Refusing
            /\ c \notin Sessions /\ Sessions' = Sessions \cup {c}
        BY <1>7, <2>1, <1>0, LoginAssumption DEF Admit
      <3>2. Cardinality(Sessions') = Cardinality(Sessions) + 1
        BY <3>1, FiniteParts, OneMore
      <3> HIDE DEF Unknown, Refusing, Sessions
      <3> QED
        BY <3>1, <3>2, <1>0
    <2>2. CASE ~MayLogin
      BY <1>7, <2>2, <1>0, <1>a DEF Admit
    <2> QED
      BY <2>1, <2>2
  <1>8. ASSUME NEW c \in Conns, LoggedIn(c) PROVE CountInv'
    <2>1. /\ proxyPreAuthConns' = proxyPreAuthConns - 1 /\ CountConns' = CountConns
          /\ c \in Unknown /\ Unknown' = Unknown \ {c} /\ Refusing' = Refusing
          /\ Sessions' = Sessions
      BY <1>8, <1>0 DEF LoggedIn
    <2>2. Cardinality(Unknown') = Cardinality(Unknown) - 1
      BY <2>1, FiniteParts, OneLess
    <2> HIDE DEF Unknown, Refusing, Sessions
    <2> QED
      BY <2>1, <2>2, <1>0
  <1>9. ASSUME NEW c \in Conns, Cleanup(c) PROVE CountInv'
    <2>1. /\ proxyPreAuthConns' = proxyPreAuthConns
          /\ Unknown' = Unknown /\ Refusing' = Refusing
      BY <1>9, <1>0 DEF Cleanup
    <2>2. CASE session[c] # 0
      <3>1. c \in Sessions /\ Sessions' = Sessions \ {c}
        BY <1>9, <2>2, <1>0 DEF Cleanup
      <3>2. Cardinality(Sessions') = Cardinality(Sessions) - 1 /\ Cardinality(Sessions) >= 1
        BY <3>1, FiniteParts, OneLess
      <3>3. CountConns' = CountConns - 1
        BY <1>9, <2>2, <3>2, <1>0 DEF Cleanup
      <3> HIDE DEF Unknown, Refusing, Sessions
      <3> QED
        BY <2>1, <3>1, <3>2, <3>3, <1>0
    <2>3. CASE session[c] = 0
      BY <1>9, <2>1, <2>3, <1>0, <1>a DEF Cleanup
    <2> QED
      BY <2>2, <2>3
  <1>10. ASSUME NEW c \in Conns, Ended(c) PROVE CountInv'
    <2>1. CountConns' = CountConns /\ Refusing' = Refusing /\ Sessions' = Sessions
      BY <1>10, <1>0 DEF Ended
    <2>2. CASE preAuth[c]
      <3>1. /\ proxyPreAuthConns' = proxyPreAuthConns - 1
            /\ c \in Unknown /\ Unknown' = Unknown \ {c}
        BY <1>10, <2>2, <1>0 DEF Ended
      <3>2. Cardinality(Unknown') = Cardinality(Unknown) - 1
        BY <3>1, FiniteParts, OneLess
      <3> HIDE DEF Unknown, Refusing, Sessions
      <3> QED
        BY <2>1, <3>1, <3>2, <1>0
    <2>3. CASE ~preAuth[c]
      BY <1>10, <2>1, <2>3, <1>0, <1>a DEF Ended
    <2> QED
      BY <2>2, <2>3
  <1>11. ASSUME NEW v \in Versions \cup {0}, EditFile(v) PROVE CountInv'
    BY <1>11, <1>0, <1>a DEF EditFile, conns
  <1>12. ASSUME NEW v \in Versions, Expire(v) PROVE CountInv'
    BY <1>12, <1>0, <1>a DEF Expire, conns
  <1>13. CASE MinutePasses \/ UNCHANGED vars
    BY <1>13, <1>0, <1>a DEF MinutePasses, vars, conns
  <1> QED
    BY <1>1, <1>2, <1>3, <1>4, <1>5, <1>6, <1>7, <1>8, <1>9, <1>10, <1>11, <1>12, <1>13
    DEF Next, Goroutine

(* Every step keeps the invariant.                                         *)
LEMMA StepIInv == IInv /\ [Next]_vars => IInv'
  BY ControlStep, CountStep DEF IInv

-----------------------------------------------------------------------------
(* The checked invariant follows. *)
LEMMA IInvCounts == IInv => CountersExact
  <1> SUFFICES ASSUME IInv PROVE CountersExact
    OBVIOUS
  <1>1. PreAuthExact /\ CountExact
    BY DEF IInv, CountInv, PreAuthExact, CountExact, Unknown, Refusing, Sessions
  <1>2. PreAuthBounded
    <2> DEFINE Served == {c \in Conns : phase[c] \in LoginPhases}
    <2>1. Served \subseteq Unknown
      BY DEF IInv, Control, Unknown
    <2>2. IsFiniteSet(Served) /\ Cardinality(Served) <= Cardinality(Unknown)
      BY <2>1, FiniteParts, FS_Subset
    <2>3. Cardinality(Served) \in Nat
      BY <2>2, FS_CardinalityType
    <2>4. Cardinality(Served) <= proxyMaxPreAuth
      BY <2>2, <2>3, FiniteParts, LoginAssumption DEF IInv, CountInv
    <2> QED
      BY <2>4 DEF PreAuthBounded
  <1>3. UsersStay
    BY LoginAssumption DEF IInv, StateTypeOK, UsersStay
  <1>4. TypeOK
    <2>1. /\ proxyPreAuthConns \in 0..proxyMaxPreAuth + Cardinality(Listeners)
          /\ CountConns \in 0..Cardinality(Conns)
      BY FiniteParts, LoginAssumption DEF IInv, CountInv
    <2>2. passwdMap \in Versions \cup {0}
      BY DEF IInv, StateTypeOK
    <2>3. window \in [Conns -> 0..LoginTimeout] /\ reloadDue \in BOOLEAN
      BY DEF IInv, StateTypeOK
    <2>4. /\ lphase \in [Listeners -> Conns \cup {NoConn}]
          /\ phase \in [Conns -> LoginPhases \cup {"none", "refused", "welcome", "authed", "end", "ended", "closed"}]
          /\ preAuth \in [Conns -> BOOLEAN]
          /\ session \in [Conns -> Versions \cup {0}]
          /\ file \in Versions \cup {0} /\ expired \subseteq Versions
      BY DEF IInv, StateTypeOK
    <2> QED
      BY <2>1, <2>2, <2>3, <2>4 DEF TypeOK
  <1> QED
    BY <1>1, <1>2, <1>3, <1>4 DEF CountersExact

(* Both counters are exact and bounded for any number of listeners and     *)
(* connections, and no reload leaves the proxy without users.              *)
THEOREM CountersAlwaysExact == Spec => []CountersExact
  BY InitIInv, StepIInv, IInvCounts, PTL DEF Spec

(* Only login counts a session up, and it looks at the user as loaded at   *)
(* that moment, however long ago it checked the password.                  *)
THEOREM LoginAlwaysWithinLimits == Spec => LoginWithinLimits
  <1>1. ASSUME IInv, [Next]_vars, CountConns' > CountConns
        PROVE  /\ passwdMap # 0 /\ passwdMap \notin expired
               /\ MaxConns[passwdMap] > 0 => CountConns' <= MaxConns[passwdMap]
    <2>0. CountConns \in Nat /\ passwdMap \in Versions
      BY <1>1, FiniteParts DEF IInv, CountInv, StateTypeOK
    <2>a. ASSUME NEW c \in Conns, Goroutine(c), ~Admit(c) PROVE ~(CountConns' > CountConns)
      <3>1. CASE Cleanup(c)
        BY <2>0, <3>1 DEF Cleanup
      <3>2. CASE ~Cleanup(c)
        <4>1. CountConns' = CountConns
          BY <2>a, <3>2 DEF Goroutine, WindowRuns, LoginTimesOut, Reload, LoggedIn, SessionExpires,
                            Ended
        <4> QED
          BY <2>0, <4>1
      <3> QED
        BY <3>1, <3>2
    <2>b. ASSUME NEW c \in Conns, NEW l \in Listeners, Accept(l, c) PROVE CountConns' = CountConns
      BY <2>b DEF Accept
    <2>c. ASSUME NEW c \in Conns, Command(c) \/ Leave(c) \/ \E v \in Versions \cup {0} : Verify(c, v)
          PROVE  CountConns' = CountConns
      BY <2>c DEF Command, Leave, Verify, vars
    <2>d. ASSUME NEW l \in Listeners, Refuse(l) PROVE CountConns' = CountConns
      BY <2>d DEF Refuse
    <2>e. ASSUME NEW v \in Versions \cup {0}, EditFile(v) \/ Expire(v) PROVE CountConns' = CountConns
      BY <2>e DEF EditFile, Expire
    <2>g. MinutePasses \/ UNCHANGED vars => CountConns' = CountConns
      BY DEF MinutePasses, vars
    <2>f. \E c \in Conns : Goroutine(c)
      <3>1. CountConns' # CountConns
        BY <2>0, <1>1
      <3>2. Next /\ ~MinutePasses
        BY <3>1, <1>1, <2>g
      <3>3. /\ ~(\E l \in Listeners : Refuse(l) \/ \E c \in Conns : Accept(l, c))
            /\ ~(\E v \in Versions \cup {0} : EditFile(v))
            /\ ~(\E v \in Versions : Expire(v))
        BY <3>1, <2>b, <2>d, <2>e
      <3>4. PICK c \in Conns : \/ Goroutine(c) \/ Command(c) \/ Leave(c)
                              \/ \E v \in Versions \cup {0} : Verify(c, v)
        BY <3>2, <3>3, Zenon DEF Next
      <3> QED
        BY <3>1, <3>4, <2>c
    <2>1. PICK c \in Conns : Admit(c)
      BY <2>0, <1>1, <2>a, <2>f
    <2>2. MayLogin /\ CountConns' = CountConns + 1
      BY <1>1, <2>0, <2>1 DEF Admit
    <2> QED
      BY <2>0, <2>2, LoginAssumption DEF MayLogin
  <1> QED
    BY InitIInv, StepIInv, <1>1, PTL DEF Spec, LoginWithinLimits
=============================================================================
