--------------------------- MODULE ConnPoolProofs ---------------------------
(***************************************************************************)
(* Proofs about the connection pool, for every set of clients, workers and *)
(* routines and every limit. First lemmas about ConnPool: what the steps   *)
(* of GetConn and of a connection's holder do to the pool's control state  *)
(* and to the count of connections; rest stands there for the connections  *)
(* that are neither idle nor with a client (forgotten ones, or those in a  *)
(* worker's channel). Then its two users: ProxyPool, whose count of open   *)
(* connections is exact and keeps its limit, and SharedConn, where each    *)
(* running worker has one token, every connection is counted once, and no  *)
(* goroutine of a session ever waits in GetConn for a parked connection.   *)
(***************************************************************************)
EXTENDS SharedConn, ProxyPool, FiniteSetTheorems, TLAPS

(* A client inside GetConn has nothing in hand and tries left; one that    *)
(* holds a connection got it from GetConn's last return.                   *)
PoolControl ==
  \A c \in Clients :
    /\ pc[c] # "out" => /\ holds[c] = "none" /\ result[c] = "none"
                        /\ retried[c] < MaxConnErrors
    /\ holds[c] # "none" <=> result[c] \in {"conn", "connErr"}
    /\ holds[c] = "dead" => result[c] = "conn"

PoolInv == PoolTypeOK /\ PoolControl /\ openConns <= MaxConns

(* The clients with a connection of their own can be counted. *)
LEMMA OwnersFinite == IsFiniteSet(Owners) /\ Cardinality(Owners) \in Nat
  <1>1. Owners \in SUBSET Clients
    BY DEF Owners
  <1>2. IsFiniteSet(Owners)
    BY <1>1, FS_Subset, PoolAssumption
  <1> QED
    BY <1>2, FS_CardinalityType

(* A client that gets or makes a connection joins the owners ...           *)
LEMMA OwnerJoins ==
  ASSUME NEW c \in Clients, c \notin Owners, Owners' = Owners \cup {c}
  PROVE  Cardinality(Owners') = Cardinality(Owners) + 1
  BY OwnersFinite, FS_AddElement

(* ... and one that closes it, or hands it over, leaves them. *)
LEMMA OwnerLeaves ==
  ASSUME NEW c \in Clients, c \in Owners, Owners' = Owners \ {c}
  PROVE  /\ Cardinality(Owners') = Cardinality(Owners) - 1
         /\ Cardinality(Owners) >= 1
  BY OwnersFinite, FS_RemoveElement, FS_EmptySet

-----------------------------------------------------------------------------
(* NewPool: nothing counted, nobody in GetConn. *)
LEMMA PoolInitially ==
  ASSUME PoolInit
  PROVE  PoolInv /\ Owners = {} /\ openConns = idle /\ idle = 0
  <1>1. PoolTypeOK /\ openConns <= MaxConns
    <2>1. 0 \in 0..MaxConns /\ 0 \in 0..MaxConns + 1 /\ 0 \in 0..MaxConnErrors
      BY PoolAssumption
    <2>2. retried \in [Clients -> 0..MaxConnErrors]
      BY <2>1 DEF PoolInit
    <2>3. /\ pc \in [Clients -> PCs] /\ stale \in [Clients -> BOOLEAN]
          /\ via \in [Clients -> {"expired", "empty"}]
          /\ result \in [Clients -> {"none", "conn", "connErr", "err"}]
          /\ holds \in [Clients -> {"none", "open", "dead"}]
          /\ down \in BOOLEAN /\ sessStop \in BOOLEAN
      BY DEF PoolInit, PCs
    <2>4. openConns = 0 /\ idle = 0
      BY DEF PoolInit
    <2>5. openConns \in 0..MaxConns + 1 /\ idle \in 0..MaxConns /\ openConns <= MaxConns
      BY <2>1, <2>4
    <2> QED
      BY <2>2, <2>3, <2>5, Zenon DEF PoolTypeOK
  <1>2. PoolControl /\ Owners = {}
    BY DEF PoolInit, PoolControl, Owners
  <1> QED
    BY <1>1, <1>2 DEF PoolInit, PoolInv

(* Entering GetConn changes no count. *)
LEMMA EnterGetConn ==
  ASSUME NEW c \in Clients, PoolInv, GetConn(c)
  PROVE  /\ PoolInv' /\ Owners' = Owners
         /\ openConns' = openConns /\ idle' = idle
  <1> USE PoolAssumption
  <1>1. PoolInv'
    BY DEF GetConn, Goto, PoolInv, PoolTypeOK, PoolControl, PCs
  <1>2. Owners' = Owners
    BY DEF GetConn, Goto, PoolInv, PoolTypeOK, PoolControl, Owners
  <1> QED
    BY <1>1, <1>2 DEF GetConn

-----------------------------------------------------------------------------
(* The control state of GetConn. *)
LEMMA GetConnControl ==
  ASSUME NEW c \in Clients, PoolTypeOK, PoolControl, GetConnStep(c)
  PROVE  PoolControl' /\ (openConns' \in 0..MaxConns + 1 => PoolTypeOK')
  <1> DEFINE Goal == PoolControl' /\ (openConns' \in 0..MaxConns + 1 => PoolTypeOK')
  <1> SUFFICES Goal
    OBVIOUS
  <1> USE PoolAssumption DEF PoolTypeOK, PoolControl, PCs, Goto
  <1>1. CASE TakeFresh(c) \/ TakeParked(c)
    <2>1. ReturnConn(c, stale[c]) /\ pc[c] # "out"
          /\ idle' \in 0..MaxConns /\ UNCHANGED <<down, sessStop, retried, via>>
      BY <1>1 DEF TakeFresh, TakeParked
    <2> QED
      BY <2>1 DEF ReturnConn
  <1>2. CASE TakeAged(c) \/ CloseAged(c)
    BY <1>2 DEF TakeAged, CloseAged
  <1>3. CASE FoundEmpty(c) \/ CheckAllOpen(c) \/ CheckMayDial(c)
    BY <1>3 DEF FoundEmpty, CheckAllOpen, CheckMayDial
  <1>4. CASE Refused(c)
    BY <1>4 DEF Refused, ReturnErr
  <1>5. CASE NewConnCount(c) \/ AcquireDialSem(c)
    BY <1>5 DEF NewConnCount, AcquireDialSem
  <1>6. CASE DialOK(c)
    BY <1>6 DEF DialOK, ReturnConn
  <1>7. ASSUME NEW isDial \in BOOLEAN, NewConnFailed(c, isDial), pc[c] # "out",
               UNCHANGED <<idle, sessStop, via>>
        PROVE  Goal
    <2>1. CASE via[c] = "expired"
      BY <1>7, <2>1 DEF NewConnFailed, ReturnErr
    <2>2. CASE via[c] = "empty" /\ retried[c] + 1 < MaxConnErrors
      BY <1>7, <2>2 DEF NewConnFailed, ReturnErr
    <2>3. CASE via[c] = "empty" /\ retried[c] + 1 >= MaxConnErrors
      <3>1. /\ retried' = [retried EXCEPT ![c] = @ + 1] /\ retried[c] + 1 \in 0..MaxConnErrors
            /\ down' = (down \/ (isDial /\ ~Proxy))
            /\ ReturnErr(c)
        BY <1>7, <2>3 DEF NewConnFailed
      <3>2. down' \in BOOLEAN
        BY <3>1, Zenon
      <3> QED
        BY <1>7, <3>1, <3>2 DEF ReturnErr
    <2> QED
      BY <2>1, <2>2, <2>3
  <1>8. CASE NewConnNoRoom(c) \/ DialSemStopped(c) \/ DialFailed(c)
    BY <1>8, <1>7 DEF NewConnNoRoom, DialSemStopped, DialFailed
  <1> HIDE DEF Goal
  <1> QED
    BY <1>1, <1>2, <1>3, <1>4, <1>5, <1>6, <1>8 DEF GetConnStep

(* A step of GetConn is the step of a client that is inside it, and leaves *)
(* what the other clients know alone.                                      *)
LEMMA GetConnTouchesOwn ==
  ASSUME NEW c \in Clients, PoolTypeOK, GetConnStep(c)
  PROVE  /\ pc[c] # "out"
         /\ sessStop' = sessStop
         /\ \A d \in Clients \ {c} :
              pc'[d] = pc[d] /\ holds'[d] = holds[d] /\ result'[d] = result[d]
  <1> USE DEF PoolTypeOK, Goto, ReturnConn, ReturnErr, NewConnFailed
  <1>1. CASE TakeFresh(c) \/ TakeParked(c) \/ TakeAged(c) \/ CloseAged(c)
    BY <1>1 DEF TakeFresh, TakeParked, TakeAged, CloseAged
  <1>2. CASE FoundEmpty(c) \/ CheckAllOpen(c) \/ CheckMayDial(c) \/ Refused(c)
    BY <1>2 DEF FoundEmpty, CheckAllOpen, CheckMayDial, Refused
  <1>3. CASE NewConnCount(c) \/ AcquireDialSem(c) \/ DialOK(c)
    BY <1>3 DEF NewConnCount, AcquireDialSem, DialOK
  <1>4. CASE NewConnNoRoom(c)
    BY <1>4 DEF NewConnNoRoom
  <1>5. CASE DialSemStopped(c)
    BY <1>5 DEF DialSemStopped
  <1>6. CASE DialFailed(c)
    BY <1>6 DEF DialFailed
  <1> QED
    BY <1>1, <1>2, <1>3, <1>4, <1>5, <1>6 DEF GetConnStep

(* A client inside GetConn never has a closed connection. *)
LEMMA GetConnHandsOut ==
  ASSUME NEW c \in Clients, PoolTypeOK, PoolControl, GetConnStep(c)
  PROVE  holds'[c] # "dead"
  <1>1. PoolControl' /\ holds[c] # "dead"
    BY GetConnControl, GetConnTouchesOwn DEF PoolControl
  <1> USE <1>1 DEF PoolTypeOK
  <1>2. holds' = holds \/ ReturnConn(c, stale[c]) \/ ReturnConn(c, FALSE)
    BY DEF GetConnStep, TakeFresh, TakeParked, TakeAged, CloseAged, FoundEmpty, CheckAllOpen,
           CheckMayDial, Refused, NewConnCount, AcquireDialSem, DialOK, NewConnNoRoom,
           DialSemStopped, DialFailed, NewConnFailed, ReturnErr
  <1> QED
    BY <1>2 DEF ReturnConn

(* GetConn counts what it takes, makes and closes: whatever a step moves   *)
(* between the idle connections, the client and nothing, openConns follows.*)
LEMMA GetConnCounts ==
  ASSUME NEW c \in Clients, NEW rest \in Nat, PoolInv, GetConnStep(c),
         openConns = idle + Cardinality(Owners) + rest
  PROVE  /\ openConns' = idle' + Cardinality(Owners') + rest
         /\ openConns' \in 0..MaxConns
  <1> DEFINE Goal == /\ openConns' = idle' + Cardinality(Owners') + rest
                     /\ openConns' \in 0..MaxConns
  <1> SUFFICES Goal
    OBVIOUS
  <1>0. /\ openConns \in 0..MaxConns /\ idle \in 0..MaxConns /\ MaxConns \in Nat
        /\ Cardinality(Owners) \in Nat
        /\ PoolTypeOK /\ PoolControl
    BY OwnersFinite, PoolAssumption DEF PoolInv, PoolTypeOK
  (* It is enough to say how the owners and the two counts change. *)
  <1>a. ASSUME Owners' = Owners, openConns' = openConns, idle' = idle
        PROVE  Goal
    BY <1>a, <1>0
  <1>b. ASSUME c \notin Owners, Owners' = Owners \cup {c}, idle > 0,
               openConns' = openConns, idle' = idle - 1
        PROVE  Goal
    BY <1>b, <1>0, OwnerJoins
  <1>c. ASSUME c \notin Owners, Owners' = Owners \cup {c}, openConns < MaxConns,
               openConns' = openConns + 1, idle' = idle
        PROVE  Goal
    BY <1>c, <1>0, OwnerJoins
  <1>d. ASSUME c \in Owners, Owners' = Owners \ {c},
               openConns' = openConns - 1, idle' = idle
        PROVE  Goal
    <2>1. Cardinality(Owners') = Cardinality(Owners) - 1 /\ Cardinality(Owners) >= 1
      BY <1>d, OwnerLeaves
    <2> QED
      BY <1>d, <2>1, <1>0
  <1> HIDE DEF Goal
  <1> USE <1>0 DEF PoolTypeOK, PoolControl, Owners, Goto, PCs
  <1>1. CASE TakeFresh(c)
    BY <1>1, <1>b DEF TakeFresh, ReturnConn
  <1>2. CASE TakeParked(c)
    BY <1>2, <1>b DEF TakeParked, ReturnConn
  <1>3. CASE TakeAged(c)
    BY <1>3, <1>b DEF TakeAged
  <1>4. CASE CloseAged(c)
    BY <1>4, <1>d DEF CloseAged
  <1>5. CASE FoundEmpty(c) \/ CheckAllOpen(c) \/ CheckMayDial(c)
    BY <1>5, <1>a DEF FoundEmpty, CheckAllOpen, CheckMayDial
  <1>6. CASE Refused(c)
    BY <1>6, <1>a DEF Refused, ReturnErr
  <1>7. CASE NewConnCount(c)
    BY <1>7, <1>c DEF NewConnCount
  <1>8. CASE AcquireDialSem(c)
    BY <1>8, <1>a DEF AcquireDialSem
  <1>9. CASE DialOK(c)
    BY <1>9, <1>a DEF DialOK, ReturnConn
  <1>10. CASE NewConnNoRoom(c)
    BY <1>10, <1>a DEF NewConnNoRoom, NewConnFailed, ReturnErr
  <1>11. CASE DialSemStopped(c)
    BY <1>11, <1>d DEF DialSemStopped, NewConnFailed, ReturnErr
  <1>12. CASE DialFailed(c)
    BY <1>12, <1>d DEF DialFailed, NewConnFailed, ReturnErr
  <1> QED
    BY <1>1, <1>2, <1>3, <1>4, <1>5, <1>6, <1>7, <1>8, <1>9, <1>10, <1>11, <1>12
    DEF GetConnStep

(* Together: a step of GetConn keeps the pool's invariant and its account. *)
LEMMA GetConnKeepsPool ==
  ASSUME NEW c \in Clients, NEW rest \in Nat, PoolInv, GetConnStep(c),
         openConns = idle + Cardinality(Owners) + rest
  PROVE  PoolInv' /\ openConns' = idle' + Cardinality(Owners') + rest
  <1>1. /\ openConns' = idle' + Cardinality(Owners') + rest
        /\ openConns' \in 0..MaxConns
    BY GetConnCounts
  <1>2. PoolControl' /\ PoolTypeOK'
    BY <1>1, GetConnControl, PoolAssumption DEF PoolInv
  <1> QED
    BY <1>1, <1>2, PoolAssumption DEF PoolInv
-----------------------------------------------------------------------------
(* A client lets go of its connection (parked, closed or forgotten): it    *)
(* owns nothing afterwards, and the control state is as GetConn wants it.  *)
LEMMA LetGoControl ==
  ASSUME NEW c \in Clients, PoolInv, LetGo(c), result[c] # "none"
  PROVE  /\ PoolControl'
         /\ idle' \in 0..MaxConns /\ openConns' \in 0..MaxConns + 1 => PoolTypeOK'
         /\ holds[c] = "open" => c \in Owners /\ Owners' = Owners \ {c}
         /\ holds[c] # "open" => Owners' = Owners
  <1> USE PoolAssumption DEF LetGo, PoolInv, PoolTypeOK, PoolControl
  <1>1. PoolControl'
    OBVIOUS
  <1>2. idle' \in 0..MaxConns /\ openConns' \in 0..MaxConns + 1 => PoolTypeOK'
    OBVIOUS
  <1>3. holds[c] = "open" => c \in Owners /\ Owners' = Owners \ {c}
    BY DEF Owners
  <1>4. holds[c] # "open" => Owners' = Owners
    BY DEF Owners
  <1> QED
    BY <1>1, <1>2, <1>3, <1>4

(* An article over the size limit: the connection is closed and no longer  *)
(* counted, but stays with its client.                                     *)
LEMMA CloseInRead ==
  ASSUME NEW c \in Clients, NEW rest \in Nat, PoolInv, ReadDotLinesCloses(c),
         openConns = idle + Cardinality(Owners) + rest
  PROVE  PoolInv' /\ openConns' = idle' + Cardinality(Owners') + rest
  <1> USE PoolAssumption DEF ReadDotLinesCloses, CloseOnce, PoolInv, PoolTypeOK, PoolControl
  <1>1. idle' = idle /\ openConns' = openConns - 1
    OBVIOUS
  <1>2. c \in Owners /\ Owners' = Owners \ {c}
    BY DEF Owners
  <1>3. Cardinality(Owners') = Cardinality(Owners) - 1 /\ Cardinality(Owners) >= 1
    BY <1>2, OwnerLeaves
  <1>4. openConns' = idle' + Cardinality(Owners') + rest /\ openConns' \in 0..MaxConns
    BY <1>1, <1>3, OwnersFinite
  <1>5. PoolTypeOK'
    BY <1>1, <1>4
  <1>6. PoolControl'
    OBVIOUS
  <1> QED
    BY <1>4, <1>5, <1>6

(***************************************************************************)
(* ProxyPool: the clients of the NNTP proxy share a pool                   *)
(***************************************************************************)

(* The pool's invariant with the proxy's account of it: inductive. *)
ProxyInv == PoolInv /\ lost \in Nat /\ ProxyConnsExact

-----------------------------------------------------------------------------
(* The pool starts empty and nothing is forgotten. *)
LEMMA ProxyInitInv == ProxyInit => ProxyInv
  <1> SUFFICES ASSUME ProxyInit PROVE ProxyInv
    OBVIOUS
  <1>1. PoolInv /\ Owners = {} /\ openConns = idle /\ idle = 0 /\ lost = 0
    BY PoolInitially DEF ProxyInit
  <1> QED
    BY <1>1, FS_EmptySet DEF ProxyInv, ProxyConnsExact

-----------------------------------------------------------------------------
(* Every step of a client keeps the count exact. *)
LEMMA ProxyStepInv == ProxyInv /\ [ProxyNext]_proxyVars => ProxyInv'
  <1> SUFFICES ASSUME ProxyInv, [ProxyNext]_proxyVars PROVE ProxyInv'
    OBVIOUS
  <1>0. /\ PoolInv /\ lost \in Nat
        /\ openConns = idle + Cardinality(Owners) + lost
        /\ openConns \in 0..MaxConns /\ idle \in 0..MaxConns /\ MaxConns \in Nat
        /\ Cardinality(Owners) \in Nat
    BY OwnersFinite, PoolAssumption DEF ProxyInv, ProxyConnsExact, PoolInv, PoolTypeOK
  (* What is left when a client lets go: the two counts and the forgotten. *)
  <1>a. ASSUME NEW c \in Clients, LetGo(c), result[c] # "none", holds[c] = "open",
               \/ openConns' = openConns /\ idle' = idle + 1 /\ idle < MaxConns /\ lost' = lost
               \/ openConns' = openConns - 1 /\ idle' = idle /\ lost' = lost
               \/ openConns' = openConns /\ idle' = idle /\ lost' = lost + 1
        PROVE  ProxyInv'
    <2>1. c \in Owners /\ Owners' = Owners \ {c}
      BY <1>a, <1>0, LetGoControl
    <2>2. Cardinality(Owners') = Cardinality(Owners) - 1 /\ Cardinality(Owners) >= 1
      BY <2>1, OwnerLeaves
    <2>3. /\ openConns' = idle' + Cardinality(Owners') + lost'
          /\ openConns' \in 0..MaxConns /\ idle' \in 0..MaxConns /\ lost' \in Nat
      BY <1>a, <1>0, <2>2
    <2>4. PoolControl' /\ PoolTypeOK'
      BY <1>a, <1>0, <2>3, LetGoControl
    <2> QED
      BY <2>3, <2>4, PoolAssumption DEF ProxyInv, PoolInv, ProxyConnsExact
  <1>b. ASSUME NEW c \in Clients, LetGo(c), result[c] # "none", holds[c] # "open",
               openConns' = openConns, idle' = idle, lost' = lost
        PROVE  ProxyInv'
    <2>1. Owners' = Owners /\ PoolControl' /\ PoolTypeOK'
      BY <1>b, <1>0, LetGoControl
    <2> QED
      BY <1>b, <1>0, <2>1 DEF ProxyInv, PoolInv, ProxyConnsExact
  <1>1. ASSUME NEW c \in Clients, Command(c) PROVE ProxyInv'
    BY <1>1, <1>0, EnterGetConn DEF Command, ProxyInv, ProxyConnsExact
  <1>2. ASSUME NEW c \in Clients, InGet(c) PROVE ProxyInv'
    BY <1>2, <1>0, GetConnKeepsPool DEF InGet, ProxyInv, ProxyConnsExact
  <1>3. ASSUME NEW c \in Clients, GaveUp(c) PROVE ProxyInv'
    BY <1>3, <1>a, <1>b DEF GaveUp, Forget
  <1>4. ASSUME NEW c \in Clients, ParkConn(c) PROVE ProxyInv'
    BY <1>4, <1>a, <1>0 DEF ParkConn, ParkItem
  <1>5. ASSUME NEW c \in Clients, ReplyTooLarge(c) PROVE ProxyInv'
    BY <1>5, <1>0, CloseInRead DEF ReplyTooLarge, ProxyInv, ProxyConnsExact
  <1>6. ASSUME NEW c \in Clients, CloseUpstream(c) PROVE ProxyInv'
    BY <1>6, <1>a, <1>b DEF CloseUpstream, CloseOnce
  <1>7. CASE UNCHANGED proxyVars
    BY <1>7 DEF proxyVars, poolVars, ProxyInv, PoolInv, PoolTypeOK, PoolControl, ProxyConnsExact, Owners
  <1> QED
    BY <1>1, <1>2, <1>3, <1>4, <1>5, <1>6, <1>7 DEF ProxyNext

-----------------------------------------------------------------------------
(* Whoever holds an open connection is counted, so that the idle ones are  *)
(* fewer than the limit; and what was forgotten is counted too.            *)
LEMMA RoomToPark == ProxyInv => PoolBounded
  <1> SUFFICES ASSUME ProxyInv PROVE PoolBounded
    OBVIOUS
  <1>0. /\ PoolTypeOK /\ lost \in Nat
        /\ openConns = idle + Cardinality(Owners) + lost
        /\ openConns <= MaxConns /\ openConns \in Nat /\ idle \in Nat /\ MaxConns \in Nat
        /\ IsFiniteSet(Owners) /\ Cardinality(Owners) \in Nat
    BY OwnersFinite, PoolAssumption DEF ProxyInv, PoolInv, PoolTypeOK, ProxyConnsExact
  <1>1. ASSUME NEW c \in Clients, holds[c] = "open" PROVE idle < MaxConns
    <2>1. Owners # {}
      BY <1>1 DEF Owners
    <2>2. Cardinality(Owners) # 0
      BY <2>1, <1>0, FS_EmptySet
    <2> QED
      BY <2>2, <1>0
  <1>2. lost \in 0..MaxConns
    BY <1>0
  <1> QED
    BY <1>0, <1>1, <1>2 DEF PoolBounded, ProxyTypeOK, NeverOverMaxConns, ParkFindsRoom

(* openConns counts every connection of the proxy's pool once, however     *)
(* dialing, parking, closing twice and forgetting interleave.              *)
THEOREM OpenConnsAlwaysExact == ProxySpec => []ProxyConnsExact
  <1>1. ProxyInv => ProxyConnsExact
    BY DEF ProxyInv
  <1> QED
    BY ProxyInitInv, ProxyStepInv, <1>1, PTL DEF ProxySpec

(* The pool keeps its limit although GetConn decides to dial on a count it *)
(* read before, and whoever parks a connection finds room for it: the two  *)
(* comments of ConnPool.go that say "should be impossible".                *)
THEOREM PoolAlwaysBounded == ProxySpec => []PoolBounded
  BY ProxyInitInv, ProxyStepInv, RoomToPark, PTL DEF ProxySpec

(***************************************************************************)
(* SharedConn: the workers of a session and their routines                 *)
(***************************************************************************)

(* c is not in GetConn and has no connection. *)
AtRest(c) == pc[c] = "out" /\ holds[c] = "none" /\ result[c] = "none"

SharedTypeOK ==
  /\ cc \in [Workers -> {"empty", "nil", "open"}]
  /\ wphase \in [Workers -> {"boot", "up", "ended"}]
  /\ phase \in [Routines -> {"idle", "ask", "blocked", "got", "ended"}]
  /\ lost \in Nat /\ killed \in BOOLEAN

(* A worker asks the pool only while it boots, a routine only while it has *)
(* the token; a worker that is not up has nothing in its channel and no    *)
(* routine at work.                                                        *)
Control ==
  /\ \A w \in Workers :
       /\ wphase[w] # "boot" => AtRest(w)
       /\ holds[w] # "dead"
       /\ wphase[w] # "up" => cc[w] = "empty"
  /\ \A r \in Routines :
       /\ phase[r] # "got" => AtRest(r)
       /\ wphase[workerOf[r]] # "up" => phase[r] \in {"idle", "ended"}

(* OneToken without counting: a token in hand is not in the channel, two   *)
(* routines do not have it, and one has it when the channel is empty.      *)
Tokens ==
  /\ \A r \in Routines : phase[r] = "got" => cc[workerOf[r]] = "empty"
  /\ \A r, s \in Routines :
       phase[r] = "got" /\ phase[s] = "got" /\ workerOf[r] = workerOf[s] => r = s
  /\ \A w \in Workers :
       wphase[w] = "up" /\ cc[w] = "empty" =>
         \E r \in Routines : workerOf[r] = w /\ phase[r] = "got"

ControlInv == PoolInv /\ SharedTypeOK /\ Control /\ Tokens

(* The channels that hold a connection, the connections that GetConn       *)
(* returned together with an error, and the workers that are gone.         *)
InChannel == {w \in Workers : cc[w] = "open"}
Spoiled == {c \in Clients : holds[c] = "open" /\ result[c] = "connErr"}
Gone == {w \in Workers : wphase[w] = "ended"}

(* Idle, forgotten and soon to be forgotten connections are left over from *)
(* workers that are gone: a running session parks nothing, and GetConn's   *)
(* leftover error needs an idle connection that was too old.               *)
Leftovers == idle + lost + Cardinality(Spoiled) <= Cardinality(Gone)

CountInv == OpenConnsExact /\ Leftovers

IInv == ControlInv /\ CountInv /\ SessionNeverWaits

(* Everything that is counted is finite. *)
LEMMA FiniteParts ==
  /\ IsFiniteSet(Workers) /\ IsFiniteSet(Routines)
  /\ IsFiniteSet(InChannel) /\ Cardinality(InChannel) \in Nat
  /\ IsFiniteSet(Spoiled) /\ Cardinality(Spoiled) \in Nat
  /\ IsFiniteSet(Gone) /\ Cardinality(Gone) \in Nat
  <1>1. Workers \in SUBSET Clients /\ Routines \in SUBSET Clients /\ Spoiled \in SUBSET Clients
    BY SharedAssumption DEF Spoiled
  <1>2. IsFiniteSet(Workers) /\ IsFiniteSet(Routines) /\ IsFiniteSet(Spoiled)
    BY <1>1, FS_Subset, PoolAssumption
  <1>3. InChannel \in SUBSET Workers /\ Gone \in SUBSET Workers
    BY DEF InChannel, Gone
  <1>4. IsFiniteSet(InChannel) /\ IsFiniteSet(Gone)
    BY <1>2, <1>3, FS_Subset
  <1> QED
    BY <1>2, <1>4, FS_CardinalityType

-----------------------------------------------------------------------------
(* The initial state: no channel has a connection, no worker is gone. *)
LEMMA InitIInv == Init => IInv
  <1> SUFFICES ASSUME Init PROVE IInv
    OBVIOUS
  <1>1. PoolInv /\ Owners = {} /\ openConns = 0 /\ idle = 0 /\ lost = 0
    BY PoolInitially DEF Init
  <1>2. SharedTypeOK
    BY DEF Init, SharedTypeOK
  <1>3. Control /\ Tokens /\ SessionNeverWaits
    BY SharedAssumption DEF Init, PoolInit, Control, Tokens, AtRest, SessionNeverWaits
  <1>4. InChannel = {} /\ Spoiled = {} /\ Gone = {}
    BY DEF Init, PoolInit, InChannel, Spoiled, Gone
  <1>5. OpenConnsExact
    BY <1>1, <1>4, FS_EmptySet DEF OpenConnsExact, InChannel
  <1>6. Leftovers
    BY <1>1, <1>4, FS_EmptySet DEF Leftovers
  <1> QED
    BY <1>1, <1>2, <1>3, <1>5, <1>6 DEF IInv, ControlInv, CountInv

(* A client lets go of its connection: it is at rest again, alone. *)
LEMMA LetGoRests ==
  ASSUME NEW c \in Clients, PoolInv, LetGo(c), result[c] # "none"
  PROVE  /\ pc'[c] = "out" /\ holds'[c] = "none" /\ result'[c] = "none"
         /\ \A d \in Clients \ {c} :
              pc'[d] = pc[d] /\ holds'[d] = holds[d] /\ result'[d] = result[d]
  BY DEF PoolInv, PoolTypeOK, PoolControl, LetGo

-----------------------------------------------------------------------------
(* Control state and tokens, step by step. *)
LEMMA ControlStep == ControlInv /\ [Next]_vars => Control' /\ Tokens'
  <1> SUFFICES ASSUME ControlInv, [Next]_vars PROVE Control' /\ Tokens'
    OBVIOUS
  <1> USE SharedAssumption
      DEF ControlInv, SharedTypeOK, Control, Tokens, AtRest, Send, To
  <1>0. PoolTypeOK /\ PoolControl
    BY DEF PoolInv
  <1>1. ASSUME NEW c \in Clients, InGetConn(c) PROVE Control' /\ Tokens'
    <2>1. /\ pc[c] # "out" /\ UNCHANGED sharedVars
          /\ \A d \in Clients \ {c} :
               pc'[d] = pc[d] /\ holds'[d] = holds[d] /\ result'[d] = result[d]
      BY <1>0, <1>1, GetConnTouchesOwn DEF InGetConn
    <2>2. holds'[c] # "dead"
      BY <1>1, <1>0, GetConnHandsOut DEF InGetConn
    <2>3. c \in Workers => wphase[c] = "boot"
      BY <2>1
    <2>4. c \in Routines => phase[c] = "got"
      BY <2>1
    <2> QED
      BY <2>1, <2>2, <2>3, <2>4 DEF sharedVars
  <1>2. ASSUME NEW w \in Workers, Boot(w) PROVE Control' /\ Tokens'
    BY <1>2, <1>0 DEF Boot, GetConn, Goto, sharedVars, PoolTypeOK
  <1>3. ASSUME NEW w \in Workers, BootOK(w) \/ BootFailed(w) PROVE Control' /\ Tokens'
    <2>1. /\ pc'[w] = "out" /\ holds'[w] = "none" /\ result'[w] = "none"
          /\ \A d \in Clients \ {w} :
               pc'[d] = pc[d] /\ holds'[d] = holds[d] /\ result'[d] = result[d]
      BY <1>3, LetGoRests DEF BootOK, BootFailed
    <2>2. Control'
      BY <1>3, <2>1 DEF BootOK, BootFailed
    <2>3. Tokens'
      BY <1>3 DEF BootOK, BootFailed
    <2> QED
      BY <2>2, <2>3
  <1>4. ASSUME NEW w \in Workers, FinalPark(w) PROVE Control' /\ Tokens'
    BY <1>4 DEF FinalPark, RoutinesEnded
  <1>5. ASSUME NEW r \in Routines, StartItem(r) \/ Block(r) \/ BlockedStopped(r) \/ End(r)
        PROVE  Control' /\ Tokens'
    BY <1>5 DEF StartItem, Block, BlockedStopped, End, poolVars
  <1>6. ASSUME NEW r \in Routines, TakeConn(r) PROVE Control' /\ Tokens'
    BY <1>6, <1>0 DEF TakeConn, PoolTypeOK
  <1>7. ASSUME NEW r \in Routines, TakeNil(r) PROVE Control' /\ Tokens'
    BY <1>7, <1>0 DEF TakeNil, GetConn, Goto, PoolTypeOK
  <1>8. ASSUME NEW r \in Routines, GetFailed(r) \/ SharedConnReturn(r) \/ CloseConn(r)
        PROVE  Control' /\ Tokens'
    <2>1. /\ pc'[r] = "out" /\ holds'[r] = "none" /\ result'[r] = "none"
          /\ \A d \in Clients \ {r} :
               pc'[d] = pc[d] /\ holds'[d] = holds[d] /\ result'[d] = result[d]
      BY <1>8, LetGoRests DEF GetFailed, SharedConnReturn, CloseConn
    <2>2. Control'
      BY <1>8, <2>1 DEF GetFailed, SharedConnReturn, CloseConn
    <2>3. Tokens'
      BY <1>8 DEF GetFailed, SharedConnReturn, CloseConn
    <2> QED
      BY <2>2, <2>3
  <1>9. ASSUME NEW r \in Routines, TooLarge(r) PROVE Control' /\ Tokens'
    BY <1>9, <1>0 DEF TooLarge, ReadDotLinesCloses, sharedVars, PoolTypeOK, PoolControl
  <1>10. CASE Stop \/ DrainOne \/ KillPool
    BY <1>10 DEF Stop, DrainOne, KillPool, sharedVars, poolVars
  <1>11. CASE UNCHANGED vars
    BY <1>11 DEF vars, sharedVars, poolVars
  <1> QED
    BY <1>1, <1>2, <1>3, <1>4, <1>5, <1>6, <1>7, <1>8, <1>9, <1>10, <1>11
    DEF Next, Work

-----------------------------------------------------------------------------
(* The worker a client of the pool works for. *)
Home(c) == IF c \in Workers THEN c ELSE workerOf[c]

(* A client that is not at rest is its worker's only one: the worker is    *)
(* still there, has nothing in its channel, and no second client asks.     *)
LEMMA OnePerWorker ==
  ASSUME ControlInv, NEW c \in Clients, ~AtRest(c)
  PROVE  /\ Home(c) \in Workers \ Gone
         /\ Home(c) \notin InChannel
         /\ \A d \in Clients : ~AtRest(d) /\ Home(d) = Home(c) => d = c
  BY SharedAssumption
  DEF ControlInv, SharedTypeOK, Control, Tokens, Home, Gone, InChannel

(* A worker or routine that asks the pool finds fewer than MaxConns        *)
(* connections: the others have at most one for each other worker.         *)
LEMMA RoomForAsker ==
  ASSUME ControlInv, CountInv, NEW c \in Clients, pc[c] # "out", c \notin Owners
  PROVE  openConns < MaxConns
  <1> DEFINE Good == Owners \ Spoiled
             Others == ((Workers \ Gone) \ InChannel) \ {Home(c)}
             home == [d \in Good |-> Home(d)]
  <1>1. Spoiled \subseteq Owners /\ Owners \subseteq Clients
    BY DEF Spoiled, Owners
  <1>2. Cardinality(Good) = Cardinality(Owners) - Cardinality(Spoiled)
    <2>1. Owners \cap Spoiled = Spoiled
      BY <1>1
    <2> QED
      BY <2>1, OwnersFinite, FS_Difference
  <1>3. ~AtRest(c) /\ \A d \in Owners : ~AtRest(d)
    BY DEF AtRest, Owners
  <1>4. home \in Injection(Good, Others)
    <2>1. \A d \in Good : d \in Clients /\ d # c /\ ~AtRest(d)
      BY <1>1, <1>3
    <2>2. \A d \in Good : Home(d) \in Others
      BY <2>1, <1>3, OnePerWorker
    <2>3. \A d, e \in Good : Home(d) = Home(e) => d = e
      BY <2>1, OnePerWorker
    <2> QED
      BY <2>2, <2>3 DEF Injection, IsInjective
  <1>5. IsFiniteSet(Others)
        /\ Cardinality(Others) = MaxConns - Cardinality(Gone) - Cardinality(InChannel) - 1
    <2>1. /\ Workers \cap Gone = Gone
          /\ (Workers \ Gone) \cap InChannel = InChannel
          /\ Home(c) \in (Workers \ Gone) \ InChannel
      BY <1>3, OnePerWorker DEF ControlInv, Control, Gone, InChannel
    <2>2. /\ IsFiniteSet(Workers \ Gone)
          /\ Cardinality(Workers \ Gone) = MaxConns - Cardinality(Gone)
      BY <2>1, FiniteParts, FS_Difference, SharedAssumption
    <2>3. /\ IsFiniteSet((Workers \ Gone) \ InChannel)
          /\ Cardinality((Workers \ Gone) \ InChannel)
               = MaxConns - Cardinality(Gone) - Cardinality(InChannel)
      BY <2>1, <2>2, FS_Difference
    <2> QED
      BY <2>1, <2>3, FS_RemoveElement
  <1>6. Cardinality(Good) <= Cardinality(Others)
    BY <1>4, <1>5, FS_Injection
  <1>7. Cardinality(Good) <= MaxConns - Cardinality(Gone) - Cardinality(InChannel) - 1
    BY <1>5, <1>6
  <1> HIDE DEF Good, Others, home
  <1> QED
    BY <1>2, <1>7, FiniteParts, OwnersFinite, PoolAssumption
    DEF CountInv, OpenConnsExact, Leftovers, InChannel, ControlInv, PoolInv, PoolTypeOK, SharedTypeOK

(* So nobody starts to wait for a parked connection. *)
LEMMA NobodyWaits == IInv /\ [Next]_vars => SessionNeverWaits'
  <1> SUFFICES ASSUME IInv, [Next]_vars, NEW d \in Clients PROVE pc'[d] # "full"
    BY DEF SessionNeverWaits
  <1>0. PoolTypeOK /\ pc[d] # "full" /\ ControlInv /\ CountInv
    BY DEF IInv, ControlInv, PoolInv, SessionNeverWaits
  <1> USE <1>0 DEF PoolTypeOK, Goto, LetGo, sharedVars, poolVars
  <1>1. ASSUME NEW c \in Clients, InGetConn(c) PROVE pc'[d] # "full"
    <2>1. CASE CheckAllOpen(c)
      BY <2>1, RoomForAsker DEF CheckAllOpen, Owners, ControlInv, PoolInv, PoolControl
    <2>2. CASE ~CheckAllOpen(c)
      BY <1>1, <2>2
      DEF InGetConn, GetConnStep, TakeFresh, TakeAged, CloseAged, FoundEmpty, CheckMayDial,
          TakeParked, Refused, NewConnNoRoom, NewConnCount, AcquireDialSem, DialSemStopped,
          DialOK, DialFailed, NewConnFailed, ReturnConn, ReturnErr
    <2> QED
      BY <2>1, <2>2
  <1>2. ASSUME NEW w \in Workers, Boot(w) \/ BootOK(w) \/ BootFailed(w) \/ FinalPark(w)
        PROVE  pc'[d] # "full"
    BY <1>2 DEF Boot, BootOK, BootFailed, FinalPark, GetConn
  <1>3. ASSUME NEW r \in Routines, Work(r) PROVE pc'[d] # "full"
    BY <1>3 DEF Work, StartItem, Block, TakeConn, TakeNil, BlockedStopped, GetFailed,
                SharedConnReturn, TooLarge, CloseConn, End, GetConn, ReadDotLinesCloses
  <1>4. CASE Stop \/ DrainOne \/ KillPool
    BY <1>4 DEF Stop, DrainOne, KillPool
  <1>5. CASE UNCHANGED vars
    BY <1>5 DEF vars
  <1> QED
    BY <1>1, <1>2, <1>3, <1>4, <1>5 DEF Next

-----------------------------------------------------------------------------
(* The sets that are counted, step by step.                                *)
(* In GetConn only a leftover error spoils a connection, an idle one.      *)
LEMMA GetConnSpoils ==
  ASSUME NEW c \in Clients, PoolInv, GetConnStep(c)
  PROVE  \/ Spoiled' = Spoiled /\ idle' <= idle
         \/ c \notin Spoiled /\ Spoiled' = Spoiled \cup {c} /\ idle' = idle - 1
  <1> DEFINE Goal == \/ Spoiled' = Spoiled /\ idle' <= idle
                     \/ c \notin Spoiled /\ Spoiled' = Spoiled \cup {c} /\ idle' = idle - 1
  <1> SUFFICES Goal
    OBVIOUS
  <1> USE DEF PoolInv, PoolTypeOK, PoolControl, Goto, Spoiled
  <1>1. CASE TakeFresh(c) \/ TakeParked(c)
    <2>1. c \notin Spoiled /\ idle' = idle - 1 /\ ReturnConn(c, stale[c])
      BY <1>1 DEF TakeFresh, TakeParked
    <2>2. CASE stale[c]
      BY <2>1, <2>2 DEF ReturnConn
    <2>3. CASE ~stale[c]
      BY <2>1, <2>3 DEF ReturnConn
    <2> QED
      BY <2>2, <2>3
  <1>2. CASE DialOK(c)
    BY <1>2 DEF DialOK, ReturnConn
  <1>3. CASE ~(TakeFresh(c) \/ TakeParked(c) \/ DialOK(c))
    <2>1. holds' = holds /\ idle' <= idle
      BY <1>3 DEF GetConnStep, TakeAged, CloseAged, FoundEmpty, CheckAllOpen, CheckMayDial,
                  Refused, NewConnNoRoom, NewConnCount, AcquireDialSem, DialSemStopped,
                  DialFailed, NewConnFailed, ReturnErr
    <2>2. holds[c] = "none" /\ \A d \in Clients \ {c} : result'[d] = result[d]
      BY GetConnTouchesOwn
    <2> QED
      BY <2>1, <2>2
  <1> HIDE DEF Goal
  <1> QED
    BY <1>1, <1>2, <1>3

(* A client that lets go of what it has: the owners and the spoiled        *)
(* connections lose it, and the pool's control state is right.             *)
LEMMA LetGoCounts ==
  ASSUME NEW c \in Clients, PoolInv, LetGo(c), result[c] # "none"
  PROVE  /\ IF holds[c] = "open"
            THEN Cardinality(Owners') = Cardinality(Owners) - 1 /\ Cardinality(Owners) >= 1
            ELSE Cardinality(Owners') = Cardinality(Owners)
         /\ IF holds[c] = "open" /\ result[c] = "connErr"
            THEN Cardinality(Spoiled') = Cardinality(Spoiled) - 1 /\ Cardinality(Spoiled) >= 1
            ELSE Cardinality(Spoiled') = Cardinality(Spoiled)
  <1>1. ASSUME holds[c] = "open"
        PROVE  Cardinality(Owners') = Cardinality(Owners) - 1 /\ Cardinality(Owners) >= 1
    BY <1>1, LetGoControl, OwnerLeaves
  <1>2. ASSUME holds[c] # "open" PROVE Cardinality(Owners') = Cardinality(Owners)
    BY <1>2, LetGoControl
  <1>3. ASSUME holds[c] = "open", result[c] = "connErr"
        PROVE  Cardinality(Spoiled') = Cardinality(Spoiled) - 1 /\ Cardinality(Spoiled) >= 1
    <2>1. c \in Spoiled /\ Spoiled' = Spoiled \ {c}
      BY <1>3 DEF LetGo, PoolInv, PoolTypeOK, Spoiled
    <2>2. Cardinality(Spoiled) # 0
      BY <2>1, FiniteParts, FS_EmptySet
    <2>3. Cardinality(Spoiled \ {c}) = Cardinality(Spoiled) - 1
      BY <2>1, FiniteParts, FS_RemoveElement
    <2> QED
      BY <2>1, <2>2, <2>3, FiniteParts
  <1>4. ASSUME ~(holds[c] = "open" /\ result[c] = "connErr")
        PROVE  Cardinality(Spoiled') = Cardinality(Spoiled)
    <2>1. Spoiled' = Spoiled
      BY <1>4 DEF LetGo, PoolInv, PoolTypeOK, Spoiled
    <2> QED
      BY <2>1
  <1> QED
    BY <1>1, <1>2, <1>3, <1>4

(* One worker's channel gets, or loses, a connection. *)
LEMMA ChannelCounts ==
  ASSUME SharedTypeOK, NEW w \in Workers, NEW token \in {"empty", "nil", "open"}, Send(w, token)
  PROVE  /\ token = "open" /\ cc[w] # "open"
              => Cardinality(InChannel') = Cardinality(InChannel) + 1
         /\ token # "open" /\ cc[w] = "open"
              => /\ Cardinality(InChannel') = Cardinality(InChannel) - 1
                 /\ Cardinality(InChannel) >= 1
         /\ token # "open" /\ cc[w] # "open" => InChannel' = InChannel
  <1>1. ASSUME token = "open", cc[w] # "open"
        PROVE  Cardinality(InChannel') = Cardinality(InChannel) + 1
    <2>1. w \notin InChannel /\ InChannel' = InChannel \cup {w}
      BY <1>1 DEF Send, SharedTypeOK, InChannel
    <2> QED
      BY <2>1, FiniteParts, FS_AddElement
  <1>2. ASSUME token # "open", cc[w] = "open"
        PROVE  /\ Cardinality(InChannel') = Cardinality(InChannel) - 1
               /\ Cardinality(InChannel) >= 1
    <2>1. w \in InChannel /\ InChannel' = InChannel \ {w}
      BY <1>2 DEF Send, SharedTypeOK, InChannel
    <2>2. Cardinality(InChannel) # 0
      BY <2>1, FiniteParts, FS_EmptySet
    <2>3. Cardinality(InChannel \ {w}) = Cardinality(InChannel) - 1
      BY <2>1, FiniteParts, FS_RemoveElement
    <2> QED
      BY <2>1, <2>2, <2>3, FiniteParts
  <1>3. ASSUME token # "open", cc[w] # "open" PROVE InChannel' = InChannel
    BY <1>3 DEF Send, SharedTypeOK, InChannel
  <1> QED
    BY <1>1, <1>2, <1>3

(* A worker that ends is one more that is gone. *)
LEMMA WorkerGoes ==
  ASSUME SharedTypeOK, NEW w \in Workers, wphase[w] # "ended",
         wphase' = [wphase EXCEPT ![w] = "ended"]
  PROVE  Cardinality(Gone') = Cardinality(Gone) + 1
  <1>1. w \notin Gone /\ Gone' = Gone \cup {w}
    BY DEF SharedTypeOK, Gone
  <1> QED
    BY <1>1, FiniteParts, FS_AddElement

-----------------------------------------------------------------------------
(* Types and counts, step by step. *)
LEMMA CountStep == IInv /\ [Next]_vars => PoolInv' /\ SharedTypeOK' /\ CountInv'
  <1> DEFINE Goal == PoolInv' /\ SharedTypeOK' /\ CountInv'
  <1> SUFFICES ASSUME IInv, [Next]_vars PROVE Goal
    OBVIOUS
  <1>0. /\ PoolInv /\ PoolTypeOK /\ PoolControl /\ SharedTypeOK /\ Control
        /\ openConns \in 0..MaxConns /\ idle \in 0..MaxConns /\ MaxConns \in Nat /\ lost \in Nat
        /\ openConns = idle + Cardinality(InChannel) + Cardinality(Owners) + lost
        /\ idle + lost + Cardinality(Spoiled) <= Cardinality(Gone)
    BY PoolAssumption
    DEF IInv, ControlInv, CountInv, PoolInv, PoolTypeOK, SharedTypeOK, OpenConnsExact,
        Leftovers, InChannel
  <1> DEFINE C == Cardinality(InChannel)
             O == Cardinality(Owners)
             S == Cardinality(Spoiled)
             G == Cardinality(Gone)
  <1>n. O \in Nat /\ C \in Nat /\ S \in Nat /\ G \in Nat
    BY OwnersFinite, FiniteParts
  (* Enough for the goal: types, and the four numbers after the step. *)
  <1>a. ASSUME PoolTypeOK', PoolControl', SharedTypeOK', openConns' <= MaxConns,
               openConns' = idle' + Cardinality(InChannel') + Cardinality(Owners') + lost',
               idle' + lost' + Cardinality(Spoiled') <= Cardinality(Gone')
        PROVE  Goal
    BY <1>a DEF PoolInv, CountInv, OpenConnsExact, Leftovers, InChannel
  <1> HIDE DEF Goal
  <1>u. ASSUME UNCHANGED poolVars PROVE PoolTypeOK' /\ PoolControl' /\ Owners' = Owners /\ Spoiled' = Spoiled
    BY <1>u, <1>0 DEF poolVars, PoolTypeOK, PoolControl, Owners, Spoiled
  <1>s. ASSUME UNCHANGED <<cc, wphase>> PROVE InChannel' = InChannel /\ Gone' = Gone
    BY <1>s DEF InChannel, Gone
  <1>1. ASSUME NEW c \in Clients, InGetConn(c) PROVE Goal
    <2>1. GetConnStep(c) /\ UNCHANGED sharedVars
      BY <1>1 DEF InGetConn
    <2>2. SharedTypeOK' /\ InChannel' = InChannel /\ Gone' = Gone /\ lost' = lost
      BY <2>1, <1>0, <1>s DEF sharedVars, SharedTypeOK
    <2>3. C + lost \in Nat /\ openConns = idle + O + (C + lost)
      BY <1>0, <1>n
    <2>4. PoolInv' /\ openConns' = idle' + Cardinality(Owners') + (C + lost)
      BY <2>1, <2>3, <1>0, GetConnKeepsPool
    <2>5. idle' + lost + Cardinality(Spoiled') <= G
      <3>1. idle' + Cardinality(Spoiled') <= idle + S
        <4>1. CASE Spoiled' = Spoiled /\ idle' <= idle
          BY <4>1, <2>4, <1>0, <1>n DEF PoolInv, PoolTypeOK
        <4>2. CASE c \notin Spoiled /\ Spoiled' = Spoiled \cup {c} /\ idle' = idle - 1
          <5>1. Cardinality(Spoiled') = S + 1
            BY <4>2, FiniteParts, FS_AddElement
          <5> QED
            BY <4>2, <5>1, <1>0, <1>n
        <4> QED
          BY <4>1, <4>2, <2>1, <1>0, GetConnSpoils
      <3>2. Cardinality(Spoiled') \in Nat
        <4>1. Spoiled' \subseteq Clients
          BY DEF Spoiled
        <4> QED
          BY <4>1, PoolAssumption, FS_Subset, FS_CardinalityType
      <3> QED
        BY <3>1, <3>2, <2>4, <1>0, <1>n DEF PoolInv, PoolTypeOK
    <2>6. Cardinality(Owners') \in Nat
      <3>1. Owners' \subseteq Clients
        BY DEF Owners
      <3> QED
        BY <3>1, PoolAssumption, FS_Subset, FS_CardinalityType
    <2>7. idle' \in Nat /\ openConns' <= MaxConns /\ PoolTypeOK' /\ PoolControl'
      BY <2>4, PoolAssumption DEF PoolInv, PoolTypeOK
    <2>8. openConns' = idle' + Cardinality(InChannel') + Cardinality(Owners') + lost'
      BY <2>2, <2>4, <2>6, <2>7, <1>0, <1>n
    <2>9. idle' + lost' + Cardinality(Spoiled') <= Cardinality(Gone')
      BY <2>2, <2>5
    <2> QED
      BY <2>2, <2>7, <2>8, <2>9, <1>a
  (* The client asks: nothing counted changes but a nil token. *)
  <1>2. ASSUME NEW c \in Clients, GetConn(c), UNCHANGED <<wphase, lost, killed>>,
               SharedTypeOK', InChannel' = InChannel
        PROVE  Goal
    <2>1. PoolInv' /\ Owners' = Owners /\ openConns' = openConns /\ idle' = idle
      BY <1>2, <1>0, EnterGetConn
    <2>2. Spoiled' = Spoiled /\ Gone' = Gone
      BY <1>2 DEF GetConn, Spoiled, Gone
    <2> QED
      BY <1>2, <2>1, <2>2, <1>0, <1>a DEF PoolInv
  (* The client lets go of what it has. *)
  <1>3. ASSUME NEW c \in Clients, LetGo(c), result[c] # "none", SharedTypeOK',
               openConns' \in 0..MaxConns, idle' = idle,
               openConns' = idle + Cardinality(InChannel') + Cardinality(Owners') + lost',
               idle + lost' + Cardinality(Spoiled') <= Cardinality(Gone')
        PROVE  Goal
    BY <1>3, <1>0, <1>a, LetGoControl, PoolAssumption
  <1>4. ASSUME NEW w \in Workers, Boot(w) PROVE Goal
    BY <1>4, <1>2, <1>0, <1>s, SharedAssumption DEF Boot, sharedVars, SharedTypeOK
  <1>5. ASSUME NEW w \in Workers, BootOK(w) PROVE Goal
    <2>1. /\ w \in Clients /\ LetGo(w) /\ result[w] = "conn" /\ holds[w] = "open"
          /\ Send(w, "open") /\ cc[w] = "empty"
          /\ SharedTypeOK' /\ Gone' = Gone
          /\ openConns' = openConns /\ idle' = idle /\ lost' = lost
      BY <1>5, <1>0, SharedAssumption
      DEF BootOK, SharedTypeOK, Send, Gone, PoolTypeOK, PoolControl, Control
    <2>2. Cardinality(InChannel') = C + 1
      BY <2>1, <1>0, ChannelCounts
    <2>3. Cardinality(Owners') = O - 1 /\ Cardinality(Spoiled') = S
      BY <2>1, <1>0, LetGoCounts
    <2> QED
      BY <2>1, <2>2, <2>3, <1>0, <1>n, <1>3
  <1>6. ASSUME NEW w \in Workers, BootFailed(w) PROVE Goal
    <2>1. /\ w \in Clients /\ LetGo(w) /\ result[w] \in {"err", "connErr"} /\ Forget(w)
          /\ holds[w] = "open" <=> result[w] = "connErr"
          /\ wphase' = [wphase EXCEPT ![w] = "ended"] /\ wphase[w] # "ended"
          /\ SharedTypeOK' /\ InChannel' = InChannel
          /\ openConns' = openConns /\ idle' = idle
      BY <1>6, <1>0, SharedAssumption
      DEF BootFailed, Forget, SharedTypeOK, InChannel, PoolTypeOK, PoolControl, Control
    <2>2. Cardinality(Gone') = G + 1
      BY <2>1, <1>0, WorkerGoes
    <2>3. CASE holds[w] = "open"
      <3>1. Cardinality(Owners') = O - 1 /\ Cardinality(Spoiled') = S - 1 /\ lost' = lost + 1
        BY <2>1, <2>3, <1>0, LetGoCounts DEF Forget
      <3> QED
        BY <2>1, <2>2, <3>1, <1>0, <1>n, <1>3
    <2>4. CASE holds[w] # "open"
      <3>1. Cardinality(Owners') = O /\ Cardinality(Spoiled') = S /\ lost' = lost
        BY <2>1, <2>4, <1>0, LetGoCounts DEF Forget
      <3> QED
        BY <2>1, <2>2, <3>1, <1>0, <1>n, <1>3
    <2> QED
      BY <2>3, <2>4
  <1>7. ASSUME NEW w \in Workers, FinalPark(w) PROVE Goal
    <2>1. /\ Send(w, "empty") /\ lost' = lost /\ SharedTypeOK'
          /\ wphase' = [wphase EXCEPT ![w] = "ended"] /\ wphase[w] # "ended"
      BY <1>7, <1>0 DEF FinalPark, SharedTypeOK, Send
    <2>2. Cardinality(Gone') = G + 1
      BY <2>1, <1>0, WorkerGoes
    <2>3. PoolControl' /\ Owners' = Owners /\ Spoiled' = Spoiled
      BY <1>7, <1>0 DEF FinalPark, PoolControl, Owners, Spoiled
    <2>4. CASE cc[w] = "open"
      <3>1. Cardinality(InChannel') = C - 1 /\ C >= 1
        BY <2>1, <2>4, <1>0, ChannelCounts
      <3>2. openConns' = openConns /\ idle' = idle + 1 /\ idle' \in 0..MaxConns
        BY <1>7, <2>4, <3>1, <1>0, <1>n DEF FinalPark, ParkItem
      <3>3. PoolTypeOK'
        BY <1>7, <1>0, <3>2 DEF FinalPark, PoolTypeOK
      <3> QED
        BY <2>1, <2>2, <2>3, <3>1, <3>2, <3>3, <1>0, <1>n, <1>a
    <2>5. CASE cc[w] # "open"
      <3>1. InChannel' = InChannel
        BY <2>1, <2>5, <1>0, ChannelCounts
      <3>2. openConns' = openConns /\ idle' = idle
        BY <1>7, <2>5 DEF FinalPark
      <3>3. PoolTypeOK'
        BY <1>7, <1>0, <3>2 DEF FinalPark, PoolTypeOK
      <3> QED
        BY <2>1, <2>2, <2>3, <3>1, <3>2, <3>3, <1>0, <1>n, <1>a
    <2> QED
      BY <2>4, <2>5
  <1>8. ASSUME NEW r \in Routines, StartItem(r) \/ Block(r) \/ BlockedStopped(r) \/ End(r) PROVE Goal
    <2>1. UNCHANGED poolVars /\ UNCHANGED <<cc, wphase, lost, killed>> /\ SharedTypeOK'
      BY <1>8, <1>0 DEF StartItem, Block, BlockedStopped, End, To, SharedTypeOK
    <2> QED
      BY <2>1, <1>0, <1>a, <1>u, <1>s DEF poolVars
  <1>9. ASSUME NEW r \in Routines, TakeConn(r) PROVE Goal
    <2>1. /\ r \in Clients /\ workerOf[r] \in Workers
          /\ Send(workerOf[r], "empty") /\ cc[workerOf[r]] = "open"
          /\ SharedTypeOK' /\ Gone' = Gone /\ AtRest(r)
          /\ openConns' = openConns /\ idle' = idle /\ lost' = lost
      BY <1>9, <1>0, SharedAssumption DEF TakeConn, SharedTypeOK, Send, To, Gone, Control
    <2>2. Cardinality(InChannel') = C - 1 /\ C >= 1
      BY <2>1, <1>0, ChannelCounts
    <2>3. r \notin Owners /\ Owners' = Owners \cup {r} /\ Spoiled' = Spoiled
      BY <1>9, <2>1, <1>0 DEF TakeConn, AtRest, Owners, Spoiled, PoolTypeOK
    <2>4. Cardinality(Owners') = O + 1
      BY <2>1, <2>3, OwnerJoins
    <2>5. PoolTypeOK' /\ PoolControl'
      BY <1>9, <2>1, <1>0 DEF TakeConn, AtRest, PoolTypeOK, PoolControl
    <2> QED
      BY <2>1, <2>2, <2>3, <2>4, <2>5, <1>0, <1>n, <1>a
  <1>10. ASSUME NEW r \in Routines, TakeNil(r) PROVE Goal
    <2>1. /\ r \in Clients /\ workerOf[r] \in Workers
          /\ Send(workerOf[r], "empty") /\ cc[workerOf[r]] = "nil"
          /\ SharedTypeOK' /\ GetConn(r) /\ UNCHANGED <<wphase, lost, killed>>
      BY <1>10, <1>0, SharedAssumption DEF TakeNil, SharedTypeOK, Send, To
    <2>2. InChannel' = InChannel
      BY <2>1, <1>0, ChannelCounts
    <2> QED
      BY <2>1, <2>2, <1>2
  <1>11. ASSUME NEW r \in Routines, GetFailed(r) PROVE Goal
    <2>1. /\ r \in Clients /\ workerOf[r] \in Workers
          /\ LetGo(r) /\ result[r] \in {"err", "connErr"} /\ Forget(r)
          /\ holds[r] = "open" <=> result[r] = "connErr"
          /\ Send(workerOf[r], "nil") /\ cc[workerOf[r]] = "empty"
          /\ SharedTypeOK' /\ Gone' = Gone
          /\ openConns' = openConns /\ idle' = idle
      BY <1>11, <1>0, SharedAssumption
      DEF GetFailed, Forget, SharedTypeOK, Gone, Send, To, PoolTypeOK, PoolControl, IInv,
          ControlInv, Tokens
    <2>2. InChannel' = InChannel
      BY <2>1, <1>0, ChannelCounts
    <2>3. CASE holds[r] = "open"
      <3>1. Cardinality(Owners') = O - 1 /\ Cardinality(Spoiled') = S - 1 /\ lost' = lost + 1
        BY <2>1, <2>3, <1>0, LetGoCounts DEF Forget
      <3> QED
        BY <2>1, <2>2, <3>1, <1>0, <1>n, <1>3
    <2>4. CASE holds[r] # "open"
      <3>1. Cardinality(Owners') = O /\ Cardinality(Spoiled') = S /\ lost' = lost
        BY <2>1, <2>4, <1>0, LetGoCounts DEF Forget
      <3> QED
        BY <2>1, <2>2, <3>1, <1>0, <1>n, <1>3
    <2> QED
      BY <2>3, <2>4
  <1>12. ASSUME NEW r \in Routines, SharedConnReturn(r) PROVE Goal
    <2>1. /\ r \in Clients /\ workerOf[r] \in Workers
          /\ LetGo(r) /\ result[r] = "conn" /\ holds[r] = "open"
          /\ Send(workerOf[r], "open") /\ cc[workerOf[r]] = "empty"
          /\ SharedTypeOK' /\ Gone' = Gone
          /\ openConns' = openConns /\ idle' = idle /\ lost' = lost
      BY <1>12, <1>0, SharedAssumption
      DEF SharedConnReturn, SharedTypeOK, Gone, Send, To, IInv, ControlInv, Tokens
    <2>2. Cardinality(InChannel') = C + 1
      BY <2>1, <1>0, ChannelCounts
    <2>3. Cardinality(Owners') = O - 1 /\ Cardinality(Spoiled') = S
      BY <2>1, <1>0, LetGoCounts
    <2> QED
      BY <2>1, <2>2, <2>3, <1>0, <1>n, <1>3
  <1>13. ASSUME NEW r \in Routines, TooLarge(r) PROVE Goal
    <2>1. /\ r \in Clients /\ ReadDotLinesCloses(r) /\ UNCHANGED sharedVars
      BY <1>13, SharedAssumption DEF TooLarge
    <2>2. SharedTypeOK' /\ InChannel' = InChannel /\ Gone' = Gone /\ Spoiled' = Spoiled
      BY <2>1, <1>0, <1>s
      DEF sharedVars, SharedTypeOK, ReadDotLinesCloses, Spoiled, PoolTypeOK
    <2>3. C + lost \in Nat /\ openConns = idle + O + (C + lost)
      BY <1>0, <1>n
    <2>4. PoolInv' /\ openConns' = idle' + Cardinality(Owners') + (C + lost)
      BY <2>1, <2>3, <1>0, CloseInRead
    <2>5. /\ Owners' = Owners \ {r} /\ r \in Owners
          /\ idle' = idle /\ lost' = lost
      BY <2>1, <1>0 DEF ReadDotLinesCloses, Owners, PoolTypeOK, PoolControl, sharedVars
    <2>6. Cardinality(Owners') = O - 1
      BY <2>1, <2>5, OwnerLeaves
    <2>7. openConns' = idle' + Cardinality(InChannel') + Cardinality(Owners') + lost'
      BY <2>2, <2>4, <2>5, <2>6, <1>0, <1>n
    <2> QED
      BY <2>2, <2>4, <2>5, <2>7, <1>0, <1>a DEF PoolInv
  <1>14. ASSUME NEW r \in Routines, CloseConn(r) PROVE Goal
    <2>1. /\ r \in Clients /\ workerOf[r] \in Workers
          /\ LetGo(r) /\ result[r] = "conn" /\ CloseOnce(r)
          /\ Send(workerOf[r], "nil") /\ cc[workerOf[r]] = "empty"
          /\ SharedTypeOK' /\ Gone' = Gone
          /\ idle' = idle /\ lost' = lost
      BY <1>14, <1>0, SharedAssumption
      DEF CloseConn, SharedTypeOK, Gone, Send, To, IInv, ControlInv, Tokens
    <2>2. InChannel' = InChannel
      BY <2>1, <1>0, ChannelCounts
    <2>3. CASE holds[r] = "open"
      <3>1. /\ Cardinality(Owners') = O - 1 /\ O >= 1 /\ Cardinality(Spoiled') = S
            /\ openConns' = openConns - 1
        BY <2>1, <2>3, <1>0, LetGoCounts DEF CloseOnce
      <3> QED
        BY <2>1, <2>2, <3>1, <1>0, <1>n, <1>3
    <2>4. CASE holds[r] # "open"
      <3>1. /\ Cardinality(Owners') = O /\ Cardinality(Spoiled') = S
            /\ openConns' = openConns
        BY <2>1, <2>4, <1>0, LetGoCounts DEF CloseOnce
      <3> QED
        BY <2>1, <2>2, <3>1, <1>0, <1>n, <1>3
    <2> QED
      BY <2>3, <2>4
  <1>15. CASE Stop
    <2>1. /\ openConns' = openConns /\ idle' = idle /\ lost' = lost
          /\ Owners' = Owners /\ Spoiled' = Spoiled /\ InChannel' = InChannel /\ Gone' = Gone
          /\ SharedTypeOK'
      BY <1>15, <1>0, <1>s DEF Stop, sharedVars, Owners, Spoiled, SharedTypeOK
    <2>2. PoolTypeOK' /\ PoolControl'
      BY <1>15, <1>0 DEF Stop, PoolTypeOK, PoolControl
    <2> QED
      BY <2>1, <2>2, <1>0, <1>a
  <1>16. CASE DrainOne
    <2>1. /\ openConns' = openConns - 1 /\ idle' = idle - 1 /\ idle > 0 /\ lost' = lost
          /\ Owners' = Owners /\ Spoiled' = Spoiled /\ InChannel' = InChannel /\ Gone' = Gone
          /\ SharedTypeOK'
      BY <1>16, <1>0, <1>s DEF DrainOne, sharedVars, Owners, Spoiled, SharedTypeOK
    <2>2. openConns' \in 0..MaxConns /\ idle' \in 0..MaxConns
      BY <2>1, <1>0, <1>n
    <2>3. PoolTypeOK' /\ PoolControl'
      BY <1>16, <1>0, <2>2 DEF DrainOne, PoolTypeOK, PoolControl
    <2> QED
      BY <2>1, <2>2, <2>3, <1>0, <1>n, <1>a
  <1>17. CASE KillPool \/ UNCHANGED vars
    <2>1. /\ UNCHANGED poolVars /\ UNCHANGED <<cc, wphase, lost>> /\ SharedTypeOK'
      BY <1>17, <1>0 DEF KillPool, vars, sharedVars, SharedTypeOK
    <2> QED
      BY <2>1, <1>0, <1>a, <1>u, <1>s DEF poolVars
  <1> QED
    BY <1>1, <1>4, <1>5, <1>6, <1>7, <1>8, <1>9, <1>10, <1>11, <1>12, <1>13, <1>14, <1>15,
       <1>16, <1>17 DEF Next, Work, Goal

(* Every step keeps the invariant.                                         *)
LEMMA StepIInv == IInv /\ [Next]_vars => IInv'
  BY ControlStep, CountStep, NobodyWaits DEF IInv, ControlInv

-----------------------------------------------------------------------------
(* What the invariant says in the words of the model.                      *)
LEMMA AllAccounted == IInv => ConnsAccounted
  <1> SUFFICES ASSUME IInv PROVE ConnsAccounted
    OBVIOUS
  <1>1. TypeOK
    <2>1. lost \in 0..MaxConns
      BY FiniteParts, OwnersFinite, PoolAssumption
      DEF IInv, ControlInv, CountInv, PoolInv, PoolTypeOK, SharedTypeOK, OpenConnsExact, InChannel
    <2> QED
      BY <2>1 DEF IInv, ControlInv, PoolInv, SharedTypeOK, TypeOK
  <1>2. ASSUME NEW w \in Workers, wphase[w] = "up"
        PROVE  Cardinality({r \in Routines : workerOf[r] = w /\ phase[r] = "got"})
                 + (IF cc[w] = "empty" THEN 0 ELSE 1) = 1
    <2> DEFINE Holding == {r \in Routines : workerOf[r] = w /\ phase[r] = "got"}
    <2>1. CASE cc[w] = "empty"
      <3>1. PICK r \in Routines : workerOf[r] = w /\ phase[r] = "got"
        BY <1>2, <2>1 DEF IInv, ControlInv, Tokens
      <3>2. Holding = {r}
        BY <3>1 DEF IInv, ControlInv, Tokens
      <3>3. Cardinality(Holding) = 1
        BY <3>2, FS_Singleton
      <3> QED
        BY <2>1, <3>3
    <2>2. CASE cc[w] # "empty"
      <3>1. Holding = {}
        BY <2>2 DEF IInv, ControlInv, Tokens
      <3>2. Cardinality(Holding) = 0
        BY <3>1, FS_EmptySet
      <3> QED
        BY <2>2, <3>2
    <2> QED
      BY <2>1, <2>2
  <1> QED
    BY <1>1, <1>2 DEF ConnsAccounted, OneToken, IInv, CountInv

(* The connections and tokens of a session add up, whatever the number of  *)
(* workers and routines and however requests, failures, the two closes of  *)
(* an oversized article and the stop interleave.                           *)
THEOREM ConnsAlwaysAccounted == Spec => []ConnsAccounted
  BY InitIInv, StepIInv, AllAccounted, PTL DEF Spec

(* No goroutine of a session enters GetConn's wait for a parked connection *)
(* (ConnPool.go 537), which only the end of the session would end.         *)
THEOREM SessionNeverWaitsAlways == Spec => []SessionNeverWaits
  <1>1. IInv => SessionNeverWaits
    BY DEF IInv
  <1> QED
    BY InitIInv, StepIInv, <1>1, PTL DEF Spec
=============================================================================
