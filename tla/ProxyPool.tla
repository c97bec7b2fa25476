------------------------------ MODULE ProxyPool ------------------------------
(***************************************************************************)
(* The NNTP proxy's use of a provider's connection pool (Proxy.go,         *)
(* Server.go): every client command takes a connection with GetConn, runs  *)
(* its upstream command and parks or closes the connection before it       *)
(* answers the client. Any number of clients share MaxConns connections,   *)
(* and there is no session to stop: sessStop stays open.                   *)
(***************************************************************************)
EXTENDS ConnPool

proxyVars == <<poolVars, lost>>

ProxyTypeOK == PoolTypeOK /\ lost \in 0..MaxConns

ProxyInit == PoolInit /\ lost = 0

(* connitem, err := provider.ConnPool.GetConn() *)
Command(c) == GetConn(c) /\ UNCHANGED lost

InGet(c) == GetConnStep(c) /\ UNCHANGED lost

(* if err != nil { log; try the next provider }: connitem is not looked at. *)
GaveUp(c) ==
  /\ result[c] \in {"err", "connErr"}
  /\ LetGo(c) /\ Forget(c)
  /\ UNCHANGED <<openConns, idle>>

(* The upstream answered: the connection is good for the next command. *)
ParkConn(c) ==
  /\ result[c] = "conn" /\ holds[c] = "open"
  /\ ParkItem /\ LetGo(c)
  /\ UNCHANGED lost

ReplyTooLarge(c) == ReadDotLinesCloses(c) /\ UNCHANGED lost

(* No answer, or a read that broke off: CloseConn. *)
CloseUpstream(c) ==
  /\ result[c] = "conn"
  /\ CloseOnce(c) /\ LetGo(c)
  /\ UNCHANGED <<idle, lost>>

ProxyNext ==
  \E c \in Clients :
    \/ Command(c) \/ InGet(c) \/ GaveUp(c)
    \/ ParkConn(c) \/ ReplyTooLarge(c) \/ CloseUpstream(c)

ProxySpec == ProxyInit /\ [][ProxyNext]_proxyVars

(***************************************************************************)
(* Properties                                                              *)
(***************************************************************************)
(* openConns counts every connection once: the idle ones, the ones a       *)
(* client owns, and the ones that were forgotten. It neither drifts when a *)
(* connection is closed twice (readDotLines and its caller) nor keeps the  *)
(* place of a connect that failed.                                         *)
ProxyConnsExact == openConns = idle + Cardinality(Owners) + lost

(* "should be impossible to trigger" (ConnPool.go 524): the count never    *)
(* exceeds MaxConns although GetConn decides to dial on a value it read    *)
(* under another lock than the one NewConn counts under.                   *)
NeverOverMaxConns == openConns <= MaxConns

(* "If the pool is full, it will close the connection instead which is     *)
(* most likely a bug in the code" (ConnPool.go 612): who parks a           *)
(* connection finds room for it.                                           *)
ParkFindsRoom == \A c \in Clients : holds[c] = "open" => idle < MaxConns
(* The pool keeps its bounds: types, the limit of connections, and room    *)
(* for whoever parks one (ConnPool.go 524, 612).                           *)
PoolBounded == ProxyTypeOK /\ NeverOverMaxConns /\ ParkFindsRoom
=============================================================================
