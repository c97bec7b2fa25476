------------------------------ MODULE ConnPool ------------------------------
(***************************************************************************)
(* ConnPool.go: the connections to one provider. openConns counts the      *)
(* connections that exist or are being set up, the channel pool holds the  *)
(* idle ones. This module has the pool's operations, one action per step   *)
(* between two of its locks, channel operations or network waits; the      *)
(* modules SharedConn (a session's workers) and ProxyPool (the proxy's     *)
(* clients) say who calls them.                                            *)
(*                                                                         *)
(* Connections are interchangeable: idle is len(pool). Time is abstracted  *)
(* to the three ages GetConn tells apart when it takes an idle connection. *)
(***************************************************************************)
EXTENDS Integers, FiniteSets

CONSTANTS Clients,        \* goroutines that call GetConn
          MaxConns,       \* provider.MaxConns
          DialParallel,   \* cap(dialSem)
          MaxConnErrors,  \* provider.MaxConnErrors
          Proxy           \* c.s.proxy: pools of the proxy never mark a provider down

ASSUME PoolAssumption ==
  /\ IsFiniteSet(Clients)
  /\ MaxConns \in Nat \ {0} /\ DialParallel \in Nat \ {0} /\ MaxConnErrors \in Nat \ {0}
  /\ Proxy \in BOOLEAN

VARIABLES openConns,  \* c.openConns
          idle,       \* len(c.pool)
          down,       \* provider.down
          sessStop,   \* the session's stopChan is closed
          pc,         \* where a client is in GetConn; "out": not in it
          stale,      \* the named result err of GetConn is not nil
          retried,    \* GetConn's local
          via,        \* which of its two NewConn calls a client is in
          result,     \* what GetConn returned last
          holds,      \* the ConnItem a client has: none, open, or closed ("dead")
          lost        \* connections nobody will park or close again

(* Without lost: the pool's own steps never forget a connection. *)
poolVars == <<openConns, idle, down, sessStop, pc, stale, retried, via, result, holds>>

PCs == {"out", "loop", "closeOld", "closeExpired", "check", "full", "new", "sem", "dial"}

PoolTypeOK ==
  /\ openConns \in 0..MaxConns + 1
  /\ idle \in 0..MaxConns
  /\ down \in BOOLEAN /\ sessStop \in BOOLEAN
  /\ pc \in [Clients -> PCs]
  /\ stale \in [Clients -> BOOLEAN]
  /\ retried \in [Clients -> 0..MaxConnErrors]
  /\ via \in [Clients -> {"expired", "empty"}]
  /\ result \in [Clients -> {"none", "conn", "connErr", "err"}]
  /\ holds \in [Clients -> {"none", "open", "dead"}]

PoolInit ==
  /\ openConns = 0 /\ idle = 0 /\ down = FALSE /\ sessStop = FALSE
  /\ pc = [c \in Clients |-> "out"]
  /\ stale = [c \in Clients |-> FALSE]
  /\ retried = [c \in Clients |-> 0]
  /\ via = [c \in Clients |-> "empty"]
  /\ result = [c \in Clients |-> "none"]
  /\ holds = [c \in Clients |-> "none"]

Goto(c, label) == pc' = [pc EXCEPT ![c] = label]

(***************************************************************************)
(* GetConn                                                                 *)
(***************************************************************************)
GetConn(c) ==
  /\ pc[c] = "out" /\ holds[c] = "none" /\ result[c] = "none"
  /\ Goto(c, "loop")
  /\ stale' = [stale EXCEPT ![c] = FALSE]
  /\ retried' = [retried EXCEPT ![c] = 0]
  /\ UNCHANGED <<openConns, idle, down, sessStop, via, result, holds>>

(* A bare return hands out the connection with whatever err is left over. *)
ReturnConn(c, leftover) ==
  /\ Goto(c, "out")
  /\ result' = [result EXCEPT ![c] = IF leftover THEN "connErr" ELSE "conn"]
  /\ holds' = [holds EXCEPT ![c] = "open"]
  /\ stale' = [stale EXCEPT ![c] = FALSE]

ReturnErr(c) ==
  /\ Goto(c, "out")
  /\ result' = [result EXCEPT ![c] = "err"]
  /\ stale' = [stale EXCEPT ![c] = FALSE]
  /\ UNCHANGED holds

(* case connitem = <-c.pool: parked less than 20 s ago. *)
TakeFresh(c) ==
  /\ pc[c] = "loop" /\ idle > 0
  /\ idle' = idle - 1
  /\ ReturnConn(c, stale[c])
  /\ UNCHANGED <<openConns, down, sessStop, retried, via>>

(* Older: closed, and looked for another (over 30 s) or dialed anew.       *)
TakeAged(c) ==
  /\ pc[c] = "loop" /\ idle > 0
  /\ idle' = idle - 1
  /\ \E next \in {"closeOld", "closeExpired"} : Goto(c, next)
  /\ UNCHANGED <<openConns, down, sessStop, stale, retried, via, result, holds>>

CloseAged(c) ==
  /\ pc[c] \in {"closeOld", "closeExpired"}
  /\ openConns' = openConns - 1
  /\ Goto(c, IF pc[c] = "closeOld" THEN "loop" ELSE "new")
  /\ via' = [via EXCEPT ![c] = "expired"]
  /\ UNCHANGED <<idle, down, sessStop, stale, retried, result, holds>>

(* default: the channel was empty; openConns is read after that. *)
FoundEmpty(c) ==
  /\ pc[c] = "loop" /\ idle = 0
  /\ Goto(c, "check")
  /\ UNCHANGED <<openConns, idle, down, sessStop, stale, retried, via, result, holds>>

CheckAllOpen(c) ==
  /\ pc[c] = "check" /\ openConns = MaxConns
  /\ Goto(c, "full")
  /\ UNCHANGED <<openConns, idle, down, sessStop, stale, retried, via, result, holds>>

CheckMayDial(c) ==
  /\ pc[c] = "check" /\ openConns < MaxConns /\ ~sessStop
  /\ Goto(c, "new")
  /\ via' = [via EXCEPT ![c] = "empty"]
  /\ UNCHANGED <<openConns, idle, down, sessStop, stale, retried, result, holds>>

(* The wait for a parked connection. Only a send on the channel or the     *)
(* session's stop ends it.                                                 *)
TakeParked(c) ==
  /\ pc[c] = "full" /\ idle > 0
  /\ idle' = idle - 1
  /\ ReturnConn(c, stale[c])
  /\ UNCHANGED <<openConns, down, sessStop, retried, via>>

(* The session is over, seen before dialing or while waiting, or there are *)
(* more connections than allowed ("should be impossible to trigger").      *)
Refused(c) ==
  /\ pc[c] \in {"check", "full"}
  /\ pc[c] = "check" => openConns # MaxConns
  /\ sessStop \/ (pc[c] = "check" /\ openConns > MaxConns)
  /\ ReturnErr(c)
  /\ UNCHANGED <<openConns, idle, down, sessStop, retried, via>>

(***************************************************************************)
(* NewConn, called by GetConn for an expired connection (the error stays   *)
(* in err and the loop goes on) or for an empty pool (retried a few times, *)
(* then given up; a failed dial then marks the provider down).             *)
(***************************************************************************)
NewConnFailed(c, isDial) ==
  \/ /\ via[c] = "expired"
     /\ stale' = [stale EXCEPT ![c] = TRUE]
     /\ Goto(c, "loop")
     /\ UNCHANGED <<down, retried, result, holds>>
  \/ /\ via[c] = "empty" /\ retried[c] + 1 < MaxConnErrors
     /\ retried' = [retried EXCEPT ![c] = @ + 1]
     /\ Goto(c, "loop")
     /\ UNCHANGED <<down, stale, result, holds>>
  \/ /\ via[c] = "empty" /\ retried[c] + 1 >= MaxConnErrors
     /\ retried' = [retried EXCEPT ![c] = @ + 1]
     /\ down' = (down \/ (isDial /\ ~Proxy))
     /\ ReturnErr(c)

NewConnNoRoom(c) ==
  /\ pc[c] = "new" /\ openConns >= MaxConns
  /\ NewConnFailed(c, FALSE)
  /\ UNCHANGED <<openConns, idle, sessStop, via>>

(* Mutant: the limit is not looked at again under the lock. *)
NewConnCount_Unchecked(c) ==
  /\ pc[c] = "new"
  /\ openConns' = openConns + 1
  /\ Goto(c, "sem")
  /\ UNCHANGED <<idle, down, sessStop, stale, retried, via, result, holds>>

NewConnCount(c) ==
  /\ pc[c] = "new" /\ openConns < MaxConns
  /\ openConns' = openConns + 1
  /\ Goto(c, "sem")
  /\ UNCHANGED <<idle, down, sessStop, stale, retried, via, result, holds>>

Dialing == {c \in Clients : pc[c] = "dial"}

AcquireDialSem(c) ==
  /\ pc[c] = "sem" /\ Cardinality(Dialing) < DialParallel
  /\ Goto(c, "dial")
  /\ UNCHANGED <<openConns, idle, down, sessStop, stale, retried, via, result, holds>>

DialSemStopped(c) ==
  /\ pc[c] = "sem" /\ sessStop
  /\ openConns' = openConns - 1
  /\ NewConnFailed(c, FALSE)
  /\ UNCHANGED <<idle, sessStop, via>>

DialOK(c) ==
  /\ pc[c] = "dial"
  /\ ReturnConn(c, FALSE)
  /\ UNCHANGED <<openConns, idle, down, sessStop, retried, via>>

(* Mutant: the count is not given back when the connect fails. *)
DialFailed_KeepsCount(c) ==
  /\ pc[c] = "dial"
  /\ \E isDial \in BOOLEAN : NewConnFailed(c, isDial)
  /\ UNCHANGED <<openConns, idle, sessStop, via>>

DialFailed(c) ==
  /\ pc[c] = "dial"
  /\ openConns' = openConns - 1
  /\ \E isDial \in BOOLEAN : NewConnFailed(c, isDial)
  /\ UNCHANGED <<idle, sessStop, via>>

GetConnStep(c) ==
  \/ TakeFresh(c) \/ TakeAged(c) \/ CloseAged(c) \/ FoundEmpty(c)
  \/ CheckAllOpen(c) \/ CheckMayDial(c) \/ TakeParked(c)
  \/ Refused(c)
  \/ NewConnNoRoom(c) \/ NewConnCount(c)
  \/ AcquireDialSem(c) \/ DialSemStopped(c) \/ DialOK(c) \/ DialFailed(c)

(***************************************************************************)
(* What the holder of a connection does with it. These say nothing about   *)
(* pc, sessStop and down.                                                  *)
(***************************************************************************)
(* Mutant: closing a connection twice counts twice. *)
CloseOnce_Always(c) == openConns' = openConns - 1

(* The close in CloseConn: only a connection still open counts down. *)
CloseOnce(c) == openConns' = IF holds[c] = "open" THEN openConns - 1 ELSE openConns

(* ParkConn of an open connection: closed if the channel is full. *)
ParkItem ==
  /\ idle' = IF idle < MaxConns THEN idle + 1 ELSE idle
  /\ openConns' = IF idle < MaxConns THEN openConns ELSE openConns - 1

(* An article over the size limit: readDotLines closes the connection, its *)
(* caller closes it again.                                                 *)
ReadDotLinesCloses(c) ==
  /\ result[c] = "conn" /\ holds[c] = "open"
  /\ CloseOnce(c)
  /\ holds' = [holds EXCEPT ![c] = "dead"]
  /\ UNCHANGED <<idle, down, sessStop, pc, stale, retried, via, result>>

(* The connection is out of its client's hands. *)
LetGo(c) ==
  /\ result' = [result EXCEPT ![c] = "none"]
  /\ holds' = [holds EXCEPT ![c] = "none"]
  /\ UNCHANGED <<down, sessStop, pc, stale, retried, via>>

(* A connection handed out with an error: its client does not look at it,  *)
(* and it is forgotten.                                                    *)
Forget(c) == lost' = IF holds[c] = "open" THEN lost + 1 ELSE lost

(***************************************************************************)
(* Accounting                                                              *)
(***************************************************************************)
(* The clients that one of the counted connections belongs to: in hand, on *)
(* its way out of the pool to be closed, or being set up.                  *)
Owners ==
  {c \in Clients : holds[c] = "open" \/ pc[c] \in {"closeOld", "closeExpired", "sem", "dial"}}
=============================================================================
