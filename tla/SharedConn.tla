----------------------------- MODULE SharedConn -----------------------------
(***************************************************************************)
(* A session's use of a provider's connection pool (Workers.go,            *)
(* Routines.go, ConnPool.go 840-950). Every worker takes one connection    *)
(* from the pool and puts it into its channel sharedCC, of capacity 1; its *)
(* check, download and upload routines pass it around: who received from   *)
(* the channel, a connection or a nil token, owes it one send. When the    *)
(* session stops the routines end, the worker parks what is in the         *)
(* channel, and KillConnPool empties the pool.                             *)
(*                                                                         *)
(* The clients of the pool are the workers (for their first connection)    *)
(* and their routines (to replace one that broke).                         *)
(***************************************************************************)
EXTENDS ConnPool

CONSTANTS Workers,   \* the GoWorkers of the provider
          Routines,  \* their routines
          Checkers,  \* the routines that may also end on idle: the check routines
          workerOf   \* the worker a routine belongs to

ASSUME SharedAssumption ==
  /\ Clients = Workers \cup Routines /\ Workers \cap Routines = {}
  /\ Checkers \subseteq Routines
  /\ workerOf \in [Routines -> Workers]
  /\ Cardinality(Workers) = MaxConns  \* GoBootWorkers starts MaxConns workers

VARIABLES cc,       \* a worker's channel: empty, or holding nil or a connection
          wphase,   \* where a GoWorker is
          phase,    \* where a routine is
          killed    \* KillConnPool dropped the pool

sharedVars == <<cc, wphase, phase, lost, killed>>
vars == <<poolVars, sharedVars>>

TypeOK ==
  /\ PoolTypeOK
  /\ cc \in [Workers -> {"empty", "nil", "open"}]
  /\ wphase \in [Workers -> {"boot", "up", "ended"}]
  /\ phase \in [Routines -> {"idle", "ask", "blocked", "got", "ended"}]
  /\ lost \in 0..MaxConns /\ killed \in BOOLEAN

Init ==
  /\ PoolInit
  /\ cc = [w \in Workers |-> "empty"]
  /\ wphase = [w \in Workers |-> "boot"]
  /\ phase = [r \in Routines |-> "idle"]
  /\ lost = 0 /\ killed = FALSE

Send(w, token) == cc' = [cc EXCEPT ![w] = token]
To(r, ph) == phase' = [phase EXCEPT ![r] = ph]

(***************************************************************************)
(* GoWorker and GetNewSharedConnChannel                                    *)
(***************************************************************************)
Boot(w) ==
  /\ wphase[w] = "boot" /\ GetConn(w)
  /\ UNCHANGED sharedVars

BootOK(w) ==
  /\ wphase[w] = "boot" /\ result[w] = "conn"
  /\ LetGo(w) /\ Send(w, "open")
  /\ wphase' = [wphase EXCEPT ![w] = "up"]
  /\ UNCHANGED <<openConns, idle, phase, lost, killed>>

(* Mutant: the worker that gives up is still waited for. *)
BootFailed_StillWaited(w) ==
  /\ wphase[w] = "boot" /\ result[w] \in {"err", "connErr"}
  /\ LetGo(w) /\ Forget(w)
  /\ UNCHANGED <<openConns, idle, cc, wphase, phase, killed>>

(* The worker ends and starts no routine. *)
BootFailed(w) ==
  /\ wphase[w] = "boot" /\ result[w] \in {"err", "connErr"}
  /\ LetGo(w) /\ Forget(w)
  /\ wphase' = [wphase EXCEPT ![w] = "ended"]
  /\ UNCHANGED <<openConns, idle, cc, phase, killed>>

(***************************************************************************)
(* A routine works an item: SharedConnGet, the command, SharedConnReturn   *)
(* or CloseConn.                                                           *)
(***************************************************************************)
(* A routine that sees the stop or the provider down drops the item.       *)
StartItem(r) ==
  /\ wphase[workerOf[r]] = "up" /\ phase[r] = "idle" /\ ~sessStop /\ ~down
  /\ To(r, "ask")
  /\ UNCHANGED <<poolVars, cc, wphase, lost, killed>>

(* The first select finds no token, the second waits for one or the stop. *)
Block(r) ==
  /\ phase[r] = "ask" /\ cc[workerOf[r]] = "empty"
  /\ To(r, "blocked")
  /\ UNCHANGED <<poolVars, cc, wphase, lost, killed>>

(* The token is the connection ... *)
TakeConn(r) ==
  /\ phase[r] \in {"ask", "blocked"} /\ cc[workerOf[r]] = "open"
  /\ To(r, "got") /\ Send(workerOf[r], "empty")
  /\ result' = [result EXCEPT ![r] = "conn"]
  /\ holds' = [holds EXCEPT ![r] = "open"]
  /\ UNCHANGED <<openConns, idle, down, sessStop, pc, stale, retried, via,
                 wphase, lost, killed>>

(* ... or nil: the routine gets one from the pool. *)
TakeNil(r) ==
  /\ phase[r] \in {"ask", "blocked"} /\ cc[workerOf[r]] = "nil"
  /\ To(r, "got") /\ Send(workerOf[r], "empty")
  /\ GetConn(r)
  /\ UNCHANGED <<wphase, lost, killed>>

BlockedStopped(r) ==
  /\ phase[r] = "blocked" /\ sessStop
  /\ To(r, "idle")
  /\ UNCHANGED <<poolVars, cc, wphase, lost, killed>>

InGetConn(c) == GetConnStep(c) /\ UNCHANGED sharedVars

(* Mutant: no nil is put back. *)
GetFailed_KeepsToken(r) ==
  /\ phase[r] = "got" /\ result[r] \in {"err", "connErr"}
  /\ LetGo(r) /\ Forget(r) /\ To(r, "idle")
  /\ UNCHANGED <<openConns, idle, cc, wphase, killed>>

GetFailed(r) ==
  /\ phase[r] = "got" /\ result[r] \in {"err", "connErr"}
  /\ LetGo(r) /\ Forget(r) /\ To(r, "idle")
  /\ Send(workerOf[r], "nil")
  /\ UNCHANGED <<openConns, idle, wphase, killed>>

SharedConnReturn(r) ==
  /\ phase[r] = "got" /\ result[r] = "conn" /\ holds[r] = "open"
  /\ LetGo(r) /\ To(r, "idle")
  /\ Send(workerOf[r], "open")
  /\ UNCHANGED <<openConns, idle, wphase, lost, killed>>

TooLarge(r) == phase[r] = "got" /\ ReadDotLinesCloses(r) /\ UNCHANGED sharedVars

(* Mutant: a second close returns early and sends no token. *)
CloseConn_EarlyReturn(r) ==
  /\ phase[r] = "got" /\ result[r] = "conn"
  /\ CloseOnce(r) /\ LetGo(r) /\ To(r, "idle")
  /\ IF holds[r] = "open" THEN Send(workerOf[r], "nil") ELSE UNCHANGED cc
  /\ UNCHANGED <<idle, wphase, lost, killed>>

(* The command failed: CloseConn(connitem, sharedCC). *)
CloseConn(r) ==
  /\ phase[r] = "got" /\ result[r] = "conn"
  /\ CloseOnce(r) /\ LetGo(r) /\ To(r, "idle")
  /\ Send(workerOf[r], "nil")
  /\ UNCHANGED <<idle, wphase, lost, killed>>

(* The work channel was closed, or a check routine had nothing to do.      *)
End(r) ==
  /\ wphase[workerOf[r]] = "up" /\ phase[r] = "idle"
  /\ r \notin Checkers => sessStop
  /\ To(r, "ended")
  /\ UNCHANGED <<poolVars, cc, wphase, lost, killed>>

(***************************************************************************)
(* The end of the worker and of the pool                                   *)
(***************************************************************************)
RoutinesEnded(w) == \A r \in Routines : workerOf[r] = w => phase[r] = "ended"

FinalPark(w) ==
  /\ wphase[w] = "up" /\ RoutinesEnded(w)
  /\ Send(w, "empty")
  /\ wphase' = [wphase EXCEPT ![w] = "ended"]
  /\ IF cc[w] = "open" THEN ParkItem ELSE UNCHANGED <<openConns, idle>>
  /\ UNCHANGED <<down, sessStop, pc, stale, retried, via, result, holds, phase, lost, killed>>

(* StopRoutines, or a stop from outside. *)
Stop ==
  /\ ~sessStop /\ sessStop' = TRUE
  /\ UNCHANGED <<openConns, idle, down, pc, stale, retried, via, result, holds, sharedVars>>

WorkersEnded == \A w \in Workers : wphase[w] = "ended"

(* KillConnPool closes the idle connections one by one ...                 *)
DrainOne ==
  /\ WorkersEnded /\ sessStop /\ ~killed /\ idle > 0
  /\ idle' = idle - 1 /\ openConns' = openConns - 1
  /\ UNCHANGED <<down, sessStop, pc, stale, retried, via, result, holds, sharedVars>>

(* ... and drops the pool when none is open, or after five seconds.        *)
KillPool ==
  /\ WorkersEnded /\ sessStop /\ ~killed /\ idle = 0
  /\ killed' = TRUE
  /\ UNCHANGED <<poolVars, cc, wphase, phase, lost>>

Work(r) ==
  \/ StartItem(r) \/ Block(r) \/ TakeConn(r) \/ TakeNil(r) \/ BlockedStopped(r)
  \/ GetFailed(r) \/ SharedConnReturn(r) \/ TooLarge(r) \/ CloseConn(r) \/ End(r)

Next ==
  \/ \E c \in Clients : InGetConn(c)
  \/ \E w \in Workers : Boot(w) \/ BootOK(w) \/ BootFailed(w) \/ FinalPark(w)
  \/ \E r \in Routines : Work(r)
  \/ Stop \/ DrainOne \/ KillPool

Spec == Init /\ [][Next]_vars

(***************************************************************************)
(* Fairness. Go runs every goroutine that can run, dials have a time       *)
(* limit, a command has a read deadline, and goroutines that wait on a     *)
(* channel are served in the order they came: the token that is sent again *)
(* and again reaches every waiting routine. Work on items is not owed.     *)
(***************************************************************************)
Fairness ==
  /\ \A c \in Clients :
       WF_vars(InGetConn(c)) /\ SF_vars(AcquireDialSem(c) /\ UNCHANGED sharedVars)
  /\ \A w \in Workers :
       WF_vars(Boot(w)) /\ WF_vars(BootOK(w)) /\ WF_vars(BootFailed(w)) /\ WF_vars(FinalPark(w))
  /\ \A r \in Routines :
       /\ WF_vars(Block(r)) /\ WF_vars(BlockedStopped(r))
       /\ SF_vars(TakeConn(r) \/ TakeNil(r))
       /\ WF_vars(GetFailed(r)) /\ WF_vars(SharedConnReturn(r) \/ CloseConn(r))
       /\ WF_vars(sessStop /\ End(r))
  /\ WF_vars(DrainOne) /\ WF_vars(KillPool)

FairSpec == Spec /\ Fairness

(***************************************************************************)
(* Properties                                                              *)
(***************************************************************************)
(* A running worker has one token, in its channel or with one routine:     *)
(* every way through SharedConnGet, the routines and CloseConn sends back  *)
(* what it received, once. A missing token leaves the siblings waiting in  *)
(* SharedConnGet, a second one blocks its sender on the full channel.      *)
OneToken ==
  \A w \in Workers :
    wphase[w] = "up" =>
      Cardinality({r \in Routines : workerOf[r] = w /\ phase[r] = "got"})
        + (IF cc[w] = "empty" THEN 0 ELSE 1) = 1

(* The count covers every connection once: idle, in a worker's channel,    *)
(* with a client, or forgotten.                                            *)
OpenConnsExact ==
  openConns = idle + Cardinality({w \in Workers : cc[w] = "open"}) + Cardinality(Owners) + lost

(* With one connection per worker nobody waits for a parked one: the       *)
(* "infinite wait" of GetConn (ConnPool.go 537) would last until the       *)
(* session stops, no routine parks a connection before that.               *)
SessionNeverWaits == \A c \in Clients : pc[c] # "full"

(* A routine that asks for the shared connection gets an answer. *)
TokenComes == \A r \in Routines : phase[r] = "blocked" ~> phase[r] # "blocked"

(* A stopped session lets go of its pool, whatever its routines were doing. *)
SessionEnds == sessStop ~> killed
(* Types, tokens and connections all add up, on every way through          *)
(* SharedConnGet, the routines, boot, final park and KillConnPool.         *)
ConnsAccounted == TypeOK /\ OneToken /\ OpenConnsExact
=============================================================================
