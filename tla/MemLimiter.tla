----------------------------- MODULE MemLimiter -----------------------------
(***************************************************************************)
(* MemLimit.go: the limiter of articles held in memory. memchan holds one  *)
(* token per free slot, memdata the items that own one, pending the items  *)
(* a caller is waiting for. A critical section of m.mux is one action;     *)
(* what runs between two of them (the selects on memchan, the refill after *)
(* the unlock) is an action of its own.                                    *)
(*                                                                         *)
(* Lockers are the goroutines inside MemLockWait, Returners those inside   *)
(* memReturn. One goroutine does both in turn; as two processes it can     *)
(* only do more. item.memlocked is not a variable of its own: the code     *)
(* writes it in the same critical sections as memdata, so it is the same   *)
(* bit.                                                                    *)
(***************************************************************************)
EXTENDS Integers, FiniteSets

CONSTANTS Lockers,    \* goroutines that call MemLockWait
          Returners,  \* goroutines that call MemReturn / MemReturnIfHeld
          Items,      \* *segmentChanItem
          None,       \* nil
          MemValue,   \* the -mem argument of NewMemLimiter
          MaxCalls    \* bound: MemLockWait calls per locker

ASSUME SetsAssumption ==
  /\ IsFiniteSet(Lockers) /\ IsFiniteSet(Returners) /\ IsFiniteSet(Items)
  /\ Lockers \cap Returners = {}
  /\ None \notin Lockers \cup Items
ASSUME ValuesAssumption == MemValue \in Int /\ MaxCalls \in Nat

VARIABLES tokens,    \* len(m.memchan)
          waiting,   \* m.waiting
          memdata,   \* the items that own a slot
          pending,   \* pending[i]: the locker whose done channel is registered for i, or None
          pc,        \* where each goroutine is
          arg,       \* the item of the call
          got,       \* the local of MemLockWait
          other,     \* the locker whose done channel c waits on; None once that is closed
          ret,       \* what the last MemLockWait of c returned
          stopped,   \* lockers whose stop channel is closed
          calls      \* calls made so far (for the bound only)

vars == <<tokens, waiting, memdata, pending, pc, arg, got, other, ret, stopped, calls>>

Procs == Lockers \cup Returners

(* NewMemLimiter replaces a value of 0 or less by 2. *)
MemMax == IF MemValue <= 0 THEN 2 ELSE MemValue

(***************************************************************************)
(* State                                                                   *)
(***************************************************************************)
LockerPCs == {"idle", "enter", "other", "try", "select", "record"}

TypeOK ==
  /\ tokens \in 0..MemMax
  /\ waiting \in Nat
  /\ memdata \subseteq Items
  /\ pending \in [Items -> Lockers \cup {None}]
  /\ pc \in [Procs -> LockerPCs \cup {"refill"}]
  /\ arg \in [Procs -> Items \cup {None}]
  /\ got \in [Lockers -> BOOLEAN]
  /\ other \in [Lockers -> Lockers \cup {None}]
  /\ ret \in [Lockers -> {"none", "held", "refused"}]
  /\ stopped \subseteq Lockers
  /\ calls \in [Lockers -> 0..MaxCalls]

NewMemLimiter ==
  /\ tokens = MemMax
  /\ waiting = 0
  /\ memdata = {}
  /\ pending = [i \in Items |-> None]

Init ==
  /\ NewMemLimiter
  /\ pc = [p \in Procs |-> "idle"]
  /\ arg = [p \in Procs |-> None]
  /\ got = [c \in Lockers |-> FALSE]
  /\ other = [c \in Lockers |-> None]
  /\ ret = [c \in Lockers |-> "none"]
  /\ stopped = {}
  /\ calls = [c \in Lockers |-> 0]

(***************************************************************************)
(* MemLockWait                                                             *)
(***************************************************************************)
Goto(p, label) == pc' = [pc EXCEPT ![p] = label]

Call(c, i) ==
  /\ pc[c] = "idle" /\ calls[c] < MaxCalls
  /\ Goto(c, "enter")
  /\ arg' = [arg EXCEPT ![c] = i]
  /\ calls' = [calls EXCEPT ![c] = @ + 1]
  /\ UNCHANGED <<tokens, waiting, memdata, pending, got, other, ret, stopped>>

Return(c, what) ==
  /\ Goto(c, "idle")
  /\ ret' = [ret EXCEPT ![c] = what]
  /\ arg' = [arg EXCEPT ![c] = None]

AlreadyHeld(c) ==
  /\ pc[c] = "enter" /\ arg[c] \in memdata
  /\ Return(c, "held")
  /\ UNCHANGED <<tokens, waiting, memdata, pending, got, other, stopped, calls>>

AlreadyPending(c) ==
  /\ pc[c] = "enter" /\ arg[c] \notin memdata /\ pending[arg[c]] # None
  /\ other' = [other EXCEPT ![c] = pending[arg[c]]]
  /\ Goto(c, "other")
  /\ UNCHANGED <<tokens, waiting, memdata, pending, arg, got, ret, stopped, calls>>

(* Mutant: a second waiter does not look at pending. *)
Register_IgnoresPending(c) ==
  /\ pc[c] = "enter" /\ arg[c] \notin memdata
  /\ pending' = [pending EXCEPT ![arg[c]] = c]
  /\ waiting' = waiting + 1
  /\ got' = [got EXCEPT ![c] = FALSE]
  /\ Goto(c, "try")
  /\ UNCHANGED <<tokens, memdata, arg, other, ret, stopped, calls>>

Register(c) ==
  /\ pc[c] = "enter" /\ arg[c] \notin memdata /\ pending[arg[c]] = None
  /\ pending' = [pending EXCEPT ![arg[c]] = c]
  /\ waiting' = waiting + 1
  /\ got' = [got EXCEPT ![c] = FALSE]
  /\ Goto(c, "try")
  /\ UNCHANGED <<tokens, memdata, arg, other, ret, stopped, calls>>

(* select { case <-other: look again; case <-stop: return false } *)
OtherDone(c) ==
  /\ pc[c] = "other" /\ other[c] = None
  /\ Goto(c, "enter")
  /\ UNCHANGED <<tokens, waiting, memdata, pending, arg, got, other, ret, stopped, calls>>

OtherStopped(c) ==
  /\ pc[c] = "other" /\ c \in stopped
  /\ other' = [other EXCEPT ![c] = None]
  /\ Return(c, "refused")
  /\ UNCHANGED <<tokens, waiting, memdata, pending, got, stopped, calls>>

(* The outer select takes a token at once if there is one, the inner one   *)
(* waits for a token or for stop.                                          *)
TakeToken(c) ==
  /\ pc[c] \in {"try", "select"} /\ tokens > 0
  /\ tokens' = tokens - 1
  /\ got' = [got EXCEPT ![c] = TRUE]
  /\ Goto(c, "record")
  /\ UNCHANGED <<waiting, memdata, pending, arg, other, ret, stopped, calls>>

NoFreeToken(c) ==
  /\ pc[c] = "try" /\ tokens = 0
  /\ Goto(c, "select")
  /\ UNCHANGED <<tokens, waiting, memdata, pending, arg, got, other, ret, stopped, calls>>

(* Mutants: a default branch instead of <-stop; no stop case at all.       *)
GiveUp_Default(c) ==
  /\ pc[c] = "select"
  /\ Goto(c, "record")
  /\ UNCHANGED <<tokens, waiting, memdata, pending, arg, got, other, ret, stopped, calls>>

GiveUp_NilStop(c) == FALSE /\ UNCHANGED vars

GiveUp(c) ==
  /\ pc[c] = "select" /\ c \in stopped
  /\ Goto(c, "record")
  /\ UNCHANGED <<tokens, waiting, memdata, pending, arg, got, other, ret, stopped, calls>>

(* close(done) wakes every goroutine waiting on c's channel. *)
CloseDone(c) == other' = [x \in Lockers |-> IF other[x] = c THEN None ELSE other[x]]

(* Mutant: done is not closed. *)
Record_KeepsDoneOpen(c) ==
  /\ pc[c] = "record"
  /\ waiting' = waiting - 1
  /\ pending' = [pending EXCEPT ![arg[c]] = None]
  /\ memdata' = IF got[c] THEN memdata \cup {arg[c]} ELSE memdata
  /\ Return(c, IF got[c] THEN "held" ELSE "refused")
  /\ got' = [got EXCEPT ![c] = FALSE]
  /\ UNCHANGED <<tokens, other, stopped, calls>>

Record(c) ==
  /\ pc[c] = "record"
  /\ waiting' = waiting - 1
  /\ pending' = [pending EXCEPT ![arg[c]] = None]
  /\ memdata' = IF got[c] THEN memdata \cup {arg[c]} ELSE memdata
  /\ CloseDone(c)
  /\ Return(c, IF got[c] THEN "held" ELSE "refused")
  /\ got' = [got EXCEPT ![c] = FALSE]
  /\ UNCHANGED <<tokens, stopped, calls>>

Stop(c) ==
  /\ c \notin stopped
  /\ stopped' = stopped \cup {c}
  /\ UNCHANGED <<tokens, waiting, memdata, pending, pc, arg, got, other, ret, calls>>

(***************************************************************************)
(* memReturn. For an item without a slot it only logs: no step.            *)
(***************************************************************************)
(* Mutant: memdata is not consulted first. *)
MemReturn_Unchecked(r, i) ==
  /\ pc[r] = "idle"
  /\ memdata' = memdata \ {i}
  /\ arg' = [arg EXCEPT ![r] = i]
  /\ Goto(r, "refill")
  /\ UNCHANGED <<tokens, waiting, pending, got, other, ret, stopped, calls>>

MemReturn(r, i) ==
  /\ pc[r] = "idle" /\ i \in memdata
  /\ memdata' = memdata \ {i}
  /\ arg' = [arg EXCEPT ![r] = i]
  /\ Goto(r, "refill")
  /\ UNCHANGED <<tokens, waiting, pending, got, other, ret, stopped, calls>>

(* Mutant: the slot is forgotten instead of put back. *)
Refill_Forgotten(r) ==
  /\ pc[r] = "refill"
  /\ arg' = [arg EXCEPT ![r] = None]
  /\ Goto(r, "idle")
  /\ UNCHANGED <<tokens, waiting, memdata, pending, got, other, ret, stopped, calls>>

(* After the unlock. The default branch of the select (a full channel)     *)
(* drops the token.                                                        *)
Refill(r) ==
  /\ pc[r] = "refill"
  /\ tokens' = IF tokens < MemMax THEN tokens + 1 ELSE tokens
  /\ arg' = [arg EXCEPT ![r] = None]
  /\ Goto(r, "idle")
  /\ UNCHANGED <<waiting, memdata, pending, got, other, ret, stopped, calls>>

MemLockWait(c) ==
  \/ AlreadyHeld(c) \/ AlreadyPending(c) \/ Register(c)
  \/ OtherDone(c) \/ OtherStopped(c)
  \/ TakeToken(c) \/ NoFreeToken(c) \/ GiveUp(c) \/ Record(c)

Next ==
  \/ \E c \in Lockers : (\E i \in Items : Call(c, i)) \/ MemLockWait(c) \/ Stop(c)
  \/ \E r \in Returners : (\E i \in Items : MemReturn(r, i)) \/ Refill(r)

Spec == Init /\ [][Next]_vars

(***************************************************************************)
(* Fairness. A goroutine that can run runs. A select on memchan is served  *)
(* in order of arrival (the receive queue of a Go channel is a FIFO), so a *)
(* waiter that is offered a token again and again gets one: SF. That       *)
(* holders give their slots back is what the callers owe, not fairness:    *)
(* HoldersReturn is the premise of the property that needs it.             *)
(***************************************************************************)
Fairness ==
  /\ \A c \in Lockers : WF_vars(MemLockWait(c))
  /\ \A c \in Lockers : SF_vars(TakeToken(c))
  /\ \A r \in Returners : WF_vars(Refill(r))

HoldersReturn == \A i \in Items : WF_vars(\E r \in Returners : MemReturn(r, i))

FairSpec == Spec /\ Fairness

(***************************************************************************)
(* Properties                                                              *)
(***************************************************************************)
(* Goroutines with a token in hand: taken from memchan and not recorded,   *)
(* or taken out of memdata and not put back.                               *)
InFlight ==
  {c \in Lockers : pc[c] = "record" /\ got[c]} \cup {r \in Returners : pc[r] = "refill"}

(* No slot is lost or made up: each is free in memchan, owned by one item, *)
(* or in the hands of one goroutine between the two (MemLockWait takes the *)
(* token outside the lock, memReturn refills it after the unlock).         *)
SlotsConserved ==
  tokens + Cardinality(memdata) + Cardinality(InFlight) = MemMax

(* "only one owner per slot, so the chan can't be full here" (MemLimit.go  *)
(* 186): memReturn's send never finds memchan full and drops a token.      *)
ChanNotFull == \A r \in Returners : pc[r] = "refill" => tokens < MemMax

(* At most one goroutine waits for a slot for an item, it is the one       *)
(* pending names, and no goroutine takes a token for an item that already  *)
(* owns a slot: that token would never come back.                          *)
Waits(c) == pc[c] \in {"try", "select", "record"}

OneWaiterPerItem ==
  \A c \in Lockers : Waits(c) =>
    /\ arg[c] \notin memdata
    /\ pending[arg[c]] = c

(* A goroutine that waits on another's done channel waits on a channel     *)
(* that somebody is still going to close: no wakeup is lost, whatever      *)
(* happened to the item since.                                             *)
NoLostWakeup ==
  \A c \in Lockers : pc[c] = "other" /\ other[c] # None => Waits(other[c])

(* m.waiting, which MemAvail (pushDL's bound on queued downloads) reads    *)
(* without the lock, is the number of goroutines waiting for a slot.       *)
WaitingExact == waiting = Cardinality({c \in Lockers : Waits(c)})

(* The limiter implements the slot service: grants and refusals happen     *)
(* only when the service allows them.                                      *)
Request == [c \in Lockers |-> IF pc[c] = "idle" THEN None ELSE arg[c]]

Service == INSTANCE SlotService WITH
  NoItem <- None, Max <- MemMax, owned <- memdata, request <- Request, answer <- ret

ImplementsService == Service!Spec

(* With holders that give their slots back, every MemLockWait returns.     *)
EveryCallReturns ==
  HoldersReturn => \A c \in Lockers : pc[c] # "idle" ~> pc[c] = "idle"

(* A closed stop channel ends MemLockWait even if no slot ever comes back  *)
(* (StopRoutines must not hang on a full limiter).                         *)
StopEndsWait == \A c \in Lockers : c \in stopped /\ pc[c] # "idle" ~> pc[c] = "idle"
=============================================================================
