-------------------------- MODULE MemLimiterProofs --------------------------
(***************************************************************************)
(* Proofs about MemLimiter, for every set of goroutines and items and      *)
(* every -mem value. The inductive invariant IInv adds to the checked      *)
(* invariants what a step needs to know of the goroutines' control state   *)
(* (Control) and of the pending map (PendingExact).                        *)
(***************************************************************************)
EXTENDS MemLimiter, FiniteSetTheorems, TLAPS

(* Where goroutines can be, and what their locals mean there. *)
Control ==
  /\ \A c \in Lockers : pc[c] \in LockerPCs
  /\ \A r \in Returners : pc[r] \in {"idle", "refill"}
  /\ \A c \in Lockers : pc[c] # "idle" => arg[c] \in Items
  /\ \A c \in Lockers : got[c] => pc[c] = "record"
  /\ \A c \in Lockers : pc[c] = "record" /\ ~got[c] => c \in stopped

(* An entry of pending belongs to a goroutine that waits for that item. *)
PendingExact ==
  \A i \in Items : pending[i] # None => Waits(pending[i]) /\ arg[pending[i]] = i

ControlInv == TypeOK /\ Control /\ PendingExact /\ OneWaiterPerItem /\ NoLostWakeup
CountInv == SlotsConserved /\ WaitingExact
IInv == ControlInv /\ CountInv

Waiters == {c \in Lockers : Waits(c)}

(* MemMax is a positive number whatever -mem was. *)
LEMMA MemMaxPositive == MemMax \in Nat /\ MemMax > 0
  BY ValuesAssumption DEF MemMax

(* The sets whose sizes are compared are finite.                           *)
LEMMA FiniteParts ==
  ASSUME TypeOK
  PROVE  /\ IsFiniteSet(memdata) /\ Cardinality(memdata) \in Nat
         /\ IsFiniteSet(InFlight) /\ Cardinality(InFlight) \in Nat
         /\ IsFiniteSet(Waiters) /\ Cardinality(Waiters) \in Nat
  <1>1. IsFiniteSet(memdata)
    BY FS_Subset, SetsAssumption DEF TypeOK
  <1>2. IsFiniteSet(Procs)
    BY FS_Union, SetsAssumption DEF Procs
  <1>3. InFlight \subseteq Procs /\ Waiters \subseteq Lockers
    BY DEF InFlight, Waiters, Procs
  <1>4. IsFiniteSet(InFlight)
    BY <1>2, <1>3, FS_Subset
  <1>5. IsFiniteSet(Waiters)
    BY <1>3, FS_Subset, SetsAssumption
  <1> QED
    BY <1>1, <1>4, <1>5, FS_CardinalityType

-----------------------------------------------------------------------------
(* The initial state. *)
LEMMA InitIInv == Init => IInv
  <1> SUFFICES ASSUME Init PROVE IInv
    OBVIOUS
  <1> USE DEF Init, NewMemLimiter
  <1>1. ControlInv
    BY MemMaxPositive, ValuesAssumption, SetsAssumption
    DEF ControlInv, TypeOK, Control, PendingExact, OneWaiterPerItem, NoLostWakeup,
        Waits, Procs, LockerPCs
  <1>2. InFlight = {} /\ Waiters = {}
    BY DEF InFlight, Waiters, Waits, Procs
  <1>3. CountInv
    BY <1>2, FS_EmptySet, MemMaxPositive DEF CountInv, SlotsConserved, WaitingExact, Waiters
  <1> QED
    BY <1>1, <1>3 DEF IInv

-----------------------------------------------------------------------------
(* memReturn's send never finds memchan full: the goroutine that sends has *)
(* a token in hand, so at most MemMax - 1 are in the channel.              *)
LEMMA RoomForRefill ==
  ASSUME TypeOK, SlotsConserved
  PROVE  ChanNotFull
  <1> SUFFICES ASSUME NEW r \in Returners, pc[r] = "refill"
               PROVE  tokens < MemMax
    BY DEF ChanNotFull
  <1>1. InFlight # {}
    BY DEF InFlight
  <1>2. Cardinality(InFlight) > 0
    BY <1>1, FiniteParts, FS_EmptySet
  <1> QED
    BY <1>2, FiniteParts, MemMaxPositive DEF SlotsConserved, TypeOK

(* A goroutine that waits is counted in m.waiting. *)
LEMMA WaiterCounted ==
  ASSUME TypeOK, WaitingExact, NEW c \in Lockers, Waits(c)
  PROVE  waiting > 0
  <1>1. Waiters # {}
    BY DEF Waiters
  <1>2. Cardinality(Waiters) > 0
    BY <1>1, FiniteParts, FS_EmptySet
  <1> QED
    BY <1>2, FiniteParts DEF WaitingExact, Waiters

-----------------------------------------------------------------------------
(* The control part of the invariant is preserved by every step.           *)
LEMMA ControlStep == IInv /\ [Next]_vars => ControlInv'
  <1> SUFFICES ASSUME IInv, [Next]_vars PROVE ControlInv'
    OBVIOUS
  <1> USE SetsAssumption, ValuesAssumption, MemMaxPositive
      DEF IInv, ControlInv, CountInv, Control, PendingExact, OneWaiterPerItem, NoLostWakeup,
          Waits, Procs, LockerPCs, Goto, Return, CloseDone
  <1>1. ASSUME NEW c \in Lockers, NEW i \in Items, Call(c, i) PROVE ControlInv'
    BY <1>1 DEF Call, TypeOK
  <1>2. ASSUME NEW c \in Lockers, AlreadyHeld(c) PROVE ControlInv'
    BY <1>2 DEF AlreadyHeld, TypeOK
  <1>3. ASSUME NEW c \in Lockers, AlreadyPending(c) PROVE ControlInv'
    BY <1>3 DEF AlreadyPending, TypeOK
  <1>4. ASSUME NEW c \in Lockers, Register(c) PROVE ControlInv'
    BY <1>4 DEF Register, TypeOK
  <1>5. ASSUME NEW c \in Lockers, OtherDone(c) PROVE ControlInv'
    BY <1>5 DEF OtherDone, TypeOK
  <1>6. ASSUME NEW c \in Lockers, OtherStopped(c) PROVE ControlInv'
    BY <1>6 DEF OtherStopped, TypeOK
  <1>7. ASSUME NEW c \in Lockers, TakeToken(c) PROVE ControlInv'
    BY <1>7 DEF TakeToken, TypeOK
  <1>8. ASSUME NEW c \in Lockers, NoFreeToken(c) PROVE ControlInv'
    BY <1>8 DEF NoFreeToken, TypeOK
  <1>9. ASSUME NEW c \in Lockers, GiveUp(c) PROVE ControlInv'
    BY <1>9 DEF GiveUp, TypeOK
  <1>10. ASSUME NEW c \in Lockers, Record(c) PROVE ControlInv'
    <2>1. waiting - 1 \in Nat
      BY <1>10, WaiterCounted DEF Record, TypeOK
    <2> QED
      BY <1>10, <2>1 DEF Record, TypeOK
  <1>11. ASSUME NEW c \in Lockers, Stop(c) PROVE ControlInv'
    BY <1>11 DEF Stop, TypeOK
  <1>12. ASSUME NEW r \in Returners, NEW i \in Items, MemReturn(r, i) PROVE ControlInv'
    BY <1>12 DEF MemReturn, TypeOK
  <1>13. ASSUME NEW r \in Returners, Refill(r) PROVE ControlInv'
    BY <1>13 DEF Refill, TypeOK
  <1>14. CASE UNCHANGED vars
    BY <1>14 DEF vars, TypeOK
  <1> QED
    BY <1>1, <1>2, <1>3, <1>4, <1>5, <1>6, <1>7, <1>8, <1>9, <1>10, <1>11, <1>12, <1>13, <1>14 DEF Next, MemLockWait

-----------------------------------------------------------------------------
(* The counting part. Each step adds at most one element to memdata,       *)
(* InFlight or Waiters and removes at most one.                            *)
LEMMA CountStep == IInv /\ [Next]_vars => CountInv'
  <1> SUFFICES ASSUME IInv, [Next]_vars PROVE CountInv'
    OBVIOUS
  <1>0. /\ TypeOK /\ Control /\ OneWaiterPerItem
        /\ SlotsConserved /\ waiting = Cardinality(Waiters)
        /\ MemMax \in Nat /\ tokens \in Nat
    BY MemMaxPositive DEF IInv, ControlInv, CountInv, WaitingExact, Waiters, TypeOK
  <1> USE SetsAssumption DEF Control, Waits, Procs, LockerPCs, Goto
  (* It is enough to say how the sets and counters change. *)
  <1>a. ASSUME tokens' = tokens, memdata' = memdata, InFlight' = InFlight,
               waiting' = waiting, Waiters' = Waiters
        PROVE  CountInv'
    BY <1>a, <1>0 DEF CountInv, SlotsConserved, WaitingExact, Waiters
  <1>b. ASSUME NEW c \in Lockers, NEW i \in Items, Call(c, i) PROVE CountInv'
    BY <1>b, <1>a, <1>0 DEF Call, TypeOK, InFlight, Waiters
  <1>c. ASSUME NEW c \in Lockers,
               AlreadyHeld(c) \/ AlreadyPending(c) \/ OtherDone(c) \/ OtherStopped(c)
        PROVE  CountInv'
    BY <1>c, <1>a, <1>0
    DEF AlreadyHeld, AlreadyPending, OtherDone, OtherStopped, Return, TypeOK, InFlight, Waiters
  <1>d. ASSUME NEW c \in Lockers, NoFreeToken(c) \/ GiveUp(c) PROVE CountInv'
    BY <1>d, <1>a, <1>0 DEF NoFreeToken, GiveUp, TypeOK, InFlight, Waiters
  <1>e. ASSUME NEW c \in Lockers, Register(c) PROVE CountInv'
    <2>1. InFlight' = InFlight /\ Waiters' = Waiters \cup {c} /\ c \notin Waiters
      BY <1>e, <1>0 DEF Register, TypeOK, InFlight, Waiters
    <2>2. Cardinality(Waiters') = Cardinality(Waiters) + 1
      BY <2>1, <1>0, FiniteParts, FS_AddElement
    <2>3. tokens' = tokens /\ memdata' = memdata /\ waiting' = waiting + 1
      BY <1>e DEF Register
    <2>4. SlotsConserved'
      BY <2>1, <2>3, <1>0 DEF SlotsConserved
    <2>5. WaitingExact'
      BY <2>2, <2>3, <1>0 DEF WaitingExact, Waiters
    <2> QED
      BY <2>4, <2>5 DEF CountInv
  <1>f. ASSUME NEW c \in Lockers, TakeToken(c) PROVE CountInv'
    <2>1. InFlight' = InFlight \cup {c} /\ c \notin InFlight /\ Waiters' = Waiters
      BY <1>f, <1>0 DEF TakeToken, TypeOK, InFlight, Waiters
    <2>2. Cardinality(InFlight') = Cardinality(InFlight) + 1
      BY <2>1, <1>0, FiniteParts, FS_AddElement
    <2>3. tokens' = tokens - 1 /\ memdata' = memdata /\ waiting' = waiting
      BY <1>f DEF TakeToken
    <2>4. SlotsConserved'
      BY <2>2, <2>3, <1>0, FiniteParts DEF SlotsConserved
    <2>5. WaitingExact'
      BY <2>1, <2>3, <1>0 DEF WaitingExact, Waiters
    <2> QED
      BY <2>4, <2>5 DEF CountInv
  <1>g. ASSUME NEW c \in Lockers, Record(c) PROVE CountInv'
    <2>1. Waiters' = Waiters \ {c} /\ c \in Waiters
      BY <1>g, <1>0 DEF Record, Return, TypeOK, Waiters
    <2>2. Cardinality(Waiters') = Cardinality(Waiters) - 1
      BY <2>1, <1>0, FiniteParts, FS_RemoveElement
    <2>3. WaitingExact'
      BY <2>1, <2>2, <1>g, <1>0 DEF Record, WaitingExact, Waiters
    <2>4. CASE got[c]
      <3>1. InFlight' = InFlight \ {c} /\ c \in InFlight
        BY <2>4, <1>g, <1>0 DEF Record, Return, TypeOK, InFlight
      <3>2. memdata' = memdata \cup {arg[c]} /\ arg[c] \notin memdata
        BY <2>4, <1>g, <1>0 DEF Record, OneWaiterPerItem
      <3>3. Cardinality(InFlight') = Cardinality(InFlight) - 1
        BY <3>1, <1>0, FiniteParts, FS_RemoveElement
      <3>4. Cardinality(memdata') = Cardinality(memdata) + 1
        BY <3>2, <1>0, FiniteParts, FS_AddElement
      <3>5. tokens' = tokens
        BY <1>g DEF Record
      <3>6. SlotsConserved'
        BY <3>3, <3>4, <3>5, <1>0, FiniteParts DEF SlotsConserved
      <3> QED
        BY <2>3, <3>6 DEF CountInv
    <2>5. CASE ~got[c]
      <3>1. InFlight' = InFlight /\ memdata' = memdata /\ tokens' = tokens
        BY <2>5, <1>g, <1>0 DEF Record, Return, TypeOK, InFlight
      <3> QED
        BY <2>3, <3>1, <1>0 DEF CountInv, SlotsConserved
    <2> QED
      BY <2>4, <2>5
  <1>h. ASSUME NEW c \in Lockers, Stop(c) PROVE CountInv'
    BY <1>h, <1>a, <1>0 DEF Stop, InFlight, Waiters
  <1>i. ASSUME NEW r \in Returners, NEW i \in Items, MemReturn(r, i) PROVE CountInv'
    <2>1. InFlight' = InFlight \cup {r} /\ r \notin InFlight /\ Waiters' = Waiters
      BY <1>i, <1>0 DEF MemReturn, TypeOK, InFlight, Waiters
    <2>2. Cardinality(InFlight') = Cardinality(InFlight) + 1
      BY <2>1, <1>0, FiniteParts, FS_AddElement
    <2>3. Cardinality(memdata') = Cardinality(memdata) - 1
      BY <1>i, <1>0, FiniteParts, FS_RemoveElement DEF MemReturn
    <2>4. tokens' = tokens /\ waiting' = waiting
      BY <1>i DEF MemReturn
    <2>5. SlotsConserved'
      BY <2>2, <2>3, <2>4, <1>0, FiniteParts DEF SlotsConserved
    <2>6. WaitingExact'
      BY <2>1, <2>4, <1>0 DEF WaitingExact, Waiters
    <2> QED
      BY <2>5, <2>6 DEF CountInv
  <1>j. ASSUME NEW r \in Returners, Refill(r) PROVE CountInv'
    <2>1. InFlight' = InFlight \ {r} /\ r \in InFlight /\ Waiters' = Waiters
      BY <1>j, <1>0 DEF Refill, TypeOK, InFlight, Waiters
    <2>2. Cardinality(InFlight') = Cardinality(InFlight) - 1
      BY <2>1, <1>0, FiniteParts, FS_RemoveElement
    <2>3. tokens' = tokens + 1
      BY <1>j, <1>0, RoomForRefill DEF Refill, ChanNotFull
    <2>4. memdata' = memdata /\ waiting' = waiting
      BY <1>j DEF Refill
    <2>5. SlotsConserved'
      BY <2>2, <2>3, <2>4, <1>0, FiniteParts DEF SlotsConserved
    <2>6. WaitingExact'
      BY <2>1, <2>4, <1>0 DEF WaitingExact, Waiters
    <2> QED
      BY <2>5, <2>6 DEF CountInv
  <1>k. CASE UNCHANGED vars
    BY <1>k, <1>a DEF vars, InFlight, Waiters
  <1> QED
    BY <1>b, <1>c, <1>d, <1>e, <1>f, <1>g, <1>h, <1>i, <1>j, <1>k DEF Next, MemLockWait

-----------------------------------------------------------------------------
(* The inductive invariant holds of every behaviour. *)
THEOREM Invariance == Spec => []IInv
  <1>1. IInv /\ [Next]_vars => IInv'
    BY ControlStep, CountStep DEF IInv
  <1> QED
    BY InitIInv, <1>1, PTL DEF Spec

(* Type correctness: in particular len(memchan) stays within its capacity  *)
(* and m.waiting, an atomic counter decremented outside the section that   *)
(* incremented it, never goes below zero.                                  *)
THEOREM TypeCorrect == Spec => []TypeOK
  <1>1. IInv => TypeOK
    BY DEF IInv, ControlInv
  <1> QED
    BY Invariance, <1>1, PTL

(* No slot is ever lost or made up. *)
THEOREM Conservation == Spec => []SlotsConserved
  <1>1. IInv => SlotsConserved
    BY DEF IInv, CountInv
  <1> QED
    BY Invariance, <1>1, PTL

(* "only one owner per slot, so the chan can't be full here" (MemLimit.go  *)
(* line 186) holds for every limiter.                                      *)
THEOREM NeverFull == Spec => []ChanNotFull
  <1>1. IInv => ChanNotFull
    BY RoomForRefill DEF IInv, ControlInv, CountInv
  <1> QED
    BY Invariance, <1>1, PTL

(* One goroutine waits per item, and never for an item that owns a slot. *)
THEOREM OneWaiter == Spec => []OneWaiterPerItem
  <1>1. IInv => OneWaiterPerItem
    BY DEF IInv, ControlInv
  <1> QED
    BY Invariance, <1>1, PTL

(* A done channel somebody waits on still has a goroutine to close it. *)
THEOREM Wakeups == Spec => []NoLostWakeup
  <1>1. IInv => NoLostWakeup
    BY DEF IInv, ControlInv
  <1> QED
    BY Invariance, <1>1, PTL

(* MemAvail compares the exact number of waiting goroutines. *)
THEOREM ExactWaiting == Spec => []WaitingExact
  <1>1. IInv => WaitingExact
    BY DEF IInv, CountInv
  <1> QED
    BY Invariance, <1>1, PTL

-----------------------------------------------------------------------------
(* Refinement: how each step of the limiter maps to the slot service. *)
SlotsBounded == Cardinality(memdata) <= MemMax

(* No more items own a slot than there are slots.                          *)
LEMMA SlotBound == IInv => SlotsBounded
  BY FiniteParts, MemMaxPositive
  DEF IInv, ControlInv, CountInv, SlotsConserved, TypeOK, SlotsBounded

(* The instance's Cardinality is the one of FiniteSets. *)
LEMMA SameCardinality == \A S : Service!Cardinality(S) = Cardinality(S)
  BY DEF Service!Cardinality, Cardinality

(* Each action is a step of SlotService, or a stutter.                     *)
LEMMA ServiceStep ==
  IInv /\ SlotsBounded /\ SlotsBounded' /\ [Next]_vars => [Service!Next]_(Service!vars)
  <1> SUFFICES ASSUME IInv, SlotsBounded, SlotsBounded', [Next]_vars
               PROVE  [Service!Next]_(Service!vars)
    OBVIOUS
  <1>0. TypeOK /\ Control
    BY DEF IInv, ControlInv, CountInv
  <1> USE SetsAssumption DEF Control, Procs, Goto, Request
  <1>a. ASSUME NEW c \in Lockers, NEW i \in Items, Call(c, i) PROVE Service!Ask(c, i)
    BY <1>a, <1>0 DEF Call, TypeOK, Service!Ask
  <1>b. ASSUME NEW c \in Lockers, AlreadyHeld(c) PROVE Service!Grant(c)
    <2>1. memdata \cup {arg[c]} = memdata /\ memdata' = memdata /\ Request[c] = arg[c]
      BY <1>b DEF AlreadyHeld
    <2>2. Service!Reply(c, "held")
      BY <1>b, <1>0 DEF AlreadyHeld, Return, TypeOK, Service!Reply
    <2> QED
      BY <2>1, <2>2, <1>b, SameCardinality DEF AlreadyHeld, SlotsBounded, Service!Grant
  <1>c. ASSUME NEW c \in Lockers,
               \/ AlreadyPending(c) \/ Register(c) \/ OtherDone(c)
               \/ TakeToken(c) \/ NoFreeToken(c) \/ GiveUp(c)
        PROVE  UNCHANGED Service!vars
    <2>1. UNCHANGED <<memdata, arg, ret, stopped>>
      BY <1>c DEF AlreadyPending, Register, OtherDone, TakeToken, NoFreeToken, GiveUp
    <2>2. \A x \in Lockers : (pc'[x] = "idle") <=> (pc[x] = "idle")
      BY <1>c, <1>0 DEF AlreadyPending, Register, OtherDone, TakeToken, NoFreeToken, GiveUp, TypeOK
    <2>3. Request' = Request
      BY <2>1, <2>2
    <2> QED
      BY <2>1, <2>3 DEF Service!vars
  <1>d. ASSUME NEW c \in Lockers, OtherStopped(c) PROVE Service!Refuse(c)
    BY <1>d, <1>0 DEF OtherStopped, Return, TypeOK, Service!Refuse, Service!Reply
  <1>e. ASSUME NEW c \in Lockers, Record(c), got[c] PROVE Service!Grant(c)
    <2>1. memdata' = memdata \cup {arg[c]} /\ Request[c] = arg[c] /\ stopped' = stopped
      BY <1>e DEF Record
    <2>2. Service!Reply(c, "held")
      BY <1>e, <1>0 DEF Record, Return, TypeOK, Service!Reply
    <2> QED
      BY <2>1, <2>2, SameCardinality DEF SlotsBounded, Service!Grant
  <1>f. ASSUME NEW c \in Lockers, Record(c), ~got[c] PROVE Service!Refuse(c)
    BY <1>f, <1>0 DEF Record, Return, TypeOK, Service!Refuse, Service!Reply
  <1>g. ASSUME NEW c \in Lockers, Stop(c) PROVE Service!Stop(c)
    BY <1>g, <1>0 DEF Stop, Service!Stop
  <1>h. ASSUME NEW r \in Returners, NEW i \in Items, MemReturn(r, i) PROVE Service!Release(i)
    BY <1>h, <1>0 DEF MemReturn, TypeOK, Service!Release
  <1>i. ASSUME NEW r \in Returners, Refill(r) PROVE UNCHANGED Service!vars
    BY <1>i, <1>0 DEF Refill, TypeOK, Service!vars
  <1>j. CASE UNCHANGED vars
    BY <1>j DEF vars, Service!vars
  <1>k. CASE Next
    BY <1>k, <1>a, <1>b, <1>c, <1>d, <1>e, <1>f, <1>g, <1>h, <1>i
    DEF Next, MemLockWait, Service!Next
  <1> QED
    BY <1>j, <1>k

(* The limiter implements the slot service for every instance: a slot is   *)
(* granted only within the limit, and a caller is refused only if stopped. *)
THEOREM Implements == Spec => ImplementsService
  <1>1. Init => Service!Init
    BY DEF Init, NewMemLimiter, Request, Procs, Service!Init
  <1> QED
    BY <1>1, SlotBound, ServiceStep, Invariance, PTL DEF Spec, ImplementsService, Service!Spec
=============================================================================
