-------------------------- MODULE CheckPhaseProofs --------------------------
(***************************************************************************)
(* Proofs about CheckPhase, for every set of providers, groups and workers *)
(* and every segment list: the check routines, the checks of an item and   *)
(* the waits of LaunchSession are counted exactly, and the divider gives   *)
(* up only when an item will never be checked.                             *)
(***************************************************************************)
EXTENDS CheckPhase, FiniteSetTheorems, TLAPS

(* The types of what the workers' goroutines and the feeders keep. *)
WorkerTypeOK ==
  /\ boot \in [Providers -> {"boot", "done"}]
  /\ wphase \in [Workers -> {"none", "connect", "up", "ended"}]
  /\ checking \in [Workers -> Items \cup {NoItem}] /\ segmentChansCheck \in [Groups -> Seq(Items)]
  /\ attempt \in [Workers -> 1..checkAttempts] /\ noConn \in [Workers -> 0..maxCheckNoConn]
  /\ checkEnded \in [Workers -> BOOLEAN] /\ othersEnded \in [Workers -> BOOLEAN]

(* A worker's life: its routines have nothing before it is up, and have    *)
(* ended when it has; a check routine that has ended is at no item.        *)
Control ==
  \A w \in Workers :
    /\ boot[providerOf[w]] = "boot" => wphase[w] = "none"
    /\ wphase[w] \in {"none", "connect"} => ~checkEnded[w] /\ ~othersEnded[w]
    /\ wphase[w] = "ended" => checkEnded[w] /\ othersEnded[w]
    /\ checking[w] # NoItem => wphase[w] = "up" /\ ~checkEnded[w]

FeedControl ==
  /\ fed \in [Groups -> 0..todo] /\ fphase \in [Groups -> {"feed", "wait", "closed"}]
  /\ \A g \in Groups : fphase[g] = "feed" => fed[g] < todo

ControlInv == WorkerTypeOK /\ Control /\ FeedControl

(* What is assumed of the parameters, in the form the proofs use.          *)
LEMMA Sizes ==
  /\ IsFiniteSet(Providers) /\ IsFiniteSet(Workers)
  /\ todo \in Nat /\ todo > 0 /\ chanSize \in Nat /\ chanSize > 0
  /\ maxCheckNoConn \in Nat /\ maxCheckNoConn > 0
  /\ DeadWorkersRounds \in Nat /\ DeadWorkersRounds > 0
  /\ \A w \in Workers : providerOf[w] \in Providers /\ groupOf(w) \in Groups
  <1>1. {todo, chanSize, maxCheckNoConn, DeadWorkersRounds} \subseteq Nat \ {0}
    BY CheckAssumption
  <1>2. providerOf \in [Workers -> Providers]
    BY CheckAssumption
  <1> QED
    BY <1>1, <1>2, CheckAssumption DEF Groups, groupOf

(* Nothing has been booted yet, and nothing is wrong with that.            *)
LEMMA InitControl == Init => ControlInv
  <1> SUFFICES ASSUME Init PROVE ControlInv
    OBVIOUS
  <1>1. /\ attempt = [w \in Workers |-> 1] /\ noConn = [w \in Workers |-> 0]
        /\ fed = [g \in Groups |-> 0] /\ fphase = [g \in Groups |-> "feed"]
        /\ segmentChansCheck = [g \in Groups |-> <<>>]
    BY Zenon DEF Init
  <1>2. /\ attempt \in [Workers -> 1..checkAttempts] /\ noConn \in [Workers -> 0..maxCheckNoConn]
        /\ segmentChansCheck \in [Groups -> Seq(Items)]
    BY <1>1, Sizes DEF checkAttempts
  <1>3. WorkerTypeOK
    BY <1>2, Zenon DEF Init, WorkerTypeOK
  <1>4. Control
    BY CheckAssumption DEF Init, Control
  <1>5. FeedControl
    BY <1>1, Sizes DEF FeedControl
  <1> QED
    BY <1>3, <1>4, <1>5 DEF ControlInv

-----------------------------------------------------------------------------
(* The life of a worker and of a feeder, step by step. *)
LEMMA ControlStep == ControlInv /\ [Next]_vars => ControlInv'
  <1> SUFFICES ASSUME ControlInv, [Next]_vars PROVE ControlInv'
    OBVIOUS
  <1> USE Sizes
      DEF ControlInv, WorkerTypeOK, Control, FeedControl, Put, WorkersOf, NoItem, checkAttempts,
          workers, checkers, feeders
  <1>1. ASSUME NEW p \in Providers, BootProvider(p) PROVE ControlInv'
    <2>1. WorkerTypeOK' /\ FeedControl'
      BY <1>1, Zenon DEF BootProvider
    <2>2. Control'
      BY <1>1 DEF BootProvider
    <2> QED
      BY <2>1, <2>2
  <1>2. ASSUME NEW p \in Providers, BootProviderFailed(p) PROVE ControlInv'
    <2>1. WorkerTypeOK' /\ FeedControl'
      BY <1>2, Zenon DEF BootProviderFailed
    <2>2. Control'
      BY <1>2 DEF BootProviderFailed
    <2> QED
      BY <2>1, <2>2
  <1>3. ASSUME NEW w \in Workers, WorkerUp(w) PROVE ControlInv'
    <2>1. WorkerTypeOK' /\ FeedControl'
      BY <1>3 DEF WorkerUp
    <2>2. Control'
      BY <1>3 DEF WorkerUp
    <2> QED
      BY <2>1, <2>2
  <1>4. ASSUME NEW w \in Workers, WorkerFailed(w) PROVE ControlInv'
    <2>1. WorkerTypeOK' /\ FeedControl'
      BY <1>4 DEF WorkerFailed
    <2>2. Control'
      BY <1>4 DEF WorkerFailed
    <2> QED
      BY <2>1, <2>2
  <1>5. ASSUME NEW w \in Workers, OthersEnd(w) PROVE ControlInv'
    BY <1>5 DEF OthersEnd
  <1>6. ASSUME NEW w \in Workers, WorkerEnds(w) PROVE ControlInv'
    <2>1. WorkerTypeOK' /\ FeedControl'
      BY <1>6 DEF WorkerEnds
    <2>2. Control'
      BY <1>6 DEF WorkerEnds
    <2> QED
      BY <2>1, <2>2
  <1>7. ASSUME NEW g \in Groups, Feed(g) PROVE ControlInv'
    <2>1. fed[g] + 1 \in Items
      BY <1>7 DEF Feed, Items
    <2>2. segmentChansCheck' \in [Groups -> Seq(Items)]
      BY <1>7, <2>1 DEF Feed
    <2>3. WorkerTypeOK' /\ Control'
      BY <1>7, <2>2 DEF Feed
    <2>4. FeedControl'
      BY <1>7 DEF Feed
    <2> QED
      BY <2>3, <2>4
  <1>8. ASSUME NEW g \in Groups, CloseCheck(g) PROVE ControlInv'
    BY <1>8 DEF CloseCheck
  <1>9. ASSUME NEW w \in Workers, Receive(w) PROVE ControlInv'
    <2>1. /\ Head(segmentChansCheck[groupOf(w)]) \in Items
          /\ Tail(segmentChansCheck[groupOf(w)]) \in Seq(Items)
      BY <1>9 DEF Receive
    <2>2. segmentChansCheck' \in [Groups -> Seq(Items)]
      BY <1>9, <2>1 DEF Receive
    <2>3. checking' \in [Workers -> Items \cup {NoItem}]
      BY <1>9, <2>1 DEF Receive
    <2>4. attempt' \in [Workers -> 1..checkAttempts]
      BY <1>9 DEF Receive
    <2>5. WorkerTypeOK' /\ FeedControl'
      BY <1>9, <2>2, <2>3, <2>4, Zenon DEF Receive
    <2>6. Control'
      BY <1>9 DEF Receive, Waiting
    <2> QED
      BY <2>5, <2>6
  <1>10. ASSUME NEW w \in Workers, Checked(w) PROVE ControlInv'
    BY <1>10 DEF Checked, Counts
  <1>11. ASSUME NEW w \in Workers, CheckBroke(w) PROVE ControlInv'
    <2>1. CASE attempt[w] < checkAttempts /\ ~stopped
      <3>1. attempt' \in [Workers -> 1..checkAttempts]
        <4>1. attempt' = Put(attempt, w, attempt[w] + 1)
          BY <1>11, <2>1, Zenon DEF CheckBroke
        <4>2. attempt[w] \in 1..2 /\ attempt[w] < 2
          BY <2>1
        <4>3. attempt[w] + 1 \in 1..checkAttempts
          BY <4>2
        <4> QED
          BY <4>1, <4>3
      <3>2. UNCHANGED <<workers, checking, noConn, checkEnded, feeders, segmentChansCheck>>
        BY <1>11, <2>1, Zenon DEF CheckBroke
      <3> QED
        BY <3>1, <3>2, Zenon
    <2>2. CASE ~(attempt[w] < checkAttempts /\ ~stopped)
      <3>1. /\ checking' = Put(checking, w, NoItem) /\ attempt' = Put(attempt, w, 1)
            /\ noConn' = Put(noConn, w, 0)
            /\ UNCHANGED <<workers, checkEnded, feeders, segmentChansCheck>>
        BY <1>11, <2>2, Zenon DEF CheckBroke, Counts
      <3> QED
        BY <3>1
    <2> QED
      BY <2>1, <2>2
  <1>12. ASSUME NEW w \in Workers, NEW down \in BOOLEAN, CheckNoConn(w, down) PROVE ControlInv'
    BY <1>12 DEF CheckNoConn, Counts
  <1>13. ASSUME NEW w \in Workers, CheckerEnds(w) PROVE ControlInv'
    BY <1>13 DEF CheckerEnds, Waiting
  <1>14. CASE Divider \/ Launch \/ Stop \/ UNCHANGED vars
    BY <1>14 DEF Divider, Launch, Stop, DividerStarts, Round, Count, Decide, DividerOnly,
                 Booted, StopRoutines, Waited, LaunchOnly, vars
  <1> QED
    BY <1>1, <1>2, <1>3, <1>4, <1>5, <1>6, <1>7, <1>8, <1>9, <1>10, <1>11, <1>12, <1>13, <1>14
    DEF Next, Worker, Feeder
-----------------------------------------------------------------------------
(* What a group's check routines have taken from their channel. The        *)
(* channel holds the items after those, in the order of the list.          *)
received(g) == fed[g] - Len(segmentChansCheck[g])

ChannelInv ==
  \A g \in Groups :
    /\ Len(segmentChansCheck[g]) <= chanSize /\ Len(segmentChansCheck[g]) <= fed[g]
    /\ \A k \in 1..Len(segmentChansCheck[g]) : segmentChansCheck[g][k] = received(g) + k

(* An item that is being checked was received, by this routine only.       *)
AtWork ==
  \A w \in Workers : checking[w] # NoItem =>
    /\ checking[w] <= received(groupOf(w))
    /\ \A v \in Workers : groupOf(v) = groupOf(w) /\ checking[v] = checking[w] => v = w

(* The providers whose group has received an item and is not at it.        *)
Done(i) ==
  {p \in Providers : /\ i <= received(group[p])
                     /\ \A w \in Workers : groupOf(w) = group[p] => checking[w] # i}

(* They have counted it, unless the session stopped and dropped it.        *)
ChecksInv ==
  /\ checkedOn \in [Items -> Nat]
  /\ \A i \in Items : checkedOn[i] <= Cardinality(Done(i))
  /\ ~stopped => \A i \in Items : checkedOn[i] = Cardinality(Done(i))

WorkInv == ChannelInv /\ AtWork /\ ChecksInv

(* An item is checked on at most as many providers as there are.           *)
LEMMA DoneFinite ==
  \A i \in Items : /\ IsFiniteSet(Done(i)) /\ Cardinality(Done(i)) \in Nat
                   /\ Cardinality(Done(i)) <= Cardinality(Providers)
  <1>1. \A i \in Items : Done(i) \subseteq Providers
    BY DEF Done
  <1> QED
    BY <1>1, Sizes, FS_Subset, FS_CardinalityType

(* What a step can do to the items: send one, receive one, count one, or   *)
(* nothing.                                                                *)
LEMMA ItemSteps ==
  ASSUME [Next]_vars
  PROVE  \/ \E g \in Groups : Feed(g)
         \/ \E w \in Workers : Receive(w)
         \/ \E w \in Workers : /\ checking[w] # NoItem /\ Counts(w)
                             /\ UNCHANGED <<fed, segmentChansCheck, stopped>>
         \/ UNCHANGED <<fed, segmentChansCheck, checking, checkedOn>> /\ (stopped => stopped')
  <1> DEFINE Idle == UNCHANGED <<fed, segmentChansCheck, checking, checkedOn>> /\ (stopped => stopped')
             Counted(w) == /\ checking[w] # NoItem /\ Counts(w)
                           /\ UNCHANGED <<fed, segmentChansCheck, stopped>>
  <1> USE DEF workers, checkers, feeders, session
  <1>1. ASSUME NEW p \in Providers, BootProvider(p) \/ BootProviderFailed(p) PROVE Idle
    BY <1>1 DEF BootProvider, BootProviderFailed
  <1>2. ASSUME NEW w \in Workers, WorkerUp(w) \/ WorkerFailed(w) \/ OthersEnd(w) \/ WorkerEnds(w)
                                 \/ CheckerEnds(w)
        PROVE  Idle
    <2>1. UNCHANGED <<fed, segmentChansCheck, checking, checkedOn>> /\ UNCHANGED stopped
      BY <1>2 DEF WorkerUp, WorkerFailed, OthersEnd, WorkerEnds, CheckerEnds
    <2> QED
      BY <2>1
  <1>3. ASSUME NEW g \in Groups, CloseCheck(g) PROVE Idle
    BY <1>3, Zenon DEF CloseCheck
  <1>4. ASSUME NEW w \in Workers, Checked(w) \/ (\E down \in BOOLEAN : CheckNoConn(w, down))
        PROVE  Counted(w)
    BY <1>4, Zenon DEF Checked, CheckNoConn
  <1>5. ASSUME NEW w \in Workers, CheckBroke(w) PROVE Counted(w) \/ Idle
    <2>1. CASE attempt[w] < checkAttempts /\ ~stopped
      BY <1>5, <2>1, Zenon DEF CheckBroke
    <2>2. CASE ~(attempt[w] < checkAttempts /\ ~stopped)
      BY <1>5, <2>2, Zenon DEF CheckBroke
    <2> QED
      BY <2>1, <2>2, Zenon
  <1>6. ASSUME Divider \/ Launch \/ Stop \/ UNCHANGED vars PROVE Idle
    BY <1>6 DEF Divider, Launch, Stop, DividerStarts, Round, Count, Decide, DividerOnly,
                Booted, StopRoutines, Waited, LaunchOnly, vars
  <1> HIDE DEF Idle, Counted
  <1>7. \/ \E g \in Groups : Feed(g)
        \/ \E w \in Workers : Receive(w)
        \/ \E w \in Workers : Counted(w)
        \/ Idle
    BY <1>1, <1>2, <1>3, <1>4, <1>5, <1>6, Zenon DEF Next, Worker, Feeder
  <1> QED
    BY <1>7, Zenon DEF Idle, Counted
(* No item is checked yet, none is in a channel, and no wait is over.      *)
LEMMA InitWork == Init => WorkInv
  <1> SUFFICES ASSUME Init PROVE WorkInv
    OBVIOUS
  <1>1. /\ fed = [g \in Groups |-> 0] /\ segmentChansCheck = [g \in Groups |-> <<>>]
        /\ checking = [w \in Workers |-> NoItem] /\ checkedOn = [i \in Items |-> 0]
    BY Zenon DEF Init
  <1>2. ChannelInv
    BY <1>1, Sizes DEF ChannelInv
  <1>3. AtWork
    BY <1>1 DEF AtWork
  <1>4. ASSUME NEW i \in Items PROVE Done(i) = {}
    <2>1. ASSUME NEW p \in Providers PROVE ~(i <= received(group[p]))
      BY <1>1 DEF received, Groups, Items
    <2> QED
      BY <2>1 DEF Done
  <1>5. \A i \in Items : Cardinality(Done(i)) = 0 /\ checkedOn[i] = 0
    BY <1>1, <1>4, FS_EmptySet
  <1>6. ChecksInv
    BY <1>1, <1>5 DEF ChecksInv
  <1> QED
    BY <1>2, <1>3, <1>6 DEF WorkInv

(* A feeder puts the next item at the end of its channel.                  *)
LEMMA FeedKeepsWork ==
  ASSUME ControlInv, WorkInv, NEW g \in Groups, Feed(g)
  PROVE  WorkInv'
  <1> DEFINE ch == segmentChansCheck[g]
  <1>1. /\ fed \in [Groups -> 0..todo] /\ segmentChansCheck \in [Groups -> Seq(Items)]
        /\ ch \in Seq(Items) /\ Len(ch) \in Nat /\ fed[g] \in Nat
    BY DEF ControlInv, WorkerTypeOK, FeedControl
  <1>2. /\ segmentChansCheck' = [segmentChansCheck EXCEPT ![g] = Append(ch, fed[g] + 1)]
        /\ fed' = [fed EXCEPT ![g] = fed[g] + 1] /\ Len(ch) < chanSize
        /\ UNCHANGED <<checking, checkedOn, stopped>>
    BY DEF Feed, Put, checkers, session
  <1>3. /\ Len(segmentChansCheck'[g]) = Len(ch) + 1 /\ received(g)' = received(g)
        /\ fed'[g] = fed[g] + 1 /\ received(g) = fed[g] - Len(ch)
    BY <1>1, <1>2 DEF received
  <1>4. \A h \in Groups : h # g => /\ segmentChansCheck'[h] = segmentChansCheck[h]
                                  /\ fed'[h] = fed[h] /\ received(h)' = received(h)
    BY <1>1, <1>2 DEF received
  <1>5. ChannelInv'
    <2>1. ASSUME NEW k \in 1..Len(segmentChansCheck'[g])
          PROVE  segmentChansCheck'[g][k] = received(g) + k
      <3>1. CASE k = Len(ch) + 1
        <4>1. segmentChansCheck'[g][k] = fed[g] + 1
          BY <3>1, <1>1, <1>2
        <4> QED
          BY <4>1, <3>1, <1>1, <1>3
      <3>2. CASE k # Len(ch) + 1
        <4>1. k \in 1..Len(ch)
          BY <3>2, <1>1, <1>3
        <4>2. segmentChansCheck'[g][k] = ch[k]
          BY <4>1, <1>1, <1>2
        <4> QED
          BY <4>1, <4>2 DEF WorkInv, ChannelInv
      <3> QED
        BY <3>1, <3>2
    <2>2. Len(segmentChansCheck'[g]) <= chanSize /\ Len(segmentChansCheck'[g]) <= fed'[g]
      BY <1>1, <1>2, <1>3, Sizes DEF WorkInv, ChannelInv
    <2> HIDE DEF ch
    <2>3. ASSUME NEW h \in Groups, h # g
          PROVE  /\ Len(segmentChansCheck'[h]) <= chanSize /\ Len(segmentChansCheck'[h]) <= fed'[h]
                 /\ \A k \in 1..Len(segmentChansCheck'[h]) :
                      segmentChansCheck'[h][k] = received(h)' + k
      BY <2>3, <1>4 DEF WorkInv, ChannelInv
    <2> QED
      BY <1>3, <2>1, <2>2, <2>3 DEF ChannelInv
  <1>6. \A h \in Groups : received(h)' = received(h)
    BY <1>3, <1>4
  <1>7. AtWork'
    BY <1>2, <1>6, Sizes DEF WorkInv, AtWork, groupOf
  <1>8. \A i \in Items : Done(i)' = Done(i)
    BY <1>2, <1>6 DEF Done, Groups, groupOf
  <1>9. ChecksInv'
    BY <1>2, <1>8 DEF WorkInv, ChecksInv
  <1> QED
    BY <1>5, <1>7, <1>9 DEF WorkInv

(* A check routine takes the first item, and is at it, or drops it.        *)
LEMMA ReceiveKeepsWork ==
  ASSUME ControlInv, WorkInv, NEW w \in Workers, Receive(w)
  PROVE  WorkInv'
  <1> DEFINE g == groupOf(w)
             ch == segmentChansCheck[g]
             item == Head(ch)
  <1>1. /\ fed \in [Groups -> 0..todo] /\ segmentChansCheck \in [Groups -> Seq(Items)]
        /\ checking \in [Workers -> Items \cup {NoItem}] /\ g \in Groups
        /\ ch \in Seq(Items) /\ Len(ch) \in Nat /\ fed[g] \in Nat
    BY Sizes DEF ControlInv, WorkerTypeOK, FeedControl
  <1>2. /\ segmentChansCheck' = [segmentChansCheck EXCEPT ![g] = Tail(ch)]
        /\ checking' = [checking EXCEPT ![w] = IF stopped THEN NoItem ELSE item]
        /\ checking[w] = NoItem /\ ch # <<>>
        /\ UNCHANGED <<fed, checkedOn, stopped>>
    BY DEF Receive, Put, Waiting, feeders, session
  <1>3. Len(ch) > 0 /\ item = ch[1] /\ Len(Tail(ch)) = Len(ch) - 1 /\ Tail(ch) \in Seq(Items)
    BY <1>1, <1>2
  <1>4. /\ received(g)' = received(g) + 1 /\ received(g) = fed[g] - Len(ch)
        /\ item = received(g) + 1
    <2>1. received(g)' = received(g) + 1 /\ received(g) = fed[g] - Len(ch)
      BY <1>1, <1>2, <1>3 DEF received
    <2>2. ch[1] = received(g) + 1
      BY <1>1, <1>3 DEF WorkInv, ChannelInv
    <2> QED
      BY <2>1, <2>2, <1>3
  <1>5. \A h \in Groups : h # g => /\ segmentChansCheck'[h] = segmentChansCheck[h]
                                  /\ fed'[h] = fed[h] /\ received(h)' = received(h)
    BY <1>1, <1>2 DEF received
  <1>6. ChannelInv'
    <2>1. ASSUME NEW k \in 1..Len(segmentChansCheck'[g])
          PROVE  segmentChansCheck'[g][k] = received(g)' + k
      <3>1. k \in 1..Len(ch) - 1 /\ segmentChansCheck'[g][k] = ch[k + 1]
        BY <1>1, <1>2, <1>3
      <3>2. k + 1 \in 1..Len(ch)
        BY <3>1, <1>1
      <3>3. ch[k + 1] = received(g) + (k + 1)
        BY <3>2, <1>1 DEF WorkInv, ChannelInv
      <3> QED
        BY <3>1, <3>3, <1>4, <1>1
    <2>2. Len(segmentChansCheck'[g]) <= chanSize /\ Len(segmentChansCheck'[g]) <= fed'[g]
      BY <1>1, <1>2, <1>3, Sizes DEF WorkInv, ChannelInv
    <2> HIDE DEF ch, g
    <2>3. ASSUME NEW h \in Groups, h # g
          PROVE  /\ Len(segmentChansCheck'[h]) <= chanSize /\ Len(segmentChansCheck'[h]) <= fed'[h]
                 /\ \A k \in 1..Len(segmentChansCheck'[h]) :
                      segmentChansCheck'[h][k] = received(h)' + k
      BY <2>3, <1>5 DEF WorkInv, ChannelInv
    <2> QED
      BY <2>1, <2>2, <2>3 DEF ChannelInv
  <1>7. AtWork'
    <2>1. \A h \in Groups : received(h)' \in Int /\ received(h) \in Int /\ received(h)' >= received(h)
      <3>1. \A h \in Groups : received(h) \in Int
        BY <1>1 DEF received
      <3> HIDE DEF ch, g
      <3> QED
        BY <3>1, <1>4, <1>5
    <2>2. \A v \in Workers : v # w => checking'[v] = checking[v]
      BY <1>1, <1>2
    <2>3. checking'[w] # NoItem => checking'[w] = received(g) + 1
      BY <1>1, <1>2, <1>4
    <2>4. \A v \in Workers : v # w /\ groupOf(v) = g /\ checking[v] # NoItem
                             => checking[v] <= received(g)
      BY DEF WorkInv, AtWork
    <2>5. \A v \in Workers : checking[v] \in Int /\ checking'[v] \in Int
      BY <1>1, <2>2, <2>3, <2>1 DEF Items, NoItem
    <2>6. \A v \in Workers : groupOf(v)' = groupOf(v) /\ groupOf(v) \in Groups
      BY Sizes DEF groupOf
    <2> HIDE DEF ch, g
    <2>7. ASSUME NEW v \in Workers, checking'[v] # NoItem
          PROVE  checking'[v] <= received(groupOf(v))'
      <3>1. CASE v = w
        <4>1. checking'[w] = received(g)' /\ received(g)' \in Int
          BY <3>1, <2>1, <2>3, <2>7, <1>1, <1>4
        <4>2. checking'[w] <= received(g)'
          BY <4>1
        <4> QED
          BY <3>1, <4>2 DEF g
      <3>2. CASE v # w
        <4>1. checking[v] <= received(groupOf(v)) /\ checking'[v] = checking[v]
          BY <3>2, <2>2, <2>7 DEF WorkInv, AtWork
        <4> QED
          BY <4>1, <2>1, <2>5, <2>6
      <3> QED
        BY <3>1, <3>2
    <2>8. ASSUME NEW u \in Workers, NEW v \in Workers, checking'[v] # NoItem,
                 groupOf(u) = groupOf(v), checking'[u] = checking'[v]
          PROVE  u = v
      <3>1. CASE u # w /\ v # w
        BY <3>1, <2>2, <2>8 DEF WorkInv, AtWork
      <3>2. CASE u # w /\ v = w
        BY <3>2, <2>1, <2>2, <2>3, <2>4, <2>5, <2>8, <1>1 DEF g
      <3>3. CASE u = w /\ v # w
        BY <3>3, <2>1, <2>2, <2>3, <2>4, <2>5, <2>8, <1>1 DEF g
      <3> QED
        BY <3>1, <3>2, <3>3
    <2> QED
      BY <2>6, <2>7, <2>8 DEF AtWork
  <1>8. ASSUME NEW i \in Items
        PROVE  Done(i) \subseteq Done(i)' /\ (~stopped => Done(i)' = Done(i))
    <2>1. \A h \in Groups : received(h) \in Int
      BY <1>1 DEF received
    <2>2. i \in Nat /\ i # NoItem
      BY DEF Items, NoItem
    <2>3. \A v \in Workers : groupOf(v)' = groupOf(v) /\ groupOf(v) \in Groups
      BY Sizes DEF groupOf
    <2>4. ASSUME NEW p \in Providers, i <= received(group[p]) PROVE i <= received(group[p])' /\ (group[p] = g => i # item)
      BY <2>4, <2>1, <2>2, <1>4, <1>5 DEF Groups
    <2>5. Done(i) \subseteq Done(i)'
      BY <2>2, <2>3, <2>4, <1>1, <1>2 DEF Done
    <2>6. ASSUME NEW p \in Done(i)', ~stopped PROVE p \in Done(i)
      <3>1. p \in Providers /\ i <= received(group[p])' /\ group[p] \in Groups
        BY DEF Done, Groups
      <3>2. \A v \in Workers : groupOf(v) = group[p] => checking'[v] # i
        BY <2>3 DEF Done
      <3>3. checking'[w] = item
        BY <2>6, <1>1, <1>2
      <3>4. group[p] = g => i # item
        BY <3>2, <3>3
      <3>5. i <= received(group[p])
        BY <3>1, <3>4, <2>1, <2>2, <1>4, <1>5
      <3>6. \A v \in Workers : groupOf(v) = group[p] => checking[v] # i
        BY <3>2, <2>2, <1>1, <1>2
      <3> QED
        BY <3>1, <3>5, <3>6 DEF Done
    <2> QED
      BY <2>5, <2>6
  <1>9. ChecksInv'
    <2>1. \A i \in Items : Done(i)' \subseteq Providers
      BY DEF Done
    <2>2. \A i \in Items : /\ Cardinality(Done(i)) <= Cardinality(Done(i)')
                           /\ Cardinality(Done(i)) \in Nat /\ Cardinality(Done(i)') \in Nat
      BY <2>1, <1>8, DoneFinite, Sizes, FS_Subset, FS_CardinalityType
    <2> HIDE DEF ch, g, item
    <2>3. \A i \in Items : checkedOn[i] \in Nat /\ checkedOn[i] <= Cardinality(Done(i))
      BY DEF WorkInv, ChecksInv
    <2>4. \A i \in Items : checkedOn'[i] <= Cardinality(Done(i)')
      BY <2>2, <2>3, <1>2
    <2>5. ~stopped' => \A i \in Items : checkedOn'[i] = Cardinality(Done(i)')
      BY <1>2, <1>8 DEF WorkInv, ChecksInv
    <2> QED
      BY <2>4, <2>5, <1>2 DEF WorkInv, ChecksInv
  <1> QED
    BY <1>6, <1>7, <1>9 DEF WorkInv
(* The check counts for the providers of the group: none had counted it.   *)
LEMMA CountKeepsWork ==
  ASSUME ControlInv, WorkInv, NEW w \in Workers, checking[w] # NoItem, Counts(w),
         UNCHANGED <<fed, segmentChansCheck, stopped>>
  PROVE  WorkInv'
  <1> DEFINE g == groupOf(w)
  <1>0. PICK item \in Items : item = checking[w]
    BY DEF ControlInv, WorkerTypeOK
  <1>1. /\ checking \in [Workers -> Items \cup {NoItem}] /\ g \in Groups
        /\ \A v \in Workers : groupOf(v) \in Groups /\ groupOf(v)' = groupOf(v)
        /\ checkedOn \in [Items -> Nat]
    BY Sizes DEF ControlInv, WorkerTypeOK, groupOf, WorkInv, ChecksInv
  <1>2. /\ checking' = [checking EXCEPT ![w] = NoItem]
        /\ checkedOn' = [checkedOn EXCEPT ![item] = checkedOn[item] + Cardinality(Of(g))]
    BY <1>0 DEF Counts, Put
  <1>3. \A h \in Groups : received(h)' = received(h)
    BY DEF received
  <1>4. ChannelInv'
    BY <1>3 DEF WorkInv, ChannelInv
  <1>5. AtWork'
    <2>1. \A v \in Workers : checking'[v] # NoItem => v # w /\ checking'[v] = checking[v]
      BY <1>1, <1>2
    <2> HIDE DEF g
    <2> QED
      BY <2>1, <1>1, <1>3 DEF WorkInv, AtWork
  <1>6. item # NoItem /\ NoItem \notin Items
    BY DEF Items, NoItem
  <1>7. Done(item)' = Done(item) \cup Of(g) /\ Done(item) \cap Of(g) = {}
    <2>1. item <= received(g) /\ item \in Int
      BY <1>0, <1>6 DEF Items, WorkInv, AtWork
    <2>2. \A v \in Workers : groupOf(v) = g => checking'[v] # item
      BY <1>0, <1>1, <1>2, <1>6 DEF WorkInv, AtWork
    <2>3. Of(g) \subseteq {p \in Providers : group[p] = g}
      BY DEF Of
    <2>4. ASSUME NEW p \in Providers, group[p] = g
          PROVE  p \in Done(item)' /\ p \notin Done(item) /\ p \in Of(g)
      BY <2>1, <2>2, <2>4, <1>0, <1>1, <1>3 DEF Done, Of
    <2>5. ASSUME NEW p \in Providers, group[p] # g
          PROVE  p \in Done(item)' <=> p \in Done(item)
      <3>1. \A v \in Workers : groupOf(v) = group[p] => checking'[v] = checking[v]
        BY <2>5, <1>1, <1>2
      <3>2. received(group[p])' = received(group[p])
        BY <1>3 DEF Groups
      <3> QED
        BY <3>1, <3>2, <1>1 DEF Done
    <2>6. Done(item) \subseteq Providers /\ Done(item)' \subseteq Providers
      BY DEF Done
    <2> HIDE DEF g
    <2> QED
      BY <2>3, <2>4, <2>5, <2>6
  <1>8. \A i \in Items : i # item => Done(i)' = Done(i)
    <2>1. ASSUME NEW i \in Items, i # item PROVE \A v \in Workers : checking'[v] # i <=> checking[v] # i
      BY <2>1, <1>0, <1>1, <1>2, <1>6
    <2>2. \A p \in Providers : received(group[p])' = received(group[p])
      BY <1>3 DEF Groups
    <2> QED
      BY <2>1, <2>2, <1>1 DEF Done
  <1>9. ChecksInv'
    <2>1. /\ IsFiniteSet(Done(item)) /\ IsFiniteSet(Of(g))
          /\ Cardinality(Done(item)) \in Nat /\ Cardinality(Of(g)) \in Nat
      <3>1. Of(g) \subseteq Providers
        BY DEF Of
      <3> QED
        BY <3>1, <1>1, DoneFinite, Sizes, FS_Subset, FS_CardinalityType
    <2>2. Cardinality(Done(item)') = Cardinality(Done(item)) + Cardinality(Of(g))
      <3>1. /\ Cardinality(Done(item) \cup Of(g))
                 = Cardinality(Done(item)) + Cardinality(Of(g)) - Cardinality(Done(item) \cap Of(g))
            /\ Cardinality({}) = 0
        BY <2>1, FS_Union, FS_EmptySet
      <3>2. /\ Cardinality(Done(item)') = Cardinality(Done(item) \cup Of(g))
            /\ Cardinality(Done(item) \cap Of(g)) = 0
        BY <3>1, <1>7, Zenon
      <3> HIDE DEF g
      <3> QED
        BY <3>1, <3>2, <2>1
    <2> HIDE DEF g
    <2>3. checkedOn' \in [Items -> Nat]
      BY <2>1, <1>1, <1>2
    <2>4. ASSUME NEW i \in Items
          PROVE  /\ checkedOn[i] <= Cardinality(Done(i)) => checkedOn'[i] <= Cardinality(Done(i)')
                 /\ checkedOn[i] = Cardinality(Done(i)) => checkedOn'[i] = Cardinality(Done(i)')
      <3>1. CASE i = item
        BY <3>1, <2>1, <2>2, <1>1, <1>2
      <3>2. CASE i # item
        BY <3>2, <1>1, <1>2, <1>8
      <3> QED
        BY <3>1, <3>2
    <2> QED
      BY <2>3, <2>4 DEF WorkInv, ChecksInv
  <1> QED
    BY <1>4, <1>5, <1>9 DEF WorkInv

(* The items, step by step. *)
LEMMA WorkStep == ControlInv /\ WorkInv /\ [Next]_vars => WorkInv'
  <1> SUFFICES ASSUME ControlInv, WorkInv, [Next]_vars PROVE WorkInv'
    OBVIOUS
  <1>1. ASSUME UNCHANGED <<fed, segmentChansCheck, checking, checkedOn>>, stopped => stopped'
        PROVE  WorkInv'
    <2>1. \A h : received(h)' = received(h)
      BY <1>1 DEF received
    <2>2. ChannelInv' /\ AtWork'
      BY <1>1, <2>1 DEF WorkInv, ChannelInv, AtWork, groupOf
    <2>3. \A i \in Items : Done(i)' = Done(i)
      BY <1>1, <2>1 DEF Done, groupOf
    <2>4. ChecksInv'
      BY <1>1, <2>3 DEF WorkInv, ChecksInv
    <2> QED
      BY <2>2, <2>4 DEF WorkInv
  <1> QED
    BY <1>1, ItemSteps, FeedKeepsWork, ReceiveKeepsWork, CountKeepsWork
-----------------------------------------------------------------------------
(* Whom the session waits for, and who checks.                             *)
CheckersOf(g) == {w \in Workers : groupOf(w) = g /\ ~checkEnded[w]}
Checking == {w \in Workers : ~checkEnded[w]}
Transferring == {w \in Workers : ~othersEnded[w]}
Living == {w \in Workers : wphase[w] # "ended"}
Up == {w \in Workers : wphase[w] = "up"}

CheckersInv == left = [g \in Groups |-> Cardinality(CheckersOf(g))]
WaitsInv ==
  /\ waitWorker = Cardinality(Checking) + 2 * Cardinality(Transferring)
  /\ waitPool = Cardinality(Living)
  /\ bootedWorkers = Cardinality(Up)

CountInv == CheckersInv /\ WaitsInv

(* So many elements less, or one more.                                     *)
LEMMA Fewer ==
  ASSUME NEW S, IsFiniteSet(S), NEW M \in SUBSET S
  PROVE  Cardinality(S \ M) = Cardinality(S) - Cardinality(M)
  <1>1. S \cap M = M
    OBVIOUS
  <1> QED
    BY <1>1, FS_Difference

(* Cardinalities, as the counters use them: one element less,              *)
LEMMA OneLess ==
  ASSUME NEW S, IsFiniteSet(S), NEW x \in S
  PROVE  Cardinality(S \ {x}) = Cardinality(S) - 1
  BY FS_RemoveElement

(* one more,                                                               *)
LEMMA OneMore ==
  ASSUME NEW S, IsFiniteSet(S), NEW x, x \notin S
  PROVE  Cardinality(S \cup {x}) = Cardinality(S) + 1
  BY FS_AddElement

(* and a part of the workers.                                              *)
LEMMA FinitePart ==
  ASSUME NEW S \in SUBSET Workers
  PROVE  /\ IsFiniteSet(S) /\ Cardinality(S) \in Nat
         /\ Cardinality(S) <= Cardinality(Workers) /\ Cardinality(Workers) \in Nat
  BY Sizes, FS_Subset, FS_CardinalityType

(* The counters start at 0, and nobody is counted.                         *)
LEMMA InitCount == Init => CountInv
  <1> SUFFICES ASSUME Init PROVE CountInv
    OBVIOUS
  <1>1. Checking = Workers /\ Transferring = Workers /\ Living = Workers /\ Up = {}
    BY DEF Init, Checking, Transferring, Living, Up
  <1>2. /\ waitWorker = 3 * Cardinality(Workers) /\ waitPool = Cardinality(Workers)
        /\ bootedWorkers = 0
    BY Zenon DEF Init
  <1>3. WaitsInv
    BY <1>1, <1>2, Sizes, FS_EmptySet, FS_CardinalityType DEF WaitsInv
  <1>4. \A g \in Groups : CheckersOf(g) = {w \in Workers : groupOf(w) = g}
    BY DEF Init, CheckersOf
  <1>5. CheckersInv
    BY <1>4, Zenon DEF Init, CheckersInv
  <1> QED
    BY <1>3, <1>5 DEF CountInv

(* The check routines of some workers of a group leave it together.        *)
LEMMA CheckersLeave ==
  ASSUME CheckersInv, NEW g \in Groups, NEW M \in SUBSET CheckersOf(g),
         \A w \in Workers : checkEnded'[w] <=> w \in M \/ checkEnded[w],
         checkersExit(g, Cardinality(M))
  PROVE  CheckersInv'
  <1>1. CheckersOf(g)' = CheckersOf(g) \ M
    BY DEF CheckersOf, groupOf
  <1>2. \A h \in Groups : h # g => CheckersOf(h)' = CheckersOf(h)
    BY DEF CheckersOf, groupOf
  <1>3. Cardinality(CheckersOf(g)') = Cardinality(CheckersOf(g)) - Cardinality(M)
    <2>1. CheckersOf(g) \in SUBSET Workers
      BY DEF CheckersOf
    <2>2. IsFiniteSet(CheckersOf(g))
      BY <2>1, FinitePart
    <2>3. Cardinality(CheckersOf(g) \ M) = Cardinality(CheckersOf(g)) - Cardinality(M)
      BY <2>2, Fewer
    <2> QED
      BY <1>1, <2>3
  <1>4. left' = [left EXCEPT ![g] = left[g] - Cardinality(M)]
    BY DEF checkersExit, Put
  <1>5. left'[g] = Cardinality(CheckersOf(g)')
    BY <1>3, <1>4 DEF CheckersInv
  <1>6. \A h \in Groups : left'[h] = Cardinality(CheckersOf(h)')
    BY <1>2, <1>4, <1>5 DEF CheckersInv
  <1>7. left' = [h \in Groups |-> left'[h]]
    BY <1>4 DEF CheckersInv
  <1> QED
    BY <1>6, <1>7, Zenon DEF CheckersInv
(* All routines of workers that never came up leave together.              *)
LEMMA WaitsLeave ==
  ASSUME WaitsInv, NEW M \in SUBSET (Checking \cap Transferring \cap Living), M \cap Up = {},
         \A w \in Workers : checkEnded'[w] <=> w \in M \/ checkEnded[w],
         \A w \in Workers : othersEnded'[w] <=> w \in M \/ othersEnded[w],
         \A w \in Workers : wphase'[w] = IF w \in M THEN "ended" ELSE wphase[w],
         waitWorker' = waitWorker - 3 * Cardinality(M), waitPool' = waitPool - Cardinality(M),
         UNCHANGED bootedWorkers
  PROVE  WaitsInv'
  <1>1. Checking' = Checking \ M
    BY DEF Checking
  <1>2. Transferring' = Transferring \ M
    BY DEF Transferring
  <1>3. Living' = Living \ M
    BY DEF Living
  <1>4. Up' = Up
    BY DEF Up
  <1>5. /\ Checking \in SUBSET Workers /\ Transferring \in SUBSET Workers
        /\ Living \in SUBSET Workers /\ M \in SUBSET Workers
        /\ M \in SUBSET Checking /\ M \in SUBSET Transferring /\ M \in SUBSET Living
    BY DEF Checking, Transferring, Living
  <1>6. /\ Cardinality(Checking') = Cardinality(Checking) - Cardinality(M)
        /\ Cardinality(Transferring') = Cardinality(Transferring) - Cardinality(M)
        /\ Cardinality(Living') = Cardinality(Living) - Cardinality(M)
        /\ Cardinality(M) \in Nat /\ Cardinality(Checking) \in Nat
        /\ Cardinality(Transferring) \in Nat /\ Cardinality(Living) \in Nat
    BY <1>1, <1>2, <1>3, <1>5, FinitePart, Fewer
  <1>7. Cardinality(Up') = Cardinality(Up)
    BY <1>4
  <1> QED
    BY <1>6, <1>7 DEF WaitsInv

(* The counts, step by step. *)
LEMMA CountStep == ControlInv /\ CountInv /\ [Next]_vars => CountInv'
  <1> SUFFICES ASSUME ControlInv, CountInv, [Next]_vars PROVE CountInv'
    OBVIOUS
  <1>0. /\ CheckersInv /\ WaitsInv /\ WorkerTypeOK /\ Control
        /\ Checking \in SUBSET Workers /\ Transferring \in SUBSET Workers
        /\ Living \in SUBSET Workers /\ Up \in SUBSET Workers
    BY DEF CountInv, ControlInv, Checking, Transferring, Living, Up
  <1>f. /\ IsFiniteSet(Checking) /\ IsFiniteSet(Transferring) /\ IsFiniteSet(Living)
        /\ IsFiniteSet(Up)
        /\ Cardinality(Checking) \in Nat /\ Cardinality(Transferring) \in Nat
        /\ Cardinality(Living) \in Nat /\ Cardinality(Up) \in Nat
    BY <1>0, FinitePart
  <1>a. ASSUME UNCHANGED <<left, checkEnded>> PROVE CheckersInv'
    <2>1. \A g \in Groups : CheckersOf(g)' = CheckersOf(g)
      BY <1>a DEF CheckersOf, groupOf
    <2> QED
      BY <1>0, <1>a, <2>1 DEF CheckersInv
  <1>b. ASSUME UNCHANGED <<waits, bootedWorkers, checkEnded, othersEnded>>,
               Living' = Living, Up' = Up
        PROVE  WaitsInv'
    BY <1>0, <1>b DEF WaitsInv, waits, Checking, Transferring
  <1>1. ASSUME NEW p \in Providers, BootProvider(p) PROVE CountInv'
    <2>1. \A w \in WorkersOf(p) : wphase[w] = "none"
      BY <1>0, <1>1 DEF BootProvider, Control, WorkersOf
    <2>2. UNCHANGED <<left, checkEnded, othersEnded, bootedWorkers, waits>>
      BY <1>1 DEF BootProvider, checkers
    <2>3. Living' = Living /\ Up' = Up
      BY <1>1, <2>1 DEF BootProvider, Living, Up
    <2> QED
      BY <2>2, <2>3, <1>a, <1>b DEF CountInv
  <1>2. ASSUME NEW p \in Providers, BootProviderFailed(p) PROVE CountInv'
    <2>1. \A w \in WorkersOf(p) : wphase[w] = "none" /\ ~checkEnded[w] /\ ~othersEnded[w]
      BY <1>0, <1>2 DEF BootProviderFailed, Control, WorkersOf
    <2>2. /\ WorkersOf(p) \in SUBSET (Checking \cap Transferring \cap Living)
          /\ WorkersOf(p) \cap Up = {} /\ WorkersOf(p) \in SUBSET CheckersOf(group[p])
          /\ group[p] \in Groups
      BY <2>1 DEF WorkersOf, Checking, Transferring, Living, Up, CheckersOf, groupOf, Groups
    <2>3. /\ \A w \in Workers : checkEnded'[w] <=> w \in WorkersOf(p) \/ checkEnded[w]
          /\ \A w \in Workers : othersEnded'[w] <=> w \in WorkersOf(p) \/ othersEnded[w]
          /\ \A w \in Workers : wphase'[w] = IF w \in WorkersOf(p) THEN "ended" ELSE wphase[w]
      BY <1>2 DEF BootProviderFailed
    <2>4. /\ checkersExit(group[p], Cardinality(WorkersOf(p))) /\ UNCHANGED bootedWorkers
          /\ waitWorker' = waitWorker - 3 * Cardinality(WorkersOf(p))
          /\ waitPool' = waitPool - Cardinality(WorkersOf(p))
      BY <1>2 DEF BootProviderFailed
    <2>5. CheckersInv'
      BY <2>2, <2>3, <2>4, <1>0, CheckersLeave
    <2>6. WaitsInv'
      BY <2>2, <2>3, <2>4, <1>0, WaitsLeave
    <2> QED
      BY <2>5, <2>6 DEF CountInv
  <1>3. ASSUME NEW w \in Workers, WorkerUp(w) PROVE CountInv'
    <2>1. UNCHANGED <<left, checkEnded, othersEnded, waits>> /\ bootedWorkers' = bootedWorkers + 1
      BY <1>3 DEF WorkerUp, checkers
    <2>2. Living' = Living /\ Up' = Up \cup {w} /\ w \notin Up
      BY <1>0, <1>3 DEF WorkerUp, Living, Up, Put, WorkerTypeOK
    <2>3. Cardinality(Up') = Cardinality(Up) + 1
      BY <2>2, <1>f, OneMore
    <2>4. Checking' = Checking /\ Transferring' = Transferring
      BY <2>1 DEF Checking, Transferring
    <2>5. WaitsInv'
      BY <2>1, <2>2, <2>3, <2>4, <1>0 DEF WaitsInv, waits
    <2> QED
      BY <2>1, <2>5, <1>a DEF CountInv
  <1>4. ASSUME NEW w \in Workers, WorkerFailed(w) PROVE CountInv'
    <2>1. wphase[w] = "connect" /\ ~checkEnded[w] /\ ~othersEnded[w]
      BY <1>0, <1>4 DEF WorkerFailed, Control
    <2>2. /\ {w} \in SUBSET (Checking \cap Transferring \cap Living)
          /\ {w} \cap Up = {} /\ {w} \in SUBSET CheckersOf(groupOf(w))
          /\ groupOf(w) \in Groups
      BY <2>1, Sizes DEF Checking, Transferring, Living, Up, CheckersOf
    <2>3. /\ \A v \in Workers : checkEnded'[v] <=> v \in {w} \/ checkEnded[v]
          /\ \A v \in Workers : othersEnded'[v] <=> v \in {w} \/ othersEnded[v]
      BY <1>0, <1>4 DEF WorkerFailed, Put, WorkerTypeOK
    <2>4. \A v \in Workers : wphase'[v] = IF v \in {w} THEN "ended" ELSE wphase[v]
      BY <1>0, <1>4 DEF WorkerFailed, Put, WorkerTypeOK
    <2>5. Cardinality({w}) = 1
      BY FS_Singleton
    <2>6. /\ checkersExit(groupOf(w), Cardinality({w})) /\ UNCHANGED bootedWorkers
          /\ waitWorker' = waitWorker - 3 * Cardinality({w})
          /\ waitPool' = waitPool - Cardinality({w})
      BY <2>5, <1>4 DEF WorkerFailed
    <2>7. CheckersInv'
      BY <2>2, <2>3, <2>6, <1>0, CheckersLeave
    <2>8. WaitsInv'
      BY <2>2, <2>3, <2>4, <2>6, <1>0, WaitsLeave
    <2> QED
      BY <2>7, <2>8 DEF CountInv
  <1>5. ASSUME NEW w \in Workers, OthersEnd(w) PROVE CountInv'
    <2>1. UNCHANGED <<left, checkEnded, wphase, bootedWorkers, waitPool>> /\ waitWorker' = waitWorker - 2
      BY <1>5 DEF OthersEnd, checkers
    <2>2. Transferring' = Transferring \ {w} /\ w \in Transferring
      BY <1>0, <1>5 DEF OthersEnd, Transferring, Put, WorkerTypeOK
    <2>3. Cardinality(Transferring') = Cardinality(Transferring) - 1
      BY <2>2, <1>f, OneLess
    <2>4. Checking' = Checking /\ Living' = Living /\ Up' = Up
      BY <2>1 DEF Checking, Living, Up
    <2>5. WaitsInv'
      BY <2>1, <2>3, <2>4, <1>0, <1>f DEF WaitsInv
    <2> QED
      BY <2>1, <2>5, <1>a DEF CountInv
  <1>6. ASSUME NEW w \in Workers, WorkerEnds(w) PROVE CountInv'
    <2>1. /\ UNCHANGED <<left, checkEnded, othersEnded, waitWorker>>
          /\ bootedWorkers' = bootedWorkers - 1 /\ waitPool' = waitPool - 1
      BY <1>6 DEF WorkerEnds, checkers
    <2>2. Living' = Living \ {w} /\ w \in Living /\ Up' = Up \ {w} /\ w \in Up
      BY <1>0, <1>6 DEF WorkerEnds, Living, Up, Put, WorkerTypeOK
    <2>3. Cardinality(Living') = Cardinality(Living) - 1 /\ Cardinality(Up') = Cardinality(Up) - 1
      BY <2>2, <1>f, OneLess
    <2>4. Checking' = Checking /\ Transferring' = Transferring
      BY <2>1 DEF Checking, Transferring
    <2>5. WaitsInv'
      BY <2>1, <2>3, <2>4, <1>0, <1>f DEF WaitsInv
    <2> QED
      BY <2>1, <2>5, <1>a DEF CountInv
  <1>7. ASSUME NEW w \in Workers, CheckerEnds(w) PROVE CountInv'
    <2>1. ~checkEnded[w] /\ UNCHANGED <<workers, waitPool>> /\ waitWorker' = waitWorker - 1
      BY <1>7 DEF CheckerEnds, Waiting
    <2>2. \A v \in Workers : checkEnded'[v] <=> v \in {w} \/ checkEnded[v]
      BY <1>0, <1>7 DEF CheckerEnds, Put, WorkerTypeOK
    <2>3. Cardinality({w}) = 1
      BY FS_Singleton
    <2>4. /\ {w} \in SUBSET CheckersOf(groupOf(w)) /\ groupOf(w) \in Groups
          /\ checkersExit(groupOf(w), Cardinality({w}))
      BY <2>1, <2>3, <1>7, Sizes DEF CheckersOf, CheckerEnds
    <2>5. CheckersInv'
      BY <2>2, <2>4, <1>0, CheckersLeave
    <2>6. Checking' = Checking \ {w} /\ w \in Checking
      BY <2>1, <2>2 DEF Checking
    <2>7. Cardinality(Checking') = Cardinality(Checking) - 1
      BY <2>6, <1>f, OneLess
    <2>8. Transferring' = Transferring /\ Living' = Living /\ Up' = Up
      BY <2>1 DEF Transferring, Living, Up, workers
    <2>9. WaitsInv'
      BY <2>1, <2>7, <2>8, <1>0, <1>f DEF WaitsInv, workers
    <2> QED
      BY <2>5, <2>9 DEF CountInv
  <1>c. ASSUME UNCHANGED <<workers, checkEnded, left, waits>> PROVE CountInv'
    <2>1. Living' = Living /\ Up' = Up
      BY <1>c DEF workers, Living, Up
    <2> QED
      BY <2>1, <1>a, <1>b, <1>c DEF workers, CountInv
  <1>8. ASSUME NEW g \in Groups, Feeder(g) PROVE CountInv'
    BY <1>8, <1>c DEF Feeder, Feed, CloseCheck, checkers
  <1>9. ASSUME NEW w \in Workers, Receive(w) \/ Checked(w) \/ (\E down \in BOOLEAN : CheckNoConn(w, down))
        PROVE  CountInv'
    BY <1>9, <1>c DEF Receive, Checked, CheckNoConn
  <1>10. ASSUME NEW w \in Workers, CheckBroke(w) PROVE CountInv'
    BY <1>10, <1>c DEF CheckBroke
  <1>11. ASSUME Divider \/ Launch \/ Stop \/ UNCHANGED vars PROVE CountInv'
    <2>1. UNCHANGED <<workers, checkers, left, waits>>
      BY <1>11 DEF Divider, Launch, Stop, DividerStarts, Round, Count, Decide, DividerOnly,
                   Booted, StopRoutines, Waited, LaunchOnly, vars
    <2> QED
      BY <2>1, <1>c DEF checkers
  <1> QED
    BY <1>1, <1>2, <1>3, <1>4, <1>5, <1>6, <1>7, <1>8, <1>9, <1>10, <1>11, Zenon
    DEF Next, Worker
-----------------------------------------------------------------------------
(* The divider. It looks for check routines before it counts: when none    *)
(* was left, nothing is counted any more, and the count is final.          *)
NobodyChecks == \A w \in Workers : checkEnded[w]
CheckedEverywhere == {i \in Items : checkedOn[i] = Cardinality(Providers)}

DividerTypeOK ==
  /\ stopped \in BOOLEAN /\ workChansClosed \in BOOLEAN
  /\ dphase \in {"blocked", "sleep", "count", "decide", "quit"}
  /\ checkersGone \in BOOLEAN
  /\ closeCase \in {"", "stopped", "noworkers", "checkersGone", "done"}
  /\ lphase \in {"boot", "divider", "waitWorker", "waitPool", "done"}
DividerBounds ==
  deadWorkersDeadline \in 0..DeadWorkersRounds /\ checked \in 0..todo /\ closeWait \in 0..1

DividerInv ==
  /\ checkersGone => NobodyChecks
  /\ checkersGone /\ dphase = "decide" => checked = Cardinality(CheckedEverywhere)
  /\ closeCase = "checkersGone" => NobodyChecks /\ CheckedEverywhere # Items

IInv == ControlInv /\ WorkInv /\ CountInv /\ DividerTypeOK /\ DividerBounds /\ DividerInv

(* The divider's count of checked items is a number up to todo.            *)
LEMMA Everywhere ==
  /\ Cardinality(CheckedEverywhere) \in 0..todo
  /\ Cardinality(Items) = todo
  <1>1. IsFiniteSet(Items) /\ Cardinality(Items) = todo
    <2>1. /\ IsFiniteSet(1..todo)
          /\ Cardinality(1..todo) = IF 1 > todo THEN 0 ELSE todo - 1 + 1
      BY Sizes, FS_Interval
    <2> QED
      BY <2>1, Sizes DEF Items
  <1>2. CheckedEverywhere \in SUBSET Items
    BY DEF CheckedEverywhere
  <1>3. Cardinality(CheckedEverywhere) <= todo /\ IsFiniteSet(CheckedEverywhere)
    BY <1>1, <1>2, FS_Subset
  <1>4. Cardinality(CheckedEverywhere) \in Nat
    BY <1>3, FS_CardinalityType
  <1> QED
    BY <1>1, <1>3, <1>4, Sizes

(* gone is closed of every group exactly when no check routine is left.    *)
LEMMA GoneIsGone ==
  ASSUME CheckersInv
  PROVE  allCheckersGone <=> NobodyChecks
  <1>1. \A g \in Groups : left[g] = Cardinality(CheckersOf(g)) /\ CheckersOf(g) \in SUBSET Workers
    BY DEF CheckersInv, CheckersOf
  <1>2. \A g \in Groups : IsFiniteSet(CheckersOf(g)) /\ left[g] \in Nat
    BY <1>1, FinitePart
  <1>3. \A g \in Groups : gone(g) <=> left[g] = 0
    BY <1>2 DEF gone
  <1>4. \A g \in Groups : gone(g) <=> CheckersOf(g) = {}
    BY <1>1, <1>2, <1>3, FS_EmptySet
  <1>5. ASSUME \A g \in Groups : CheckersOf(g) = {} PROVE NobodyChecks
    BY <1>5, Sizes DEF NobodyChecks, CheckersOf
  <1>6. ASSUME NobodyChecks PROVE \A g \in Groups : CheckersOf(g) = {}
    BY <1>6 DEF NobodyChecks, CheckersOf
  <1> QED
    BY <1>4, <1>5, <1>6, Zenon DEF allCheckersGone

(* When nobody checks, nothing is counted, and nobody starts to check.     *)
LEMMA NobodyChecksStable ==
  ASSUME ControlInv, NobodyChecks, [Next]_vars
  PROVE  NobodyChecks' /\ checkedOn' = checkedOn
  <1>0. /\ \A w \in Workers : checking[w] = NoItem
        /\ checkEnded \in [Workers -> BOOLEAN]
    BY DEF ControlInv, Control, WorkerTypeOK, NobodyChecks
  <1>1. ~(\E w \in Workers : Receive(w))
    BY DEF NobodyChecks, Receive, Waiting
  <1>2. checkedOn' = checkedOn
    <2>1. CASE \E g \in Groups : Feed(g)
      BY <2>1 DEF Feed
    <2> QED
      BY <2>1, <1>0, <1>1, ItemSteps
  <1>3. NobodyChecks'
    <2> USE <1>0 DEF NobodyChecks, Put, checkers
    <2>1. ASSUME NEW p \in Providers, BootProvider(p) \/ BootProviderFailed(p) PROVE NobodyChecks'
      BY <2>1 DEF BootProvider, BootProviderFailed
    <2>2. ASSUME NEW w \in Workers, WorkerFailed(w) \/ CheckerEnds(w) PROVE NobodyChecks'
      BY <2>2 DEF WorkerFailed, CheckerEnds
    <2>3. ASSUME NEW w \in Workers, Worker(w), ~WorkerFailed(w) PROVE checkEnded' = checkEnded
      BY <2>3 DEF Worker, WorkerUp, OthersEnd, WorkerEnds, Receive, Checked, CheckBroke, CheckNoConn
    <2>4. ASSUME NEW g \in Groups, Feeder(g) PROVE checkEnded' = checkEnded
      BY <2>4 DEF Feeder, Feed, CloseCheck
    <2>5. ASSUME Divider \/ Launch \/ Stop \/ UNCHANGED vars PROVE checkEnded' = checkEnded
      BY <2>5 DEF Divider, Launch, Stop, DividerStarts, Round, Count, Decide, DividerOnly,
                  Booted, StopRoutines, Waited, LaunchOnly, vars
    <2>6. ASSUME checkEnded' = checkEnded PROVE NobodyChecks'
      BY <2>6
    <2> HIDE DEF NobodyChecks
    <2> QED
      BY <2>1, <2>2, <2>3, <2>4, <2>5, <2>6 DEF Next
  <1> QED
    BY <1>2, <1>3
(* Whoever is not the divider or LaunchSession leaves their state alone.   *)
LEMMA DividerAlone ==
  ASSUME [Next]_vars
  PROVE  Divider \/ Launch \/ Stop \/ UNCHANGED <<divider, session>>
  <1>1. ASSUME NEW p \in Providers, BootProvider(p) \/ BootProviderFailed(p)
        PROVE  UNCHANGED <<divider, session>>
    BY <1>1 DEF BootProvider, BootProviderFailed
  <1>2. ASSUME NEW w \in Workers, Worker(w) \/ CheckerEnds(w) PROVE UNCHANGED <<divider, session>>
    BY <1>2 DEF Worker, CheckerEnds, WorkerUp, WorkerFailed, OthersEnd, WorkerEnds, Receive,
                Checked, CheckBroke, CheckNoConn
  <1>3. ASSUME NEW g \in Groups, Feeder(g) PROVE UNCHANGED <<divider, session>>
    BY <1>3 DEF Feeder, Feed, CloseCheck
  <1>4. ASSUME UNCHANGED vars PROVE UNCHANGED <<divider, session>>
    BY <1>4 DEF vars
  <1> QED
    BY <1>1, <1>2, <1>3, <1>4, Zenon DEF Next

(* A step of the divider that does not give up keeps what it knows.        *)
LEMMA DividerStep == IInv /\ [Next]_vars => DividerTypeOK' /\ DividerBounds' /\ DividerInv'
  <1> SUFFICES ASSUME IInv, [Next]_vars PROVE DividerTypeOK' /\ DividerBounds' /\ DividerInv'
    OBVIOUS
  <1>0. ControlInv /\ CheckersInv /\ DividerTypeOK /\ DividerBounds /\ DividerInv
    BY DEF IInv, CountInv
  <1>1. NobodyChecks => NobodyChecks' /\ CheckedEverywhere' = CheckedEverywhere
    BY <1>0, NobodyChecksStable DEF CheckedEverywhere
  <1>a. ASSUME UNCHANGED divider PROVE DividerBounds' /\ DividerInv'
    <2>1. UNCHANGED <<dphase, checkersGone, closeCase, checked, closeWait, deadWorkersDeadline>>
      BY <1>a DEF divider
    <2>2. DividerBounds'
      BY <2>1, <1>0 DEF DividerBounds
    <2>3. DividerInv'
      BY <2>1, <1>0, <1>1 DEF DividerInv
    <2> QED
      BY <2>2, <2>3
  <1>2. CASE UNCHANGED <<divider, session>>
    <2>1. DividerTypeOK'
      BY <1>2, <1>0 DEF divider, session, DividerTypeOK
    <2> QED
      BY <2>1, <1>2, <1>a
  <1>3. CASE Launch \/ Stop
    <2>1. UNCHANGED divider
      BY <1>3 DEF Launch, Stop, Booted, StopRoutines, Waited, LaunchOnly
    <2>2. /\ UNCHANGED <<dphase, checkersGone, closeCase>>
          /\ stopped' \in {TRUE, stopped} /\ workChansClosed' \in {TRUE, workChansClosed}
      BY <1>3, <2>1 DEF Launch, Stop, Booted, StopRoutines, Waited, divider
    <2>3. \/ lphase' = lphase \/ lphase' = "divider" \/ lphase' = "waitWorker"
          \/ lphase' = "waitPool" \/ lphase' = "done"
      BY <1>3 DEF Launch, Stop, Booted, StopRoutines, Waited
    <2>4. DividerTypeOK'
      <3>1. stopped' \in BOOLEAN /\ workChansClosed' \in BOOLEAN
        BY <2>2, <1>0 DEF DividerTypeOK
      <3>2. lphase' \in {"boot", "divider", "waitWorker", "waitPool", "done"}
        BY <2>3, <1>0 DEF DividerTypeOK
      <3> QED
        BY <2>2, <3>1, <3>2, <1>0, Zenon DEF DividerTypeOK
    <2> QED
      BY <2>1, <2>4, <1>a
  <1>4. CASE DividerStarts
    <2>1. /\ UNCHANGED <<deadWorkersDeadline, checkersGone, checked, closeWait, closeCase, session>>
          /\ dphase' = "sleep"
      BY <1>4 DEF DividerStarts, DividerOnly
    <2>2. DividerTypeOK'
      BY <2>1, <1>0 DEF session, DividerTypeOK
    <2>3. DividerBounds'
      BY <2>1, <1>0 DEF DividerBounds
    <2>4. DividerInv'
      BY <2>1, <1>0, <1>1 DEF DividerInv
    <2> QED
      BY <2>2, <2>3, <2>4
  <1>5. CASE Round
    <2>1. /\ UNCHANGED <<checked, closeWait, session>> /\ UNCHANGED <<checkEnded, checkedOn>>
          /\ dphase' \in {"quit", "count"} /\ closeCase' \in {closeCase, "stopped", "noworkers"}
      BY <1>5 DEF Round, Quit, DividerOnly, checkers
    <2>2. checkersGone' \in {checkersGone, allCheckersGone}
      BY <1>5 DEF Round
    <2>3. deadWorkersDeadline' \in 0..DeadWorkersRounds
      <3>1. \/ deadWorkersDeadline' = deadWorkersDeadline
            \/ deadWorkersDeadline # 0 /\ deadWorkersDeadline' = deadWorkersDeadline - 1
            \/ deadWorkersDeadline' = DeadWorkersRounds
        BY <1>5 DEF Round
      <3> QED
        BY <3>1, <1>0, Sizes DEF DividerBounds
    <2>4. allCheckersGone <=> NobodyChecks
      BY <1>0, GoneIsGone
    <2>5. DividerTypeOK'
      <3>1. allCheckersGone \in BOOLEAN
        BY DEF allCheckersGone
      <3>2. UNCHANGED <<stopped, workChansClosed, lphase>>
        BY <2>1 DEF session
      <3> QED
        BY <2>1, <2>2, <3>1, <3>2, <1>0 DEF DividerTypeOK
    <2>6. DividerBounds'
      BY <2>1, <2>3, <1>0 DEF DividerBounds
    <2>7. checkersGone' => NobodyChecks'
      BY <2>2, <2>4, <1>0, <1>1 DEF DividerInv
    <2>8. closeCase' = "checkersGone" => closeCase = "checkersGone"
      BY <2>1
    <2>9. dphase' # "decide"
      BY <2>1
    <2>10. DividerInv'
      BY <2>7, <2>8, <2>9, <1>0, <1>1, Zenon DEF DividerInv
    <2> QED
      BY <2>5, <2>6, <2>10
  <1>6. CASE Count
    <2>1. /\ UNCHANGED <<deadWorkersDeadline, checkersGone, closeWait, closeCase, session, checkedOn>>
          /\ dphase' = "decide" /\ checked' = Cardinality(CheckedEverywhere)
      BY <1>6 DEF Count, DividerOnly, CheckedEverywhere
    <2>2. DividerTypeOK'
      BY <2>1, <1>0 DEF session, DividerTypeOK
    <2>3. DividerBounds'
      BY <2>1, <1>0, Everywhere DEF DividerBounds
    <2>4. CheckedEverywhere' = CheckedEverywhere
      BY <2>1 DEF CheckedEverywhere
    <2>5. DividerInv'
      BY <2>1, <2>4, <1>0, <1>1 DEF DividerInv
    <2> QED
      BY <2>2, <2>3, <2>5
  <1>7. CASE Decide
    <2>1. /\ UNCHANGED <<deadWorkersDeadline, session>>
          /\ dphase = "decide" /\ checkersGone' = FALSE /\ checked' = 0
          /\ closeWait' \in {0, closeWait}
      BY <1>7 DEF Decide, RoundOver, DividerOnly
    <2>2. \/ dphase' = "quit" /\ closeCase' = "checkersGone" /\ checked # todo /\ checkersGone
          \/ dphase' = "quit" /\ closeCase' = "done"
          \/ dphase' = "sleep" /\ closeCase' = closeCase
      BY <1>7 DEF Decide, Quit, NextRound
    <2>3. DividerTypeOK'
      BY <2>1, <2>2, <1>0 DEF session, DividerTypeOK
    <2>4. DividerBounds'
      BY <2>1, <1>0, Sizes DEF DividerBounds
    <2>5. ASSUME closeCase' = "checkersGone" PROVE NobodyChecks' /\ CheckedEverywhere' # Items
      <3>1. CASE checked # todo /\ checkersGone
        <4>1. NobodyChecks /\ checked = Cardinality(CheckedEverywhere)
          BY <3>1, <2>1, <1>0 DEF DividerInv
        <4>2. CheckedEverywhere # Items
          BY <3>1, <4>1, Everywhere
        <4> QED
          BY <4>1, <4>2, <1>1
      <3>2. CASE closeCase = "checkersGone"
        BY <3>2, <1>0, <1>1 DEF DividerInv
      <3> QED
        BY <2>2, <2>5, <3>1, <3>2
    <2>6. DividerInv'
      BY <2>1, <2>5 DEF DividerInv
    <2> QED
      BY <2>3, <2>4, <2>6
  <1> QED
    BY <1>2, <1>3, <1>4, <1>5, <1>6, <1>7, DividerAlone DEF Divider

-----------------------------------------------------------------------------
(* The invariant holds at the start.                                       *)
LEMMA InitIInv == Init => IInv
  <1> SUFFICES ASSUME Init PROVE IInv
    OBVIOUS
  <1>1. DividerTypeOK
    BY Zenon DEF Init, DividerTypeOK
  <1>2. /\ deadWorkersDeadline = DeadWorkersRounds /\ checked = 0 /\ closeWait = 1
        /\ checkersGone = FALSE /\ closeCase = ""
    BY Zenon DEF Init
  <1>3. DividerBounds
    <2>1. DeadWorkersRounds \in 0..DeadWorkersRounds /\ 0 \in 0..todo /\ 1 \in 0..1
      BY Sizes
    <2> QED
      BY <2>1, <1>2, Zenon DEF DividerBounds
  <1>4. DividerInv
    BY <1>2, Zenon DEF DividerInv
  <1> QED
    BY <1>1, <1>3, <1>4, InitControl, InitWork, InitCount DEF IInv

(* Every step keeps it: each part by its own lemma above.                  *)
LEMMA StepIInv == IInv /\ [Next]_vars => IInv'
  BY ControlStep, WorkStep, CountStep, DividerStep DEF IInv

(* An item that was sent and is not in the channel was received.           *)
LEMMA DoneIsDone ==
  ASSUME ControlInv, ChannelInv, NEW i \in Items
  PROVE  Done(i) = {p \in Providers :
                      /\ i <= fed[group[p]]
                      /\ i \notin ToSet(segmentChansCheck[group[p]])
                      /\ \A w \in Workers : groupOf(w) = group[p] => checking[w] # i}
  <1>1. ASSUME NEW g \in Groups
        PROVE  i <= received(g) <=> i <= fed[g] /\ i \notin ToSet(segmentChansCheck[g])
    <2> DEFINE ch == segmentChansCheck[g]
    <2>1. /\ ch \in Seq(Items) /\ Len(ch) \in Nat /\ DOMAIN ch = 1..Len(ch)
          /\ fed[g] \in Nat /\ i \in Nat /\ received(g) = fed[g] - Len(ch)
      BY DEF ControlInv, WorkerTypeOK, FeedControl, Items, received
    <2>2. \A k \in 1..Len(ch) : ch[k] = received(g) + k
      BY DEF ChannelInv
    <2>3. ToSet(ch) = {ch[k] : k \in 1..Len(ch)}
      BY <2>1 DEF ToSet
    <2> HIDE DEF ch
    <2>4. ASSUME i <= received(g) PROVE i <= fed[g] /\ i \notin ToSet(ch)
      BY <2>1, <2>2, <2>3, <2>4
    <2>5. ASSUME ~(i <= received(g)), i <= fed[g] PROVE i \in ToSet(ch)
      <3>1. i - received(g) \in 1..Len(ch)
        BY <2>1, <2>5
      <3>2. ch[i - received(g)] = i
        BY <3>1, <2>1, <2>2
      <3> QED
        BY <3>1, <3>2, <2>3
    <2> QED
      BY <2>1, <2>4, <2>5 DEF ch
  <1>2. \A p \in Providers : group[p] \in Groups
    BY DEF Groups
  <1> QED
    BY <1>1, <1>2 DEF Done

(* It implies both properties: the counts,                                 *)
LEMMA IInvCounts == IInv => CountsExact
  <1> SUFFICES ASSUME IInv PROVE CountsExact
    OBVIOUS
  <1>0. /\ ControlInv /\ ChannelInv /\ ChecksInv /\ CheckersInv /\ WaitsInv
        /\ DividerTypeOK /\ DividerBounds
    BY DEF IInv, WorkInv, CountInv
  <1>1. CheckersExact
    BY <1>0 DEF CheckersInv, CheckersExact, CheckersOf
  <1>2. CheckedExact
    BY <1>0, DoneIsDone DEF ChecksInv, CheckedExact
  <1>3. WaitsExact
    BY <1>0 DEF WaitsInv, WaitsExact, Checking, Transferring, Living
  <1>4. TypeOK
    <2>1. left \in [Groups -> 0..Cardinality(Workers)]
      <3>1. \A g \in Groups : Cardinality(CheckersOf(g)) \in 0..Cardinality(Workers)
        <4>1. \A g \in Groups : CheckersOf(g) \in SUBSET Workers
          BY DEF CheckersOf
        <4> QED
          BY <4>1, FinitePart
      <3> QED
        BY <3>1, <1>0 DEF CheckersInv
    <2>2. checkedOn \in [Items -> 0..Cardinality(Providers)]
      BY <1>0, DoneFinite, Sizes, FS_CardinalityType DEF ChecksInv
    <2>3. /\ waitWorker \in 0..3 * Cardinality(Workers) /\ waitPool \in 0..Cardinality(Workers)
          /\ bootedWorkers \in 0..Cardinality(Workers)
      <3>1. /\ Checking \in SUBSET Workers /\ Transferring \in SUBSET Workers
            /\ Living \in SUBSET Workers /\ Up \in SUBSET Workers
        BY DEF Checking, Transferring, Living, Up
      <3>2. /\ Cardinality(Checking) \in 0..Cardinality(Workers)
            /\ Cardinality(Transferring) \in 0..Cardinality(Workers)
            /\ Cardinality(Living) \in 0..Cardinality(Workers)
            /\ Cardinality(Up) \in 0..Cardinality(Workers) /\ Cardinality(Workers) \in Nat
        BY <3>1, FinitePart
      <3> QED
        BY <3>2, <1>0 DEF WaitsInv
    <2>4. \A g \in Groups : Len(segmentChansCheck[g]) <= chanSize
      BY <1>0 DEF ChannelInv
    <2>5. /\ WorkerTypeOK
          /\ fed \in [Groups -> 0..todo] /\ fphase \in [Groups -> {"feed", "wait", "closed"}]
      BY <1>0 DEF ControlInv, FeedControl
    <2> QED
      BY <2>1, <2>2, <2>3, <2>4, <2>5, <1>0, Zenon
      DEF TypeOK, WorkerTypeOK, DividerTypeOK, DividerBounds
  <1> QED
    BY <1>1, <1>2, <1>3, <1>4 DEF CountsExact

(* and the divider's decision.                                             *)
LEMMA IInvGivesUp == IInv => GivesUpRightly
  <1> SUFFICES ASSUME IInv, closeCase = "checkersGone"
               PROVE  \E i \in Items : checkedOn[i] # Cardinality(Providers) /\ allCheckersGone
    BY DEF GivesUpRightly
  <1>1. NobodyChecks /\ CheckedEverywhere # Items
    BY DEF IInv, DividerInv
  <1>2. allCheckersGone
    BY <1>1, GoneIsGone DEF IInv, CountInv
  <1>3. \E i \in Items : checkedOn[i] # Cardinality(Providers)
    BY <1>1 DEF CheckedEverywhere
  <1> QED
    BY <1>2, <1>3

(* The check routines of a group, the providers that have checked an item  *)
(* and the routines that LaunchSession waits for are counted exactly,      *)
(* whatever fails to boot, to connect or to answer (Workers.go:70-82,      *)
(* 163-187, 579-623).                                                      *)
THEOREM CountsAlwaysExact == Spec => []CountsExact
  BY InitIInv, StepIInv, IInvCounts, PTL DEF Spec

(* The divider gives up for want of check routines only with an item that  *)
(* will never be checked, since it looks at the routines before it counts  *)
(* (Workers.go:1105, 1396-1402).                                           *)
THEOREM AlwaysGivesUpRightly == Spec => []GivesUpRightly
  BY InitIInv, StepIInv, IInvGivesUp, PTL DEF Spec
=============================================================================
