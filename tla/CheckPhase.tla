----------------------------- MODULE CheckPhase -----------------------------
(***************************************************************************)
(* A session from its boot to its end, with the check of its articles      *)
(* (Session.go 306-365, Workers.go 13-282, 284-372, 572-626, Routines.go   *)
(* 18-147 and the divider's rounds, Workers.go 1034-1495). Every provider  *)
(* has a boot goroutine and MaxConns workers, a worker a check routine     *)
(* (and a download and an upload routine); every group of providers has a  *)
(* feeder that sends it the whole segment list. An item is checked once    *)
(* per group and counts for all its providers; the divider counts the      *)
(* items that are checked everywhere, and ends the session when it sees    *)
(* all of them, or when nobody is left to check.                           *)
(*                                                                         *)
(* Abstracted: what a check found (Transfer starts from it), and transfer  *)
(* work: nothing is ever queued to download or upload. The watchdog of the *)
(* divider (noProgressTimeout) is left out: the sessions end without it.   *)
(* Items are the positions 1..todo of the segment list.                    *)
(***************************************************************************)
EXTENDS Integers, FiniteSets, Sequences, SequencesExt

CONSTANTS Providers, group, Workers, providerOf,
          todo, chanSize,
          maxCheckNoConn,    \* a check routine's items in a row without a connection
          DeadWorkersRounds  \* the divider's rounds without any worker

Groups == {group[p] : p \in Providers}
Of(g) == {p \in Providers : group[p] = g}
groupOf(w) == group[providerOf[w]]
WorkersOf(p) == {w \in Workers : providerOf[w] = p}
Items == 1..todo
NoItem == 0
checkAttempts == 2

ASSUME CheckAssumption ==
  /\ IsFiniteSet(Providers) /\ IsFiniteSet(Workers)
  /\ providerOf \in [Workers -> Providers]
  /\ \A p \in Providers : WorkersOf(p) # {}  \* loadProviderList drops one without connections
  /\ {todo, chanSize, maxCheckNoConn, DeadWorkersRounds} \subseteq Nat \ {0}

VARIABLES boot,      \* a provider's boot goroutine
          wphase,    \* a GoWorker
          checking,  \* the item of its check routine
          attempt, noConn,
          checkEnded, othersEnded,     \* its routines have called waitWorker.Done
          fed, fphase,                 \* a group's feeder
          segmentChansCheck,           \* its channel, closed with fphase
          left,      \* checkerGroup.left; gone is closed when it is 0
          checkedOn,
          stopped,   \* stopChan is closed
          workChansClosed,
          waitWorker, waitPool, bootedWorkers,
          dphase, deadWorkersDeadline, checkersGone, checked, closeWait, closeCase,  \* the divider
          lphase     \* LaunchSession

workers == <<boot, wphase, othersEnded, bootedWorkers>>
checkers == <<checking, attempt, noConn, checkEnded>>
feeders == <<fed, fphase>>
divider == <<dphase, deadWorkersDeadline, checkersGone, checked, closeWait, closeCase>>
session == <<stopped, workChansClosed, lphase>>
waits == <<waitWorker, waitPool>>
vars == <<workers, checkers, feeders, segmentChansCheck, left, checkedOn, divider, session, waits>>

gone(g) == left[g] <= 0
allCheckersGone == \A g \in Groups : gone(g)

TypeOK ==
  /\ boot \in [Providers -> {"boot", "done"}]
  /\ wphase \in [Workers -> {"none", "connect", "up", "ended"}]
  /\ checking \in [Workers -> Items \cup {NoItem}]
  /\ attempt \in [Workers -> 1..checkAttempts] /\ noConn \in [Workers -> 0..maxCheckNoConn]
  /\ checkEnded \in [Workers -> BOOLEAN] /\ othersEnded \in [Workers -> BOOLEAN]
  /\ fed \in [Groups -> 0..todo] /\ fphase \in [Groups -> {"feed", "wait", "closed"}]
  /\ segmentChansCheck \in [Groups -> Seq(Items)]
  /\ \A g \in Groups : Len(segmentChansCheck[g]) <= chanSize
  /\ left \in [Groups -> 0..Cardinality(Workers)]
  /\ checkedOn \in [Items -> 0..Cardinality(Providers)]
  /\ stopped \in BOOLEAN /\ workChansClosed \in BOOLEAN
  /\ waitWorker \in 0..3 * Cardinality(Workers) /\ waitPool \in 0..Cardinality(Workers)
  /\ bootedWorkers \in 0..Cardinality(Workers)
  /\ dphase \in {"blocked", "sleep", "count", "decide", "quit"}
  /\ deadWorkersDeadline \in 0..DeadWorkersRounds
  /\ checkersGone \in BOOLEAN /\ checked \in 0..todo /\ closeWait \in 0..1
  /\ closeCase \in {"", "stopped", "noworkers", "checkersGone", "done"}
  /\ lphase \in {"boot", "divider", "waitWorker", "waitPool", "done"}

Init ==  \* LaunchSession has added to the wait groups; makeSegmentChans
  /\ boot = [p \in Providers |-> "boot"] /\ wphase = [w \in Workers |-> "none"]
  /\ checking = [w \in Workers |-> NoItem]
  /\ attempt = [w \in Workers |-> 1] /\ noConn = [w \in Workers |-> 0]
  /\ checkEnded = [w \in Workers |-> FALSE] /\ othersEnded = [w \in Workers |-> FALSE]
  /\ fed = [g \in Groups |-> 0] /\ fphase = [g \in Groups |-> "feed"]
  /\ segmentChansCheck = [g \in Groups |-> <<>>]
  /\ left = [g \in Groups |-> Cardinality({w \in Workers : groupOf(w) = g})]
  /\ checkedOn = [i \in Items |-> 0]
  /\ stopped = FALSE /\ workChansClosed = FALSE /\ lphase = "boot"
  /\ waitWorker = 3 * Cardinality(Workers) /\ waitPool = Cardinality(Workers)
  /\ bootedWorkers = 0
  /\ dphase = "blocked" /\ deadWorkersDeadline = DeadWorkersRounds
  /\ checkersGone = FALSE /\ checked = 0 /\ closeWait = 1 /\ closeCase = ""

Put(f, x, v) == [f EXCEPT ![x] = v]

checkersExit(g, n) == left' = Put(left, g, left[g] - n)

(***************************************************************************)
(* GoBootWorkers and GoWorker                                              *)
(***************************************************************************)
(* The connection for the capabilities is there, or not needed. *)
BootProvider(p) ==
  /\ boot[p] = "boot" /\ boot' = Put(boot, p, "done")
  /\ wphase' = [w \in Workers |-> IF w \in WorkersOf(p) THEN "connect" ELSE wphase[w]]
  /\ UNCHANGED <<othersEnded, bootedWorkers, checkers, feeders, segmentChansCheck, left,
                 checkedOn, divider, session, waits>>

(* Mutant: only one routine of a worker is released. *)
BootProviderFailed_OneEach(p) ==
  LET mine == WorkersOf(p) IN
  /\ boot[p] = "boot" /\ boot' = Put(boot, p, "done")
  /\ checkersExit(group[p], Cardinality(mine))
  /\ wphase' = [w \in Workers |-> IF w \in mine THEN "ended" ELSE wphase[w]]
  /\ checkEnded' = [w \in Workers |-> w \in mine \/ checkEnded[w]]
  /\ othersEnded' = [w \in Workers |-> w \in mine \/ othersEnded[w]]
  /\ waitWorker' = waitWorker - Cardinality(mine) /\ waitPool' = waitPool - Cardinality(mine)
  /\ UNCHANGED <<bootedWorkers, checking, attempt, noConn, feeders, segmentChansCheck,
                 checkedOn, divider, session>>

(* No connection: everything its workers are waited for is released. *)
BootProviderFailed(p) ==
  LET mine == WorkersOf(p) IN
  /\ boot[p] = "boot" /\ boot' = Put(boot, p, "done")
  /\ checkersExit(group[p], Cardinality(mine))
  /\ wphase' = [w \in Workers |-> IF w \in mine THEN "ended" ELSE wphase[w]]
  /\ checkEnded' = [w \in Workers |-> w \in mine \/ checkEnded[w]]
  /\ othersEnded' = [w \in Workers |-> w \in mine \/ othersEnded[w]]
  /\ waitWorker' = waitWorker - 3 * Cardinality(mine) /\ waitPool' = waitPool - Cardinality(mine)
  /\ UNCHANGED <<bootedWorkers, checking, attempt, noConn, feeders, segmentChansCheck,
                 checkedOn, divider, session>>

WorkerUp(w) ==
  /\ wphase[w] = "connect" /\ wphase' = Put(wphase, w, "up")
  /\ bootedWorkers' = bootedWorkers + 1
  /\ UNCHANGED <<boot, othersEnded, checkers, feeders, segmentChansCheck, left,
                 checkedOn, divider, session, waits>>

WorkerFailed(w) ==
  /\ wphase[w] = "connect" /\ wphase' = Put(wphase, w, "ended")
  /\ checkersExit(groupOf(w), 1)
  /\ checkEnded' = Put(checkEnded, w, TRUE) /\ othersEnded' = Put(othersEnded, w, TRUE)
  /\ waitWorker' = waitWorker - 3 /\ waitPool' = waitPool - 1
  /\ UNCHANGED <<boot, bootedWorkers, checking, attempt, noConn, feeders, segmentChansCheck,
                 checkedOn, divider, session>>

(* The download and the upload routine end when their channels are closed. *)
OthersEnd(w) ==
  /\ wphase[w] = "up" /\ ~othersEnded[w] /\ workChansClosed
  /\ othersEnded' = Put(othersEnded, w, TRUE) /\ waitWorker' = waitWorker - 2
  /\ UNCHANGED <<boot, wphase, bootedWorkers, checkers, feeders, segmentChansCheck, left,
                 checkedOn, divider, session, waitPool>>

WorkerEnds(w) ==
  /\ wphase[w] = "up" /\ checkEnded[w] /\ othersEnded[w]
  /\ wphase' = Put(wphase, w, "ended")
  /\ bootedWorkers' = bootedWorkers - 1 /\ waitPool' = waitPool - 1
  /\ UNCHANGED <<boot, othersEnded, checkers, feeders, segmentChansCheck, left,
                 checkedOn, divider, session, waitWorker>>

(***************************************************************************)
(* The feeder                                                              *)
(***************************************************************************)
(* A feeder that has sent the whole list waits for the channel to empty. *)
Feed(g) ==
  /\ fphase[g] = "feed" /\ Len(segmentChansCheck[g]) < chanSize
  /\ segmentChansCheck' = Put(segmentChansCheck, g, Append(segmentChansCheck[g], fed[g] + 1))
  /\ fed' = Put(fed, g, fed[g] + 1)
  /\ fphase' = Put(fphase, g, IF fed'[g] = todo THEN "wait" ELSE "feed")
  /\ UNCHANGED <<workers, checkers, left, checkedOn, divider, session, waits>>

(* Mutant: a feeder that has sent everything waits for the check routines. *)
CloseCheck_WaitsOn(g) ==
  /\ \/ fphase[g] = "wait" /\ segmentChansCheck[g] = <<>>
     \/ fphase[g] = "feed" /\ (gone(g) \/ stopped)
  /\ fphase' = Put(fphase, g, "closed")
  /\ UNCHANGED <<workers, checkers, fed, segmentChansCheck, left, checkedOn,
                 divider, session, waits>>

(* Then, or when nobody reads the channel any more, or when the session    *)
(* stops, it closes the channel, and ends.                                 *)
CloseCheck(g) ==
  /\ \/ fphase[g] = "wait" /\ segmentChansCheck[g] = <<>>
     \/ fphase[g] # "closed" /\ (gone(g) \/ stopped)
  /\ fphase' = Put(fphase, g, "closed")
  /\ UNCHANGED <<workers, checkers, fed, segmentChansCheck, left, checkedOn,
                 divider, session, waits>>

(***************************************************************************)
(* The check routine                                                       *)
(***************************************************************************)
Waiting(w) == wphase[w] = "up" /\ ~checkEnded[w] /\ checking[w] = NoItem

(* A stopped session's items are dropped. *)
Receive(w) ==
  LET ch == segmentChansCheck[groupOf(w)] IN
  /\ Waiting(w) /\ noConn[w] < maxCheckNoConn /\ ch # <<>>
  /\ segmentChansCheck' = Put(segmentChansCheck, groupOf(w), Tail(ch))
  /\ checking' = Put(checking, w, IF stopped THEN NoItem ELSE Head(ch))
  /\ attempt' = Put(attempt, w, 1)
  /\ UNCHANGED <<workers, noConn, checkEnded, feeders, left, checkedOn, divider, session, waits>>

(* The item counts as checked on every provider of the group. *)
Counts(w) ==
  /\ checkedOn' = Put(checkedOn, checking[w],
                      checkedOn[checking[w]] + Cardinality(Of(groupOf(w))))
  /\ checking' = Put(checking, w, NoItem) /\ attempt' = Put(attempt, w, 1)

(* The server answered STAT, with any code. *)
Checked(w) ==
  /\ checking[w] # NoItem /\ Counts(w)
  /\ noConn' = Put(noConn, w, 0)
  /\ UNCHANGED <<workers, checkEnded, feeders, segmentChansCheck, left, divider, session, waits>>

(* The connection broke: once more on a fresh one, then an error counts.   *)
CheckBroke(w) ==
  /\ checking[w] # NoItem
  /\ IF attempt[w] < checkAttempts /\ ~stopped
     THEN attempt' = Put(attempt, w, attempt[w] + 1) /\ UNCHANGED <<checking, checkedOn, noConn>>
     ELSE Counts(w) /\ noConn' = Put(noConn, w, 0)
  /\ UNCHANGED <<workers, checkEnded, feeders, segmentChansCheck, left, divider, session, waits>>

(* No connection: the item fails without a retry. A provider that is down  *)
(* fails all of them at once, and keeps its routine.                       *)
CheckNoConn(w, down) ==
  /\ checking[w] # NoItem /\ noConn[w] < maxCheckNoConn /\ Counts(w)
  /\ noConn' = Put(noConn, w, IF down THEN 0 ELSE noConn[w] + 1)
  /\ UNCHANGED <<workers, checkEnded, feeders, segmentChansCheck, left, divider, session, waits>>

(* The channel is closed and drained, nothing came for 15 s (a feeder that *)
(* still has items fills an empty channel long before), or there was no    *)
(* connection for too many items.                                          *)
CheckerEnds(w) ==
  /\ Waiting(w)
  /\ \/ segmentChansCheck[groupOf(w)] = <<>> /\ fphase[groupOf(w)] # "feed"
     \/ noConn[w] = maxCheckNoConn
  /\ checkEnded' = Put(checkEnded, w, TRUE) /\ checkersExit(groupOf(w), 1)
  /\ waitWorker' = waitWorker - 1
  /\ noConn' = Put(noConn, w, 0)
  /\ UNCHANGED <<workers, checking, attempt, feeders, segmentChansCheck,
                 checkedOn, divider, session, waitPool>>

(* The fair part: an idle routine need not give up early. *)
CheckerMustEnd(w) ==
  CheckerEnds(w) /\ (fphase[groupOf(w)] = "closed" \/ noConn[w] = maxCheckNoConn)

(***************************************************************************)
(* GoWorkDivider                                                           *)
(***************************************************************************)
Quit(why) == dphase' = "quit" /\ closeCase' = why
NextRound == dphase' = "sleep" /\ UNCHANGED closeCase
RoundOver == checkersGone' = FALSE /\ checked' = 0  \* they are a round's own
DividerOnly == UNCHANGED <<workers, checkers, feeders, segmentChansCheck, left, checkedOn,
                           session, waits>>

(* waitDivider and workerWGconnReady: the providers have booted, their     *)
(* workers may still be connecting.                                        *)
DividerStarts ==
  /\ dphase = "blocked" /\ lphase = "divider" /\ dphase' = "sleep"
  /\ UNCHANGED <<deadWorkersDeadline, checkersGone, checked, closeWait, closeCase>> /\ DividerOnly

(* A round begins: divSleep is over, by the clock or by wakeDivider. *)
Round ==
  /\ dphase = "sleep"
  /\ IF stopped THEN Quit("stopped") /\ UNCHANGED <<deadWorkersDeadline, checkersGone>>
     ELSE IF deadWorkersDeadline = 0
     THEN Quit("noworkers") /\ UNCHANGED <<deadWorkersDeadline, checkersGone>>
     ELSE /\ deadWorkersDeadline' = IF bootedWorkers = 0 THEN deadWorkersDeadline - 1
                                    ELSE DeadWorkersRounds
          /\ checkersGone' = allCheckersGone
          /\ dphase' = "count" /\ UNCHANGED closeCase
  /\ UNCHANGED <<checked, closeWait>> /\ DividerOnly

Count ==
  /\ dphase = "count" /\ dphase' = "decide"
  /\ checked' = Cardinality({i \in Items : checkedOn[i] = Cardinality(Providers)})
  /\ UNCHANGED <<deadWorkersDeadline, checkersGone, closeWait, closeCase>> /\ DividerOnly

(* Mutant: whether anybody still checks is looked at after the count. *)
Decide_LooksNow ==
  /\ dphase = "decide"
  /\ IF checked # todo
     THEN IF allCheckersGone THEN Quit("checkersGone") ELSE NextRound
     ELSE IF closeWait = 0 THEN Quit("done") ELSE NextRound
  /\ closeWait' = IF checked = todo THEN 0 ELSE closeWait
  /\ RoundOver /\ UNCHANGED deadWorkersDeadline /\ DividerOnly

(* Not all are checked: give up when nobody checks any more, or go on. All *)
(* are: a close case matches (with -checkonly it always does), and is      *)
(* confirmed in one more round.                                            *)
Decide ==
  /\ dphase = "decide"
  /\ IF checked # todo
     THEN IF checkersGone THEN Quit("checkersGone") ELSE NextRound
     ELSE IF closeWait = 0 THEN Quit("done") ELSE NextRound
  /\ closeWait' = IF checked = todo THEN 0 ELSE closeWait
  /\ RoundOver /\ UNCHANGED deadWorkersDeadline /\ DividerOnly

(***************************************************************************)
(* LaunchSession                                                           *)
(***************************************************************************)
LaunchOnly == UNCHANGED <<workers, checkers, feeders, segmentChansCheck, left, checkedOn,
                          divider, waits>>

Booted ==
  /\ lphase = "boot" /\ lphase' = "divider"
  /\ \A p \in Providers : boot[p] = "done"
  /\ UNCHANGED <<stopped, workChansClosed>> /\ LaunchOnly

StopRoutines ==
  /\ lphase = "divider" /\ dphase = "quit" /\ lphase' = "waitWorker"
  /\ stopped' = TRUE /\ workChansClosed' = TRUE /\ LaunchOnly

Waited ==
  /\ \/ lphase = "waitWorker" /\ waitWorker = 0 /\ lphase' = "waitPool"
     \/ lphase = "waitPool" /\ waitPool = 0 /\ lphase' = "done"
  /\ UNCHANGED <<stopped, workChansClosed>> /\ LaunchOnly

(* The web job of the session is stopped. *)
Stop ==
  /\ ~stopped /\ stopped' = TRUE
  /\ UNCHANGED <<workChansClosed, lphase>> /\ LaunchOnly

Worker(w) ==
  \/ WorkerUp(w) \/ WorkerFailed(w) \/ OthersEnd(w) \/ WorkerEnds(w)
  \/ Receive(w) \/ Checked(w) \/ CheckBroke(w)
  \/ \E down \in BOOLEAN : CheckNoConn(w, down)
Feeder(g) == Feed(g) \/ CloseCheck(g)
Divider == DividerStarts \/ Round \/ Count \/ Decide
Launch == Booted \/ StopRoutines \/ Waited

Next ==
  \/ \E p \in Providers : BootProvider(p) \/ BootProviderFailed(p)
  \/ \E w \in Workers : Worker(w) \/ CheckerEnds(w)
  \/ \E g \in Groups : Feeder(g)
  \/ Divider \/ Launch \/ Stop

(* Some goroutine that can go on does, and the divider does: GetConn, and  *)
(* the STAT it is for, end in time (SharedConn). There is an end to what   *)
(* the others can do, so that each gets its turn. Nothing is owed by a     *)
(* stop or by the idle exit.                                               *)
Progress ==
  \/ \E p \in Providers : BootProvider(p) \/ BootProviderFailed(p)
  \/ \E w \in Workers : Worker(w) \/ CheckerMustEnd(w)
  \/ \E g \in Groups : Feeder(g)
  \/ Launch

Spec == Init /\ [][Next]_vars
FairSpec ==
  /\ Spec
  /\ WF_vars(Progress) /\ WF_vars(Divider)

(***************************************************************************)
(* Properties                                                              *)
(***************************************************************************)
(* left is the number of the group's check routines that run or may still  *)
(* start: gone is closed neither while one of them could check an item,    *)
(* nor never (Workers.go:163-187, 73-82, 299, 323).                        *)
CheckersExact ==
  \A g \in Groups :
    left[g] = Cardinality({w \in Workers : groupOf(w) = g /\ ~checkEnded[w]})

(* Of every item that a feeder sent, the group's providers have counted    *)
(* the check once, or a routine is at it, or it is in the channel: however *)
(* often a check is retried, none is lost and none counted twice. A count  *)
(* that is off never equals the number of providers, and the divider would *)
(* wait for it (Workers.go:579-623, 1117).                                 *)
CheckedExact ==
  ~stopped => \A i \in Items :
    checkedOn[i] =
      Cardinality({p \in Providers :
        /\ i <= fed[group[p]]
        /\ i \notin ToSet(segmentChansCheck[group[p]])
        /\ \A w \in Workers : groupOf(w) = group[p] => checking[w] # i})

(* The divider gives up because the check routines are gone only if some   *)
(* item will indeed never be checked: one that was counted as unchecked    *)
(* and checked before its routine ended must not cost the session          *)
(* (Workers.go:1105, 1396-1402).                                           *)
GivesUpRightly ==
  closeCase = "checkersGone" =>
    \E i \in Items : checkedOn[i] # Cardinality(Providers) /\ allCheckersGone

(* What LaunchSession waits for is what still runs: when it goes on, no    *)
(* routine and no worker of the session is left, and a wait group that     *)
(* went below zero would panic (Session.go:333-341, Workers.go:70-82).     *)
WaitsExact ==
  /\ waitWorker = Cardinality({w \in Workers : ~checkEnded[w]})
                   + 2 * Cardinality({w \in Workers : ~othersEnded[w]})
  /\ waitPool = Cardinality({w \in Workers : wphase[w] # "ended"})

(* Whatever fails to boot, to connect or to answer, and whenever it is     *)
(* stopped, a session ends, without the watchdog, and its feeders too      *)
(* (Workers.go:200-282, 1363-1410, Session.go:333-341).                    *)
SessionEnds == <>[](lphase = "done" /\ \A g \in Groups : fphase[g] = "closed")
(* All counts of the phase are exact: the check routines left of a group,  *)
(* the providers that have checked an item, the waits of LaunchSession     *)
(* (Workers.go:70-82, 163-187, 579-623).                                   *)
CountsExact == TypeOK /\ CheckersExact /\ CheckedExact /\ WaitsExact
=============================================================================
