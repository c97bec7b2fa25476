----------------------------- MODULE FilesProofs -----------------------------
(***************************************************************************)
(* Proofs about what NZBreX does to files. First the directory watcher,    *)
(* for any number of files, writes and starts: a stop reaches the session, *)
(* and a file is moved only after its run and never lost. Then the yEnc    *)
(* output, for every list of items, set of writers and channel: a part in  *)
(* work is counted; after a close by the counts no target misses a part    *)
(* that was decoded; and, over two sessions, a part file that has its name *)
(* is whole, and no merge loses it.                                        *)
(***************************************************************************)
EXTENDS DirWatcher, YencOutput, FiniteSetTheorems, TLAPS

(* The files: what is in the directory was written, and no write is used   *)
(* twice.                                                                  *)
FileTypes ==
  /\ dir \in [Names -> 0..MaxWrites] /\ pending \in [Names -> 0..MaxWrites]
  /\ moved \subseteq [name : Names, write : 1..MaxWrites, dir : {"done", "failed"}]
  /\ clock \in 0..MaxWrites /\ \A n \in Names : dir[n] <= clock

(* The loop: it handles the head of todo, whose names are all different,   *)
(* and none of them is skipped.                                            *)
Handles == {"run", "errStopped", "launch", "session", "ended", "move"}
Waits == {"scan", "next", "select", "returned"}

LoopInv ==
  /\ pc \in Handles \cup Waits /\ todo \in Seq(Names) /\ skip \subseteq Names
  /\ pc \in Handles => todo # <<>>
  /\ \A i, j \in 1..Len(todo) : i # j => todo[i] # todo[j]
  /\ \A i \in 1..Len(todo) : todo[i] \notin skip
  /\ current \in BOOLEAN /\ (current <=> pc \in {"errStopped", "launch", "session", "ended"})
  /\ sess \in [loaded : 0..MaxWrites, err : BOOLEAN]
  /\ pc = "launch" => sess = NoSession
  /\ pc = "session" => sess.loaded # 0 /\ sess.loaded <= clock

(* The stop: w.stop is closed before anything else of it happens.          *)
StopInv ==
  /\ stopped \in BOOLEAN /\ sessStop \in BOOLEAN /\ stopper \in {"none", "closed", "has", "done"}
  /\ (stopper # "none" => stopped) /\ (sessStop => stopped) /\ (pc = "errStopped" => stopped)
  /\ StopReaches

(* What was run is gone, replaced by a later write, or skipped; or it is   *)
(* at hand, or nothing is started any more.                                *)
Settled(r) ==
  \/ dir[r[1]] # r[2]
  \/ r[1] \in skip
  \/ stopped /\ pc \notin {"launch", "session"}
  \/ pc \in {"ended", "move"} /\ r[1] = Head(todo)

RanInv ==
  /\ ran \subseteq Names \X (1..MaxWrites)
  /\ \A r \in ran : r[2] <= clock /\ Settled(r)
  /\ pc = "ended" /\ sess.loaded # 0 /\ ~sessStop => <<Head(todo), sess.loaded>> \in ran
  /\ pc = "move" /\ sess.loaded # 0 => <<Head(todo), sess.loaded>> \in ran

WatchInv == FileTypes /\ LoopInv /\ StopInv /\ RanInv

-----------------------------------------------------------------------------
LEMMA WatchConstants == MaxWrites \in Nat /\ MaxStarts \in Nat \ {0} /\ IsFiniteSet(Names)
  BY DirWatcherAssumption

LEMMA NoSessionType == NoSession \in [loaded : 0..MaxWrites, err : BOOLEAN]
  BY WatchConstants DEF NoSession

(* A process starts with nothing at hand.                                  *)
LEMMA LoopStarts ==
  ASSUME pc = "scan", todo = <<>>, skip = {}, current = FALSE, sess = NoSession
  PROVE  LoopInv
  <1>1. todo \in Seq(Names) /\ Len(todo) = 0
    OBVIOUS
  <1>2. /\ pc \in Handles \cup Waits /\ pc \notin Handles
        /\ sess \in [loaded : 0..MaxWrites, err : BOOLEAN]
    BY NoSessionType DEF Handles, Waits
  <1>3. 1..Len(todo) = {}
    BY <1>1
  <1> QED
    BY <1>1, <1>2, <1>3 DEF LoopInv

LEMMA WatchInitially == WatchInit => WatchInv
  <1> SUFFICES ASSUME WatchInit PROVE WatchInv
    OBVIOUS
  <1>1. FileTypes
    BY WatchConstants DEF WatchInit, FileTypes, Fresh
  <1>2. LoopInv
    BY LoopStarts DEF WatchInit, Fresh
  <1>3. StopInv
    BY DEF WatchInit, StopInv, StopReaches
  <1>4. RanInv
    BY DEF WatchInit, RanInv
  <1> QED
    BY <1>1, <1>2, <1>3, <1>4 DEF WatchInv

(* The list of a scan has each of its names once.                          *)
LEMMA OldestFirstOnce ==
  ASSUME NEW S \in SUBSET Names, NEW q \in OldestFirst(S)
  PROVE  q \in Seq(Names) /\ (\A i, j \in 1..Len(q) : i # j => q[i] # q[j])
         /\ \A i \in 1..Len(q) : q[i] \in S
  <1>1. Cardinality(S) \in Nat
    BY WatchConstants, FS_Subset, FS_CardinalityType
  <1>2. q \in [1..Cardinality(S) -> S] /\ \A i, j \in 1..Cardinality(S) : i # j => q[i] # q[j]
    BY DEF OldestFirst, SetToSeqs
  <1>3. q \in Seq(Names) /\ Len(q) = Cardinality(S)
    BY <1>1, <1>2
  <1> QED
    BY <1>2, <1>3

(* The rest of the list when its head is done with.                        *)
LEMMA TailOnce ==
  ASSUME LoopInv, todo # <<>>
  PROVE  /\ Tail(todo) \in Seq(Names) /\ Head(todo) \in Names /\ Head(todo) \notin skip
         /\ \A i, j \in 1..Len(Tail(todo)) : i # j => Tail(todo)[i] # Tail(todo)[j]
         /\ \A i \in 1..Len(Tail(todo)) : Tail(todo)[i] \notin skip /\ Tail(todo)[i] # Head(todo)
  <1>1. /\ todo \in Seq(Names) /\ Len(todo) \in Nat \ {0} /\ Head(todo) = todo[1]
        /\ \A i, j \in 1..Len(todo) : i # j => todo[i] # todo[j]
        /\ \A i \in 1..Len(todo) : todo[i] \notin skip
    BY DEF LoopInv
  <1>2. /\ Tail(todo) \in Seq(Names) /\ Len(Tail(todo)) = Len(todo) - 1
        /\ \A i \in 1..Len(Tail(todo)) : Tail(todo)[i] = todo[i + 1]
    BY <1>1
  <1> QED
    BY <1>1, <1>2

-----------------------------------------------------------------------------
(* A step is dealt with by what it leaves alone and by what it disturbs.   *)
LEMMA WriteInv ==
  ASSUME WatchInv, NEW n \in Names, Write(n)
  PROVE  WatchInv'
  <1>1. /\ clock \in 0..MaxWrites /\ clock < MaxWrites /\ clock' = clock + 1
        /\ dir \in [Names -> 0..MaxWrites] /\ dir' = [dir EXCEPT ![n] = clock + 1]
        /\ UNCHANGED <<loopVars, stopVars>>
    BY DEF Write, WatchInv, FileTypes
  <1>2. FileTypes'
    <2>1. \A m \in Names : dir[m] <= clock
      BY DEF WatchInv, FileTypes
    <2> QED
      BY <1>1, <2>1, WatchConstants DEF WatchInv, FileTypes, loopVars
  <1>3. LoopInv'
    BY <1>1, WatchConstants DEF WatchInv, LoopInv, loopVars
  <1>4. StopInv'
    BY <1>1 DEF WatchInv, StopInv, StopReaches, stopVars, loopVars
  <1>5. RanInv'
    <2>1. ASSUME NEW r \in ran PROVE r[2] <= clock + 1 /\ Settled(r)'
      <3>1. r[1] \in Names /\ r[2] \in 1..MaxWrites /\ r[2] <= clock /\ Settled(r)
        BY DEF WatchInv, RanInv
      <3>2. dir[r[1]] # r[2] => dir'[r[1]] # r[2]
        BY <3>1, <1>1
      <3> QED
        BY <3>1, <3>2, <1>1 DEF Settled, loopVars, stopVars
    <2> QED
      BY <1>1, <2>1 DEF WatchInv, RanInv, loopVars, stopVars
  <1> QED
    BY <1>2, <1>3, <1>4, <1>5 DEF WatchInv

LEMMA DeleteInv ==
  ASSUME WatchInv, NEW n \in Names, Delete(n)
  PROVE  WatchInv'
  <1>1. /\ dir \in [Names -> 0..MaxWrites] /\ dir' = [dir EXCEPT ![n] = 0] /\ clock' = clock
        /\ UNCHANGED <<loopVars, stopVars>>
    BY DEF Delete, WatchInv, FileTypes
  <1>2. FileTypes'
    BY <1>1, WatchConstants DEF WatchInv, FileTypes, loopVars
  <1>3. LoopInv'
    BY <1>1 DEF WatchInv, LoopInv, loopVars
  <1>4. StopInv'
    BY <1>1 DEF WatchInv, StopInv, StopReaches, stopVars, loopVars
  <1>5. RanInv'
    <2>1. ASSUME NEW r \in ran PROVE r[2] <= clock /\ Settled(r)'
      <3>1. r[1] \in Names /\ r[2] \in 1..MaxWrites /\ r[2] <= clock /\ Settled(r)
        BY DEF WatchInv, RanInv
      <3>2. dir[r[1]] # r[2] => dir'[r[1]] # r[2]
        BY <3>1, <1>1
      <3> QED
        BY <3>1, <3>2, <1>1 DEF Settled, loopVars, stopVars
    <2> QED
      BY <1>1, <2>1 DEF WatchInv, RanInv, loopVars, stopVars
  <1> QED
    BY <1>2, <1>3, <1>4, <1>5 DEF WatchInv

(* The list is made, and looked at.                                        *)
LEMMA ScanInv ==
  ASSUME WatchInv, scan
  PROVE  WatchInv'
  <1>1. /\ pc = "scan" /\ pc' = "next" /\ UNCHANGED <<env, moved, skip, sess, current, ran, stopVars>>
        /\ pending' = [n \in Names |-> IF n \in skip THEN 0 ELSE dir[n]]
        /\ todo' \in OldestFirst({n \in Names : pending'[n] # 0 /\ pending[n] = dir[n]})
    BY DEF scan
  <1>2. FileTypes'
    BY <1>1, WatchConstants DEF WatchInv, FileTypes, env
  <1>3. LoopInv'
    <2> DEFINE S == {n \in Names : pending'[n] # 0 /\ pending[n] = dir[n]}
    <2>1. S \in SUBSET Names /\ todo' \in OldestFirst(S)
      BY <1>1
    <2>2. \A n \in S : n \notin skip
      BY <1>1
    <2> HIDE DEF S
    <2>3. /\ todo' \in Seq(Names) /\ (\A i, j \in 1..Len(todo') : i # j => todo'[i] # todo'[j])
          /\ \A i \in 1..Len(todo') : todo'[i] \in S
      BY <2>1, OldestFirstOnce
    <2> QED
      BY <2>2, <2>3, <1>1 DEF WatchInv, LoopInv, Handles, Waits, env
  <1>4. StopInv'
    BY <1>1 DEF WatchInv, StopInv, StopReaches, stopVars
  <1>5. RanInv'
    BY <1>1 DEF WatchInv, RanInv, Settled, env, stopVars
  <1> QED
    BY <1>2, <1>3, <1>4, <1>5 DEF WatchInv

LEMMA WaitsInv ==
  ASSUME WatchInv, loopNext \/ selectStop \/ selectTick
  PROVE  WatchInv'
  <1>1. /\ UNCHANGED <<env, moved, pending, skip, todo, sess, current, ran, stopVars>>
        /\ pc \in {"next", "select"} /\ pc' \in {"select", "returned", "run", "scan"}
        /\ (pc' = "run" => todo # <<>>)
    BY DEF loopNext, selectStop, selectTick
  <1>2. FileTypes'
    BY <1>1 DEF WatchInv, FileTypes, env
  <1>3. LoopInv'
    BY <1>1 DEF WatchInv, LoopInv, env, Handles, Waits
  <1>4. StopInv'
    BY <1>1 DEF WatchInv, StopInv, StopReaches, stopVars
  <1>5. RanInv'
    BY <1>1 DEF WatchInv, RanInv, Settled, env, stopVars
  <1> QED
    BY <1>2, <1>3, <1>4, <1>5 DEF WatchInv

(* A session is made, launched, and ends.                                  *)
LEMMA RunSessionInv ==
  ASSUME WatchInv, runSession
  PROVE  WatchInv'
  <1>1. /\ pc = "run" /\ current' = TRUE /\ sessStop' = FALSE /\ sess' = NoSession
        /\ pc' = (IF stopped THEN "errStopped" ELSE "launch")
        /\ UNCHANGED <<env, moved, pending, skip, todo, ran, stopped, stopper>>
    BY DEF runSession
  <1>2. FileTypes'
    BY <1>1 DEF WatchInv, FileTypes, env
  <1>3. LoopInv'
    BY <1>1, WatchConstants DEF WatchInv, LoopInv, env, Handles, Waits, NoSession
  <1>4. StopInv'
    BY <1>1 DEF WatchInv, StopInv, StopReaches
  <1>5. RanInv'
    BY <1>1 DEF WatchInv, RanInv, Settled, env
  <1> QED
    BY <1>2, <1>3, <1>4, <1>5 DEF WatchInv

LEMMA LaunchInv ==
  ASSUME WatchInv, Launch
  PROVE  WatchInv'
  <1>1. /\ pc = "launch" /\ todo # <<>> /\ sess = NoSession
        /\ UNCHANGED <<env, moved, pending, skip, todo, current, ran, stopVars>>
        /\ dir \in [Names -> 0..MaxWrites] /\ Head(todo) \in Names /\ dir[Head(todo)] <= clock
    BY TailOnce DEF Launch, WatchInv, LoopInv, FileTypes, Handles
  <1>2. \/ pc' = "ended" /\ sess' = [loaded |-> 0, err |-> TRUE]
        \/ pc' = "session" /\ sess' = [loaded |-> dir[Head(todo)], err |-> FALSE] /\ dir[Head(todo)] # 0
    BY <1>1 DEF Launch, NoSession
  <1>3. FileTypes'
    BY <1>1 DEF WatchInv, FileTypes, env
  <1>4. LoopInv'
    <2>1. sess' \in [loaded : 0..MaxWrites, err : BOOLEAN] /\ (pc' = "session" => sess'.loaded # 0 /\ sess'.loaded <= clock)
      <3>1. dir[Head(todo)] \in 0..MaxWrites /\ 0 \in 0..MaxWrites
        BY <1>1, WatchConstants
      <3>2. CASE pc' = "ended" /\ sess' = [loaded |-> 0, err |-> TRUE]
        BY <3>1, <3>2
      <3>3. CASE pc' = "session" /\ sess' = [loaded |-> dir[Head(todo)], err |-> FALSE] /\ dir[Head(todo)] # 0
        BY <3>1, <3>3, <1>1
      <3> QED
        BY <1>2, <3>2, <3>3
    <2> QED
      BY <1>1, <1>2, <2>1 DEF WatchInv, LoopInv, env, Handles, Waits
  <1>5. StopInv'
    BY <1>1, <1>2 DEF WatchInv, StopInv, StopReaches, stopVars
  <1>6. RanInv'
    BY <1>1, <1>2 DEF WatchInv, RanInv, Settled, env, stopVars
  <1> QED
    BY <1>3, <1>4, <1>5, <1>6 DEF WatchInv

LEMMA SessionOverInv ==
  ASSUME WatchInv, SessionOver
  PROVE  WatchInv'
  <1> DEFINE h == <<Head(todo), sess.loaded>>
  <1>1. PICK e \in BOOLEAN : sess' = [sess EXCEPT !.err = e]
    BY DEF SessionOver
  <1>2. /\ pc = "session" /\ pc' = "ended" /\ ran' = (IF sessStop THEN ran ELSE ran \cup {h})
        /\ UNCHANGED <<env, moved, pending, skip, todo, current, stopVars>>
        /\ sess \in [loaded : 0..MaxWrites, err : BOOLEAN] /\ sess.loaded # 0 /\ sess.loaded <= clock
        /\ Head(todo) \in Names
    BY TailOnce DEF SessionOver, WatchInv, LoopInv, Handles
  <1>3. sess' \in [loaded : 0..MaxWrites, err : BOOLEAN] /\ sess'.loaded = sess.loaded
    BY <1>1, <1>2
  <1>4. FileTypes'
    BY <1>2 DEF WatchInv, FileTypes, env
  <1>5. LoopInv'
    BY <1>2, <1>3 DEF WatchInv, LoopInv, env, Handles, Waits
  <1>6. StopInv'
    BY <1>2 DEF WatchInv, StopInv, StopReaches, stopVars
  <1>7. RanInv'
    <2>1. h \in Names \X (1..MaxWrites) /\ h[1] = Head(todo) /\ h[2] = sess.loaded
      BY <1>2, WatchConstants
    <2>2. ran' \subseteq Names \X (1..MaxWrites)
      BY <2>1, <1>2 DEF WatchInv, RanInv
    <2>3. ASSUME NEW r \in ran' PROVE r[2] <= clock /\ Settled(r)'
      <3>1. CASE r \in ran
        BY <3>1, <1>2 DEF WatchInv, RanInv, Settled, env, stopVars
      <3>2. CASE r = h
        BY <3>2, <2>1, <1>2 DEF Settled
      <3> QED
        BY <3>1, <3>2, <1>2
    <2>4. ~sessStop => h \in ran'
      BY <1>2
    <2> QED
      BY <2>2, <2>3, <2>4, <1>2, <1>3 DEF RanInv, env, stopVars
  <1> QED
    BY <1>4, <1>5, <1>6, <1>7 DEF WatchInv

(* The file stays after a stop, and is moved or skipped otherwise.         *)
LEMMA AfterRunInv ==
  ASSUME WatchInv, afterRun
  PROVE  WatchInv'
  <1>1. /\ pc \in {"ended", "errStopped"} /\ current' = FALSE /\ todo # <<>>
        /\ UNCHANGED <<env, moved, pending, skip, ran, stopVars>>
        /\ \/ stopped /\ pc' = "next" /\ todo' = Tail(todo) /\ sess' = NoSession
           \/ ~stopped /\ pc = "ended" /\ pc' = "move" /\ todo' = todo /\ sess' = sess
    BY DEF afterRun, WatchInv, LoopInv, StopInv, Handles
  <1>2. FileTypes'
    BY <1>1 DEF WatchInv, FileTypes, env
  <1>3. LoopInv'
    <2>1. CASE pc' = "move"
      BY <1>1, <2>1 DEF WatchInv, LoopInv, Handles, Waits
    <2>2. CASE pc' = "next"
      <3>1. todo' = Tail(todo) /\ sess' = NoSession /\ skip' = skip /\ current' = FALSE
        BY <1>1, <2>2
      <3> QED
        BY <2>2, <3>1, <1>1, TailOnce, NoSessionType DEF WatchInv, LoopInv, Handles, Waits
    <2> QED
      BY <1>1, <2>1, <2>2
  <1>4. StopInv'
    BY <1>1 DEF WatchInv, StopInv, StopReaches, stopVars
  <1>5. RanInv'
    BY <1>1 DEF WatchInv, RanInv, StopInv, Settled, env, stopVars
  <1> QED
    BY <1>2, <1>3, <1>4, <1>5 DEF WatchInv

LEMMA MoveInv ==
  ASSUME WatchInv, Move
  PROVE  WatchInv'
  <1> DEFINE n == Head(todo)
  <1>1. /\ pc = "move" /\ pc' = "next" /\ todo # <<>> /\ todo' = Tail(todo) /\ sess' = NoSession
        /\ n \in Names /\ n \notin skip /\ pending' = [pending EXCEPT ![n] = 0]
        /\ UNCHANGED <<clock, current, ran, stopVars>>
        /\ \/ /\ dir[n] # 0 /\ dir' = [dir EXCEPT ![n] = 0] /\ skip' = skip
              /\ \E s \in {"done", "failed"} : moved' = moved \cup {[name |-> n, write |-> dir[n], dir |-> s]}
           \/ skip' = skip \cup {n} /\ UNCHANGED <<moved, dir>>
    <2>1. CASE sess.err
      BY <2>1, TailOnce DEF Move, moveInto, WatchInv, LoopInv, Handles
    <2>2. CASE ~sess.err
      BY <2>2, TailOnce DEF Move, moveInto, WatchInv, LoopInv, Handles
    <2> QED
      BY <2>1, <2>2
  <1>2. dir \in [Names -> 0..MaxWrites] /\ pending \in [Names -> 0..MaxWrites]
    BY DEF WatchInv, FileTypes
  <1> HIDE DEF n
  <1>3. FileTypes'
    <2>1. moved' \subseteq [name : Names, write : 1..MaxWrites, dir : {"done", "failed"}]
      <3>1. CASE moved' = moved
        BY <3>1 DEF WatchInv, FileTypes
      <3>2. ASSUME dir[n] # 0, NEW s \in {"done", "failed"},
                   moved' = moved \cup {[name |-> n, write |-> dir[n], dir |-> s]}
            PROVE  moved' \subseteq [name : Names, write : 1..MaxWrites, dir : {"done", "failed"}]
        <4>2. dir[n] \in 1..MaxWrites
          BY <3>2, <1>1, <1>2, WatchConstants
        <4>3. [name |-> n, write |-> dir[n], dir |-> s] \in [name : Names, write : 1..MaxWrites, dir : {"done", "failed"}]
          BY <3>2, <4>2, <1>1
        <4> QED
          BY <3>2, <4>3 DEF WatchInv, FileTypes
      <3> QED
        BY <1>1, <3>1, <3>2
    <2>2. dir' \in [Names -> 0..MaxWrites] /\ pending' \in [Names -> 0..MaxWrites]
      BY <1>1, <1>2, WatchConstants
    <2>3. \A m \in Names : dir'[m] <= clock
      BY <1>1, <1>2 DEF WatchInv, FileTypes
    <2> QED
      BY <1>1, <2>1, <2>2, <2>3 DEF WatchInv, FileTypes
  <1>4. LoopInv'
    <2>1. skip' \subseteq Names /\ \A i \in 1..Len(Tail(todo)) : Tail(todo)[i] \notin skip'
      BY <1>1, TailOnce DEF WatchInv, LoopInv, n
    <2> QED
      BY <1>1, <2>1, TailOnce, WatchConstants DEF WatchInv, LoopInv, Handles, Waits, NoSession
  <1>5. StopInv'
    BY <1>1 DEF WatchInv, StopInv, StopReaches, stopVars
  <1>6. RanInv'
    <2>1. ASSUME NEW r \in ran PROVE r[2] <= clock /\ Settled(r)'
      <3>1. r[1] \in Names /\ r[2] \in 1..MaxWrites /\ r[2] <= clock /\ Settled(r)
        BY DEF WatchInv, RanInv
      <3>2. dir[r[1]] # r[2] => dir'[r[1]] # r[2]
        BY <3>1, <1>1, <1>2
      <3>3. r[1] = n => dir'[n] # r[2] \/ n \in skip'
        BY <3>1, <1>1, <1>2
      <3> QED
        BY <3>1, <3>2, <3>3, <1>1 DEF Settled, stopVars, n
    <2> QED
      BY <1>1, <2>1 DEF WatchInv, RanInv
  <1> QED
    BY <1>3, <1>4, <1>5, <1>6 DEF WatchInv

(* The stop, in its three steps.                                           *)
LEMMA StopsInv ==
  ASSUME WatchInv, Stop \/ StopStep
  PROVE  WatchInv'
  <1>1. /\ UNCHANGED <<env, loopVars>> /\ (stopped => stopped')
        /\ \/ stopper = "none" /\ stopped' = TRUE /\ stopper' = "closed" /\ sessStop' = sessStop
           \/ stopper = "closed" /\ stopper' = (IF current THEN "has" ELSE "done") /\ UNCHANGED <<stopped, sessStop>>
           \/ stopper = "has" /\ sessStop' = TRUE /\ stopper' = "done" /\ UNCHANGED stopped
    BY DEF Stop, StopStep, StopReads, StopSession
  <1>2. FileTypes'
    BY <1>1 DEF WatchInv, FileTypes, env, loopVars
  <1>3. LoopInv'
    BY <1>1 DEF WatchInv, LoopInv, env, loopVars
  <1>4. StopInv'
    BY <1>1 DEF WatchInv, LoopInv, StopInv, StopReaches, loopVars
  <1>5. RanInv'
    BY <1>1 DEF WatchInv, RanInv, StopInv, Settled, env, loopVars
  <1> QED
    BY <1>2, <1>3, <1>4, <1>5 DEF WatchInv

(* The process is started again: it has forgotten all but the files.       *)
LEMMA StartAgainInv ==
  ASSUME WatchInv, StartAgain
  PROVE  WatchInv'
  <1>1. FileTypes'
    BY WatchConstants DEF StartAgain, Fresh, WatchInv, FileTypes, env
  <1>2. LoopInv'
    <2>1. (pc = "scan" /\ todo = <<>> /\ skip = {} /\ current = FALSE /\ sess = NoSession)'
      BY DEF StartAgain, Fresh
    <2>2. todo' \in Seq(Names) /\ 1..Len(todo') = {}
      BY <2>1
    <2>3. /\ pc' \in Handles \cup Waits /\ pc' \notin Handles
          /\ sess' \in [loaded : 0..MaxWrites, err : BOOLEAN]
      BY <2>1, NoSessionType DEF Handles, Waits
    <2> QED
      BY <2>1, <2>2, <2>3 DEF LoopInv
  <1>3. StopInv'
    BY DEF StartAgain, StopInv, StopReaches
  <1>4. RanInv'
    BY DEF StartAgain, RanInv
  <1> QED
    BY <1>1, <1>2, <1>3, <1>4 DEF WatchInv

LEMMA WatchStep == WatchInv /\ [WatchNext]_watchVars => WatchInv'
  <1> SUFFICES ASSUME WatchInv, [WatchNext]_watchVars PROVE WatchInv'
    OBVIOUS
  <1>1. CASE UNCHANGED watchVars
    BY <1>1 DEF watchVars, env, loopVars, stopVars, WatchInv, FileTypes, LoopInv, StopInv, StopReaches, RanInv, Settled
  <1> QED
    BY <1>1, WriteInv, DeleteInv, ScanInv, WaitsInv, RunSessionInv, LaunchInv, SessionOverInv,
       AfterRunInv, MoveInv, StopsInv, StartAgainInv DEF WatchNext, Loop

LEMMA WatchInvariant == WatchSpec => []WatchInv
  BY WatchInitially, WatchStep, PTL DEF WatchSpec

(* Whatever the order of Stop and runSession (nzbdir.go), the session's    *)
(* errors and the restarts: a stop reaches the session that runs.          *)
THEOREM WatcherAlwaysConsistent == WatchSpec => []WatcherConsistent
  <1>1. WatchInv => WatcherConsistent
    <2> SUFFICES ASSUME WatchInv PROVE WatcherConsistent
      OBVIOUS
    <2>1. current => Head(todo) \notin skip
      BY TailOnce DEF WatchInv, LoopInv, Handles
    <2> QED
      BY <2>1 DEF WatchInv, FileTypes, LoopInv, StopInv, WatcherConsistent, WatchTypeOK, Handles, Waits
  <1> QED
    BY <1>1, WatchInvariant, PTL

(* A stopped file stays, one that is taken away was run to its end and is  *)
(* not run again unless it is written again, and none is overwritten       *)
(* (processOne, moveInto).                                                 *)
THEOREM FilesAlwaysKept == WatchSpec => FilesKept
  <1>1. ASSUME WatchInv, [WatchNext]_watchVars
        PROVE  \A f \in moved' \ moved : sess.loaded # 0 => <<f.name, sess.loaded>> \in ran
    <2> SUFFICES ASSUME NEW f \in moved' \ moved, sess.loaded # 0 PROVE <<f.name, sess.loaded>> \in ran
      OBVIOUS
    <2>1. Move
      BY <1>1 DEF WatchNext, Loop, Write, Delete, scan, loopNext, selectStop, selectTick, runSession, Launch,
         SessionOver, afterRun, Stop, StopStep, StopReads, StopSession, StartAgain, watchVars, loopVars
    <2>2. pc = "move" /\ f.name = Head(todo)
      BY <2>1 DEF Move, moveInto
    <2> QED
      BY <1>1, <2>2 DEF WatchInv, RanInv
  <1>2. ASSUME WatchInv, [WatchNext]_watchVars, pc = "launch", pc' = "session"
        PROVE  <<Head(todo), sess'.loaded>> \notin ran
    <2>1. Launch
      BY <1>2 DEF WatchNext, Loop, Write, Delete, scan, loopNext, selectStop, selectTick, runSession,
         SessionOver, afterRun, Move, Stop, StopStep, StopReads, StopSession, StartAgain, watchVars, loopVars
    <2>2. sess'.loaded = dir[Head(todo)] /\ Head(todo) \notin skip
      BY <1>2, <2>1, TailOnce DEF Launch, WatchInv, LoopInv, NoSession, Handles
    <2> DEFINE r == <<Head(todo), sess'.loaded>>
    <2>3. r \in ran => Settled(r)
      BY <1>2 DEF WatchInv, RanInv
    <2> QED
      BY <1>2, <2>2, <2>3 DEF Settled
  <1>3. ASSUME WatchInv, [WatchNext]_watchVars
        PROVE  /\ moved \subseteq moved'
               /\ pc = "move" /\ pc' = "next" => \A n \in Names : dir'[n] # dir[n] =>
                    \E f \in moved' : f.name = n /\ f.write = dir[n]
    <2>1. CASE Move
      <3>1. dir \in [Names -> 0..MaxWrites] /\ Head(todo) \in Names
        BY <1>3, <2>1, TailOnce DEF WatchInv, FileTypes, LoopInv, Move, Handles
      <3> DEFINE h == Head(todo)
      <3>2. \/ moved' = moved /\ dir' = dir
            \/ /\ dir' = [dir EXCEPT ![h] = 0]
               /\ \E sub \in {"done", "failed"} :
                    moved' = moved \cup {[name |-> h, write |-> dir[h], dir |-> sub]}
        BY <2>1 DEF Move, moveInto
      <3> HIDE DEF h
      <3>3. ASSUME NEW n \in Names, dir'[n] # dir[n] PROVE \E f \in moved' : f.name = n /\ f.write = dir[n]
        <4>1. n = h /\ dir' # dir
          BY <3>1, <3>2, <3>3
        <4>2. PICK sub \in {"done", "failed"} : moved' = moved \cup {[name |-> h, write |-> dir[h], dir |-> sub]}
          BY <3>2, <4>1
        <4>3. [name |-> h, write |-> dir[h], dir |-> sub] \in moved'
          BY <4>2
        <4> QED
          BY <4>1, <4>3
      <3> QED
        BY <3>2, <3>3
    <2>2. CASE ~Move
      BY <1>3, <2>2 DEF WatchNext, Loop, Write, Delete, scan, loopNext, selectStop, selectTick, runSession, Launch,
         SessionOver, afterRun, Stop, StopStep, StopReads, StopSession, StartAgain, watchVars, loopVars, env
    <2> QED
      BY <2>1, <2>2
  <1>4. WatchSpec => StoppedStays
    BY <1>1, WatchInvariant, PTL DEF StoppedStays, WatchSpec
  <1>5. WatchSpec => RunOnce
    BY <1>2, WatchInvariant, PTL DEF RunOnce, WatchSpec
  <1>6. WatchSpec => NothingLost
    BY <1>3, WatchInvariant, PTL DEF NothingLost, WatchSpec
  <1> QED
    BY <1>4, <1>5, <1>6 DEF FilesKept

-----------------------------------------------------------------------------
(* The yEnc output.                                                        *)
(* What a routine has given to a writer is in the channel or with a writer *)
(* or was there before.                                                    *)
Busy == {w \in Writers : writer[w].at # "idle"}
Queued == {p \in Parts : dl[p] = "queued"}
Handed == {p \in Parts : dl[p] \in {"queued", "written", "done"}}
AtRest(p) == dl[p] \in {"cached", "done", "failed"} /\ p \notin flaginYenc
Wanted(p) == dl[p] = "done" /\ p \notin failed

(* The jobs of the session that runs are of parts that were handed over,   *)
(* and none is of a later one; the flag is up before the part is sent.     *)
JobInv ==
  /\ \A i \in DOMAIN yencChan :
       yencChan[i].s <= session /\ (yencChan[i].s = session => yencChan[i].item \in Handed)
  /\ \A w \in Busy : writer[w].s <= session /\ (Current(w) => Item(w) \in Handed)
  /\ \A p \in Parts : dl[p] = "queueing" => p \in flaginYenc

(* Nothing is on its way while the merge runs; a round that has not seen   *)
(* anything in flight has passed settled items only, and they stay so;     *)
(* after a close by the counts nobody works.                               *)
AllQuiet == yencChan = <<>> /\ Busy = {} /\ \A p \in Parts : AtRest(p)
RoundInv ==
  /\ dv.at \in {"merge", "over"} => \A p \in Parts : ~InDL(p)
  /\ dv.at = "scan" /\ ~dv.busy => \A i \in DOMAIN segmentList : i < dv.i => AtRest(segmentList[i])
  /\ dv.at \in {"scan", "drain"} => \A f \in Files : mg[f].at = "start"
  /\ byCounts => dv.at # "scan" /\ AllQuiet

(* Until its file is merged, a part whose flag is down is there, or its    *)
(* write failed.                                                           *)
DecodedInv ==
  /\ \A p \in Handed : mg[FileOf[p]].at = "start" /\ p \notin flaginYenc /\ p \notin failed
       => part[p] # "none"
  /\ \A w \in Busy : Current(w) /\ writer[w].at = "close" /\ mg[FileOf[Item(w)]].at = "start"
       => part[Item(w)] # "none"

(* Where a merge is, and what is in its .tmp by then.                      *)
InTmp(p) == \E i \in DOMAIN targetTmp[FileOf[p]] : targetTmp[FileOf[p]][i] = <<"part", p>>
Ahead(p) == part[p] # "none" /\ \E i \in DOMAIN segmentList : i >= mg[FileOf[p]].i /\ segmentList[i] = p
MergeAt(f) ==
  /\ mg[f].at = "start" => mg[f].i = 0
  /\ mg[f].at \in {"item", "copy", "delete"} => mg[f].i \in Places(f) /\ target[f] = NoFile
  /\ mg[f].at \in {"copy", "delete"} => Left(f)
  /\ mg[f].at = "copy" => targetTmp[f] # <<>> /\ targetTmp[f][Len(targetTmp[f])] = <<"torn", ItemAt(f)>>
  /\ mg[f].at = "delete" => InTmp(ItemAt(f))
  /\ mg[f].deleted => f \in ParFiles
  /\ byCounts /\ mg[f].at \in {"item", "copy", "delete"} /\ ~mg[f].deleted =>
       \A p \in FileItems(f) : Wanted(p) => InTmp(p) \/ Ahead(p)
MergeInv == \A f \in Files : MergeAt(f)

(* No part is handed over twice in a session.                              *)
OneJob ==
  /\ \A i, j \in DOMAIN yencChan :
       yencChan[i].item = yencChan[j].item /\ yencChan[i].s = yencChan[j].s => i = j
  /\ \A w \in Busy : \A i \in DOMAIN yencChan :
       yencChan[i].item = Item(w) => yencChan[i].s # writer[w].s
  /\ \A v, w \in Busy : Item(v) = Item(w) /\ writer[v].s = writer[w].s => v = w

(* The names of open part files. A writer whose file was renamed by        *)
(* another one is the last but one with its part.                          *)
Overtaken(w) ==
  /\ \A v \in Busy : v # w /\ Item(v) = Item(w) => writer[v].at \in {"close", "decr"}
  /\ \A i \in DOMAIN yencChan : yencChan[i].item # Item(w)
  /\ session = MaxSessions /\ Item(w) \in Handed
NamesInv ==
  \A w \in Busy : writer[w].at \in {"write", "rename"} =>
    IF writer[w].file = "tmp"
    THEN partTmp[Item(w)] # "none" /\ (writer[w].at = "rename" => partTmp[Item(w)] = "whole")
    ELSE partTmp[Item(w)] = "none" /\ Overtaken(w)

YencInv == TypeOK /\ NeverUndercounts /\ JobInv /\ RoundInv /\ DecodedInv /\ MergeInv
TwoInv == WholeParts /\ OneJob /\ NamesInv

(* The constants of the yEnc output: the items are finitely many, each has *)
(* a place in the list and a file.                                         *)
LEMMA SegmentFacts ==
  /\ segmentList \in Seq(Parts) /\ Len(segmentList) \in Nat /\ DOMAIN segmentList = 1..Len(segmentList)
  /\ \A i \in DOMAIN segmentList : segmentList[i] \in Parts
  /\ \A p \in Parts : \E i \in DOMAIN segmentList : segmentList[i] = p
  /\ IsFiniteSet(Parts) /\ IsFiniteSet(Writers)
  /\ FileOf \in [Parts -> Files] /\ \A f \in Files : \E p \in Parts : FileOf[p] = f
  /\ ChanSize \in Nat \ {0} /\ YencDelParts \in BOOLEAN /\ MaxSessions \in Nat \ {0}
  <1>1. segmentList \in Seq(Parts) /\ Len(segmentList) \in Nat /\ DOMAIN segmentList = 1..Len(segmentList)
    BY YencOutputAssumption
  <1>2. \A p \in Parts : \E i \in DOMAIN segmentList : segmentList[i] = p
    BY DEF Parts, ToSet
  <1>3. segmentList \in [DOMAIN segmentList -> Parts]
    BY <1>1
  <1>4. segmentList \in Surjection(DOMAIN segmentList, Parts)
    BY <1>2, <1>3 DEF Surjection
  <1>5. IsFiniteSet(DOMAIN segmentList)
    BY <1>1, FS_Interval
  <1>6. IsFiniteSet(Parts)
    BY <1>4, <1>5, FS_Surjection
  <1>7. \A f \in Files : \E p \in Parts : FileOf[p] = f
    BY DEF Files
  <1> QED
    BY <1>1, <1>2, <1>3, <1>6, <1>7, YencOutputAssumption

(* A writer is idle, or has a part.                                        *)
LEMMA WriterTypes ==
  ASSUME TypeOK, NEW w \in Writers
  PROVE  /\ writer[w].at = "idle" <=> writer[w] = Free
         /\ w \in Busy <=> writer[w].at # "idle"
         /\ w \in Busy => /\ writer[w] \in Working /\ Item(w) \in Parts /\ writer[w].s \in 1..MaxSessions
                          /\ writer[w].at \in {"look", "open", "write", "rename", "close", "decr"}
                          /\ writer[w].file \in {"none", "tmp", "part"}
  <1>1. writer[w] \in Working \/ writer[w] = Free
    BY DEF TypeOK
  <1>2. writer[w] \in Working => writer[w].at # "idle"
    BY DEF Working
  <1>3. Free.at = "idle"
    BY DEF Free
  <1>4. w \in Busy <=> writer[w].at # "idle"
    BY DEF Busy
  <1>5. CASE writer[w] \in Working
    BY <1>2, <1>3, <1>4, <1>5 DEF Working, Item
  <1>6. CASE writer[w] = Free
    BY <1>3, <1>4, <1>6
  <1> QED
    BY <1>1, <1>5, <1>6

(* A writer goes on with its part.                                         *)
LEMMA WriterGoes ==
  ASSUME TypeOK, NEW w \in Writers, w \in Busy, NEW at, NEW file,
         at \in {"look", "open", "write", "rename", "close", "decr"}, file \in {"none", "tmp", "part"}
  PROVE  LET r == [writer[w] EXCEPT !.at = at, !.file = file]
         IN  r \in Working /\ r.at = at /\ r.file = file /\ r.item = Item(w) /\ r.s = writer[w].s
  <1>1. writer[w] \in Working
    BY WriterTypes
  <1> QED
    BY <1>1 DEF Working, Item

LEMMA WriterGoesOn ==
  ASSUME TypeOK, NEW w \in Writers, w \in Busy, NEW at,
         at \in {"look", "open", "write", "rename", "close", "decr"}, Goes(w, at)
  PROVE  /\ writer' \in [Writers -> Working \cup {Free}]
         /\ writer'[w].at = at /\ writer'[w].file = writer[w].file
         /\ writer'[w].item = writer[w].item /\ writer'[w].s = writer[w].s
         /\ \A v \in Writers : v # w => writer'[v] = writer[v]
  <1>1. writer[w] \in Working /\ writer \in [Writers -> Working \cup {Free}]
    BY WriterTypes DEF TypeOK
  <1>2. writer' = [writer EXCEPT ![w] = [writer[w] EXCEPT !.at = at]]
    BY DEF Goes
  <1>3. [writer[w] EXCEPT !.at = at] \in Working
    BY <1>1 DEF Working
  <1> QED
    BY <1>1, <1>2, <1>3 DEF Working

-----------------------------------------------------------------------------
(* What the steps of each part leave alone.                                *)
Close1 == RoundContinues \/ NoProgress \/ StopSeen \/ RoutinesGone \/ waitMerge

LEMMA DownloadKeeps ==
  ASSUME NEW p \in Parts, Download(p)
  PROVE  UNCHANGED <<failed, writer, dv, mg, byCounts, session, ParFiles, part, partTmp, target, targetTmp>>
  BY DEF Download, NoArticle, WriteYencFlag, WriteYencSend, WriteYencCount, GotArticle, flags, queue, ending, runs,
         partFiles, targets

LEMMA WriterKeeps ==
  ASSUME NEW w \in Writers, YencWriter(w)
  PROVE  UNCHANGED <<dl, dv, mg, byCounts, session, ParFiles, target, targetTmp>>
  BY DEF YencWriter, Receive, AlreadyThere, NotThere, OpenTmp, WriteAndFlush, RenameTmp, Close, Fails, Finish, SetFlags,
         flags, queue, ending, runs, partFiles, targets

LEMMA DividerKeeps ==
  ASSUME Divider \/ Close1
  PROVE  UNCHANGED <<flaginYenc, failed, yencQueueCnt, yencChan, writer, mg, session, ParFiles, part, partTmp, target, targetTmp>>
  BY DEF Divider, Scan, RoundContinues, RoundQuits, Close1, NoProgress, StopSeen, RoutinesGone, waitMerge, dvRest, flags, queue,
         runs, partFiles, targets

LEMMA MergeKeeps ==
  ASSUME NEW f \in Files, Merge(f)
  PROVE  UNCHANGED <<dl, flaginYenc, failed, yencQueueCnt, yencChan, writer, dv, byCounts, session, ParFiles, partTmp>>
  BY DEF Merge, MergeStarts, MergeNulls, MergeGivesUpPar, MergeAppends, MergeSynced, MergeDeletes, MergeRenames, MergeFails,
         mgRest, flags, queue, runs

LEMMA AgainKeeps ==
  ASSUME NextSession \/ Restart, TypeOK
  PROVE  /\ UNCHANGED <<ParFiles, part, partTmp, target, targetTmp>>
         /\ session' = session + 1 /\ session' \in 1..MaxSessions /\ session \in 1..MaxSessions
         /\ dl' \in [Parts -> {"todo", "cached"}] /\ flaginYenc' = {} /\ failed' = {}
         /\ dv' = NewRound /\ mg' = Unmerged /\ byCounts' = FALSE
         /\ \/ UNCHANGED <<yencQueueCnt, yencChan, writer>> /\ dv.at = "over"
            \/ yencQueueCnt' = 0 /\ yencChan' = <<>> /\ writer' = [w \in Writers |-> Free]
  <1>1. Again /\ session \in 1..MaxSessions
    BY DEF NextSession, Restart, TypeOK
  <1>2. session' = session + 1 /\ session' \in 1..MaxSessions
    BY <1>1, SegmentFacts DEF Again
  <1>3. dl' \in [Parts -> {"todo", "cached"}]
    BY <1>1 DEF Again, NewSession, ToDo
  <1>4. /\ UNCHANGED <<ParFiles, part, partTmp, target, targetTmp>> /\ flaginYenc' = {} /\ failed' = {}
        /\ dv' = NewRound /\ mg' = Unmerged /\ byCounts' = FALSE
    BY <1>1 DEF Again, NewSession, partFiles, targets
  <1>5. \/ UNCHANGED <<yencQueueCnt, yencChan, writer>> /\ dv.at = "over"
        \/ yencQueueCnt' = 0 /\ yencChan' = <<>> /\ writer' = [w \in Writers |-> Free]
    BY DEF NextSession, Restart, queue
  <1> QED
    BY <1>1, <1>2, <1>3, <1>4, <1>5

(* A step is one of five kinds, or changes nothing.                        *)
LEMMA Kinds ==
  ASSUME [Next]_vars
  PROVE  \/ \E p \in Parts : Download(p)
         \/ \E w \in Writers : YencWriter(w)
         \/ Divider \/ Close1
         \/ \E f \in Files : Merge(f)
         \/ NextSession \/ Restart
         \/ UNCHANGED <<dl, flaginYenc, failed, yencQueueCnt, yencChan, writer, dv, mg, byCounts, session, ParFiles,
                        part, partTmp, target, targetTmp>>
  BY DEF Next, Close1, vars, flags, queue, ending, runs, partFiles, targets

-----------------------------------------------------------------------------
(* Types.                                                                  *)
Doings == {"todo", "cached", "asked", "queueing", "queued", "written", "done", "failed"}

LEMMA DownloadTypes ==
  ASSUME TypeOK, NEW p \in Parts, Download(p)
  PROVE  TypeOK'
  <1>1. /\ dl \in [Parts -> Doings] /\ yencQueueCnt \in Nat /\ yencChan \in Seq(Job) /\ Len(yencChan) <= ChanSize
        /\ flaginYenc \subseteq Parts /\ session \in 1..MaxSessions
    BY DEF TypeOK, Doings
  <1>2. dl' \in [Parts -> Doings]
    BY <1>1 DEF Download, NoArticle, WriteYencFlag, WriteYencSend, WriteYencCount, GotArticle, Step, Doings
  <1>3. flaginYenc' \subseteq Parts
    BY <1>1 DEF Download, NoArticle, WriteYencFlag, WriteYencSend, WriteYencCount, GotArticle, flags
  <1>4. yencQueueCnt' \in Nat
    BY <1>1 DEF Download, NoArticle, WriteYencFlag, WriteYencSend, WriteYencCount, GotArticle, queue
  <1>5. yencChan' \in Seq(Job) /\ Len(yencChan') <= ChanSize
    <2>1. CASE WriteYencSend(p)
      <3>1. [item |-> p, s |-> session] \in Job
        BY <1>1 DEF Job
      <3>2. yencChan' = Append(yencChan, [item |-> p, s |-> session]) /\ Len(yencChan) < ChanSize
        BY <2>1 DEF WriteYencSend
      <3> HIDE DEF Job
      <3> QED
        BY <1>1, <3>1, <3>2, SegmentFacts
    <2>2. CASE ~WriteYencSend(p)
      BY <1>1, <2>2 DEF Download, NoArticle, WriteYencFlag, WriteYencCount, GotArticle, queue
    <2> QED
      BY <2>1, <2>2
  <1> QED
    BY <1>2, <1>3, <1>4, <1>5, DownloadKeeps DEF TypeOK, Doings

LEMMA HeadJob ==
  ASSUME TypeOK, yencChan # <<>>
  PROVE  /\ Head(yencChan) \in Job /\ Head(yencChan) = yencChan[1] /\ 1 \in DOMAIN yencChan
         /\ Tail(yencChan) \in Seq(Job) /\ Len(Tail(yencChan)) = Len(yencChan) - 1
         /\ Len(yencChan) \in Nat \ {0}
         /\ \A i \in DOMAIN Tail(yencChan) : i + 1 \in DOMAIN yencChan /\ Tail(yencChan)[i] = yencChan[i + 1]
  <1>1. yencChan \in Seq(Job)
    BY DEF TypeOK
  <1> QED
    BY <1>1

(* A step of a writer is one of its first steps, or it goes on.            *)
LEMMA ReceiveTypes ==
  ASSUME TypeOK, NEW w \in Writers, Receive(w)
  PROVE  /\ writer' \in [Writers -> Working \cup {Free}] /\ writer[w].at = "idle" /\ yencChan # <<>>
         /\ writer'[w].at = "look" /\ writer'[w].file = "none"
         /\ writer'[w].item = Head(yencChan).item /\ writer'[w].s = Head(yencChan).s
         /\ \A v \in Writers : v # w => writer'[v] = writer[v]
  <1> DEFINE r == [at |-> "look", file |-> "none", item |-> Head(yencChan).item, s |-> Head(yencChan).s]
  <1>1. yencChan # <<>> /\ writer' = [writer EXCEPT ![w] = r] /\ writer[w].at = "idle"
    BY DEF Receive
  <1>2. Head(yencChan) \in Job
    BY <1>1, HeadJob
  <1>3. r \in Working
    BY <1>2 DEF Job, Working
  <1>4. writer \in [Writers -> Working \cup {Free}]
    BY DEF TypeOK
  <1>5. r.at = "look" /\ r.file = "none" /\ r.item = Head(yencChan).item /\ r.s = Head(yencChan).s
    OBVIOUS
  <1> HIDE DEF r
  <1> QED
    BY <1>1, <1>3, <1>4, <1>5

LEMMA OpenTypes ==
  ASSUME TypeOK, NEW w \in Writers, OpenTmp(w)
  PROVE  /\ writer' \in [Writers -> Working \cup {Free}] /\ w \in Busy /\ writer[w].at = "open"
         /\ writer'[w].at = "write" /\ writer'[w].file = "tmp"
         /\ writer'[w].item = writer[w].item /\ writer'[w].s = writer[w].s
         /\ \A v \in Writers : v # w => writer'[v] = writer[v]
  <1>1. writer[w].at = "open" /\ w \in Busy /\ writer' = [writer EXCEPT ![w].at = "write", ![w].file = "tmp"]
    BY WriterTypes DEF OpenTmp
  <1>2. writer[w] \in Working /\ writer \in [Writers -> Working \cup {Free}]
    BY <1>1, WriterTypes DEF TypeOK
  <1> DEFINE r == [writer[w] EXCEPT !.at = "write", !.file = "tmp"]
  <1>3. writer' = [writer EXCEPT ![w] = r]
    BY <1>1
  <1>4. r \in Working /\ r.at = "write" /\ r.file = "tmp" /\ r.item = writer[w].item /\ r.s = writer[w].s
    BY <1>2 DEF Working
  <1> HIDE DEF r
  <1> QED
    BY <1>1, <1>2, <1>3, <1>4

(* The names of the open files move with the rename.                       *)
RenamedFile(v, p) ==
  IF Item(v) # p THEN writer[v].file
  ELSE CASE writer[v].file = "tmp" -> "part" [] writer[v].file = "part" -> "none" [] OTHER -> writer[v].file

LEMMA RenameTypes ==
  ASSUME TypeOK, NEW w \in Writers, RenameTmp(w)
  PROVE  /\ writer' \in [Writers -> Working \cup {Free}] /\ w \in Busy /\ writer[w].at = "rename"
         /\ writer'[w].at = "close"
         /\ \A v \in Writers : v # w => writer'[v].at = writer[v].at
         /\ \A v \in Busy : /\ writer'[v].item = writer[v].item /\ writer'[v].s = writer[v].s
                            /\ writer'[v].file = RenamedFile(v, Item(w))
         /\ \A v \in Writers : v \notin Busy => writer'[v] = writer[v]
  <1> DEFINE p == Item(w)
             Renamed(v) == IF writer[v].at = "idle" \/ Item(v) # p THEN writer[v]
                           ELSE [writer[v] EXCEPT !.file = CASE @ = "tmp" -> "part"
                                                             [] @ = "part" -> "none"
                                                             [] OTHER -> @]
  <1>1. /\ writer[w].at = "rename" /\ w \in Busy
        /\ writer' = [v \in Writers |-> IF v = w THEN [Renamed(w) EXCEPT !.at = "close"] ELSE Renamed(v)]
    BY WriterTypes DEF RenameTmp
  <1>2. ASSUME NEW v \in Busy
        PROVE  /\ Renamed(v) \in Working /\ Renamed(v).at = writer[v].at /\ Renamed(v).file = RenamedFile(v, p)
               /\ Renamed(v).item = writer[v].item /\ Renamed(v).s = writer[v].s
    <2>1. writer[v] \in Working /\ writer[v].at # "idle" /\ writer[v].file \in {"none", "tmp", "part"}
      BY WriterTypes DEF Busy
    <2>2. CASE Item(v) # p
      BY <2>1, <2>2 DEF RenamedFile
    <2>3. CASE Item(v) = p
      <3>1. CASE writer[v].file = "tmp"
        BY <2>1, <2>3, <3>1 DEF RenamedFile, Working
      <3>2. CASE writer[v].file = "part"
        BY <2>1, <2>3, <3>2 DEF RenamedFile, Working
      <3>3. CASE writer[v].file = "none"
        BY <2>1, <2>3, <3>3 DEF RenamedFile, Working
      <3> QED
        BY <2>1, <3>1, <3>2, <3>3
    <2> QED
      BY <2>2, <2>3
  <1>3. ASSUME NEW v \in Writers, v \notin Busy
        PROVE  Renamed(v) = writer[v] /\ writer[v] = Free
    BY <1>3, WriterTypes
  <1> HIDE DEF Renamed, p
  <1> DEFINE r == [Renamed(w) EXCEPT !.at = "close"]
  <1>4. r \in Working /\ r.at = "close" /\ r.file = RenamedFile(w, p) /\ r.item = writer[w].item /\ r.s = writer[w].s
    BY <1>1, <1>2 DEF Working
  <1> HIDE DEF r
  <1>5. writer'[w] = r /\ (\A v \in Writers : v # w => writer'[v] = Renamed(v)) /\ w \in Busy
    BY <1>1 DEF r
  <1>6. writer' \in [Writers -> Working \cup {Free}]
    <2>1. \A v \in Writers : (IF v = w THEN r ELSE Renamed(v)) \in Working \cup {Free}
      BY <1>2, <1>3, <1>4
    <2>2. writer' = [v \in Writers |-> IF v = w THEN r ELSE Renamed(v)]
      BY <1>1 DEF r
    <2> QED
      BY <2>1, <2>2
  <1>7. \A v \in Busy : v \in Writers
    BY DEF Busy
  <1>8. \A v \in Writers : v # w => writer'[v].at = writer[v].at
    BY <1>2, <1>3, <1>5
  <1>9. \A v \in Busy : /\ writer'[v].item = writer[v].item /\ writer'[v].s = writer[v].s
                        /\ writer'[v].file = RenamedFile(v, p)
    BY <1>2, <1>4, <1>5, <1>7
  <1>10. \A v \in Writers : v \notin Busy => writer'[v] = writer[v]
    BY <1>3, <1>5
  <1> QED
    BY <1>1, <1>4, <1>5, <1>6, <1>8, <1>9, <1>10 DEF p

LEMMA WriterStepTypes ==
  ASSUME TypeOK, NEW w \in Writers, YencWriter(w)
  PROVE  TypeOK'
  <1>1. writer' \in [Writers -> Working \cup {Free}]
    <2>1. CASE Receive(w)
      BY <2>1, ReceiveTypes
    <2>2. CASE OpenTmp(w)
      BY <2>2, OpenTypes
    <2>3. CASE RenameTmp(w)
      BY <2>3, RenameTypes
    <2>4. CASE Finish(w)
      <3>1. writer \in [Writers -> Working \cup {Free}] /\ writer' = [writer EXCEPT ![w] = Free]
        BY <2>4 DEF Finish, TypeOK
      <3> HIDE DEF Free, Working
      <3> QED
        BY <3>1
    <2>5. CASE \/ AlreadyThere(w) \/ NotThere(w) \/ WriteAndFlush(w) \/ Close(w) \/ Fails(w)
      <3>1. w \in Busy /\ \E at \in {"look", "open", "write", "rename", "close", "decr"} : Goes(w, at)
        BY <2>5, WriterTypes DEF AlreadyThere, NotThere, WriteAndFlush, Close, Fails
      <3> QED
        BY <3>1, WriterGoesOn
    <2> QED
      BY <2>1, <2>2, <2>3, <2>4, <2>5 DEF YencWriter
  <1>2. yencChan' \in Seq(Job) /\ Len(yencChan') <= ChanSize
    <2>1. CASE Receive(w)
      <3>1. yencChan # <<>> /\ yencChan' = Tail(yencChan)
        BY <2>1 DEF Receive
      <3> QED
        BY <3>1, HeadJob, SegmentFacts DEF TypeOK
    <2>2. CASE ~Receive(w)
      BY <2>2 DEF YencWriter, AlreadyThere, NotThere, OpenTmp, WriteAndFlush, RenameTmp, Close, Fails, Finish, queue, TypeOK
    <2> QED
      BY <2>1, <2>2
  <1>3. yencQueueCnt' \in Nat
    <2>1. yencQueueCnt \in Nat
      BY DEF TypeOK
    <2>2. CASE Finish(w)
      BY <2>1, <2>2 DEF Finish, Decr
    <2>3. CASE ~Finish(w)
      BY <2>1, <2>3 DEF YencWriter, Receive, AlreadyThere, NotThere, OpenTmp, WriteAndFlush, RenameTmp, Close, Fails, queue
    <2> QED
      BY <2>2, <2>3
  <1>4. flaginYenc' \subseteq Parts /\ failed' \subseteq Parts
    <2>1. flaginYenc \subseteq Parts /\ failed \subseteq Parts
      BY DEF TypeOK
    <2>2. CASE SetFlags(w, TRUE) \/ SetFlags(w, FALSE)
      <3>1. CASE AlreadyThere(w) \/ Close(w) \/ Fails(w)
        <4>1. Item(w) \in Parts
          BY <3>1, WriterTypes DEF AlreadyThere, Close, Fails
        <4> QED
          BY <2>1, <2>2, <4>1 DEF SetFlags, flags
      <3>2. CASE ~(AlreadyThere(w) \/ Close(w) \/ Fails(w))
        BY <2>1, <3>2 DEF YencWriter, Receive, NotThere, OpenTmp, WriteAndFlush, RenameTmp, Finish, flags
      <3> QED
        BY <3>1, <3>2
    <2>3. CASE ~(SetFlags(w, TRUE) \/ SetFlags(w, FALSE))
      BY <2>1, <2>3 DEF YencWriter, Receive, AlreadyThere, NotThere, OpenTmp, WriteAndFlush, RenameTmp, Close, Fails, Finish, flags
    <2> QED
      BY <2>2, <2>3
  <1>5. part' \in [Parts -> {"none", "partly", "whole"}] /\ partTmp' \in [Parts -> {"none", "partly", "whole"}]
    <2>1. part \in [Parts -> {"none", "partly", "whole"}] /\ partTmp \in [Parts -> {"none", "partly", "whole"}]
      BY DEF TypeOK
    <2>2. CASE OpenTmp(w)
      BY <2>1, <2>2 DEF OpenTmp
    <2>3. CASE WriteAndFlush(w)
      BY <2>1, <2>3 DEF WriteAndFlush
    <2>4. CASE RenameTmp(w)
      <3>1. Item(w) \in Parts
        BY <2>4, WriterTypes DEF RenameTmp
      <3>2. part' = [part EXCEPT ![Item(w)] = partTmp[Item(w)]] /\ partTmp' = [partTmp EXCEPT ![Item(w)] = "none"]
        BY <2>4 DEF RenameTmp
      <3> QED
        BY <2>1, <3>1, <3>2
    <2> QED
      BY <2>1, <2>2, <2>3, <2>4 DEF YencWriter, Receive, AlreadyThere, NotThere, Close, Fails, Finish, partFiles
  <1> QED
    BY <1>1, <1>2, <1>3, <1>4, <1>5, WriterKeeps DEF TypeOK

LEMMA DividerTypes ==
  ASSUME TypeOK, Divider \/ Close1
  PROVE  TypeOK'
  <1>1. dl \in [Parts -> Doings] /\ byCounts \in BOOLEAN
        /\ dv \in [at : {"scan", "drain", "merge", "over"}, i : 1..Len(segmentList) + 1, busy : BOOLEAN]
    BY DEF TypeOK, Doings
  <1>2. CASE Scan
    <2>1. dv.i \in 1..Len(segmentList) /\ dv.i + 1 \in 1..Len(segmentList) + 1
      BY <1>1, <1>2, SegmentFacts DEF Scan
    <2>2. dl' \in [Parts -> Doings]
      BY <1>1, <1>2 DEF Scan, Doings
    <2>3. dv'.i = dv.i + 1 /\ dv'.at = dv.at /\ dv'.busy \in BOOLEAN
          /\ dv' \in [at : {"scan", "drain", "merge", "over"}, i : 1..Len(segmentList) + 1, busy : BOOLEAN]
      <3> DEFINE b == dv.busy \/ InDL(segmentList[dv.i]) \/ dl[segmentList[dv.i]] = "todo" \/ segmentList[dv.i] \in flaginYenc
      <3>1. b \in BOOLEAN
        OBVIOUS
      <3>2. dv' = [dv EXCEPT !.i = dv.i + 1, !.busy = b]
        BY <1>2 DEF Scan
      <3> HIDE DEF b
      <3> QED
        BY <1>1, <2>1, <3>1, <3>2
    <2>4. UNCHANGED byCounts
      BY <1>2 DEF Scan
    <2> QED
      BY <1>2, <2>2, <2>3, <2>4, DividerKeeps DEF TypeOK, Doings, Divider
  <1>3. CASE ~Scan
    <2>1. dv' = NewRound \/ \E at \in {"drain", "merge", "over"} : dv' = [dv EXCEPT !.at = at]
      BY <1>3 DEF Divider, RoundContinues, RoundQuits, Close1, NoProgress, StopSeen, RoutinesGone, waitMerge
    <2>2. NewRound \in [at : {"scan", "drain", "merge", "over"}, i : 1..Len(segmentList) + 1, busy : BOOLEAN]
      BY SegmentFacts DEF NewRound
    <2>3. dv' \in [at : {"scan", "drain", "merge", "over"}, i : 1..Len(segmentList) + 1, busy : BOOLEAN]
      BY <1>1, <2>1, <2>2
    <2>4. dl' = dl /\ byCounts' \in BOOLEAN
      BY <1>1, <1>3 DEF Divider, RoundContinues, RoundQuits, Close1, NoProgress, StopSeen, RoutinesGone, waitMerge
    <2> QED
      BY <2>3, <2>4, DividerKeeps DEF TypeOK
  <1> QED
    BY <1>2, <1>3

(* The records of the merges, and what a merge does to its .tmp.           *)
MergeAts == {"start", "item", "copy", "delete", "over"}
Merges == [at : MergeAts, i : 0..Len(segmentList) + 1, deleted : BOOLEAN]

LEMMA NextItemTypes ==
  ASSUME TypeOK, NEW f \in Files, NEW del \in BOOLEAN, NextItem(f, del)
  PROVE  /\ mg' \in [Files -> Merges] /\ mg'[f].at = "item" /\ mg'[f].deleted = del
         /\ mg'[f].i \in Places(f) /\ mg'[f].i > mg[f].i /\ \A j \in Places(f) : j > mg[f].i => mg'[f].i <= j
         /\ \A g \in Files : g # f => mg'[g] = mg[g]
  <1>1. mg \in [Files -> Merges]
    BY DEF TypeOK, Merges, MergeAts
  <1>2. PICK i \in Places(f) : /\ i > mg[f].i /\ \A j \in Places(f) : j > mg[f].i => i <= j
                               /\ mg' = [mg EXCEPT ![f] = [at |-> "item", i |-> i, deleted |-> del]]
    BY DEF NextItem
  <1>3. i \in 0..Len(segmentList) + 1
    BY SegmentFacts DEF Places
  <1>4. [at |-> "item", i |-> i, deleted |-> del] \in Merges
    BY <1>3 DEF Merges, MergeAts
  <1> DEFINE r == [at |-> "item", i |-> i, deleted |-> del]
  <1>5. r.at = "item" /\ r.i = i /\ r.deleted = del
    OBVIOUS
  <1> HIDE DEF r, Merges
  <1>6. mg' = [mg EXCEPT ![f] = r] /\ r \in Merges
    BY <1>2, <1>4 DEF r
  <1> QED
    BY <1>1, <1>2, <1>5, <1>6

LEMMA MergeGoesTypes ==
  ASSUME TypeOK, NEW f \in Files, NEW to \in MergeAts, MergeGoes(f, to)
  PROVE  /\ mg' \in [Files -> Merges] /\ mg'[f].at = to /\ mg'[f].deleted = mg[f].deleted /\ mg'[f].i = mg[f].i
         /\ \A g \in Files : g # f => mg'[g] = mg[g]
  <1>1. mg \in [Files -> Merges]
    BY DEF TypeOK, Merges, MergeAts
  <1>2. mg' = [mg EXCEPT ![f] = [mg[f] EXCEPT !.at = to]]
    BY DEF MergeGoes
  <1> DEFINE r == [mg[f] EXCEPT !.at = to]
  <1>3. r \in Merges /\ r.at = to /\ r.deleted = mg[f].deleted /\ r.i = mg[f].i
    BY <1>1 DEF Merges
  <1> HIDE DEF r, Merges
  <1>4. mg' = [mg EXCEPT ![f] = r]
    BY <1>2 DEF r
  <1> QED
    BY <1>1, <1>3, <1>4

(* The item a merge is at is one of its file's.                            *)
LEMMA ItemAtFile ==
  ASSUME NEW f \in Files, mg[f].i \in Places(f), Left(f)
  PROVE  ItemAt(f) \in Parts /\ FileOf[ItemAt(f)] = f /\ mg[f].i \in DOMAIN segmentList
  BY SegmentFacts DEF Places, Left, ItemAt

(* What is appended to a .tmp, and what the copy of a part leaves.         *)
LEMMA AppendFacts ==
  ASSUME NEW S, NEW s \in Seq(S), NEW x \in S
  PROVE  /\ Append(s, x) \in Seq(S) /\ Len(Append(s, x)) = Len(s) + 1 /\ Len(s) \in Nat
         /\ DOMAIN s = 1..Len(s) /\ DOMAIN Append(s, x) = 1..Len(s) + 1
         /\ Append(s, x)[Len(s) + 1] = x /\ \A i \in DOMAIN s : Append(s, x)[i] = s[i]
  OBVIOUS

LEMMA FrontFacts ==
  ASSUME NEW S, NEW s \in Seq(S), s # <<>>
  PROVE  Front(s) \in Seq(S) /\ Len(Front(s)) = Len(s) - 1 /\ Len(s) \in Nat \ {0} /\ DOMAIN s = 1..Len(s)
         /\ \A i \in 1..Len(s) - 1 : Front(s)[i] = s[i]
  <1>1. Len(s) \in Nat \ {0} /\ DOMAIN s = 1..Len(s) /\ \A i \in 1..Len(s) : s[i] \in S
    OBVIOUS
  <1>2. Front(s) = SubSeq(s, 1, Len(s) - 1)
    BY DEF Front
  <1>3. SubSeq(s, 1, Len(s) - 1) \in Seq(S)
    BY <1>1
  <1>4. Len(SubSeq(s, 1, Len(s) - 1)) = Len(s) - 1
    BY <1>1
  <1>5. \A i \in 1..Len(s) - 1 : SubSeq(s, 1, Len(s) - 1)[i] = s[i]
    BY <1>1
  <1> QED
    BY <1>1, <1>2, <1>3, <1>4, <1>5

LEMMA AppendedTypes ==
  ASSUME TypeOK, NEW f \in Files, NEW x \in Pieces, targetTmp' = Appended(f, x)
  PROVE  /\ targetTmp' \in [Files -> Seq(Pieces)] /\ \A g \in Files : g # f => targetTmp'[g] = targetTmp[g]
         /\ targetTmp'[f] # <<>> /\ Len(targetTmp'[f]) = Len(targetTmp[f]) + 1
         /\ targetTmp'[f][Len(targetTmp'[f])] = x
         /\ \A i \in DOMAIN targetTmp[f] : i \in DOMAIN targetTmp'[f] /\ targetTmp'[f][i] = targetTmp[f][i]
  <1>1. targetTmp \in [Files -> Seq(Pieces)] /\ targetTmp[f] \in Seq(Pieces)
    BY DEF TypeOK
  <1> DEFINE s == targetTmp[f]
             t == Append(s, x)
  <1>2. targetTmp' = [targetTmp EXCEPT ![f] = t]
    BY DEF Appended
  <1>3. /\ t \in Seq(Pieces) /\ Len(t) = Len(s) + 1 /\ Len(s) \in Nat /\ DOMAIN s = 1..Len(s) /\ DOMAIN t = 1..Len(s) + 1
        /\ t[Len(s) + 1] = x /\ \A i \in DOMAIN s : t[i] = s[i]
    BY <1>1, AppendFacts
  <1> HIDE DEF Pieces, t
  <1>4. targetTmp'[f] = t /\ targetTmp' \in [Files -> Seq(Pieces)] /\ \A g \in Files : g # f => targetTmp'[g] = targetTmp[g]
    BY <1>1, <1>2, <1>3
  <1> HIDE DEF s
  <1>5. t # <<>> /\ \A i \in DOMAIN s : i \in DOMAIN t
    BY <1>3
  <1> QED
    BY <1>3, <1>4, <1>5 DEF s

LEMMA SyncedTypes ==
  ASSUME TypeOK, NEW f \in Files, NEW x \in Pieces, targetTmp[f] # <<>>,
         targetTmp' = [targetTmp EXCEPT ![f] = Append(Front(@), x)]
  PROVE  /\ targetTmp' \in [Files -> Seq(Pieces)] /\ \A g \in Files : g # f => targetTmp'[g] = targetTmp[g]
         /\ DOMAIN targetTmp'[f] = DOMAIN targetTmp[f]
         /\ Len(targetTmp[f]) \in DOMAIN targetTmp[f]
         /\ targetTmp'[f][Len(targetTmp[f])] = x
         /\ \A i \in DOMAIN targetTmp[f] : i # Len(targetTmp[f]) => targetTmp'[f][i] = targetTmp[f][i]
  <1>1. targetTmp \in [Files -> Seq(Pieces)] /\ targetTmp[f] \in Seq(Pieces)
    BY DEF TypeOK
  <1> DEFINE s == targetTmp[f]
             r == Front(s)
             t == Append(r, x)
  <1>2. /\ r \in Seq(Pieces) /\ Len(r) = Len(s) - 1 /\ Len(s) \in Nat \ {0} /\ DOMAIN s = 1..Len(s)
        /\ \A i \in 1..Len(s) - 1 : r[i] = s[i]
    BY <1>1, FrontFacts
  <1>3. targetTmp' = [targetTmp EXCEPT ![f] = t]
    OBVIOUS
  <1> HIDE DEF Pieces, r
  <1>4. /\ t \in Seq(Pieces) /\ DOMAIN r = 1..Len(r) /\ DOMAIN t = 1..Len(r) + 1
        /\ t[Len(r) + 1] = x /\ \A i \in DOMAIN r : t[i] = r[i]
    BY <1>2, AppendFacts
  <1> HIDE DEF t
  <1>5. targetTmp'[f] = t /\ targetTmp' \in [Files -> Seq(Pieces)] /\ \A g \in Files : g # f => targetTmp'[g] = targetTmp[g]
    BY <1>1, <1>3, <1>4
  <1> HIDE DEF s
  <1>6. DOMAIN t = DOMAIN s /\ Len(s) \in DOMAIN s /\ t[Len(s)] = x /\ \A i \in DOMAIN s : i # Len(s) => t[i] = s[i]
    BY <1>2, <1>4
  <1> QED
    BY <1>5, <1>6 DEF s

LEMMA MergeStepTypes ==
  ASSUME TypeOK, NEW f \in Files, Merge(f),
         mg[f].at \in {"item", "copy", "delete"} => mg[f].i \in Places(f),
         mg[f].at \in {"copy", "delete"} => Left(f),
         mg[f].at = "copy" => targetTmp[f] # <<>>
  PROVE  TypeOK'
  <1>1. mg[f] \in Merges /\ mg[f].deleted \in BOOLEAN /\ FALSE \in BOOLEAN /\ TRUE \in BOOLEAN
    BY DEF TypeOK, Merges, MergeAts
  <1>2. mg' \in [Files -> Merges]
    <2>1. (\E del \in BOOLEAN : NextItem(f, del)) \/ \E to \in MergeAts : MergeGoes(f, to)
      BY <1>1 DEF Merge, MergeStarts, MergeNulls, MergeGivesUpPar, MergeAppends, MergeSynced, MergeDeletes, MergeRenames,
         MergeFails, MergeAts
    <2> QED
      BY <2>1, NextItemTypes, MergeGoesTypes
  <1>3. target \in [Files -> Seq(Pieces)] /\ targetTmp \in [Files -> Seq(Pieces)] /\ NoFile \in Seq(Pieces)
        /\ part \in [Parts -> {"none", "partly", "whole"}]
    BY DEF TypeOK, NoFile
  <1>4. targetTmp' \in [Files -> Seq(Pieces)]
    <2>1. CASE MergeNulls(f) \/ MergeAppends(f)
      <3>1. ItemAt(f) \in Parts
        BY <2>1, ItemAtFile DEF MergeNulls, MergeAppends, Merging, Missing
      <3>2. <<"nulls", ItemAt(f)>> \in Pieces /\ <<"torn", ItemAt(f)>> \in Pieces
        BY <3>1 DEF Pieces
      <3> QED
        BY <2>1, <3>2, AppendedTypes DEF MergeNulls, MergeAppends
    <2>2. CASE MergeSynced(f)
      <3>1. ItemAt(f) \in Parts /\ targetTmp[f] # <<>>
        BY <2>2, ItemAtFile DEF MergeSynced, Merging
      <3>2. <<"part", ItemAt(f)>> \in Pieces
        BY <3>1 DEF Pieces
      <3> QED
        BY <2>2, <3>1, <3>2, SyncedTypes DEF MergeSynced
    <2>3. CASE MergeStarts(f) \/ MergeGivesUpPar(f) \/ MergeDeletes(f) \/ MergeRenames(f) \/ MergeFails(f)
      <3>1. targetTmp' = targetTmp \/ targetTmp' = [targetTmp EXCEPT ![f] = NoFile]
        BY <2>3 DEF MergeStarts, MergeGivesUpPar, MergeDeletes, MergeRenames, MergeFails, targets
      <3> HIDE DEF Pieces
      <3> QED
        BY <1>3, <3>1
    <2> QED
      BY <2>1, <2>2, <2>3 DEF Merge
  <1>5. target' \in [Files -> Seq(Pieces)]
    <2>1. target' = target \/ target' = [target EXCEPT ![f] = targetTmp[f]]
      BY DEF Merge, MergeStarts, MergeNulls, MergeGivesUpPar, MergeAppends, MergeSynced, MergeDeletes, MergeRenames,
         MergeFails, targets
    <2> HIDE DEF Pieces
    <2> QED
      BY <1>3, <2>1
  <1>6. part' \in [Parts -> {"none", "partly", "whole"}]
    <2>1. part' = part \/ part' = [part EXCEPT ![ItemAt(f)] = "none"]
      BY DEF Merge, MergeStarts, MergeNulls, MergeGivesUpPar, MergeAppends, MergeSynced, MergeDeletes, MergeRenames,
         MergeFails
    <2> QED
      BY <1>3, <2>1
  <1> QED
    BY <1>2, <1>4, <1>5, <1>6, MergeKeeps DEF TypeOK, Merges, MergeAts

LEMMA AgainTypes ==
  ASSUME TypeOK, NextSession \/ Restart
  PROVE  TypeOK'
  <1>1. NewRound \in [at : {"scan", "drain", "merge", "over"}, i : 1..Len(segmentList) + 1, busy : BOOLEAN]
    BY SegmentFacts DEF NewRound
  <1>2. Unmerged \in [Files -> Merges]
    BY SegmentFacts DEF Unmerged, Merges, MergeAts
  <1>3. dl' \in [Parts -> Doings] /\ session' \in 1..MaxSessions /\ dv' = NewRound /\ mg' = Unmerged /\ byCounts' = FALSE
        /\ flaginYenc' = {} /\ failed' = {} /\ UNCHANGED <<ParFiles, part, partTmp, target, targetTmp>>
    BY AgainKeeps DEF Doings
  <1>4. yencQueueCnt' \in Nat /\ yencChan' \in Seq(Job) /\ Len(yencChan') <= ChanSize
        /\ writer' \in [Writers -> Working \cup {Free}]
    <2>1. CASE UNCHANGED <<yencQueueCnt, yencChan, writer>>
      BY <2>1 DEF TypeOK
    <2>2. CASE yencQueueCnt' = 0 /\ yencChan' = <<>> /\ writer' = [w \in Writers |-> Free]
      <3>1. <<>> \in Seq(Job) /\ Len(<<>>) = 0
        OBVIOUS
      <3>2. [w \in Writers |-> Free] \in [Writers -> Working \cup {Free}]
        OBVIOUS
      <3> QED
        BY <2>2, <3>1, <3>2, SegmentFacts
    <2> QED
      BY <2>1, <2>2, AgainKeeps
  <1> QED
    BY <1>1, <1>2, <1>3, <1>4 DEF TypeOK, Doings, Merges, MergeAts

-----------------------------------------------------------------------------
(* What a step of a writer does to the channel and to who is busy; busy    *)
(* writers keep their parts.                                               *)
Others(w) ==
  \A v \in Busy : v \in Busy' =>
    /\ writer'[v].item = writer[v].item /\ writer'[v].s = writer[v].s
    /\ v # w => writer'[v].at = writer[v].at

LEMMA StepReceives ==
  ASSUME TypeOK, NEW w \in Writers, Receive(w)
  PROVE  /\ w \notin Busy /\ Busy' = Busy \cup {w} /\ Others(w)
         /\ yencChan # <<>> /\ yencChan' = Tail(yencChan) /\ UNCHANGED yencQueueCnt
         /\ writer'[w].item = Head(yencChan).item /\ writer'[w].s = Head(yencChan).s
         /\ writer'[w].at = "look"
  <1>1. /\ writer[w].at = "idle" /\ writer'[w].at = "look" /\ writer'[w].item = Head(yencChan).item
        /\ writer'[w].s = Head(yencChan).s /\ \A v \in Writers : v # w => writer'[v] = writer[v]
    BY ReceiveTypes
  <1>2. w \notin Busy /\ Busy' = Busy \cup {w}
    BY <1>1 DEF Busy
  <1>3. Others(w)
    BY <1>1, <1>2 DEF Others, Busy
  <1>4. yencChan # <<>> /\ yencChan' = Tail(yencChan) /\ UNCHANGED yencQueueCnt
    BY DEF Receive
  <1> QED
    BY <1>1, <1>2, <1>3, <1>4

LEMMA StepFinishes ==
  ASSUME TypeOK, NEW w \in Writers, Finish(w)
  PROVE  /\ w \in Busy /\ Busy' = Busy \ {w} /\ Others(w)
         /\ UNCHANGED <<yencChan, flaginYenc, failed, part, partTmp>> /\ yencQueueCnt' = Decr(yencQueueCnt)
  <1>1. writer \in [Writers -> Working \cup {Free}] /\ writer[w].at = "decr" /\ writer' = [writer EXCEPT ![w] = Free]
    BY DEF TypeOK, Finish
  <1>2. w \in Busy
    BY <1>1 DEF Busy
  <1>3. Free.at = "idle"
    BY DEF Free
  <1> HIDE DEF Free, Working
  <1>4. writer'[w] = Free /\ \A v \in Writers : v # w => writer'[v] = writer[v]
    BY <1>1
  <1>5. Busy' = Busy \ {w}
    BY <1>3, <1>4 DEF Busy
  <1>6. Others(w)
    BY <1>4, <1>5 DEF Others, Busy
  <1> QED
    BY <1>2, <1>5, <1>6 DEF Finish, flags, partFiles

LEMMA StepGoesOn ==
  ASSUME TypeOK, NEW w \in Writers, YencWriter(w), ~Receive(w), ~Finish(w)
  PROVE  w \in Busy /\ Busy' = Busy /\ Others(w) /\ UNCHANGED <<yencChan, yencQueueCnt>>
  <1>1. UNCHANGED <<yencChan, yencQueueCnt>>
    BY DEF YencWriter, AlreadyThere, NotThere, OpenTmp, WriteAndFlush, RenameTmp, Close, Fails, queue
  <1>2. CASE OpenTmp(w)
    <2>1. /\ w \in Busy /\ writer'[w].at = "write" /\ writer'[w].item = writer[w].item /\ writer'[w].s = writer[w].s
          /\ \A v \in Writers : v # w => writer'[v] = writer[v]
      BY <1>2, OpenTypes
    <2>2. Busy' = Busy
      BY <2>1 DEF Busy
    <2> QED
      BY <1>1, <2>1, <2>2 DEF Others, Busy
  <1>3. CASE RenameTmp(w)
    <2>1. /\ w \in Busy /\ writer'[w].at = "close" /\ \A v \in Writers : v # w => writer'[v].at = writer[v].at
          /\ \A v \in Busy : writer'[v].item = writer[v].item /\ writer'[v].s = writer[v].s
      BY <1>3, RenameTypes
    <2>2. Busy' = Busy
      BY <2>1 DEF Busy
    <2> QED
      BY <1>1, <2>1, <2>2 DEF Others, Busy
  <1>4. CASE ~OpenTmp(w) /\ ~RenameTmp(w)
    <2>1. w \in Busy /\ \E at \in {"look", "open", "write", "rename", "close", "decr"} : Goes(w, at)
      BY <1>4, WriterTypes DEF YencWriter, AlreadyThere, NotThere, WriteAndFlush, Close, Fails
    <2>2. /\ writer'[w].at # "idle" /\ writer'[w].item = writer[w].item /\ writer'[w].s = writer[w].s
          /\ \A v \in Writers : v # w => writer'[v] = writer[v]
      BY <2>1, WriterGoesOn
    <2>3. Busy' = Busy
      BY <2>1, <2>2 DEF Busy
    <2> QED
      BY <1>1, <2>1, <2>2, <2>3 DEF Others, Busy
  <1> QED
    BY <1>2, <1>3, <1>4

-----------------------------------------------------------------------------
(* The count: a part in the channel or in work is counted, or about to be. *)
LEMMA BusyIsNotFree ==
  ASSUME NEW W \in [Writers -> Working \cup {Free}]
  PROVE  {w \in Writers : W[w] # Free} = {w \in Writers : W[w].at # "idle"}
  <1>1. \A r \in Working : r.at # "idle" /\ r # Free
    BY DEF Working, Free
  <1>2. Free.at = "idle"
    BY DEF Free
  <1> HIDE DEF Working, Free
  <1>3. ASSUME NEW w \in Writers PROVE W[w] # Free <=> W[w].at # "idle"
    BY <1>1, <1>2
  <1> QED
    BY <1>3

LEMMA Finite ==
  /\ IsFiniteSet(Busy) /\ IsFiniteSet(Busy') /\ IsFiniteSet(Queued) /\ IsFiniteSet(Queued')
  /\ Cardinality(Busy) \in Nat /\ Cardinality(Busy') \in Nat
  /\ Cardinality(Queued) \in Nat /\ Cardinality(Queued') \in Nat
  <1>1. Busy \subseteq Writers /\ Busy' \subseteq Writers /\ Queued \subseteq Parts /\ Queued' \subseteq Parts
    BY DEF Busy, Queued
  <1> QED
    BY <1>1, SegmentFacts, FS_Subset, FS_CardinalityType

LEMMA Counts ==
  ASSUME TypeOK, TypeOK'
  PROVE  /\ NeverUndercounts <=> Len(yencChan) + Cardinality(Busy) <= yencQueueCnt + Cardinality(Queued)
         /\ NeverUndercounts' <=> Len(yencChan') + Cardinality(Busy') <= yencQueueCnt' + Cardinality(Queued')
         /\ yencQueueCnt \in Nat /\ yencQueueCnt' \in Nat /\ Len(yencChan) \in Nat /\ Len(yencChan') \in Nat
  <1>1. {w \in Writers : writer[w] # Free} = Busy /\ {w \in Writers : writer'[w] # Free} = Busy'
    BY BusyIsNotFree DEF TypeOK, Busy
  <1>2. yencQueueCnt \in Nat /\ yencQueueCnt' \in Nat /\ Len(yencChan) \in Nat /\ Len(yencChan') \in Nat
    BY DEF TypeOK
  <1> QED
    BY <1>1, <1>2 DEF NeverUndercounts, Queued

LEMMA CountKept ==
  ASSUME TypeOK, TypeOK', NeverUndercounts, dv.at \in {"merge", "over"} => \A p \in Parts : ~InDL(p), [Next]_vars
  PROVE  NeverUndercounts'
  <1> DEFINE n == Len(yencChan)  b == Cardinality(Busy)  q == Cardinality(Queued)
  <1>1. n + b <= yencQueueCnt + q /\ yencQueueCnt \in Nat /\ n \in Nat /\ b \in Nat /\ q \in Nat
        /\ yencQueueCnt' \in Nat /\ n' \in Nat /\ b' \in Nat /\ q' \in Nat
    BY Counts, Finite
  <1> SUFFICES n' + b' <= yencQueueCnt' + q'
    BY Counts
  <1>2. ASSUME NEW p \in Parts, Download(p) PROVE n' + b' <= yencQueueCnt' + q'
    <2>1. Busy' = Busy
      BY <1>2, DownloadKeeps DEF Busy
    <2>2. dl \in [Parts -> Doings]
      BY DEF TypeOK, Doings
    <2>3. CASE WriteYencSend(p)
      <3>1. dl[p] = "queueing" /\ dl' = [dl EXCEPT ![p] = "queued"] /\ UNCHANGED yencQueueCnt
            /\ yencChan' = Append(yencChan, [item |-> p, s |-> session])
        BY <2>3 DEF WriteYencSend, Step
      <3>2. Queued' = Queued \cup {p} /\ p \notin Queued
        BY <2>2, <3>1 DEF Queued
      <3>3. q' = q + 1
        BY <3>2, Finite, FS_AddElement
      <3>4. n' = n + 1
        BY <3>1 DEF TypeOK
      <3> QED
        BY <1>1, <2>1, <3>1, <3>3, <3>4
    <2>4. CASE WriteYencCount(p)
      <3>1. dl[p] = "queued" /\ dl' = [dl EXCEPT ![p] = "written"] /\ yencQueueCnt' = yencQueueCnt + 1 /\ UNCHANGED yencChan
        BY <2>4 DEF WriteYencCount, Step
      <3>2. Queued' = Queued \ {p} /\ p \in Queued
        BY <2>2, <3>1 DEF Queued
      <3>3. q' = q - 1
        BY <3>2, Finite, FS_RemoveElement
      <3> HIDE DEF q
      <3> QED
        BY <1>1, <2>1, <3>1, <3>3
    <2>5. CASE NoArticle(p) \/ WriteYencFlag(p) \/ GotArticle(p)
      <3>1. UNCHANGED <<yencChan, yencQueueCnt>> /\ dl[p] # "queued" /\ \E to \in Doings \ {"queued"} : dl' = [dl EXCEPT ![p] = to]
        BY <2>5 DEF NoArticle, WriteYencFlag, GotArticle, Step, queue, Doings
      <3>2. Queued' = Queued
        BY <2>2, <3>1 DEF Queued
      <3> QED
        BY <1>1, <2>1, <3>1, <3>2
    <2> QED
      BY <1>2, <2>3, <2>4, <2>5 DEF Download
  <1>3. ASSUME NEW w \in Writers, YencWriter(w) PROVE n' + b' <= yencQueueCnt' + q'
    <2>1. Queued' = Queued
      BY <1>3, WriterKeeps DEF Queued
    <2>2. CASE Receive(w)
      <3>1. Busy' = Busy \cup {w} /\ w \notin Busy /\ yencChan # <<>> /\ yencChan' = Tail(yencChan) /\ UNCHANGED yencQueueCnt
        BY <2>2, StepReceives
      <3>2. b' = b + 1
        BY <3>1, Finite, FS_AddElement
      <3>3. n' = n - 1
        BY <3>1, HeadJob
      <3> HIDE DEF n, b, q
      <3>4. q' = q
        BY <2>1 DEF q
      <3> QED
        BY <1>1, <3>1, <3>2, <3>3, <3>4
    <2>3. CASE Finish(w)
      <3>1. Busy' = Busy \ {w} /\ w \in Busy /\ UNCHANGED yencChan /\ yencQueueCnt' = Decr(yencQueueCnt)
        BY <2>3, StepFinishes
      <3>2. b' = b - 1
        BY <3>1, Finite, FS_RemoveElement
      <3> HIDE DEF n, b, q
      <3>3. q' = q /\ n' = n
        BY <2>1, <3>1 DEF q, n
      <3> QED
        BY <1>1, <3>1, <3>2, <3>3 DEF Decr
    <2>4. CASE ~Receive(w) /\ ~Finish(w)
      BY <1>1, <1>3, <2>1, <2>4, StepGoesOn
    <2> QED
      BY <2>2, <2>3, <2>4
  <1>4. CASE Divider \/ Close1
    <2>1. UNCHANGED <<yencChan, yencQueueCnt, writer>>
      BY <1>4, DividerKeeps
    <2>2. Queued' = Queued
      <3>1. dl \in [Parts -> Doings]
        BY DEF TypeOK, Doings
      <3>2. dl' = dl \/ \E p \in Parts : dl' = [dl EXCEPT ![p] = IF @ = "todo" THEN "asked" ELSE @]
        BY <1>4, SegmentFacts DEF Divider, Scan, RoundContinues, RoundQuits, Close1, NoProgress, StopSeen, RoutinesGone, waitMerge,
           TypeOK, dvRest
      <3> QED
        BY <3>1, <3>2 DEF Queued
    <2>3. Busy' = Busy
      BY <2>1 DEF Busy
    <2> QED
      BY <1>1, <2>1, <2>2, <2>3
  <1>5. ASSUME NEW f \in Files, Merge(f) PROVE n' + b' <= yencQueueCnt' + q'
    <2>1. UNCHANGED <<yencChan, yencQueueCnt>> /\ Busy' = Busy /\ Queued' = Queued
      BY <1>5, MergeKeeps DEF Busy, Queued
    <2> QED
      BY <1>1, <2>1
  <1>6. CASE NextSession \/ Restart
    <2>1. CASE UNCHANGED <<yencQueueCnt, yencChan, writer>> /\ dv.at = "over"
      <3>1. Queued = {}
        BY <2>1 DEF Queued, InDL
      <3>2. q = 0
        BY <3>1, FS_EmptySet
      <3>3. Busy' = Busy
        BY <2>1 DEF Busy
      <3>4. n' = n /\ b' = b /\ yencQueueCnt' = yencQueueCnt
        BY <2>1, <3>3
      <3> QED
        BY <1>1, <3>2, <3>4
    <2>2. CASE yencQueueCnt' = 0 /\ yencChan' = <<>> /\ writer' = [w \in Writers |-> Free]
      <3>1. Busy' = {}
        BY <2>2 DEF Busy, Free
      <3>2. b' = 0 /\ n' = 0
        BY <2>2, <3>1, FS_EmptySet
      <3>3. yencQueueCnt' = 0
        BY <2>2
      <3> QED
        BY <1>1, <3>2, <3>3
    <2> QED
      BY <1>6, <2>1, <2>2, AgainKeeps
  <1>7. CASE UNCHANGED <<dl, yencQueueCnt, yencChan, writer>>
    <2>1. Busy' = Busy /\ Queued' = Queued
      BY <1>7 DEF Busy, Queued
    <2> QED
      BY <1>1, <1>7, <2>1
  <1> QED
    BY <1>2, <1>3, <1>4, <1>5, <1>6, <1>7, Kinds

-----------------------------------------------------------------------------
(* What a writer does to the flags, and what a scan does to an item.       *)
LEMMA FlagSteps ==
  ASSUME TypeOK, NEW w \in Writers, YencWriter(w)
  PROVE  \/ UNCHANGED <<flaginYenc, failed>>
         \/ /\ w \in Busy /\ Current(w) /\ Item(w) \in Parts /\ flaginYenc' = flaginYenc \ {Item(w)}
            /\ \/ failed' = failed \cup {Item(w)}
               \/ failed' = failed /\ (AlreadyThere(w) \/ Close(w))
  <1>1. CASE AlreadyThere(w) \/ Close(w)
    <2>1. w \in Busy /\ Item(w) \in Parts /\ SetFlags(w, TRUE)
      BY <1>1, WriterTypes DEF AlreadyThere, Close
    <2>2. UNCHANGED <<flaginYenc, failed>> \/ (Current(w) /\ flaginYenc' = flaginYenc \ {Item(w)} /\ failed' = failed)
      <3>1. CASE Current(w)
        BY <2>1, <3>1 DEF SetFlags
      <3>2. CASE ~Current(w)
        BY <2>1, <3>2 DEF SetFlags, flags
      <3> QED
        BY <3>1, <3>2
    <2> QED
      BY <1>1, <2>1, <2>2
  <1>2. CASE Fails(w)
    <2>1. w \in Busy /\ Item(w) \in Parts /\ SetFlags(w, FALSE)
      BY <1>2, WriterTypes DEF Fails
    <2>2. UNCHANGED <<flaginYenc, failed>>
          \/ (Current(w) /\ flaginYenc' = flaginYenc \ {Item(w)} /\ failed' = failed \cup {Item(w)})
      <3>1. CASE Current(w)
        BY <2>1, <3>1 DEF SetFlags
      <3>2. CASE ~Current(w)
        BY <2>1, <3>2 DEF SetFlags, flags
      <3> QED
        BY <3>1, <3>2
    <2> QED
      BY <2>1, <2>2
  <1>3. CASE ~(AlreadyThere(w) \/ Close(w) \/ Fails(w))
    BY <1>3 DEF YencWriter, Receive, NotThere, OpenTmp, WriteAndFlush, RenameTmp, Finish, flags
  <1> QED
    BY <1>1, <1>2, <1>3

LEMMA DividerScans ==
  ASSUME TypeOK, Divider \/ Close1
  PROVE  /\ dl' = dl \/ \E p \in Parts : dl[p] = "todo" /\ dl' = [dl EXCEPT ![p] = "asked"]
         /\ Handed' = Handed
  <1>1. dl \in [Parts -> Doings]
    BY DEF TypeOK, Doings
  <1>2. CASE Scan
    <2> DEFINE p == segmentList[dv.i]
    <2>1. p \in Parts
      BY <1>2, SegmentFacts DEF Scan, TypeOK
    <2>2. dl' = [dl EXCEPT ![p] = IF @ = "todo" THEN "asked" ELSE @]
      BY <1>2 DEF Scan
    <2> HIDE DEF p
    <2>3. dl' = dl \/ (dl[p] = "todo" /\ dl' = [dl EXCEPT ![p] = "asked"])
      <3>1. CASE dl[p] = "todo"
        BY <2>2, <3>1
      <3>2. CASE dl[p] # "todo"
        <4>1. dl' = [dl EXCEPT ![p] = dl[p]]
          BY <2>2, <3>2
        <4> QED
          BY <1>1, <4>1
      <3> QED
        BY <3>1, <3>2
    <2>4. Handed' = Handed
      BY <1>1, <2>1, <2>3 DEF Handed
    <2> QED
      BY <2>1, <2>3, <2>4
  <1>3. CASE ~Scan
    BY <1>3 DEF Divider, RoundContinues, RoundQuits, Close1, NoProgress, StopSeen, RoutinesGone, waitMerge, dvRest, Handed
  <1> QED
    BY <1>2, <1>3

(* How a routine goes on with its item.                                    *)
LEMMA DownloadSteps ==
  ASSUME TypeOK, NEW p \in Parts, Download(p)
  PROVE  /\ Handed \subseteq Handed' /\ flaginYenc \subseteq flaginYenc' /\ InDL(p)
         /\ \A r \in Parts : r # p => dl'[r] = dl[r] /\ (r \in flaginYenc' => r \in flaginYenc)
         /\ dl'[p] = "queueing" => p \in flaginYenc'
         /\ p \in Handed \/ WriteYencSend(p) \/ p \notin Handed'
         /\ WriteYencSend(p) => p \in Handed' /\ dl[p] = "queueing" /\ UNCHANGED flaginYenc
                                /\ yencChan' = Append(yencChan, [item |-> p, s |-> session])
         /\ ~WriteYencSend(p) => UNCHANGED yencChan
  <1>1. dl \in [Parts -> Doings]
    BY DEF TypeOK, Doings
  <1>2. CASE NoArticle(p)
    <2>1. dl[p] = "asked" /\ dl' = [dl EXCEPT ![p] = "failed"] /\ UNCHANGED <<flaginYenc, yencChan>>
      BY <1>2 DEF NoArticle, Step, flags, queue
    <2>2. ~WriteYencSend(p)
      BY <2>1 DEF WriteYencSend, Step
    <2> QED
      BY <1>1, <2>1, <2>2 DEF Handed, InDL
  <1>3. CASE WriteYencFlag(p)
    <2>1. dl[p] = "asked" /\ dl' = [dl EXCEPT ![p] = "queueing"] /\ flaginYenc' = flaginYenc \cup {p} /\ UNCHANGED yencChan
      BY <1>3 DEF WriteYencFlag, Step, queue
    <2>2. ~WriteYencSend(p)
      BY <2>1 DEF WriteYencSend, Step
    <2> QED
      BY <1>1, <2>1, <2>2 DEF Handed, InDL
  <1>4. CASE WriteYencSend(p)
    <2>1. dl[p] = "queueing" /\ dl' = [dl EXCEPT ![p] = "queued"] /\ UNCHANGED flaginYenc
          /\ yencChan' = Append(yencChan, [item |-> p, s |-> session])
      BY <1>4 DEF WriteYencSend, Step, flags
    <2> QED
      BY <1>1, <1>4, <2>1 DEF Handed, InDL
  <1>5. CASE WriteYencCount(p)
    <2>1. dl[p] = "queued" /\ dl' = [dl EXCEPT ![p] = "written"] /\ UNCHANGED <<flaginYenc, yencChan>>
      BY <1>5 DEF WriteYencCount, Step, flags
    <2>2. ~WriteYencSend(p)
      BY <2>1 DEF WriteYencSend, Step
    <2> QED
      BY <1>1, <2>1, <2>2 DEF Handed, InDL
  <1>6. CASE GotArticle(p)
    <2>1. dl[p] = "written" /\ dl' = [dl EXCEPT ![p] = "done"] /\ UNCHANGED <<flaginYenc, yencChan>>
      BY <1>6 DEF GotArticle, Step, flags, queue
    <2>2. ~WriteYencSend(p)
      BY <2>1 DEF WriteYencSend, Step
    <2> QED
      BY <1>1, <2>1, <2>2 DEF Handed, InDL
  <1> QED
    BY <1>2, <1>3, <1>4, <1>5, <1>6 DEF Download

(* A job that is sent is the last one of the channel.                      *)
LEMMA SentJob ==
  ASSUME TypeOK, NEW p \in Parts, yencChan' = Append(yencChan, [item |-> p, s |-> session])
  PROVE  \A i \in DOMAIN yencChan' :
           \/ i \in DOMAIN yencChan /\ yencChan'[i] = yencChan[i]
           \/ i \notin DOMAIN yencChan /\ i = Len(yencChan) + 1 /\ yencChan'[i].item = p /\ yencChan'[i].s = session
              /\ yencChan'[i] = [item |-> p, s |-> session]
  <1> DEFINE j == [item |-> p, s |-> session]
  <1>1. j \in Job /\ j.item = p /\ j.s = session
    BY DEF Job, TypeOK
  <1>2. yencChan \in Seq(Job)
    BY DEF TypeOK
  <1> HIDE DEF j
  <1>3. yencChan' = Append(yencChan, j)
    BY DEF j
  <1> HIDE DEF Job
  <1>4. /\ DOMAIN yencChan = 1..Len(yencChan) /\ DOMAIN Append(yencChan, j) = 1..Len(yencChan) + 1 /\ Len(yencChan) \in Nat
        /\ Append(yencChan, j)[Len(yencChan) + 1] = j
        /\ \A i \in DOMAIN yencChan : Append(yencChan, j)[i] = yencChan[i]
    BY <1>1, <1>2, AppendFacts
  <1>5. \A i \in DOMAIN yencChan' : i \in DOMAIN yencChan \/ (i = Len(yencChan) + 1 /\ i \notin DOMAIN yencChan)
    <2>1. DOMAIN yencChan' = 1..Len(yencChan) + 1
      BY <1>3, <1>4
    <2>2. ASSUME NEW n \in Nat PROVE \A i \in 1..n + 1 : i \in 1..n \/ (i = n + 1 /\ i \notin 1..n)
      OBVIOUS
    <2> QED
      BY <1>4, <2>1, <2>2
  <1> QED
    BY <1>1, <1>3, <1>4, <1>5 DEF j

-----------------------------------------------------------------------------
(* The jobs.                                                               *)
LEMMA JobKept ==
  ASSUME TypeOK, JobInv, [Next]_vars
  PROVE  JobInv'
  <1>1. /\ \A i \in DOMAIN yencChan :
             yencChan[i].s <= session /\ (yencChan[i].s = session => yencChan[i].item \in Handed)
        /\ \A w \in Busy : writer[w].s <= session /\ (writer[w].s = session => writer[w].item \in Handed)
        /\ \A p \in Parts : dl[p] = "queueing" => p \in flaginYenc
    BY DEF JobInv, Current, Item
  <1> SUFFICES /\ \A i \in DOMAIN yencChan' :
                    yencChan'[i].s <= session' /\ (yencChan'[i].s = session' => yencChan'[i].item \in Handed')
               /\ \A w \in Busy' : writer'[w].s <= session' /\ (writer'[w].s = session' => writer'[w].item \in Handed')
               /\ \A p \in Parts : dl'[p] = "queueing" => p \in flaginYenc'
    BY DEF JobInv, Current, Item
  <1>s. session \in Nat /\ session <= session
    BY SegmentFacts DEF TypeOK
  <1>2. ASSUME NEW p \in Parts, Download(p) PROVE JobInv'
    <2>1. UNCHANGED <<writer, session>> /\ Busy' = Busy
      BY <1>2, DownloadKeeps DEF Busy
    <2>2. Handed \subseteq Handed'
      BY <1>2, DownloadSteps
    <2>3. \A i \in DOMAIN yencChan' :
            yencChan'[i].s <= session /\ (yencChan'[i].s = session => yencChan'[i].item \in Handed')
      <3>1. CASE WriteYencSend(p)
        <4>1. p \in Handed' /\ yencChan' = Append(yencChan, [item |-> p, s |-> session])
          BY <1>2, <3>1, DownloadSteps
        <4>2. \A i \in DOMAIN yencChan' :
                \/ i \in DOMAIN yencChan /\ yencChan'[i] = yencChan[i]
                \/ yencChan'[i].item = p /\ yencChan'[i].s = session
          BY <4>1, SentJob
        <4> QED
          BY <1>1, <1>s, <2>2, <4>1, <4>2
      <3>2. CASE ~WriteYencSend(p)
        BY <1>1, <1>2, <2>2, <3>2, DownloadSteps
      <3> QED
        BY <3>1, <3>2
    <2>4. \A r \in Parts : dl'[r] = "queueing" => r \in flaginYenc'
      BY <1>1, <1>2, DownloadSteps
    <2> QED
      BY <1>1, <2>1, <2>2, <2>3, <2>4 DEF JobInv, Current, Item
  <1>3. ASSUME NEW w \in Writers, YencWriter(w) PROVE JobInv'
    <2>1. UNCHANGED <<dl, session>> /\ Handed' = Handed
      BY <1>3, WriterKeeps DEF Handed
    <2>2. \A p \in Parts : dl'[p] = "queueing" => p \in flaginYenc'
      <3>1. flaginYenc' = flaginYenc \/ \E p \in Handed : flaginYenc' = flaginYenc \ {p}
        BY <1>1, <1>3, FlagSteps DEF Current, Item
      <3> QED
        BY <1>1, <2>1, <3>1 DEF Handed
    <2>3. CASE Receive(w)
      <3>1. /\ Busy' = Busy \cup {w} /\ w \notin Busy /\ Others(w) /\ yencChan # <<>> /\ yencChan' = Tail(yencChan)
            /\ writer'[w].item = Head(yencChan).item /\ writer'[w].s = Head(yencChan).s
        BY <2>3, StepReceives
      <3>2. /\ 1 \in DOMAIN yencChan /\ Head(yencChan) = yencChan[1]
            /\ \A i \in DOMAIN yencChan' : i + 1 \in DOMAIN yencChan /\ yencChan'[i] = yencChan[i + 1]
        BY <3>1, HeadJob
      <3>3. \A v \in Busy' : writer'[v].s <= session /\ (writer'[v].s = session => writer'[v].item \in Handed)
        BY <1>1, <3>1, <3>2 DEF Others
      <3>4. \A i \in DOMAIN yencChan' : yencChan'[i].s <= session /\ (yencChan'[i].s = session => yencChan'[i].item \in Handed)
        BY <1>1, <3>2
      <3> QED
        BY <2>1, <2>2, <3>3, <3>4 DEF JobInv, Current, Item
    <2>4. CASE ~Receive(w)
      <3>1. Busy' \subseteq Busy /\ Others(w) /\ UNCHANGED yencChan
        BY <1>3, <2>4, StepFinishes, StepGoesOn
      <3>2. \A v \in Busy' : writer'[v].s <= session /\ (writer'[v].s = session => writer'[v].item \in Handed)
        BY <1>1, <3>1 DEF Others
      <3> QED
        BY <1>1, <2>1, <2>2, <3>1, <3>2 DEF JobInv, Current, Item
    <2> QED
      BY <2>3, <2>4
  <1>4. CASE Divider \/ Close1
    <2>1. UNCHANGED <<yencChan, writer, flaginYenc, session>> /\ Busy' = Busy /\ Handed' = Handed
      BY <1>4, DividerKeeps, DividerScans DEF Busy
    <2>2. \A p \in Parts : dl'[p] = "queueing" => dl[p] = "queueing"
      <3>1. dl \in [Parts -> Doings]
        BY DEF TypeOK, Doings
      <3> QED
        BY <1>4, <3>1, DividerScans
    <2> QED
      BY <1>1, <2>1, <2>2
  <1>5. ASSUME NEW f \in Files, Merge(f) PROVE JobInv'
    BY <1>5, MergeKeeps DEF JobInv, Current, Item, Busy, Handed
  <1>6. CASE NextSession \/ Restart
    <2>1. session' = session + 1 /\ dl' \in [Parts -> {"todo", "cached"}]
      BY <1>6, AgainKeeps
    <2>2. \A p \in Parts : dl'[p] # "queueing"
      BY <2>1
    <2>3. CASE UNCHANGED <<yencQueueCnt, yencChan, writer>>
      <3>1. Busy' = Busy /\ UNCHANGED <<yencChan, writer>>
        BY <2>3 DEF Busy
      <3>2. \A i \in DOMAIN yencChan : yencChan[i].s \in Nat
        <4>1. ASSUME NEW i \in DOMAIN yencChan PROVE yencChan[i].s \in 1..MaxSessions
          <5>1. yencChan[i] \in Job
            BY DEF TypeOK
          <5> QED
            BY <5>1 DEF Job
        <4> QED
          BY <4>1
      <3>3. \A w \in Busy : writer[w].s \in Nat
        BY SegmentFacts, WriterTypes DEF Busy
      <3>4. \A i \in DOMAIN yencChan : yencChan[i].s <= session' /\ yencChan[i].s # session'
        BY <1>1, <1>s, <2>1, <3>2
      <3>5. \A w \in Busy : writer[w].s <= session' /\ writer[w].s # session'
        BY <1>1, <1>s, <2>1, <3>3
      <3> QED
        BY <2>2, <3>1, <3>4, <3>5
    <2>4. CASE yencQueueCnt' = 0 /\ yencChan' = <<>> /\ writer' = [w \in Writers |-> Free]
      <3>1. Busy' = {} /\ DOMAIN yencChan' = {}
        BY <2>4 DEF Busy, Free
      <3> QED
        BY <2>2, <3>1
    <2> QED
      BY <1>6, <2>3, <2>4, AgainKeeps
  <1>7. CASE UNCHANGED <<dl, flaginYenc, failed, yencQueueCnt, yencChan, writer, dv, mg, byCounts, session, ParFiles,
                         part, partTmp, target, targetTmp>>
    BY <1>1, <1>7 DEF Busy, Handed
  <1> QED
    BY <1>2, <1>3, <1>4, <1>5, <1>6, <1>7, Kinds DEF JobInv, Current, Item

-----------------------------------------------------------------------------
(* The rounds. An item at rest stays at rest in its session.               *)
LEMMA RestKept ==
  ASSUME TypeOK, [Next]_vars, ~(NextSession \/ Restart)
  PROVE  \A p \in Parts : AtRest(p) => AtRest(p)' /\ dl'[p] = dl[p]
  <1>1. dl \in [Parts -> Doings]
    BY DEF TypeOK, Doings
  <1>2. ASSUME NEW q \in Parts, Download(q) PROVE \A p \in Parts : AtRest(p) => AtRest(p)' /\ dl'[p] = dl[p]
    BY <1>2, DownloadSteps DEF AtRest, InDL
  <1>3. ASSUME NEW w \in Writers, YencWriter(w) PROVE \A p \in Parts : AtRest(p) => AtRest(p)' /\ dl'[p] = dl[p]
    BY <1>3, WriterKeeps, FlagSteps DEF AtRest
  <1>4. CASE Divider \/ Close1
    <2>1. UNCHANGED flaginYenc
      BY <1>4, DividerKeeps
    <2> QED
      BY <1>1, <1>4, <2>1, DividerScans DEF AtRest
  <1>5. ASSUME NEW f \in Files, Merge(f) PROVE \A p \in Parts : AtRest(p) => AtRest(p)' /\ dl'[p] = dl[p]
    BY <1>5, MergeKeeps DEF AtRest
  <1>6. CASE UNCHANGED <<dl, flaginYenc, failed, yencQueueCnt, yencChan, writer, dv, mg, byCounts, session, ParFiles,
                         part, partTmp, target, targetTmp>>
    BY <1>6 DEF AtRest
  <1> QED
    BY <1>2, <1>3, <1>4, <1>5, <1>6, Kinds

LEMMA SameSession ==
  ASSUME TypeOK, UNCHANGED session
  PROVE  ~(NextSession \/ Restart)
  <1>1. session \in Nat
    BY SegmentFacts DEF TypeOK
  <1>2. session # session + 1
    BY <1>1
  <1> QED
    BY <1>2, AgainKeeps

(* While all is quiet, no routine and no writer has anything to do.        *)
LEMMA QuietRests ==
  ASSUME TypeOK, AllQuiet
  PROVE  /\ \A p \in Parts : ~Download(p) /\ ~InDL(p)
         /\ \A w \in Writers : ~YencWriter(w)
  <1>1. \A p \in Parts : ~InDL(p)
    BY DEF AllQuiet, AtRest, InDL
  <1>2. ASSUME NEW w \in Writers, YencWriter(w) PROVE FALSE
    <2>1. w \notin Busy /\ yencChan = <<>>
      BY DEF AllQuiet
    <2> QED
      BY <1>2, <2>1, StepReceives, StepFinishes, StepGoesOn
  <1> QED
    BY <1>1, <1>2, DownloadSteps

(* A count of nothing, and nobody between the channel and the count.       *)
LEMMA NothingCounted ==
  ASSUME TypeOK, NeverUndercounts, \A p \in Parts : AtRest(p), ~(yencQueueCnt > 0)
  PROVE  AllQuiet
  <1>1. Queued = {}
    BY DEF Queued, AtRest
  <1>2. Cardinality(Queued) = 0
    BY <1>1, FS_EmptySet
  <1>3. {w \in Writers : writer[w] # Free} = Busy
    BY BusyIsNotFree DEF TypeOK, Busy
  <1>4. Len(yencChan) + Cardinality(Busy) <= yencQueueCnt + Cardinality(Queued)
    BY <1>3 DEF NeverUndercounts, Queued
  <1>5. yencQueueCnt = 0 /\ Len(yencChan) \in Nat /\ Cardinality(Busy) \in Nat
    BY Finite DEF TypeOK
  <1>6. Len(yencChan) = 0 /\ Cardinality(Busy) = 0
    BY <1>2, <1>4, <1>5
  <1>7. Busy = {}
    BY <1>6, Finite, FS_EmptySet
  <1>8. yencChan = <<>>
    BY <1>6 DEF TypeOK
  <1> QED
    BY <1>7, <1>8 DEF AllQuiet

(* The round over, everything it passed is at rest.                        *)
LEMMA RoundPassed ==
  ASSUME TypeOK, RoundInv, RoundOver, ~dv.busy
  PROVE  \A p \in Parts : AtRest(p)
  <1>1. dv.at = "scan" /\ dv.i > Len(segmentList) /\ dv.i \in 1..Len(segmentList) + 1
    BY DEF RoundOver, TypeOK
  <1>2. \A i \in DOMAIN segmentList : i < dv.i
    BY <1>1, SegmentFacts
  <1> QED
    BY <1>1, <1>2, SegmentFacts DEF RoundInv

(* Nothing that is not quiet becomes so for a merge: what RoundInv says of *)
(* a step that leaves the divider and the merges where they are.           *)
LEMMA SameRound ==
  ASSUME TypeOK, RoundInv, [Next]_vars, ~(NextSession \/ Restart),
         UNCHANGED <<dv, byCounts>>, \A f \in Files : dv.at # "merge" => mg'[f] = mg[f],
         dv.at \in {"merge", "over"} => \A p \in Parts : ~InDL(p)',
         byCounts => UNCHANGED yencChan /\ Busy' = Busy
  PROVE  RoundInv'
  <1>1. (dv.at \in {"merge", "over"})' => \A p \in Parts : ~InDL(p)'
    OBVIOUS
  <1>2. dv'.at = "scan" /\ ~dv'.busy => \A i \in DOMAIN segmentList : i < dv'.i => AtRest(segmentList[i])'
    BY RestKept, SegmentFacts DEF RoundInv
  <1>3. dv'.at \in {"scan", "drain"} => \A f \in Files : mg'[f].at = "start"
    BY DEF RoundInv
  <1>4. byCounts' => dv'.at # "scan" /\ AllQuiet'
    BY RestKept DEF RoundInv, AllQuiet
  <1> QED
    BY <1>1, <1>2, <1>3, <1>4 DEF RoundInv

LEMMA RoundKept ==
  ASSUME TypeOK, RoundInv, NeverUndercounts, [Next]_vars
  PROVE  RoundInv'
  <1>1. ASSUME NEW p \in Parts, Download(p) PROVE RoundInv'
    <2>1. UNCHANGED <<dv, byCounts, mg, writer>> /\ Busy' = Busy
      BY <1>1, DownloadKeeps DEF Busy
    <2>2. InDL(p) /\ ~(dv.at \in {"merge", "over"}) /\ ~byCounts
      BY <1>1, DownloadSteps, QuietRests DEF RoundInv
    <2>3. ~(NextSession \/ Restart)
      BY <1>1, DownloadKeeps, SameSession
    <2> QED
      BY <2>1, <2>2, <2>3, SameRound
  <1>2. ASSUME NEW w \in Writers, YencWriter(w) PROVE RoundInv'
    <2>1. UNCHANGED <<dv, byCounts, mg, dl, session>>
      BY <1>2, WriterKeeps
    <2>2. ~byCounts
      BY <1>2, QuietRests DEF RoundInv
    <2>3. ~(NextSession \/ Restart)
      BY <2>1, SameSession
    <2>4. dv.at \in {"merge", "over"} => \A p \in Parts : ~InDL(p)'
      BY <2>1 DEF RoundInv, InDL
    <2> QED
      BY <2>1, <2>2, <2>3, <2>4, SameRound
  <1>3. CASE Divider \/ Close1
    <2>1. /\ UNCHANGED <<flaginYenc, yencChan, writer, mg, session>> /\ Busy' = Busy
      BY <1>3, DividerKeeps DEF Busy
    <2>2. ~(NextSession \/ Restart)
      BY <2>1, SameSession
    <2>3. dl \in [Parts -> Doings]
      BY DEF TypeOK, Doings
    <2>4. CASE Scan
      <3> DEFINE p == segmentList[dv.i]
                 b == dv.busy \/ InDL(p) \/ dl[p] = "todo" \/ p \in flaginYenc
      <3>1. /\ dv.at = "scan" /\ dv.i <= Len(segmentList) /\ dv' = [dv EXCEPT !.i = dv.i + 1, !.busy = b]
            /\ UNCHANGED byCounts
        BY <2>4 DEF Scan
      <3>2. dv \in [at : {"scan", "drain", "merge", "over"}, i : 1..Len(segmentList) + 1, busy : BOOLEAN] /\ b \in BOOLEAN
        BY DEF TypeOK
      <3>3. p \in Parts
        BY <3>1, <3>2, SegmentFacts
      <3>4. ~b => AtRest(p) /\ ~dv.busy
        BY <2>3, <3>3 DEF AtRest, InDL, Doings
      <3> HIDE DEF b
      <3>5. dv'.at = "scan" /\ dv'.i = dv.i + 1 /\ dv'.busy = b /\ dv.i \in Nat
        BY <3>1, <3>2, SegmentFacts
      <3>6. ~dv'.busy => \A i \in DOMAIN segmentList : i < dv'.i => AtRest(segmentList[i])
        <4>1. ASSUME ~dv'.busy, NEW i \in DOMAIN segmentList, i < dv'.i PROVE AtRest(segmentList[i])
          <5>1. i < dv.i \/ i = dv.i
            BY <3>5, <4>1, SegmentFacts
          <5>2. AtRest(p) /\ ~dv.busy
            BY <3>4, <3>5, <4>1
          <5> QED
            BY <3>1, <5>1, <5>2 DEF RoundInv
        <4> QED
          BY <4>1
      <3>7. ~dv'.busy => \A i \in DOMAIN segmentList : i < dv'.i => AtRest(segmentList[i])'
        BY <2>2, <3>6, RestKept, SegmentFacts
      <3>8. \A f \in Files : mg'[f].at = "start"
        BY <2>1, <3>1 DEF RoundInv
      <3>9. ~byCounts'
        BY <3>1 DEF RoundInv
      <3> QED
        BY <3>5, <3>7, <3>8, <3>9 DEF RoundInv
    <2>5. CASE RoundContinues
      <3>1. dv' = NewRound /\ UNCHANGED <<byCounts, dl>> /\ dv.at = "scan"
        BY <2>5 DEF RoundContinues, RoundOver
      <3>2. dv'.at = "scan" /\ dv'.i = 1
        BY <3>1 DEF NewRound
      <3>3. \A i \in DOMAIN segmentList : ~(i < dv'.i)
        BY <3>2, SegmentFacts
      <3>4. \A f \in Files : mg'[f].at = "start"
        BY <2>1, <3>1 DEF RoundInv
      <3>5. ~byCounts'
        BY <3>1 DEF RoundInv
      <3> QED
        BY <3>2, <3>3, <3>4, <3>5 DEF RoundInv
    <2>6. CASE RoundQuits
      <3>1. RoundOver /\ ~dv.busy /\ ~(yencQueueCnt > 0) /\ dv' = [dv EXCEPT !.at = "drain"] /\ UNCHANGED dl
        BY <2>6 DEF RoundQuits, InFlight
      <3>2. AllQuiet
        BY <3>1, RoundPassed, NothingCounted
      <3>3. AllQuiet'
        BY <2>1, <3>1, <3>2 DEF AllQuiet, AtRest
      <3>4. dv'.at = "drain" /\ dv.at = "scan"
        BY <3>1 DEF TypeOK, RoundOver
      <3>5. \A f \in Files : mg'[f].at = "start"
        BY <2>1, <3>4 DEF RoundInv
      <3> QED
        BY <3>3, <3>4, <3>5 DEF RoundInv
    <2>7. CASE NoProgress \/ StopSeen
      <3>1. dv.at = "scan" /\ dv' = [dv EXCEPT !.at = "drain"] /\ UNCHANGED byCounts
        BY <2>7 DEF NoProgress, StopSeen, RoundOver, NewRound
      <3>2. dv'.at = "drain"
        BY <3>1 DEF TypeOK
      <3>3. \A f \in Files : mg'[f].at = "start"
        BY <2>1, <3>1 DEF RoundInv
      <3>4. ~byCounts'
        BY <3>1 DEF RoundInv
      <3> QED
        BY <3>2, <3>3, <3>4 DEF RoundInv
    <2>8. CASE RoutinesGone \/ waitMerge
      <3>1. UNCHANGED <<byCounts, dl>> /\ (\A p \in Parts : ~InDL(p))
            /\ \E at \in {"merge", "over"} : dv' = [dv EXCEPT !.at = at]
        BY <2>8 DEF RoutinesGone, waitMerge, dvRest, RoundInv
      <3>2. dv'.at \in {"merge", "over"}
        BY <3>1 DEF TypeOK
      <3>3. \A p \in Parts : ~InDL(p)'
        BY <3>1 DEF InDL
      <3>4. byCounts' => AllQuiet'
        BY <2>1, <3>1 DEF RoundInv, AllQuiet, AtRest
      <3> QED
        BY <3>2, <3>3, <3>4 DEF RoundInv
    <2> QED
      BY <1>3, <2>4, <2>5, <2>6, <2>7, <2>8 DEF Divider, Close1
  <1>4. ASSUME NEW f \in Files, Merge(f) PROVE RoundInv'
    <2>1. UNCHANGED <<dl, flaginYenc, yencChan, writer, dv, byCounts, session>> /\ Busy' = Busy
      BY <1>4, MergeKeeps DEF Busy
    <2>2. ~(NextSession \/ Restart)
      BY <2>1, SameSession
    <2>3. dv.at = "merge"
      BY <1>4 DEF Merge, MergeStarts, MergeNulls, MergeGivesUpPar, MergeAppends, MergeSynced, MergeDeletes, MergeRenames,
         MergeFails, Merging
    <2>4. \A p \in Parts : ~InDL(p)'
      BY <2>1, <2>3 DEF RoundInv, InDL
    <2> QED
      BY <2>1, <2>2, <2>3, <2>4, SameRound
  <1>5. CASE NextSession \/ Restart
    <2>1. dv' = NewRound /\ mg' = Unmerged /\ byCounts' = FALSE
      BY <1>5, AgainKeeps
    <2>2. dv'.at = "scan" /\ dv'.i = 1 /\ \A f \in Files : mg'[f].at = "start"
      BY <2>1 DEF NewRound, Unmerged
    <2>3. \A i \in DOMAIN segmentList : ~(i < dv'.i)
      BY <2>2, SegmentFacts
    <2> QED
      BY <2>1, <2>2, <2>3 DEF RoundInv
  <1>6. CASE UNCHANGED <<dl, flaginYenc, failed, yencQueueCnt, yencChan, writer, dv, mg, byCounts, session, ParFiles,
                         part, partTmp, target, targetTmp>>
    BY <1>6 DEF RoundInv, AllQuiet, AtRest, InDL, Busy
  <1> QED
    BY <1>1, <1>2, <1>3, <1>4, <1>5, <1>6, Kinds

-----------------------------------------------------------------------------
(* The decoded parts: a writer's step takes no part file away, and a part  *)
(* whose flag it lowers is there, or failed.                               *)
LEMMA PartSteps ==
  ASSUME TypeOK, NEW w \in Writers, YencWriter(w)
  PROVE  /\ \A p \in Parts : part[p] # "none" => part'[p] # "none"
         /\ w \in Busy' /\ writer'[w].at = "close" => RenameTmp(w) /\ Item(w) \in Parts /\ part'[Item(w)] # "none"
  <1>1. part \in [Parts -> {"none", "partly", "whole"}]
    BY DEF TypeOK
  <1>2. CASE RenameTmp(w)
    <2>1. Item(w) \in Parts /\ partTmp[Item(w)] # "none" /\ part' = [part EXCEPT ![Item(w)] = partTmp[Item(w)]]
      BY <1>2, WriterTypes, RenameTypes DEF RenameTmp
    <2> QED
      BY <1>1, <1>2, <2>1
  <1>3. CASE WriteAndFlush(w)
    <2>1. w \in Busy /\ Goes(w, "rename") /\ part' = [part EXCEPT ![Item(w)] = IF writer[w].file = "part" THEN "whole" ELSE @]
      BY <1>3, WriterTypes DEF WriteAndFlush
    <2>2. writer'[w].at = "rename"
      BY <2>1, WriterGoesOn
    <2> QED
      BY <1>1, <2>1, <2>2
  <1>4. CASE ~RenameTmp(w) /\ ~WriteAndFlush(w)
    <2>1. part' = part
      BY <1>4 DEF YencWriter, Receive, AlreadyThere, NotThere, OpenTmp, Close, Fails, Finish, partFiles
    <2>2. ~(w \in Busy' /\ writer'[w].at = "close")
      <3>1. CASE Receive(w)
        BY <3>1, StepReceives
      <3>2. CASE Finish(w)
        BY <3>2, StepFinishes
      <3>3. CASE OpenTmp(w)
        BY <3>3, OpenTypes
      <3>4. CASE AlreadyThere(w) \/ NotThere(w) \/ Close(w) \/ Fails(w)
        <4>1. w \in Busy /\ \E at \in {"decr", "open"} : Goes(w, at)
          BY <3>4, WriterTypes DEF AlreadyThere, NotThere, Close, Fails
        <4>2. writer'[w].at # "close"
          BY <4>1, WriterGoesOn
        <4> QED
          BY <4>2
      <3> QED
        BY <1>4, <3>1, <3>2, <3>3, <3>4 DEF YencWriter
    <2> QED
      BY <2>1, <2>2
  <1> QED
    BY <1>2, <1>3, <1>4

(* What a step of the merge of a file leaves to the other files.           *)
LEMMA MergeSteps ==
  ASSUME TypeOK, MergeInv, NEW f \in Files, Merge(f)
  PROVE  /\ mg'[f].at # "start" /\ dv.at = "merge"
         /\ \A g \in Files : g # f => mg'[g] = mg[g] /\ target'[g] = target[g] /\ targetTmp'[g] = targetTmp[g]
         /\ \A p \in Parts : FileOf[p] # f => part'[p] = part[p]
  <1>1. target \in [Files -> Seq(Pieces)] /\ targetTmp \in [Files -> Seq(Pieces)] /\ part \in [Parts -> {"none", "partly", "whole"}]
    BY DEF TypeOK
  <1>2. dv.at = "merge"
    BY DEF Merge, MergeStarts, MergeNulls, MergeGivesUpPar, MergeAppends, MergeSynced, MergeDeletes, MergeRenames,
       MergeFails, Merging
  <1>3. mg'[f].at # "start" /\ \A g \in Files : g # f => mg'[g] = mg[g]
    <2>1. mg[f].deleted \in BOOLEAN
      BY DEF TypeOK
    <2>2. (\E del \in BOOLEAN : NextItem(f, del)) \/ \E to \in MergeAts \ {"start"} : MergeGoes(f, to)
      BY <2>1 DEF Merge, MergeStarts, MergeNulls, MergeGivesUpPar, MergeAppends, MergeSynced, MergeDeletes, MergeRenames,
         MergeFails, MergeAts
    <2> QED
      BY <2>2, NextItemTypes, MergeGoesTypes
  <1>4. \A g \in Files : g # f => target'[g] = target[g]
    <2>1. target' = target \/ target' = [target EXCEPT ![f] = targetTmp[f]]
      BY DEF Merge, MergeStarts, MergeNulls, MergeGivesUpPar, MergeAppends, MergeSynced, MergeDeletes, MergeRenames,
         MergeFails, targets
    <2> QED
      BY <1>1, <2>1
  <1>5. \A g \in Files : g # f => targetTmp'[g] = targetTmp[g]
    <2>1. targetTmp' = targetTmp \/ \E x : targetTmp' = [targetTmp EXCEPT ![f] = x]
      <3>1. CASE MergeNulls(f) \/ MergeAppends(f)
        BY <3>1 DEF MergeNulls, MergeAppends, Appended
      <3>2. CASE ~(MergeNulls(f) \/ MergeAppends(f))
        BY <3>2 DEF Merge, MergeStarts, MergeGivesUpPar, MergeSynced, MergeDeletes, MergeRenames, MergeFails, targets
      <3> QED
        BY <3>1, <3>2
    <2> QED
      BY <1>1, <2>1
  <1>6. \A p \in Parts : FileOf[p] # f => part'[p] = part[p]
    <2>1. CASE MergeDeletes(f)
      <3>1. part' = [part EXCEPT ![ItemAt(f)] = "none"] /\ mg[f].at = "delete"
        BY <2>1 DEF MergeDeletes, Merging
      <3>2. FileOf[ItemAt(f)] = f
        BY <3>1, ItemAtFile DEF MergeInv, MergeAt
      <3> QED
        BY <1>1, <3>1, <3>2
    <2>2. CASE ~MergeDeletes(f)
      BY <2>2 DEF Merge, MergeStarts, MergeNulls, MergeGivesUpPar, MergeAppends, MergeSynced, MergeRenames, MergeFails
    <2> QED
      BY <2>1, <2>2
  <1> QED
    BY <1>2, <1>3, <1>4, <1>5, <1>6

LEMMA DecodedKept ==
  ASSUME TypeOK, JobInv, DecodedInv, MergeInv, [Next]_vars
  PROVE  DecodedInv'
  <1>1. /\ \A p \in Handed : mg[FileOf[p]].at = "start" /\ p \notin flaginYenc /\ p \notin failed => part[p] # "none"
        /\ \A w \in Busy : writer[w].s = session /\ writer[w].at = "close" /\ mg[FileOf[writer[w].item]].at = "start"
             => part[writer[w].item] # "none"
        /\ Handed \subseteq Parts
    BY DEF DecodedInv, Current, Item, Handed
  <1> SUFFICES
        /\ \A p \in Handed' : mg'[FileOf[p]].at = "start" /\ p \notin flaginYenc' /\ p \notin failed' => part'[p] # "none"
        /\ \A w \in Busy' : writer'[w].s = session' /\ writer'[w].at = "close" /\ mg'[FileOf[writer'[w].item]].at = "start"
             => part'[writer'[w].item] # "none"
    BY DEF DecodedInv, Current, Item
  <1>2. ASSUME NEW p \in Parts, Download(p) PROVE DecodedInv'
    <2>1. UNCHANGED <<failed, writer, mg, session, part>> /\ Busy' = Busy
      BY <1>2, DownloadKeeps DEF Busy
    <2>2. flaginYenc \subseteq flaginYenc'
      BY <1>2, DownloadSteps
    <2>3. \A r \in Handed' : r \in Handed \/ r \in flaginYenc'
      <3>1. \A r \in Parts : r # p /\ r \in Handed' => r \in Handed
        BY <1>2, DownloadSteps DEF Handed
      <3>2. p \in Handed' => p \in Handed \/ p \in flaginYenc'
        BY <1>2, DownloadSteps DEF JobInv
      <3>3. Handed' \subseteq Parts
        BY DEF Handed
      <3> QED
        BY <3>1, <3>2, <3>3
    <2>4. \A r \in Handed' : mg'[FileOf[r]].at = "start" /\ r \notin flaginYenc' /\ r \notin failed' => part'[r] # "none"
      BY <1>1, <2>1, <2>2, <2>3
    <2> QED
      BY <1>1, <2>1, <2>4 DEF DecodedInv, Current, Item
  <1>3. ASSUME NEW w \in Writers, YencWriter(w) PROVE DecodedInv'
    <2>1. UNCHANGED <<dl, mg, session>> /\ Handed' = Handed
      BY <1>3, WriterKeeps DEF Handed
    <2>2. \A p \in Parts : part[p] # "none" => part'[p] # "none"
      BY <1>3, PartSteps
    <2>3. \A p \in Handed : mg[FileOf[p]].at = "start" /\ p \notin flaginYenc' /\ p \notin failed' => part'[p] # "none"
      <3>1. CASE UNCHANGED <<flaginYenc, failed>>
        BY <1>1, <2>2, <3>1
      <3>2. CASE /\ w \in Busy /\ Current(w) /\ Item(w) \in Parts /\ flaginYenc' = flaginYenc \ {Item(w)}
                 /\ failed' = failed \cup {Item(w)}
        BY <1>1, <2>2, <3>2
      <3>3. CASE /\ w \in Busy /\ Current(w) /\ Item(w) \in Parts /\ flaginYenc' = flaginYenc \ {Item(w)}
                 /\ failed' = failed /\ (AlreadyThere(w) \/ Close(w))
        <4>1. mg[FileOf[Item(w)]].at = "start" => part[Item(w)] # "none"
          <5>1. CASE AlreadyThere(w)
            BY <5>1 DEF AlreadyThere
          <5>2. CASE Close(w)
            BY <1>1, <3>3, <5>2 DEF Close, Current, Item
          <5> QED
            BY <3>3, <5>1, <5>2
        <4> QED
          BY <1>1, <2>2, <3>3, <4>1
      <3> QED
        BY <1>3, <3>1, <3>2, <3>3, FlagSteps
    <2>4. ASSUME NEW v \in Busy', writer'[v].s = session, writer'[v].at = "close", mg[FileOf[writer'[v].item]].at = "start"
          PROVE  part'[writer'[v].item] # "none"
      <3>1. CASE v = w
        <4>1. RenameTmp(w) /\ part'[Item(w)] # "none"
          BY <1>3, <2>4, <3>1, PartSteps
        <4>2. writer'[w].item = Item(w)
          BY <4>1, RenameTypes DEF Item
        <4> QED
          BY <3>1, <4>1, <4>2
      <3>2. CASE v # w
        <4>1. Busy' \subseteq Busy \cup {w} /\ Others(w)
          BY <1>3, StepReceives, StepFinishes, StepGoesOn
        <4>2. v \in Busy /\ v \in Writers
          BY <3>2, <4>1, <2>4 DEF Busy
        <4>3. writer'[v].item = writer[v].item /\ writer'[v].s = writer[v].s /\ writer'[v].at = writer[v].at
          BY <2>4, <3>2, <4>1, <4>2 DEF Others
        <4>4. writer[v].item \in Parts
          BY <4>2, WriterTypes DEF Item
        <4> QED
          BY <1>1, <2>2, <2>4, <4>2, <4>3, <4>4
      <3> QED
        BY <3>1, <3>2
    <2> QED
      BY <2>1, <2>3, <2>4 DEF DecodedInv, Current, Item
  <1>4. CASE Divider \/ Close1
    BY <1>1, <1>4, DividerKeeps, DividerScans DEF Busy
  <1>5. ASSUME NEW f \in Files, Merge(f) PROVE DecodedInv'
    <2>1. UNCHANGED <<dl, flaginYenc, failed, writer, session>> /\ Busy' = Busy /\ Handed' = Handed
      BY <1>5, MergeKeeps DEF Busy, Handed
    <2>2. ASSUME NEW p \in Parts, mg'[FileOf[p]].at = "start" PROVE mg[FileOf[p]].at = "start" /\ part'[p] = part[p]
      <3>1. FileOf[p] \in Files
        BY DEF Files
      <3> QED
        BY <1>5, <2>2, <3>1, MergeSteps
    <2>3. \A w \in Busy : writer[w].item \in Parts
      BY WriterTypes DEF Item, Busy
    <2> QED
      BY <1>1, <2>1, <2>2, <2>3 DEF DecodedInv, Current, Item
  <1>6. CASE NextSession \/ Restart
    <2>1. session' = session + 1 /\ dl' \in [Parts -> {"todo", "cached"}] /\ session \in Nat
      <3>1. session' = session + 1 /\ dl' \in [Parts -> {"todo", "cached"}] /\ session \in 1..MaxSessions
        BY <1>6, AgainKeeps
      <3> QED
        BY <3>1, SegmentFacts
    <2>2. Handed' = {}
      BY <2>1 DEF Handed
    <2>3. \A w \in Busy' : writer'[w].s # session'
      <3>1. CASE UNCHANGED <<yencQueueCnt, yencChan, writer>>
        <4>1. Busy' = Busy /\ UNCHANGED writer
          BY <3>1 DEF Busy
        <4>2. \A w \in Busy : writer[w].s \in Nat /\ writer[w].s <= session
          BY SegmentFacts, WriterTypes DEF JobInv, Busy
        <4>3. \A w \in Busy : writer[w].s # session'
          BY <2>1, <4>2
        <4> QED
          BY <4>1, <4>3
      <3>2. CASE yencQueueCnt' = 0 /\ yencChan' = <<>> /\ writer' = [w \in Writers |-> Free]
        BY <3>2 DEF Busy, Free
      <3> QED
        BY <1>6, <3>1, <3>2, AgainKeeps
    <2> QED
      BY <2>2, <2>3
  <1>7. CASE UNCHANGED <<dl, flaginYenc, failed, yencQueueCnt, yencChan, writer, dv, mg, byCounts, session, ParFiles,
                         part, partTmp, target, targetTmp>>
    BY <1>1, <1>7 DEF Busy, Handed
  <1> QED
    BY <1>2, <1>3, <1>4, <1>5, <1>6, <1>7, Kinds DEF DecodedInv, Current, Item

-----------------------------------------------------------------------------
(* The merges. What the steps of others leave of what is said of a merge.  *)
LEMMA MergeFrame ==
  ASSUME NEW f \in Files, MergeAt(f), UNCHANGED <<mg[f], target[f], targetTmp[f], ParFiles>>,
         byCounts' /\ mg[f].at \in {"item", "copy", "delete"} =>
           byCounts /\ \A p \in FileItems(f) : (dl'[p] = "done" /\ p \notin failed') => Wanted(p),
         \A p \in FileItems(f) : part[p] # "none" => part'[p] # "none"
  PROVE  MergeAt(f)'
  <1>1. \A p \in FileItems(f) : FileOf[p] = f /\ p \in Parts
    BY DEF FileItems
  <1>2. \A p \in FileItems(f) : (InTmp(p) => InTmp(p)') /\ (Ahead(p) => Ahead(p)')
    BY <1>1 DEF InTmp, Ahead
  <1>3. mg[f].at = "delete" => InTmp(ItemAt(f))'
    <2>1. ASSUME mg[f].at = "delete" PROVE FileOf[ItemAt(f)] = f
      BY <2>1, ItemAtFile DEF MergeAt
    <2> QED
      BY <2>1 DEF MergeAt, InTmp, ItemAt
  <1>4. ASSUME byCounts', mg[f].at \in {"item", "copy", "delete"}, ~mg[f].deleted, NEW p \in FileItems(f), Wanted(p)'
        PROVE  (InTmp(p) \/ Ahead(p))'
    <2>1. byCounts /\ Wanted(p)
      BY <1>4 DEF Wanted
    <2> QED
      BY <1>2, <1>4, <2>1 DEF MergeAt
  <1> QED
    BY <1>3, <1>4 DEF MergeAt, Left, ItemAt

(* A merge that is over.                                                   *)
LEMMA MergeOver ==
  ASSUME TypeOK, NEW f \in Files, MergeAt(f), MergeGoes(f, "over"), UNCHANGED ParFiles
  PROVE  MergeAt(f)'
  <1>1. mg'[f].at = "over" /\ mg'[f].deleted = mg[f].deleted
    BY MergeGoesTypes DEF MergeAts
  <1> QED
    BY <1>1 DEF MergeAt

(* On to the next item of the file: the places after this one.             *)
LEMMA OnToNext ==
  ASSUME TypeOK, NEW f \in Files, NEW del \in BOOLEAN, NextItem(f, del),
         NEW p \in FileItems(f), NEW j \in DOMAIN segmentList, segmentList[j] = p, j >= mg[f].i,
         mg[f].i \in Places(f) => p # ItemAt(f)
  PROVE  mg[f].i \in Places(f) \/ mg[f].i = 0 => j >= mg'[f].i
  <1>1. j \in Places(f)
    BY DEF Places, FileItems
  <1>2. mg[f].i \in Places(f) => j # mg[f].i
    BY DEF ItemAt
  <1>3. j \in Nat \ {0} /\ Places(f) \subseteq Nat
    BY SegmentFacts DEF Places
  <1>4. ASSUME mg[f].i \in Places(f) \/ mg[f].i = 0 PROVE j > mg[f].i
    BY <1>2, <1>3, <1>4
  <1>5. ASSUME mg[f].i \in Places(f) \/ mg[f].i = 0 PROVE j >= mg'[f].i
    <2>1. mg'[f].i \in Places(f) /\ mg'[f].i <= j
      BY <1>1, <1>4, <1>5, NextItemTypes
    <2> QED
      BY <1>3, <2>1
  <1> QED
    BY <1>5

(* An item is passed: what was in the .tmp stays there, and the item       *)
(* itself is there too, or was not wanted.                                 *)
LEMMA ItemPassed ==
  ASSUME TypeOK, NEW f \in Files, MergeAt(f), mg[f].at \in {"item", "copy", "delete"}, UNCHANGED <<dl, failed, byCounts, ParFiles, target>>,
         NEW del \in BOOLEAN, NextItem(f, del), del => f \in ParFiles, mg[f].deleted => del,
         \A p \in FileItems(f) : InTmp(p) => InTmp(p)',
         NEW r, r = ItemAt(f), \A p \in FileItems(f) : p # r => part'[p] = part[p],
         Left(f) => (InTmp(r)' \/ part[r] = "none")
  PROVE  MergeAt(f)'
  <1>1. mg[f].i \in Places(f) /\ target[f] = NoFile
    BY DEF MergeAt
  <1>2. mg'[f].at = "item" /\ mg'[f].i \in Places(f) /\ mg'[f].deleted = del
    BY NextItemTypes
  <1>3. ASSUME byCounts', ~del, NEW p \in FileItems(f), Wanted(p)' PROVE (InTmp(p) \/ Ahead(p))'
    <2>1. InTmp(p) \/ Ahead(p)
      BY <1>3 DEF MergeAt, Wanted
    <2>2. CASE InTmp(p)
      BY <1>3, <2>2
    <2>3. CASE Ahead(p)
      <3>1. FileOf[p] = f
        BY <1>3 DEF FileItems
      <3>2. PICK j \in DOMAIN segmentList : j >= mg[f].i /\ segmentList[j] = p /\ part[p] # "none"
        BY <2>3, <3>1 DEF Ahead
      <3>3. CASE p = r
        <4>1. Left(f)
          BY <1>1, <3>2, SegmentFacts DEF Left, Places
        <4> QED
          BY <3>2, <3>3, <4>1
      <3>4. CASE p # r
        <4>1. j >= mg'[f].i
          BY <1>1, <1>3, <3>2, <3>4, OnToNext
        <4>2. part'[p] # "none"
          BY <1>3, <3>2, <3>4
        <4> QED
          BY <3>1, <3>2, <4>1, <4>2 DEF Ahead
      <3> QED
        BY <3>3, <3>4
    <2> QED
      BY <2>1, <2>2, <2>3
  <1> QED
    BY <1>1, <1>2, <1>3 DEF MergeAt

(* An item with the step its merge is at.                                  *)
LEMMA MergeStepKept ==
  ASSUME TypeOK, MergeInv, DecodedInv, RoundInv, NEW f \in Files, Merge(f)
  PROVE  MergeAt(f)'
  <1>k. UNCHANGED <<dl, failed, byCounts, ParFiles>> /\ mg[f].deleted \in BOOLEAN /\ MergeAt(f)
    BY MergeKeeps DEF TypeOK, MergeInv
  <1>i. \A p \in FileItems(f) : FileOf[p] = f /\ p \in Parts
    BY DEF FileItems
  <1>r. PICK r : r = ItemAt(f)
    OBVIOUS
  <1>1. CASE MergeStarts(f) /\ target[f] = NoFile
    <2>1. NextItem(f, FALSE) /\ UNCHANGED <<part, target, targetTmp>> /\ mg[f].at = "start" /\ mg[f].i = 0
      BY <1>1, <1>k DEF MergeStarts, targets, Merging, MergeAt
    <2>2. mg'[f].at = "item" /\ mg'[f].i \in Places(f) /\ mg'[f].deleted = FALSE
      BY <2>1, NextItemTypes
    <2>3. ASSUME byCounts, NEW p \in FileItems(f), Wanted(p)' PROVE Ahead(p)'
      <3>1. p \in Handed /\ p \notin flaginYenc /\ p \notin failed
        BY <1>i, <1>k, <2>3 DEF Wanted, Handed, RoundInv, AllQuiet, AtRest
      <3>2. part[p] # "none"
        BY <1>i, <2>1, <3>1 DEF DecodedInv
      <3>3. PICK j \in DOMAIN segmentList : segmentList[j] = p
        BY <1>i, SegmentFacts
      <3>4. 0 \notin Places(f) /\ j >= 0
        BY SegmentFacts DEF Places
      <3>5. j >= mg'[f].i
        BY <2>1, <3>3, <3>4, OnToNext
      <3> QED
        BY <1>i, <2>1, <3>2, <3>3, <3>5 DEF Ahead
    <2> QED
      BY <1>1, <1>k, <2>1, <2>2, <2>3 DEF MergeAt
  <1>2. CASE MergeStarts(f) /\ target[f] # NoFile
    BY <1>2, <1>k, MergeOver DEF MergeStarts
  <1>3. CASE MergeNulls(f)
    <2>1. /\ mg[f].at = "item" /\ Missing(f) /\ f \notin ParFiles /\ NextItem(f, FALSE)
          /\ targetTmp' = Appended(f, <<"nulls", ItemAt(f)>>) /\ UNCHANGED <<part, target>>
      BY <1>3 DEF MergeNulls, Merging
    <2>2. ItemAt(f) \in Parts /\ ~mg[f].deleted
      BY <1>k, <2>1, ItemAtFile DEF MergeAt, Missing
    <2>3. <<"nulls", ItemAt(f)>> \in Pieces
      BY <2>2 DEF Pieces
    <2>4. \A p \in FileItems(f) : InTmp(p) => InTmp(p)'
      <3>1. targetTmp' = Appended(f, <<"nulls", ItemAt(f)>>)
        BY <2>1
      <3>2. \A i \in DOMAIN targetTmp[f] : i \in DOMAIN targetTmp'[f] /\ targetTmp'[f][i] = targetTmp[f][i]
        BY <2>3, <3>1, AppendedTypes
      <3> QED
        BY <1>i, <3>2 DEF InTmp
    <2>5. part[r] = "none"
      BY <1>r, <2>1 DEF Missing
    <2> QED
      BY <1>k, <1>r, <2>1, <2>2, <2>4, <2>5, ItemPassed
  <1>4. CASE MergeGivesUpPar(f)
    <2>1. /\ mg[f].at = "item" /\ f \in ParFiles /\ NextItem(f, TRUE) /\ UNCHANGED target
      BY <1>4 DEF MergeGivesUpPar, Merging
    <2>2. mg'[f].at = "item" /\ mg'[f].i \in Places(f) /\ mg'[f].deleted = TRUE
      BY <2>1, NextItemTypes
    <2> QED
      BY <1>k, <2>1, <2>2 DEF MergeAt
  <1>5. CASE MergeAppends(f)
    <2>1. /\ mg[f].at = "item" /\ Left(f) /\ MergeGoes(f, "copy") /\ UNCHANGED <<part, target>>
          /\ targetTmp' = Appended(f, <<"torn", ItemAt(f)>>)
      BY <1>5 DEF MergeAppends, Merging
    <2>2. mg'[f].at = "copy" /\ mg'[f].i = mg[f].i /\ mg'[f].deleted = mg[f].deleted
      BY <2>1, MergeGoesTypes DEF MergeAts
    <2>3. ItemAt(f) \in Parts
      BY <1>k, <2>1, ItemAtFile DEF MergeAt
    <2>4. <<"torn", ItemAt(f)>> \in Pieces
      BY <2>3 DEF Pieces
    <2>5. targetTmp'[f] # <<>> /\ targetTmp'[f][Len(targetTmp'[f])] = <<"torn", ItemAt(f)>>
      BY <2>1, <2>4, AppendedTypes
    <2>6. \A p \in FileItems(f) : (InTmp(p) => InTmp(p)') /\ (Ahead(p) => Ahead(p)')
      <3>1. \A p \in FileItems(f) : InTmp(p) => InTmp(p)'
        BY <1>i, <2>1, <2>4, AppendedTypes DEF InTmp
      <3>2. \A p \in FileItems(f) : Ahead(p) => Ahead(p)'
        BY <1>i, <2>1, <2>2 DEF Ahead
      <3> QED
        BY <3>1, <3>2
    <2>7. ItemAt(f)' = ItemAt(f) /\ Left(f)' = Left(f)
      BY <2>2 DEF ItemAt, Left
    <2>8. byCounts' /\ ~mg'[f].deleted => \A p \in FileItems(f) : Wanted(p)' => (InTmp(p) \/ Ahead(p))'
      BY <1>k, <2>1, <2>2, <2>6 DEF MergeAt, Wanted
    <2> QED
      BY <1>k, <2>1, <2>2, <2>5, <2>7, <2>8 DEF MergeAt
  <1>6. CASE MergeSynced(f)
    <2>1. /\ mg[f].at = "copy" /\ targetTmp' = [targetTmp EXCEPT ![f] = Append(Front(@), <<"part", ItemAt(f)>>)]
          /\ UNCHANGED <<part, target>>
          /\ MergeGoes(f, "delete") \/ NextItem(f, mg[f].deleted)
      BY <1>6 DEF MergeSynced, Merging
    <2>2. /\ Left(f) /\ mg[f].i \in Places(f) /\ targetTmp[f] # <<>> /\ target[f] = NoFile
          /\ targetTmp[f][Len(targetTmp[f])] = <<"torn", ItemAt(f)>>
      BY <1>k, <2>1 DEF MergeAt
    <2>3. ItemAt(f) \in Parts /\ FileOf[ItemAt(f)] = f
      BY <2>2, ItemAtFile
    <2>4. <<"part", ItemAt(f)>> \in Pieces
      BY <2>3 DEF Pieces
    <2>5. /\ DOMAIN targetTmp'[f] = DOMAIN targetTmp[f] /\ Len(targetTmp[f]) \in DOMAIN targetTmp[f]
          /\ targetTmp'[f][Len(targetTmp[f])] = <<"part", ItemAt(f)>>
          /\ \A i \in DOMAIN targetTmp[f] : i # Len(targetTmp[f]) => targetTmp'[f][i] = targetTmp[f][i]
      BY <2>1, <2>2, <2>4, SyncedTypes
    <2>6. InTmp(r)' /\ \A p \in FileItems(f) : InTmp(p) => InTmp(p)'
      <3>1. \E i \in DOMAIN targetTmp'[f] : targetTmp'[f][i] = <<"part", ItemAt(f)>>
        BY <2>5
      <3>2. ASSUME NEW p \in FileItems(f), InTmp(p) PROVE InTmp(p)'
        <4>1. PICK i \in DOMAIN targetTmp[f] : targetTmp[f][i] = <<"part", p>>
          BY <1>i, <3>2 DEF InTmp
        <4>2. i # Len(targetTmp[f])
          BY <2>2, <4>1
        <4> QED
          BY <1>i, <2>5, <4>1, <4>2 DEF InTmp
      <3> QED
        BY <1>r, <2>3, <3>1, <3>2 DEF InTmp
    <2>7. CASE MergeGoes(f, "delete")
      <3>1. mg'[f].at = "delete" /\ mg'[f].i = mg[f].i /\ mg'[f].deleted = mg[f].deleted
        BY <2>7, MergeGoesTypes DEF MergeAts
      <3>2. ItemAt(f)' = ItemAt(f) /\ Left(f)' = Left(f)
        BY <3>1 DEF ItemAt, Left
      <3>3. \A p \in FileItems(f) : Ahead(p) => Ahead(p)'
        BY <1>i, <2>1, <3>1 DEF Ahead
      <3>4. byCounts' /\ ~mg'[f].deleted => \A p \in FileItems(f) : Wanted(p)' => (InTmp(p) \/ Ahead(p))'
        BY <1>k, <2>1, <2>6, <3>1, <3>3 DEF MergeAt, Wanted
      <3>6. (InTmp(ItemAt(f)))' /\ (mg[f].i \in Places(f))'
        BY <1>r, <2>2, <2>6, <3>1, <3>2 DEF Places, InTmp
      <3> QED
        BY <1>k, <2>1, <2>2, <3>1, <3>2, <3>4, <3>6 DEF MergeAt
    <2>8. CASE NextItem(f, mg[f].deleted)
      <3>1. mg[f].deleted => f \in ParFiles
        BY <1>k DEF MergeAt
      <3> QED
        BY <1>k, <1>r, <2>1, <2>6, <2>8, <3>1, ItemPassed
    <2> QED
      BY <2>1, <2>7, <2>8
  <1>7. CASE MergeDeletes(f)
    <2>1. /\ mg[f].at = "delete" /\ part' = [part EXCEPT ![ItemAt(f)] = "none"] /\ NextItem(f, mg[f].deleted)
          /\ UNCHANGED <<target, targetTmp>>
      BY <1>7 DEF MergeDeletes, Merging, targets
    <2>2. InTmp(ItemAt(f)) /\ (mg[f].deleted => f \in ParFiles)
      BY <1>k, <2>1 DEF MergeAt
    <2>3. \A p \in FileItems(f) : (InTmp(p) => InTmp(p)') /\ (p # r => part'[p] = part[p])
      BY <1>i, <1>r, <2>1 DEF InTmp, TypeOK
    <2>4. InTmp(r)'
      BY <1>r, <2>1, <2>2 DEF InTmp
    <2> QED
      BY <1>k, <1>r, <2>1, <2>2, <2>3, <2>4, ItemPassed
  <1>8. CASE MergeRenames(f) \/ MergeFails(f)
    BY <1>8, <1>k, MergeOver DEF MergeRenames, MergeFails
  <1> QED
    BY <1>1, <1>2, <1>3, <1>4, <1>5, <1>6, <1>7, <1>8 DEF Merge

LEMMA MergeKept ==
  ASSUME TypeOK, MergeInv, DecodedInv, RoundInv, [Next]_vars
  PROVE  MergeInv'
  <1>1. ASSUME NEW f \in Files PROVE MergeAt(f)'
    <2>0. MergeAt(f) /\ \A p \in FileItems(f) : p \in Parts /\ FileOf[p] = f
      BY DEF MergeInv, FileItems
    <2>1. ASSUME NEW p \in Parts, Download(p) PROVE MergeAt(f)'
      <3>1. UNCHANGED <<byCounts, mg, target, targetTmp, part, ParFiles>> /\ ~byCounts
        BY <2>1, DownloadKeeps, QuietRests DEF RoundInv
      <3> QED
        BY <2>0, <3>1, MergeFrame
    <2>2. ASSUME NEW w \in Writers, YencWriter(w) PROVE MergeAt(f)'
      <3>1. UNCHANGED <<byCounts, mg, target, targetTmp, ParFiles>> /\ ~byCounts
        BY <2>2, WriterKeeps, QuietRests DEF RoundInv
      <3>2. \A p \in Parts : part[p] # "none" => part'[p] # "none"
        BY <2>2, PartSteps
      <3> QED
        BY <2>0, <3>1, <3>2, MergeFrame
    <2>3. CASE Divider \/ Close1
      <3>1. UNCHANGED <<mg, target, targetTmp, part, ParFiles, failed>>
        BY <2>3, DividerKeeps
      <3>2. byCounts' /\ mg[f].at \in {"item", "copy", "delete"} => byCounts /\ dl' = dl
        <4>1. CASE Scan \/ RoundQuits
          BY <4>1 DEF RoundInv, Scan, RoundQuits, RoundOver
        <4>2. CASE ~(Scan \/ RoundQuits)
          BY <2>3, <4>2 DEF Divider, Close1, RoundContinues, NoProgress, StopSeen, RoutinesGone, waitMerge
        <4> QED
          BY <4>1, <4>2
      <3> QED
        BY <2>0, <3>1, <3>2, MergeFrame DEF Wanted
    <2>4. ASSUME NEW g \in Files, Merge(g) PROVE MergeAt(f)'
      <3>1. CASE g = f
        BY <2>4, <3>1, MergeStepKept
      <3>2. CASE g # f
        <4>1. UNCHANGED <<mg[f], target[f], targetTmp[f], ParFiles, byCounts, dl, failed>>
          BY <2>4, <3>2, MergeKeeps, MergeSteps
        <4>2. \A p \in FileItems(f) : part'[p] = part[p]
          BY <2>0, <2>4, <3>2, MergeSteps
        <4> QED
          BY <2>0, <4>1, <4>2, MergeFrame DEF Wanted
      <3> QED
        BY <3>1, <3>2
    <2>5. CASE NextSession \/ Restart
      <3>1. mg' = Unmerged /\ byCounts' = FALSE
        BY <2>5, AgainKeeps
      <3>2. mg'[f].at = "start" /\ mg'[f].i = 0 /\ mg'[f].deleted = FALSE
        BY <3>1 DEF Unmerged
      <3> QED
        BY <3>1, <3>2 DEF MergeAt
    <2>6. CASE UNCHANGED <<dl, flaginYenc, failed, yencQueueCnt, yencChan, writer, dv, mg, byCounts, session, ParFiles,
                           part, partTmp, target, targetTmp>>
      BY <2>0, <2>6, MergeFrame DEF Wanted
    <2> QED
      BY <2>1, <2>2, <2>3, <2>4, <2>5, <2>6, Kinds
  <1> QED
    BY <1>1 DEF MergeInv

-----------------------------------------------------------------------------
(* The invariant of the yEnc output, for every number of sessions.         *)
LEMMA YencInitially == Init => YencInv
  <1> SUFFICES ASSUME Init PROVE YencInv
    OBVIOUS
  <1>1. dl \in [Parts -> {"todo"}]
    BY DEF Init, ToDo
  <1>2. Unmerged \in [Files -> Merges]
    BY SegmentFacts DEF Unmerged, Merges, MergeAts
  <1>3. NewRound \in [at : {"scan", "drain", "merge", "over"}, i : 1..Len(segmentList) + 1, busy : BOOLEAN]
    BY SegmentFacts DEF NewRound
  <1>4. yencChan \in Seq(Job) /\ Len(yencChan) = 0 /\ yencQueueCnt = 0 /\ DOMAIN yencChan = {}
    BY DEF Init
  <1>5. NoFile \in Seq(Pieces)
    BY DEF NoFile
  <1>6. target \in [Files -> Seq(Pieces)] /\ targetTmp \in [Files -> Seq(Pieces)]
    BY <1>5 DEF Init
  <1>7. writer \in [Writers -> Working \cup {Free}] /\ Busy = {}
    BY DEF Init, Busy, Free
  <1>8. TypeOK
    <2>1. dl \in [Parts -> Doings]
      BY <1>1 DEF Doings
    <2>2. session \in 1..MaxSessions /\ ParFiles \subseteq Files /\ byCounts \in BOOLEAN /\ Len(yencChan) <= ChanSize
          /\ yencQueueCnt \in Nat
      <3>1. session = 1 /\ ParFiles \subseteq Files /\ byCounts = FALSE
        BY DEF Init
      <3>2. 1 \in 1..MaxSessions /\ 0 <= ChanSize
        BY SegmentFacts
      <3> QED
        BY <1>4, <3>1, <3>2
    <2>3. part \in [Parts -> {"none", "partly", "whole"}] /\ partTmp \in [Parts -> {"none", "partly", "whole"}]
      BY DEF Init
    <2>4. flaginYenc \subseteq Parts /\ failed \subseteq Parts /\ mg = Unmerged /\ dv = NewRound
      BY DEF Init
    <2> QED
      BY <1>2, <1>3, <1>4, <1>6, <1>7, <2>1, <2>2, <2>3, <2>4 DEF TypeOK, Doings, Merges, MergeAts
  <1>9. NeverUndercounts
    <2>1. {w \in Writers : writer[w] # Free} = Busy
      BY <1>7, BusyIsNotFree DEF Busy
    <2>2. Cardinality(Busy) = 0
      BY <1>7, FS_EmptySet
    <2>3. Cardinality(Queued) \in Nat
      BY Finite
    <2>4. Len(yencChan) + Cardinality(Busy) <= yencQueueCnt + Cardinality(Queued)
      BY <1>4, <2>2, <2>3
    <2> QED
      BY <2>1, <2>4 DEF NeverUndercounts, Queued
  <1>10. JobInv
    BY <1>1, <1>4, <1>7 DEF JobInv
  <1>11. \A f \in Files : mg[f].at = "start" /\ mg[f].i = 0 /\ mg[f].deleted = FALSE
    BY DEF Init, Unmerged
  <1>12. RoundInv
    <2>1. dv.at = "scan" /\ dv.i = 1 /\ ~byCounts
      BY DEF Init, NewRound
    <2>2. \A i \in DOMAIN segmentList : ~(i < dv.i)
      BY <2>1, SegmentFacts
    <2> QED
      BY <1>11, <2>1, <2>2 DEF RoundInv
  <1>13. DecodedInv
    BY <1>1, <1>7 DEF DecodedInv, Handed
  <1>14. MergeInv
    BY <1>11 DEF MergeInv, MergeAt
  <1> QED
    BY <1>8, <1>9, <1>10, <1>12, <1>13, <1>14 DEF YencInv

LEMMA YencTypesKept ==
  ASSUME YencInv, [Next]_vars
  PROVE  TypeOK'
  <1>1. ASSUME NEW f \in Files, Merge(f) PROVE TypeOK'
    <2>1. MergeAt(f)
      BY DEF YencInv, MergeInv
    <2> QED
      BY <1>1, <2>1, MergeStepTypes DEF YencInv, MergeAt
  <1>2. CASE UNCHANGED <<dl, flaginYenc, failed, yencQueueCnt, yencChan, writer, dv, mg, byCounts, session, ParFiles,
                         part, partTmp, target, targetTmp>>
    BY <1>2 DEF YencInv, TypeOK
  <1> QED
    BY <1>1, <1>2, Kinds, DownloadTypes, WriterStepTypes, DividerTypes, AgainTypes DEF YencInv

LEMMA YencInvKept ==
  ASSUME YencInv, [Next]_vars
  PROVE  YencInv'
  <1>1. TypeOK'
    BY YencTypesKept
  <1>2. NeverUndercounts'
    BY <1>1, CountKept DEF YencInv, RoundInv
  <1>3. JobInv' /\ RoundInv' /\ DecodedInv' /\ MergeInv'
    BY JobKept, RoundKept, DecodedKept, MergeKept DEF YencInv
  <1> QED
    BY <1>1, <1>2, <1>3 DEF YencInv

LEMMA YencInvariant == Spec => []YencInv
  <1>1. YencInv /\ UNCHANGED vars => YencInv'
    BY YencInvKept
  <1> QED
    BY YencInitially, YencInvKept, PTL DEF Spec

(* For every list of items, set of writers, channel and number of          *)
(* sessions: a part that is queued or in work is counted, so the divider   *)
(* does not close by its counts while one is (WriteYenc, GCounter).        *)
THEOREM PartsAreCounted == Spec => [](TypeOK /\ NeverUndercounts)
  <1>1. YencInv => TypeOK /\ NeverUndercounts
    BY DEF YencInv
  <1> QED
    BY <1>1, YencInvariant, PTL

(* A merge renames its .tmp when it has passed all of its items.           *)
LEMMA RenamedWhole ==
  ASSUME YencInv, [Next]_vars, NEW f \in Files, target[f] # target'[f]
  PROVE  /\ MergeRenames(f) /\ target'[f] = targetTmp[f] /\ ~mg[f].deleted
         /\ byCounts => \A p \in FileItems(f) : Wanted(p) => InTmp(p)
  <1>1. target \in [Files -> Seq(Pieces)]
    BY DEF YencInv, TypeOK
  <1>2. PICK g \in Files : Merge(g)
    BY Kinds, DownloadKeeps, WriterKeeps, DividerKeeps, AgainKeeps DEF YencInv
  <1>3. g = f
    BY <1>2, MergeSteps DEF YencInv
  <1>4. MergeRenames(f) /\ ~mg[f].deleted /\ target' = [target EXCEPT ![f] = targetTmp[f]] /\ mg[f].at = "item" /\ ~Left(f)
    BY <1>2, <1>3 DEF Merge, MergeStarts, MergeNulls, MergeGivesUpPar, MergeAppends, MergeSynced, MergeDeletes, MergeRenames,
       MergeFails, targets, Merging
  <1>5. ASSUME byCounts, NEW p \in FileItems(f), Wanted(p) PROVE InTmp(p)
    <2>1. InTmp(p) \/ Ahead(p)
      BY <1>4, <1>5 DEF YencInv, MergeInv, MergeAt
    <2>2. ~Ahead(p)
      <3>1. FileOf[p] = f
        BY DEF FileItems
      <3>2. mg[f].i \in Places(f) /\ ~(mg[f].i <= Len(segmentList))
        BY <1>4 DEF YencInv, MergeInv, MergeAt, Left
      <3>3. \A i \in DOMAIN segmentList : ~(i >= mg[f].i)
        BY <3>2, SegmentFacts DEF Places
      <3> QED
        BY <3>1, <3>3 DEF Ahead
    <2> QED
      BY <2>1, <2>2
  <1> QED
    BY <1>1, <1>4, <1>5

(* What is in the .tmp of a file, in the words of Holds.                   *)
LEMMA InTmpContains ==
  ASSUME TypeOK, NEW p \in Parts
  PROVE  InTmp(p) <=> Contains(targetTmp[FileOf[p]], <<"part", p>>)
  <1>1. FileOf[p] \in Files
    BY DEF Files
  <1>2. DOMAIN targetTmp[FileOf[p]] = 1..Len(targetTmp[FileOf[p]])
    BY <1>1 DEF TypeOK
  <1> QED
    BY <1>2 DEF InTmp, Contains

(* For every list of items, set of writers, channel and number of          *)
(* sessions: after a close by the counts a target has every part that this *)
(* session decoded and wrote (WriteYenc, GoWorkDivider, YencMerge).        *)
THEOREM MergedAlwaysHasParts == Spec => MergedHasParts
  <1>1. ASSUME YencInv, [Next]_vars
        PROVE  \A f \in Files : target[f] # target'[f] /\ byCounts =>
                 \A p \in FileItems(f) : dl[p] = "done" /\ p \notin failed => Contains(target'[f], <<"part", p>>)
    <2> SUFFICES ASSUME NEW f \in Files, target[f] # target'[f], byCounts, NEW p \in FileItems(f), dl[p] = "done", p \notin failed
                 PROVE  Contains(target'[f], <<"part", p>>)
      OBVIOUS
    <2>1. target'[f] = targetTmp[f] /\ InTmp(p)
      BY <1>1, RenamedWhole DEF Wanted
    <2>2. p \in Parts /\ FileOf[p] = f
      BY DEF FileItems
    <2> QED
      BY <1>1, <2>1, <2>2, InTmpContains DEF YencInv
  <1> QED
    BY <1>1, YencInvariant, PTL DEF MergedHasParts, Spec

-----------------------------------------------------------------------------
(* No part has two jobs of one session.                                    *)
LEMMA OneJobKept ==
  ASSUME TypeOK, JobInv, OneJob, [Next]_vars
  PROVE  OneJob'
  <1>1. /\ \A i, j \in DOMAIN yencChan : yencChan[i].item = yencChan[j].item /\ yencChan[i].s = yencChan[j].s => i = j
        /\ \A w \in Busy : \A i \in DOMAIN yencChan : yencChan[i].item = writer[w].item => yencChan[i].s # writer[w].s
        /\ \A v, w \in Busy : writer[v].item = writer[w].item /\ writer[v].s = writer[w].s => v = w
    BY DEF OneJob, Item
  <1>2. ASSUME NEW p \in Parts, Download(p) PROVE OneJob'
    <2>1. UNCHANGED <<writer, session>> /\ Busy' = Busy
      BY <1>2, DownloadKeeps DEF Busy
    <2>2. CASE WriteYencSend(p)
      <3>1. p \notin Handed /\ yencChan' = Append(yencChan, [item |-> p, s |-> session])
        BY <2>2 DEF WriteYencSend, Step, Handed
      <3>2. \A i \in DOMAIN yencChan : ~(yencChan[i].item = p /\ yencChan[i].s = session)
        BY <3>1 DEF JobInv
      <3>3. \A w \in Busy : ~(writer[w].item = p /\ writer[w].s = session)
        BY <3>1 DEF JobInv, Current, Item
      <3>4. \A i \in DOMAIN yencChan' :
              \/ i \in DOMAIN yencChan /\ yencChan'[i] = yencChan[i]
              \/ i = Len(yencChan) + 1 /\ yencChan'[i].item = p /\ yencChan'[i].s = session
        BY <3>1, SentJob
      <3>5. \A i, j \in DOMAIN yencChan' :
              yencChan'[i].item = yencChan'[j].item /\ yencChan'[i].s = yencChan'[j].s => i = j
        BY <1>1, <3>2, <3>4
      <3>6. \A w \in Busy : \A i \in DOMAIN yencChan' :
              yencChan'[i].item = writer[w].item => yencChan'[i].s # writer[w].s
        BY <1>1, <3>3, <3>4
      <3> QED
        BY <1>1, <2>1, <3>5, <3>6 DEF OneJob, Item
    <2>3. CASE ~WriteYencSend(p)
      <3>1. UNCHANGED yencChan
        BY <1>2, <2>3, DownloadSteps
      <3> QED
        BY <1>1, <2>1, <3>1 DEF OneJob, Item
    <2> QED
      BY <2>2, <2>3
  <1>3. ASSUME NEW w \in Writers, YencWriter(w) PROVE OneJob'
    <2>1. CASE Receive(w)
      <3>1. /\ Busy' = Busy \cup {w} /\ w \notin Busy /\ Others(w)
            /\ writer'[w].item = Head(yencChan).item /\ writer'[w].s = Head(yencChan).s
            /\ yencChan # <<>> /\ yencChan' = Tail(yencChan)
        BY <2>1, StepReceives
      <3>2. /\ 1 \in DOMAIN yencChan /\ Head(yencChan) = yencChan[1]
            /\ \A i \in DOMAIN yencChan' : i + 1 \in DOMAIN yencChan /\ yencChan'[i] = yencChan[i + 1]
        BY <3>1, HeadJob
      <3>3. \A i \in DOMAIN yencChan' : i \in Nat \ {0}
        <4>1. yencChan' \in Seq(Job)
          BY <3>1, HeadJob
        <4> QED
          BY <4>1
      <3>4. \A i, j \in DOMAIN yencChan' :
              yencChan'[i].item = yencChan'[j].item /\ yencChan'[i].s = yencChan'[j].s => i = j
        <4>1. ASSUME NEW i \in DOMAIN yencChan', NEW j \in DOMAIN yencChan',
                     yencChan'[i].item = yencChan'[j].item, yencChan'[i].s = yencChan'[j].s
              PROVE  i = j
          <5>1. i + 1 = j + 1
            BY <1>1, <3>2, <4>1
          <5> QED
            BY <3>3, <5>1
        <4> QED
          BY <4>1
      <3>5. \A v \in Busy : v # w /\ writer'[v].item = writer[v].item /\ writer'[v].s = writer[v].s
        BY <3>1 DEF Others
      <3>6. \A i \in DOMAIN yencChan' : ~(yencChan'[i].item = writer'[w].item /\ yencChan'[i].s = writer'[w].s)
        <4>1. ASSUME NEW i \in DOMAIN yencChan', yencChan'[i].item = writer'[w].item, yencChan'[i].s = writer'[w].s
              PROVE  FALSE
          <5>1. i + 1 = 1
            BY <1>1, <3>1, <3>2, <4>1
          <5> QED
            BY <3>3, <5>1
        <4> QED
          BY <4>1
      <3>7. \A v \in Busy' : \A i \in DOMAIN yencChan' : yencChan'[i].item = writer'[v].item => yencChan'[i].s # writer'[v].s
        BY <1>1, <3>1, <3>2, <3>5, <3>6
      <3>8. \A v \in Busy : ~(writer'[v].item = writer'[w].item /\ writer'[v].s = writer'[w].s)
        BY <1>1, <3>1, <3>2, <3>5
      <3>9. \A u, v \in Busy' : writer'[u].item = writer'[v].item /\ writer'[u].s = writer'[v].s => u = v
        BY <1>1, <3>1, <3>5, <3>8
      <3> QED
        BY <3>4, <3>7, <3>9 DEF OneJob, Item
    <2>2. CASE ~Receive(w)
      <3>1. Busy' \subseteq Busy /\ Others(w) /\ UNCHANGED yencChan
        BY <1>3, <2>2, StepFinishes, StepGoesOn
      <3>2. \A v \in Busy' : v \in Busy /\ writer'[v].item = writer[v].item /\ writer'[v].s = writer[v].s
        BY <3>1 DEF Others
      <3> QED
        BY <1>1, <3>1, <3>2 DEF OneJob, Item
    <2> QED
      BY <2>1, <2>2
  <1>4. CASE UNCHANGED <<yencChan, writer>>
    <2>1. Busy' = Busy
      BY <1>4 DEF Busy
    <2> QED
      BY <1>1, <1>4, <2>1 DEF OneJob, Item
  <1>5. CASE NextSession \/ Restart
    <2>1. CASE yencQueueCnt' = 0 /\ yencChan' = <<>> /\ writer' = [w \in Writers |-> Free]
      <3>1. Busy' = {} /\ DOMAIN yencChan' = {}
        BY <2>1 DEF Busy, Free
      <3> QED
        BY <3>1 DEF OneJob
    <2> QED
      BY <1>4, <1>5, <2>1, AgainKeeps
  <1> QED
    BY <1>2, <1>3, <1>4, <1>5, Kinds, DividerKeeps, MergeKeeps

-----------------------------------------------------------------------------
(* The names of the open files, for two sessions.                          *)
Names2(w) ==
  IF writer[w].file = "tmp"
  THEN partTmp[Item(w)] # "none" /\ (writer[w].at = "rename" => partTmp[Item(w)] = "whole")
  ELSE partTmp[Item(w)] = "none" /\ Overtaken(w)

(* With two sessions a part has two jobs: a writer that has the one, when  *)
(* another writer has the other, is overtaken once that one has renamed.   *)
LEMMA TwoJobs ==
  ASSUME MaxSessions <= 2, TypeOK, JobInv, OneJob,
         NEW v \in Busy, NEW w \in Busy, v # w, Item(v) = Item(w)
  PROVE  /\ \A u \in Busy : Item(u) = Item(w) => u = v \/ u = w
         /\ \A i \in DOMAIN yencChan : yencChan[i].item # Item(w)
         /\ session = MaxSessions /\ Item(w) \in Handed
  <1>1. MaxSessions \in 1..2 /\ session \in 1..MaxSessions
    BY SegmentFacts DEF TypeOK
  <1>2. \A u \in Busy : writer[u].s \in 1..2 /\ writer[u].s <= session
    <2>1. \A u \in Busy : writer[u].s \in 1..MaxSessions /\ writer[u].s <= session
      BY WriterTypes DEF JobInv, Busy
    <2> QED
      BY <1>1, <2>1
  <1>3. \A i \in DOMAIN yencChan : yencChan[i].s \in 1..2
    <2>1. ASSUME NEW i \in DOMAIN yencChan PROVE yencChan[i].s \in 1..2
      <3>1. yencChan[i] \in Job
        BY DEF TypeOK
      <3>2. yencChan[i].s \in 1..MaxSessions
        BY <3>1 DEF Job
      <3> QED
        BY <1>1, <3>2
    <2> QED
      BY <2>1
  <1>4. writer[v].s # writer[w].s
    BY DEF OneJob
  <1>5. ASSUME NEW u \in Busy, Item(u) = Item(w), u # v, u # w PROVE FALSE
    <2>1. writer[u].s # writer[v].s /\ writer[u].s # writer[w].s
      BY <1>5 DEF OneJob
    <2> QED
      BY <1>2, <1>4, <2>1
  <1>6. ASSUME NEW i \in DOMAIN yencChan, yencChan[i].item = Item(w) PROVE FALSE
    <2>1. yencChan[i].s # writer[v].s /\ yencChan[i].s # writer[w].s
      BY <1>6 DEF OneJob
    <2> QED
      BY <1>2, <1>3, <1>4, <2>1
  <1>7. session = 2 /\ MaxSessions = 2 /\ (writer[v].s = 2 \/ writer[w].s = 2)
    BY <1>1, <1>2, <1>4
  <1>8. Item(w) \in Handed
    BY <1>7 DEF JobInv, Current
  <1> QED
    BY <1>5, <1>6, <1>7, <1>8

(* What a step does to the files of writers: each of the following is what *)
(* NamesInv says, for a writer that was and is at its file.                *)
LEMMA NamesFrame ==
  ASSUME NEW w \in Busy, Names2(w), Item(w) \in Parts,
         writer'[w].item = writer[w].item, writer'[w].at = writer[w].at, writer'[w].file = writer[w].file,
         partTmp'[Item(w)] = partTmp[Item(w)], UNCHANGED session, Handed \subseteq Handed',
         Overtaken(w) => \A u \in Busy' : u # w /\ writer'[u].item = Item(w) => writer'[u].at \in {"close", "decr"},
         Overtaken(w) => \A i \in DOMAIN yencChan' : yencChan'[i].item # Item(w)
  PROVE  Names2(w)'
  <1>1. Item(w)' = Item(w)
    BY DEF Item
  <1>2. partTmp'[Item(w)'] = partTmp[Item(w)]
    BY <1>1
  <1>3. Overtaken(w) => Overtaken(w)'
    BY <1>1 DEF Overtaken, Item
  <1> QED
    BY <1>2, <1>3 DEF Names2

LEMMA NamesSteps ==
  ASSUME MaxSessions <= 2, TypeOK, JobInv, OneJob, NamesInv, NEW v \in Writers, YencWriter(v)
  PROVE  NamesInv'
  <1> DEFINE AtFile(w) == writer[w].at \in {"write", "rename"}
  <1>n. \A w \in Busy : AtFile(w) => Names2(w)
    BY DEF NamesInv, Names2
  <1>u. UNCHANGED <<dl, session>> /\ Handed' = Handed
    BY WriterKeeps DEF Handed
  <1>w. \A w \in Busy : w \in Writers /\ Item(w) \in Parts
    BY WriterTypes DEF Busy
  <1>p. partTmp \in [Parts -> {"none", "partly", "whole"}]
    BY DEF TypeOK
  <1>g. SUFFICES ASSUME NEW w \in Busy', AtFile(w)' PROVE Names2(w)'
    BY DEF NamesInv, Names2
  <1>1. CASE Receive(v)
    <2>1. /\ Busy' = Busy \cup {v} /\ v \notin Busy /\ Others(v) /\ yencChan # <<>> /\ yencChan' = Tail(yencChan)
          /\ writer'[v].item = Head(yencChan).item /\ writer'[v].at = "look" /\ UNCHANGED partTmp
      BY <1>1, StepReceives DEF Receive, partFiles
    <2>2. \A u \in Writers : u # v => writer'[u] = writer[u]
      BY <1>1, ReceiveTypes
    <2>3. w # v /\ w \in Busy /\ writer'[w] = writer[w]
      BY <1>g, <1>w, <2>1, <2>2
    <2>4. /\ 1 \in DOMAIN yencChan /\ Head(yencChan) = yencChan[1]
          /\ \A i \in DOMAIN yencChan' : i + 1 \in DOMAIN yencChan /\ yencChan'[i] = yencChan[i + 1]
      BY <2>1, HeadJob
    <2>5. Overtaken(w) => \A u \in Busy' : u # w /\ writer'[u].item = Item(w) => writer'[u].at \in {"close", "decr"}
      BY <1>w, <2>1, <2>2, <2>4 DEF Overtaken, Item
    <2>6. Overtaken(w) => \A i \in DOMAIN yencChan' : yencChan'[i].item # Item(w)
      BY <2>4 DEF Overtaken
    <2>7. Names2(w)
      BY <1>g, <1>n, <2>3
    <2> QED
      BY <1>u, <1>w, <2>1, <2>3, <2>5, <2>6, <2>7, NamesFrame
  <1>2. CASE OpenTmp(v)
    <2>1. /\ v \in Busy /\ writer[v].at = "open" /\ writer'[v].at = "write" /\ writer'[v].file = "tmp"
          /\ writer'[v].item = writer[v].item /\ Busy' = Busy /\ Others(v) /\ UNCHANGED yencChan
          /\ partTmp' = [partTmp EXCEPT ![Item(v)] = IF @ = "none" THEN "partly" ELSE @]
      <3>1. ~Receive(v) /\ ~Finish(v)
        BY <1>2 DEF OpenTmp, Receive, Finish
      <3> QED
        BY <1>2, <3>1, OpenTypes, StepGoesOn DEF OpenTmp
    <2>2. \A u \in Writers : u # v => writer'[u] = writer[u]
      BY <1>2, OpenTypes
    <2>3. CASE w = v
      <3>1. Item(w)' = Item(w) /\ Item(w) \in Parts
        BY <1>w, <2>1, <2>3 DEF Item
      <3>2. partTmp'[Item(w)] # "none"
        BY <1>p, <2>1, <2>3, <3>1
      <3> QED
        BY <2>1, <2>3, <3>1, <3>2 DEF Names2
    <2>4. CASE w # v
      <3>1. w \in Busy /\ writer'[w] = writer[w] /\ Names2(w) /\ Item(w) \in Parts
        BY <1>g, <1>n, <1>w, <2>1, <2>2, <2>4
      <3>2. Overtaken(w) => Item(v) # Item(w)
        BY <2>1, <2>4 DEF Overtaken
      <3>3. partTmp'[Item(w)] = partTmp[Item(w)]
        <4>1. partTmp[Item(w)] # "none" \/ Item(v) # Item(w)
          BY <3>1, <3>2 DEF Names2
        <4> QED
          BY <1>p, <2>1, <3>1, <4>1
      <3>4. Overtaken(w) => \A u \in Busy' : u # w /\ writer'[u].item = Item(w) => writer'[u].at \in {"close", "decr"}
        BY <1>w, <2>1, <2>2, <3>2 DEF Overtaken, Item
      <3>5. Overtaken(w) => \A i \in DOMAIN yencChan' : yencChan'[i].item # Item(w)
        BY <2>1 DEF Overtaken
      <3> QED
        BY <1>u, <3>1, <3>3, <3>4, <3>5, NamesFrame
    <2> QED
      BY <2>3, <2>4
  <1>3. CASE WriteAndFlush(v)
    <2>1. /\ v \in Busy /\ writer[v].at = "write" /\ Goes(v, "rename") /\ Busy' = Busy /\ UNCHANGED yencChan
          /\ partTmp' = [partTmp EXCEPT ![Item(v)] = IF writer[v].file = "tmp" THEN "whole" ELSE @]
      <3>1. ~Receive(v) /\ ~Finish(v)
        BY <1>3 DEF WriteAndFlush, Receive, Finish
      <3> QED
        BY <1>3, <3>1, StepGoesOn DEF WriteAndFlush
    <2>2. /\ writer'[v].at = "rename" /\ writer'[v].file = writer[v].file /\ writer'[v].item = writer[v].item
          /\ \A u \in Writers : u # v => writer'[u] = writer[u]
      BY <2>1, WriterGoesOn
    <2>3. Names2(v)
      BY <1>n, <2>1
    <2>4. \A u \in Busy : writer'[u].item = writer[u].item
      BY <1>w, <2>2
    <2>5. Overtaken(w) => \A i \in DOMAIN yencChan' : yencChan'[i].item # Item(w)
      BY <2>1 DEF Overtaken
    <2>6. CASE w = v
      <3>1. Item(w)' = Item(w) /\ Item(w) \in Parts
        BY <1>w, <2>1, <2>2, <2>6 DEF Item
      <3>2. CASE writer[v].file = "tmp"
        <4>1. partTmp'[Item(w)] = "whole"
          BY <1>p, <2>1, <2>6, <3>1, <3>2
        <4> QED
          BY <2>2, <2>6, <3>1, <3>2, <4>1 DEF Names2
      <3>3. CASE writer[v].file # "tmp"
        <4>1. partTmp'[Item(w)] = "none" /\ Overtaken(w)
          BY <1>p, <2>1, <2>3, <2>6, <3>1, <3>3 DEF Names2
        <4>2. Overtaken(w)'
          BY <1>u, <1>w, <2>1, <2>2, <2>4, <2>6, <3>1, <4>1 DEF Overtaken, Item
        <4> QED
          BY <2>2, <2>6, <3>1, <3>3, <4>1, <4>2 DEF Names2
      <3> QED
        BY <3>2, <3>3
    <2>7. CASE w # v
      <3>1. w \in Busy /\ writer'[w] = writer[w] /\ Names2(w) /\ Item(w) \in Parts
        BY <1>g, <1>n, <1>w, <2>1, <2>2, <2>7
      <3>2. Overtaken(w) => Item(v) # Item(w)
        BY <2>1, <2>7 DEF Overtaken
      <3>3. CASE Item(v) # Item(w)
        <4>1. partTmp'[Item(w)] = partTmp[Item(w)]
          BY <1>p, <2>1, <3>1, <3>3
        <4>2. Overtaken(w) => \A u \in Busy' : u # w /\ writer'[u].item = Item(w) => writer'[u].at \in {"close", "decr"}
          BY <1>w, <2>1, <2>2, <3>3 DEF Overtaken, Item
        <4> QED
          BY <1>u, <2>5, <3>1, <4>1, <4>2, NamesFrame
      <3>4. CASE Item(v) = Item(w)
        <4>1. writer[w].file = "tmp" /\ partTmp[Item(w)] # "none"
              /\ (writer[w].at = "rename" => partTmp[Item(w)] = "whole")
          BY <3>1, <3>2, <3>4 DEF Names2
        <4>2. partTmp'[Item(w)] = partTmp[Item(w)] \/ partTmp'[Item(w)] = "whole"
          BY <1>p, <2>1, <3>1, <3>4
        <4>3. Item(w)' = Item(w)
          BY <3>1 DEF Item
        <4> QED
          BY <3>1, <4>1, <4>2, <4>3 DEF Names2
      <3> QED
        BY <3>3, <3>4
    <2> QED
      BY <2>6, <2>7
  <1>4. CASE RenameTmp(v)
    <2>1. /\ v \in Busy /\ writer[v].at = "rename" /\ writer'[v].at = "close" /\ Busy' = Busy /\ UNCHANGED yencChan
          /\ (\A u \in Writers : u # v => writer'[u].at = writer[u].at)
          /\ (\A u \in Busy : writer'[u].item = writer[u].item /\ writer'[u].file = RenamedFile(u, Item(v)))
          /\ partTmp' = [partTmp EXCEPT ![Item(v)] = "none"]
      <3>1. ~Receive(v) /\ ~Finish(v)
        BY <1>4 DEF RenameTmp, Receive, Finish
      <3> QED
        BY <1>4, <3>1, RenameTypes, StepGoesOn DEF RenameTmp
    <2>2. w # v /\ w \in Busy /\ writer'[w].at = writer[w].at /\ writer'[w].item = writer[w].item
          /\ writer'[w].file = RenamedFile(w, Item(v))
      BY <1>g, <1>w, <2>1
    <2>3. Names2(w) /\ Item(w) \in Parts
      BY <1>g, <1>n, <1>w, <2>2
    <2>4. Item(w)' = Item(w)
      BY <2>2 DEF Item
    <2>5. CASE Item(v) = Item(w)
      <3>1. ~Overtaken(w)
        BY <2>1, <2>2, <2>5 DEF Overtaken
      <3>2. writer[w].file = "tmp"
        BY <2>3, <3>1 DEF Names2
      <3>3. writer'[w].file = "part" /\ partTmp'[Item(w)] = "none"
        BY <1>p, <2>1, <2>2, <2>3, <2>5, <3>2 DEF RenamedFile
      <3>4. /\ \A u \in Busy : Item(u) = Item(w) => u = v \/ u = w
            /\ \A i \in DOMAIN yencChan : yencChan[i].item # Item(w)
            /\ session = MaxSessions /\ Item(w) \in Handed
        BY <2>1, <2>2, <2>5, TwoJobs
      <3>5. \A u \in Busy : u # w /\ Item(u) = Item(w) => writer'[u].at \in {"close", "decr"}
        BY <2>1, <3>4
      <3>6. Overtaken(w)'
        BY <1>u, <2>1, <2>4, <3>4, <3>5 DEF Overtaken, Item
      <3> QED
        BY <2>4, <3>3, <3>6 DEF Names2
    <2>6. CASE Item(v) # Item(w)
      <3>1. writer'[w].file = writer[w].file
        BY <2>2, <2>6 DEF RenamedFile
      <3>2. partTmp'[Item(w)] = partTmp[Item(w)]
        BY <1>p, <2>1, <2>3, <2>6
      <3>3. Overtaken(w) => \A u \in Busy' : u # w /\ writer'[u].item = Item(w) => writer'[u].at \in {"close", "decr"}
        BY <1>w, <2>1, <2>6 DEF Overtaken, Item
      <3>4. Overtaken(w) => \A i \in DOMAIN yencChan' : yencChan'[i].item # Item(w)
        BY <2>1 DEF Overtaken
      <3> QED
        BY <1>u, <2>2, <2>3, <3>1, <3>2, <3>3, <3>4, NamesFrame
    <2> QED
      BY <2>5, <2>6
  <1>5. CASE Finish(v)
    <2>1. /\ Busy' = Busy \ {v} /\ UNCHANGED <<yencChan, partTmp>> /\ w \in Busy /\ w # v
          /\ \A u \in Writers : u # v => writer'[u] = writer[u]
      BY <1>5, <1>g, StepFinishes DEF Finish, TypeOK
    <2>2. writer'[w] = writer[w] /\ Names2(w) /\ Item(w) \in Parts
      BY <1>g, <1>n, <1>w, <2>1
    <2>3. Overtaken(w) => \A u \in Busy' : u # w /\ writer'[u].item = Item(w) => writer'[u].at \in {"close", "decr"}
      BY <1>w, <2>1 DEF Overtaken, Item
    <2>4. Overtaken(w) => \A i \in DOMAIN yencChan' : yencChan'[i].item # Item(w)
      BY <2>1 DEF Overtaken
    <2> QED
      BY <1>u, <2>1, <2>2, <2>3, <2>4, NamesFrame
  <1>6. CASE AlreadyThere(v) \/ NotThere(v) \/ Close(v) \/ Fails(v)
    <2>1. /\ v \in Busy /\ (Goes(v, "decr") \/ (Goes(v, "open") /\ writer[v].at = "look")) /\ Busy' = Busy
          /\ UNCHANGED <<yencChan, partTmp>>
      <3>1. ~Receive(v) /\ ~Finish(v) /\ UNCHANGED partTmp
        BY <1>6 DEF AlreadyThere, NotThere, Close, Fails, Receive, Finish, partFiles
      <3>2. Goes(v, "decr") \/ (Goes(v, "open") /\ writer[v].at = "look")
        BY <1>6 DEF AlreadyThere, NotThere, Close, Fails
      <3> QED
        BY <3>1, <3>2, StepGoesOn
    <2>2. /\ \A u \in Writers : u # v => writer'[u] = writer[u]
          /\ writer'[v].item = writer[v].item /\ (writer'[v].at = "decr" \/ (writer'[v].at = "open" /\ writer[v].at = "look"))
      BY <2>1, WriterGoesOn
    <2>3. w # v /\ w \in Busy /\ writer'[w] = writer[w]
      BY <1>g, <1>w, <2>1, <2>2
    <2>4. Names2(w) /\ Item(w) \in Parts
      BY <1>g, <1>n, <1>w, <2>3
    <2>5. Overtaken(w) => \A u \in Busy' : u # w /\ writer'[u].item = Item(w) => writer'[u].at \in {"close", "decr"}
      BY <1>w, <2>1, <2>2 DEF Overtaken, Item
    <2>6. Overtaken(w) => \A i \in DOMAIN yencChan' : yencChan'[i].item # Item(w)
      BY <2>1 DEF Overtaken
    <2> QED
      BY <1>u, <2>1, <2>3, <2>4, <2>5, <2>6, NamesFrame
  <1> QED
    BY <1>1, <1>2, <1>3, <1>4, <1>5, <1>6 DEF YencWriter

LEMMA NamesKept ==
  ASSUME MaxSessions <= 2, TypeOK, JobInv, OneJob, NamesInv, [Next]_vars
  PROVE  NamesInv'
  <1>n. \A w \in Busy : writer[w].at \in {"write", "rename"} => Names2(w)
    BY DEF NamesInv, Names2
  <1>w. \A w \in Busy : w \in Writers /\ Item(w) \in Parts
    BY WriterTypes DEF Busy
  <1>g. ASSUME \A w \in Busy' : writer'[w].at \in {"write", "rename"} => Names2(w)'
        PROVE  NamesInv'
    BY <1>g DEF NamesInv, Names2
  <1>s. ASSUME UNCHANGED <<writer, yencChan, partTmp, session>>, Handed \subseteq Handed'
        PROVE  NamesInv'
    <2>1. Busy' = Busy
      BY <1>s DEF Busy
    <2>2. ASSUME NEW w \in Busy', writer'[w].at \in {"write", "rename"} PROVE Names2(w)'
      <3>1. w \in Busy /\ Names2(w) /\ Item(w) \in Parts
        BY <1>n, <1>s, <1>w, <2>1, <2>2
      <3>2. Overtaken(w) => \A u \in Busy' : u # w /\ writer'[u].item = Item(w) => writer'[u].at \in {"close", "decr"}
        BY <1>s, <2>1 DEF Overtaken, Item
      <3>3. Overtaken(w) => \A i \in DOMAIN yencChan' : yencChan'[i].item # Item(w)
        BY <1>s DEF Overtaken
      <3> QED
        BY <1>s, <3>1, <3>2, <3>3, NamesFrame
    <2> QED
      BY <1>g, <2>2
  <1>1. ASSUME NEW p \in Parts, Download(p) PROVE NamesInv'
    <2>1. UNCHANGED <<writer, partTmp, session>> /\ Busy' = Busy /\ Handed \subseteq Handed'
      BY <1>1, DownloadKeeps, DownloadSteps DEF Busy
    <2>2. CASE WriteYencSend(p)
      <3>1. yencChan' = Append(yencChan, [item |-> p, s |-> session]) /\ p \notin Handed
        BY <1>1, <2>2, DownloadSteps DEF Handed
      <3>2. \A i \in DOMAIN yencChan' : (i \in DOMAIN yencChan /\ yencChan'[i] = yencChan[i]) \/ yencChan'[i].item = p
        BY <3>1, SentJob
      <3>3. ASSUME NEW w \in Busy', writer'[w].at \in {"write", "rename"} PROVE Names2(w)'
        <4>1. w \in Busy /\ Names2(w) /\ Item(w) \in Parts
          BY <1>n, <1>w, <2>1, <3>3
        <4>2. Overtaken(w) => \A u \in Busy' : u # w /\ writer'[u].item = Item(w) => writer'[u].at \in {"close", "decr"}
          BY <2>1 DEF Overtaken, Item
        <4>3. Overtaken(w) => \A i \in DOMAIN yencChan' : yencChan'[i].item # Item(w)
          BY <3>1, <3>2 DEF Overtaken
        <4> QED
          BY <2>1, <4>1, <4>2, <4>3, NamesFrame
      <3> QED
        BY <1>g, <3>3
    <2>3. CASE ~WriteYencSend(p)
      BY <1>1, <1>s, <2>1, <2>3, DownloadSteps
    <2> QED
      BY <2>2, <2>3
  <1>2. ASSUME NEW w \in Writers, YencWriter(w) PROVE NamesInv'
    BY <1>2, NamesSteps
  <1>3. CASE Divider \/ Close1
    BY <1>3, <1>s, DividerKeeps, DividerScans
  <1>4. ASSUME NEW f \in Files, Merge(f) PROVE NamesInv'
    BY <1>4, <1>s, MergeKeeps DEF Handed
  <1>5. CASE NextSession \/ Restart
    <2>1. UNCHANGED partTmp /\ session' = session + 1 /\ session' \in 1..MaxSessions
      BY <1>5, AgainKeeps
    <2>2. session # MaxSessions
      BY <2>1, SegmentFacts DEF TypeOK
    <2>3. CASE UNCHANGED writer
      <3>1. Busy' = Busy
        BY <2>3 DEF Busy
      <3>2. ASSUME NEW w \in Busy', writer'[w].at \in {"write", "rename"} PROVE Names2(w)'
        <4>1. w \in Busy /\ Names2(w) /\ ~Overtaken(w)
          BY <1>n, <2>2, <2>3, <3>1, <3>2 DEF Overtaken
        <4>2. Item(w)' = Item(w)
          BY <2>3 DEF Item
        <4> QED
          BY <2>1, <2>3, <4>1, <4>2 DEF Names2
      <3> QED
        BY <1>g, <3>2
    <2>4. CASE writer' = [w \in Writers |-> Free]
      <3>1. Busy' = {}
        BY <2>4 DEF Busy, Free
      <3> QED
        BY <1>g, <3>1
    <2> QED
      BY <1>5, <2>3, <2>4, AgainKeeps
  <1>6. CASE UNCHANGED <<dl, flaginYenc, failed, yencQueueCnt, yencChan, writer, dv, mg, byCounts, session, ParFiles,
                         part, partTmp, target, targetTmp>>
    BY <1>6, <1>s DEF Handed
  <1> QED
    BY <1>1, <1>2, <1>3, <1>4, <1>5, <1>6, Kinds

(* What a rename gives the name of a part to is a whole file.              *)
LEMMA RenameIsWhole ==
  ASSUME TypeOK, NamesInv, NEW w \in Writers, RenameTmp(w)
  PROVE  Item(w) \in Parts /\ partTmp[Item(w)] = "whole" /\ part' = [part EXCEPT ![Item(w)] = "whole"]
  <1>1. w \in Busy /\ writer[w].at = "rename" /\ Item(w) \in Parts
    BY RenameTypes, WriterTypes
  <1>2. partTmp[Item(w)] # "none" /\ part' = [part EXCEPT ![Item(w)] = partTmp[Item(w)]]
    BY DEF RenameTmp
  <1>3. partTmp[Item(w)] = "whole"
    BY <1>1, <1>2 DEF NamesInv
  <1> QED
    BY <1>1, <1>2, <1>3

LEMMA WriterParts ==
  ASSUME TypeOK, NamesInv, NEW w \in Writers, YencWriter(w)
  PROVE  \A p \in Parts : part'[p] = part[p] \/ part'[p] = "whole"
  <1>1. part \in [Parts -> {"none", "partly", "whole"}]
    BY DEF TypeOK
  <1>2. CASE RenameTmp(w)
    BY <1>1, <1>2, RenameIsWhole
  <1>3. CASE WriteAndFlush(w)
    <2>1. part' = [part EXCEPT ![Item(w)] = IF writer[w].file = "part" THEN "whole" ELSE @]
      BY <1>3 DEF WriteAndFlush
    <2> QED
      BY <1>1, <2>1
  <1>4. CASE ~RenameTmp(w) /\ ~WriteAndFlush(w)
    <2>1. UNCHANGED part
      BY <1>4 DEF YencWriter, Receive, AlreadyThere, NotThere, OpenTmp, Close, Fails, Finish, partFiles
    <2> QED
      BY <2>1
  <1> QED
    BY <1>2, <1>3, <1>4

(* A merge takes a part away, or leaves it.                                *)
LEMMA MergeParts ==
  ASSUME TypeOK, NEW f \in Files, Merge(f)
  PROVE  UNCHANGED part \/ (MergeDeletes(f) /\ part' = [part EXCEPT ![ItemAt(f)] = "none"])
  BY DEF Merge, MergeStarts, MergeNulls, MergeGivesUpPar, MergeAppends, MergeSynced, MergeDeletes, MergeRenames, MergeFails

LEMMA WholePartsKept ==
  ASSUME TypeOK, NamesInv, WholeParts, [Next]_vars
  PROVE  WholeParts'
  <1>1. part \in [Parts -> {"none", "partly", "whole"}]
    BY DEF TypeOK
  <1>2. ASSUME \A p \in Parts : part'[p] = part[p] \/ part'[p] \in {"none", "whole"} PROVE WholeParts'
    BY <1>2 DEF WholeParts
  <1>3. ASSUME NEW w \in Writers, YencWriter(w) PROVE WholeParts'
    BY <1>2, <1>3, WriterParts
  <1>4. ASSUME NEW f \in Files, Merge(f) PROVE WholeParts'
    <2>1. \A p \in Parts : part'[p] = part[p] \/ part'[p] = "none"
      BY <1>1, <1>4, MergeParts
    <2> QED
      BY <1>2, <2>1
  <1>5. CASE UNCHANGED part
    BY <1>2, <1>5
  <1> QED
    BY <1>3, <1>4, <1>5, Kinds, DownloadKeeps, DividerKeeps, AgainKeeps

(* The invariant for two sessions.                                         *)
LEMMA TwoInitially == Init => TwoInv
  <1> SUFFICES ASSUME Init PROVE TwoInv
    OBVIOUS
  <1>1. Busy = {} /\ DOMAIN yencChan = {}
    BY DEF Init, Busy, Free
  <1>2. WholeParts
    BY DEF Init, WholeParts
  <1> QED
    BY <1>1, <1>2 DEF TwoInv, OneJob, NamesInv

LEMMA TwoInvKept ==
  ASSUME MaxSessions <= 2, YencInv, TwoInv, [Next]_vars
  PROVE  TwoInv'
  BY WholePartsKept, OneJobKept, NamesKept DEF YencInv, TwoInv

LEMMA TwoInvariant ==
  ASSUME MaxSessions <= 2
  PROVE  Spec => [](YencInv /\ TwoInv)
  <1>1. ASSUME YencInv, TwoInv, [Next]_vars PROVE TwoInv'
    BY <1>1, TwoInvKept
  <1> QED
    BY <1>1, TwoInitially, YencInvariant, PTL DEF Spec

(* For every list of items, set of writers and channel, over two sessions  *)
(* with restarts: a part in work is counted, and a part file that has its  *)
(* name is whole (WriteYenc, YencWriter). Over three sessions it need not  *)
(* be: a writer held up for two of them renames what another one has open. *)
THEOREM PartsAlwaysReady ==
  ASSUME MaxSessions <= 2
  PROVE  Spec => []PartsReady
  <1>1. YencInv /\ TwoInv => PartsReady
    BY DEF YencInv, TwoInv, PartsReady
  <1> QED
    BY <1>1, TwoInvariant, PTL

(* The merge of an ordinary file keeps what is in its .tmp, and takes a    *)
(* part away only when it is there, whatever fails in between.             *)
LEMMA TmpKept ==
  ASSUME TypeOK, MergeInv, NEW f \in Files, Merge(f), ~MergeGivesUpPar(f), ~MergeRenames(f)
  PROVE  \A p \in FileItems(f) : InTmp(p) => InTmp(p)'
  <1>k. MergeAt(f)
    BY DEF MergeInv
  <1>i. \A p \in FileItems(f) : FileOf[p] = f /\ p \in Parts
    BY DEF FileItems
  <1>1. CASE MergeNulls(f) \/ MergeAppends(f)
    <2>1. ItemAt(f) \in Parts
      BY <1>1, <1>k, ItemAtFile DEF MergeNulls, MergeAppends, Merging, Missing, MergeAt
    <2>2. <<"nulls", ItemAt(f)>> \in Pieces /\ <<"torn", ItemAt(f)>> \in Pieces
      BY <2>1 DEF Pieces
    <2>3. \A i \in DOMAIN targetTmp[f] : i \in DOMAIN targetTmp'[f] /\ targetTmp'[f][i] = targetTmp[f][i]
      BY <1>1, <2>2, AppendedTypes DEF MergeNulls, MergeAppends
    <2> QED
      BY <1>i, <2>3 DEF InTmp
  <1>2. CASE MergeSynced(f)
    <2>1. mg[f].at = "copy" /\ targetTmp' = [targetTmp EXCEPT ![f] = Append(Front(@), <<"part", ItemAt(f)>>)]
      BY <1>2 DEF MergeSynced, Merging
    <2>2. /\ Left(f) /\ mg[f].i \in Places(f) /\ targetTmp[f] # <<>>
          /\ targetTmp[f][Len(targetTmp[f])] = <<"torn", ItemAt(f)>>
      BY <1>k, <2>1 DEF MergeAt
    <2>3. ItemAt(f) \in Parts
      BY <2>2, ItemAtFile
    <2>4. <<"part", ItemAt(f)>> \in Pieces
      BY <2>3 DEF Pieces
    <2>5. /\ DOMAIN targetTmp'[f] = DOMAIN targetTmp[f]
          /\ \A i \in DOMAIN targetTmp[f] : i # Len(targetTmp[f]) => targetTmp'[f][i] = targetTmp[f][i]
      BY <2>1, <2>2, <2>4, SyncedTypes
    <2>6. ASSUME NEW p \in FileItems(f), InTmp(p) PROVE InTmp(p)'
      <3>1. PICK i \in DOMAIN targetTmp[f] : targetTmp[f][i] = <<"part", p>>
        BY <1>i, <2>6 DEF InTmp
      <3>2. i # Len(targetTmp[f])
        BY <2>2, <3>1
      <3> QED
        BY <1>i, <2>5, <3>1, <3>2 DEF InTmp
    <2> QED
      BY <2>6
  <1>3. CASE MergeStarts(f) \/ MergeDeletes(f) \/ MergeFails(f)
    <2>1. UNCHANGED targetTmp
      BY <1>3 DEF MergeStarts, MergeDeletes, MergeFails, targets
    <2> QED
      BY <2>1 DEF InTmp
  <1> QED
    BY <1>1, <1>2, <1>3 DEF Merge

LEMMA MergeHolds ==
  ASSUME YencInv, [Next]_vars, NEW f \in Files, Merge(f), f \notin ParFiles, NEW p \in FileItems(f), Holds(f, p)
  PROVE  Holds(f, p)'
  <1>t. TypeOK /\ MergeInv /\ TypeOK' /\ MergeAt(f)
    BY YencTypesKept DEF YencInv, MergeInv
  <1>i. p \in Parts /\ FileOf[p] = f
    BY DEF FileItems
  <1>1. InTmp(p) <=> Contains(targetTmp[f], <<"part", p>>)
    BY <1>t, <1>i, InTmpContains
  <1>2. InTmp(p)' <=> Contains(targetTmp'[f], <<"part", p>>)
    <2>1. f \in Files /\ DOMAIN targetTmp'[f] = 1..Len(targetTmp'[f])
      BY <1>t DEF TypeOK
    <2> QED
      BY <1>i, <2>1 DEF InTmp, Contains
  <1>3. ~MergeGivesUpPar(f)
    BY DEF MergeGivesUpPar
  <1>4. CASE MergeRenames(f)
    <2>1. mg[f].at = "item" /\ UNCHANGED part /\ target[f] = NoFile
      BY <1>4, <1>t DEF MergeRenames, Merging, MergeAt
    <2>2. ~Contains(target[f], <<"part", p>>)
      BY <2>1 DEF Contains, NoFile
    <2>3. ~mg[f].deleted
      BY <1>t DEF MergeAt
    <2>4. target' = [target EXCEPT ![f] = targetTmp[f]]
      BY <1>4, <2>3 DEF MergeRenames
    <2>5. target'[f] = targetTmp[f]
      BY <1>t, <2>4 DEF TypeOK
    <2> QED
      BY <2>1, <2>2, <2>5 DEF Holds
  <1>5. CASE ~MergeRenames(f)
    <2>1. InTmp(p) => InTmp(p)'
      BY <1>t, <1>3, <1>5, TmpKept
    <2>2. UNCHANGED target
      BY <1>5 DEF Merge, MergeStarts, MergeNulls, MergeGivesUpPar, MergeAppends, MergeSynced, MergeDeletes, MergeFails, targets
    <2>3. part'[p] = part[p] \/ InTmp(p)'
      <3>1. CASE MergeDeletes(f) /\ part' = [part EXCEPT ![ItemAt(f)] = "none"]
        <4>1. InTmp(ItemAt(f))
          BY <1>t, <3>1 DEF MergeDeletes, Merging, MergeAt
        <4>2. p = ItemAt(f) => InTmp(p)
          BY <4>1
        <4>3. p # ItemAt(f) => part'[p] = part[p]
          BY <1>t, <1>i, <3>1 DEF TypeOK
        <4> QED
          BY <2>1, <4>2, <4>3
      <3> QED
        BY <1>t, <3>1, MergeParts
    <2> QED
      BY <1>1, <1>2, <2>1, <2>2, <2>3 DEF Holds
  <1> QED
    BY <1>4, <1>5

(* For every list of items, set of writers and channel, over two sessions: *)
(* no step, failure or restart loses a part of an ordinary file that was   *)
(* there (YencMerge, AppendFile, -yencdelparts). Over three sessions the   *)
(* same rename can put a file that is being written in its place.          *)
THEOREM PartsAlwaysKept ==
  ASSUME MaxSessions <= 2
  PROVE  Spec => PartsKept
  <1>1. ASSUME YencInv, TwoInv, [Next]_vars
        PROVE  \A p \in Parts : FileOf[p] \notin ParFiles /\ Holds(FileOf[p], p) => Holds(FileOf[p], p)'
    <2>1. ASSUME NEW p \in Parts, FileOf[p] \notin ParFiles, Holds(FileOf[p], p) PROVE Holds(FileOf[p], p)'
      <3>f. FileOf[p] \in Files /\ p \in FileItems(FileOf[p])
        BY DEF Files, FileItems
      <3>1. ASSUME NEW f \in Files, Merge(f) PROVE Holds(FileOf[p], p)'
        <4>1. CASE f = FileOf[p]
          <5>1. Holds(f, p)'
            BY <1>1, <2>1, <3>f, <3>1, <4>1, MergeHolds
          <5> QED
            BY <4>1, <5>1 DEF Holds
        <4>2. CASE f # FileOf[p]
          <5>1. part'[p] = part[p] /\ target'[FileOf[p]] = target[FileOf[p]] /\ targetTmp'[FileOf[p]] = targetTmp[FileOf[p]]
            BY <1>1, <3>f, <3>1, <4>2, MergeSteps DEF YencInv
          <5> QED
            BY <2>1, <5>1 DEF Holds
        <4> QED
          BY <4>1, <4>2
      <3>2. ASSUME NEW w \in Writers, YencWriter(w) PROVE Holds(FileOf[p], p)'
        <4>1. UNCHANGED <<target, targetTmp>> /\ (part'[p] = part[p] \/ part'[p] = "whole")
          BY <1>1, <3>2, WriterKeeps, WriterParts DEF YencInv, TwoInv
        <4> QED
          BY <2>1, <4>1 DEF Holds
      <3>3. CASE UNCHANGED <<part, target, targetTmp>>
        BY <2>1, <3>3 DEF Holds
      <3> QED
        BY <1>1, <3>1, <3>2, <3>3, Kinds, DownloadKeeps, DividerKeeps, AgainKeeps DEF YencInv
    <2> QED
      BY <2>1
  <1> QED
    BY <1>1, TwoInvariant, PTL DEF PartsKept, Spec
=============================================================================
