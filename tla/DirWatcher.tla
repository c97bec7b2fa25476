----------------------------- MODULE DirWatcher -----------------------------
(***************************************************************************)
(* Directory mode (nzbdir.go): the loop that scans -nzbdir and runs one    *)
(* NZB after the other, the signal that stops it, and who puts files into  *)
(* the directory. The process may be started again after it stopped or was *)
(* killed: what it remembers is lost, the files stay.                      *)
(*                                                                         *)
(* Abstracted: a file is known by the number of its last write, which      *)
(* stands for size and modification time; a scan is one step; a session    *)
(* loads its NZB, runs, and returns nil (also when it was stopped) or an   *)
(* error.                                                                  *)
(***************************************************************************)
EXTENDS Integers, Sequences, FiniteSets, SequencesExt

CONSTANTS Names, MaxWrites, MaxStarts  \* bounds: writes of files, starts of the process

ASSUME DirWatcherAssumption ==
  IsFiniteSet(Names) /\ MaxWrites \in Nat /\ MaxStarts \in Nat \ {0}

VARIABLES dir,      \* the write each name's file in -nzbdir is of; 0: no such file
          moved,    \* the files in done/ and failed/
          clock,    \* the last write
          pending, skip,  \* of the watcher
          todo,     \* the names of the last scan left to process
          pc,       \* where the loop is; todo's head is what it processes
          sess,     \* the session: the write it loaded, and how it ended
          current,  \* w.current is set
          stopped,  \* w.stop is closed
          sessStop, \* the session's stopChan is closed
          stopper,  \* where Stop is
          ran,      \* auxiliary: what sessions ran to their end, not stopped, in this process
          starts

env == <<dir, clock>>
loopVars == <<moved, pending, skip, todo, pc, sess, current, ran>>
stopVars == <<stopped, sessStop, stopper>>
watchVars == <<env, loopVars, stopVars, starts>>

NoSession == [loaded |-> 0, err |-> FALSE]
Fresh ==  \* newDirWatcher's fields
  [pending |-> [n \in Names |-> 0], skip |-> {}]

WatchInit ==
  /\ dir = [n \in Names |-> 0] /\ moved = {} /\ clock = 0
  /\ pending = Fresh.pending /\ skip = Fresh.skip
  /\ todo = <<>> /\ pc = "scan" /\ sess = NoSession /\ current = FALSE /\ ran = {}
  /\ stopped = FALSE /\ sessStop = FALSE /\ stopper = "none"
  /\ starts = 1

-----------------------------------------------------------------------------
(* Someone copies a file in, goes on copying, replaces it, or deletes it.  *)
Write(n) ==
  /\ clock < MaxWrites
  /\ clock' = clock + 1 /\ dir' = [dir EXCEPT ![n] = clock']
  /\ UNCHANGED <<loopVars, stopVars, starts>>

Delete(n) ==
  /\ dir[n] # 0
  /\ dir' = [dir EXCEPT ![n] = 0]
  /\ UNCHANGED <<clock, loopVars, stopVars, starts>>

-----------------------------------------------------------------------------
(* The names of S, sorted by the time of their files (sort.Slice).         *)
OldestFirst(S) ==
  {q \in SetToSeqs(S) : \A i, j \in DOMAIN q : i < j => dir[q[i]] < dir[q[j]]}

scan_KeepsFirstLook ==  \* mutant: a name keeps its first look
  /\ pc = "scan"
  /\ pending' = [n \in Names |-> IF n \in skip THEN 0 ELSE IF pending[n] # 0 THEN pending[n] ELSE dir[n]]
  /\ todo' \in OldestFirst({n \in Names : pending'[n] # 0 /\ pending[n] = dir[n]})
  /\ pc' = "next"
  /\ UNCHANGED <<env, moved, skip, sess, current, ran, stopVars, starts>>

(* loop and scan: the names seen unchanged twice, oldest first.            *)
scan ==
  /\ pc = "scan"
  /\ pending' = [n \in Names |-> IF n \in skip THEN 0 ELSE dir[n]]
  /\ todo' \in OldestFirst({n \in Names : pending'[n] # 0 /\ pending[n] = dir[n]})
  /\ pc' = "next"
  /\ UNCHANGED <<env, moved, skip, sess, current, ran, stopVars, starts>>

loopNext ==
  /\ pc = "next"
  /\ pc' = IF todo = <<>> THEN "select" ELSE IF stopped THEN "returned" ELSE "run"
  /\ UNCHANGED <<env, moved, pending, skip, todo, sess, current, ran, stopVars, starts>>

selectStop ==
  /\ pc = "select" /\ stopped
  /\ pc' = "returned"
  /\ UNCHANGED <<env, moved, pending, skip, todo, sess, current, ran, stopVars, starts>>

selectTick ==
  /\ pc = "select"
  /\ pc' = "scan"
  /\ UNCHANGED <<env, moved, pending, skip, todo, sess, current, ran, stopVars, starts>>

-----------------------------------------------------------------------------
runSession_ReadsStopFirst ==  \* mutant: stop is read first, in a critical section of its own
  /\ \/ pc = "run" /\ pc' = (IF stopped THEN "errStopped" ELSE "create") /\ UNCHANGED current
     \/ pc = "create" /\ pc' = "launch" /\ current' = TRUE
  /\ sessStop' = FALSE /\ sess' = NoSession
  /\ UNCHANGED <<env, moved, pending, skip, todo, ran, stopped, stopper, starts>>

(* runSession: w.current is set and w.stop read under w.mu, so that either *)
(* Stop sees the session or the session sees the stop.                     *)
runSession ==
  /\ pc = "run"
  /\ current' = TRUE /\ sessStop' = FALSE /\ sess' = NoSession
  /\ pc' = IF stopped THEN "errStopped" ELSE "launch"
  /\ UNCHANGED <<env, moved, pending, skip, todo, ran, stopped, stopper, starts>>

(* LaunchSession refuses a stopped session, or loads the NZB; the NZB may  *)
(* be gone.                                                                *)
Launch ==
  /\ pc = "launch"
  /\ IF sessStop \/ dir[Head(todo)] = 0
     THEN pc' = "ended" /\ sess' = [sess EXCEPT !.err = TRUE]
     ELSE pc' = "session" /\ sess' = [sess EXCEPT !.loaded = dir[Head(todo)]]
  /\ UNCHANGED <<env, moved, pending, skip, todo, current, ran, stopVars, starts>>

(* The session returns; an error or a panic that is recovered fails it.    *)
SessionOver ==
  /\ pc = "session"
  /\ \E err \in BOOLEAN : sess' = [sess EXCEPT !.err = err]
  /\ ran' = IF sessStop THEN ran ELSE ran \cup {<<Head(todo), sess.loaded>>}
  /\ pc' = "ended"
  /\ UNCHANGED <<env, moved, pending, skip, todo, current, stopVars, starts>>

(* The deferred functions of runSession, then processOne's look at the     *)
(* stop: the file of a stopped run stays.                                  *)
afterRun ==
  /\ pc \in {"ended", "errStopped"}
  /\ current' = FALSE
  /\ IF pc = "errStopped" \/ stopped
     THEN pc' = "next" /\ todo' = Tail(todo) /\ sess' = NoSession
     ELSE pc' = "move" /\ UNCHANGED <<todo, sess>>
  /\ UNCHANGED <<env, moved, pending, skip, ran, stopVars, starts>>

(* moveInto: an existing name gets a timestamp, nothing is overwritten.    *)
moveInto(n, sub) == moved' = moved \cup {[name |-> n, write |-> dir[n], dir |-> sub]}

Move_NoSkip ==  \* mutant: a file that cannot be moved is not skipped
  /\ pc = "move"
  /\ LET n == Head(todo) IN
       /\ pending' = [pending EXCEPT ![n] = 0]
       /\ \/ /\ dir[n] # 0
             /\ moveInto(n, IF sess.err THEN "failed" ELSE "done")
             /\ dir' = [dir EXCEPT ![n] = 0]
             /\ UNCHANGED skip
          \/ UNCHANGED <<moved, dir, skip>>
  /\ todo' = Tail(todo) /\ pc' = "next" /\ sess' = NoSession
  /\ UNCHANGED <<clock, current, ran, stopVars, starts>>

(* The end of processOne. The move fails if the file is gone or done/      *)
(* cannot be written: the name is skipped until the next start.            *)
Move ==
  /\ pc = "move"
  /\ LET n == Head(todo) IN
       /\ pending' = [pending EXCEPT ![n] = 0]
       /\ \/ /\ dir[n] # 0
             /\ moveInto(n, IF sess.err THEN "failed" ELSE "done")
             /\ dir' = [dir EXCEPT ![n] = 0]
             /\ UNCHANGED skip
          \/ skip' = skip \cup {n} /\ UNCHANGED <<moved, dir>>
  /\ todo' = Tail(todo) /\ pc' = "next" /\ sess' = NoSession
  /\ UNCHANGED <<clock, current, ran, stopVars, starts>>

-----------------------------------------------------------------------------
(* Stop, in the goroutine of dirShutdownOnSignal: w.stop is closed first,  *)
(* then the session is read under w.mu and stopped.                        *)
Stop ==
  /\ stopper = "none" /\ pc # "returned"
  /\ stopped' = TRUE /\ stopper' = "closed"
  /\ UNCHANGED <<env, loopVars, sessStop, starts>>

StopReads_NoSession ==  \* mutant: w.current is not looked at
  /\ stopper = "closed" /\ pc # "returned"
  /\ stopper' = "done"
  /\ UNCHANGED <<env, loopVars, stopped, sessStop, starts>>

StopReads ==
  /\ stopper = "closed" /\ pc # "returned"
  /\ stopper' = IF current THEN "has" ELSE "done"
  /\ UNCHANGED <<env, loopVars, stopped, sessStop, starts>>

StopSession ==
  /\ stopper = "has" /\ pc # "returned"
  /\ sessStop' = TRUE /\ stopper' = "done"
  /\ UNCHANGED <<env, loopVars, stopped, starts>>

(* The process is killed, or ended, and started again.                     *)
StartAgain ==
  /\ starts < MaxStarts
  /\ starts' = starts + 1
  /\ pending' = Fresh.pending /\ skip' = Fresh.skip
  /\ todo' = <<>> /\ pc' = "scan" /\ sess' = NoSession /\ current' = FALSE /\ ran' = {}
  /\ stopped' = FALSE /\ sessStop' = FALSE /\ stopper' = "none"
  /\ UNCHANGED <<env, moved>>

Loop == scan \/ loopNext \/ selectStop \/ selectTick \/ runSession \/ Launch \/ afterRun \/ Move
StopStep == StopReads \/ StopSession

WatchNext ==
  \/ \E n \in Names : Write(n) \/ Delete(n)
  \/ Loop \/ SessionOver \/ Stop \/ StopStep \/ StartAgain
  \/ pc = "returned" /\ UNCHANGED watchVars

WatchSpec == WatchInit /\ [][WatchNext]_watchVars

(* The loop and Stop run on; a stopped session ends; select takes either   *)
(* of two ready cases at random, so not the tick for ever.                 *)
FairWatchSpec ==
  /\ WatchSpec
  /\ WF_watchVars(Loop) /\ SF_watchVars(selectStop) /\ WF_watchVars(StopStep) /\ WF_watchVars(sessStop /\ SessionOver)
-----------------------------------------------------------------------------
(* The types of the variables; w.current is set exactly while runSession   *)
(* has a session, and a session is never of a skipped name.                *)
WatchTypeOK ==
  /\ dir \in [Names -> 0..MaxWrites] /\ pending \in [Names -> 0..MaxWrites]
  /\ moved \subseteq [name : Names, write : 1..MaxWrites, dir : {"done", "failed"}]
  /\ skip \subseteq Names /\ todo \in Seq(Names)
  /\ pc \in {"scan", "next", "select", "run", "errStopped", "launch", "session",
             "ended", "move", "returned"}
  /\ sess \in [loaded : 0..MaxWrites, err : BOOLEAN]
  /\ {stopped, sessStop} \subseteq BOOLEAN
  /\ stopper \in {"none", "closed", "has", "done"}
  /\ current <=> pc \in {"errStopped", "launch", "session", "ended"}
  /\ current => Head(todo) \notin skip

(* A stop reaches the session whatever their order: when Stop returned, a  *)
(* session that is still to be launched or runs was stopped (w.mu).        *)
StopReaches == stopper = "done" /\ pc \in {"launch", "session"} => sessStop

(* "SIGINT/SIGTERM stops the running NZB, which stays in place for the     *)
(* next start" (README.md:171): a file that moves to done/ or failed/ was  *)
(* run to the end, or could not be started; a stopped session returns nil, *)
(* like one that is done.                                                  *)
StoppedStays ==
  [][\A f \in moved' \ moved : sess.loaded # 0 => <<f.name, sess.loaded>> \in ran]_watchVars

(* An NZB that was run is not run again by the same process, also if it    *)
(* could not be moved (w.skip).                                            *)
RunOnce ==
  [][pc = "launch" /\ pc' = "session" => <<Head(todo), sess'.loaded>> \notin ran]_watchVars

(* The watcher loses no file: what it takes out of the directory is in     *)
(* done/ or failed/, and stays there when another of its name comes.       *)
NothingLost ==
  [][/\ moved \subseteq moved'
     /\ pc = "move" /\ pc' = "next" => \A n \in Names : dir'[n] # dir[n] =>
          \E f \in moved' : f.name = n /\ f.write = dir[n]]_watchVars

(* A stopped watcher returns.                                              *)
StopEnds == stopped ~> (pc = "returned" \/ ~stopped)

(* If sessions end, every NZB is taken in the end: none is left in the     *)
(* directory but the ones that could not be moved, or after a stop.        *)
SessionsEnd == []<>(pc # "session")
AllTaken ==
  SessionsEnd => <>[](stopped \/ \A n \in Names : dir[n] # 0 => n \in skip)
(* Between any two steps: types, w.current, and a stop that has reached    *)
(* the session (runSession and Stop meet under w.mu).                      *)
WatcherConsistent == WatchTypeOK /\ StopReaches

(* A file is run once and kept: moved only when it was run to its end, not *)
(* run again, not overwritten (processOne, moveInto, w.skip).              *)
FilesKept == StoppedStays /\ RunOnce /\ NothingLost
=============================================================================
