------------------------------ MODULE JobQueue ------------------------------
(***************************************************************************)
(* The queue of web jobs (webjobs.go) with what its callers do: the HTTP   *)
(* handlers that upload, start, stop and delete jobs and the shutdown on a *)
(* signal (webserver.go), the one runner, and the sessions it keeps in     *)
(* PROCESSOR.sessMap (Session.go). Every critical section on jq.mu is one  *)
(* action; handlers, runner and shutdown interleave between them.          *)
(*                                                                         *)
(* Abstracted: a job's id is its number, and as jobs are appended under    *)
(* the lock the queue's order is the order of the ids; what a session does *)
(* is Transfer's business, here it loads its NZB, runs, and ends well or   *)
(* with an error. Progress counts and log lines are left out.              *)
(***************************************************************************)
EXTENDS Integers, FiniteSets, FiniteSetsExt

CONSTANTS Handlers,         \* requests served at the same time
          Uploaders,        \* bound: the ones of them that may be uploads
          MaxJobs,          \* bound: jobs added in a run of the model
          maxPendingJobs, maxFinishedJobs, SessThreshold

Ids == 1..MaxJobs
Shutdown == 0    \* the goroutine of webShutdownOnSignal
Actors == Handlers \cup {Shutdown}

ASSUME JobQueueAssumption ==
  /\ Shutdown \notin Handlers /\ Uploaders \subseteq Handlers
  /\ Handlers \cap Ids = {}    \* their files have names of their own
  /\ MaxJobs \in Nat \ {0} /\ maxPendingJobs \in Nat \ {0}
  /\ maxFinishedJobs \in Nat \ {0} /\ SessThreshold \in Nat

VARIABLES status,    \* of each job: "none" before it is added, "gone" once dropped
          stopReq,   \* jobs with stopRequested
          ahead,     \* auxiliary: older jobs already waiting when a job became waiting
          wake,      \* tokens in jq.wake
          runner,    \* where the runner is, its job, and the error of the job
          stopped,   \* jobs whose session's stopChan is closed
          sessMap,   \* jobs whose session is in PROCESSOR.sessMap
          files,     \* owners of the files in webUploadDir: jobs, and handlers before AddJob
          act        \* where each handler and the shutdown is, and the jobs it goes on with

vars == <<status, stopReq, ahead, wake, runner, stopped, sessMap, files, act>>
sessVars == <<runner, stopped, sessMap>>

In(S) == {j \in Ids : status[j] \in S}
Pending == {"queued", "waiting"}
Finished == {"completed", "failed"}
Serving == act[Shutdown].pc = "serving"
exited == act[Shutdown].pc = "exit"
(* No handler accepts a request once webSrv.Shutdown was called.           *)
Idle(h) == act[h].pc = "idle" /\ Serving
NoJob(pc) == [pc |-> pc, job |-> 0, err |-> FALSE]
Goto(a, pc, todo) == act' = [act EXCEPT ![a] = [pc |-> pc, todo |-> todo]]

Init ==
  /\ status = [j \in Ids |-> "none"]
  /\ stopReq = {} /\ ahead = [j \in Ids |-> {}]
  /\ wake = 0
  /\ runner = NoJob("blocked")
  /\ stopped = {} /\ sessMap = {} /\ files = {}
  /\ act = [a \in Actors |-> [pc |-> IF a = Shutdown THEN "serving" ELSE "idle", todo |-> {}]]

finishLocked_KeepsUpload(j, err) ==  \* mutant: the upload stays
  LET done == In(Finished) \cup {j}
      kept == {i \in done : Cardinality({k \in done : k > i}) < maxFinishedJobs}
      result == IF err \/ j \in stopReq THEN "failed" ELSE "completed"
  IN /\ status' = [i \in Ids |-> IF i \in done \ kept THEN "gone"
                                 ELSE IF i = j THEN result ELSE status[i]]
     /\ UNCHANGED files
     /\ stopReq' = stopReq \ (done \ kept)
     /\ ahead' = [ahead EXCEPT ![j] = {}]

(* finishLocked: the job's result, its upload is removed, and the oldest   *)
(* finished jobs beyond maxFinishedJobs are dropped.                       *)
finishLocked(j, err) ==
  LET done == In(Finished) \cup {j}
      kept == {i \in done : Cardinality({k \in done : k > i}) < maxFinishedJobs}
      result == IF err \/ j \in stopReq THEN "failed" ELSE "completed"
  IN /\ status' = [i \in Ids |-> IF i \in done \ kept THEN "gone"
                                 ELSE IF i = j THEN result ELSE status[i]]
     /\ files' = files \ {j}
     /\ stopReq' = stopReq \ (done \ kept)
     /\ ahead' = [ahead EXCEPT ![j] = {}]

-----------------------------------------------------------------------------
(* Uploading: saveUpload writes a file of its own, AddJob parses it before *)
(* it takes the lock.                                                      *)

saveUpload(h) ==
  /\ Idle(h)
  /\ files' = files \cup {h}
  /\ Goto(h, "saved", {})
  /\ UNCHANGED <<status, stopReq, ahead, wake, sessVars>>

AddJob(h) ==
  /\ act[h].pc = "saved" /\ ~exited
  /\ Cardinality(In(Pending)) < maxPendingJobs
  /\ \E j \in Ids :
       /\ status[j] = "none" /\ \A i \in 1..(j - 1) : status[i] # "none"
       /\ status' = [status EXCEPT ![j] = "queued"]
       /\ files' = (files \ {h}) \cup {j}
  /\ Goto(h, "idle", {})
  /\ UNCHANGED <<stopReq, ahead, wake, sessVars>>

(* The NZB does not parse, or the queue is full: handleUpload removes it.  *)
AddJobRefused(h) ==
  /\ act[h].pc = "saved" /\ ~exited
  /\ files' = files \ {h}
  /\ Goto(h, "idle", {})
  /\ UNCHANGED <<status, stopReq, ahead, wake, sessVars>>

-----------------------------------------------------------------------------
(* Starting. StartAllQueued copies the ids and starts them one by one.     *)

StartJob_Silent(j) ==  \* mutant: the runner is not woken
  IF status[j] = "queued"
  THEN /\ status' = [status EXCEPT ![j] = "waiting"]
       /\ ahead' = [ahead EXCEPT ![j] = {i \in In({"waiting"}) : i < j}]
       /\ UNCHANGED wake
  ELSE UNCHANGED <<status, ahead, wake>>

StartJob(j) ==
  IF status[j] = "queued"
  THEN /\ status' = [status EXCEPT ![j] = "waiting"]
       /\ ahead' = [ahead EXCEPT ![j] = {i \in In({"waiting"}) : i < j}]
       /\ wake' = 1    \* a full channel: the runner is already awake
  ELSE UNCHANGED <<status, ahead, wake>>
handleJobStart(h) ==
  /\ Idle(h)
  /\ \E j \in Ids : StartJob(j)
  /\ UNCHANGED <<stopReq, sessVars, files, act>>

handleJobStartAll(h) ==
  /\ Idle(h)
  /\ Goto(h, "startAll", In({"queued"}))
  /\ UNCHANGED <<status, stopReq, ahead, wake, sessVars, files>>

StartNext(h) ==
  /\ act[h].pc = "startAll" /\ act[h].todo # {}
  /\ LET j == Min(act[h].todo) IN StartJob(j) /\ Goto(h, "startAll", act[h].todo \ {j})
  /\ UNCHANGED <<stopReq, sessVars, files>>

StartedAll(h) ==
  /\ act[h].pc = "startAll" /\ act[h].todo = {}
  /\ Goto(h, "idle", {})
  /\ UNCHANGED <<status, stopReq, ahead, wake, sessVars, files>>

-----------------------------------------------------------------------------
(* Stopping. A waiting job is finished at once, a running one is marked    *)
(* under the lock and its session stopped after it.                        *)

StopJob(a, j, pc, todo) ==
  \/ /\ status[j] = "waiting"
     /\ finishLocked(j, TRUE)
     /\ Goto(a, pc, todo)
  \/ /\ status[j] = "running"
     /\ stopReq' = stopReq \cup {j}
     /\ Goto(a, "stopping", todo \cup {j})
     /\ UNCHANGED <<status, ahead, files>>
  \/ /\ status[j] \notin {"waiting", "running"}
     /\ Goto(a, pc, todo)
     /\ UNCHANGED <<status, stopReq, ahead, files>>

handleJobStop(h) ==
  /\ Idle(h)
  /\ \E j \in Ids : StopJob(h, j, "idle", {})
  /\ UNCHANGED <<wake, sessVars>>

StopSession_IfActive(a) ==  \* mutant: a session not launched yet is left alone
  /\ act[a].pc = "stopping" /\ ~exited
  /\ LET j == Min(act[a].todo) IN
       /\ stopped' = IF runner.pc = "launch" THEN stopped ELSE stopped \cup {j}
       /\ Goto(a, IF a = Shutdown THEN "stopAll" ELSE "idle", act[a].todo \ {j})
  /\ UNCHANGED <<status, stopReq, ahead, wake, runner, sessMap, files>>

(* s.stop() of the session read under the lock: its job is the oldest one  *)
(* left to do, as ids are taken in order.                                  *)
StopSession(a) ==
  /\ act[a].pc = "stopping" /\ ~exited
  /\ LET j == Min(act[a].todo) IN
       /\ stopped' = stopped \cup {j}
       /\ Goto(a, IF a = Shutdown THEN "stopAll" ELSE "idle", act[a].todo \ {j})
  /\ UNCHANGED <<status, stopReq, ahead, wake, runner, sessMap, files>>

DeleteJob(h) ==
  /\ Idle(h)
  /\ \E j \in In({"queued"} \cup Finished) :
       /\ status' = [status EXCEPT ![j] = "gone"]
       /\ files' = files \ {j}
       /\ stopReq' = stopReq \ {j}
  /\ UNCHANGED <<ahead, wake, sessVars, act>>

-----------------------------------------------------------------------------
(* The runner: woken, it runs waiting jobs until none is left.             *)

Woken ==
  /\ runner.pc = "blocked" /\ wake = 1 /\ ~exited
  /\ wake' = 0
  /\ runner' = NoJob("next")
  /\ UNCHANGED <<status, stopReq, ahead, stopped, sessMap, files, act>>

nextWaiting ==
  /\ runner.pc = "next" /\ ~exited
  /\ runner' = IF In({"waiting"}) = {} THEN NoJob("blocked")
               ELSE [runner EXCEPT !.pc = "picked", !.job = Min(In({"waiting"}))]
  /\ UNCHANGED <<status, stopReq, ahead, wake, stopped, sessMap, files, act>>

runJob_Stale ==  \* mutant: does not look at the status again
  /\ runner.pc = "picked" /\ ~exited
  /\ sessMap' = sessMap \cup {runner.job}
  /\ status' = [status EXCEPT ![runner.job] = "running"]
  /\ runner' = [runner EXCEPT !.pc = "launch"]
  /\ UNCHANGED <<stopReq, ahead, wake, stopped, files, act>>

(* runJob: canceled since nextWaiting looked, or a new session.            *)
runJob ==
  /\ runner.pc = "picked" /\ ~exited
  /\ IF status[runner.job] = "waiting"
     THEN /\ sessMap' = sessMap \cup {runner.job}
          /\ status' = [status EXCEPT ![runner.job] = "running"]
          /\ runner' = [runner EXCEPT !.pc = "launch"]
     ELSE /\ runner' = NoJob("next")
          /\ UNCHANGED <<sessMap, status>>
  /\ UNCHANGED <<stopReq, ahead, wake, stopped, files, act>>

(* LaunchSession: a session that was stopped already is refused.           *)
Launch ==
  /\ runner.pc = "launch" /\ runner.job \notin stopped /\ ~exited
  /\ runner' = [runner EXCEPT !.pc = "session"]
  /\ UNCHANGED <<status, stopReq, ahead, wake, stopped, sessMap, files, act>>

(* An early return, an NZB or a provider file that cannot be loaded, or a  *)
(* panic that launch recovers: the session is taken out of sessMap.        *)
LaunchFailed ==
  /\ \/ runner.pc = "launch" /\ runner.job \in stopped
     \/ runner.pc = "session"
  /\ ~exited
  /\ sessMap' = sessMap \ {runner.job}
  /\ runner' = [runner EXCEPT !.pc = "finish", !.err = TRUE]
  /\ UNCHANGED <<status, stopReq, ahead, wake, stopped, files, act>>

(* clearSession at the session's end: parked in sessMap, or removed once   *)
(* there are more than SessThreshold.                                      *)
clearSession ==
  /\ runner.pc = "session" /\ ~exited
  /\ sessMap' = IF Cardinality(sessMap) > SessThreshold THEN sessMap \ {runner.job} ELSE sessMap
  /\ runner' = [runner EXCEPT !.pc = "finish", !.err = FALSE]
  /\ UNCHANGED <<status, stopReq, ahead, wake, stopped, files, act>>

finish ==
  /\ runner.pc = "finish" /\ ~exited
  /\ finishLocked(runner.job, runner.err)
  /\ runner' = NoJob("next")
  /\ UNCHANGED <<wake, stopped, sessMap, act>>

-----------------------------------------------------------------------------
(* Shutdown on a signal. webSrv.Shutdown waits 5 s for the handlers: only  *)
(* an upload can take longer, the others do no I/O.                        *)

Signal ==
  /\ Serving
  /\ Goto(Shutdown, "closing", {})
  /\ UNCHANGED <<status, stopReq, ahead, wake, sessVars, files>>

(* stopAll's snapshot of the waiting and running jobs.                     *)
stopAll ==
  /\ act[Shutdown].pc = "closing"
  /\ \A h \in Handlers : act[h].pc \in {"idle", "saved"}
  /\ Goto(Shutdown, "stopAll", In({"waiting", "running"}))
  /\ UNCHANGED <<status, stopReq, ahead, wake, sessVars, files>>

StopNext ==
  /\ act[Shutdown].pc = "stopAll" /\ act[Shutdown].todo # {}
  /\ LET j == Min(act[Shutdown].todo)
     IN StopJob(Shutdown, j, "stopAll", act[Shutdown].todo \ {j})
  /\ UNCHANGED <<wake, sessVars>>

(* waitIdle polls until no job runs.                                       *)
waitIdle ==
  /\ act[Shutdown].pc = "stopAll" /\ act[Shutdown].todo = {}
  /\ In({"running"}) = {}
  /\ Goto(Shutdown, "wasIdle", {})
  /\ UNCHANGED <<status, stopReq, ahead, wake, sessVars, files>>

(* The upload directory is removed and the process exits: after waitIdle   *)
(* or after its 60 s.                                                      *)
Exit ==
  /\ \/ act[Shutdown].pc = "wasIdle"
     \/ act[Shutdown].pc = "stopAll" /\ act[Shutdown].todo = {} /\ In({"running"}) # {}
  /\ files' = {}
  /\ Goto(Shutdown, "exit", {})
  /\ UNCHANGED <<status, stopReq, ahead, wake, sessVars>>

Exited == exited /\ UNCHANGED vars
-----------------------------------------------------------------------------
Upload(h) == saveUpload(h) \/ AddJob(h) \/ AddJobRefused(h)
Request(h) == handleJobStart(h) \/ handleJobStartAll(h) \/ handleJobStop(h) \/ DeleteJob(h)
Continue(h) == StartNext(h) \/ StartedAll(h) \/ StopSession(h)
RunnerStep == Woken \/ nextWaiting \/ runJob \/ Launch \/ finish
SessionOver == clearSession \/ LaunchFailed
ShutdownStep == stopAll \/ StopNext \/ StopSession(Shutdown) \/ waitIdle

Next ==
  \/ \E h \in Uploaders : Upload(h)
  \/ \E h \in Handlers : Request(h) \/ Continue(h)
  \/ RunnerStep \/ SessionOver
  \/ Signal \/ ShutdownStep \/ Exit
  \/ Exited

Spec == Init /\ [][Next]_vars

(* Goroutines run on. That a session ends is only assumed of one that was  *)
(* stopped; Transfer is about the others.                                  *)
FairSpec ==
  /\ Spec
  /\ WF_vars(RunnerStep) /\ WF_vars(runner.job \in stopped /\ SessionOver)
  /\ \A h \in Handlers : WF_vars(Continue(h))
  /\ WF_vars(ShutdownStep)

-----------------------------------------------------------------------------
Statuses == {"none", "queued", "waiting", "running", "completed", "failed", "gone"}

(* The types of the variables. jq.wake holds at most one token, and the    *)
(* runner's job is one that was added.                                     *)
TypeOK ==
  /\ status \in [Ids -> Statuses]
  /\ stopReq \subseteq Ids /\ stopped \subseteq Ids /\ sessMap \subseteq Ids
  /\ ahead \in [Ids -> SUBSET Ids]
  /\ wake \in 0..1
  /\ runner.pc \in {"blocked", "next", "picked", "launch", "session", "finish"}
  /\ runner.pc \in {"picked", "launch", "session", "finish"} => status[runner.job] \notin {"none", "queued"}
  /\ files \subseteq Ids \cup Handlers
  /\ \A a \in Actors : act[a].todo \subseteq Ids

(* The files in webUploadDir are those of the jobs that still need them    *)
(* and of the uploads not yet added: no job loses its NZB to a delete, a   *)
(* stop or a dropped job, and no file is left behind (removeUpload).       *)
UploadsExact ==
  ~exited => files = In(Pending \cup {"running"}) \cup {h \in Handlers : act[h].pc = "saved"}

(* A waiting job is never forgotten: jq.wake has a token or the runner is  *)
(* on its way to nextWaiting. The token is sent without blocking.          *)
NoLostWake == In({"waiting"}) # {} => wake = 1 \/ runner.pc # "blocked"

(* Sessions run one at a time, because they share the global cfg: the one  *)
(* running job is the runner's.                                            *)
OneSession ==
  In({"running"}) = IF runner.pc \in {"launch", "session", "finish"} THEN {runner.job} ELSE {}

(* AddJob's and finishLocked's limits hold whatever the handlers do, and   *)
(* ended sessions do not pile up in sessMap: at most SessThreshold are     *)
(* parked, next to the running one.                                        *)
Bounded ==
  /\ Cardinality(In(Pending)) <= maxPendingJobs
  /\ Cardinality(In(Finished)) <= maxFinishedJobs
  /\ Cardinality(sessMap \ In({"running"})) <= SessThreshold

(* Once the shutdown has seen no job running, none waits to be run while   *)
(* the upload directory is removed under it.                               *)
IdleStaysIdle == act[Shutdown].pc = "wasIdle" => In({"waiting", "running"}) = {}

Moves ==
  {<<"none", "queued">>, <<"queued", "waiting">>, <<"waiting", "running">>,
   <<"waiting", "failed">>, <<"running", "completed">>, <<"running", "failed">>}
  \cup (({"queued", "waiting", "running"} \cup Finished) \X {"gone"})

(* A job moves queued, waiting, running, completed or failed and never     *)
(* back, so it runs at most once; canceled or dropped it never runs; and   *)
(* once StopJob marked it, it does not complete (webjobs.go:14).           *)
Lifecycle ==
  [][\A j \in Ids : /\ status[j] # status'[j] => <<status[j], status'[j]>> \in Moves
                    /\ j \in stopReq => status'[j] # "completed"]_vars

(* The oldest waiting job goes first: a job starts only when the older     *)
(* ones that were waiting before it have started or ended (nextWaiting).   *)
InOrder ==
  [][\A j \in Ids : status[j] = "waiting" /\ status'[j] = "running"
       => \A i \in ahead[j] : status[i] # "waiting"]_vars

(* StopJob's promise: a running job that is asked to stop ends, unless the *)
(* process exits first. (Jobs are finitely many: in the end none is left.) *)
StopEndsJob == <>[](stopReq \cap In({"running"}) = {} \/ exited)

(* If sessions end, every job that was started gets its turn and ends.     *)
SessionsEnd == []<>(runner.pc # "session")
EveryJobEnds == SessionsEnd => <>[](In({"waiting", "running"}) = {} \/ exited)

(* A signal ends the process.                                              *)
SignalExits == (act[Shutdown].pc = "closing") ~> (act[Shutdown].pc \in {"wasIdle", "exit"})
(* The queue is consistent between any two of its critical sections:       *)
(* files, the wake token, the one session, the limits, and a shutdown that *)
(* found nothing to wait for.                                              *)
QueueConsistent ==
  TypeOK /\ UploadsExact /\ NoLostWake /\ OneSession /\ Bounded /\ IdleStaysIdle

(* A job goes forward only, and the jobs start in their order (nextWaiting, *)
(* runJob, StopJob, DeleteJob).                                            *)
JobsGoForward == Lifecycle /\ InOrder
=============================================================================
