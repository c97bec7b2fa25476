--------------------------- MODULE JobQueueProofs ---------------------------
(***************************************************************************)
(* Proofs about JobQueue, for every set of handlers and every limit: the   *)
(* queue of web jobs is consistent whatever the handlers, the runner and   *)
(* the shutdown do between its critical sections, and a job goes forward   *)
(* only and in its turn.                                                   *)
(***************************************************************************)
EXTENDS JobQueue, FiniteSetTheorems, WellFoundedInduction, TLAPS

(* What is assumed of the parameters, in the form the proofs use.          *)
LEMMA Parameters ==
  /\ MaxJobs \in Nat /\ MaxJobs > 0 /\ maxPendingJobs \in Nat /\ maxPendingJobs > 0
  /\ maxFinishedJobs \in Nat /\ maxFinishedJobs > 0 /\ SessThreshold \in Nat
  /\ Shutdown \notin Handlers /\ Uploaders \subseteq Handlers /\ Handlers \cap Ids = {}
  /\ Ids \subseteq Nat /\ IsFiniteSet(Ids)
  <1>1. {MaxJobs, maxPendingJobs, maxFinishedJobs} \subseteq Nat \ {0} /\ SessThreshold \in Nat
    BY JobQueueAssumption
  <1>2. /\ MaxJobs \in Nat /\ MaxJobs > 0 /\ maxPendingJobs \in Nat /\ maxPendingJobs > 0
        /\ maxFinishedJobs \in Nat /\ maxFinishedJobs > 0
    BY <1>1
  <1>3. Ids \subseteq Nat /\ IsFiniteSet(Ids)
    BY <1>2, FS_Interval DEF Ids
  <1> QED
    BY <1>1, <1>2, <1>3, JobQueueAssumption

(* A set of jobs has an oldest one.                                        *)
LEMMA Least ==
  ASSUME NEW T, T \subseteq Nat, T # {}
  PROVE  \E x \in T : \A y \in T : x <= y
  <1>1. PICK R : IsWellFoundedOn(R, Nat) /\ \A x, y \in Nat : x < y => <<x, y>> \in R
    <2>1. \A x, y \in Nat : x < y => <<x, y>> \in OpToRel(<, Nat)
      BY DEF OpToRel
    <2> QED
      BY <2>1, NatLessThanWellFounded, Zenon
  <1>2. PICK x \in T : \A y \in T : ~ (<<y, x>> \in R)
    BY <1>1, WFMin, ZenonT(60)
  <1>3. \A y \in T : ~ (y < x)
    BY <1>1, <1>2
  <1> QED
    BY <1>3

(* Min takes the oldest one, as "range jq.jobs" meets it first.            *)
LEMMA Oldest ==
  ASSUME NEW T, T \subseteq Nat, T # {}
  PROVE  Min(T) \in T /\ \A y \in T : Min(T) <= y
  BY Least DEF Min

(* Of a set of jobs, those with fewer than n younger ones are at most n.   *)
LEMMA YoungestBounded ==
  ASSUME NEW done \in SUBSET Ids, NEW n \in Nat, n > 0
  PROVE  Cardinality({i \in done : Cardinality({k \in done : k > i}) < n}) <= n
  <1> DEFINE kept == {i \in done : Cardinality({k \in done : k > i}) < n}
  <1>1. IsFiniteSet(kept) /\ kept \subseteq done /\ kept \subseteq Nat /\ Cardinality(kept) \in Nat
    BY Parameters, FS_Subset, FS_CardinalityType
  <1>2. SUFFICES ASSUME kept # {} PROVE Cardinality(kept) <= n
    BY FS_EmptySet
  <1>3. PICK m \in kept : \A y \in kept : m <= y
    BY <1>1, <1>2, Oldest
  <1>4. Cardinality(kept \ {m}) = Cardinality(kept) - 1
    BY <1>1, <1>3, FS_RemoveElement
  <1> DEFINE younger == {k \in done : k > m}
  <1>5. IsFiniteSet(younger) /\ Cardinality(younger) \in Nat /\ Cardinality(younger) < n
    <2>1. Cardinality(younger) < n
      BY <1>3, Zenon
    <2> QED
      BY <2>1, Parameters, FS_Subset, FS_CardinalityType
  <1>6. kept \ {m} \subseteq younger
    <2> HIDE DEF kept
    <2> QED
      BY <1>1, <1>3
  <1>7. Cardinality(kept \ {m}) <= Cardinality(younger)
    BY <1>5, <1>6, FS_Subset
  <1> HIDE DEF kept, younger
  <1> QED
    BY <1>1, <1>4, <1>5, <1>7

-----------------------------------------------------------------------------
(* Where the goroutines are, and what they know.                           *)
HandlerPCs == {"idle", "saved", "startAll", "stopping"}
ShutdownPCs == {"serving", "closing", "stopAll", "stopping", "wasIdle", "exit"}
RunnerPCs == {"blocked", "next", "picked", "launch", "session", "finish"}
InSession == {"launch", "session", "finish"}

Types ==
  /\ status \in [Ids -> Statuses] /\ stopReq \subseteq Ids /\ stopped \subseteq Ids
  /\ sessMap \subseteq Ids /\ ahead \in [Ids -> SUBSET Ids] /\ wake \in 0..1
  /\ files \subseteq Ids \cup Handlers
  /\ runner \in [pc : RunnerPCs, job : 0..MaxJobs, err : BOOLEAN]
  /\ act \in [Actors -> [pc : HandlerPCs \cup ShutdownPCs, todo : SUBSET Ids]]
  /\ act[Shutdown].pc \in ShutdownPCs /\ \A h \in Handlers : act[h].pc \in HandlerPCs

(* No handler does more than an upload when the shutdown begins to stop    *)
(* the jobs. Every job that waits then is one it will stop, and the one it *)
(* stops outside the lock is not among them.                               *)
StopsAll ==
  /\ act[Shutdown].pc \notin {"serving", "closing"} =>
       \A h \in Handlers : act[h].pc \in {"idle", "saved"}
  /\ \A a \in Actors : act[a].pc = "stopping" => act[a].todo # {}
  /\ act[Shutdown].pc = "stopping" =>
       status[Min(act[Shutdown].todo)] \notin {"none", "queued", "waiting"}
  /\ act[Shutdown].pc \in {"stopAll", "stopping"} =>
       \A j \in Ids : status[j] = "waiting" => j \in act[Shutdown].todo
  /\ act[Shutdown].pc = "wasIdle" => \A j \in Ids : status[j] \notin {"waiting", "running"}

(* The runner's job was added and started, it is the one that runs, and    *)
(* nobody it was behind waits any more when the runner has picked it.      *)
RunnerInv ==
  /\ runner.pc \in {"picked"} \cup InSession =>
       runner.job \in Ids /\ status[runner.job] \notin {"none", "queued"}
  /\ \A j \in Ids : status[j] = "running" <=> runner.pc \in InSession /\ runner.job = j
  /\ runner.pc = "picked" /\ status[runner.job] = "waiting" =>
       \A i \in ahead[runner.job] : status[i] # "waiting"
  /\ \A j \in Ids : status[j] = "waiting" => wake = 1 \/ runner.pc # "blocked"

(* Who was ahead of a job is older, and was started before it.             *)
JobsInv ==
  /\ \A j \in Ids : \A i \in ahead[j] : i < j /\ status[i] \notin {"none", "queued"}
  /\ \A j \in stopReq : status[j] # "completed"

FilesInv ==
  ~exited => /\ \A j \in Ids : j \in files <=> status[j] \in {"queued", "waiting", "running"}
             /\ \A h \in Handlers : h \in files <=> act[h].pc = "saved"

(* A session that is over is parked within the limit, before its job is.   *)
Limits == Bounded /\ (runner.pc = "finish" => Cardinality(sessMap) <= SessThreshold)

IInv == Types /\ StopsAll /\ RunnerInv /\ JobsInv /\ FilesInv /\ Limits

-----------------------------------------------------------------------------
(* The limits hold as long as no set they are about grows.                 *)
LEMMA BoundedKept ==
  ASSUME Types, Bounded,
         \A j \in Ids : status'[j] \in Pending => status[j] \in Pending,
         \A j \in Ids : status'[j] \in Finished => status[j] \in Finished,
         \A j \in sessMap' : status'[j] # "running" => j \in sessMap /\ status[j] # "running",
         sessMap' \subseteq Ids
  PROVE  Bounded'
  <1>1. /\ In(Pending)' \subseteq In(Pending) /\ In(Finished)' \subseteq In(Finished)
        /\ (sessMap \ In({"running"}))' \subseteq sessMap \ In({"running"})
    BY DEF In, Types
  <1>2. /\ IsFiniteSet(In(Pending)) /\ IsFiniteSet(In(Finished))
        /\ IsFiniteSet(sessMap \ In({"running"}))
    BY Parameters, FS_Subset, FS_Difference DEF In, Types
  <1>3. /\ Cardinality(In(Pending)') <= Cardinality(In(Pending))
        /\ Cardinality(In(Finished)') <= Cardinality(In(Finished))
        /\ Cardinality((sessMap \ In({"running"}))') <= Cardinality(sessMap \ In({"running"}))
    BY <1>1, <1>2, FS_Subset
  <1>4. /\ {Cardinality(In(Pending)), Cardinality(In(Finished)),
            Cardinality(sessMap \ In({"running"})), Cardinality(In(Pending)'),
            Cardinality(In(Finished)'), Cardinality((sessMap \ In({"running"}))')} \subseteq Nat
    BY <1>1, <1>2, FS_Subset, FS_CardinalityType
  <1> QED
    BY <1>3, <1>4, Parameters DEF Bounded

(* With a bounded number of finished jobs the limits hold when no other set *)
(* grows: what finishLocked must see to.                                    *)
LEMMA BoundedFinished ==
  ASSUME Types, Bounded, sessMap' \subseteq Ids,
         Cardinality(In(Finished)') <= maxFinishedJobs,
         \A j \in Ids : status'[j] \in Pending => status[j] \in Pending,
         (sessMap \ In({"running"}))' \subseteq sessMap \ In({"running"})
  PROVE  Bounded'
  <1>1. In(Pending)' \subseteq In(Pending)
    BY DEF In
  <1>2. IsFiniteSet(In(Pending)) /\ IsFiniteSet(sessMap \ In({"running"}))
    BY Parameters, FS_Subset, FS_Difference DEF In, Types
  <1>3. /\ Cardinality(In(Pending)') <= Cardinality(In(Pending))
        /\ Cardinality((sessMap \ In({"running"}))') <= Cardinality(sessMap \ In({"running"}))
    BY <1>1, <1>2, FS_Subset
  <1>4. {Cardinality(In(Pending)), Cardinality(sessMap \ In({"running"})),
         Cardinality(In(Pending)'), Cardinality((sessMap \ In({"running"}))')} \subseteq Nat
    BY <1>1, <1>2, FS_Subset, FS_CardinalityType
  <1> QED
    BY <1>3, <1>4, Parameters DEF Bounded

(* What finishLocked does to the jobs: the finished one gets its result, or *)
(* is dropped like other finished ones, of which a bounded number remains.  *)
LEMMA FinishEffect ==
  ASSUME Types, NEW j \in Ids, NEW err \in BOOLEAN, finishLocked(j, err)
  PROVE  /\ status' \in [Ids -> Statuses]
         /\ status'[j] \in {"completed", "failed", "gone"}
         /\ err \/ j \in stopReq => status'[j] # "completed"
         /\ \A i \in Ids \ {j} : \/ status'[i] = status[i]
                                 \/ status[i] \in Finished /\ status'[i] = "gone"
         /\ files' = files \ {j} /\ stopReq' \subseteq stopReq
         /\ ahead' = [ahead EXCEPT ![j] = {}]
         /\ Cardinality(In(Finished)') <= maxFinishedJobs
  <1> DEFINE done == In(Finished) \cup {j}
             kept == {i \in done : Cardinality({k \in done : k > i}) < maxFinishedJobs}
             result == IF err \/ j \in stopReq THEN "failed" ELSE "completed"
  <1>1. /\ status' = [i \in Ids |-> IF i \in done \ kept THEN "gone"
                                    ELSE IF i = j THEN result ELSE status[i]]
        /\ files' = files \ {j} /\ stopReq' = stopReq \ (done \ kept)
        /\ ahead' = [ahead EXCEPT ![j] = {}]
    BY DEF finishLocked
  <1>2. done \in SUBSET Ids /\ \A i \in done : i = j \/ status[i] \in Finished
    BY DEF In
  <1>3. Cardinality(kept) <= maxFinishedJobs
    BY <1>2, Parameters, YoungestBounded
  <1>4. kept \subseteq done /\ kept \subseteq Ids
    BY <1>2
  <1>5. \A i \in Ids : status[i] \in Finished => i \in done
    BY DEF In
  <1>r. result \in Finished /\ j \in done
    BY DEF Finished
  <1>f. err \/ j \in stopReq => result = "failed"
    OBVIOUS
  <1> HIDE DEF done, kept, result
  <1>6. In(Finished)' = kept
    <2>1. \A i \in Ids : i \in kept => status'[i] \in Finished
      BY <1>1, <1>2, <1>4, <1>r DEF Finished
    <2>2. \A i \in Ids : status'[i] \in Finished => i \in kept
      BY <1>1, <1>2, <1>5, <1>r DEF Finished
    <2> QED
      BY <2>1, <2>2, <1>4 DEF In
  <1> QED
    <2>1. status' \in [Ids -> Statuses]
      BY <1>1, <1>r DEF Types, Statuses, Finished
    <2>2. status'[j] \in {"completed", "failed", "gone"}
      BY <1>1, <1>r DEF Finished
    <2>3. err \/ j \in stopReq => status'[j] # "completed"
      <3>1. status'[j] = "gone" \/ status'[j] = result
        BY <1>1
      <3>2. result = "failed" => status'[j] # "completed"
        BY <3>1
      <3> QED
        BY <1>f, <3>2, Zenon
    <2>4. \A i \in Ids \ {j} : status'[i] = status[i] \/ (status[i] \in Finished /\ status'[i] = "gone")
      BY <1>1, <1>2
    <2> QED
      BY <1>1, <1>3, <1>6, <2>1, <2>2, <2>3, <2>4

-----------------------------------------------------------------------------
(* An actor that only goes on leaves the jobs, the runner and the limits   *)
(* as they are.                                                            *)
LEMMA OnlyActs ==
  ASSUME IInv, UNCHANGED <<status, stopReq, ahead, wake, runner, sessMap>>,
         Types', StopsAll', FilesInv'
  PROVE  IInv'
  <1>1. RunnerInv' /\ JobsInv'
    BY DEF IInv, RunnerInv, JobsInv
  <1>2. Limits'
    BY DEF IInv, Limits, Bounded, In
  <1> QED
    BY <1>1, <1>2 DEF IInv

(* Where the actor that goes on is then, and that the others stay.         *)
LEMMA GotoEffect ==
  ASSUME Types, NEW a \in Actors, NEW pc \in HandlerPCs \cup ShutdownPCs,
         NEW todo \in SUBSET Ids, Goto(a, pc, todo),
         a = Shutdown => pc \in ShutdownPCs, a # Shutdown => pc \in HandlerPCs
  PROVE  /\ act' \in [Actors -> [pc : HandlerPCs \cup ShutdownPCs, todo : SUBSET Ids]]
         /\ act'[a].pc = pc /\ act'[a].todo = todo
         /\ \A b \in Actors \ {a} : act'[b] = act[b]
         /\ act'[Shutdown].pc \in ShutdownPCs /\ \A h \in Handlers : act'[h].pc \in HandlerPCs
  BY Parameters DEF Types, Goto, Actors

(* A handler that starts, stops or deletes jobs does so before the shutdown *)
(* begins to stop them, and is not the shutdown.                            *)
LEMMA HandlerAtWork ==
  ASSUME IInv, NEW h \in Handlers, Idle(h) \/ act[h].pc \in {"startAll", "stopping"}
  PROVE  /\ act[Shutdown].pc \in {"serving", "closing"}
         /\ h \in Actors /\ h # Shutdown /\ Shutdown \in Actors
  BY Parameters DEF IInv, StopsAll, Types, Idle, Serving, Actors, ShutdownPCs

(* The job to start or stop next is one of those left to do.               *)
LEMMA NextTodo ==
  ASSUME IInv, NEW a \in Actors, act[a].todo # {}
  PROVE  Min(act[a].todo) \in act[a].todo /\ Min(act[a].todo) \in Ids
  <1>1. act[a].todo \subseteq Ids
    BY DEF IInv, Types
  <1>2. act[a].todo \subseteq Nat
    BY <1>1, Parameters
  <1> QED
    BY <1>1, <1>2, Oldest

(* Uploads: a file more, a job more if there is room, or the file is gone. *)
LEMMA StepUpload ==
  ASSUME IInv, NEW h \in Uploaders, Upload(h)
  PROVE  IInv'
  <1>0. h \in Handlers /\ h \in Actors /\ h # Shutdown /\ Shutdown \in Actors /\ h \notin Ids
    BY Parameters DEF Actors
  <1>1. CASE saveUpload(h)
    <2>1. /\ act' \in [Actors -> [pc : HandlerPCs \cup ShutdownPCs, todo : SUBSET Ids]]
          /\ act'[h].pc = "saved"
          /\ \A b \in Actors \ {h} : act'[b] = act[b]
          /\ act'[Shutdown].pc \in ShutdownPCs /\ \A k \in Handlers : act'[k].pc \in HandlerPCs
      BY <1>0, <1>1, GotoEffect DEF IInv, saveUpload, HandlerPCs
    <2>2. Types'
      BY <1>0, <1>1, <2>1 DEF IInv, Types, saveUpload, sessVars
    <2>3. StopsAll'
      BY <1>0, <1>1, <2>1 DEF IInv, StopsAll, saveUpload, Actors
    <2>4. FilesInv'
      BY <1>0, <1>1, <2>1, Parameters DEF IInv, FilesInv, saveUpload, exited, Actors
    <2> QED
      BY <1>1, <2>2, <2>3, <2>4, OnlyActs DEF saveUpload, sessVars
  <1>2. CASE AddJobRefused(h)
    <2>1. /\ act' \in [Actors -> [pc : HandlerPCs \cup ShutdownPCs, todo : SUBSET Ids]]
          /\ act'[h].pc = "idle"
          /\ \A b \in Actors \ {h} : act'[b] = act[b]
          /\ act'[Shutdown].pc \in ShutdownPCs /\ \A k \in Handlers : act'[k].pc \in HandlerPCs
      BY <1>0, <1>2, GotoEffect DEF IInv, AddJobRefused, HandlerPCs
    <2>2. Types'
      BY <1>0, <1>2, <2>1 DEF IInv, Types, AddJobRefused, sessVars
    <2>3. StopsAll'
      BY <1>0, <1>2, <2>1 DEF IInv, StopsAll, AddJobRefused, Actors
    <2>4. FilesInv'
      BY <1>0, <1>2, <2>1, Parameters DEF IInv, FilesInv, AddJobRefused, exited, Actors
    <2> QED
      BY <1>2, <2>2, <2>3, <2>4, OnlyActs DEF AddJobRefused, sessVars
  <1>3. CASE AddJob(h)
    <2>1. /\ act' \in [Actors -> [pc : HandlerPCs \cup ShutdownPCs, todo : SUBSET Ids]]
          /\ act'[h].pc = "idle"
          /\ \A b \in Actors \ {h} : act'[b] = act[b]
          /\ act'[Shutdown].pc \in ShutdownPCs /\ \A k \in Handlers : act'[k].pc \in HandlerPCs
      BY <1>0, <1>3, GotoEffect DEF IInv, AddJob, HandlerPCs
    <2>2. PICK j \in Ids : /\ status[j] = "none"
                           /\ status' = [status EXCEPT ![j] = "queued"]
                           /\ files' = (files \ {h}) \cup {j}
      BY <1>3 DEF AddJob
    <2>3. Types'
      BY <1>0, <1>3, <2>1, <2>2 DEF IInv, Types, AddJob, sessVars, Statuses
    <2>4. StopsAll'
      <3>1. act[Shutdown].pc = "stopping" => Min(act[Shutdown].todo) \in Ids
        BY <1>0, NextTodo DEF IInv, StopsAll
      <3> QED
        BY <1>0, <1>3, <2>1, <2>2, <3>1 DEF IInv, Types, StopsAll, AddJob, Actors
    <2>5. RunnerInv' /\ JobsInv'
      BY <1>3, <2>2 DEF IInv, Types, RunnerInv, JobsInv, AddJob, sessVars, InSession
    <2>6. FilesInv'
      BY <1>0, <1>3, <2>1, <2>2, Parameters DEF IInv, Types, FilesInv, AddJob, exited, Actors
    <2>7. Limits'
      <3>1. In(Pending)' = In(Pending) \cup {j} /\ j \notin In(Pending)
        BY <2>2 DEF IInv, Types, In, Pending
      <3>2. IsFiniteSet(In(Pending))
        BY Parameters, FS_Subset DEF In
      <3>3. /\ Cardinality(In(Pending)') = Cardinality(In(Pending)) + 1
            /\ Cardinality(In(Pending)) \in Nat
        BY <3>1, <3>2, FS_AddElement, FS_CardinalityType
      <3>4. Cardinality(In(Pending)') <= maxPendingJobs
        BY <1>3, <3>3, Parameters DEF AddJob
      <3>5. In(Finished)' = In(Finished) /\ In({"running"})' = In({"running"})
        BY <2>2 DEF IInv, Types, In, Finished
      <3> QED
        BY <1>3, <3>4, <3>5 DEF IInv, Limits, Bounded, AddJob, sessVars
    <2> QED
      BY <2>3, <2>4, <2>5, <2>6, <2>7 DEF IInv
  <1> QED
    BY <1>1, <1>2, <1>3 DEF Upload

-----------------------------------------------------------------------------
(* StartJob keeps what is known of the runner and of the jobs.             *)
LEMMA StartKeeps ==
  ASSUME IInv, NEW j \in Ids, StartJob(j), UNCHANGED <<stopReq, sessVars>>
  PROVE  /\ status' \in [Ids -> Statuses] /\ ahead' \in [Ids -> SUBSET Ids] /\ wake' \in 0..1
         /\ RunnerInv' /\ JobsInv' /\ Limits'
         /\ \A i \in Ids : status'[i] \in {"queued", "waiting", "running"}
                             <=> status[i] \in {"queued", "waiting", "running"}
  <1>1. CASE status[j] # "queued"
    <2>1. UNCHANGED <<status, ahead, wake, stopReq, runner, stopped, sessMap>>
      BY <1>1 DEF StartJob, sessVars
    <2> QED
      BY <2>1 DEF IInv, Types, RunnerInv, JobsInv, Limits, Bounded, In
  <1>2. CASE status[j] = "queued"
    <2>1. /\ status' = [status EXCEPT ![j] = "waiting"]
          /\ ahead' = [ahead EXCEPT ![j] = {i \in In({"waiting"}) : i < j}]
          /\ wake' = 1 /\ UNCHANGED <<stopReq, runner, stopped, sessMap>>
      BY <1>2 DEF StartJob, sessVars
    <2>2. \A i \in {i \in In({"waiting"}) : i < j} : i \in Ids /\ i < j /\ status[i] = "waiting"
      BY DEF In
    <2>3. status' \in [Ids -> Statuses] /\ wake' \in 0..1
      BY <2>1 DEF IInv, Types, Statuses
    <2>4. ahead' \in [Ids -> SUBSET Ids]
      BY <2>1, <2>2 DEF IInv, Types
    <2>5. RunnerInv'
      BY <1>2, <2>1 DEF IInv, Types, RunnerInv, JobsInv, InSession
    <2>6. JobsInv'
      BY <1>2, <2>1, <2>2 DEF IInv, Types, JobsInv
    <2>7. Bounded'
      BY <1>2, <2>1, BoundedKept DEF IInv, Types, Limits, Pending, Finished
    <2>8. Limits'
      BY <2>1, <2>7 DEF IInv, Limits
    <2>9. \A i \in Ids : status'[i] \in {"queued", "waiting", "running"}
                           <=> status[i] \in {"queued", "waiting", "running"}
      BY <1>2, <2>1 DEF IInv, Types
    <2> QED
      BY <2>3, <2>4, <2>5, <2>6, <2>8, <2>9
  <1> QED
    BY <1>1, <1>2

(* StopJob, of a handler or of the shutdown, does so too.                  *)
LEMMA StopKeeps ==
  ASSUME IInv, NEW a, NEW j \in Ids, NEW pc, NEW todo, StopJob(a, j, pc, todo),
         UNCHANGED <<wake, sessVars>>
  PROVE  /\ status' \in [Ids -> Statuses] /\ ahead' \in [Ids -> SUBSET Ids]
         /\ stopReq' \subseteq Ids /\ files' = IF status[j] = "waiting" THEN files \ {j} ELSE files
         /\ RunnerInv' /\ JobsInv' /\ Limits'
         /\ \A i \in Ids : status'[i] \in {"queued", "waiting", "running"}
                             <=> status[i] \in {"queued", "waiting", "running"}
                                 /\ ~ (i = j /\ status[j] = "waiting")
         /\ \A i \in Ids : status'[i] = "waiting" => status[i] = "waiting" /\ i # j
  <1>1. CASE status[j] = "waiting"
    <2>1. finishLocked(j, TRUE) /\ UNCHANGED <<wake, runner, stopped, sessMap>>
      BY <1>1 DEF StopJob, sessVars
    <2>2. /\ status' \in [Ids -> Statuses]
          /\ status'[j] \in {"failed", "gone"}
          /\ \A i \in Ids \ {j} : \/ status'[i] = status[i]
                                  \/ status[i] \in Finished /\ status'[i] = "gone"
          /\ files' = files \ {j} /\ stopReq' \subseteq stopReq
          /\ ahead' = [ahead EXCEPT ![j] = {}]
          /\ Cardinality(In(Finished)') <= maxFinishedJobs
      BY <2>1, FinishEffect DEF IInv
    <2>3. ahead' \in [Ids -> SUBSET Ids] /\ stopReq' \subseteq Ids
      BY <2>2 DEF IInv, Types
    <2>4. RunnerInv'
      BY <1>1, <2>1, <2>2 DEF IInv, Types, RunnerInv, JobsInv, InSession, Finished
    <2>5. JobsInv'
      BY <1>1, <2>2 DEF IInv, Types, JobsInv, Finished
    <2>6. Limits'
      <3>1. sessMap' \ In({"running"})' \subseteq sessMap \ In({"running"})
        BY <1>1, <2>1, <2>2 DEF In, Finished
      <3>2. \A i \in Ids : status'[i] \in Pending => status[i] \in Pending
        BY <1>1, <2>2 DEF Pending, Finished
      <3>3. Bounded'
        BY <2>1, <2>2, <3>1, <3>2, BoundedFinished DEF IInv, Types, Limits
      <3> QED
        BY <2>1, <3>3 DEF IInv, Limits
    <2>7. \A i \in Ids : status'[i] \in {"queued", "waiting", "running"}
                             <=> status[i] \in {"queued", "waiting", "running"} /\ i # j
      BY <1>1, <2>2 DEF Finished
    <2>8. \A i \in Ids : status'[i] = "waiting" => status[i] = "waiting" /\ i # j
      BY <2>2 DEF Finished
    <2> QED
      BY <1>1, <2>2, <2>3, <2>4, <2>5, <2>6, <2>7, <2>8
  <1>2. CASE status[j] # "waiting"
    <2>1. /\ UNCHANGED <<status, ahead, files, wake, runner, stopped, sessMap>>
          /\ stopReq' = stopReq \/ (stopReq' = stopReq \cup {j} /\ status[j] = "running")
      BY <1>2 DEF StopJob, sessVars
    <2>2. RunnerInv' /\ Limits'
      BY <2>1 DEF IInv, RunnerInv, Limits, Bounded, In
    <2>3. JobsInv' /\ stopReq' \subseteq Ids
      BY <2>1 DEF IInv, Types, JobsInv
    <2> QED
      BY <1>2, <2>1, <2>2, <2>3 DEF IInv, Types
  <1> QED
    BY <1>1, <1>2

(* Requests to start, stop and delete jobs, before the shutdown.           *)
LEMMA StepRequest ==
  ASSUME IInv, NEW h \in Handlers, Request(h)
  PROVE  IInv'
  <1>0. /\ act[Shutdown].pc \in {"serving", "closing"} /\ ~exited
        /\ h \in Actors /\ h # Shutdown /\ Shutdown \in Actors /\ Idle(h) /\ h \notin Ids
    BY HandlerAtWork, Parameters
       DEF Request, handleJobStart, handleJobStartAll, handleJobStop, DeleteJob, exited
  <1>1. CASE handleJobStart(h)
    <2>1. PICK j \in Ids : StartJob(j) /\ UNCHANGED <<stopReq, sessVars, files, act>>
      BY <1>1 DEF handleJobStart
    <2>2. /\ status' \in [Ids -> Statuses] /\ ahead' \in [Ids -> SUBSET Ids] /\ wake' \in 0..1
          /\ RunnerInv' /\ JobsInv' /\ Limits'
          /\ \A i \in Ids : status'[i] \in {"queued", "waiting", "running"}
                              <=> status[i] \in {"queued", "waiting", "running"}
      BY <2>1, StartKeeps
    <2>3. Types'
      BY <2>1, <2>2 DEF IInv, Types, sessVars
    <2>4. StopsAll' /\ FilesInv'
      BY <1>0, <2>1, <2>2 DEF IInv, StopsAll, FilesInv, exited
    <2> QED
      BY <2>2, <2>3, <2>4 DEF IInv
  <1>2. CASE handleJobStartAll(h)
    <2>1. In({"queued"}) \in SUBSET Ids
      BY DEF In
    <2>2. /\ act' \in [Actors -> [pc : HandlerPCs \cup ShutdownPCs, todo : SUBSET Ids]]
          /\ act'[h].pc = "startAll"
          /\ \A b \in Actors \ {h} : act'[b] = act[b]
          /\ act'[Shutdown].pc \in ShutdownPCs /\ \A k \in Handlers : act'[k].pc \in HandlerPCs
      BY <1>0, <1>2, <2>1, GotoEffect DEF IInv, handleJobStartAll, HandlerPCs
    <2>3. UNCHANGED <<status, stopReq, ahead, wake, runner, stopped, sessMap, files>>
      BY <1>2 DEF handleJobStartAll, sessVars
    <2>4. Types' /\ StopsAll'
      BY <1>0, <2>2, <2>3 DEF IInv, Types, StopsAll, Actors
    <2>5. FilesInv'
      BY <1>0, <2>2, <2>3 DEF IInv, FilesInv, exited, Idle, Actors
    <2> QED
      BY <2>3, <2>4, <2>5, OnlyActs
  <1>3. CASE handleJobStop(h)
    <2>1. PICK j \in Ids : StopJob(h, j, "idle", {}) /\ UNCHANGED <<wake, sessVars>>
      BY <1>3 DEF handleJobStop
    <2>2. /\ status' \in [Ids -> Statuses] /\ ahead' \in [Ids -> SUBSET Ids]
          /\ stopReq' \subseteq Ids /\ files' = IF status[j] = "waiting" THEN files \ {j} ELSE files
          /\ RunnerInv' /\ JobsInv' /\ Limits'
          /\ \A i \in Ids : status'[i] \in {"queued", "waiting", "running"}
                              <=> status[i] \in {"queued", "waiting", "running"}
                                  /\ ~ (i = j /\ status[j] = "waiting")
      BY <2>1, StopKeeps
    <2>3. Goto(h, "idle", {}) \/ Goto(h, "stopping", {j})
      BY <2>1 DEF StopJob
    <2>4. /\ act' \in [Actors -> [pc : HandlerPCs \cup ShutdownPCs, todo : SUBSET Ids]]
          /\ act'[h].pc = "idle" \/ (act'[h].pc = "stopping" /\ act'[h].todo # {})
          /\ \A b \in Actors \ {h} : act'[b] = act[b]
          /\ act'[Shutdown].pc \in ShutdownPCs /\ \A k \in Handlers : act'[k].pc \in HandlerPCs
      BY <1>0, <2>3, GotoEffect DEF IInv, HandlerPCs
    <2>5. Types'
      BY <1>0, <2>1, <2>2, <2>4 DEF IInv, Types, sessVars
    <2>6. StopsAll'
      BY <1>0, <2>4 DEF IInv, StopsAll, Actors
    <2>7. FilesInv'
      BY <1>0, <2>2, <2>4, Parameters DEF IInv, FilesInv, exited, Idle, Actors
    <2> QED
      BY <2>2, <2>5, <2>6, <2>7 DEF IInv
  <1>4. CASE DeleteJob(h)
    <2>1. PICK j \in Ids : /\ status[j] \in {"queued"} \cup Finished
                           /\ status' = [status EXCEPT ![j] = "gone"]
                           /\ files' = files \ {j} /\ stopReq' = stopReq \ {j}
      BY <1>4 DEF DeleteJob, In
    <2>2. UNCHANGED <<ahead, wake, runner, stopped, sessMap, act>>
      BY <1>4 DEF DeleteJob, sessVars
    <2>3. Types'
      BY <2>1, <2>2 DEF IInv, Types, Statuses
    <2>4. StopsAll'
      BY <1>0, <2>2 DEF IInv, StopsAll
    <2>5. RunnerInv' /\ JobsInv'
      BY <2>1, <2>2 DEF IInv, Types, RunnerInv, JobsInv, InSession, Finished
    <2>6. FilesInv'
      BY <2>1, <2>2, Parameters DEF IInv, Types, FilesInv, exited, Finished
    <2>7. Bounded'
      BY <2>1, <2>2, BoundedKept DEF IInv, Types, Limits, Pending, Finished
    <2>8. Limits'
      BY <2>2, <2>7 DEF IInv, Limits
    <2> QED
      BY <2>3, <2>4, <2>5, <2>6, <2>8 DEF IInv
  <1> QED
    BY <1>1, <1>2, <1>3, <1>4 DEF Request

(* StartAllQueued goes on with the next of the jobs it saw queued.         *)
LEMMA StepStartAll ==
  ASSUME IInv, NEW h \in Handlers, StartNext(h) \/ StartedAll(h)
  PROVE  IInv'
  <1>0. /\ act[Shutdown].pc \in {"serving", "closing"} /\ ~exited /\ act[h].pc = "startAll"
        /\ h \in Actors /\ h # Shutdown /\ Shutdown \in Actors /\ h \notin Ids
    BY HandlerAtWork, Parameters DEF StartNext, StartedAll, exited
  <1>1. CASE StartNext(h)
    <2> DEFINE j == Min(act[h].todo)
               rest == act[h].todo \ {j}
    <2>1. j \in Ids /\ rest \in SUBSET Ids
      BY <1>0, <1>1, NextTodo DEF StartNext, IInv, Types
    <2>2. StartJob(j) /\ Goto(h, "startAll", rest) /\ UNCHANGED <<stopReq, sessVars, files>>
      BY <1>1 DEF StartNext
    <2> HIDE DEF j, rest
    <2>3. /\ status' \in [Ids -> Statuses] /\ ahead' \in [Ids -> SUBSET Ids] /\ wake' \in 0..1
          /\ RunnerInv' /\ JobsInv' /\ Limits'
          /\ \A i \in Ids : status'[i] \in {"queued", "waiting", "running"}
                              <=> status[i] \in {"queued", "waiting", "running"}
      BY <2>1, <2>2, StartKeeps
    <2>4. /\ act' \in [Actors -> [pc : HandlerPCs \cup ShutdownPCs, todo : SUBSET Ids]]
          /\ act'[h].pc = "startAll"
          /\ \A b \in Actors \ {h} : act'[b] = act[b]
          /\ act'[Shutdown].pc \in ShutdownPCs /\ \A k \in Handlers : act'[k].pc \in HandlerPCs
      BY <1>0, <2>1, <2>2, GotoEffect DEF IInv, HandlerPCs
    <2>5. Types'
      BY <2>2, <2>3, <2>4 DEF IInv, Types, sessVars
    <2>6. StopsAll'
      BY <1>0, <2>4 DEF IInv, StopsAll, Actors
    <2>7. FilesInv'
      BY <1>0, <2>2, <2>3, <2>4 DEF IInv, FilesInv, exited, Actors
    <2> QED
      BY <2>3, <2>5, <2>6, <2>7 DEF IInv
  <1>2. CASE StartedAll(h)
    <2>1. /\ act' \in [Actors -> [pc : HandlerPCs \cup ShutdownPCs, todo : SUBSET Ids]]
          /\ act'[h].pc = "idle"
          /\ \A b \in Actors \ {h} : act'[b] = act[b]
          /\ act'[Shutdown].pc \in ShutdownPCs /\ \A k \in Handlers : act'[k].pc \in HandlerPCs
      BY <1>0, <1>2, GotoEffect DEF IInv, StartedAll, HandlerPCs
    <2>2. UNCHANGED <<status, stopReq, ahead, wake, runner, stopped, sessMap, files>>
      BY <1>2 DEF StartedAll, sessVars
    <2>3. Types' /\ StopsAll'
      BY <1>0, <2>1, <2>2 DEF IInv, Types, StopsAll, Actors
    <2>4. FilesInv'
      BY <1>0, <2>1, <2>2 DEF IInv, FilesInv, exited, Actors
    <2> QED
      BY <2>2, <2>3, <2>4, OnlyActs
  <1> QED
    BY <1>1, <1>2

-----------------------------------------------------------------------------
(* A runner's step between sessions or within one, that leaves the jobs.   *)
LEMMA OnlyRuns ==
  ASSUME IInv, UNCHANGED <<status, stopReq, ahead, stopped, files, act>>,
         wake' \in 0..1, sessMap' \subseteq Ids,
         runner' \in [pc : RunnerPCs, job : 0..MaxJobs, err : BOOLEAN],
         RunnerInv', Limits'
  PROVE  IInv'
  <1>1. Types'
    BY DEF IInv, Types
  <1>2. StopsAll' /\ JobsInv' /\ FilesInv'
    BY DEF IInv, StopsAll, JobsInv, FilesInv, exited
  <1> QED
    BY <1>1, <1>2 DEF IInv

(* The runner is woken, and picks the oldest waiting job.                  *)
LEMMA StepPick ==
  ASSUME IInv, Woken \/ nextWaiting
  PROVE  IInv'
  <1>0. 0 \in 0..MaxJobs /\ RunnerPCs = {"blocked", "next", "picked"} \cup InSession
    BY Parameters DEF RunnerPCs, InSession
  <1>1. CASE Woken
    <2>1. /\ UNCHANGED <<status, stopReq, ahead, stopped, files, act, sessMap>> /\ wake' = 0
          /\ runner' = [pc |-> "next", job |-> 0, err |-> FALSE] /\ runner.pc = "blocked"
      BY <1>1 DEF Woken, NoJob
    <2>2. runner' \in [pc : RunnerPCs, job : 0..MaxJobs, err : BOOLEAN] /\ wake' \in 0..1
      BY <1>0, <2>1
    <2>3. RunnerInv'
      BY <2>1 DEF IInv, RunnerInv, InSession
    <2>4. Limits'
      BY <2>1 DEF IInv, Limits, Bounded, In
    <2> QED
      BY <2>1, <2>2, <2>3, <2>4, OnlyRuns DEF IInv, Types
  <1>2. CASE nextWaiting
    <2>0. /\ UNCHANGED <<status, stopReq, ahead, stopped, files, act, sessMap, wake>>
          /\ runner.pc = "next"
      BY <1>2 DEF nextWaiting
    <2>1. CASE In({"waiting"}) = {}
      <3>1. runner' = [pc |-> "blocked", job |-> 0, err |-> FALSE]
        BY <1>2, <2>1 DEF nextWaiting, NoJob
      <3>2. runner' \in [pc : RunnerPCs, job : 0..MaxJobs, err : BOOLEAN]
        BY <1>0, <3>1
      <3>3. \A j \in Ids : status[j] # "waiting"
        BY <2>1 DEF In
      <3>4. RunnerInv'
        BY <2>0, <3>1, <3>3 DEF IInv, RunnerInv, InSession
      <3>5. Limits'
        BY <2>0, <3>1 DEF IInv, Limits, Bounded, In
      <3> QED
        BY <2>0, <3>2, <3>4, <3>5, OnlyRuns DEF IInv, Types
    <2>2. CASE In({"waiting"}) # {}
      <3> DEFINE m == Min(In({"waiting"}))
      <3>1. In({"waiting"}) \subseteq Nat
        BY Parameters DEF In
      <3>2. m \in In({"waiting"}) /\ \A y \in In({"waiting"}) : m <= y
        BY <2>2, <3>1, Oldest
      <3>3. runner' = [runner EXCEPT !.pc = "picked", !.job = m]
        BY <1>2, <2>2 DEF nextWaiting
      <3> HIDE DEF m
      <3>4. m \in Ids /\ status[m] = "waiting" /\ \A y \in Ids : status[y] = "waiting" => m <= y
        BY <3>2 DEF In
      <3>5. m \in 0..MaxJobs
        BY <3>4, Parameters DEF Ids
      <3>6. runner' \in [pc : RunnerPCs, job : 0..MaxJobs, err : BOOLEAN]
        BY <1>0, <3>3, <3>5 DEF IInv, Types
      <3>7. runner'.pc = "picked" /\ runner'.job = m
        BY <3>3 DEF IInv, Types
      <3>8. \A i \in ahead[m] : i \in Ids /\ status[i] # "waiting"
        BY <3>4, Parameters DEF IInv, Types, JobsInv
      <3>9. RunnerInv'
        BY <2>0, <3>4, <3>7, <3>8 DEF IInv, RunnerInv, InSession
      <3>10. Limits'
        BY <2>0, <3>7 DEF IInv, Limits, Bounded, In
      <3> QED
        BY <2>0, <3>6, <3>9, <3>10, OnlyRuns DEF IInv, Types
    <2> QED
      BY <2>1, <2>2
  <1> QED
    BY <1>1, <1>2

(* runJob: the picked job runs, if it still waits.                         *)
LEMMA StepRun ==
  ASSUME IInv, runJob
  PROVE  IInv'
  <1>0. /\ UNCHANGED <<stopReq, ahead, wake, stopped, files, act>>
        /\ runner.pc = "picked" /\ runner.job \in Ids
        /\ 0 \in 0..MaxJobs /\ RunnerPCs = {"blocked", "next", "picked"} \cup InSession
    BY Parameters DEF runJob, IInv, RunnerInv, RunnerPCs, InSession
  <1>1. CASE status[runner.job] # "waiting"
    <2>1. runner' = [pc |-> "next", job |-> 0, err |-> FALSE] /\ UNCHANGED <<sessMap, status>>
      BY <1>1 DEF runJob, NoJob
    <2>2. runner' \in [pc : RunnerPCs, job : 0..MaxJobs, err : BOOLEAN]
      BY <1>0, <2>1
    <2>3. RunnerInv'
      BY <1>0, <2>1 DEF IInv, RunnerInv, InSession
    <2>4. Limits'
      BY <2>1 DEF IInv, Limits, Bounded, In
    <2> QED
      BY <1>0, <2>1, <2>2, <2>3, <2>4, OnlyRuns DEF IInv, Types
  <1>2. CASE status[runner.job] = "waiting"
    <2>1. PICK j \in Ids : j = runner.job
      BY <1>0
    <2>2. /\ sessMap' = sessMap \cup {j} /\ status' = [status EXCEPT ![j] = "running"]
          /\ runner' = [runner EXCEPT !.pc = "launch"] /\ status[j] = "waiting"
      BY <1>2, <2>1 DEF runJob
    <2>3. /\ runner' \in [pc : RunnerPCs, job : 0..MaxJobs, err : BOOLEAN]
          /\ runner'.pc = "launch" /\ runner'.job = j
      BY <1>0, <2>1, <2>2 DEF IInv, Types, InSession
    <2>4. Types'
      BY <1>0, <2>2, <2>3 DEF IInv, Types, Statuses
    <2>5. StopsAll'
      <3>1. act[Shutdown].pc = "stopping" => Min(act[Shutdown].todo) # j
        BY <2>2 DEF IInv, StopsAll
      <3>2. act[Shutdown].pc # "wasIdle"
        BY <2>2 DEF IInv, StopsAll
      <3>3. act[Shutdown].pc = "stopping" => Min(act[Shutdown].todo) \in Ids
        BY NextTodo DEF IInv, StopsAll, Actors
      <3> QED
        BY <1>0, <2>2, <3>1, <3>2, <3>3 DEF IInv, Types, StopsAll
    <2>6. RunnerInv'
      BY <1>0, <2>1, <2>2, <2>3 DEF IInv, Types, RunnerInv, InSession
    <2>7. JobsInv' /\ FilesInv'
      BY <1>0, <2>2 DEF IInv, Types, JobsInv, FilesInv, exited
    <2>8. Bounded'
      BY <2>2, BoundedKept DEF IInv, Types, Limits, Pending, Finished
    <2>9. Limits'
      BY <2>3, <2>8 DEF Limits
    <2> QED
      BY <2>4, <2>5, <2>6, <2>7, <2>9 DEF IInv
  <1> QED
    BY <1>1, <1>2

(* A session is launched, and is over: it is out of sessMap, or parked     *)
(* there within the limit.                                                 *)
LEMMA StepSession ==
  ASSUME IInv, Launch \/ LaunchFailed \/ clearSession
  PROVE  IInv'
  <1>0. /\ UNCHANGED <<status, stopReq, ahead, wake, stopped, files, act>>
        /\ runner.pc \in {"launch", "session"} /\ RunnerPCs = {"blocked", "next", "picked"} \cup InSession
    BY DEF Launch, LaunchFailed, clearSession, RunnerPCs, InSession
  <1>1. PICK j \in Ids : j = runner.job /\ \A i \in Ids : status[i] = "running" <=> i = j
    BY <1>0 DEF IInv, RunnerInv, InSession
  <1>2. IsFiniteSet(sessMap) /\ IsFiniteSet(sessMap \ {j}) /\ In({"running"}) = {j}
    <2>1. IsFiniteSet(sessMap)
      BY Parameters, FS_Subset DEF IInv, Types
    <2>2. IsFiniteSet(sessMap \ {j})
      BY <2>1, FS_Subset
    <2>3. In({"running"}) = {j}
      BY <1>1 DEF In
    <2> QED
      BY <2>1, <2>2, <2>3
  <1>3. Cardinality(sessMap \ {j}) <= SessThreshold
    BY <1>2 DEF IInv, Limits, Bounded
  <1>4. CASE Launch
    <2>1. runner' = [runner EXCEPT !.pc = "session"] /\ UNCHANGED sessMap
      BY <1>4 DEF Launch
    <2>2. /\ runner' \in [pc : RunnerPCs, job : 0..MaxJobs, err : BOOLEAN]
          /\ runner'.pc = "session" /\ runner'.job = j
      BY <1>0, <1>1, <2>1 DEF IInv, Types, InSession
    <2>3. RunnerInv'
      BY <1>0, <1>1, <2>2 DEF IInv, RunnerInv, InSession
    <2>4. Limits'
      BY <1>0, <2>1, <2>2 DEF IInv, Limits, Bounded, In
    <2> QED
      BY <1>0, <2>1, <2>2, <2>3, <2>4, OnlyRuns DEF IInv, Types
  <1>5. CASE LaunchFailed \/ clearSession
    <2>1. /\ \/ sessMap' = sessMap \ {j}
             \/ sessMap' = sessMap /\ ~ (Cardinality(sessMap) > SessThreshold)
          /\ \/ runner' = [runner EXCEPT !.pc = "finish", !.err = TRUE]
             \/ runner' = [runner EXCEPT !.pc = "finish", !.err = FALSE]
      BY <1>1, <1>5 DEF LaunchFailed, clearSession
    <2>2. /\ runner' \in [pc : RunnerPCs, job : 0..MaxJobs, err : BOOLEAN]
          /\ runner'.pc = "finish" /\ runner'.job = j
      BY <1>0, <1>1, <2>1 DEF IInv, Types, InSession
    <2>3. RunnerInv'
      BY <1>0, <1>1, <2>2 DEF IInv, RunnerInv, InSession
    <2>4. Cardinality(sessMap') <= SessThreshold
      <3>1. CASE sessMap' = sessMap \ {j}
        BY <1>3, <3>1
      <3>2. CASE sessMap' = sessMap /\ ~ (Cardinality(sessMap) > SessThreshold)
        <4>1. Cardinality(sessMap) \in Nat
          BY <1>2, FS_CardinalityType
        <4> QED
          BY <3>2, <4>1, Parameters
      <3> QED
        BY <2>1, <3>1, <3>2
    <2>5. sessMap' \subseteq Ids /\ \A i \in sessMap' : i \in sessMap
      BY <2>1 DEF IInv, Types
    <2>6. Bounded'
      BY <1>0, <2>5, BoundedKept DEF IInv, Limits
    <2> QED
      BY <1>0, <2>2, <2>3, <2>4, <2>5, <2>6, OnlyRuns DEF IInv, Types, Limits
  <1> QED
    BY <1>4, <1>5

(* finish: the job gets its result, the runner looks for the next.         *)
LEMMA StepFinish ==
  ASSUME IInv, finish
  PROVE  IInv'
  <1>0. /\ runner.pc = "finish" /\ runner.err \in BOOLEAN /\ ~exited
        /\ runner' = [pc |-> "next", job |-> 0, err |-> FALSE]
        /\ UNCHANGED <<wake, stopped, sessMap, act>>
        /\ 0 \in 0..MaxJobs /\ RunnerPCs = {"blocked", "next", "picked"} \cup InSession
    BY Parameters DEF finish, NoJob, IInv, Types, RunnerPCs, InSession
  <1>1. PICK j \in Ids : j = runner.job /\ \A i \in Ids : status[i] = "running" <=> i = j
    BY <1>0 DEF IInv, RunnerInv, InSession
  <1>2. /\ status' \in [Ids -> Statuses]
        /\ status'[j] \in {"completed", "failed", "gone"}
        /\ j \in stopReq => status'[j] # "completed"
        /\ \A i \in Ids \ {j} : \/ status'[i] = status[i]
                                \/ status[i] \in Finished /\ status'[i] = "gone"
        /\ files' = files \ {j} /\ stopReq' \subseteq stopReq
        /\ ahead' = [ahead EXCEPT ![j] = {}]
        /\ Cardinality(In(Finished)') <= maxFinishedJobs
    <2>1. finishLocked(j, runner.err)
      BY <1>1 DEF finish
    <2> QED
      BY <1>0, <2>1, FinishEffect, Zenon DEF IInv
  <1>3. Types'
    BY <1>0, <1>2 DEF IInv, Types
  <1>4. StopsAll'
    <2>1. act[Shutdown].pc = "stopping" => Min(act[Shutdown].todo) \in Ids
      BY NextTodo DEF IInv, StopsAll, Actors
    <2> QED
      BY <1>0, <1>1, <1>2, <2>1 DEF IInv, StopsAll, Finished
  <1>5. RunnerInv'
    BY <1>0, <1>1, <1>2 DEF IInv, RunnerInv, InSession, Finished
  <1>6. JobsInv'
    BY <1>1, <1>2 DEF IInv, Types, JobsInv, Finished
  <1>7. FilesInv'
    BY <1>0, <1>1, <1>2, Parameters DEF IInv, FilesInv, exited, Finished
  <1>8. Limits'
    <2>1. Cardinality(sessMap) <= SessThreshold /\ In({"running"})' = {}
      BY <1>0, <1>1, <1>2 DEF IInv, Limits, In, Finished
    <2>2. \A i \in Ids : status'[i] \in Pending => status[i] \in Pending
      BY <1>1, <1>2 DEF Pending, Finished
    <2>3. In(Pending)' \subseteq In(Pending) /\ IsFiniteSet(In(Pending))
      BY <2>2, Parameters, FS_Subset DEF In
    <2>4. /\ Cardinality(In(Pending)') <= Cardinality(In(Pending))
          /\ Cardinality(In(Pending)') \in Nat /\ Cardinality(In(Pending)) \in Nat
      BY <2>3, FS_Subset, FS_CardinalityType
    <2>5. Cardinality(In(Pending)') <= maxPendingJobs
      BY <2>4, Parameters DEF IInv, Limits, Bounded
    <2>6. (sessMap \ In({"running"}))' = sessMap
      BY <1>0, <2>1
    <2>7. Bounded'
      BY <1>2, <2>1, <2>5, <2>6 DEF Bounded
    <2> QED
      BY <1>0, <2>7 DEF Limits
  <1> QED
    BY <1>3, <1>4, <1>5, <1>6, <1>7, <1>8 DEF IInv

-----------------------------------------------------------------------------
(* A session read under the lock is stopped after it, by a handler or by   *)
(* the shutdown, whose job is then among those it is done with.            *)
LEMMA StepStopSession ==
  ASSUME IInv, NEW a \in Actors, StopSession(a)
  PROVE  IInv'
  <1> DEFINE j == Min(act[a].todo)
             rest == act[a].todo \ {j}
             pc == IF a = Shutdown THEN "stopAll" ELSE "idle"
  <1>1. /\ act[a].pc = "stopping" /\ ~exited /\ Goto(a, pc, rest) /\ stopped' = stopped \cup {j}
        /\ UNCHANGED <<status, stopReq, ahead, wake, runner, sessMap, files>>
    BY DEF StopSession
  <1>2. act[a].todo # {} /\ j \in Ids /\ rest \in SUBSET Ids
    BY <1>1, NextTodo DEF IInv, StopsAll, Types
  <1>3. /\ act' \in [Actors -> [pc : HandlerPCs \cup ShutdownPCs, todo : SUBSET Ids]]
        /\ act'[a].pc = pc /\ act'[a].todo = rest
        /\ \A b \in Actors \ {a} : act'[b] = act[b]
        /\ act'[Shutdown].pc \in ShutdownPCs /\ \A k \in Handlers : act'[k].pc \in HandlerPCs
    BY <1>1, <1>2, GotoEffect DEF IInv, HandlerPCs, ShutdownPCs
  <1>4. Types'
    BY <1>1, <1>2, <1>3 DEF IInv, Types
  <1>5. Shutdown \in Actors /\ Shutdown \notin Handlers /\ Handlers \subseteq Actors
    BY Parameters DEF Actors
  <1>6. StopsAll'
    <2>1. CASE a = Shutdown
      <3>1. \A i \in Ids : status[i] = "waiting" => i \in rest
        BY <1>1, <2>1 DEF IInv, StopsAll
      <3> QED
        BY <1>1, <1>3, <1>5, <2>1, <3>1 DEF IInv, StopsAll, Actors
    <2>2. CASE a # Shutdown
      BY <1>1, <1>3, <1>5, <2>2 DEF IInv, StopsAll, Actors
    <2> QED
      BY <2>1, <2>2
  <1>7. FilesInv'
    BY <1>1, <1>3, <1>5 DEF IInv, FilesInv, exited, Actors
  <1> QED
    BY <1>1, <1>4, <1>6, <1>7, OnlyActs

(* The shutdown goes on: it sees the jobs to stop, has none left, removes  *)
(* the uploads.                                                            *)
LEMMA StepShutdown ==
  ASSUME IInv, Signal \/ stopAll \/ waitIdle \/ Exit
  PROVE  IInv'
  <1>0. Shutdown \in Actors /\ Shutdown \notin Handlers /\ Handlers \subseteq Actors
    BY Parameters DEF Actors
  <1>1. PICK pc \in {"closing", "stopAll", "wasIdle", "exit"}, todo \in SUBSET Ids :
          /\ Goto(Shutdown, pc, todo)
          /\ \/ pc = "closing" /\ act[Shutdown].pc = "serving"
             \/ /\ pc = "stopAll" /\ act[Shutdown].pc = "closing"
                /\ \A h \in Handlers : act[h].pc \in {"idle", "saved"}
                /\ \A j \in Ids : status[j] = "waiting" => j \in todo
             \/ /\ pc = "wasIdle" /\ act[Shutdown].pc = "stopAll" /\ act[Shutdown].todo = {}
                /\ \A j \in Ids : status[j] # "running"
             \/ pc = "exit" /\ act[Shutdown].pc \in {"wasIdle", "stopAll"}
          /\ IF pc = "exit" THEN files' = {} ELSE files' = files
    <2>1. In({"waiting", "running"}) \in SUBSET Ids
      BY DEF In
    <2>2. CASE Signal
      BY <2>2 DEF Signal, Serving
    <2>3. CASE stopAll
      BY <2>1, <2>3 DEF stopAll, In
    <2>4. CASE waitIdle
      BY <2>4 DEF waitIdle, In
    <2>5. CASE Exit
      BY <2>5 DEF Exit
    <2> QED
      BY <2>2, <2>3, <2>4, <2>5
  <1>2. /\ act' \in [Actors -> [pc : HandlerPCs \cup ShutdownPCs, todo : SUBSET Ids]]
        /\ act'[Shutdown].pc = pc /\ act'[Shutdown].todo = todo
        /\ \A b \in Actors \ {Shutdown} : act'[b] = act[b]
        /\ act'[Shutdown].pc \in ShutdownPCs /\ \A k \in Handlers : act'[k].pc \in HandlerPCs
    BY <1>0, <1>1, GotoEffect DEF IInv, ShutdownPCs
  <1>3. /\ UNCHANGED <<status, stopReq, ahead, wake, runner, stopped, sessMap>>
        /\ files' \subseteq files /\ (files' = files \/ pc = "exit")
    BY <1>1 DEF Signal, stopAll, waitIdle, Exit, sessVars
  <1>4. Types'
    BY <1>2, <1>3 DEF IInv, Types
  <1>5. StopsAll'
    <2>1. pc = "wasIdle" => \A j \in Ids : status[j] \notin {"waiting", "running"}
      BY <1>1 DEF IInv, StopsAll
    <2>2. pc # "closing" => \A h \in Handlers : act[h].pc \in {"idle", "saved"}
      BY <1>1 DEF IInv, StopsAll
    <2> QED
      BY <1>0, <1>1, <1>2, <1>3, <2>1, <2>2 DEF IInv, StopsAll, Actors
  <1>6. FilesInv'
    <2>1. pc = "exit" => exited'
      BY <1>2 DEF exited
    <2>2. pc # "exit" => files' = files /\ ~exited
      BY <1>1, <1>3 DEF exited
    <2> QED
      BY <1>0, <1>2, <1>3, <2>1, <2>2 DEF IInv, FilesInv, Actors
  <1> QED
    BY <1>3, <1>4, <1>5, <1>6, OnlyActs

(* stopAll's next job: canceled when it waits, its session to be stopped   *)
(* when it runs.                                                           *)
LEMMA StepStopNext ==
  ASSUME IInv, StopNext
  PROVE  IInv'
  <1> DEFINE j == Min(act[Shutdown].todo)
             rest == act[Shutdown].todo \ {j}
  <1>0. /\ Shutdown \in Actors /\ Shutdown \notin Handlers /\ Handlers \subseteq Actors
        /\ act[Shutdown].pc = "stopAll" /\ act[Shutdown].todo # {} /\ ~exited
    BY Parameters DEF Actors, StopNext, exited
  <1>1. /\ j \in Ids /\ j \in act[Shutdown].todo /\ rest \in SUBSET Ids
        /\ act[Shutdown].todo \in SUBSET Ids /\ rest \cup {j} = act[Shutdown].todo
    BY <1>0, NextTodo DEF IInv, Types
  <1>2. StopJob(Shutdown, j, "stopAll", rest) /\ UNCHANGED <<wake, sessVars>>
    BY DEF StopNext
  <1>3. /\ status' \in [Ids -> Statuses] /\ ahead' \in [Ids -> SUBSET Ids]
        /\ stopReq' \subseteq Ids /\ files' = IF status[j] = "waiting" THEN files \ {j} ELSE files
        /\ RunnerInv' /\ JobsInv' /\ Limits'
        /\ \A i \in Ids : status'[i] \in {"queued", "waiting", "running"}
                            <=> status[i] \in {"queued", "waiting", "running"}
                                /\ ~ (i = j /\ status[j] = "waiting")
        /\ \A i \in Ids : status'[i] = "waiting" => status[i] = "waiting" /\ i # j
    BY <1>1, <1>2, StopKeeps
  <1>4. \/ Goto(Shutdown, "stopAll", rest)
        \/ /\ Goto(Shutdown, "stopping", act[Shutdown].todo)
           /\ status[j] = "running" /\ status' = status
    BY <1>1, <1>2 DEF StopJob
  <1>5. PICK pc \in {"stopAll", "stopping"}, todo \in {rest, act[Shutdown].todo} :
          /\ Goto(Shutdown, pc, todo)
          /\ \/ pc = "stopAll" /\ todo = rest
             \/ /\ pc = "stopping" /\ todo = act[Shutdown].todo
                /\ status[j] = "running" /\ status' = status
    BY <1>4
  <1>6. /\ act' \in [Actors -> [pc : HandlerPCs \cup ShutdownPCs, todo : SUBSET Ids]]
        /\ act'[Shutdown].pc = pc /\ act'[Shutdown].todo = todo
        /\ \A b \in Actors \ {Shutdown} : act'[b] = act[b]
        /\ act'[Shutdown].pc \in ShutdownPCs /\ \A k \in Handlers : act'[k].pc \in HandlerPCs
    BY <1>0, <1>1, <1>5, GotoEffect DEF IInv, ShutdownPCs
  <1>7. Types'
    BY <1>2, <1>3, <1>6 DEF IInv, Types, sessVars
  <1>8. StopsAll'
    <2>1. pc = "stopping" => todo = act[Shutdown].todo /\ status'[Min(todo)] = "running"
      BY <1>5
    <2>2. \A i \in Ids : status'[i] = "waiting" => i \in rest
      BY <1>0, <1>3 DEF IInv, StopsAll
    <2>3. \A i \in Ids : status'[i] = "waiting" => i \in todo
      BY <1>5, <2>2
    <2> HIDE DEF j, rest
    <2> QED
      BY <1>0, <1>5, <1>6, <2>1, <2>3 DEF IInv, StopsAll, Actors
  <1>9. FilesInv'
    <2> HIDE DEF j, rest
    <2> QED
      BY <1>0, <1>1, <1>3, <1>5, <1>6, Parameters DEF IInv, FilesInv, exited, Actors
  <1> QED
    BY <1>3, <1>7, <1>8, <1>9 DEF IInv

-----------------------------------------------------------------------------
(* The invariant holds at the start, when there is no job.                 *)
LEMMA InitIInv ==
  ASSUME Init
  PROVE  IInv
  <1>1. 0 \in 0..MaxJobs /\ Shutdown \in Actors
    BY Parameters DEF Actors
  <1>2. /\ act \in [Actors -> [pc : HandlerPCs \cup ShutdownPCs, todo : SUBSET Ids]]
        /\ act[Shutdown].pc = "serving" /\ \A h \in Handlers : act[h].pc = "idle"
    BY Parameters DEF Init, HandlerPCs, ShutdownPCs, Actors
  <1>3. runner \in [pc : RunnerPCs, job : 0..MaxJobs, err : BOOLEAN] /\ runner.pc = "blocked"
    BY <1>1 DEF Init, NoJob, RunnerPCs
  <1>4. Types
    <2>1. status \in [Ids -> Statuses]
      BY DEF Init, Statuses
    <2>2. ahead \in [Ids -> SUBSET Ids] /\ wake \in 0..1
      BY DEF Init
    <2>3. act[Shutdown].pc \in ShutdownPCs /\ \A h \in Handlers : act[h].pc \in HandlerPCs
      BY <1>2 DEF ShutdownPCs, HandlerPCs
    <2>4. stopReq \subseteq Ids /\ stopped \subseteq Ids /\ sessMap \subseteq Ids /\ files \subseteq Ids \cup Handlers
      BY DEF Init
    <2> QED
      BY <1>2, <1>3, <2>1, <2>2, <2>3, <2>4 DEF Types
  <1>5. StopsAll
    BY <1>2 DEF StopsAll, Init, Actors
  <1>6. RunnerInv /\ JobsInv
    BY <1>3 DEF RunnerInv, JobsInv, Init, InSession
  <1>7. FilesInv
    BY <1>2 DEF FilesInv, Init
  <1>8. In(Pending) = {} /\ In(Finished) = {} /\ sessMap \ In({"running"}) = {}
    BY DEF Init, In, Pending, Finished
  <1>9. Limits
    BY <1>3, <1>8, Parameters, FS_EmptySet DEF Limits, Bounded
  <1> QED
    BY <1>4, <1>5, <1>6, <1>7, <1>9 DEF IInv

(* Every step keeps it: each part by its own lemmas above.                 *)
LEMMA StepIInv ==
  ASSUME IInv, [Next]_vars
  PROVE  IInv'
  <1>1. CASE \E h \in Uploaders : Upload(h)
    BY <1>1, StepUpload
  <1>2. CASE \E h \in Handlers : Request(h)
    BY <1>2, StepRequest
  <1>3. CASE \E h \in Handlers : Continue(h)
    BY <1>3, StepStartAll, StepStopSession DEF Continue, Actors
  <1>4. CASE RunnerStep \/ SessionOver
    BY <1>4, StepPick, StepRun, StepSession, StepFinish DEF RunnerStep, SessionOver
  <1>5. CASE Signal \/ ShutdownStep \/ Exit
    BY <1>5, StepShutdown, StepStopNext, StepStopSession DEF ShutdownStep, Actors
  <1>6. CASE UNCHANGED vars
    BY <1>6 DEF vars, IInv, Types, StopsAll, RunnerInv, JobsInv, FilesInv, Limits, Bounded, In, exited
  <1> QED
    BY <1>1, <1>2, <1>3, <1>4, <1>5, <1>6 DEF Next, Exited

(* What is known of every job says of the sets of jobs what the queue      *)
(* promises of them.                                                       *)
LEMMA IInvConsistent ==
  ASSUME IInv
  PROVE  QueueConsistent
  <1>1. TypeOK
    BY DEF IInv, Types, TypeOK, RunnerInv, InSession, RunnerPCs
  <1>2. UploadsExact
    <2>1. SUFFICES ASSUME ~exited
                   PROVE  files = In(Pending \cup {"running"}) \cup {h \in Handlers : act[h].pc = "saved"}
      BY DEF UploadsExact
    <2>2. \A x : x \in files <=> x \in In(Pending \cup {"running"})
                                 \/ x \in {h \in Handlers : act[h].pc = "saved"}
      BY <2>1 DEF IInv, Types, FilesInv, In, Pending
    <2> QED
      BY <2>2
  <1>3. NoLostWake
    BY DEF IInv, RunnerInv, NoLostWake, In
  <1>4. OneSession
    <2>1. CASE runner.pc \in InSession
      <3>1. runner.job \in Ids
        BY <2>1 DEF IInv, RunnerInv
      <3>2. In({"running"}) = {runner.job}
        BY <2>1, <3>1 DEF IInv, RunnerInv, In
      <3> QED
        BY <2>1, <3>2 DEF OneSession, InSession
    <2>2. CASE runner.pc \notin InSession
      <3>1. In({"running"}) = {}
        BY <2>2 DEF IInv, RunnerInv, In
      <3> QED
        BY <2>2, <3>1 DEF OneSession, InSession
    <2> QED
      BY <2>1, <2>2
  <1>5. IdleStaysIdle
    BY DEF IInv, StopsAll, IdleStaysIdle, In
  <1> QED
    BY <1>1, <1>2, <1>3, <1>4, <1>5 DEF IInv, Limits, QueueConsistent

(* Between any two critical sections of the queue, for any number of jobs, *)
(* handlers and limits, the files in webUploadDir are exactly those still  *)
(* needed, a waiting job has woken the runner, one session runs, the       *)
(* limits hold and nothing waits behind a shutdown that saw the queue idle *)
(* (webjobs.go, webserver.go: webShutdownOnSignal).                        *)
THEOREM QueueAlwaysConsistent == Spec => []QueueConsistent
  <1>1. Init => IInv
    BY InitIInv
  <1>2. IInv /\ [Next]_vars => IInv'
    BY StepIInv
  <1>3. IInv => QueueConsistent
    BY IInvConsistent
  <1> QED
    BY <1>1, <1>2, <1>3, PTL DEF Spec

-----------------------------------------------------------------------------
(* How one critical section moves the jobs.                                *)
Forward == \A j \in Ids : /\ status[j] # status'[j] => <<status[j], status'[j]>> \in Moves
                          /\ j \in stopReq => status'[j] # "completed"
InTurn == \A j \in Ids : status[j] = "waiting" /\ status'[j] = "running"
                           => \A i \in ahead[j] : status[i] # "waiting"

(* One job moves as it may, others at most are dropped: the queue goes     *)
(* forward.                                                                *)
LEMMA OneMoves ==
  ASSUME IInv, NEW j \in Ids, status' \in [Ids -> Statuses],
         status'[j] = status[j] \/ <<status[j], status'[j]>> \in Moves,
         j \in stopReq => status'[j] # "completed",
         status[j] = "waiting" /\ status'[j] = "running" =>
           \A i \in ahead[j] : status[i] # "waiting",
         \A i \in Ids \ {j} : \/ status'[i] = status[i]
                              \/ status[i] \in Finished /\ status'[i] = "gone"
  PROVE  Forward /\ InTurn
  <1>1. \A i \in Ids : i \in stopReq => status[i] # "completed"
    BY DEF IInv, JobsInv
  <1>2. Forward
    BY <1>1 DEF Forward, Moves, Finished
  <1>3. InTurn
    BY DEF InTurn, Finished
  <1> QED
    BY <1>2, <1>3

(* A step that leaves every status alone moves nothing.                    *)
LEMMA NoneMoves ==
  ASSUME IInv, status' = status
  PROVE  Forward /\ InTurn
  BY DEF IInv, JobsInv, Forward, InTurn

(* StartJob makes a job wait that never waited before (webjobs.go:         *)
(* StartJob).                                                              *)
LEMMA StartMoves ==
  ASSUME IInv, NEW j \in Ids, StartJob(j)
  PROVE  Forward /\ InTurn
  <1>1. CASE status[j] # "queued"
    BY <1>1, NoneMoves DEF StartJob
  <1>2. CASE status[j] = "queued"
    <2>1. status' = [status EXCEPT ![j] = "waiting"]
      BY <1>2 DEF StartJob
    <2> QED
      BY <1>2, <2>1, OneMoves DEF IInv, Types, Statuses, Moves
  <1> QED
    BY <1>1, <1>2

(* StopJob cancels a waiting job, or marks the running one (webjobs.go:    *)
(* StopJob).                                                               *)
LEMMA StopMoves ==
  ASSUME IInv, NEW a, NEW j \in Ids, NEW pc, NEW todo, StopJob(a, j, pc, todo)
  PROVE  Forward /\ InTurn
  <1>1. CASE status[j] # "waiting"
    BY <1>1, NoneMoves DEF StopJob
  <1>2. CASE status[j] = "waiting"
    <2>1. finishLocked(j, TRUE)
      BY <1>2 DEF StopJob
    <2>2. /\ status' \in [Ids -> Statuses]
          /\ status'[j] \in {"failed", "gone"}
          /\ \A i \in Ids \ {j} : \/ status'[i] = status[i]
                                  \/ status[i] \in Finished /\ status'[i] = "gone"
      BY <2>1, FinishEffect DEF IInv
    <2> QED
      BY <1>2, <2>2, OneMoves DEF Moves
  <1> QED
    BY <1>1, <1>2

(* The runner takes the first waiting job, and ends the one it runs.       *)
LEMMA RunnerMoves ==
  ASSUME IInv, runJob \/ finish
  PROVE  Forward /\ InTurn
  <1>1. CASE runJob
    <2>1. PICK j \in Ids : j = runner.job
      BY <1>1 DEF runJob, IInv, RunnerInv
    <2>2. CASE status[j] # "waiting"
      BY <1>1, <2>1, <2>2, NoneMoves DEF runJob
    <2>3. CASE status[j] = "waiting"
      <3>1. status' = [status EXCEPT ![j] = "running"] /\ runner.pc = "picked"
        BY <1>1, <2>1, <2>3 DEF runJob
      <3>2. \A i \in ahead[j] : status[i] # "waiting"
        BY <2>1, <2>3, <3>1 DEF IInv, RunnerInv
      <3> QED
        BY <2>3, <3>1, <3>2, OneMoves DEF IInv, Types, Statuses, Moves
    <2> QED
      BY <2>2, <2>3
  <1>2. CASE finish
    <2>1. PICK j \in Ids : j = runner.job /\ status[j] = "running"
      BY <1>2 DEF finish, IInv, RunnerInv, InSession
    <2>2. finishLocked(j, runner.err) /\ runner.err \in BOOLEAN
      BY <1>2, <2>1 DEF finish, IInv, Types
    <2>3. /\ status' \in [Ids -> Statuses]
          /\ status'[j] \in {"completed", "failed", "gone"}
          /\ j \in stopReq => status'[j] # "completed"
          /\ \A i \in Ids \ {j} : \/ status'[i] = status[i]
                                  \/ status[i] \in Finished /\ status'[i] = "gone"
      BY <2>2, FinishEffect, Zenon DEF IInv
    <2> QED
      BY <2>1, <2>3, OneMoves DEF Moves
  <1> QED
    BY <1>1, <1>2

(* The requests: an upload, a start, a stop, a deletion, in their steps.   *)
LEMMA HandlerMoves ==
  ASSUME IInv, NEW h \in Handlers, Upload(h) \/ Request(h) \/ Continue(h)
  PROVE  Forward /\ InTurn
  <1>1. CASE saveUpload(h) \/ AddJobRefused(h) \/ handleJobStartAll(h) \/ StartedAll(h) \/ StopSession(h)
    BY <1>1, NoneMoves DEF saveUpload, AddJobRefused, handleJobStartAll, StartedAll, StopSession
  <1>2. CASE AddJob(h)
    <2>1. PICK j \in Ids : status[j] = "none" /\ status' = [status EXCEPT ![j] = "queued"]
      BY <1>2 DEF AddJob
    <2> QED
      BY <2>1, OneMoves DEF IInv, Types, Statuses, Moves
  <1>3. CASE handleJobStart(h)
    BY <1>3, StartMoves DEF handleJobStart
  <1>4. CASE StartNext(h)
    <2>1. act[h].todo # {} /\ h \in Actors /\ StartJob(Min(act[h].todo))
      BY <1>4 DEF StartNext, Actors
    <2> QED
      BY <2>1, NextTodo, StartMoves
  <1>5. CASE handleJobStop(h)
    BY <1>5, StopMoves DEF handleJobStop
  <1>6. CASE DeleteJob(h)
    <2>1. PICK j \in Ids : /\ status[j] \in {"queued"} \cup Finished
                           /\ status' = [status EXCEPT ![j] = "gone"]
      BY <1>6 DEF DeleteJob, In
    <2> QED
      BY <2>1, OneMoves DEF IInv, Types, Statuses, Moves, Finished
  <1> QED
    BY <1>1, <1>2, <1>3, <1>4, <1>5, <1>6 DEF Upload, Request, Continue

(* The shutdown stops jobs, as StopJob does.                               *)
LEMMA ShutdownMoves ==
  ASSUME IInv, Signal \/ ShutdownStep \/ Exit
  PROVE  Forward /\ InTurn
  <1>1. CASE StopNext
    <2>1. /\ act[Shutdown].todo # {} /\ Shutdown \in Actors
          /\ StopJob(Shutdown, Min(act[Shutdown].todo), "stopAll",
                     act[Shutdown].todo \ {Min(act[Shutdown].todo)})
      BY <1>1 DEF StopNext, Actors
    <2> QED
      BY <2>1, NextTodo, StopMoves
  <1>2. CASE ~ StopNext
    BY <1>2, NoneMoves DEF Signal, ShutdownStep, stopAll, StopSession, waitIdle, Exit
  <1> QED
    BY <1>1, <1>2

(* Every step of the queue is one of these.                                *)
LEMMA StepMoves ==
  ASSUME IInv, [Next]_vars
  PROVE  Forward /\ InTurn
  <1>1. CASE \E h \in Handlers : Upload(h) \/ Request(h) \/ Continue(h)
    BY <1>1, HandlerMoves
  <1>2. CASE runJob \/ finish
    BY <1>2, RunnerMoves
  <1>3. CASE Woken \/ nextWaiting \/ Launch \/ clearSession \/ LaunchFailed
    BY <1>3, NoneMoves DEF Woken, nextWaiting, Launch, clearSession, LaunchFailed
  <1>4. CASE Signal \/ ShutdownStep \/ Exit
    BY <1>4, ShutdownMoves
  <1>5. CASE UNCHANGED vars
    BY <1>5, NoneMoves DEF vars
  <1> QED
    BY <1>1, <1>2, <1>3, <1>4, <1>5, Parameters DEF Next, RunnerStep, SessionOver, Exited

(* A job goes queued, waiting, running and to its end and never back, so   *)
(* it runs at most once, and one that StopJob marked does not complete;    *)
(* and the runner starts a job only when none is left waiting that waited  *)
(* before it (webjobs.go: StartJob, StopJob, DeleteJob, nextWaiting,       *)
(* runJob).                                                                *)
THEOREM JobsAlwaysGoForward == Spec => JobsGoForward
  <1>1. Init => IInv
    BY InitIInv
  <1>2. IInv /\ [Next]_vars => IInv'
    BY StepIInv
  <1>3. IInv /\ [Next]_vars => Forward /\ InTurn
    BY StepMoves
  <1>4. Spec => [][Forward]_vars /\ [][InTurn]_vars
    BY <1>1, <1>2, <1>3, PTL DEF Spec
  <1> QED
    BY <1>4 DEF JobsGoForward, Lifecycle, InOrder, Forward, InTurn
=============================================================================
