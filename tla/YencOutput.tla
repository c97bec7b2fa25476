----------------------------- MODULE YencOutput -----------------------------
(***************************************************************************)
(* The yEnc output (-yencout, -yencmerge, -dlall): the download routines   *)
(* hand decoded parts to the yEnc writers (Cache.go), the work divider     *)
(* waits for them, and the end of the session merges the part files        *)
(* (Yenc.go). Channel, counter and writers outlive a session; the files    *)
(* outlive the process, which may be killed and started again.             *)
(*                                                                         *)
(* Abstracted: a download gets a part with a good CRC or fails on every    *)
(* provider; a file being written is in part there or whole, as every      *)
(* writer of a part writes the same bytes; a target is the sequence of     *)
(* what was appended to it. closeWait's rounds are one.                    *)
(***************************************************************************)
EXTENDS Integers, Sequences, FiniteSets, SequencesExt

CONSTANTS segmentList,  \* the items of the NZB
          FileOf,       \* item.file.Filename
          Writers,      \* the goroutines GoYencWriter
          ChanSize,     \* cap(yenc_writer_chan)
          YencDelParts,
          MaxSessions   \* bound: sessions, in one process or in several

Parts == ToSet(segmentList)
Files == {FileOf[p] : p \in Parts}
FileItems(f) == {p \in Parts : FileOf[p] = f}

ASSUME YencOutputAssumption ==
  /\ segmentList \in Seq(Parts) /\ FileOf \in [Parts -> Files] /\ IsFiniteSet(Writers)
  /\ ChanSize \in Nat \ {0} /\ YencDelParts \in BOOLEAN
  /\ MaxSessions \in Nat \ {0}

VARIABLES dl,          \* what the download routine of an item does
          flaginYenc,  \* the items with the flag
          yencQueueCnt, yencChan,
          writer,      \* what each yEnc writer does
          dv,          \* the divider, then LaunchSession's end
          mg,          \* the merge of each file
          ParFiles,    \* the files whose names end in .par or .par2
          session,
          failed,      \* auxiliary: items whose write failed in this session
          byCounts,    \* auxiliary: the divider closed, it did not give up
          part, partTmp,     \* on disk: each item's part file and its .tmp
          target, targetTmp  \* on disk: each file and its .tmp

queue == <<yencQueueCnt, yencChan>>
flags == <<flaginYenc, failed>>
runs == <<session, ParFiles>>
partFiles == <<part, partTmp>>
targets == <<target, targetTmp>>
ending == <<dv, mg, byCounts>>
vars == <<dl, flags, queue, writer, ending, runs, partFiles, targets>>

NoFile == <<>>  \* a file is created with what is appended first
Free == [at |-> "idle"]
NewRound == [at |-> "scan", i |-> 1, busy |-> FALSE]
Unmerged == [f \in Files |-> [at |-> "start", i |-> 0, deleted |-> FALSE]]

(* checkCache finds those articles that a cache writer has written by now. *)
ToDo(cached) == [p \in Parts |-> IF p \in cached THEN "cached" ELSE "todo"]

Init ==
  /\ dl = ToDo({})
  /\ flaginYenc = {} /\ failed = {}
  /\ yencQueueCnt = 0 /\ yencChan = <<>> /\ writer = [w \in Writers |-> Free]
  /\ dv = NewRound /\ mg = Unmerged /\ byCounts = FALSE
  /\ session = 1 /\ ParFiles \in SUBSET Files
  /\ part = [p \in Parts |-> "none"] /\ partTmp = [p \in Parts |-> "none"]
  /\ target = [f \in Files |-> NoFile] /\ targetTmp = [f \in Files |-> NoFile]

-----------------------------------------------------------------------------
(* A download routine with one item, from readDotLines to the cache.       *)
InDL(p) == dl[p] \in {"asked", "queueing", "queued", "written"}  \* item.flaginDL
Step(p, from, to) == dl[p] = from /\ dl' = [dl EXCEPT ![p] = to]

NoArticle(p) ==  \* not there, or broken everywhere; or dropped after a stop
  /\ Step(p, "asked", "failed")
  /\ UNCHANGED <<flags, queue, writer, ending, runs, partFiles, targets>>

WriteYencFlag(p) ==
  /\ Step(p, "asked", "queueing") /\ flaginYenc' = flaginYenc \cup {p}
  /\ UNCHANGED <<failed, queue, writer, ending, runs, partFiles, targets>>

WriteYencSend(p) ==  \* tried every second while the channel is full
  /\ Step(p, "queueing", "queued")
  /\ Len(yencChan) < ChanSize
  /\ yencChan' = Append(yencChan, [item |-> p, s |-> session])
  /\ UNCHANGED <<flags, yencQueueCnt, writer, ending, runs, partFiles, targets>>

WriteYencCount(p) ==
  /\ Step(p, "queued", "written") /\ yencQueueCnt' = yencQueueCnt + 1
  /\ UNCHANGED <<flags, yencChan, writer, ending, runs, partFiles, targets>>

GotArticle(p) ==  \* 220: flaginDL goes down
  /\ Step(p, "written", "done")
  /\ UNCHANGED <<flags, queue, writer, ending, runs, partFiles, targets>>

Download(p) == \/ NoArticle(p) \/ WriteYencFlag(p) \/ WriteYencSend(p)
               \/ WriteYencCount(p) \/ GotArticle(p)

-----------------------------------------------------------------------------
(* GoYencWriter and YencWriter. file says which name the open file has by  *)
(* now: another writer of the same part may have renamed it.               *)
Goes(w, to) == writer' = [writer EXCEPT ![w].at = to]
Item(w) == writer[w].item
Current(w) == writer[w].s = session  \* the item is of the session that runs

Receive(w) ==
  /\ writer[w].at = "idle" /\ yencChan # <<>>
  /\ writer' = [writer EXCEPT ![w] = [at |-> "look", file |-> "none",
                                         item |-> Head(yencChan).item, s |-> Head(yencChan).s]]
  /\ yencChan' = Tail(yencChan)
  /\ UNCHANGED <<dl, flags, yencQueueCnt, ending, runs, partFiles, targets>>

(* flaginYenc goes down, and flagisYenc (which nothing decides by) tells   *)
(* whether the part is there. The item of a session that is over is        *)
(* nobody's any more.                                                      *)
SetFlags(w, done) ==
  IF ~Current(w) THEN UNCHANGED flags
  ELSE /\ flaginYenc' = flaginYenc \ {Item(w)}
       /\ failed' = IF done THEN failed ELSE failed \cup {Item(w)}

AlreadyThere_KeepsFlag(w) ==  \* mutant: returns before the flags are set
  /\ writer[w].at = "look" /\ part[Item(w)] # "none"
  /\ Goes(w, "decr") /\ UNCHANGED flags
  /\ UNCHANGED <<dl, queue, ending, runs, partFiles, targets>>

AlreadyThere(w) ==
  /\ writer[w].at = "look" /\ part[Item(w)] # "none"
  /\ Goes(w, "decr") /\ SetFlags(w, TRUE)
  /\ UNCHANGED <<dl, queue, ending, runs, partFiles, targets>>

NotThere(w) ==
  /\ writer[w].at = "look" /\ part[Item(w)] = "none" /\ Goes(w, "open")
  /\ UNCHANGED <<dl, flags, queue, ending, runs, partFiles, targets>>

OpenTmp_Truncates(w) ==  \* mutant: os.Create
  /\ writer[w].at = "open"
  /\ writer' = [writer EXCEPT ![w].at = "write", ![w].file = "tmp"]
  /\ partTmp' = [partTmp EXCEPT ![Item(w)] = "partly"]
  /\ UNCHANGED <<dl, flags, queue, ending, runs, part, targets>>

OpenTmp(w) ==  \* O_CREATE without O_TRUNC
  /\ writer[w].at = "open"
  /\ writer' = [writer EXCEPT ![w].at = "write", ![w].file = "tmp"]
  /\ partTmp' = [partTmp EXCEPT ![Item(w)] = IF @ = "none" THEN "partly" ELSE @]
  /\ UNCHANGED <<dl, flags, queue, ending, runs, part, targets>>

WriteAndFlush(w) ==
  /\ writer[w].at = "write" /\ Goes(w, "rename")
  /\ part' = [part EXCEPT ![Item(w)] = IF writer[w].file = "part" THEN "whole" ELSE @]
  /\ partTmp' = [partTmp EXCEPT ![Item(w)] = IF writer[w].file = "tmp" THEN "whole" ELSE @]
  /\ UNCHANGED <<dl, flags, queue, ending, runs, targets>>

(* Renames what has the .tmp name by now; open files move with their name. *)
RenameTmp(w) ==
  LET p == Item(w)
      Renamed(v) == IF writer[v].at = "idle" \/ Item(v) # p THEN writer[v]
                    ELSE [writer[v] EXCEPT !.file = CASE @ = "tmp" -> "part"
                                                      [] @ = "part" -> "none"
                                                      [] OTHER -> @]
  IN /\ writer[w].at = "rename" /\ partTmp[p] # "none"
     /\ writer' = [v \in Writers |-> IF v = w THEN [Renamed(w) EXCEPT !.at = "close"]
                                     ELSE Renamed(v)]
     /\ part' = [part EXCEPT ![p] = partTmp[p]] /\ partTmp' = [partTmp EXCEPT ![p] = "none"]
     /\ UNCHANGED <<dl, flags, queue, ending, runs, targets>>

Close(w) ==
  /\ writer[w].at = "close" /\ Goes(w, "decr") /\ SetFlags(w, TRUE)
  /\ UNCHANGED <<dl, queue, ending, runs, partFiles, targets>>

Fails(w) ==  \* resetYencFlagsOnErr
  /\ writer[w].at \in {"open", "write", "rename", "close"}
  /\ Goes(w, "decr") /\ SetFlags(w, FALSE)
  /\ UNCHANGED <<dl, queue, ending, runs, partFiles, targets>>

Decr(n) == IF n > 0 THEN n - 1 ELSE 0  \* GCounter.Decr

Finish(w) ==  \* the deferred GCounter.Decr
  /\ writer[w].at = "decr" /\ writer' = [writer EXCEPT ![w] = Free]
  /\ yencQueueCnt' = Decr(yencQueueCnt)
  /\ UNCHANGED <<dl, flags, yencChan, ending, runs, partFiles, targets>>

YencWriter(w) ==
  \/ Receive(w) \/ AlreadyThere(w) \/ NotThere(w) \/ OpenTmp(w) \/ WriteAndFlush(w)
  \/ RenameTmp(w) \/ Close(w) \/ Fails(w) \/ Finish(w)

-----------------------------------------------------------------------------
(* The divider. A round reads the items one by one, and pushes those that  *)
(* are wanted; then it reads the counter.                                  *)
dvRest == <<flags, queue, writer, mg, runs, partFiles, targets>>
RoundOver == dv.at = "scan" /\ dv.i > Len(segmentList)

Scan ==
  /\ dv.at = "scan" /\ dv.i <= Len(segmentList)
  /\ LET p == segmentList[dv.i] IN
     /\ dl' = [dl EXCEPT ![p] = IF @ = "todo" THEN "asked" ELSE @]  \* pushDL
     /\ dv' = [dv EXCEPT !.i = @ + 1,
                         !.busy = @ \/ InDL(p) \/ dl[p] = "todo" \/ p \in flaginYenc]
  /\ UNCHANGED <<byCounts, dvRest>>

InFlight_NoYenc == dv.busy /\ \E p \in Parts : InDL(p)  \* mutant: the output is not waited for

InFlight == dv.busy \/ yencQueueCnt > 0  \* indl, inyenc, yeQ

RoundContinues == /\ RoundOver /\ InFlight /\ dv' = NewRound
                  /\ UNCHANGED <<dl, byCounts, dvRest>>

RoundQuits == /\ RoundOver /\ ~InFlight /\ dv' = [dv EXCEPT !.at = "drain"] /\ byCounts' = TRUE
              /\ UNCHANGED <<dl, dvRest>>

Divider == Scan \/ RoundContinues \/ RoundQuits

(* noProgressTimeout.                                                      *)
NoProgress == /\ RoundOver /\ dv' = [dv EXCEPT !.at = "drain"]
              /\ UNCHANGED <<dl, byCounts, dvRest>>

(* The divider sees that the session was stopped.                          *)
StopSeen == /\ dv = NewRound /\ dv' = [dv EXCEPT !.at = "drain"]
            /\ UNCHANGED <<dl, byCounts, dvRest>>

(* waitWorker.Wait(): the routines have finished their items.              *)
RoutinesGone == /\ dv.at = "drain" /\ \A p \in Parts : ~InDL(p)
                /\ dv' = [dv EXCEPT !.at = "merge"]
                /\ UNCHANGED <<dl, byCounts, dvRest>>

-----------------------------------------------------------------------------
(* YencMerge: a goroutine per file, which takes the file's items in the    *)
(* order of segmentList: mg[f].i is the place of the one it is at.         *)
mgRest == <<dl, flags, queue, writer, dv, byCounts, runs, partTmp>>
Merging(f, at) == dv.at = "merge" /\ mg[f].at = at
MergeGoes(f, to) == mg' = [mg EXCEPT ![f].at = to]
Places(f) == {i \in DOMAIN segmentList : FileOf[segmentList[i]] = f} \cup {Len(segmentList) + 1}
NextItem(f, del) ==
  \E i \in Places(f) :
    /\ i > mg[f].i /\ \A j \in Places(f) : j > mg[f].i => i <= j
    /\ mg' = [mg EXCEPT ![f] = [at |-> "item", i |-> i, deleted |-> del]]
ItemAt(f) == segmentList[mg[f].i]
Left(f) == mg[f].i <= Len(segmentList)
Missing(f) == Left(f) /\ part[ItemAt(f)] = "none"
Appended(f, what) == [targetTmp EXCEPT ![f] = Append(@, what)]

MergeStarts(f) ==
  /\ Merging(f, "start")
  /\ IF target[f] = NoFile THEN NextItem(f, FALSE) ELSE MergeGoes(f, "over")
  /\ UNCHANGED <<part, targets, mgRest>>

MergeNulls(f) ==
  /\ Merging(f, "item") /\ Missing(f) /\ f \notin ParFiles
  /\ targetTmp' = Appended(f, <<"nulls", ItemAt(f)>>) /\ NextItem(f, FALSE)
  /\ UNCHANGED <<part, target, mgRest>>

MergeGivesUpPar(f) ==  \* an item of a .par2 is missing: no target
  /\ Merging(f, "item") /\ Missing(f) /\ f \in ParFiles /\ NextItem(f, TRUE)
  /\ targetTmp' = IF mg[f].deleted THEN targetTmp ELSE [targetTmp EXCEPT ![f] = NoFile]
  /\ UNCHANGED <<part, target, mgRest>>

MergeAppends_DeletesFirst(f) ==  \* mutant: takes the part away before it is synced
  /\ Merging(f, "item") /\ Left(f) /\ ~Missing(f)
  /\ targetTmp' = Appended(f, <<"torn", ItemAt(f)>>) /\ MergeGoes(f, "copy")
  /\ part' = [part EXCEPT ![ItemAt(f)] = "none"]
  /\ UNCHANGED <<target, mgRest>>

MergeAppends(f) ==  \* AppendFile opens and starts to copy
  /\ Merging(f, "item") /\ Left(f) /\ ~Missing(f)
  /\ targetTmp' = Appended(f, <<"torn", ItemAt(f)>>) /\ MergeGoes(f, "copy")
  /\ UNCHANGED <<part, target, mgRest>>

MergeSynced(f) ==
  /\ Merging(f, "copy")
  /\ targetTmp' = [targetTmp EXCEPT ![f] = Append(Front(@), <<"part", ItemAt(f)>>)]
  /\ IF YencDelParts THEN MergeGoes(f, "delete") ELSE NextItem(f, mg[f].deleted)
  /\ UNCHANGED <<part, target, mgRest>>

MergeDeletes(f) ==
  /\ Merging(f, "delete") /\ part' = [part EXCEPT ![ItemAt(f)] = "none"]
  /\ NextItem(f, mg[f].deleted)
  /\ UNCHANGED <<targets, mgRest>>

MergeRenames(f) ==
  /\ Merging(f, "item") /\ ~Left(f) /\ MergeGoes(f, "over")
  /\ IF mg[f].deleted THEN UNCHANGED targets
     ELSE /\ target' = [target EXCEPT ![f] = targetTmp[f]]
          /\ targetTmp' = [targetTmp EXCEPT ![f] = NoFile]
  /\ UNCHANGED <<part, mgRest>>

MergeFails(f) ==  \* any of its file operations
  /\ dv.at = "merge" /\ mg[f].at \in {"item", "copy", "delete"}
  /\ MergeGoes(f, "over")
  /\ UNCHANGED <<part, targets, mgRest>>

Merge(f) ==
  \/ MergeStarts(f) \/ MergeNulls(f) \/ MergeGivesUpPar(f) \/ MergeAppends(f)
  \/ MergeSynced(f) \/ MergeDeletes(f) \/ MergeRenames(f) \/ MergeFails(f)

waitMerge == /\ dv.at = "merge" /\ \A f \in Files : mg[f].at = "over"
             /\ dv' = [dv EXCEPT !.at = "over"]
             /\ UNCHANGED <<dl, byCounts, dvRest>>

-----------------------------------------------------------------------------
(* The same NZB once more, in this process (a file of that name comes to   *)
(* -nzbdir again) or in another.                                           *)
NewSession ==
  /\ \E cached \in SUBSET {p \in Parts : dl[p] = "done"} :
       dl' = ToDo(cached \cup {p \in Parts : dl[p] = "cached"})
  /\ flaginYenc' = {} /\ failed' = {}
  /\ dv' = NewRound /\ mg' = Unmerged /\ byCounts' = FALSE
  /\ UNCHANGED <<partFiles, targets>>

Again == session < MaxSessions /\ session' = session + 1 /\ UNCHANGED ParFiles /\ NewSession

NextSession == dv.at = "over" /\ Again /\ UNCHANGED <<queue, writer>>

Restart ==  \* the process ends or is killed, anywhere, and is started again
  Again /\ yencQueueCnt' = 0 /\ yencChan' = <<>> /\ writer' = [w \in Writers |-> Free]

Next ==
  \/ \E p \in Parts : Download(p)
  \/ \E w \in Writers : YencWriter(w)
  \/ Divider \/ NoProgress \/ StopSeen \/ RoutinesGone
  \/ \E f \in Files : Merge(f)
  \/ waitMerge \/ NextSession \/ Restart

Spec == Init /\ [][Next]_vars

(* Goroutines run, downloads and file operations end. The watchdog is      *)
(* relied upon in one case only: a count that no part in work stands for.  *)
(* Its 3 minutes are over at the end of some round (SF).                   *)
CountLost ==
  /\ yencQueueCnt > 0 /\ yencChan = <<>> /\ \A w \in Writers : writer[w] = Free
  /\ \A p \in Parts : ~InDL(p)

FairSpec ==
  /\ Spec
  /\ \A p \in Parts : WF_vars(Download(p))
  /\ \A w \in Writers : WF_vars(YencWriter(w))
  /\ \A f \in Files : WF_vars(Merge(f))
  /\ WF_vars(Divider) /\ WF_vars(RoutinesGone) /\ WF_vars(waitMerge)
  /\ SF_vars(CountLost /\ NoProgress)

-----------------------------------------------------------------------------
Job == [item : Parts, s : 1..MaxSessions]
Working == [at : {"look", "open", "write", "rename", "close", "decr"},
            file : {"none", "tmp", "part"}, item : Parts, s : 1..MaxSessions]
Pieces == {"nulls", "torn", "part"} \X Parts

(* Types, and the bounds of the channel; the clamp of Counter_uint64.Decr  *)
(* keeps the count a natural number.                                       *)
TypeOK ==
  /\ dl \in [Parts -> {"todo", "cached", "asked", "queueing", "queued", "written", "done", "failed"}]
  /\ flaginYenc \subseteq Parts /\ failed \subseteq Parts
  /\ yencQueueCnt \in Nat /\ yencChan \in Seq(Job) /\ Len(yencChan) <= ChanSize
  /\ writer \in [Writers -> Working \cup {Free}]
  /\ dv \in [at : {"scan", "drain", "merge", "over"}, i : 1..Len(segmentList) + 1, busy : BOOLEAN]
  /\ mg \in [Files -> [at : {"start", "item", "copy", "delete", "over"},
                       i : 0..Len(segmentList) + 1, deleted : BOOLEAN]]
  /\ target \in [Files -> Seq(Pieces)] /\ targetTmp \in [Files -> Seq(Pieces)]
  /\ session \in 1..MaxSessions /\ ParFiles \subseteq Files /\ byCounts \in BOOLEAN
  /\ part \in [Parts -> {"none", "partly", "whole"}]
  /\ partTmp \in [Parts -> {"none", "partly", "whole"}]

(* A part file is whole whenever its name exists: a writer that is killed, *)
(* fails, or meets another one with the same part of a session that was    *)
(* given up never leaves a torn part for the merge (flush before           *)
(* os.Rename, no O_TRUNC). That is so for two sessions; over three, a      *)
(* writer held up all along may rename a file that another one has just    *)
(* opened.                                                                 *)
WholeParts == \A p \in Parts : part[p] # "partly"

(* yencQueueCnt is at least the number of parts queued or in work that     *)
(* WriteYenc has counted: a lost decrement (Counter_uint64's clamp) makes  *)
(* the divider wait too long, never too short.                             *)
NeverUndercounts ==
  Len(yencChan) + Cardinality({w \in Writers : writer[w] # Free})
    <= yencQueueCnt + Cardinality({p \in Parts : dl[p] = "queued"})

(* A part file that was there is in no way lost by the merge of an         *)
(* ordinary file, whatever fails and whenever the process is killed:       *)
(* AppendFile syncs before -yencdelparts removes its source. It is still   *)
(* there, or it is in the file or in its .tmp.                             *)
Holds(f, p) == \/ part[p] = "whole"
               \/ Contains(target[f], <<"part", p>>)
               \/ Contains(targetTmp[f], <<"part", p>>)

PartsKept == [][\A p \in Parts : FileOf[p] \notin ParFiles /\ Holds(FileOf[p], p)
                  => Holds(FileOf[p], p)']_vars

(* When the divider closes by its counts, the merge misses none of the     *)
(* parts this session decoded (unless their write failed): it does not     *)
(* start while one is queued or being written.                             *)
MergedHasParts ==
  [][\A f \in Files : target[f] # target'[f] /\ byCounts =>
       \A p \in FileItems(f) :
         dl[p] = "done" /\ p \notin failed => Contains(target'[f], <<"part", p>>)]_vars

(* The divider ends by its counts, without the watchdog, unless a count    *)
(* was lost: a full channel, a failed write and a part that exists already *)
(* all settle, and then every merge ends.                                  *)
SessionEnds == dv.at # "over" ~> dv.at = "over"

(* What the counter and the part files promise the merge: a part in work   *)
(* is counted, a part that is there is whole (WriteYenc, YencWriter).      *)
PartsReady == TypeOK /\ NeverUndercounts /\ WholeParts
=============================================================================
