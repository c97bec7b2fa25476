------------------------------ MODULE Transfer ------------------------------
(***************************************************************************)
(* The transfer phase of a session: what happens to the articles of an NZB *)
(* once every provider was checked for them (Workers.go, Routines.go,      *)
(* Cache.go). The divider looks at one item after the other and pushes it  *)
(* to the upload or download channel of a provider group; each provider    *)
(* has a download and an upload routine; the cache writer stores what was  *)
(* downloaded. Items are shared: every critical section on item.mux is one *)
(* action, what happens between two of them interleaves.                   *)
(*                                                                         *)
(* Abstracted: one connection per provider (GetConn is SharedConn's        *)
(* business: here it fails or not, and may mark the provider down); memory *)
(* slots are counted (MemLimiter has their protocol); -checkfirst,         *)
(* -bypassstat, -yencout and -uploadlater are off; time is a step that may *)
(* happen: a retry's delay, the watchdog of 3 minutes.                     *)
(***************************************************************************)
EXTENDS Integers, Sequences, FiniteSets, Functions

CONSTANTS segmentList,  \* the items, in the order the divider visits them
          Providers, group,
          NoDownload, NoUpload,  \* providers with these flags
          Ihave, Post,           \* providers that get IHAVE, or POST
          MemMax, ChanSize,
          cacheON,
          DlMode,        \* "", "missing" (-dlmissing) or "all" (-dlall)
          CloseLimit,    \* idle rounds until the divider quits by force: 15
          MaxItemFails,  \* maxItemFails: 3
          Checked,       \* what the check of an item may have found: a code per group
          Flaky,         \* providers whose connections may fail
          Replies        \* the answers a server may give to ARTICLE, POST, IHAVE

Items == Range(segmentList)
Groups == Range(group)
todo == Len(segmentList)
None == "none"

ASSUME TransferAssumption ==
  /\ segmentList \in Seq(Items) /\ Cardinality(Items) = todo /\ None \notin Items
  /\ IsFiniteSet(Providers) /\ DOMAIN group = Providers /\ Flaky \subseteq Providers
  /\ NoDownload \subseteq Providers /\ NoUpload \subseteq Providers
  /\ Ihave \cup Post \subseteq Providers \ NoUpload /\ Ihave \cap Post = {}
  /\ MemMax \in Nat \ {0} /\ ChanSize \in Nat \ {0}
  /\ cacheON \in BOOLEAN /\ DlMode \in {"", "missing", "all"}
  /\ CloseLimit \in Nat \ {0, 1} /\ MaxItemFails \in Nat \ {0}
  /\ Checked \subseteq [Groups -> {"223", "430", "451", "other", "failed"}]
  /\ Replies \subseteq {"220", "430", "451", "badcrc", "ok", "436", "437", "refused"}

VARIABLES item,      \* the flags of each segmentChanItem
          disk,      \* its file in the cache: none, ok, or empty
          dlChan, upChan,  \* the channels of the groups
          dlQ, upQ,  \* dlQueueCnt and upQueueCnt
          dn, up,    \* where a provider's download and upload routine is, and its item
          cacheChan, cw,   \* the cache writer's channel, and where it is
          down,      \* providers that are down for the session
          pos,       \* the divider: the item it is at, and what it does with it
          acc,       \* the counts of its round
          closeWait,
          sessStop   \* stopChan is closed

dlWork == <<dlChan, dlQ, dn>>
upWork == <<upChan, upQ, up>>
caching == <<disk, cacheChan, cw>>
divider == <<pos, acc, closeWait>>
vars == <<item, dlWork, upWork, caching, divider, down, sessStop>>

Idle == [pc |-> "idle", item |-> None]
Siblings(p) == {q \in Providers : group[q] = group[p]}
TakesUploads == Ihave \cup Post
allowUp == TakesUploads # {}
Slots == {i \in Items : item[i].memlocked}
SlotFree == Cardinality(Slots) < MemMax

(***************************************************************************)
(* State                                                                   *)
(***************************************************************************)
Flags == [availableOn : SUBSET Providers, missingOn : SUBSET Providers,
          dmcaOn : SUBSET Providers, errorOn : SUBSET Providers,
          unwantedOn : SUBSET Providers, uploadedTo : SUBSET Providers,
          ignoreDlOn : SUBSET Providers, ignoreUlOn : SUBSET Providers,
          retryOn : SUBSET Providers, inRetry : BOOLEAN,
          fails : 0..MaxItemFails, article : BOOLEAN, memlocked : BOOLEAN,
          flaginDL : BOOLEAN, flagisDL : BOOLEAN,
          flaginUP : BOOLEAN, flagisUP : BOOLEAN,
          flagCache : BOOLEAN, retireWhenCached : BOOLEAN]

DnPCs == {"idle", "mem", "down", "cmd", "hit", "add", "retire", "fail"}
UpPCs == {"idle", "down", "mem", "cmd", "free", "freeErr", "keepErr", "ok", "err"}

TypeOK ==
  /\ item \in [Items -> Flags]
  /\ disk \in [Items -> {"none", "ok", "empty"}]
  /\ dlChan \in [Groups -> Seq(Items)] /\ upChan \in [Groups -> Seq(Items)]
  /\ dlQ \in Nat /\ upQ \in Nat
  /\ dn \in [Providers -> [pc : DnPCs, item : Items \cup {None}]]
  /\ up \in [Providers -> [pc : UpPCs, item : Items \cup {None}]]
  /\ cacheChan \in Seq(Items)
  /\ cw \in [pc : {"idle", "write", "after"}, item : Items \cup {None}]
  /\ down \subseteq Providers
  /\ pos \in [n : 1..todo + 1, at : {"scan", "retire", "up", "dl", "quit", "closed", "ended"}]
  /\ closeWait \in 0..CloseLimit
  /\ sessStop \in BOOLEAN

(* What the check routines leave on an item: a code per group, given by    *)
(* one of its providers.                                                   *)
CheckResult(code, by) ==
  LET on(c) == {p \in Providers : code[group[p]] \in c}
  IN [availableOn |-> on({"223"}), missingOn |-> on({"430", "other"}),
      dmcaOn |-> on({"451"}), errorOn |-> on({"other", "failed"}),
      unwantedOn |-> {}, uploadedTo |-> {},
      ignoreDlOn |-> on({"other", "failed"})
                       \cup {p \in on({"223"}) : by[group[p]] \in NoDownload},
      ignoreUlOn |-> {p \in on({"223"}) : by[group[p]] \in NoUpload},
      retryOn |-> {}, inRetry |-> FALSE, fails |-> 0,
      article |-> FALSE, memlocked |-> FALSE,
      flaginDL |-> FALSE, flagisDL |-> FALSE, flaginUP |-> FALSE, flagisUP |-> FALSE,
      flagCache |-> FALSE, retireWhenCached |-> FALSE]

NewRound == [n |-> 1, at |-> "scan"]
NoCounts == [flight |-> FALSE, done |-> 0, dead |-> 0, fails |-> 0, isup |-> 0,
             cached |-> 0, notarget |-> 0]

Init ==
  /\ disk \in [Items -> IF cacheON THEN {"none", "ok"} ELSE {"none"}]
  /\ \E code \in [Items -> Checked],
        by \in {f \in [Groups -> Providers] : \A g \in Groups : group[f[g]] = g} :
       item = [i \in Items |->
                 [CheckResult(code[i], by) EXCEPT !.flagCache = (disk[i] = "ok")]]
  /\ dlChan = [g \in Groups |-> <<>>] /\ upChan = [g \in Groups |-> <<>>]
  /\ dlQ = 0 /\ upQ = 0
  /\ dn = [p \in Providers |-> Idle] /\ up = [p \in Providers |-> Idle]
  /\ cacheChan = <<>> /\ cw = Idle
  /\ down = {} /\ pos = NewRound /\ acc = NoCounts /\ closeWait = 1
  /\ sessStop = FALSE

(***************************************************************************)
(* What is asked of an item                                                *)
(***************************************************************************)
matchThisDL(x) ==
  /\ ~x.flaginDL /\ ~x.flagisDL /\ ~x.flaginUP /\ ~x.flagisUP
  /\ ~cacheON => ~x.article

matchThisUP(x) ==
  x.article /\ (x.flagisDL \/ x.flagCache) /\ ~x.flaginUP /\ ~x.flagisUP /\ ~x.flaginDL

wantDownload(x) ==
  /\ ~x.flagisDL /\ ~x.flagCache /\ ~x.flaginDL
  /\ DlMode = "all" \/ (DlMode = "missing" /\ x.missingOn # {})

onAllProviders(x) == Providers \subseteq x.availableOn \cup x.uploadedTo

UploadTargets(x) ==
  (x.missingOn \cap TakesUploads)
    \ (down \cup x.ignoreUlOn \cup x.uploadedTo \cup x.availableOn
         \cup x.unwantedOn \cup x.dmcaOn \cup x.errorOn)

hasUploadTarget(x) == allowUp /\ UploadTargets(x) # {}

(* The divider counts such an item as dead and does nothing for it. *)
IsSegmentStupid(x) ==
  LET n(S) == Cardinality(S)
  IN \/ n(x.availableOn) = 0 /\ n(x.missingOn) = n(Providers)
     \/ /\ n(x.availableOn) = n(x.ignoreDlOn)
        /\ n(x.missingOn) + n(x.ignoreDlOn) = n(Providers)

FlagError(x, p) ==
  [x EXCEPT
     !.flaginDL = FALSE, !.flaginUP = FALSE,
     !.fails = IF @ < MaxItemFails THEN @ + 1 ELSE @,
     !.availableOn = @ \ {p},
     !.inRetry = @ \/ (x.flaginUP /\ x.fails < MaxItemFails - 1),
     !.retryOn = IF x.flaginUP /\ x.fails < MaxItemFails - 1 THEN @ \cup {p} ELSE @,
     !.errorOn = IF x.flaginUP /\ x.fails + 1 >= MaxItemFails THEN @ \cup {p} ELSE @]

(* retireItem: the slot goes back, the article too unless the cache still  *)
(* has to write it.                                                        *)
retireItem(x) ==
  IF ~x.memlocked THEN x
  ELSE [x EXCEPT !.memlocked = FALSE,
                 !.article = @ /\ cacheON /\ ~x.flagCache]

Set(i, x) == item' = [item EXCEPT ![i] = x]
MemReturn(x) == [x EXCEPT !.memlocked = FALSE]
Counted(b) == IF b THEN 1 ELSE 0
Decr(n) == IF n > 0 THEN n - 1 ELSE 0

(***************************************************************************)
(* Download routines                                                       *)
(***************************************************************************)
dnItem(p) == dn[p].item
DnGo(p, pc) == dn' = [dn EXCEPT ![p].pc = pc]
DnDone(p) == dn' = [dn EXCEPT ![p] = Idle]
dnRest == <<upWork, divider, sessStop>>

(* Takes an item of its group; after stop() it only drops it. *)
DnTake(p) ==
  LET g == group[p] i == Head(dlChan[g]) IN
  /\ dn[p].pc = "idle" /\ dlChan[g] # <<>>
  /\ dlChan' = [dlChan EXCEPT ![g] = Tail(@)]
  /\ IF sessStop
     THEN /\ Set(i, [item[i] EXCEPT !.flaginDL = FALSE]) /\ dlQ' = Decr(dlQ)
          /\ UNCHANGED dn
     ELSE /\ dn' = [dn EXCEPT ![p] = [pc |-> "mem", item |-> i]]
          /\ UNCHANGED <<item, dlQ>>
  /\ UNCHANGED <<dnRest, caching, down>>

(* MemLockWait, then the first look at the provider. *)
DnLock(p) ==
  LET i == dnItem(p) IN
  /\ dn[p].pc = "mem" /\ (item[i].memlocked \/ SlotFree)
  /\ Set(i, [item[i] EXCEPT !.memlocked = TRUE])
  /\ DnGo(p, IF p \in down THEN "down" ELSE "cmd")
  /\ UNCHANGED <<dnRest, caching, down, dlChan, dlQ>>

DnAborted_Uncounted(p) ==  \* mutant: without DecreaseDLQueueCnt
  LET i == dnItem(p) IN
  /\ dn[p].pc = "mem" /\ sessStop /\ ~item[i].memlocked /\ ~SlotFree
  /\ Set(i, [item[i] EXCEPT !.flaginDL = FALSE]) /\ DnDone(p)
  /\ UNCHANGED <<dnRest, caching, down, dlChan, dlQ>>

DnAborted(p) ==
  LET i == dnItem(p) IN
  /\ dn[p].pc = "mem" /\ sessStop /\ ~item[i].memlocked /\ ~SlotFree
  /\ Set(i, [item[i] EXCEPT !.flaginDL = FALSE]) /\ dlQ' = Decr(dlQ) /\ DnDone(p)
  /\ UNCHANGED <<dnRest, caching, down, dlChan>>

DnDown(p) ==
  LET i == dnItem(p) IN
  /\ dn[p].pc = "down"
  /\ Set(i, [FlagError(item[i], p) EXCEPT !.ignoreDlOn = @ \cup {p}])
  /\ DnGo(p, "fail")
  /\ UNCHANGED <<dnRest, caching, down, dlChan, dlQ>>

inCache(i) == cacheON /\ (item[i].article \/ disk[i] = "ok")

(* ReadCache: an article already in memory leaves the flags alone. *)
DnCacheRead(p) ==
  LET i == dnItem(p) IN
  /\ dn[p].pc = "cmd" /\ inCache(i)
  /\ Set(i, IF item[i].article THEN item[i]
            ELSE [item[i] EXCEPT !.article = TRUE, !.flagCache = TRUE, !.flaginDL = FALSE])
  /\ DnGo(p, "hit")
  /\ UNCHANGED <<dnRest, caching, down, dlChan, dlQ>>

DnConnError_KeepsFlag(p) ==  \* mutant: without FlagError
  /\ dn[p].pc = "cmd" /\ ~inCache(dnItem(p)) /\ p \in Flaky
  /\ down' \in {down, down \cup {p}} /\ DnGo(p, "fail")
  /\ UNCHANGED <<dnRest, caching, item, dlChan, dlQ>>

DnConnError(p) ==
  LET i == dnItem(p) IN
  /\ dn[p].pc = "cmd" /\ ~inCache(i) /\ p \in Flaky
  /\ Set(i, FlagError(item[i], p)) /\ down' \in {down, down \cup {p}}
  /\ DnGo(p, "fail")
  /\ UNCHANGED <<dnRest, caching, dlChan, dlQ>>

DnArticle(p) ==
  LET i == dnItem(p) IN
  /\ dn[p].pc = "cmd" /\ ~inCache(i) /\ "220" \in Replies
  /\ Set(i, [item[i] EXCEPT !.availableOn = @ \cup Siblings(p),
                            !.missingOn = @ \ Siblings(p), !.article = TRUE,
                            !.flagisDL = TRUE, !.flaginDL = FALSE])
  /\ DnGo(p, "add")
  /\ UNCHANGED <<dnRest, caching, down, dlChan, dlQ>>

DnRefused(p, code) ==
  LET i == dnItem(p)  S == Siblings(p)
      on(c, set) == IF code \in c THEN set \cup S ELSE set
  IN
  /\ dn[p].pc = "cmd" /\ ~inCache(i) /\ code \in Replies \cap {"430", "451", "badcrc"}
  /\ Set(i, [item[i] EXCEPT !.missingOn = @ \cup S, !.availableOn = @ \ S,
                            !.dmcaOn = on({"451"}, @), !.errorOn = on({"badcrc"}, @),
                            !.ignoreDlOn = on({"451", "badcrc"}, @),
                            !.flaginDL = FALSE])
  /\ DnGo(p, "fail")
  /\ UNCHANGED <<dnRest, caching, down, dlChan, dlQ>>

(* Add2Cache, the connection is parked, the queue count goes down. *)
DnAdd(p) ==
  /\ dn[p].pc = "add"
  /\ cacheChan' = IF cacheON THEN Append(cacheChan, dnItem(p)) ELSE cacheChan
  /\ dlQ' = Decr(dlQ) /\ DnGo(p, "retire")
  /\ UNCHANGED <<dnRest, item, disk, cw, down, dlChan>>

retireAfterDownload(x) ==
  IF hasUploadTarget(x) THEN x
  ELSE IF ~cacheON \/ x.flagCache THEN retireItem(x)
  ELSE [x EXCEPT !.retireWhenCached = TRUE]

DnRetire(p) ==
  LET i == dnItem(p) IN
  /\ dn[p].pc = "retire" /\ Set(i, retireAfterDownload(item[i])) /\ DnDone(p)
  /\ UNCHANGED <<dnRest, caching, down, dlChan, dlQ>>

(* Read from the cache: the slot stays with the item. *)
DnHit(p) ==
  /\ dn[p].pc = "hit" /\ dlQ' = Decr(dlQ) /\ DnDone(p)
  /\ UNCHANGED <<dnRest, item, caching, down, dlChan>>

DnFail_KeepsSlot(p) ==  \* mutant: without MemReturn
  /\ dn[p].pc = "fail" /\ dlQ' = Decr(dlQ) /\ DnDone(p)
  /\ UNCHANGED <<dnRest, caching, down, dlChan, item>>

DnFail(p) ==
  LET i == dnItem(p) IN
  /\ dn[p].pc = "fail" /\ dlQ' = Decr(dlQ)
  /\ Set(i, MemReturn(item[i])) /\ DnDone(p)
  /\ UNCHANGED <<dnRest, caching, down, dlChan>>

Downs(p) ==
  \/ DnTake(p) \/ DnLock(p) \/ DnAborted(p) \/ DnDown(p) \/ DnCacheRead(p)
  \/ DnConnError(p) \/ DnArticle(p) \/ (\E code \in Replies : DnRefused(p, code))
  \/ DnAdd(p) \/ DnRetire(p) \/ DnHit(p) \/ DnFail(p)

(***************************************************************************)
(* Upload routines                                                         *)
(***************************************************************************)
upItem(p) == up[p].item
UpGo(p, pc) == up' = [up EXCEPT ![p].pc = pc]
UpDone(p) == up' = [up EXCEPT ![p] = Idle]
upRest == <<dlWork, caching, divider, sessStop>>

UpTake(p) ==
  LET g == group[p] i == Head(upChan[g]) IN
  /\ up[p].pc = "idle" /\ upChan[g] # <<>>
  /\ upChan' = [upChan EXCEPT ![g] = Tail(@)]
  /\ IF sessStop
     THEN /\ Set(i, [item[i] EXCEPT !.flaginUP = FALSE]) /\ upQ' = Decr(upQ)
          /\ UNCHANGED up
     ELSE /\ up' = [up EXCEPT ![p] = [pc |-> IF p \in down THEN "down" ELSE "mem", item |-> i]]
          /\ UNCHANGED <<item, upQ>>
  /\ UNCHANGED <<upRest, down>>

UpDown(p) ==
  LET i == upItem(p) IN
  /\ up[p].pc = "down"
  /\ Set(i, [item[i] EXCEPT !.errorOn = @ \cup {p}, !.flaginUP = FALSE])
  /\ UpGo(p, "err")
  /\ UNCHANGED <<upRest, down, upChan, upQ>>

UpLock(p) ==
  LET i == upItem(p) IN
  /\ up[p].pc = "mem" /\ (item[i].memlocked \/ SlotFree)
  /\ Set(i, [item[i] EXCEPT !.memlocked = TRUE]) /\ UpGo(p, "cmd")
  /\ UNCHANGED <<upRest, down, upChan, upQ>>

UpAborted(p) ==
  /\ up[p].pc = "mem" /\ sessStop /\ ~item[upItem(p)].memlocked /\ ~SlotFree
  /\ UpGo(p, "err")
  /\ UNCHANGED <<upRest, item, down, upChan, upQ>>

(* No connection, a broken one, or no upload command for this provider;    *)
(* IHAVE sends no empty article.                                           *)
UpConnError(p) ==
  LET i == upItem(p) IN
  /\ up[p].pc = "cmd"
  /\ p \in Post => p \in Flaky
  /\ p \in Ihave /\ item[i].article => p \in Flaky
  /\ Set(i, FlagError(item[i], p))
  /\ down' \in {down} \cup (IF p \in Flaky THEN {down \cup {p}} ELSE {})
  /\ UpGo(p, "err")
  /\ UNCHANGED <<upRest, upChan, upQ>>

UpAnswer(p, code) ==
  /\ up[p].pc = "cmd" /\ code \in Replies
  /\ p \in Post \/ (p \in Ihave /\ item[upItem(p)].article)

UpOK(p) ==
  LET i == upItem(p) IN
  /\ UpAnswer(p, "ok")
  /\ Set(i, [item[i] EXCEPT !.uploadedTo = @ \cup Siblings(p),
                            !.missingOn = @ \ Siblings(p),
                            !.flaginUP = FALSE, !.flagisUP = TRUE, !.fails = 0])
  /\ UpGo(p, "free")
  /\ UNCHANGED <<upRest, down, upChan, upQ>>

moreProvider(x, p) ==
  (x.missingOn \cap TakesUploads) \ (x.unwantedOn \cup x.uploadedTo \cup Siblings(p)) # {}

(* 437 of IHAVE is no error for the connection, any other refusal is. *)
UpUnwanted(p, code) ==
  LET i == upItem(p)  x == item[i] IN
  /\ UpAnswer(p, code) /\ (code = "refused" \/ (code = "437" /\ p \in Ihave))
  /\ Set(i, [x EXCEPT !.unwantedOn = @ \cup Siblings(p), !.flaginUP = FALSE])
  /\ UpGo(p, CASE moreProvider(x, p) /\ code = "437" -> "ok"
               [] moreProvider(x, p) /\ code # "437" -> "keepErr"
               [] ~moreProvider(x, p) /\ code = "437" -> "free"
               [] OTHER -> "freeErr")
  /\ UNCHANGED <<upRest, down, upChan, upQ>>

UpRetry(p) ==
  LET i == upItem(p) IN
  /\ UpAnswer(p, "436") /\ p \in Ihave
  /\ Set(i, [item[i] EXCEPT !.retryOn = @ \cup {p}, !.inRetry = TRUE, !.flaginUP = FALSE])
  /\ UpGo(p, "free")
  /\ UNCHANGED <<upRest, down, upChan, upQ>>

UpFree(p) ==
  LET i == upItem(p) IN
  /\ up[p].pc \in {"free", "freeErr"}
  /\ Set(i, [item[i] EXCEPT !.article = FALSE])
  /\ UpGo(p, IF up[p].pc = "free" THEN "ok" ELSE "keepErr")
  /\ UNCHANGED <<upRest, down, upChan, upQ>>

UpFlagError(p) ==
  LET i == upItem(p) IN
  /\ up[p].pc = "keepErr" /\ Set(i, FlagError(item[i], p)) /\ UpGo(p, "err")
  /\ UNCHANGED <<upRest, down, upChan, upQ>>

UpErr_Uncounted(p) ==  \* mutant: without DecreaseUPQueueCnt
  /\ up[p].pc = "err" /\ UpDone(p)
  /\ UNCHANGED <<upRest, item, down, upChan, upQ>>

(* After an error the item keeps its slot. *)
UpErr(p) ==
  /\ up[p].pc = "err" /\ upQ' = Decr(upQ) /\ UpDone(p)
  /\ UNCHANGED <<upRest, item, down, upChan>>

UpReturn(p) ==
  LET i == upItem(p) IN
  /\ up[p].pc = "ok" /\ upQ' = Decr(upQ)
  /\ Set(i, MemReturn(item[i])) /\ UpDone(p)
  /\ UNCHANGED <<upRest, down, upChan>>

Reups(p) ==
  \/ UpTake(p) \/ UpDown(p) \/ UpLock(p) \/ UpAborted(p) \/ UpConnError(p) \/ UpOK(p)
  \/ (\E code \in Replies : UpUnwanted(p, code)) \/ UpRetry(p)
  \/ UpFree(p) \/ UpFlagError(p) \/ UpErr(p) \/ UpReturn(p)

(***************************************************************************)
(* The cache writer                                                        *)
(***************************************************************************)
cwRest == <<dlWork, upWork, divider, down, sessStop>>

CwTake ==
  LET i == Head(cacheChan) IN
  /\ cw.pc = "idle" /\ cacheChan # <<>>
  /\ cacheChan' = Tail(cacheChan)
  /\ cw' = [pc |-> IF item[i].article /\ disk[i] = "none" THEN "write" ELSE "after", item |-> i]
  /\ Set(i, [item[i] EXCEPT !.flagCache = @ \/ (item[i].article /\ disk[i] # "none")])
  /\ UNCHANGED <<cwRest, disk>>

(* It writes the lines it finds now, without the item's lock; then the     *)
(* file is renamed into place and the item flagged.                        *)
CwWrite ==
  LET i == cw.item IN
  /\ cw.pc = "write" /\ cw' = [cw EXCEPT !.pc = "after"]
  /\ disk' = [disk EXCEPT ![i] = IF item[i].article THEN "ok" ELSE "empty"]
  /\ Set(i, [item[i] EXCEPT !.flagCache = TRUE, !.flaginDL = FALSE,
                            !.article = @ /\ allowUp])
  /\ UNCHANGED <<cwRest, cacheChan>>

CwFails ==
  /\ cw.pc = "write" /\ cw' = [cw EXCEPT !.pc = "after"]
  /\ UNCHANGED <<cwRest, item, disk, cacheChan>>

afterCacheWrite ==
  LET i == cw.item  x == item[i] IN
  /\ cw.pc = "after" /\ cw' = Idle
  /\ Set(i, IF x.retireWhenCached /\ x.flagCache
            THEN retireItem([x EXCEPT !.retireWhenCached = FALSE]) ELSE x)
  /\ UNCHANGED <<cwRest, disk, cacheChan>>

CacheWriter == CwTake \/ CwWrite \/ CwFails \/ afterCacheWrite

(***************************************************************************)
(* The divider                                                             *)
(***************************************************************************)
here == segmentList[pos.n]
At(step) == pos' = [pos EXCEPT !.at = step]
NextItem == pos' = [n |-> pos.n + 1, at |-> "scan"]
divRest == <<dn, up, caching, closeWait, down, sessStop>>

allOk(x) == x.missingOn = {} /\ onAllProviders(x) /\ ~wantDownload(x)
noTarget(x) == ~hasUploadTarget(x) /\ ~wantDownload(x)

(* One look at an item: it is counted, and what to do with it is decided. *)
Scan ==
  LET x == item[here]
      skip == x.flaginDL \/ x.flaginUP \/ IsSegmentStupid(x) \/ allOk(x)
  IN
  /\ pos.at = "scan" /\ pos.n <= todo /\ (pos.n = 1 => ~sessStop)
  /\ acc' = [flight |-> acc.flight \/ x.flaginDL \/ x.flaginUP,
             done |-> acc.done + Counted(allOk(x)),
             dead |-> acc.dead + Counted(IsSegmentStupid(x)),
             fails |-> acc.fails + Counted(x.fails >= MaxItemFails),
             isup |-> acc.isup + Counted(x.flagisUP),
             cached |-> acc.cached + Counted(x.flagCache),
             notarget |-> acc.notarget + Counted(~skip /\ noTarget(x))]
  /\ CASE skip /\ allOk(x) /\ DlMode = "all" /\ x.memlocked /\ ~x.flaginUP /\ ~x.flaginDL -> At("retire")
       [] skip /\ ~(allOk(x) /\ DlMode = "all" /\ x.memlocked /\ ~x.flaginUP /\ ~x.flaginDL) -> NextItem
       [] ~skip /\ noTarget(x) -> At("retire")
       [] ~skip /\ hasUploadTarget(x) -> At("up")
       [] OTHER -> At("dl")
  /\ UNCHANGED <<divRest, item, dlChan, dlQ, upChan, upQ>>

Retire_ByWriterOnly ==  \* mutant: leaves it to the cache writer
  /\ pos.at = "retire" /\ NextItem
  /\ UNCHANGED <<divRest, acc, item, dlChan, dlQ, upChan, upQ>>

Retire ==
  /\ pos.at = "retire" /\ Set(here, retireItem(item[here])) /\ NextItem
  /\ UNCHANGED <<divRest, acc, dlChan, dlQ, upChan, upQ>>

pushUP(p) ==
  LET i == here  x == item[i]  g == group[p] IN
  /\ pos.at = "up" /\ matchThisUP(x)
  /\ p \in UploadTargets(x) /\ ~(p \in x.retryOn /\ x.inRetry)
  /\ Len(upChan[g]) < ChanSize
  /\ upChan' = [upChan EXCEPT ![g] = Append(@, i)] /\ upQ' = upQ + 1
  /\ Set(i, [x EXCEPT !.flaginUP = TRUE, !.retryOn = @ \ {p}])
  /\ acc' = [acc EXCEPT !.flight = TRUE] /\ NextItem
  /\ UNCHANGED <<divRest, dlChan, dlQ>>

(* Nobody takes it now, or the channel is full: an error, no download. *)
pushUPFails ==
  LET x == item[here]
      takers == {p \in UploadTargets(x) : ~(p \in x.retryOn /\ x.inRetry)}
  IN
  /\ pos.at = "up" /\ matchThisUP(x)
  /\ takers = {} \/ (\E p \in takers : Len(upChan[group[p]]) >= ChanSize)
  /\ NextItem
  /\ UNCHANGED <<divRest, acc, item, dlChan, dlQ, upChan, upQ>>

pushUPNoMatch ==
  /\ pos.at = "up" /\ ~matchThisUP(item[here]) /\ At("dl")
  /\ UNCHANGED <<divRest, acc, item, dlChan, dlQ, upChan, upQ>>

waiting == {i \in Items : /\ ~item[i].memlocked
                          /\ \E p \in Providers : dn[p] = [pc |-> "mem", item |-> i]
                                               \/ up[p] = [pc |-> "mem", item |-> i]}
MemAvail == Cardinality(waiting) < MemMax

sources(x) == x.availableOn \ (x.ignoreDlOn \cup x.missingOn \cup x.errorOn)
useless(x) == sources(x) \cap (NoDownload \cup down)

(* The map is visited in any order: some providers without downloads come  *)
(* before the one that is chosen.                                          *)
pushDL(p) ==
  LET i == here  x == item[i]  g == group[p] IN
  /\ pos.at = "dl" /\ matchThisDL(x) /\ MemAvail
  /\ p \in sources(x) \ useless(x)
  /\ \E seen \in SUBSET useless(x) :
       Set(i, [x EXCEPT !.ignoreDlOn = @ \cup seen,
                        !.flaginDL = Len(dlChan[g]) < ChanSize])
  /\ IF Len(dlChan[g]) < ChanSize
     THEN /\ dlChan' = [dlChan EXCEPT ![g] = Append(@, i)] /\ dlQ' = dlQ + 1
          /\ acc' = [acc EXCEPT !.flight = TRUE]
     ELSE UNCHANGED <<dlChan, dlQ, acc>>
  /\ NextItem
  /\ UNCHANGED <<divRest, upChan, upQ>>

pushDLFails ==
  LET x == item[here] IN
  /\ pos.at = "dl" /\ NextItem
  /\ \/ ~(matchThisDL(x) /\ MemAvail) /\ UNCHANGED item
     \/ /\ matchThisDL(x) /\ MemAvail /\ sources(x) \ useless(x) = {}
        /\ Set(here, [x EXCEPT !.ignoreDlOn = @ \cup useless(x)])
  /\ UNCHANGED <<divRest, acc, dlChan, dlQ, upChan, upQ>>

(* The end of a round. *)
RoundOver == pos.at = "scan" /\ pos.n > todo
Again == pos' = NewRound /\ acc' = NoCounts
Quit == At("quit") /\ UNCHANGED acc
roundRest == <<item, dlWork, upWork, caching, down, sessStop>>
InFlight == acc.flight \/ dlQ > 0 \/ upQ > 0

closeCase ==
  LET is(n) == n = todo  r == acc IN
  \/ is(r.done) \/ is(r.fails) \/ is(r.fails + r.done)                   \* 0
  \/ cacheON /\ ~allowUp /\ is(r.cached)                                \* 2
  \/ cacheON /\ is(r.dead + r.cached) /\ is(r.dead + r.isup)             \* 3
  \/ is(r.isup)                                                          \* 4
  \/ is(r.dead + r.isup) \/ is(r.dead + r.isup + r.fails)                \* 5
  \/ is(r.dead + r.done) \/ is(r.dead + r.done + r.fails)                \* 6
  \/ r.notarget > 0 /\ (\/ is(r.dead + r.done + r.notarget)              \* 8
                        \/ is(r.dead + r.done + r.fails + r.notarget))

RoundBusy == RoundOver /\ InFlight /\ Again /\ UNCHANGED <<closeWait, roundRest>>

RoundQuits == /\ RoundOver /\ ~InFlight /\ closeWait <= 0
              /\ Quit /\ UNCHANGED <<closeWait, roundRest>>

RoundCloses == /\ RoundOver /\ ~InFlight /\ closeWait > 0 /\ closeCase
               /\ closeWait' = closeWait - 1 /\ Again /\ UNCHANGED roundRest

(* "impossible closeCase": after CloseLimit rounds, force quit. *)
RoundUnresolved ==
  /\ RoundOver /\ ~InFlight /\ closeWait > 0 /\ ~closeCase
  /\ closeWait' = closeWait + 1
  /\ IF closeWait' >= CloseLimit THEN Quit ELSE Again
  /\ UNCHANGED roundRest

(* A stopped session, or nothing moved for noProgressTimeout. *)
DividerStops == /\ pos = NewRound /\ sessStop
                /\ Quit /\ UNCHANGED <<closeWait, roundRest>>

NoProgress == /\ RoundOver /\ Quit /\ UNCHANGED <<closeWait, roundRest>>

Divider ==
  \/ Scan \/ Retire
  \/ (\E p \in Providers : pushUP(p) \/ pushDL(p))
  \/ pushUPFails \/ pushUPNoMatch \/ pushDLFails
  \/ RoundBusy \/ RoundQuits \/ RoundCloses \/ RoundUnresolved \/ DividerStops

(***************************************************************************)
(* The session                                                             *)
(***************************************************************************)
(* closeWorkChans and stop: the routines drop what is left, then end. *)
StopRoutines ==
  /\ pos.at = "quit" /\ At("closed") /\ sessStop' = TRUE
  /\ UNCHANGED <<item, dlWork, upWork, caching, down, acc, closeWait>>

RoutinesGone == /\ \A p \in Providers : dn[p] = Idle /\ up[p] = Idle
                /\ \A g \in Groups : dlChan[g] = <<>> /\ upChan[g] = <<>>

releaseMemSlots ==
  /\ pos.at = "closed" /\ RoutinesGone /\ At("ended")
  /\ item' = [i \in Items |-> MemReturn(item[i])]
  /\ UNCHANGED <<dlWork, upWork, caching, down, acc, closeWait, sessStop>>

Teardown == StopRoutines \/ releaseMemSlots

(* A web job is stopped. *)
Stop == /\ ~sessStop /\ sessStop' = TRUE
        /\ UNCHANGED <<item, dlWork, upWork, caching, divider, down>>

RetryElapsed(i) == /\ item[i].inRetry /\ Set(i, [item[i] EXCEPT !.inRetry = FALSE])
                   /\ UNCHANGED <<dlWork, upWork, caching, divider, down, sessStop>>

Next ==
  \/ \E p \in Providers : Downs(p) \/ Reups(p)
  \/ CacheWriter \/ Divider \/ NoProgress \/ Teardown \/ Stop
  \/ \E i \in Items : RetryElapsed(i)

Spec == Init /\ [][Next]_vars

(* Goroutines that can run do run, time passes, connections do not hang    *)
(* (they have timeouts). The receivers of a channel are served in turn: of *)
(* two providers of a group the one that waits is not passed over for ever *)
(* (SF). Nothing makes a user stop the session or the watchdog fire.       *)
FairSpec ==
  /\ Spec
  /\ \A p \in Providers : WF_vars(Downs(p)) /\ WF_vars(Reups(p))
  /\ WF_vars(CacheWriter) /\ WF_vars(Divider) /\ WF_vars(Teardown)
  /\ \A i \in Items : WF_vars(RetryElapsed(i))
  /\ \A p \in Providers : Siblings(p) # {p} => SF_vars(DnTake(p) \/ UpTake(p))

(***************************************************************************)
(* Properties                                                              *)
(***************************************************************************)
Queued(chan, i) == \E g \in Groups : i \in Range(chan[g])
dlWaits(i) == \/ Queued(dlChan, i)
              \/ \E p \in Providers : dn[p].item = i /\ dn[p].pc \in {"mem", "down", "cmd"}
upWaits(i) == \/ Queued(upChan, i)
              \/ \E p \in Providers : up[p].item = i /\ up[p].pc \in {"down", "mem", "cmd"}
InWork(i) == \/ Queued(dlChan, i) \/ Queued(upChan, i)
             \/ \E p \in Providers : dn[p].item = i \/ up[p].item = i

Places(chan) == {q \in Groups \X (1..ChanSize) : q[2] <= Len(chan[q[1]])}

(* dlQueueCnt and upQueueCnt outlive the session: a count too many and no  *)
(* later divider ever sees its queues empty (Utils.go: DecreaseDLQueueCnt, *)
(* one on every path of the two routines, pushDL and pushUP).              *)
QueueCountsExact ==
  /\ dlQ = Cardinality(Places(dlChan)) + Cardinality({p \in Providers : dn[p].pc \notin {"idle", "retire"}})
  /\ upQ = Cardinality(Places(upChan)) + Cardinality({p \in Providers : up[p].pc # "idle"})

(* An item the divider counts as in download or in upload is queued for it *)
(* or a routine works on it: a flag nobody clears any more would keep the  *)
(* divider waiting (Routines.go: FlagError on every error path). One path  *)
(* does not clear it: ReadCache, for an item of the cache whose article is *)
(* in memory already when its download begins (README, section 5).         *)
FlagMeansWork ==
  ~sessStop =>
    \A i \in Items : /\ item[i].flaginDL => dlWaits(i) \/ (cacheON /\ item[i].flagCache)
                     /\ item[i].flaginUP => upWaits(i)

(* A failed download gives its slot back (GoWorker, MemRetOnERR): the      *)
(* divider skips dead items and never retires them, so an item that every  *)
(* provider misses holds no slot outside the routines. Others that count   *)
(* as dead may hold one (README, section 5).                               *)
DeadHoldsNoSlot ==
  \A i \in Items : item[i].missingOn = Providers /\ ~InWork(i) => ~item[i].memlocked

(* Some provider misses the article and would take it, were it not down.   *)
StillWanted(x) ==
  (x.missingOn \cap TakesUploads)
    \ (x.ignoreUlOn \cup x.uploadedTo \cup x.availableOn
         \cup x.unwantedOn \cup x.dmcaOn \cup x.errorOn) # {}

(* When the divider finds nothing left to do and quits, no item it is done *)
(* with holds a slot: memlim is global, and releaseMemSlots is for what    *)
(* leaks (retireAfterDownload, afterCacheWrite, retireNoUploadTarget). An  *)
(* item that is still wanted, although the provider went down since the    *)
(* divider's scan, or that counts as dead, may hold one (README).          *)
QuitLeavesNoSlot ==
  [][pos.at = "scan" /\ pos'.at = "quit" /\ ~InFlight /\ closeWait <= 0 /\ ~sessStop
       => \A i \in Slots : InWork(i) \/ StillWanted(item[i]) \/ IsSegmentStupid(item[i])]_vars

(* After an error the slot is kept, lest "downloads take every slot while  *)
(* the item, queued again without one, waited in MemLockWait behind items  *)
(* that held them: deadlock" (GoWorker). Here every slot is held by items  *)
(* that are queued where all routines wait for a slot.                     *)
Stuck(chan, routine, i) ==
  \E g \in Groups :
    /\ i \in Range(chan[g])
    /\ \A p \in Providers : group[p] = g =>
         routine[p].pc = "mem" /\ ~item[routine[p].item].memlocked

NoSlotDeadlock ==
  ~(/\ ~sessStop /\ ~SlotFree
    /\ \A i \in Slots : Stuck(upChan, up, i) \/ Stuck(dlChan, dn, i))

(* Every session ends by itself, whatever the servers answer (LaunchSession *)
(* waits for the divider and then for every worker).                       *)
SessionEnds == <>(pos.at = "ended")

(* Types, queue counts and flags add up with the work there is, on every   *)
(* path of the two routines, the cache writer and the divider.             *)
ItemsAccounted == TypeOK /\ QueueCountsExact /\ FlagMeansWork
=============================================================================
