--------------------------- MODULE TransferProofs ---------------------------
(***************************************************************************)
(* Proofs about Transfer, for every segment list, provider list, cache and *)
(* every answer of the servers: the items' flags and the two queue counts  *)
(* add up with the work there is, and an item that every provider misses   *)
(* keeps no slot of the memory limiter.                                    *)
(***************************************************************************)
EXTENDS Transfer, FiniteSetTheorems, TLAPS

(* What is assumed of the parameters, in the form the proofs use.          *)
LEMMA Parameters ==
  /\ MaxItemFails \in Nat /\ MaxItemFails > 0 /\ ChanSize \in Nat /\ ChanSize > 0
  /\ CloseLimit \in Nat /\ CloseLimit > 1 /\ cacheON \in BOOLEAN
  /\ todo \in Nat /\ None \notin Items
  /\ \A p \in Providers : group[p] \in Groups
  /\ \A n \in 1..todo : segmentList[n] \in Items
  /\ IsFiniteSet(Providers) /\ IsFiniteSet(Groups)
  <1>1. /\ DOMAIN group = Providers /\ segmentList \in Seq(Items) /\ IsFiniteSet(Providers)
        /\ None \notin Items /\ cacheON \in BOOLEAN
    BY TransferAssumption
  <1>2. /\ MaxItemFails \in Nat /\ MaxItemFails > 0 /\ ChanSize \in Nat /\ ChanSize > 0
        /\ CloseLimit \in Nat /\ CloseLimit > 1
    <2>1. /\ MaxItemFails \in Nat \ {0} /\ ChanSize \in Nat \ {0} /\ CloseLimit \in Nat \ {0, 1}
      BY Zenon, TransferAssumption
    <2> QED
      BY <2>1
  <1>3. \A p \in Providers : group[p] \in Groups
    BY <1>1 DEF Groups, Range
  <1>4. todo \in Nat /\ \A n \in 1..todo : segmentList[n] \in Items
    BY <1>1 DEF todo
  <1>5. IsFiniteSet(Groups)
    <2> DEFINE f == [p \in Providers |-> group[p]]
    <2>1. f \in Surjection(Providers, Groups)
      BY <1>1 DEF Groups, Range, Surjection
    <2> QED
      BY <2>1, <1>1, FS_Surjection, Zenon
  <1> QED
    BY <1>1, <1>2, <1>3, <1>4, <1>5

-----------------------------------------------------------------------------
(* What the critical sections make of an item's flags are flags again.     *)
LEMMA FlagErrorType ==
  ASSUME NEW x \in Flags, NEW p \in Providers
  PROVE  FlagError(x, p) \in Flags
  <1>1. (IF x.fails < MaxItemFails THEN x.fails + 1 ELSE x.fails) \in 0..MaxItemFails
    BY Parameters DEF Flags
  <1>2. /\ (x.inRetry \/ (x.flaginUP /\ x.fails < MaxItemFails - 1)) \in BOOLEAN
        /\ (IF x.flaginUP /\ x.fails < MaxItemFails - 1 THEN x.retryOn \cup {p} ELSE x.retryOn)
             \in SUBSET Providers
        /\ (IF x.flaginUP /\ x.fails + 1 >= MaxItemFails THEN x.errorOn \cup {p} ELSE x.errorOn)
             \in SUBSET Providers
    BY DEF Flags
  <1>3. x.availableOn \ {p} \in SUBSET Providers
    BY DEF Flags
  <1>4. ASSUME NEW n \in 0..MaxItemFails, NEW b \in BOOLEAN,
               NEW a \in SUBSET Providers, NEW r \in SUBSET Providers, NEW e \in SUBSET Providers
        PROVE  [x EXCEPT !.flaginDL = FALSE, !.flaginUP = FALSE, !.fails = n, !.availableOn = a,
                         !.inRetry = b, !.retryOn = r, !.errorOn = e] \in Flags
    BY DEF Flags
  <1> QED
    BY <1>1, <1>2, <1>3, <1>4, Zenon DEF FlagError

(* Giving back a slot changes one flag.                                    *)
LEMMA MemReturnType == \A x \in Flags : MemReturn(x) \in Flags
  BY DEF Flags, MemReturn

(* What a check leaves is neither downloaded nor in work.                  *)
LEMMA CheckResultType ==
  ASSUME NEW code \in Checked, NEW by \in [Groups -> Providers], NEW b \in BOOLEAN
  PROVE  LET x == [CheckResult(code, by) EXCEPT !.flagCache = b]
         IN x \in Flags /\ ~x.article /\ ~x.flaginDL /\ ~x.flaginUP
  <1>1. ASSUME NEW av \in SUBSET Providers, NEW ms \in SUBSET Providers, NEW dm \in SUBSET Providers,
               NEW er \in SUBSET Providers, NEW id \in SUBSET Providers, NEW iu \in SUBSET Providers
        PROVE  [availableOn |-> av, missingOn |-> ms, dmcaOn |-> dm, errorOn |-> er,
                unwantedOn |-> {}, uploadedTo |-> {}, ignoreDlOn |-> id, ignoreUlOn |-> iu,
                retryOn |-> {}, inRetry |-> FALSE, fails |-> 0,
                article |-> FALSE, memlocked |-> FALSE,
                flaginDL |-> FALSE, flagisDL |-> FALSE, flaginUP |-> FALSE, flagisUP |-> FALSE,
                flagCache |-> FALSE, retireWhenCached |-> FALSE] \in Flags
    BY Parameters DEF Flags
  <1>2. \A c : {p \in Providers : code[group[p]] \in c} \in SUBSET Providers
    OBVIOUS
  <1>3. CheckResult(code, by) \in Flags
    <2> DEFINE on(c) == {p \in Providers : code[group[p]] \in c}
               id == on({"other", "failed"}) \cup {p \in on({"223"}) : by[group[p]] \in NoDownload}
               iu == {p \in on({"223"}) : by[group[p]] \in NoUpload}
    <2>1. id \in SUBSET Providers /\ iu \in SUBSET Providers
      OBVIOUS
    <2> QED
      BY <1>1, <1>2, <2>1, Zenon DEF CheckResult
  <1>4. \A x \in Flags : LET y == [x EXCEPT !.flagCache = b]
                        IN y \in Flags /\ y.article = x.article
                             /\ y.flaginDL = x.flaginDL /\ y.flaginUP = x.flaginUP
    BY DEF Flags
  <1>5. ~CheckResult(code, by).article /\ ~CheckResult(code, by).flaginDL /\ ~CheckResult(code, by).flaginUP
    BY DEF CheckResult
  <1> QED
    BY <1>3, <1>4, <1>5

-----------------------------------------------------------------------------
(* The items, the cache, and where the divider is.                         *)
RestInv ==
  /\ disk \in [Items -> {"none", "ok", "empty"}]
  /\ cacheChan \in Seq(Items)
  /\ cw \in [pc : {"idle", "write", "after"}, item : Items \cup {None}]
  /\ cw.pc # "idle" => cw.item # None
  /\ down \subseteq Providers /\ sessStop \in BOOLEAN

DividerInv ==
  /\ pos \in [n : 1..todo + 1, at : {"scan", "retire", "up", "dl", "quit", "closed", "ended"}]
  /\ pos.at \in {"retire", "up", "dl"} => pos.n <= todo
  /\ closeWait \in 0..CloseLimit
  /\ pos.at \notin {"quit", "closed", "ended"} => closeWait < CloseLimit

(* What the checks found is what a session may begin with.                 *)
LEMMA InitItems == Init => item \in [Items -> Flags]
  <1> SUFFICES ASSUME Init PROVE item \in [Items -> Flags]
    OBVIOUS
  <1>1. PICK code \in [Items -> Checked], by \in {f \in [Groups -> Providers] : \A g \in Groups : group[f[g]] = g} :
          item = [i \in Items |-> [CheckResult(code[i], by) EXCEPT !.flagCache = (disk[i] = "ok")]]
    BY DEF Init
  <1>2. \A i \in Items : [CheckResult(code[i], by) EXCEPT !.flagCache = (disk[i] = "ok")] \in Flags
    BY CheckResultType
  <1> QED
    BY <1>1, <1>2

(* The cache, the switches and the divider at the start.                   *)
LEMMA InitRest == Init => RestInv /\ DividerInv
  <1> SUFFICES ASSUME Init PROVE RestInv /\ DividerInv
    OBVIOUS
  <1>1. RestInv
    <2>1. disk \in [Items -> {"none", "ok", "empty"}]
      BY DEF Init
    <2>2. cacheChan \in Seq(Items) /\ cw = Idle /\ down = {} /\ sessStop = FALSE
      BY DEF Init
    <2> QED
      BY <2>1, <2>2 DEF RestInv, Idle
  <1>2. DividerInv
    BY Parameters DEF Init, DividerInv, NewRound
  <1> QED
    BY <1>1, <1>2

-----------------------------------------------------------------------------
(* An article in memory was downloaded or is in the cache, and an item in  *)
(* download has not been downloaded yet. ReadCache, which leaves the flags *)
(* alone when it finds the article, sets nothing wrong because of this.    *)
FlagsFit(x) ==
  /\ x.article => x.flagisDL \/ x.flagCache
  /\ x.flaginDL => ~x.flagisDL

(* What every critical section but the divider's pushes does to an item:   *)
(* it does not set flaginDL or flaginUP, and takes no item from the cache. *)
Keeps(x, y) ==
  /\ y \in Flags
  /\ FlagsFit(x) => FlagsFit(y)
  /\ y.flaginDL => x.flaginDL
  /\ y.flaginUP => x.flaginUP
  /\ x.flagCache => y.flagCache

ItemsKept == item' \in [Items -> Flags] /\ \A j \in Items : Keeps(item[j], item'[j])

(* One item is changed, to flags it may have.                              *)
LEMMA SetKeeps ==
  ASSUME item \in [Items -> Flags], NEW i \in Items, NEW y, Keeps(item[i], y), Set(i, y)
  PROVE  ItemsKept /\ item'[i] = y
  <1>1. item \in [Items -> Flags] /\ y \in Flags
    BY DEF Keeps
  <1>2. item' = [item EXCEPT ![i] = y]
    BY DEF Set
  <1>3. item' \in [Items -> Flags] /\ item'[i] = y
    BY <1>1, <1>2
  <1>4. \A j \in Items : Keeps(item[j], item'[j])
    <2> TAKE j \in Items
    <2>1. CASE j = i
      BY <2>1, <1>3
    <2>2. CASE j # i
      <3>1. item'[j] = item[j] /\ item[j] \in Flags
        BY <2>2, <1>1, <1>2
      <3> QED
        BY <3>1 DEF Keeps
    <2> QED
      BY <2>1, <2>2
  <1> QED
    BY <1>3, <1>4 DEF ItemsKept

(* No item is changed.                                                     *)
LEMMA SameKeeps ==
  ASSUME item \in [Items -> Flags], UNCHANGED item
  PROVE  ItemsKept
  BY DEF ItemsKept, Keeps

(* The critical sections of the routines, each on the item it works on.    *)
LEMMA PlainKeeps ==
  ASSUME NEW x \in Flags, NEW S \in SUBSET Providers
  PROVE  /\ Keeps(x, x)
         /\ Keeps(x, [x EXCEPT !.flaginDL = FALSE])
         /\ Keeps(x, [x EXCEPT !.flaginUP = FALSE])
         /\ Keeps(x, [x EXCEPT !.memlocked = TRUE])
         /\ Keeps(x, [x EXCEPT !.inRetry = FALSE])
         /\ Keeps(x, [x EXCEPT !.article = FALSE])
         /\ Keeps(x, [x EXCEPT !.ignoreDlOn = @ \cup S])
         /\ Keeps(x, [x EXCEPT !.errorOn = @ \cup S, !.flaginUP = FALSE])
         /\ Keeps(x, [x EXCEPT !.retryOn = @ \cup S, !.inRetry = TRUE, !.flaginUP = FALSE])
         /\ Keeps(x, [x EXCEPT !.unwantedOn = @ \cup S, !.flaginUP = FALSE])
  <1>1. Keeps(x, x) /\ Keeps(x, [x EXCEPT !.flaginDL = FALSE])
    BY DEF Flags, Keeps, FlagsFit
  <1>2. Keeps(x, [x EXCEPT !.flaginUP = FALSE]) /\ Keeps(x, [x EXCEPT !.memlocked = TRUE])
    BY DEF Flags, Keeps, FlagsFit
  <1>3. Keeps(x, [x EXCEPT !.inRetry = FALSE]) /\ Keeps(x, [x EXCEPT !.article = FALSE])
    BY DEF Flags, Keeps, FlagsFit
  <1>4. Keeps(x, [x EXCEPT !.ignoreDlOn = @ \cup S])
    BY DEF Flags, Keeps, FlagsFit
  <1>5. Keeps(x, [x EXCEPT !.errorOn = @ \cup S, !.flaginUP = FALSE])
    BY DEF Flags, Keeps, FlagsFit
  <1>6. Keeps(x, [x EXCEPT !.retryOn = @ \cup S, !.inRetry = TRUE, !.flaginUP = FALSE])
    BY DEF Flags, Keeps, FlagsFit
  <1>7. Keeps(x, [x EXCEPT !.unwantedOn = @ \cup S, !.flaginUP = FALSE])
    BY DEF Flags, Keeps, FlagsFit
  <1> QED
    BY <1>1, <1>2, <1>3, <1>4, <1>5, <1>6, <1>7

(* FlagError, also with the provider ignored for downloads.                *)
LEMMA FlagErrorKeeps ==
  ASSUME NEW x \in Flags, NEW p \in Providers
  PROVE  /\ Keeps(x, FlagError(x, p)) /\ ~FlagError(x, p).flaginDL /\ ~FlagError(x, p).flaginUP
         /\ Keeps(x, [FlagError(x, p) EXCEPT !.ignoreDlOn = @ \cup {p}])
         /\ ~[FlagError(x, p) EXCEPT !.ignoreDlOn = @ \cup {p}].flaginDL
  <1> DEFINE y == FlagError(x, p)
             z == [y EXCEPT !.ignoreDlOn = @ \cup {p}]
  <1>1. y \in Flags
    BY FlagErrorType
  <1>2. /\ y.flaginDL = FALSE /\ y.flaginUP = FALSE /\ y.article = x.article
        /\ y.flagisDL = x.flagisDL /\ y.flagCache = x.flagCache
    BY DEF FlagError, Flags
  <1> HIDE DEF y
  <1>3. Keeps(x, y)
    BY <1>1, <1>2 DEF Keeps, FlagsFit
  <1>4. z \in Flags
    BY <1>1 DEF Flags
  <1>5. /\ z.flaginDL = FALSE /\ z.flaginUP = FALSE /\ z.article = x.article
        /\ z.flagisDL = x.flagisDL /\ z.flagCache = x.flagCache
    BY <1>1, <1>2 DEF Flags
  <1>6. Keeps(x, z)
    <2> HIDE DEF z
    <2> QED
      BY <1>4, <1>5 DEF Keeps, FlagsFit
  <1> QED
    BY <1>2, <1>3, <1>5, <1>6 DEF y

(* The answers to ARTICLE, and the article that ReadCache finds on disk.   *)
LEMMA ArticleKeeps ==
  ASSUME NEW x \in Flags, NEW S \in SUBSET Providers
  PROVE  /\ Keeps(x, [x EXCEPT !.availableOn = @ \cup S, !.missingOn = @ \ S, !.article = TRUE,
                               !.flagisDL = TRUE, !.flaginDL = FALSE])
         /\ Keeps(x, [x EXCEPT !.article = TRUE, !.flagCache = TRUE, !.flaginDL = FALSE])
         /\ Keeps(x, [x EXCEPT !.uploadedTo = @ \cup S, !.missingOn = @ \ S,
                               !.flaginUP = FALSE, !.flagisUP = TRUE, !.fails = 0])
         /\ \A dm, er, ig \in SUBSET Providers :
              Keeps(x, [x EXCEPT !.missingOn = @ \cup S, !.availableOn = @ \ S,
                                 !.dmcaOn = dm, !.errorOn = er, !.ignoreDlOn = ig,
                                 !.flaginDL = FALSE])
  <1>1. Keeps(x, [x EXCEPT !.availableOn = @ \cup S, !.missingOn = @ \ S, !.article = TRUE,
                           !.flagisDL = TRUE, !.flaginDL = FALSE])
    BY DEF Flags, Keeps, FlagsFit
  <1>2. Keeps(x, [x EXCEPT !.article = TRUE, !.flagCache = TRUE, !.flaginDL = FALSE])
    BY DEF Flags, Keeps, FlagsFit
  <1>3. Keeps(x, [x EXCEPT !.uploadedTo = @ \cup S, !.missingOn = @ \ S,
                           !.flaginUP = FALSE, !.flagisUP = TRUE, !.fails = 0])
    <2>1. ASSUME NEW u \in SUBSET Providers, NEW m \in SUBSET Providers
          PROVE  Keeps(x, [x EXCEPT !.uploadedTo = u, !.missingOn = m,
                                    !.flaginUP = FALSE, !.flagisUP = TRUE, !.fails = 0])
      <3>1. 0 \in 0..MaxItemFails
        BY Parameters
      <3> QED
        BY <3>1 DEF Flags, Keeps, FlagsFit
    <2>2. x.uploadedTo \cup S \in SUBSET Providers /\ x.missingOn \ S \in SUBSET Providers
      BY DEF Flags
    <2> QED
      BY <2>1, <2>2, Zenon
  <1>4. \A dm, er, ig \in SUBSET Providers :
              Keeps(x, [x EXCEPT !.missingOn = @ \cup S, !.availableOn = @ \ S,
                                 !.dmcaOn = dm, !.errorOn = er, !.ignoreDlOn = ig,
                                 !.flaginDL = FALSE])
    <2>1. ASSUME NEW m \in SUBSET Providers, NEW a \in SUBSET Providers, NEW dm \in SUBSET Providers,
                 NEW er \in SUBSET Providers, NEW ig \in SUBSET Providers
          PROVE  Keeps(x, [x EXCEPT !.missingOn = m, !.availableOn = a, !.dmcaOn = dm,
                                    !.errorOn = er, !.ignoreDlOn = ig, !.flaginDL = FALSE])
      BY DEF Flags, Keeps, FlagsFit
    <2>2. x.missingOn \cup S \in SUBSET Providers /\ x.availableOn \ S \in SUBSET Providers
      BY DEF Flags
    <2> QED
      BY <2>1, <2>2, Zenon
  <1> QED
    BY <1>1, <1>2, <1>3, <1>4

(* Giving a slot back, retiring an item, and writing it to the cache.      *)
LEMMA RetireKeeps ==
  ASSUME NEW x \in Flags
  PROVE  /\ Keeps(x, MemReturn(x)) /\ Keeps(x, retireItem(x)) /\ Keeps(x, retireAfterDownload(x))
         /\ Keeps(x, retireItem([x EXCEPT !.retireWhenCached = FALSE]))
         /\ \A c \in BOOLEAN : Keeps(x, [x EXCEPT !.flagCache = @ \/ c])
         /\ Keeps(x, [x EXCEPT !.flagCache = TRUE, !.flaginDL = FALSE, !.article = @ /\ allowUp])
  <1>1. \A y \in Flags : Keeps(y, MemReturn(y))
    BY DEF Flags, Keeps, FlagsFit, MemReturn
  <1>2. ASSUME NEW y \in Flags PROVE Keeps(y, retireItem(y))
    <2>1. CASE ~y.memlocked
      BY <2>1 DEF Keeps, FlagsFit, retireItem
    <2>2. ASSUME y.memlocked, NEW a, a = (y.article /\ cacheON /\ ~y.flagCache)
          PROVE  Keeps(y, [y EXCEPT !.memlocked = FALSE, !.article = a])
      <3>1. a \in BOOLEAN /\ (a => y.article)
        BY <2>2, Zenon
      <3>2. [y EXCEPT !.memlocked = FALSE, !.article = a] \in Flags
        BY <3>1 DEF Flags
      <3> QED
        BY <3>1, <3>2 DEF Flags, Keeps, FlagsFit
    <2> QED
      BY <2>1, <2>2 DEF retireItem
  <1>3. \A b \in BOOLEAN : /\ [x EXCEPT !.retireWhenCached = b] \in Flags
                           /\ Keeps(x, [x EXCEPT !.retireWhenCached = b])
    BY DEF Flags, Keeps, FlagsFit
  <1>4. Keeps(x, retireAfterDownload(x))
    <2>1. Keeps(x, x)
      BY DEF Keeps
    <2> QED
      BY <1>2, <1>3, <2>1 DEF retireAfterDownload
  <1>5. Keeps(x, retireItem([x EXCEPT !.retireWhenCached = FALSE]))
    <2> DEFINE y == [x EXCEPT !.retireWhenCached = FALSE]
    <2>1. y \in Flags /\ Keeps(x, y)
      BY <1>3
    <2>2. Keeps(y, retireItem(y))
      BY <1>2, <2>1
    <2> HIDE DEF y
    <2>3. Keeps(x, retireItem(y))
      BY <2>1, <2>2 DEF Keeps
    <2> QED
      BY <2>3 DEF y
  <1>6. \A c \in BOOLEAN : Keeps(x, [x EXCEPT !.flagCache = @ \/ c])
    <2> TAKE c \in BOOLEAN
    <2>1. ASSUME NEW f, f = (x.flagCache \/ c)
          PROVE  Keeps(x, [x EXCEPT !.flagCache = f])
      <3>1. f \in BOOLEAN /\ (x.flagCache => f)
        BY <2>1, Zenon DEF Flags
      <3> QED
        BY <3>1 DEF Flags, Keeps, FlagsFit
    <2> QED
      BY <2>1
  <1>7. Keeps(x, [x EXCEPT !.flagCache = TRUE, !.flaginDL = FALSE, !.article = @ /\ allowUp])
    <2>1. ASSUME NEW a, a = (x.article /\ allowUp)
          PROVE  Keeps(x, [x EXCEPT !.flagCache = TRUE, !.flaginDL = FALSE, !.article = a])
      <3>1. a \in BOOLEAN
        BY <2>1, Zenon
      <3> QED
        BY <3>1 DEF Flags, Keeps, FlagsFit
    <2> QED
      BY <2>1
  <1> QED
    BY <1>1, <1>2, <1>4, <1>5, <1>6, <1>7

-----------------------------------------------------------------------------
(* The work of one kind, downloads or uploads: the channels of the groups, *)
(* the routines, and the count n of what is queued or in a routine that is *)
(* not yet out of it.                                                      *)
Busy(r, out) == {p \in Providers : r[p].pc \notin out}

WorkInv(chan, r, n, pcs, out) ==
  /\ chan \in [Groups -> Seq(Items)]
  /\ \A g \in Groups : Len(chan[g]) <= ChanSize
  /\ r \in [Providers -> [pc : pcs, item : Items \cup {None}]]
  /\ \A p \in Providers : r[p].pc = "idle" <=> r[p].item = None
  /\ n = Cardinality(Places(chan)) + Cardinality(Busy(r, out))

(* Item j is queued, or a routine works on it that has not answered yet.   *)
Waits(chan, r, pcs, j) ==
  Queued(chan, j) \/ \E p \in Providers : r[p].item = j /\ r[p].pc \in pcs

(* The places are finitely many, and so are the routines.                  *)
LEMMA PlacesFinite ==
  ASSUME NEW chan
  PROVE  IsFiniteSet(Places(chan)) /\ Cardinality(Places(chan)) \in Nat
  <1>1. IsFiniteSet(1..ChanSize)
    BY Parameters, FS_Interval
  <1>2. IsFiniteSet(Groups \X (1..ChanSize))
    BY <1>1, Parameters, FS_Product
  <1>3. IsFiniteSet(Places(chan))
    BY <1>2, FS_Subset, Zenon DEF Places
  <1> QED
    BY <1>3, FS_CardinalityType

(* The routines with an item in hand are finitely many, too.               *)
LEMMA BusyFinite ==
  ASSUME NEW r, NEW out
  PROVE  IsFiniteSet(Busy(r, out)) /\ Cardinality(Busy(r, out)) \in Nat
  <1>1. IsFiniteSet(Busy(r, out))
    BY Parameters, FS_Subset, Zenon DEF Busy
  <1> QED
    BY <1>1, FS_CardinalityType

(* A push adds one place, a take frees the last one.                       *)
LEMMA PlacesPush ==
  ASSUME NEW chan \in [Groups -> Seq(Items)], NEW g \in Groups, NEW i \in Items,
         Len(chan[g]) < ChanSize
  PROVE  Cardinality(Places([chan EXCEPT ![g] = Append(@, i)])) = Cardinality(Places(chan)) + 1
  <1> DEFINE chan2 == [chan EXCEPT ![g] = Append(@, i)]
             q == <<g, Len(chan[g]) + 1>>
  <1>1. chan[g] \in Seq(Items) /\ Len(chan[g]) \in Nat
    OBVIOUS
  <1>2. /\ Len(chan2[g]) = Len(chan[g]) + 1
        /\ \A h \in Groups : h # g => chan2[h] = chan[h]
        /\ \A h \in Groups : Len(chan[h]) \in Nat
    BY <1>1
  <1>3. q \in Groups \X (1..ChanSize)
    BY <1>1, Parameters
  <1> HIDE DEF chan2
  <1>4. \A s \in Groups \X (1..ChanSize) : s \in Places(chan2) <=> s \in Places(chan) \/ s = q
    BY <1>1, <1>2, <1>3 DEF Places
  <1>5. Places(chan2) = Places(chan) \cup {q} /\ q \notin Places(chan)
    <2>1. q \notin Places(chan)
      BY <1>1 DEF Places
    <2>2. Places(chan2) \subseteq Groups \X (1..ChanSize) /\ Places(chan) \subseteq Groups \X (1..ChanSize)
      BY Zenon DEF Places
    <2> HIDE DEF q
    <2> QED
      BY <2>1, <2>2, <1>3, <1>4, Zenon
  <1>6. Cardinality(Places(chan) \cup {q}) = Cardinality(Places(chan)) + 1
    BY <1>5, PlacesFinite, FS_AddElement
  <1> QED
    BY <1>5, <1>6 DEF chan2

(* A take frees the last place of its channel.                             *)
LEMMA PlacesTake ==
  ASSUME NEW chan \in [Groups -> Seq(Items)], NEW g \in Groups,
         Len(chan[g]) <= ChanSize, chan[g] # <<>>
  PROVE  Cardinality(Places(chan)) = Cardinality(Places([chan EXCEPT ![g] = Tail(@)])) + 1
  <1> DEFINE chan2 == [chan EXCEPT ![g] = Tail(@)]
             q == <<g, Len(chan[g])>>
  <1>1. chan[g] \in Seq(Items) /\ Len(chan[g]) \in Nat /\ Len(chan[g]) > 0
    OBVIOUS
  <1>2. /\ Len(chan2[g]) = Len(chan[g]) - 1
        /\ \A h \in Groups : h # g => chan2[h] = chan[h]
        /\ \A h \in Groups : Len(chan[h]) \in Nat
    BY <1>1
  <1>3. q \in Groups \X (1..ChanSize)
    BY <1>1, Parameters
  <1> HIDE DEF chan2
  <1>4. \A s \in Groups \X (1..ChanSize) : s \in Places(chan) <=> s \in Places(chan2) \/ s = q
    BY <1>1, <1>2, <1>3 DEF Places
  <1>5. Places(chan) = Places(chan2) \cup {q} /\ q \notin Places(chan2)
    <2>1. q \notin Places(chan2)
      BY <1>1, <1>2 DEF Places
    <2>2. Places(chan2) \subseteq Groups \X (1..ChanSize) /\ Places(chan) \subseteq Groups \X (1..ChanSize)
      BY Zenon DEF Places
    <2> HIDE DEF q
    <2> QED
      BY <2>1, <2>2, <1>3, <1>4, Zenon
  <1>6. Cardinality(Places(chan2) \cup {q}) = Cardinality(Places(chan2)) + 1
    BY <1>5, PlacesFinite, FS_AddElement
  <1> QED
    BY <1>5, <1>6 DEF chan2

(* One routine gets out of its work, or stays in it.                       *)
SameBut(r2, r, p) == \A q \in Providers : q # p => r2[q] = r[q]

(* A routine that lets go of its item is one fewer,                        *)
LEMMA BusyLess ==
  ASSUME NEW r, NEW r2, NEW out, NEW p \in Providers,
         r[p].pc \notin out, r2[p].pc \in out, SameBut(r2, r, p)
  PROVE  Cardinality(Busy(r, out)) = Cardinality(Busy(r2, out)) + 1
  <1>1. Busy(r, out) = Busy(r2, out) \cup {p} /\ p \notin Busy(r2, out)
    BY Zenon DEF Busy, SameBut
  <1>2. Cardinality(Busy(r2, out) \cup {p}) = Cardinality(Busy(r2, out)) + 1
    BY <1>1, BusyFinite, FS_AddElement
  <1> QED
    BY <1>1, <1>2

(* and one that keeps it, or takes none, changes nothing.                  *)
LEMMA BusySame ==
  ASSUME NEW r, NEW r2, NEW out, NEW p \in Providers,
         r[p].pc \in out <=> r2[p].pc \in out, SameBut(r2, r, p)
  PROVE  Busy(r, out) = Busy(r2, out)
  BY Zenon DEF Busy, SameBut

(* What is pushed to and taken from a channel, and where a routine goes.   *)
Taken(chan2, chan, g) == chan2 = [chan EXCEPT ![g] = Tail(@)]
GoesTo(r2, r, p, pc) == r2 = [r EXCEPT ![p].pc = pc]
Becomes(r2, r, p, st) == r2 = [r EXCEPT ![p] = st]
Appended(chan2, chan, g, i) == chan2 = [chan EXCEPT ![g] = Append(@, i)]

(* The divider pushes item i to group g: it waits now, and the others do   *)
(* as before.                                                              *)
LEMMA PushWork ==
  ASSUME NEW chan, NEW r, NEW n, NEW pcs, NEW out, NEW waits, WorkInv(chan, r, n, pcs, out),
         NEW g \in Groups, NEW i \in Items, Len(chan[g]) < ChanSize,
         NEW chan2, Appended(chan2, chan, g, i)
  PROVE  /\ WorkInv(chan2, r, n + 1, pcs, out)
         /\ Waits(chan2, r, waits, i)
         /\ \A j \in Items : Waits(chan, r, waits, j) => Waits(chan2, r, waits, j)
  <1>1. chan \in [Groups -> Seq(Items)] /\ \A h \in Groups : Len(chan[h]) <= ChanSize
    BY DEF WorkInv
  <1>2. chan2 \in [Groups -> Seq(Items)] /\ \A h \in Groups : Len(chan2[h]) <= ChanSize
    BY <1>1, Parameters DEF Appended
  <1>3. Cardinality(Places(chan2)) = Cardinality(Places(chan)) + 1
    BY <1>1, PlacesPush DEF Appended
  <1>4. n + 1 = Cardinality(Places(chan2)) + Cardinality(Busy(r, out))
    <2>1. n = Cardinality(Places(chan)) + Cardinality(Busy(r, out))
      BY DEF WorkInv
    <2> QED
      BY <2>1, <1>3, PlacesFinite, BusyFinite
  <1>5. WorkInv(chan2, r, n + 1, pcs, out)
    BY <1>2, <1>4, Zenon DEF WorkInv
  <1>6. i \in Range(chan2[g]) /\ \A h \in Groups : Range(chan[h]) \subseteq Range(chan2[h])
    <2>1. chan[g] \in Seq(Items) /\ Len(chan[g]) \in Nat /\ chan2[g] = Append(chan[g], i)
      BY <1>1 DEF Appended
    <2>2. DOMAIN chan2[g] = 1..(Len(chan[g]) + 1) /\ chan2[g][Len(chan[g]) + 1] = i
      BY <2>1
    <2>3. i \in Range(chan2[g])
      BY <2>1, <2>2 DEF Range
    <2>4. Range(chan[g]) \subseteq Range(chan2[g])
      BY <2>1, <2>2 DEF Range
    <2>5. \A h \in Groups : h # g => chan2[h] = chan[h]
      BY <1>1 DEF Appended
    <2> QED
      BY <2>3, <2>4, <2>5, Zenon
  <1> QED
    BY <1>5, <1>6, Zenon DEF Waits, Queued

(* What the channel of group g is after its first item was taken.          *)
LEMMA TakenChannel ==
  ASSUME NEW chan \in [Groups -> Seq(Items)], NEW g \in Groups, chan[g] # <<>>,
         NEW chan2, Taken(chan2, chan, g)
  PROVE  /\ chan2 \in [Groups -> Seq(Items)] /\ Head(chan[g]) \in Items
         /\ \A h \in Groups : Len(chan2[h]) <= Len(chan[h])
         /\ \A j : Queued(chan, j) => Queued(chan2, j) \/ j = Head(chan[g])
  <1>1. chan[g] \in Seq(Items) /\ chan2[g] = Tail(chan[g]) /\ \A h \in Groups : h # g => chan2[h] = chan[h]
    BY DEF Taken
  <1>2. Head(chan[g]) \in Items /\ Tail(chan[g]) \in Seq(Items) /\ Len(Tail(chan[g])) <= Len(chan[g])
    BY <1>1
  <1>3. chan2 \in [Groups -> Seq(Items)]
    BY <1>2 DEF Taken
  <1>4. \A j : j \in Range(chan[g]) => j \in Range(chan2[g]) \/ j = Head(chan[g])
    <2> SUFFICES ASSUME NEW n \in DOMAIN chan[g], n # 1
                 PROVE  chan[g][n] \in Range(chan2[g])
      BY <1>1 DEF Range
    <2>1. n - 1 \in DOMAIN Tail(chan[g]) /\ Tail(chan[g])[n - 1] = chan[g][n]
      BY <1>1
    <2> QED
      BY <2>1, <1>1 DEF Range
  <1>5. \A h \in Groups : Len(chan[h]) \in Nat /\ Len(chan2[h]) <= Len(chan[h])
    BY <1>1, <1>2
  <1> QED
    BY <1>1, <1>2, <1>3, <1>4, <1>5, Zenon DEF Queued

(* An idle routine takes the first item of its group and works on it.      *)
LEMMA TakeWork ==
  ASSUME NEW chan, NEW r, NEW n, NEW pcs, NEW out, NEW waits, WorkInv(chan, r, n, pcs, out),
         NEW p \in Providers, "idle" \in out, "idle" \notin waits, r[p].pc = "idle",
         chan[group[p]] # <<>>, NEW pc \in pcs, pc \notin out, pc \in waits, pc # "idle",
         NEW chan2, Taken(chan2, chan, group[p]),
         NEW r2, Becomes(r2, r, p, [pc |-> pc, item |-> Head(chan[group[p]])])
  PROVE  /\ WorkInv(chan2, r2, n, pcs, out)
         /\ \A j \in Items : Waits(chan, r, waits, j) => Waits(chan2, r2, waits, j)
  <1> DEFINE g == group[p]
             i == Head(chan[g])
  <1>1. /\ chan \in [Groups -> Seq(Items)] /\ \A h \in Groups : Len(chan[h]) <= ChanSize
        /\ r \in [Providers -> [pc : pcs, item : Items \cup {None}]] /\ g \in Groups
        /\ \A q \in Providers : r[q].pc = "idle" <=> r[q].item = None
    BY Parameters, Zenon DEF WorkInv
  <1>2. /\ chan2 \in [Groups -> Seq(Items)] /\ i \in Items
        /\ \A h \in Groups : Len(chan2[h]) <= Len(chan[h])
        /\ \A j : Queued(chan, j) => Queued(chan2, j) \/ j = i
    BY <1>1, TakenChannel
  <1>3. \A h \in Groups : Len(chan2[h]) <= ChanSize
    <2>1. \A h \in Groups : Len(chan2[h]) \in Nat /\ Len(chan[h]) \in Nat
      BY <1>1, <1>2
    <2> QED
      BY <1>1, <1>2, <2>1, Parameters
  <1>4. /\ r2[p] = [pc |-> pc, item |-> i] /\ r2 \in [Providers -> [pc : pcs, item : Items \cup {None}]]
        /\ \A q \in Providers : q # p => r2[q] = r[q]
    BY <1>1, <1>2 DEF Becomes
  <1>5. r2[p].pc = pc /\ r2[p].item = i /\ i # None
    BY <1>4, <1>2, Parameters
  <1>6. \A q \in Providers : r2[q].pc = "idle" <=> r2[q].item = None
    BY <1>1, <1>4, <1>5, Zenon
  <1>7. n = Cardinality(Places(chan2)) + Cardinality(Busy(r2, out))
    <2>1. n = Cardinality(Places(chan)) + Cardinality(Busy(r, out))
      BY DEF WorkInv
    <2>2. Cardinality(Places(chan)) = Cardinality(Places(chan2)) + 1
      BY <1>1, PlacesTake DEF Taken
    <2>3. Cardinality(Busy(r2, out)) = Cardinality(Busy(r, out)) + 1
      <3>1. r2[p].pc \notin out /\ r[p].pc \in out /\ SameBut(r, r2, p)
        BY <1>4, <1>5 DEF SameBut
      <3> QED
        BY <3>1, BusyLess, Zenon
    <2> QED
      BY <2>1, <2>2, <2>3, PlacesFinite, BusyFinite
  <1>8. WorkInv(chan2, r2, n, pcs, out)
    BY <1>2, <1>3, <1>4, <1>6, <1>7, Zenon DEF WorkInv
  <1>9. \A j \in Items : Waits(chan, r, waits, j) => Waits(chan2, r2, waits, j)
    BY <1>2, <1>4, <1>5, Zenon DEF Waits
  <1> QED
    BY <1>8, <1>9

(* After stop an idle routine drops the first item of its group.           *)
LEMMA DropWork ==
  ASSUME NEW chan, NEW r, NEW n, NEW pcs, NEW out, WorkInv(chan, r, n, pcs, out),
         NEW g \in Groups, chan[g] # <<>>,
         NEW chan2, Taken(chan2, chan, g)
  PROVE  WorkInv(chan2, r, Decr(n), pcs, out)
  <1>1. chan \in [Groups -> Seq(Items)] /\ \A h \in Groups : Len(chan[h]) <= ChanSize
    BY DEF WorkInv
  <1>2. /\ chan2 \in [Groups -> Seq(Items)]
        /\ \A h \in Groups : Len(chan2[h]) <= Len(chan[h])
    BY <1>1, TakenChannel
  <1>3. \A h \in Groups : Len(chan2[h]) <= ChanSize
    <2>1. \A h \in Groups : Len(chan2[h]) \in Nat /\ Len(chan[h]) \in Nat
      BY <1>1, <1>2
    <2> QED
      BY <1>1, <1>2, <2>1, Parameters
  <1>4. Decr(n) = Cardinality(Places(chan2)) + Cardinality(Busy(r, out))
    <2>1. n = Cardinality(Places(chan)) + Cardinality(Busy(r, out))
      BY DEF WorkInv
    <2>2. Cardinality(Places(chan)) = Cardinality(Places(chan2)) + 1
      BY <1>1, PlacesTake DEF Taken
    <2> QED
      BY <2>1, <2>2, PlacesFinite, BusyFinite DEF Decr
  <1> QED
    BY <1>2, <1>3, <1>4, Zenon DEF WorkInv

(* A routine goes on with its item.                                        *)
LEMMA MoveWork ==
  ASSUME NEW chan, NEW r, NEW n, NEW pcs, NEW out, NEW waits, WorkInv(chan, r, n, pcs, out),
         NEW p \in Providers, "idle" \in out, r[p].pc \notin out, NEW pc \in pcs, pc \notin out,
         NEW r2, GoesTo(r2, r, p, pc)
  PROVE  /\ WorkInv(chan, r2, n, pcs, out)
         /\ \A j \in Items : (j # r[p].item \/ r[p].pc \notin waits \/ pc \in waits)
              => (Waits(chan, r, waits, j) => Waits(chan, r2, waits, j))
  <1>1. /\ r \in [Providers -> [pc : pcs, item : Items \cup {None}]]
        /\ \A q \in Providers : r[q].pc = "idle" <=> r[q].item = None
    BY DEF WorkInv
  <1>2. /\ r2[p].pc = pc /\ r2[p].item = r[p].item
        /\ r2 \in [Providers -> [pc : pcs, item : Items \cup {None}]]
        /\ \A q \in Providers : q # p => r2[q] = r[q]
    BY <1>1 DEF GoesTo
  <1>3. \A q \in Providers : r2[q].pc = "idle" <=> r2[q].item = None
    BY <1>1, <1>2, Zenon
  <1>4. Busy(r, out) = Busy(r2, out)
    <2>1. r2[p].pc \notin out /\ r[p].pc \notin out /\ SameBut(r2, r, p)
      BY <1>2 DEF SameBut
    <2> QED
      BY <2>1, BusySame, Zenon
  <1>5. WorkInv(chan, r2, n, pcs, out)
    BY <1>2, <1>3, <1>4, Zenon DEF WorkInv
  <1>6. \A j \in Items : (j # r[p].item \/ r[p].pc \notin waits \/ pc \in waits)
              => (Waits(chan, r, waits, j) => Waits(chan, r2, waits, j))
    BY <1>2, Zenon DEF Waits
  <1> QED
    BY <1>5, <1>6

(* A routine is out of its work and counted down, or was and is idle now.  *)
LEMMA LeaveWork ==
  ASSUME NEW chan, NEW r, NEW n, NEW pcs, NEW out, NEW waits, WorkInv(chan, r, n, pcs, out),
         NEW p \in Providers, "idle" \in pcs, "idle" \in out, NEW st, NEW r2, NEW n2,
         st = Idle \/ (st.pc \in out \cap pcs /\ st.pc # "idle" /\ st.item = r[p].item
                        /\ st \in [pc : pcs, item : Items \cup {None}] /\ r[p].pc # "idle"),
         Becomes(r2, r, p, st),
         n2 = IF r[p].pc \in out THEN n ELSE Decr(n)
  PROVE  /\ WorkInv(chan, r2, n2, pcs, out)
         /\ r[p].pc \notin waits =>
              \A j \in Items : Waits(chan, r, waits, j) => Waits(chan, r2, waits, j)
  <1>1. /\ r \in [Providers -> [pc : pcs, item : Items \cup {None}]]
        /\ \A q \in Providers : r[q].pc = "idle" <=> r[q].item = None
    BY DEF WorkInv
  <1>2. /\ st \in [pc : pcs, item : Items \cup {None}] /\ st.pc \in out
        /\ st.pc = "idle" <=> st.item = None
    <2>1. CASE st = Idle
      BY <2>1 DEF Idle
    <2>2. CASE st # Idle
      BY <2>2, <1>1, Zenon
    <2> QED
      BY <2>1, <2>2
  <1>3. /\ r2[p] = st /\ r2 \in [Providers -> [pc : pcs, item : Items \cup {None}]]
        /\ \A q \in Providers : q # p => r2[q] = r[q]
    BY <1>1, <1>2 DEF Becomes
  <1>4. \A q \in Providers : r2[q].pc = "idle" <=> r2[q].item = None
    BY <1>1, <1>2, <1>3, Zenon
  <1>5. n2 = Cardinality(Places(chan)) + Cardinality(Busy(r2, out))
    <2>1. n = Cardinality(Places(chan)) + Cardinality(Busy(r, out))
      BY DEF WorkInv
    <2>2. CASE r[p].pc \in out
      <3>1. Busy(r, out) = Busy(r2, out)
        <4>1. r2[p].pc \in out /\ SameBut(r2, r, p)
          BY <1>2, <1>3 DEF SameBut
        <4> QED
          BY <4>1, <2>2, BusySame, Zenon
      <3>2. n2 = n
        BY <2>2
      <3> QED
        BY <2>1, <3>1, <3>2, Zenon
    <2>3. CASE r[p].pc \notin out
      <3>1. Cardinality(Busy(r, out)) = Cardinality(Busy(r2, out)) + 1
        <4>1. r2[p].pc \in out /\ SameBut(r2, r, p)
          BY <1>2, <1>3 DEF SameBut
        <4> QED
          BY <4>1, <2>3, BusyLess, Zenon
      <3>2. n2 = Decr(n)
        BY <2>3
      <3> QED
        BY <2>1, <3>1, <3>2, PlacesFinite, BusyFinite DEF Decr
    <2> QED
      BY <2>2, <2>3
  <1>6. WorkInv(chan, r2, n2, pcs, out)
    BY <1>3, <1>4, <1>5, Zenon DEF WorkInv
  <1>7. r[p].pc \notin waits =>
              \A j \in Items : Waits(chan, r, waits, j) => Waits(chan, r2, waits, j)
    BY <1>3, Zenon DEF Waits
  <1> QED
    BY <1>6, <1>7
-----------------------------------------------------------------------------
(* The inductive invariant.                                                *)
DlInv == WorkInv(dlChan, dn, dlQ, DnPCs, {"idle", "retire"})
UpInv == WorkInv(upChan, up, upQ, UpPCs, {"idle"})
FlagsInv == item \in [Items -> Flags] /\ \A i \in Items : FlagsFit(item[i])

IInv == RestInv /\ DividerInv /\ DlInv /\ UpInv /\ FlagsInv /\ FlagMeansWork

DnWaits == {"mem", "down", "cmd"}
UpWaits == {"down", "mem", "cmd"}

(* Whoever waits for a routine still does after the step, or is not        *)
(* flagged any more.                                                       *)
DlKept ==
  sessStop \/ \A j \in Items : item'[j].flaginDL /\ Waits(dlChan, dn, DnWaits, j)
                 => Waits(dlChan', dn', DnWaits, j) \/ (cacheON /\ item'[j].flagCache)
UpKept ==
  sessStop \/ \A j \in Items : item'[j].flaginUP /\ Waits(upChan, up, UpWaits, j)
                 => Waits(upChan', up', UpWaits, j)

(* The invariant holds when the last check is done.                        *)
LEMMA InitIInv == Init => IInv
  <1> SUFFICES ASSUME Init PROVE IInv
    OBVIOUS
  <1>1. DlInv
    <2>1. /\ dlChan \in [Groups -> Seq(Items)] /\ \A g \in Groups : Len(dlChan[g]) = 0
          /\ dn \in [Providers -> [pc : DnPCs, item : Items \cup {None}]]
          /\ \A p \in Providers : dn[p].pc = "idle" /\ dn[p].item = None
      BY DEF Init, Idle, DnPCs
    <2>2. Places(dlChan) = {} /\ Busy(dn, {"idle", "retire"}) = {}
      BY <2>1 DEF Places, Busy
    <2>3. dlQ = Cardinality(Places(dlChan)) + Cardinality(Busy(dn, {"idle", "retire"}))
      <3>1. dlQ = 0 /\ Cardinality({}) = 0
        BY FS_EmptySet DEF Init
      <3>2. Cardinality(Places(dlChan)) = 0 /\ Cardinality(Busy(dn, {"idle", "retire"})) = 0
        BY <2>2, <3>1, Zenon
      <3> QED
        BY <3>1, <3>2
    <2>4. \A g \in Groups : Len(dlChan[g]) <= ChanSize
      BY <2>1, Parameters
    <2> QED
      BY <2>1, <2>3, <2>4, Zenon DEF DlInv, WorkInv
  <1>2. UpInv
    <2>1. /\ upChan \in [Groups -> Seq(Items)] /\ \A g \in Groups : Len(upChan[g]) = 0
          /\ up \in [Providers -> [pc : UpPCs, item : Items \cup {None}]]
          /\ \A p \in Providers : up[p].pc = "idle" /\ up[p].item = None
      BY DEF Init, Idle, UpPCs
    <2>2. Places(upChan) = {} /\ Busy(up, {"idle"}) = {}
      BY <2>1 DEF Places, Busy
    <2>3. upQ = Cardinality(Places(upChan)) + Cardinality(Busy(up, {"idle"}))
      <3>1. upQ = 0 /\ Cardinality({}) = 0
        BY FS_EmptySet DEF Init
      <3>2. Cardinality(Places(upChan)) = 0 /\ Cardinality(Busy(up, {"idle"})) = 0
        BY <2>2, <3>1, Zenon
      <3> QED
        BY <3>1, <3>2
    <2>4. \A g \in Groups : Len(upChan[g]) <= ChanSize
      BY <2>1, Parameters
    <2> QED
      BY <2>1, <2>3, <2>4, Zenon DEF UpInv, WorkInv
  <1>3. item \in [Items -> Flags] /\ \A i \in Items : ~item[i].article /\ ~item[i].flaginDL /\ ~item[i].flaginUP
    <2>1. PICK code \in [Items -> Checked], by \in {f \in [Groups -> Providers] : \A g \in Groups : group[f[g]] = g} :
            item = [i \in Items |-> [CheckResult(code[i], by) EXCEPT !.flagCache = (disk[i] = "ok")]]
      BY DEF Init
    <2>2. \A i \in Items : item[i] = [CheckResult(code[i], by) EXCEPT !.flagCache = (disk[i] = "ok")]
      BY <2>1
    <2>3. \A i \in Items : ~item[i].article /\ ~item[i].flaginDL /\ ~item[i].flaginUP
      <3> TAKE i \in Items
      <3>1. code[i] \in Checked /\ by \in [Groups -> Providers] /\ (disk[i] = "ok") \in BOOLEAN
        OBVIOUS
      <3>2. LET x == [CheckResult(code[i], by) EXCEPT !.flagCache = (disk[i] = "ok")]
            IN ~x.article /\ ~x.flaginDL /\ ~x.flaginUP
        BY <3>1, CheckResultType, Zenon
      <3> QED
        BY <3>2, <2>2, Zenon
    <2> QED
      BY <2>3, InitItems
  <1> QED
    BY <1>1, <1>2, <1>3, InitRest, Zenon DEF IInv, FlagsInv, FlagsFit, FlagMeansWork

(* A queue count is a number.                                              *)
LEMMA WorkTypes ==
  ASSUME NEW chan, NEW r, NEW n, NEW pcs, NEW out, WorkInv(chan, r, n, pcs, out)
  PROVE  n \in Nat
  BY PlacesFinite, BusyFinite DEF WorkInv

(* The invariant gives what the property says.                             *)
LEMMA IInvAccounts == IInv => ItemsAccounted
  <1> SUFFICES ASSUME IInv PROVE ItemsAccounted
    OBVIOUS
  <1>1. dlQ \in Nat /\ upQ \in Nat
    BY WorkTypes, Zenon DEF IInv, DlInv, UpInv
  <1>2. TypeOK
    BY <1>1, Zenon DEF TypeOK, IInv, RestInv, DividerInv, DlInv, UpInv, FlagsInv, WorkInv
  <1>3. QueueCountsExact
    <2>1. /\ Busy(dn, {"idle", "retire"}) = {p \in Providers : dn[p].pc \notin {"idle", "retire"}}
          /\ Busy(up, {"idle"}) = {p \in Providers : up[p].pc # "idle"}
      BY DEF Busy
    <2> QED
      BY <2>1, Zenon DEF IInv, DlInv, UpInv, WorkInv, QueueCountsExact
  <1> QED
    BY <1>2, <1>3 DEF IInv, ItemsAccounted

(* A step that sets no flag and loses nobody who waits.                    *)
LEMMA FlagsKept ==
  ASSUME IInv, ItemsKept, DlKept, UpKept, sessStop => sessStop'
  PROVE  FlagsInv' /\ FlagMeansWork'
  <1>1. FlagsInv'
    BY Zenon DEF IInv, FlagsInv, ItemsKept, Keeps
  <1>2. FlagMeansWork'
    <2> SUFFICES ASSUME ~sessStop', NEW j \in Items
                 PROVE  /\ item'[j].flaginDL => dlWaits(j)' \/ (cacheON /\ item'[j].flagCache)
                        /\ item'[j].flaginUP => upWaits(j)'
      BY Zenon DEF FlagMeansWork
    <2>1. /\ item[j].flaginDL => dlWaits(j) \/ (cacheON /\ item[j].flagCache)
          /\ item[j].flaginUP => upWaits(j)
      BY Zenon DEF IInv, FlagMeansWork
    <2>2. Keeps(item[j], item'[j])
      BY DEF ItemsKept
    <2>3. /\ dlWaits(j) <=> Waits(dlChan, dn, DnWaits, j)
          /\ dlWaits(j)' <=> Waits(dlChan', dn', DnWaits, j)
          /\ upWaits(j) <=> Waits(upChan, up, UpWaits, j)
          /\ upWaits(j)' <=> Waits(upChan', up', UpWaits, j)
      BY Zenon DEF dlWaits, upWaits, Waits, DnWaits, UpWaits, Queued
    <2> QED
      BY <2>1, <2>2, <2>3, Zenon DEF DlKept, UpKept, Keeps
  <1> QED
    BY <1>1, <1>2

-----------------------------------------------------------------------------
(* Download routines: what each step does to the items, to the work and to *)
(* those who wait.                                                         *)
DnStep == ItemsKept /\ DlInv' /\ DlKept

(* A routine that is not idle works on an item.                            *)
LEMMA DnAtWork ==
  ASSUME IInv, NEW p \in Providers, dn[p].pc # "idle"
  PROVE  dnItem(p) \in Items /\ item[dnItem(p)] \in Flags /\ FlagsFit(item[dnItem(p)])
  <1>1. dn[p].item \in Items
    <2>1. dn \in [Providers -> [pc : DnPCs, item : Items \cup {None}]] /\ dn[p].item # None
      BY Zenon DEF IInv, DlInv, WorkInv
    <2> QED
      BY <2>1
  <1> QED
    BY <1>1 DEF IInv, FlagsInv, dnItem

(* A download routine goes on: it still waits for its answer, or its       *)
(* item's flag is cleared, or the item came from the cache.                *)
LEMMA DnGoWork ==
  ASSUME IInv, NEW p \in Providers, NEW pc \in DnPCs \ {"idle", "retire"}, DnGo(p, pc),
         dn[p].pc \in DnWaits, UNCHANGED <<dlChan, dlQ>>,
         \/ pc \in DnWaits \/ ~item'[dnItem(p)].flaginDL
         \/ cacheON /\ item'[dnItem(p)].flagCache
  PROVE  DlInv' /\ DlKept
  <1>1. GoesTo(dn', dn, p, pc)
    BY DEF GoesTo, DnGo
  <1>2. /\ "idle" \in {"idle", "retire"} /\ dn[p].pc \notin {"idle", "retire"}
        /\ pc \in DnPCs /\ pc \notin {"idle", "retire"}
    BY DEF DnWaits
  <1>3. WorkInv(dlChan, dn, dlQ, DnPCs, {"idle", "retire"})
    BY DEF IInv, DlInv
  <1>4. WorkInv(dlChan, dn', dlQ, DnPCs, {"idle", "retire"})
    BY <1>1, <1>2, <1>3, MoveWork, Zenon
  <1>5. ASSUME NEW j \in Items, j # dn[p].item \/ pc \in DnWaits, Waits(dlChan, dn, DnWaits, j)
        PROVE  Waits(dlChan, dn', DnWaits, j)
    BY <1>1, <1>2, <1>3, <1>5, MoveWork, Zenon
  <1>6. dlChan' = dlChan /\ dlQ' = dlQ
    OBVIOUS
  <1>7. DlInv'
    BY <1>4, <1>6, Zenon DEF DlInv
  <1>8. DlKept
    BY <1>5, <1>6, Zenon DEF DlKept, dnItem
  <1> QED
    BY <1>7, <1>8

(* The end of a routine's work on an item: counted down, or idle again.    *)
LEMMA DnLeaveWork ==
  ASSUME IInv, NEW p \in Providers, dn[p].pc # "idle", NEW st, Becomes(dn', dn, p, st),
         st = Idle \/ (st = [pc |-> "retire", item |-> dn[p].item]),
         dlQ' = IF dn[p].pc = "retire" THEN dlQ ELSE Decr(dlQ),
         UNCHANGED dlChan, dn[p].pc \in {"add", "retire", "hit", "fail"} \/ sessStop
  PROVE  DlInv' /\ DlKept
  <1>1. WorkInv(dlChan, dn, dlQ, DnPCs, {"idle", "retire"})
    BY DEF IInv, DlInv
  <1>2. dn[p].item \in Items
    BY DnAtWork DEF dnItem
  <1>3. \/ st = Idle
        \/ /\ st.pc \in {"idle", "retire"} \cap DnPCs /\ st.pc # "idle" /\ st.item = dn[p].item
           /\ st \in [pc : DnPCs, item : Items \cup {None}] /\ dn[p].pc # "idle"
    BY <1>2 DEF DnPCs
  <1>4. /\ "idle" \in DnPCs /\ "idle" \in {"idle", "retire"}
        /\ dlQ' = IF dn[p].pc \in {"idle", "retire"} THEN dlQ ELSE Decr(dlQ)
    BY DEF DnPCs
  <1>5. /\ WorkInv(dlChan, dn', dlQ', DnPCs, {"idle", "retire"})
        /\ dn[p].pc \notin DnWaits =>
             \A j \in Items : Waits(dlChan, dn, DnWaits, j) => Waits(dlChan, dn', DnWaits, j)
    BY <1>1, <1>3, <1>4, LeaveWork
  <1>6. dlChan' = dlChan
    OBVIOUS
  <1>7. DlInv'
    BY <1>5, <1>6, Zenon DEF DlInv
  <1>8. dn[p].pc \notin DnWaits \/ sessStop
    BY DEF DnWaits
  <1>9. DlKept
    BY <1>5, <1>6, <1>8, Zenon DEF DlKept
  <1> QED
    BY <1>7, <1>9

(* It takes an item off its group's channel (Workers.go: GoWorker).        *)
LEMMA DnTakeStep ==
  ASSUME IInv, NEW p \in Providers, DnTake(p)
  PROVE  DnStep
  <1> DEFINE g == group[p]
             i == Head(dlChan[g])
  <1>1. /\ dn[p].pc = "idle" /\ dlChan[g] # <<>> /\ Taken(dlChan', dlChan, g) /\ g \in Groups
    BY Parameters, Zenon DEF DnTake, Taken
  <1>2. WorkInv(dlChan, dn, dlQ, DnPCs, {"idle", "retire"}) /\ item \in [Items -> Flags]
    BY DEF IInv, DlInv, FlagsInv
  <1>3. i \in Items /\ item[i] \in Flags
    <2>1. i \in Items
      BY <1>1, <1>2, TakenChannel, Zenon DEF WorkInv
    <2> QED
      BY <2>1, <1>2
  <1>4. CASE sessStop
    <2>1. Set(i, [item[i] EXCEPT !.flaginDL = FALSE]) /\ dlQ' = Decr(dlQ) /\ dn' = dn
      BY <1>4 DEF DnTake
    <2>2. ItemsKept
      BY <2>1, <1>2, <1>3, PlainKeeps, SetKeeps, Zenon
    <2>3. WorkInv(dlChan', dn, Decr(dlQ), DnPCs, {"idle", "retire"})
      BY <1>1, <1>2, DropWork, Zenon
    <2>4. DlInv' /\ DlKept
      BY <2>1, <2>3, <1>4, Zenon DEF DlInv, DlKept
    <2> QED
      BY <2>2, <2>4 DEF DnStep
  <1>5. CASE ~sessStop
    <2>1. Becomes(dn', dn, p, [pc |-> "mem", item |-> i]) /\ dlQ' = dlQ /\ item' = item
      BY <1>5 DEF DnTake, Becomes
    <2>2. ItemsKept
      BY <2>1, <1>2, SameKeeps
    <2>3. /\ "mem" \in DnPCs /\ "mem" \notin {"idle", "retire"} /\ "mem" \in DnWaits /\ "mem" # "idle"
          /\ "idle" \in {"idle", "retire"} /\ "idle" \notin DnWaits
      BY DEF DnPCs, DnWaits
    <2>4. /\ WorkInv(dlChan', dn', dlQ, DnPCs, {"idle", "retire"})
          /\ \A j \in Items : Waits(dlChan, dn, DnWaits, j) => Waits(dlChan', dn', DnWaits, j)
      BY <1>1, <1>2, <2>1, <2>3, TakeWork, Zenon
    <2>5. DlInv' /\ DlKept
      BY <2>1, <2>4, Zenon DEF DlInv, DlKept
    <2> QED
      BY <2>2, <2>5 DEF DnStep
  <1> QED
    BY <1>4, <1>5

(* It has its slot, or none is needed.                                     *)
LEMMA DnLockStep ==
  ASSUME IInv, NEW p \in Providers, DnLock(p)
  PROVE  DnStep
  <1> DEFINE i == dnItem(p)
             pc == IF p \in down THEN "down" ELSE "cmd"
  <1>1. /\ dn[p].pc = "mem" /\ DnGo(p, pc) /\ Set(i, [item[i] EXCEPT !.memlocked = TRUE])
        /\ UNCHANGED <<dlChan, dlQ>>
    BY DEF DnLock
  <1>2. pc \in DnPCs \ {"idle", "retire"} /\ pc \in DnWaits /\ dn[p].pc \in DnWaits /\ dn[p].pc # "idle"
    BY <1>1 DEF DnPCs, DnWaits
  <1>3. i \in Items /\ item[i] \in Flags /\ item \in [Items -> Flags]
    BY <1>2, DnAtWork DEF IInv, FlagsInv
  <1>4. ItemsKept
    BY <1>1, <1>3, PlainKeeps, SetKeeps, Zenon
  <1> HIDE DEF pc
  <1>5. DlInv' /\ DlKept
    BY <1>1, <1>2, DnGoWork
  <1> QED
    BY <1>4, <1>5 DEF DnStep

(* It was stopped while it waited for a slot (Workers.go: MemLockWait's    *)
(* error).                                                                 *)
LEMMA DnAbortedStep ==
  ASSUME IInv, NEW p \in Providers, DnAborted(p)
  PROVE  DnStep
  <1> DEFINE i == dnItem(p)
  <1>1. /\ dn[p].pc = "mem" /\ sessStop /\ Becomes(dn', dn, p, Idle) /\ dlQ' = Decr(dlQ)
        /\ Set(i, [item[i] EXCEPT !.flaginDL = FALSE]) /\ UNCHANGED dlChan
    BY DEF DnAborted, DnDone, Becomes
  <1>2. dn[p].pc # "idle" /\ dlQ' = IF dn[p].pc = "retire" THEN dlQ ELSE Decr(dlQ)
    BY <1>1
  <1>3. i \in Items /\ item[i] \in Flags /\ item \in [Items -> Flags]
    BY <1>2, DnAtWork DEF IInv, FlagsInv
  <1>4. ItemsKept
    BY <1>1, <1>3, PlainKeeps, SetKeeps, Zenon
  <1>5. DlInv' /\ DlKept
    BY <1>1, <1>2, DnLeaveWork, Zenon
  <1> QED
    BY <1>4, <1>5 DEF DnStep

(* The steps that end in FlagError or with the answer to ARTICLE: the flag *)
(* is cleared in the critical section in which the routine gives up.       *)
LEMMA DnDownStep ==
  ASSUME IInv, NEW p \in Providers, DnDown(p)
  PROVE  DnStep
  <1> DEFINE i == dnItem(p)
             y == [FlagError(item[i], p) EXCEPT !.ignoreDlOn = @ \cup {p}]
  <1>1. /\ dn[p].pc = "down" /\ DnGo(p, "fail") /\ Set(i, y) /\ UNCHANGED <<dlChan, dlQ>>
    BY DEF DnDown
  <1>2. "fail" \in DnPCs \ {"idle", "retire"} /\ dn[p].pc \in DnWaits /\ dn[p].pc # "idle"
    BY <1>1 DEF DnPCs, DnWaits
  <1>3. i \in Items /\ item[i] \in Flags /\ item \in [Items -> Flags]
    BY <1>2, DnAtWork DEF IInv, FlagsInv
  <1>4. Keeps(item[i], y) /\ ~y.flaginDL
    BY <1>3, FlagErrorKeeps
  <1> HIDE DEF y
  <1>5. ItemsKept /\ item'[i] = y
    BY <1>1, <1>3, <1>4, SetKeeps
  <1>6. DlInv' /\ DlKept
    BY <1>1, <1>2, <1>4, <1>5, DnGoWork
  <1> QED
    BY <1>5, <1>6 DEF DnStep

(* It got no connection (Routines.go: GoDownsRoutine).                     *)
LEMMA DnConnErrorStep ==
  ASSUME IInv, NEW p \in Providers, DnConnError(p)
  PROVE  DnStep
  <1> DEFINE i == dnItem(p)
             y == FlagError(item[i], p)
  <1>1. /\ dn[p].pc = "cmd" /\ DnGo(p, "fail") /\ Set(i, y) /\ UNCHANGED <<dlChan, dlQ>>
    BY DEF DnConnError
  <1>2. "fail" \in DnPCs \ {"idle", "retire"} /\ dn[p].pc \in DnWaits /\ dn[p].pc # "idle"
    BY <1>1 DEF DnPCs, DnWaits
  <1>3. i \in Items /\ item[i] \in Flags /\ item \in [Items -> Flags]
    BY <1>2, DnAtWork DEF IInv, FlagsInv
  <1>4. Keeps(item[i], y) /\ ~y.flaginDL
    BY <1>3, FlagErrorKeeps
  <1> HIDE DEF y
  <1>5. ItemsKept /\ item'[i] = y
    BY <1>1, <1>3, <1>4, SetKeeps
  <1>6. DlInv' /\ DlKept
    BY <1>1, <1>2, <1>4, <1>5, DnGoWork
  <1> QED
    BY <1>5, <1>6 DEF DnStep

(* ARTICLE answered 220, or the article was in the cache.                  *)
LEMMA DnArticleStep ==
  ASSUME IInv, NEW p \in Providers, DnArticle(p)
  PROVE  DnStep
  <1> DEFINE i == dnItem(p)
             y == [item[i] EXCEPT !.availableOn = @ \cup Siblings(p), !.missingOn = @ \ Siblings(p),
                                  !.article = TRUE, !.flagisDL = TRUE, !.flaginDL = FALSE]
  <1>1. /\ dn[p].pc = "cmd" /\ DnGo(p, "add") /\ Set(i, y) /\ UNCHANGED <<dlChan, dlQ>>
    BY DEF DnArticle
  <1>2. "add" \in DnPCs \ {"idle", "retire"} /\ dn[p].pc \in DnWaits /\ dn[p].pc # "idle"
    BY <1>1 DEF DnPCs, DnWaits
  <1>3. i \in Items /\ item[i] \in Flags /\ item \in [Items -> Flags]
    BY <1>2, DnAtWork DEF IInv, FlagsInv
  <1>4. Keeps(item[i], y)
    <2>1. Siblings(p) \in SUBSET Providers
      BY DEF Siblings
    <2> QED
      BY <1>3, <2>1, ArticleKeeps
  <1>5. ~y.flaginDL
    BY <1>3 DEF Flags
  <1> HIDE DEF y
  <1>6. ItemsKept /\ item'[i] = y
    BY <1>1, <1>3, <1>4, SetKeeps
  <1>7. DlInv' /\ DlKept
    BY <1>1, <1>2, <1>5, <1>6, DnGoWork
  <1> QED
    BY <1>6, <1>7 DEF DnStep

(* ARTICLE was answered with anything else.                                *)
LEMMA DnRefusedStep ==
  ASSUME IInv, NEW p \in Providers, NEW code \in Replies, DnRefused(p, code)
  PROVE  DnStep
  <1> DEFINE i == dnItem(p)
             S == Siblings(p)
             on(c, set) == IF code \in c THEN set \cup S ELSE set
             dm == on({"451"}, item[i].dmcaOn)
             er == on({"badcrc"}, item[i].errorOn)
             ig == on({"451", "badcrc"}, item[i].ignoreDlOn)
             y == [item[i] EXCEPT !.missingOn = @ \cup S, !.availableOn = @ \ S,
                                  !.dmcaOn = dm, !.errorOn = er, !.ignoreDlOn = ig,
                                  !.flaginDL = FALSE]
  <1>1. /\ dn[p].pc = "cmd" /\ DnGo(p, "fail") /\ Set(i, y) /\ UNCHANGED <<dlChan, dlQ>>
    BY DEF DnRefused
  <1>2. "fail" \in DnPCs \ {"idle", "retire"} /\ dn[p].pc \in DnWaits /\ dn[p].pc # "idle"
    BY <1>1 DEF DnPCs, DnWaits
  <1>3. i \in Items /\ item[i] \in Flags /\ item \in [Items -> Flags]
    BY <1>2, DnAtWork DEF IInv, FlagsInv
  <1>4. S \in SUBSET Providers
    BY DEF Siblings
  <1>5. dm \in SUBSET Providers /\ er \in SUBSET Providers /\ ig \in SUBSET Providers
    BY <1>3, <1>4 DEF Flags
  <1> HIDE DEF S, dm, er, ig
  <1>6. Keeps(item[i], y)
    BY <1>3, <1>4, <1>5, ArticleKeeps
  <1>7. ~y.flaginDL
    BY <1>3 DEF Flags
  <1> HIDE DEF y
  <1>8. ItemsKept /\ item'[i] = y
    BY <1>1, <1>3, <1>6, SetKeeps
  <1>9. DlInv' /\ DlKept
    BY <1>1, <1>2, <1>7, <1>8, DnGoWork
  <1> QED
    BY <1>8, <1>9 DEF DnStep

(* The article is in memory already: the flag stays, but the item is in    *)
(* the cache, because it was not downloaded.                               *)
LEMMA DnCacheReadStep ==
  ASSUME IInv, NEW p \in Providers, DnCacheRead(p)
  PROVE  DnStep
  <1> DEFINE i == dnItem(p)
             y == [item[i] EXCEPT !.article = TRUE, !.flagCache = TRUE, !.flaginDL = FALSE]
             z == IF item[i].article THEN item[i] ELSE y
  <1>1. /\ dn[p].pc = "cmd" /\ DnGo(p, "hit") /\ Set(i, z) /\ UNCHANGED <<dlChan, dlQ>> /\ cacheON
    BY DEF DnCacheRead, inCache
  <1>2. "hit" \in DnPCs \ {"idle", "retire"} /\ dn[p].pc \in DnWaits /\ dn[p].pc # "idle"
    BY <1>1 DEF DnPCs, DnWaits
  <1>3. i \in Items /\ item[i] \in Flags /\ item \in [Items -> Flags] /\ FlagsFit(item[i])
    BY <1>2, DnAtWork DEF IInv, FlagsInv
  <1>4. Keeps(item[i], item[i]) /\ Keeps(item[i], y)
    <2>1. {} \in SUBSET Providers
      OBVIOUS
    <2> QED
      BY <1>3, <2>1, ArticleKeeps, PlainKeeps
  <1>5. ~y.flaginDL
    BY <1>3 DEF Flags
  <1> HIDE DEF y
  <1>6. Keeps(item[i], z) /\ (~z.flaginDL \/ z.flagCache)
    BY <1>3, <1>4, <1>5, Zenon DEF FlagsFit
  <1> HIDE DEF z
  <1>7. ItemsKept /\ item'[i] = z
    BY <1>1, <1>3, <1>6, SetKeeps
  <1>8. DlInv' /\ DlKept
    BY <1>1, <1>2, <1>6, <1>7, DnGoWork
  <1> QED
    BY <1>7, <1>8 DEF DnStep

(* The steps in which a routine leaves its work.                           *)
LEMMA DnLeaveStep ==
  ASSUME IInv, NEW p \in Providers, DnAdd(p) \/ DnRetire(p) \/ DnHit(p) \/ DnFail(p)
  PROVE  DnStep
  <1> DEFINE i == dnItem(p)
  <1>1. dn[p].pc # "idle" /\ dn[p].pc \in {"add", "retire", "hit", "fail"} /\ UNCHANGED dlChan
    BY DEF DnAdd, DnRetire, DnHit, DnFail
  <1>2. i \in Items /\ item[i] \in Flags /\ item \in [Items -> Flags]
    BY <1>1, DnAtWork DEF IInv, FlagsInv
  <1>3. ItemsKept
    <2>1. CASE DnAdd(p) \/ DnHit(p)
      BY <2>1, <1>2, SameKeeps DEF DnAdd, DnHit
    <2>2. CASE DnRetire(p)
      <3>1. Set(i, retireAfterDownload(item[i]))
        BY <2>2 DEF DnRetire
      <3> QED
        BY <3>1, <1>2, RetireKeeps, SetKeeps, Zenon
    <2>3. CASE DnFail(p)
      <3>1. Set(i, MemReturn(item[i]))
        BY <2>3 DEF DnFail
      <3> QED
        BY <3>1, <1>2, RetireKeeps, SetKeeps, Zenon
    <2> QED
      BY <2>1, <2>2, <2>3
  <1>4. dlQ' = IF dn[p].pc = "retire" THEN dlQ ELSE Decr(dlQ)
    BY DEF DnAdd, DnRetire, DnHit, DnFail
  <1>5. \E st : Becomes(dn', dn, p, st) /\ (st = Idle \/ st = [pc |-> "retire", item |-> dn[p].item])
    <2>1. CASE DnAdd(p)
      <3>1. dn' = [dn EXCEPT ![p].pc = "retire"]
        BY <2>1 DEF DnAdd, DnGo
      <3>2. dn \in [Providers -> [pc : DnPCs, item : Items \cup {None}]]
        BY DEF IInv, DlInv, WorkInv
      <3>3. dn' = [dn EXCEPT ![p] = [pc |-> "retire", item |-> dn[p].item]]
        <4>1. \A x \in [pc : DnPCs, item : Items \cup {None}] :
                [x EXCEPT !.pc = "retire"] = [pc |-> "retire", item |-> x.item]
          OBVIOUS
        <4>2. [dn[p] EXCEPT !.pc = "retire"] = [pc |-> "retire", item |-> dn[p].item]
          BY <3>2, <4>1
        <4> QED
          BY <3>1, <4>2, Zenon
      <3> QED
        BY <3>3 DEF Becomes
    <2>2. CASE DnRetire(p) \/ DnHit(p) \/ DnFail(p)
      BY <2>2 DEF DnRetire, DnHit, DnFail, DnDone, Becomes
    <2> QED
      BY <2>1, <2>2
  <1>6. DlInv' /\ DlKept
    <2>1. PICK st : Becomes(dn', dn, p, st) /\ (st = Idle \/ st = [pc |-> "retire", item |-> dn[p].item])
      BY <1>5
    <2> QED
      BY <2>1, <1>1, <1>4, DnLeaveWork, Zenon
  <1> QED
    BY <1>3, <1>6 DEF DnStep

-----------------------------------------------------------------------------
(* Upload routines, in the same way.                                       *)
UpStep == ItemsKept /\ UpInv' /\ UpKept

(* An upload routine at work has an item.                                  *)
LEMMA UpAtWork ==
  ASSUME IInv, NEW p \in Providers, up[p].pc # "idle"
  PROVE  upItem(p) \in Items /\ item[upItem(p)] \in Flags
  <1>1. up[p].item \in Items
    <2>1. up \in [Providers -> [pc : UpPCs, item : Items \cup {None}]] /\ up[p].item # None
      BY Zenon DEF IInv, UpInv, WorkInv
    <2> QED
      BY <2>1
  <1> QED
    BY <1>1 DEF IInv, FlagsInv, upItem

(* It goes on: it still waits for its answer, or its item's flag is        *)
(* cleared, or the session was stopped.                                    *)
LEMMA UpGoWork ==
  ASSUME IInv, NEW p \in Providers, NEW pc \in UpPCs \ {"idle"}, UpGo(p, pc),
         up[p].pc # "idle", UNCHANGED <<upChan, upQ>>,
         up[p].pc \notin UpWaits \/ pc \in UpWaits \/ ~item'[upItem(p)].flaginUP \/ sessStop
  PROVE  UpInv' /\ UpKept
  <1>1. GoesTo(up', up, p, pc)
    BY DEF GoesTo, UpGo
  <1>2. /\ "idle" \in {"idle"} /\ up[p].pc \notin {"idle"}
        /\ pc \in UpPCs /\ pc \notin {"idle"}
    OBVIOUS
  <1>3. WorkInv(upChan, up, upQ, UpPCs, {"idle"})
    BY DEF IInv, UpInv
  <1>4. WorkInv(upChan, up', upQ, UpPCs, {"idle"})
    BY <1>1, <1>2, <1>3, MoveWork, Zenon
  <1>5. ASSUME NEW j \in Items, j # up[p].item \/ up[p].pc \notin UpWaits \/ pc \in UpWaits,
               Waits(upChan, up, UpWaits, j)
        PROVE  Waits(upChan, up', UpWaits, j)
    BY <1>1, <1>2, <1>3, <1>5, MoveWork, Zenon
  <1>6. upChan' = upChan /\ upQ' = upQ
    OBVIOUS
  <1>7. UpInv'
    BY <1>4, <1>6, Zenon DEF UpInv
  <1>8. UpKept
    BY <1>5, <1>6, Zenon DEF UpKept, upItem
  <1> QED
    BY <1>7, <1>8

(* It takes an item off its group's channel (Workers.go: GoWorker).        *)
LEMMA UpTakeStep ==
  ASSUME IInv, NEW p \in Providers, UpTake(p)
  PROVE  UpStep
  <1> DEFINE g == group[p]
             i == Head(upChan[g])
             pc == IF p \in down THEN "down" ELSE "mem"
  <1>1. /\ up[p].pc = "idle" /\ upChan[g] # <<>> /\ Taken(upChan', upChan, g) /\ g \in Groups
    BY Parameters, Zenon DEF UpTake, Taken
  <1>2. WorkInv(upChan, up, upQ, UpPCs, {"idle"}) /\ item \in [Items -> Flags]
    BY DEF IInv, UpInv, FlagsInv
  <1>3. i \in Items /\ item[i] \in Flags
    <2>1. i \in Items
      BY <1>1, <1>2, TakenChannel, Zenon DEF WorkInv
    <2> QED
      BY <2>1, <1>2
  <1>4. CASE sessStop
    <2>1. Set(i, [item[i] EXCEPT !.flaginUP = FALSE]) /\ upQ' = Decr(upQ) /\ up' = up
      BY <1>4 DEF UpTake
    <2>2. ItemsKept
      BY <2>1, <1>2, <1>3, PlainKeeps, SetKeeps, Zenon
    <2>3. WorkInv(upChan', up, Decr(upQ), UpPCs, {"idle"})
      BY <1>1, <1>2, DropWork, Zenon
    <2>4. UpInv' /\ UpKept
      BY <2>1, <2>3, <1>4, Zenon DEF UpInv, UpKept
    <2> QED
      BY <2>2, <2>4 DEF UpStep
  <1>5. CASE ~sessStop
    <2>1. Becomes(up', up, p, [pc |-> pc, item |-> i]) /\ upQ' = upQ /\ item' = item
      BY <1>5 DEF UpTake, Becomes
    <2>2. ItemsKept
      BY <2>1, <1>2, SameKeeps
    <2>3. /\ pc \in UpPCs /\ pc \notin {"idle"} /\ pc \in UpWaits /\ pc # "idle"
          /\ "idle" \in {"idle"} /\ "idle" \notin UpWaits
      BY DEF UpPCs, UpWaits
    <2> HIDE DEF pc
    <2>4. /\ WorkInv(upChan', up', upQ, UpPCs, {"idle"})
          /\ \A j \in Items : Waits(upChan, up, UpWaits, j) => Waits(upChan', up', UpWaits, j)
      BY <1>1, <1>2, <2>1, <2>3, TakeWork, Zenon
    <2>5. UpInv' /\ UpKept
      BY <2>1, <2>4, Zenon DEF UpInv, UpKept
    <2> QED
      BY <2>2, <2>5 DEF UpStep
  <1> QED
    BY <1>4, <1>5

(* It has its slot, or none is needed.                                     *)
LEMMA UpLockStep ==
  ASSUME IInv, NEW p \in Providers, UpLock(p)
  PROVE  UpStep
  <1> DEFINE i == upItem(p)
  <1>1. /\ up[p].pc = "mem" /\ UpGo(p, "cmd") /\ Set(i, [item[i] EXCEPT !.memlocked = TRUE])
        /\ UNCHANGED <<upChan, upQ>>
    BY DEF UpLock
  <1>2. "cmd" \in UpPCs \ {"idle"} /\ "cmd" \in UpWaits /\ up[p].pc # "idle"
    BY <1>1 DEF UpPCs, UpWaits
  <1>3. i \in Items /\ item[i] \in Flags /\ item \in [Items -> Flags]
    BY <1>2, UpAtWork DEF IInv, FlagsInv
  <1>4. ItemsKept
    BY <1>1, <1>3, PlainKeeps, SetKeeps, Zenon
  <1>5. UpInv' /\ UpKept
    BY <1>1, <1>2, UpGoWork
  <1> QED
    BY <1>4, <1>5 DEF UpStep

(* A stop is the only case in which the item leaves the routine flagged.   *)
LEMMA UpAbortedStep ==
  ASSUME IInv, NEW p \in Providers, UpAborted(p)
  PROVE  UpStep
  <1>1. /\ up[p].pc = "mem" /\ UpGo(p, "err") /\ UNCHANGED item /\ sessStop
        /\ UNCHANGED <<upChan, upQ>>
    BY DEF UpAborted
  <1>2. "err" \in UpPCs \ {"idle"} /\ up[p].pc # "idle" /\ item \in [Items -> Flags]
    BY <1>1 DEF UpPCs, IInv, FlagsInv
  <1>3. ItemsKept
    BY <1>1, <1>2, SameKeeps
  <1>4. UpInv' /\ UpKept
    BY <1>1, <1>2, UpGoWork
  <1> QED
    BY <1>3, <1>4 DEF UpStep

(* Its provider is down (Routines.go: GoReupsRoutine).                     *)
LEMMA UpDownStep ==
  ASSUME IInv, NEW p \in Providers, UpDown(p)
  PROVE  UpStep
  <1> DEFINE i == upItem(p)
             y == [item[i] EXCEPT !.errorOn = @ \cup {p}, !.flaginUP = FALSE]
  <1>1. /\ up[p].pc = "down" /\ UpGo(p, "err") /\ Set(i, y) /\ UNCHANGED <<upChan, upQ>>
    BY DEF UpDown
  <1>2. "err" \in UpPCs \ {"idle"} /\ up[p].pc # "idle"
    BY <1>1 DEF UpPCs
  <1>3. i \in Items /\ item[i] \in Flags /\ item \in [Items -> Flags]
    BY <1>2, UpAtWork DEF IInv, FlagsInv
  <1>4. Siblings(p) \in SUBSET Providers /\ {p} \in SUBSET Providers
    BY DEF Siblings
  <1>5. Keeps(item[i], y)
    BY <1>3, <1>4, PlainKeeps
  <1>6. ~y.flaginUP
    BY <1>3 DEF Flags
  <1> HIDE DEF y
  <1>7. ItemsKept /\ item'[i] = y
    BY <1>1, <1>3, <1>5, SetKeeps
  <1>8. UpInv' /\ UpKept
    BY <1>1, <1>2, <1>6, <1>7, UpGoWork
  <1> QED
    BY <1>7, <1>8 DEF UpStep

(* It got no connection.                                                   *)
LEMMA UpConnErrorStep ==
  ASSUME IInv, NEW p \in Providers, UpConnError(p)
  PROVE  UpStep
  <1> DEFINE i == upItem(p)
             y == FlagError(item[i], p)
  <1>1. /\ up[p].pc = "cmd" /\ UpGo(p, "err") /\ Set(i, y) /\ UNCHANGED <<upChan, upQ>>
    BY DEF UpConnError
  <1>2. "err" \in UpPCs \ {"idle"} /\ up[p].pc # "idle"
    BY <1>1 DEF UpPCs
  <1>3. i \in Items /\ item[i] \in Flags /\ item \in [Items -> Flags]
    BY <1>2, UpAtWork DEF IInv, FlagsInv
  <1>4. Siblings(p) \in SUBSET Providers /\ {p} \in SUBSET Providers
    BY DEF Siblings
  <1>5. Keeps(item[i], y)
    BY <1>3, <1>4, FlagErrorKeeps
  <1>6. ~y.flaginUP
    BY <1>3, FlagErrorKeeps
  <1> HIDE DEF y
  <1>7. ItemsKept /\ item'[i] = y
    BY <1>1, <1>3, <1>5, SetKeeps
  <1>8. UpInv' /\ UpKept
    BY <1>1, <1>2, <1>6, <1>7, UpGoWork
  <1> QED
    BY <1>7, <1>8 DEF UpStep

(* The answers to POST and IHAVE.                                          *)
LEMMA UpOKStep ==
  ASSUME IInv, NEW p \in Providers, UpOK(p)
  PROVE  UpStep
  <1> DEFINE i == upItem(p)
             y == [item[i] EXCEPT !.uploadedTo = @ \cup Siblings(p), !.missingOn = @ \ Siblings(p),
                                  !.flaginUP = FALSE, !.flagisUP = TRUE, !.fails = 0]
  <1>1. /\ up[p].pc = "cmd" /\ UpGo(p, "free") /\ Set(i, y) /\ UNCHANGED <<upChan, upQ>>
    BY DEF UpOK, UpAnswer
  <1>2. "free" \in UpPCs \ {"idle"} /\ up[p].pc # "idle"
    BY <1>1 DEF UpPCs
  <1>3. i \in Items /\ item[i] \in Flags /\ item \in [Items -> Flags]
    BY <1>2, UpAtWork DEF IInv, FlagsInv
  <1>4. Siblings(p) \in SUBSET Providers /\ {p} \in SUBSET Providers
    BY DEF Siblings
  <1>5. Keeps(item[i], y)
    BY <1>3, <1>4, ArticleKeeps
  <1>6. ~y.flaginUP
    BY <1>3 DEF Flags
  <1> HIDE DEF y
  <1>7. ItemsKept /\ item'[i] = y
    BY <1>1, <1>3, <1>5, SetKeeps
  <1>8. UpInv' /\ UpKept
    BY <1>1, <1>2, <1>6, <1>7, UpGoWork
  <1> QED
    BY <1>7, <1>8 DEF UpStep

(* The server does not want the article, or has it.                        *)
LEMMA UpUnwantedStep ==
  ASSUME IInv, NEW p \in Providers, NEW code \in Replies, UpUnwanted(p, code)
  PROVE  UpStep
  <1> DEFINE i == upItem(p)
             y == [item[i] EXCEPT !.unwantedOn = @ \cup Siblings(p), !.flaginUP = FALSE]
             pc == CASE moreProvider(item[i], p) /\ code = "437" -> "ok"
                     [] moreProvider(item[i], p) /\ code # "437" -> "keepErr"
                     [] ~moreProvider(item[i], p) /\ code = "437" -> "free"
                     [] OTHER -> "freeErr"
  <1>1. /\ up[p].pc = "cmd" /\ UpGo(p, pc) /\ Set(i, y) /\ UNCHANGED <<upChan, upQ>>
    BY DEF UpUnwanted, UpAnswer
  <1>2. pc \in UpPCs \ {"idle"} /\ up[p].pc # "idle"
    BY <1>1 DEF UpPCs
  <1>3. i \in Items /\ item[i] \in Flags /\ item \in [Items -> Flags]
    BY <1>2, UpAtWork DEF IInv, FlagsInv
  <1>4. Siblings(p) \in SUBSET Providers /\ {p} \in SUBSET Providers
    BY DEF Siblings
  <1>5. Keeps(item[i], y)
    BY <1>3, <1>4, PlainKeeps
  <1>6. ~y.flaginUP
    BY <1>3 DEF Flags
  <1> HIDE DEF y, pc
  <1>7. ItemsKept /\ item'[i] = y
    BY <1>1, <1>3, <1>5, SetKeeps
  <1>8. UpInv' /\ UpKept
    BY <1>1, <1>2, <1>6, <1>7, UpGoWork
  <1> QED
    BY <1>7, <1>8 DEF UpStep

(* The server defers it (436).                                             *)
LEMMA UpRetryStep ==
  ASSUME IInv, NEW p \in Providers, UpRetry(p)
  PROVE  UpStep
  <1> DEFINE i == upItem(p)
             y == [item[i] EXCEPT !.retryOn = @ \cup {p}, !.inRetry = TRUE, !.flaginUP = FALSE]
  <1>1. /\ up[p].pc = "cmd" /\ UpGo(p, "free") /\ Set(i, y) /\ UNCHANGED <<upChan, upQ>>
    BY DEF UpRetry, UpAnswer
  <1>2. "free" \in UpPCs \ {"idle"} /\ up[p].pc # "idle"
    BY <1>1 DEF UpPCs
  <1>3. i \in Items /\ item[i] \in Flags /\ item \in [Items -> Flags]
    BY <1>2, UpAtWork DEF IInv, FlagsInv
  <1>4. Siblings(p) \in SUBSET Providers /\ {p} \in SUBSET Providers
    BY DEF Siblings
  <1>5. Keeps(item[i], y)
    BY <1>3, <1>4, PlainKeeps
  <1>6. ~y.flaginUP
    BY <1>3 DEF Flags
  <1> HIDE DEF y
  <1>7. ItemsKept /\ item'[i] = y
    BY <1>1, <1>3, <1>5, SetKeeps
  <1>8. UpInv' /\ UpKept
    BY <1>1, <1>2, <1>6, <1>7, UpGoWork
  <1> QED
    BY <1>7, <1>8 DEF UpStep

(* After the answer the routine is not waited for any more.                *)
LEMMA UpFreeStep ==
  ASSUME IInv, NEW p \in Providers, UpFree(p)
  PROVE  UpStep
  <1> DEFINE i == upItem(p)
             y == [item[i] EXCEPT !.article = FALSE]
             pc == IF up[p].pc = "free" THEN "ok" ELSE "keepErr"
  <1>1. /\ up[p].pc \in {"free", "freeErr"} /\ UpGo(p, pc) /\ Set(i, y) /\ UNCHANGED <<upChan, upQ>>
    BY DEF UpFree
  <1>2. pc \in UpPCs \ {"idle"} /\ up[p].pc # "idle"
    BY <1>1 DEF UpPCs
  <1>3. i \in Items /\ item[i] \in Flags /\ item \in [Items -> Flags]
    BY <1>2, UpAtWork DEF IInv, FlagsInv
  <1>4. Siblings(p) \in SUBSET Providers /\ {p} \in SUBSET Providers
    BY DEF Siblings
  <1>5. Keeps(item[i], y)
    BY <1>3, <1>4, PlainKeeps
  <1>6. up[p].pc \notin UpWaits
    BY <1>1 DEF UpWaits
  <1> HIDE DEF y, pc
  <1>7. ItemsKept /\ item'[i] = y
    BY <1>1, <1>3, <1>5, SetKeeps
  <1>8. UpInv' /\ UpKept
    BY <1>1, <1>2, <1>6, <1>7, UpGoWork
  <1> QED
    BY <1>7, <1>8 DEF UpStep

(* FlagError, the second of the two critical sections of a refused         *)
(* article.                                                                *)
LEMMA UpFlagErrorStep ==
  ASSUME IInv, NEW p \in Providers, UpFlagError(p)
  PROVE  UpStep
  <1> DEFINE i == upItem(p)
             y == FlagError(item[i], p)
  <1>1. /\ up[p].pc = "keepErr" /\ UpGo(p, "err") /\ Set(i, y) /\ UNCHANGED <<upChan, upQ>>
    BY DEF UpFlagError
  <1>2. "err" \in UpPCs \ {"idle"} /\ up[p].pc # "idle"
    BY <1>1 DEF UpPCs
  <1>3. i \in Items /\ item[i] \in Flags /\ item \in [Items -> Flags]
    BY <1>2, UpAtWork DEF IInv, FlagsInv
  <1>4. Siblings(p) \in SUBSET Providers /\ {p} \in SUBSET Providers
    BY DEF Siblings
  <1>5. Keeps(item[i], y)
    BY <1>3, <1>4, FlagErrorKeeps
  <1>6. up[p].pc \notin UpWaits
    BY <1>1 DEF UpWaits
  <1> HIDE DEF y
  <1>7. ItemsKept /\ item'[i] = y
    BY <1>1, <1>3, <1>5, SetKeeps
  <1>8. UpInv' /\ UpKept
    BY <1>1, <1>2, <1>6, <1>7, UpGoWork
  <1> QED
    BY <1>7, <1>8 DEF UpStep

(* It is done with the item: the slot is kept or given back.               *)
LEMMA UpLeaveStep ==
  ASSUME IInv, NEW p \in Providers, UpErr(p) \/ UpReturn(p)
  PROVE  UpStep
  <1> DEFINE i == upItem(p)
  <1>1. /\ up[p].pc \in {"err", "ok"} /\ up[p].pc # "idle" /\ upChan' = upChan
        /\ Becomes(up', up, p, Idle) /\ upQ' = Decr(upQ)
    BY DEF UpErr, UpReturn, UpDone, Becomes
  <1>2. i \in Items /\ item[i] \in Flags /\ item \in [Items -> Flags]
    BY <1>1, UpAtWork DEF IInv, FlagsInv
  <1>3. ItemsKept
    <2>1. CASE UpErr(p)
      BY <2>1, <1>2, SameKeeps DEF UpErr
    <2>2. CASE UpReturn(p)
      <3>1. Set(i, MemReturn(item[i]))
        BY <2>2 DEF UpReturn
      <3> QED
        BY <3>1, <1>2, RetireKeeps, SetKeeps, Zenon
    <2> QED
      BY <2>1, <2>2
  <1>4. WorkInv(upChan, up, upQ, UpPCs, {"idle"})
    BY DEF IInv, UpInv
  <1>5. /\ "idle" \in UpPCs /\ "idle" \in {"idle"} /\ up[p].pc \notin UpWaits
        /\ upQ' = IF up[p].pc \in {"idle"} THEN upQ ELSE Decr(upQ)
    BY <1>1 DEF UpPCs, UpWaits
  <1>6. /\ WorkInv(upChan, up', upQ', UpPCs, {"idle"})
        /\ up[p].pc \notin UpWaits =>
             \A j \in Items : Waits(upChan, up, UpWaits, j) => Waits(upChan, up', UpWaits, j)
    BY <1>1, <1>4, <1>5, LeaveWork
  <1>7. UpInv' /\ UpKept
    BY <1>1, <1>5, <1>6, Zenon DEF UpInv, UpKept
  <1> QED
    BY <1>3, <1>7 DEF UpStep

-----------------------------------------------------------------------------
(* What a step leaves alone stays as it was.                               *)
LEMMA DlUnchanged ==
  ASSUME IInv, UNCHANGED <<dlChan, dlQ, dn>>
  PROVE  DlInv' /\ DlKept
  <1>1. dlChan' = dlChan /\ dlQ' = dlQ /\ dn' = dn
    OBVIOUS
  <1> QED
    BY <1>1, Zenon DEF IInv, DlInv, DlKept

(* What other steps leave alone stays true: the uploads,                   *)
LEMMA UpUnchanged ==
  ASSUME IInv, UNCHANGED <<upChan, upQ, up>>
  PROVE  UpInv' /\ UpKept
  <1>1. upChan' = upChan /\ upQ' = upQ /\ up' = up
    OBVIOUS
  <1> QED
    BY <1>1, Zenon DEF IInv, UpInv, UpKept

(* the divider,                                                            *)
LEMMA DividerUnchanged ==
  ASSUME IInv, UNCHANGED divider
  PROVE  DividerInv'
  <1>1. pos' = pos /\ closeWait' = closeWait
    BY DEF divider
  <1> QED
    BY <1>1, Zenon DEF IInv, DividerInv

(* the cache and the switches.                                             *)
LEMMA RestUnchanged ==
  ASSUME IInv, UNCHANGED caching, down' \subseteq Providers, sessStop' \in BOOLEAN
  PROVE  RestInv'
  <1>1. disk' = disk /\ cacheChan' = cacheChan /\ cw' = cw
    BY DEF caching
  <1> QED
    BY <1>1, Zenon DEF IInv, RestInv

(* The steps of a download routine keep the whole invariant,               *)
LEMMA StepDowns ==
  ASSUME IInv, NEW p \in Providers, Downs(p)
  PROVE  IInv'
  <1>1. DnStep
    BY DnTakeStep, DnLockStep, DnAbortedStep, DnDownStep, DnCacheReadStep, DnConnErrorStep,
       DnArticleStep, DnRefusedStep, DnLeaveStep, Zenon DEF Downs
  <1>2. UNCHANGED dnRest
    BY Zenon DEF Downs, DnTake, DnLock, DnAborted, DnDown, DnCacheRead, DnConnError, DnArticle,
                 DnRefused, DnAdd, DnRetire, DnHit, DnFail
  <1>3. UNCHANGED <<upChan, upQ, up>> /\ UNCHANGED divider /\ sessStop' = sessStop
    BY <1>2 DEF dnRest, upWork
  <1>4. UpInv' /\ UpKept
    BY <1>3, UpUnchanged
  <1>5. DividerInv'
    BY <1>3, DividerUnchanged
  <1>6. RestInv'
    <2>1. sessStop' \in BOOLEAN /\ down \subseteq Providers /\ cacheChan \in Seq(Items)
      BY <1>3, Zenon DEF IInv, RestInv
    <2>2. CASE DnAdd(p)
      <3>1. disk' = disk /\ cw' = cw /\ down' = down /\ dn[p].pc # "idle"
            /\ cacheChan' = IF cacheON THEN Append(cacheChan, dnItem(p)) ELSE cacheChan
        BY <2>2 DEF DnAdd
      <3>2. cacheChan' \in Seq(Items)
        BY <3>1, <2>1, DnAtWork
      <3> QED
        BY <2>1, <3>1, <3>2, Zenon DEF IInv, RestInv
    <2>3. CASE DnConnError(p)
      <3>1. UNCHANGED caching /\ down' \in {down, down \cup {p}}
        BY <2>3 DEF DnConnError
      <3>2. down' \subseteq Providers
        BY <3>1, <2>1
      <3> QED
        BY <3>1, <3>2, <2>1, RestUnchanged
    <2>4. CASE ~DnAdd(p) /\ ~DnConnError(p)
      <3>1. UNCHANGED <<caching, down>>
        BY <2>4 DEF Downs, DnTake, DnLock, DnAborted, DnDown, DnCacheRead, DnArticle,
                    DnRefused, DnRetire, DnHit, DnFail
      <3> QED
        BY <3>1, <2>1, RestUnchanged
    <2> QED
      BY <2>2, <2>3, <2>4
  <1>7. FlagsInv' /\ FlagMeansWork'
    BY <1>1, <1>3, <1>4, FlagsKept, Zenon DEF DnStep
  <1> QED
    BY <1>1, <1>4, <1>5, <1>6, <1>7, Zenon DEF IInv, DnStep

(* those of an upload routine,                                             *)
LEMMA StepReups ==
  ASSUME IInv, NEW p \in Providers, Reups(p)
  PROVE  IInv'
  <1>1. UpStep
    BY UpTakeStep, UpDownStep, UpLockStep, UpAbortedStep, UpConnErrorStep, UpOKStep, UpUnwantedStep,
       UpRetryStep, UpFreeStep, UpFlagErrorStep, UpLeaveStep, Zenon DEF Reups
  <1>2. UNCHANGED upRest
    BY Zenon DEF Reups, UpTake, UpDown, UpLock, UpAborted, UpConnError, UpOK, UpUnwanted,
                 UpRetry, UpFree, UpFlagError, UpErr, UpReturn
  <1>3. /\ UNCHANGED <<dlChan, dlQ, dn>> /\ UNCHANGED divider /\ UNCHANGED caching
        /\ sessStop' = sessStop
    BY <1>2 DEF upRest, dlWork
  <1>4. DlInv' /\ DlKept
    BY <1>3, DlUnchanged
  <1>5. DividerInv'
    BY <1>3, DividerUnchanged
  <1>6. RestInv'
    <2>1. sessStop' \in BOOLEAN /\ down \subseteq Providers
      BY <1>3, Zenon DEF IInv, RestInv
    <2>2. CASE UpConnError(p)
      <3>1. down' \in {down} \cup {down \cup {p}}
        BY <2>2 DEF UpConnError
      <3>2. down' \subseteq Providers
        BY <3>1, <2>1
      <3> QED
        BY <3>2, <2>1, <1>3, RestUnchanged
    <2>3. CASE ~UpConnError(p)
      <3>1. down' = down
        BY <2>3 DEF Reups, UpTake, UpDown, UpLock, UpAborted, UpOK, UpUnwanted,
                    UpRetry, UpFree, UpFlagError, UpErr, UpReturn
      <3> QED
        BY <3>1, <2>1, <1>3, RestUnchanged
    <2> QED
      BY <2>2, <2>3
  <1>7. FlagsInv' /\ FlagMeansWork'
    BY <1>1, <1>3, <1>4, FlagsKept, Zenon DEF UpStep
  <1> QED
    BY <1>1, <1>4, <1>5, <1>6, <1>7, Zenon DEF IInv, UpStep

(* The cache writer takes no flag that a routine needs.                    *)
LEMMA StepCacheWriter ==
  ASSUME IInv, CacheWriter
  PROVE  IInv'
  <1>1. /\ item \in [Items -> Flags] /\ cacheChan \in Seq(Items) /\ (cw.pc # "idle" => cw.item \in Items)
        /\ cw \in [pc : {"idle", "write", "after"}, item : Items \cup {None}]
        /\ disk \in [Items -> {"none", "ok", "empty"}] /\ down \subseteq Providers /\ sessStop \in BOOLEAN
    BY DEF IInv, RestInv, FlagsInv
  <1>2. UNCHANGED cwRest
    BY Zenon DEF CacheWriter, CwTake, CwWrite, CwFails, afterCacheWrite
  <1>3. /\ UNCHANGED <<dlChan, dlQ, dn>> /\ UNCHANGED <<upChan, upQ, up>> /\ UNCHANGED divider
        /\ down' = down /\ sessStop' = sessStop
    BY <1>2 DEF cwRest, dlWork, upWork
  <1>4. DlInv' /\ DlKept /\ UpInv' /\ UpKept /\ DividerInv'
    BY <1>3, DlUnchanged, UpUnchanged, DividerUnchanged
  <1>5. ItemsKept /\ RestInv'
    <2>1. CASE CwTake
      <3> DEFINE i == Head(cacheChan)
                 c == item[i].article /\ disk[i] # "none"
                 pc == IF item[i].article /\ disk[i] = "none" THEN "write" ELSE "after"
      <3>1. /\ cacheChan # <<>> /\ cacheChan' = Tail(cacheChan) /\ cw' = [pc |-> pc, item |-> i]
            /\ Set(i, [item[i] EXCEPT !.flagCache = @ \/ c]) /\ disk' = disk
        BY <2>1 DEF CwTake
      <3>2. i \in Items /\ item[i] \in Flags /\ cacheChan' \in Seq(Items) /\ i # None
        BY <1>1, <3>1, Parameters
      <3>3. pc \in {"write", "after"} /\ pc # "idle" /\ c \in BOOLEAN
        BY Zenon
      <3> HIDE DEF c, pc
      <3>4. ItemsKept
        BY <3>1, <3>2, <3>3, <1>1, RetireKeeps, SetKeeps, Zenon
      <3>5. cw' \in [pc : {"idle", "write", "after"}, item : Items \cup {None}] /\ cw'.item # None
        BY <3>1, <3>2, <3>3
      <3>6. RestInv'
        BY <3>1, <3>2, <3>5, <1>1, <1>3, Zenon DEF RestInv
      <3> QED
        BY <3>4, <3>6
    <2>2. CASE CwWrite
      <3> DEFINE i == cw.item
      <3>1. /\ cw.pc = "write" /\ cw' = [cw EXCEPT !.pc = "after"] /\ cacheChan' = cacheChan
            /\ disk' = [disk EXCEPT ![i] = IF item[i].article THEN "ok" ELSE "empty"]
            /\ Set(i, [item[i] EXCEPT !.flagCache = TRUE, !.flaginDL = FALSE, !.article = @ /\ allowUp])
        BY <2>2 DEF CwWrite
      <3>2. i \in Items /\ item[i] \in Flags /\ i # None
        BY <1>1, <3>1, Parameters
      <3>3. ItemsKept
        BY <3>1, <3>2, <1>1, RetireKeeps, SetKeeps, Zenon
      <3>4. /\ cw' \in [pc : {"idle", "write", "after"}, item : Items \cup {None}] /\ cw'.item # None
        BY <3>1, <3>2, <1>1
      <3>5. disk' \in [Items -> {"none", "ok", "empty"}]
        BY <3>1, <1>1
      <3>6. RestInv'
        BY <3>1, <3>4, <3>5, <1>1, <1>3, Zenon DEF RestInv
      <3> QED
        BY <3>3, <3>6
    <2>3. CASE CwFails
      <3>1. /\ cw.pc = "write" /\ cw' = [cw EXCEPT !.pc = "after"] /\ cacheChan' = cacheChan
            /\ disk' = disk /\ item' = item
        BY <2>3 DEF CwFails
      <3>2. ItemsKept
        BY <3>1, <1>1, SameKeeps
      <3>3. /\ cw' \in [pc : {"idle", "write", "after"}, item : Items \cup {None}] /\ cw'.item # None
        BY <3>1, <1>1, Parameters
      <3>4. RestInv'
        BY <3>1, <3>3, <1>1, <1>3, Zenon DEF RestInv
      <3> QED
        BY <3>2, <3>4
    <2>4. CASE afterCacheWrite
      <3> DEFINE i == cw.item
                 y == IF item[i].retireWhenCached /\ item[i].flagCache
                      THEN retireItem([item[i] EXCEPT !.retireWhenCached = FALSE]) ELSE item[i]
      <3>1. cw.pc = "after" /\ cw' = Idle /\ Set(i, y) /\ disk' = disk /\ cacheChan' = cacheChan
        BY <2>4 DEF afterCacheWrite
      <3>2. i \in Items /\ item[i] \in Flags
        BY <1>1, <3>1
      <3>3. Keeps(item[i], y)
        <4>1. Keeps(item[i], item[i])
          BY <3>2 DEF Keeps
        <4> QED
          BY <4>1, <3>2, RetireKeeps, Zenon
      <3> HIDE DEF y
      <3>4. ItemsKept
        BY <3>1, <3>2, <3>3, <1>1, SetKeeps, Zenon
      <3>5. /\ cw' \in [pc : {"idle", "write", "after"}, item : Items \cup {None}] /\ cw'.pc = "idle"
        BY <3>1 DEF Idle
      <3>6. RestInv'
        BY <3>1, <3>5, <1>1, <1>3, Zenon DEF RestInv
      <3> QED
        BY <3>4, <3>6
    <2> QED
      BY <2>1, <2>2, <2>3, <2>4 DEF CacheWriter
  <1>6. FlagsInv' /\ FlagMeansWork'
    BY <1>3, <1>4, <1>5, FlagsKept, Zenon
  <1> QED
    BY <1>4, <1>5, <1>6, Zenon DEF IInv

-----------------------------------------------------------------------------
(* The divider's own state: it goes on to the next item, does something    *)
(* with this one, begins a round or quits.                                 *)
LEMMA DividerMoves ==
  ASSUME DividerInv, closeWait' = closeWait, pos.at \in {"scan", "retire", "up", "dl"},
         pos.n <= todo,
         NextItem \/ \E step \in {"retire", "up", "dl"} : At(step)
  PROVE  DividerInv'
  <1>1. /\ pos \in [n : 1..todo + 1, at : {"scan", "retire", "up", "dl", "quit", "closed", "ended"}]
        /\ todo \in Nat /\ pos.at \notin {"quit", "closed", "ended"}
    BY Parameters DEF DividerInv
  <1>2. closeWait \in 0..CloseLimit /\ closeWait < CloseLimit
    BY <1>1 DEF DividerInv
  <1>3. CASE NextItem
    <2>1. pos' = [n |-> pos.n + 1, at |-> "scan"] /\ pos.n + 1 \in 1..todo + 1
      BY <1>1, <1>3 DEF NextItem
    <2>2. /\ pos' \in [n : 1..todo + 1, at : {"scan", "retire", "up", "dl", "quit", "closed", "ended"}]
          /\ pos'.at = "scan"
      BY <2>1
    <2> QED
      BY <2>2, <1>2 DEF DividerInv
  <1>4. ASSUME NEW step \in {"retire", "up", "dl"}, At(step)
        PROVE  DividerInv'
    <2>1. /\ pos' \in [n : 1..todo + 1, at : {"scan", "retire", "up", "dl", "quit", "closed", "ended"}]
          /\ pos'.n = pos.n /\ pos'.at = step
      BY <1>1, <1>4 DEF At
    <2> QED
      BY <2>1, <1>2, <1>4 DEF DividerInv
  <1> QED
    BY <1>3, <1>4

(* A push: the item is flagged, and it waits.                              *)
LEMMA PushFlags ==
  ASSUME IInv, NEW i \in Items, NEW y \in Flags, FlagsFit(y), Set(i, y), sessStop' = sessStop,
         ~y.flaginDL \/ Waits(dlChan', dn', DnWaits, i),
         ~y.flaginUP \/ Waits(upChan', up', UpWaits, i),
         \A j \in Items : Waits(dlChan, dn, DnWaits, j) => Waits(dlChan', dn', DnWaits, j),
         \A j \in Items : Waits(upChan, up, UpWaits, j) => Waits(upChan', up', UpWaits, j)
  PROVE  FlagsInv' /\ FlagMeansWork'
  <1>1. item \in [Items -> Flags] /\ \A j \in Items : FlagsFit(item[j])
    BY DEF IInv, FlagsInv
  <1>2. item' \in [Items -> Flags] /\ item'[i] = y /\ \A j \in Items : j # i => item'[j] = item[j]
    BY <1>1 DEF Set
  <1>3. FlagsInv'
    BY <1>1, <1>2, Zenon DEF FlagsInv
  <1>4. FlagMeansWork'
    <2> SUFFICES ASSUME ~sessStop', NEW j \in Items
                 PROVE  /\ item'[j].flaginDL => dlWaits(j)' \/ (cacheON /\ item'[j].flagCache)
                        /\ item'[j].flaginUP => upWaits(j)'
      BY Zenon DEF FlagMeansWork
    <2>1. /\ dlWaits(j) <=> Waits(dlChan, dn, DnWaits, j)
          /\ dlWaits(j)' <=> Waits(dlChan', dn', DnWaits, j)
          /\ upWaits(j) <=> Waits(upChan, up, UpWaits, j)
          /\ upWaits(j)' <=> Waits(upChan', up', UpWaits, j)
      BY Zenon DEF dlWaits, upWaits, Waits, DnWaits, UpWaits, Queued
    <2>2. CASE j = i
      BY <2>1, <2>2, <1>2, Zenon
    <2>3. CASE j # i
      <3>1. /\ item[j].flaginDL => dlWaits(j) \/ (cacheON /\ item[j].flagCache)
            /\ item[j].flaginUP => upWaits(j)
        BY Zenon DEF IInv, FlagMeansWork
      <3> QED
        BY <3>1, <2>1, <2>3, <1>2, Zenon
    <2> QED
      BY <2>2, <2>3
  <1> QED
    BY <1>3, <1>4

(* The divider queues an item for upload: the flag, the count, then the    *)
(* send.                                                                   *)
LEMMA StepPushUP ==
  ASSUME IInv, NEW p \in Providers, pushUP(p)
  PROVE  IInv'
  <1> DEFINE i == here
             g == group[p]
             y == [item[i] EXCEPT !.flaginUP = TRUE, !.retryOn = @ \ {p}]
  <1>1. /\ pos.at = "up" /\ matchThisUP(item[i]) /\ Len(upChan[g]) < ChanSize
        /\ upChan' = [upChan EXCEPT ![g] = Append(@, i)] /\ upQ' = upQ + 1 /\ Set(i, y) /\ NextItem
        /\ UNCHANGED <<divRest, dlChan, dlQ>>
    BY DEF pushUP
  <1>2. /\ closeWait' = closeWait /\ down' = down /\ sessStop' = sessStop /\ dn' = dn /\ up' = up
        /\ UNCHANGED caching
    BY <1>1 DEF divRest
  <1>3. i \in Items /\ pos.n <= todo /\ g \in Groups /\ DividerInv /\ item[i] \in Flags /\ FlagsFit(item[i])
    <2>1. /\ DividerInv /\ pos.n <= todo /\ pos.n \in 1..todo + 1
          /\ item \in [Items -> Flags] /\ \A j \in Items : FlagsFit(item[j])
      BY <1>1 DEF IInv, DividerInv, FlagsInv
    <2>2. i \in Items
      BY <2>1, Parameters DEF here
    <2> QED
      BY <2>1, <2>2, Parameters
  <1>4. y \in Flags /\ FlagsFit(y) /\ ~y.flaginDL
    BY <1>1, <1>3 DEF matchThisUP, Flags, FlagsFit
  <1>5. WorkInv(upChan, up, upQ, UpPCs, {"idle"})
    BY DEF IInv, UpInv
  <1>6. /\ WorkInv(upChan', up, upQ + 1, UpPCs, {"idle"})
        /\ Waits(upChan', up, UpWaits, i)
        /\ \A j \in Items : Waits(upChan, up, UpWaits, j) => Waits(upChan', up, UpWaits, j)
    <2>1. Appended(upChan', upChan, g, i) /\ Len(upChan[g]) < ChanSize
      BY <1>1 DEF Appended
    <2> QED
      BY <2>1, <1>3, <1>5, PushWork, Zenon
  <1>7. UpInv'
    BY <1>1, <1>2, <1>6, Zenon DEF UpInv
  <1>8. dlChan' = dlChan /\ dlQ' = dlQ
    BY <1>1
  <1>9. DlInv'
    BY <1>2, <1>8, DlUnchanged
  <1>10. FlagsInv' /\ FlagMeansWork'
    <2> HIDE DEF i, y
    <2> QED
      BY <1>1, <1>2, <1>3, <1>4, <1>6, <1>8, PushFlags, Zenon
  <1>11. DividerInv'
    BY <1>1, <1>2, <1>3, DividerMoves
  <1>12. RestInv'
    <2>1. down' \subseteq Providers /\ sessStop' \in BOOLEAN
      BY <1>2, Zenon DEF IInv, RestInv
    <2> QED
      BY <2>1, <1>2, RestUnchanged
  <1> QED
    BY <1>7, <1>9, <1>10, <1>11, <1>12, Zenon DEF IInv

(* The divider queues an item for download, or ignores its provider.       *)
LEMMA StepPushDL ==
  ASSUME IInv, NEW p \in Providers, pushDL(p)
  PROVE  IInv'
  <1> DEFINE i == here
             g == group[p]
             fits == Len(dlChan[g]) < ChanSize
             y(seen) == [item[i] EXCEPT !.ignoreDlOn = @ \cup seen, !.flaginDL = fits]
  <1>1. /\ pos.at = "dl" /\ matchThisDL(item[i]) /\ NextItem /\ UNCHANGED <<divRest, upChan, upQ>>
        /\ IF fits THEN dlChan' = [dlChan EXCEPT ![g] = Append(@, i)] /\ dlQ' = dlQ + 1
                   ELSE UNCHANGED <<dlChan, dlQ>>
    BY DEF pushDL
  <1>2. PICK seen \in SUBSET useless(item[i]) : Set(i, y(seen))
    BY DEF pushDL
  <1>3. /\ closeWait' = closeWait /\ down' = down /\ sessStop' = sessStop /\ dn' = dn /\ up' = up
        /\ UNCHANGED caching
    BY <1>1 DEF divRest
  <1>4. i \in Items /\ pos.n <= todo /\ g \in Groups /\ DividerInv /\ item[i] \in Flags /\ FlagsFit(item[i])
    <2>1. /\ DividerInv /\ pos.n <= todo /\ pos.n \in 1..todo + 1
          /\ item \in [Items -> Flags] /\ \A j \in Items : FlagsFit(item[j])
      BY <1>1 DEF IInv, DividerInv, FlagsInv
    <2>2. i \in Items
      BY <2>1, Parameters DEF here
    <2> QED
      BY <2>1, <2>2, Parameters
  <1>5. /\ y(seen) \in Flags /\ FlagsFit(y(seen)) /\ y(seen).flaginDL = fits /\ ~y(seen).flaginUP
    <2>1. seen \in SUBSET Providers
      <3>1. item[i].availableOn \in SUBSET Providers
        BY <1>4 DEF Flags
      <3> QED
        BY <3>1, <1>2 DEF useless, sources
    <2>2. \A b \in BOOLEAN, S \in SUBSET Providers :
            LET z == [item[i] EXCEPT !.ignoreDlOn = @ \cup S, !.flaginDL = b]
            IN z \in Flags /\ FlagsFit(z) /\ z.flaginDL = b /\ ~z.flaginUP
      BY <1>1, <1>4 DEF matchThisDL, Flags, FlagsFit
    <2>3. fits \in BOOLEAN
      OBVIOUS
    <2> HIDE DEF fits
    <2> QED
      BY <2>1, <2>2, <2>3, Zenon
  <1>6. WorkInv(dlChan, dn, dlQ, DnPCs, {"idle", "retire"})
    BY DEF IInv, DlInv
  <1>7. /\ DlInv'
        /\ ~fits \/ Waits(dlChan', dn', DnWaits, i)
        /\ \A j \in Items : Waits(dlChan, dn, DnWaits, j) => Waits(dlChan', dn', DnWaits, j)
    <2>1. CASE fits
      <3>1. dlChan' = [dlChan EXCEPT ![g] = Append(@, i)] /\ dlQ' = dlQ + 1 /\ Len(dlChan[g]) < ChanSize
        BY <2>1, <1>1
      <3>2. /\ WorkInv(dlChan', dn, dlQ + 1, DnPCs, {"idle", "retire"})
            /\ Waits(dlChan', dn, DnWaits, i)
            /\ \A j \in Items : Waits(dlChan, dn, DnWaits, j) => Waits(dlChan', dn, DnWaits, j)
        <4>1. Appended(dlChan', dlChan, g, i) /\ Len(dlChan[g]) < ChanSize
          BY <3>1 DEF Appended
        <4> QED
          BY <4>1, <1>4, <1>6, PushWork, Zenon
      <3> QED
        BY <3>1, <3>2, <1>3, Zenon DEF DlInv
    <2>2. CASE ~fits
      <3>1. dlChan' = dlChan /\ dlQ' = dlQ
        BY <2>2, <1>1
      <3>2. DlInv'
        BY <3>1, <1>3, DlUnchanged
      <3> HIDE DEF fits
      <3> QED
        BY <2>2, <3>1, <3>2, <1>3, Zenon
    <2> QED
      BY <2>1, <2>2
  <1>8. upChan' = upChan /\ upQ' = upQ
    BY <1>1
  <1>9. UpInv'
    BY <1>3, <1>8, UpUnchanged
  <1>10. FlagsInv' /\ FlagMeansWork'
    <2> DEFINE z == y(seen)
    <2>1. /\ z \in Flags /\ FlagsFit(z) /\ Set(i, z) /\ (~z.flaginDL \/ Waits(dlChan', dn', DnWaits, i))
          /\ ~z.flaginUP
      BY <1>2, <1>5, <1>7, Zenon
    <2> HIDE DEF z, i
    <2> QED
      BY <2>1, <1>3, <1>4, <1>7, <1>8, PushFlags, Zenon
  <1>11. DividerInv'
    BY <1>1, <1>3, <1>4, DividerMoves
  <1>12. RestInv'
    <2>1. down' \subseteq Providers /\ sessStop' \in BOOLEAN
      BY <1>3, Zenon DEF IInv, RestInv
    <2> QED
      BY <2>1, <1>3, RestUnchanged
  <1> QED
    BY <1>7, <1>9, <1>10, <1>11, <1>12, Zenon DEF IInv

(* A step that leaves the routines, their channels and the cache alone.    *)
LEMMA QuietStep ==
  ASSUME IInv, ItemsKept, UNCHANGED <<dlChan, dlQ, dn>>, UNCHANGED <<upChan, upQ, up>>,
         UNCHANGED caching, down' = down, sessStop' \in BOOLEAN, sessStop => sessStop', DividerInv'
  PROVE  IInv'
  <1>1. DlInv' /\ DlKept /\ UpInv' /\ UpKept
    BY DlUnchanged, UpUnchanged
  <1>2. RestInv'
    <2>1. down' \subseteq Providers
      BY Zenon DEF IInv, RestInv
    <2> QED
      BY <2>1, RestUnchanged
  <1>3. FlagsInv' /\ FlagMeansWork'
    BY <1>1, FlagsKept, Zenon
  <1> QED
    BY <1>1, <1>2, <1>3, Zenon DEF IInv

(* What the divider does at an item, without a push.                       *)
LEMMA StepAtItem ==
  ASSUME IInv, Scan \/ Retire \/ pushUPFails \/ pushUPNoMatch \/ pushDLFails
  PROVE  IInv'
  <1>1. /\ UNCHANGED divRest /\ UNCHANGED <<dlChan, dlQ, upChan, upQ>>
    BY DEF Scan, Retire, pushUPFails, pushUPNoMatch, pushDLFails
  <1>2. /\ UNCHANGED <<dlChan, dlQ, dn>> /\ UNCHANGED <<upChan, upQ, up>> /\ UNCHANGED caching
        /\ down' = down /\ sessStop' = sessStop /\ closeWait' = closeWait
    BY <1>1 DEF divRest
  <1>3. /\ pos.at \in {"scan", "retire", "up", "dl"} /\ pos.n <= todo
        /\ NextItem \/ \E step \in {"retire", "up", "dl"} : At(step)
    <2>1. CASE Scan
      <3>1. pos.at = "scan" /\ pos.n <= todo
        BY <2>1, Zenon DEF Scan
      <3>2. NextItem \/ At("retire") \/ At("up") \/ At("dl")
        BY <2>1 DEF Scan
      <3> QED
        BY <3>1, <3>2
    <2>2. CASE Retire \/ pushUPFails \/ pushUPNoMatch \/ pushDLFails
      <3>1. pos.at \in {"retire", "up", "dl"} /\ (NextItem \/ At("dl"))
        BY <2>2 DEF Retire, pushUPFails, pushUPNoMatch, pushDLFails
      <3> QED
        BY <3>1 DEF IInv, DividerInv
    <2> QED
      BY <2>1, <2>2
  <1>4. DividerInv /\ sessStop \in BOOLEAN /\ item \in [Items -> Flags]
    BY Zenon DEF IInv, RestInv, FlagsInv
  <1>5. DividerInv'
    BY <1>2, <1>3, <1>4, DividerMoves
  <1>6. here \in Items /\ item[here] \in Flags
    <2>1. pos.n \in 1..todo + 1
      BY <1>4 DEF DividerInv
    <2> QED
      BY <2>1, <1>3, <1>4, Parameters DEF here
  <1>7. ItemsKept
    <2>1. CASE item' = item
      BY <2>1, <1>4, SameKeeps
    <2>2. CASE Retire
      <3>1. Set(here, retireItem(item[here]))
        BY <2>2 DEF Retire
      <3> QED
        BY <3>1, <1>4, <1>6, RetireKeeps, SetKeeps, Zenon
    <2>3. CASE pushDLFails /\ item' # item
      <3> DEFINE S == useless(item[here])
      <3>1. Set(here, [item[here] EXCEPT !.ignoreDlOn = @ \cup S])
        BY <2>3 DEF pushDLFails
      <3>2. S \in SUBSET Providers
        <4>1. item[here].availableOn \in SUBSET Providers
          BY <1>6 DEF Flags
        <4> QED
          BY <4>1 DEF useless, sources
      <3> HIDE DEF S
      <3> QED
        BY <3>1, <3>2, <1>4, <1>6, PlainKeeps, SetKeeps, Zenon
    <2>4. item' = item \/ Retire \/ pushDLFails
      BY DEF Scan, pushUPFails, pushUPNoMatch
    <2> QED
      BY <2>1, <2>2, <2>3, <2>4
  <1> QED
    BY <1>2, <1>4, <1>5, <1>7, QuietStep

(* The end of a round, and the end of the session.                         *)
Rounds == RoundBusy \/ RoundQuits \/ RoundCloses \/ RoundUnresolved \/ DividerStops \/ NoProgress

(* The ends of a round, and the stop.                                      *)
LEMMA StepRounds ==
  ASSUME IInv, Rounds \/ StopRoutines
  PROVE  IInv'
  <1>1. /\ pos \in [n : 1..todo + 1, at : {"scan", "retire", "up", "dl", "quit", "closed", "ended"}]
        /\ closeWait \in 0..CloseLimit /\ (pos.at \notin {"quit", "closed", "ended"} => closeWait < CloseLimit)
        /\ todo \in Nat /\ CloseLimit \in Nat /\ sessStop \in BOOLEAN /\ item \in [Items -> Flags]
    BY Parameters DEF IInv, DividerInv, RestInv, FlagsInv
  <1>2. /\ UNCHANGED <<dlChan, dlQ, dn>> /\ UNCHANGED <<upChan, upQ, up>> /\ UNCHANGED caching
        /\ down' = down /\ item' = item
    BY DEF Rounds, RoundBusy, RoundQuits, RoundCloses, RoundUnresolved, DividerStops, NoProgress,
           StopRoutines, roundRest, dlWork, upWork
  <1>3. sessStop' \in BOOLEAN /\ (sessStop => sessStop')
    BY <1>1 DEF Rounds, RoundBusy, RoundQuits, RoundCloses, RoundUnresolved, DividerStops, NoProgress,
                StopRoutines, roundRest
  <1>4. ASSUME Again, closeWait' \in 0..CloseLimit, closeWait' < CloseLimit
        PROVE  DividerInv'
    BY <1>1, <1>4 DEF Again, NewRound, DividerInv
  <1>5. ASSUME NEW step \in {"quit", "closed"}, At(step), closeWait' \in 0..CloseLimit
        PROVE  DividerInv'
    <2>1. /\ pos' \in [n : 1..todo + 1, at : {"scan", "retire", "up", "dl", "quit", "closed", "ended"}]
          /\ pos'.at = step
      BY <1>1, <1>5 DEF At
    <2> QED
      BY <2>1, <1>5 DEF DividerInv
  <1>6. DividerInv'
    <2>1. CASE RoundBusy
      <3>1. Again /\ closeWait' = closeWait /\ pos.at = "scan"
        BY <2>1 DEF RoundBusy, RoundOver
      <3> QED
        BY <3>1, <1>1, <1>4
    <2>2. CASE RoundQuits \/ DividerStops \/ NoProgress \/ StopRoutines
      <3>1. (At("quit") \/ At("closed")) /\ closeWait' = closeWait
        BY <2>2 DEF RoundQuits, DividerStops, NoProgress, StopRoutines, Quit
      <3> QED
        BY <3>1, <1>1, <1>5
    <2>3. CASE RoundCloses
      <3>1. Again /\ closeWait' = closeWait - 1 /\ closeWait > 0 /\ pos.at = "scan"
        BY <2>3 DEF RoundCloses, RoundOver
      <3> QED
        BY <3>1, <1>1, <1>4
    <2>4. CASE RoundUnresolved
      <3>1. /\ closeWait' = closeWait + 1 /\ pos.at = "scan"
            /\ IF closeWait' >= CloseLimit THEN Quit ELSE Again
        BY <2>4 DEF RoundUnresolved, RoundOver
      <3>2. closeWait' \in 0..CloseLimit
        BY <3>1, <1>1
      <3>3. CASE closeWait' >= CloseLimit
        BY <3>1, <3>2, <3>3, <1>5 DEF Quit
      <3>4. CASE ~(closeWait' >= CloseLimit)
        <4>1. Again
          BY <3>1, <3>4
        <4>2. closeWait' < CloseLimit
          BY <3>2, <3>4, <1>1
        <4> QED
          BY <4>1, <4>2, <3>2, <1>4
      <3> QED
        BY <3>3, <3>4
    <2> QED
      BY <2>1, <2>2, <2>3, <2>4 DEF Rounds
  <1>7. ItemsKept
    BY <1>1, <1>2, SameKeeps
  <1> QED
    BY <1>2, <1>3, <1>6, <1>7, QuietStep

(* The session gives back every slot that is left (Session.go).            *)
LEMMA StepRelease ==
  ASSUME IInv, releaseMemSlots
  PROVE  IInv'
  <1>1. /\ pos' = [pos EXCEPT !.at = "ended"] /\ item' = [i \in Items |-> MemReturn(item[i])]
        /\ UNCHANGED <<dlChan, dlQ, dn>> /\ UNCHANGED <<upChan, upQ, up>> /\ UNCHANGED caching
        /\ down' = down /\ sessStop' = sessStop /\ closeWait' = closeWait
    BY DEF releaseMemSlots, At, dlWork, upWork
  <1>2. item \in [Items -> Flags] /\ sessStop \in BOOLEAN /\ DividerInv
    BY Zenon DEF IInv, FlagsInv, RestInv
  <1>3. ItemsKept
    <2>1. \A j \in Items : Keeps(item[j], MemReturn(item[j]))
      BY <1>2, RetireKeeps
    <2>2. \A j \in Items : item'[j] = MemReturn(item[j])
      BY <1>1
    <2>3. item' \in [Items -> Flags]
      BY <1>1, <1>2, MemReturnType
    <2> QED
      BY <2>1, <2>2, <2>3, Zenon DEF ItemsKept
  <1>4. DividerInv'
    <2>1. /\ pos' \in [n : 1..todo + 1, at : {"scan", "retire", "up", "dl", "quit", "closed", "ended"}]
          /\ pos'.at = "ended"
      BY <1>1, <1>2 DEF DividerInv
    <2> QED
      BY <2>1, <1>1, <1>2 DEF DividerInv
  <1> QED
    BY <1>1, <1>2, <1>3, <1>4, QuietStep

(* A stop from outside, and time that passes.                              *)
LEMMA StepOutside ==
  ASSUME IInv, Stop \/ \E i \in Items : RetryElapsed(i)
  PROVE  IInv'
  <1>1. /\ UNCHANGED <<dlChan, dlQ, dn>> /\ UNCHANGED <<upChan, upQ, up>> /\ UNCHANGED caching
        /\ UNCHANGED divider /\ down' = down
    BY DEF Stop, RetryElapsed, dlWork, upWork
  <1>2. item \in [Items -> Flags] /\ sessStop \in BOOLEAN
    BY Zenon DEF IInv, FlagsInv, RestInv
  <1>3. DividerInv'
    BY <1>1, DividerUnchanged
  <1>4. sessStop' \in BOOLEAN /\ (sessStop => sessStop')
    BY <1>2 DEF Stop, RetryElapsed
  <1>5. ItemsKept
    <2>1. CASE Stop
      <3>1. item' = item
        BY <2>1 DEF Stop
      <3> QED
        BY <3>1, <1>2, SameKeeps
    <2>2. ASSUME NEW i \in Items, RetryElapsed(i)
          PROVE  ItemsKept
      <3>1. Set(i, [item[i] EXCEPT !.inRetry = FALSE]) /\ item[i] \in Flags /\ {} \in SUBSET Providers
        BY <2>2, <1>2 DEF RetryElapsed
      <3> QED
        BY <3>1, <1>2, PlainKeeps, SetKeeps, Zenon
    <2> QED
      BY <2>1, <2>2
  <1> QED
    BY <1>1, <1>3, <1>4, <1>5, QuietStep

(* Every step keeps the invariant.                                         *)
LEMMA StepIInv == IInv /\ [Next]_vars => IInv'
  <1> SUFFICES ASSUME IInv, [Next]_vars PROVE IInv'
    OBVIOUS
  <1>1. ASSUME NEW p \in Providers, Downs(p) \/ Reups(p)
        PROVE  IInv'
    BY <1>1, StepDowns, StepReups
  <1>2. CASE CacheWriter
    BY <1>2, StepCacheWriter
  <1>3. CASE Divider \/ NoProgress
    <2>1. ASSUME NEW p \in Providers, pushUP(p) \/ pushDL(p)
          PROVE  IInv'
      BY <2>1, StepPushUP, StepPushDL
    <2>2. CASE Scan \/ Retire \/ pushUPFails \/ pushUPNoMatch \/ pushDLFails
      BY <2>2, StepAtItem
    <2>3. CASE Rounds
      BY <2>3, StepRounds
    <2> QED
      BY <1>3, <2>1, <2>2, <2>3, Zenon DEF Divider, Rounds
  <1>4. CASE Teardown
    BY <1>4, StepRounds, StepRelease DEF Teardown
  <1>5. CASE Stop \/ \E i \in Items : RetryElapsed(i)
    BY <1>5, StepOutside
  <1>6. CASE UNCHANGED vars
    <2>1. /\ UNCHANGED <<dlChan, dlQ, dn>> /\ UNCHANGED <<upChan, upQ, up>> /\ UNCHANGED caching
          /\ UNCHANGED divider /\ down' = down /\ item' = item /\ sessStop' = sessStop
      BY <1>6 DEF vars, dlWork, upWork
    <2>2. item \in [Items -> Flags] /\ sessStop \in BOOLEAN
      BY Zenon DEF IInv, FlagsInv, RestInv
    <2>3. ItemsKept /\ DividerInv'
      BY <2>1, <2>2, SameKeeps, DividerUnchanged
    <2> QED
      BY <2>1, <2>2, <2>3, QuietStep
  <1> QED
    BY <1>1, <1>2, <1>3, <1>4, <1>5, <1>6, Zenon DEF Next

(* Types, queue counts and flags add up with the work there is, whatever   *)
(* the segment list, the providers, the cache and the answers: each path   *)
(* of the two routines, the cache writer and the divider that sets or      *)
(* clears a flag, or counts, does so with the work it begins or ends       *)
(* (GoDownsRoutine, GoReupsRoutine, GoCacheWriter, pushDL and pushUP).     *)
THEOREM ItemsAlwaysAccounted == Spec => []ItemsAccounted
  <1>1. Spec => []IInv
    BY InitIInv, StepIInv, PTL DEF Spec
  <1> QED
    BY <1>1, IInvAccounts, PTL

-----------------------------------------------------------------------------
(* Slots of dead items. Three kinds of items are told apart: those that    *)
(* were downloaded, those that were in the cache, and the others, which    *)
(* are new. A new item is in download once at a time and in upload never;  *)
(* only the download itself may find that every provider misses it, and    *)
(* then the routine that found it returns the slot. The other kinds are    *)
(* never found missing everywhere while anybody works on them.             *)
Has(r, i, pcs) == \E p \in Providers : r[p].item = i /\ r[p].pc \in pcs
Answered == {"hit", "add", "retire"}

Once(chan, r, i) ==
  /\ \A g, h \in Groups : \A k \in 1..Len(chan[g]), l \in 1..Len(chan[h]) :
       chan[g][k] = i /\ chan[h][l] = i => g = h /\ k = l
  /\ Queued(chan, i) => ~Has(r, i, DnWaits)
  /\ \A p, q \in Providers :
       r[p].item = i /\ r[q].item = i /\ r[p].pc \in DnWaits /\ r[q].pc \in DnWaits => p = q

Uploads(chan, r, i) == Queued(chan, i) \/ \E p \in Providers : r[p].item = i
Storing(chan, w, r, i) == i \in Range(chan) \/ w.item = i \/ Has(r, i, {"add"})
Chosen(at, i) == at.at \in {"up", "dl"} /\ segmentList[at.n] = i
Gone(x) == x.missingOn = Providers

CachedKind(x, d, waits, uploads, answered, failed, chosen) ==
  /\ cacheON /\ d = "ok"
  /\ Gone(x) => ~waits /\ ~uploads /\ ~answered /\ ~failed /\ ~chosen /\ ~x.memlocked

NewKind(x, d, waits, once, uploads, answered, failed) ==
  /\ d # "ok" /\ ~uploads /\ ~answered /\ once
  /\ waits => x.flaginDL /\ ~Gone(x)
  /\ x.memlocked /\ Gone(x) => failed

Kind(x, d, waits, once, uploads, answered, failed, storing, chosen) ==
  /\ x.availableOn \cap x.missingOn = {}
  /\ storing => x.flagisDL
  /\ x.flagisDL => ~Gone(x) /\ ~waits
  /\ ~x.flagisDL /\ x.flagCache => CachedKind(x, d, waits, uploads, answered, failed, chosen)
  /\ ~x.flagisDL /\ ~x.flagCache => NewKind(x, d, waits, once, uploads, answered, failed)

SlotInv(i) ==
  Kind(item[i], disk[i], Waits(dlChan, dn, DnWaits, i), Once(dlChan, dn, i),
       Uploads(upChan, up, i), Has(dn, i, Answered), Has(dn, i, {"fail"}),
       Storing(cacheChan, cw, dn, i), Chosen(pos, i))
SlotsInv == \A i \in Items : SlotInv(i)

(* The same of the next state.                                             *)
NextSlotInv(i) ==
  Kind(item'[i], disk'[i], Waits(dlChan', dn', DnWaits, i), Once(dlChan', dn', i),
       Uploads(upChan', up', i), Has(dn', i, Answered), Has(dn', i, {"fail"}),
       Storing(cacheChan', cw', dn', i), Chosen(pos', i))

(* The primed form follows from the same said of each item.                *)
LEMMA NextSlots ==
  ASSUME \A i \in Items : NextSlotInv(i)
  PROVE  SlotsInv'
  BY DEF SlotsInv, SlotInv, NextSlotInv, Kind, CachedKind, NewKind, Gone, Waits, Once, Uploads,
         Has, Answered, Storing, Chosen, Queued, DnWaits

(* The property.                                                           *)
LEMMA SlotsDead == IInv /\ SlotsInv => DeadHoldsNoSlot
  <1> SUFFICES ASSUME IInv, SlotsInv, NEW i \in Items, Gone(item[i]), ~InWork(i)
               PROVE  ~item[i].memlocked
    BY Zenon DEF DeadHoldsNoSlot, Gone
  <1>1. ~Has(dn, i, {"fail"})
    BY DEF InWork, Has
  <1>2. item[i].memlocked \in BOOLEAN
    BY DEF IInv, FlagsInv, Flags
  <1> QED
    BY <1>1, Zenon DEF SlotsInv, SlotInv, Kind, CachedKind, NewKind

(* An item that nobody has taken, or let go of, is as it was.              *)
SameWork(j) ==
  /\ Waits(dlChan', dn', DnWaits, j) => Waits(dlChan, dn, DnWaits, j)
  /\ Once(dlChan, dn, j) => Once(dlChan', dn', j)
  /\ Uploads(upChan', up', j) => Uploads(upChan, up, j)
  /\ Has(dn', j, Answered) => Has(dn, j, Answered)
  /\ Has(dn', j, {"fail"}) <=> Has(dn, j, {"fail"})
  /\ Storing(cacheChan', cw', dn', j) => Storing(cacheChan, cw, dn, j)
  /\ Chosen(pos', j) => Chosen(pos, j)

(* Such an item keeps its part of the invariant.                           *)
LEMMA SlotKept ==
  ASSUME SlotsInv, NEW j \in Items, item'[j] = item[j], disk'[j] = disk[j], SameWork(j)
  PROVE  NextSlotInv(j)
  BY Zenon DEF SlotsInv, SlotInv, NextSlotInv, Kind, CachedKind, NewKind, SameWork

(* A step that changes one item, and the work on one item only.            *)
LEMMA OthersKept ==
  ASSUME IInv, SlotsInv, NEW i \in Items, NextSlotInv(i), NEW y, Set(i, y) \/ item' = item,
         \A j \in Items : j # i => SameWork(j),
         disk' = disk \/ \E d : disk' = [disk EXCEPT ![i] = d]
  PROVE  SlotsInv'
  <1>1. ASSUME NEW j \in Items, j # i
        PROVE  item'[j] = item[j] /\ disk'[j] = disk[j]
    BY <1>1 DEF IInv, FlagsInv, RestInv, Set
  <1>2. \A j \in Items : NextSlotInv(j)
    BY <1>1, SlotKept, Zenon
  <1> QED
    BY <1>2, NextSlots, Zenon

-----------------------------------------------------------------------------
(* Fewer routines wait for an item: it is in download once as before.      *)
LEMMA OnceKept ==
  ASSUME NEW chan, NEW r, NEW r2, NEW i, Once(chan, r, i),
         \A q \in Providers : r2[q].item = i /\ r2[q].pc \in DnWaits => r[q].item = i /\ r[q].pc \in DnWaits
  PROVE  Once(chan, r2, i)
  <1>1. Has(r2, i, DnWaits) => Has(r, i, DnWaits)
    BY Zenon DEF Has
  <1>2. /\ \A g, h \in Groups : \A k \in 1..Len(chan[g]), l \in 1..Len(chan[h]) :
             chan[g][k] = i /\ chan[h][l] = i => g = h /\ k = l
        /\ Queued(chan, i) => ~Has(r2, i, DnWaits)
    BY <1>1, Zenon DEF Once
  <1>3. ASSUME NEW q \in Providers, NEW s \in Providers, r2[q].item = i, r2[s].item = i,
               r2[q].pc \in DnWaits, r2[s].pc \in DnWaits
        PROVE  q = s
    <2>1. r[q].item = i /\ r[q].pc \in DnWaits /\ r[s].item = i /\ r[s].pc \in DnWaits
      BY <1>3, Zenon
    <2> QED
      BY <2>1, Zenon DEF Once
  <1> QED
    BY <1>2, <1>3, Zenon DEF Once

(* What a step of the download routine of p does to the work on the items. *)
Moves(p, st) == /\ Becomes(dn', dn, p, st) /\ dn[p].pc # "idle"
                /\ st.item \in {dn[p].item, None} /\ st.pc # "mem"
                /\ st.pc \in DnWaits => dn[p].pc \in DnWaits /\ st.item = dn[p].item
ElsewhereSame == UNCHANGED <<dlChan, upChan, up, pos, cw>>

(* Such a step leaves the work on all other items as it was, and the       *)
(* routine where st says.                                                  *)
LEMMA DnOthers ==
  ASSUME IInv, NEW p \in Providers, NEW st, Moves(p, st), ElsewhereSame,
         \/ cacheChan' = cacheChan
         \/ dn[p].pc = "add" /\ cacheChan' = Append(cacheChan, dn[p].item)
  PROVE  /\ \A j \in Items : j # dn[p].item => SameWork(j)
         /\ \A j \in Items : \A S : Has(dn', j, S) => Has(dn, j, S) \/ (j = st.item /\ st.pc \in S)
         /\ \A j \in Items : \A S : j = st.item /\ st.pc \in S => Has(dn', j, S)
         /\ \A q \in Providers : q # p => dn'[q] = dn[q]
  <1>1. /\ dn'[p] = st /\ \A q \in Providers : q # p => dn'[q] = dn[q]
    BY DEF IInv, DlInv, WorkInv, Becomes, Moves
  <1>2. st.item = dn[p].item \/ \A j \in Items : st.item # j
    BY Parameters DEF Moves
  <1>3. \A j \in Items : \A S : j # dn[p].item => (Has(dn', j, S) <=> Has(dn, j, S))
    BY <1>1, <1>2, Zenon DEF Has
  <1>4. \A j \in Items : \A S : Has(dn', j, S) => Has(dn, j, S) \/ (j = st.item /\ st.pc \in S)
    BY <1>1, Zenon DEF Has
  <1>5. \A j \in Items : \A S : j = st.item /\ st.pc \in S => Has(dn', j, S)
    BY <1>1, Zenon DEF Has
  <1>6. \A j : j \in Range(cacheChan') => j \in Range(cacheChan) \/ j = dn[p].item
    <2>1. CASE cacheChan' = Append(cacheChan, dn[p].item)
      <3>1. cacheChan \in Seq(Items)
        BY DEF IInv, RestInv
      <3> QED
        BY <2>1, <3>1 DEF Range
    <2> QED
      BY <2>1, Zenon
  <1>7. ASSUME NEW j \in Items, j # dn[p].item
        PROVE  SameWork(j)
    <2>1. dlChan' = dlChan /\ upChan' = upChan /\ up' = up /\ pos' = pos /\ cw' = cw
      BY DEF ElsewhereSame
    <2>2. Waits(dlChan', dn', DnWaits, j) => Waits(dlChan, dn, DnWaits, j)
      BY <1>1, <1>2, <1>7, <2>1, Zenon DEF Waits
    <2>3. Once(dlChan, dn, j) => Once(dlChan', dn', j)
      <3>1. ASSUME NEW q \in Providers, dn'[q].item = j
            PROVE  dn[q].item = j /\ dn[q].pc = dn'[q].pc
        BY <1>1, <1>2, <1>7, <3>1, Zenon
      <3>2. \A q \in Providers : dn'[q].item = j /\ dn'[q].pc \in DnWaits => dn[q].item = j /\ dn[q].pc \in DnWaits
        BY <3>1, Zenon
      <3> QED
        BY <2>1, <3>2, OnceKept, Zenon
    <2> QED
      BY <1>3, <1>6, <1>7, <2>1, <2>2, <2>3, Zenon DEF SameWork, Uploads, Storing
  <1> QED
    BY <1>1, <1>4, <1>5, <1>7, Zenon

(* A new item that its routine stops waiting for waits nowhere any more.   *)
LEMMA OnlyOne ==
  ASSUME IInv, NEW p \in Providers, NEW st, Moves(p, st), dlChan' = dlChan,
         dn[p].pc \in DnWaits, st.pc \notin DnWaits, Once(dlChan, dn, dn[p].item)
  PROVE  ~Waits(dlChan', dn', DnWaits, dn[p].item) /\ Once(dlChan', dn', dn[p].item)
  <1>1. /\ dn'[p] = st /\ \A q \in Providers : q # p => dn'[q] = dn[q]
    BY DEF IInv, DlInv, WorkInv, Becomes, Moves
  <1>2. ~Queued(dlChan', dn[p].item)
    <2>1. ~Queued(dlChan, dn[p].item)
      BY Zenon DEF Once, Has
    <2> QED
      BY <2>1, Zenon
  <1>3. \A q \in Providers : ~(dn'[q].item = dn[p].item /\ dn'[q].pc \in DnWaits)
    BY <1>1, Zenon DEF Once
  <1>4. ~Waits(dlChan', dn', DnWaits, dn[p].item)
    BY <1>2, <1>3, Zenon DEF Waits
  <1>5. Once(dlChan', dn', dn[p].item)
    BY <1>3, Zenon DEF Once, Has
  <1> QED
    BY <1>4, <1>5

(* An item whose answer is still awaited was not downloaded yet, and some  *)
(* provider is not known to miss it.                                       *)
LEMMA AwaitedKind ==
  ASSUME IInv, SlotsInv, NEW p \in Providers, dn[p].pc \in DnWaits
  PROVE  LET x == item[dn[p].item]  d == disk[dn[p].item] IN
         /\ dn[p].item \in Items /\ x \in Flags /\ FlagsFit(x)
         /\ Waits(dlChan, dn, DnWaits, dn[p].item)
         /\ ~x.flagisDL /\ ~Gone(x) /\ x.availableOn \cap x.missingOn = {}
         /\ ~Storing(cacheChan, cw, dn, dn[p].item)
         /\ x.flagCache => cacheON /\ d = "ok"
         /\ ~x.flagCache => NewKind(x, d, TRUE, Once(dlChan, dn, dn[p].item),
                                    Uploads(upChan, up, dn[p].item), Has(dn, dn[p].item, Answered),
                                    Has(dn, dn[p].item, {"fail"}))
  <1> DEFINE i == dn[p].item
  <1>1. i \in Items /\ item[i] \in Flags /\ FlagsFit(item[i])
    BY DnAtWork DEF DnWaits, dnItem
  <1>2. Waits(dlChan, dn, DnWaits, i)
    BY Zenon DEF Waits
  <1> HIDE DEF i
  <1>3. SlotInv(i)
    BY <1>1, Zenon DEF SlotsInv
  <1>4. ~item[i].flagisDL
    BY <1>2, <1>3, Zenon DEF SlotInv, Kind
  <1>5. item[i].flagCache => CachedKind(item[i], disk[i], TRUE, Uploads(upChan, up, i),
             Has(dn, i, Answered), Has(dn, i, {"fail"}), Chosen(pos, i))
    BY <1>2, <1>3, <1>4, Zenon DEF SlotInv, Kind, CachedKind
  <1>6. ~item[i].flagCache => NewKind(item[i], disk[i], TRUE, Once(dlChan, dn, i), Uploads(upChan, up, i),
             Has(dn, i, Answered), Has(dn, i, {"fail"}))
    BY <1>2, <1>3, <1>4, Zenon DEF SlotInv, Kind, NewKind
  <1>7. item[i].availableOn \cap item[i].missingOn = {} /\ ~Storing(cacheChan, cw, dn, i)
    BY <1>3, <1>4, Zenon DEF SlotInv, Kind
  <1>8. ~Gone(item[i])
    BY <1>5, <1>6, Zenon DEF CachedKind, NewKind
  <1> QED
    BY <1>1, <1>2, <1>4, <1>5, <1>6, <1>7, <1>8, Zenon DEF CachedKind, i

-----------------------------------------------------------------------------
(* Download routines. How a step of p is one of the moves above.           *)
LEMMA DnGoMoves ==
  ASSUME IInv, NEW p \in Providers, NEW pc, DnGo(p, pc), dn[p].pc # "idle", pc # "mem",
         pc \in DnWaits => dn[p].pc \in DnWaits
  PROVE  Moves(p, [pc |-> pc, item |-> dn[p].item])
  <1>1. dn \in [Providers -> [pc : DnPCs, item : Items \cup {None}]]
    BY DEF IInv, DlInv, WorkInv
  <1>2. Becomes(dn', dn, p, [pc |-> pc, item |-> dn[p].item])
    <2>1. dn[p] \in [pc : DnPCs, item : Items \cup {None}]
      BY <1>1
    <2>2. [dn[p] EXCEPT !.pc = pc] = [pc |-> pc, item |-> dn[p].item]
      BY <2>1
    <2>3. dn' = [dn EXCEPT ![p] = [dn[p] EXCEPT !.pc = pc]]
      BY <1>1 DEF DnGo
    <2> QED
      BY <2>2, <2>3, Zenon DEF Becomes
  <1> QED
    BY <1>2 DEF Moves

(* A routine that is done has let go of its item.                          *)
LEMMA DnDoneMoves ==
  ASSUME NEW p \in Providers, DnDone(p), dn[p].pc # "idle"
  PROVE  Moves(p, Idle)
  BY DEF DnDone, Moves, Becomes, Idle, DnWaits

(* The item is what it was set to.                                         *)
LEMMA SetItem ==
  ASSUME IInv, NEW i \in Items, NEW y, Set(i, y)
  PROVE  item'[i] = y
  BY DEF IInv, FlagsInv, Set

(* The routine gives up: FlagError, an answer other than 220, a stop.      *)
LEMMA DnGivesUp ==
  ASSUME IInv, SlotsInv, NEW p \in Providers, dn[p].pc \in DnWaits, NEW st, Moves(p, st),
         st = Idle \/ st = [pc |-> "fail", item |-> dn[p].item],
         ElsewhereSame, UNCHANGED <<disk, cacheChan>>,
         NEW y, Set(dn[p].item, y),
         ~y.flagisDL, y.flagCache = item[dn[p].item].flagCache, y.availableOn \cap y.missingOn = {},
         Gone(y) => ~y.flagCache /\ st.pc = "fail"
  PROVE  SlotsInv'
  <1> DEFINE i == dn[p].item
             x == item[i]
  <1>1. /\ i \in Items /\ ~Storing(cacheChan, cw, dn, i)
        /\ x.flagCache => cacheON /\ disk[i] = "ok"
        /\ ~x.flagCache => NewKind(x, disk[i], TRUE, Once(dlChan, dn, i), Uploads(upChan, up, i),
                                   Has(dn, i, Answered), Has(dn, i, {"fail"}))
    BY AwaitedKind, Zenon
  <1>2. /\ st.pc \notin DnWaits /\ st.pc \notin Answered /\ st.pc # "add"
    BY DEF Idle, DnWaits, Answered
  <1>3. /\ \A j \in Items : j # i => SameWork(j)
        /\ \A j \in Items : \A S : Has(dn', j, S) => Has(dn, j, S) \/ (j = st.item /\ st.pc \in S)
        /\ \A j \in Items : \A S : j = st.item /\ st.pc \in S => Has(dn', j, S)
    BY DnOthers, Zenon
  <1>4. /\ dlChan' = dlChan /\ upChan' = upChan /\ up' = up /\ pos' = pos /\ cw' = cw
        /\ disk' = disk /\ cacheChan' = cacheChan
    BY DEF ElsewhereSame
  <1>5. item'[i] = y
    BY <1>1, SetItem
  <1> HIDE DEF i
  <1>6. ~Storing(cacheChan', cw', dn', i)
    <2>1. ~Has(dn', i, {"add"})
      BY <1>1, <1>2, <1>3 DEF Storing
    <2> QED
      BY <2>1, <1>1, <1>4, Zenon DEF Storing
  <1>7. Has(dn', i, Answered) => Has(dn, i, Answered)
    BY <1>1, <1>2, <1>3, Zenon
  <1>8. Gone(y) => Has(dn', i, {"fail"})
    BY <1>1, <1>3 DEF i, Idle
  <1>9. NextSlotInv(i)
    <2>1. CASE y.flagCache
      BY <2>1, <1>1, <1>4, <1>5, <1>6, Zenon DEF NextSlotInv, Kind, CachedKind, i
    <2>2. CASE ~y.flagCache
      <3>1. NewKind(x, disk[i], TRUE, Once(dlChan, dn, i), Uploads(upChan, up, i),
                    Has(dn, i, Answered), Has(dn, i, {"fail"}))
        BY <2>2, <1>1, Zenon DEF i
      <3>2. ~Waits(dlChan', dn', DnWaits, i) /\ Once(dlChan', dn', i)
        BY <3>1, <1>2, <1>4, OnlyOne, Zenon DEF NewKind, i
      <3>3. ~Uploads(upChan', up', i)
        BY <3>1, <1>4, Zenon DEF NewKind
      <3>4. NewKind(y, disk'[i], FALSE, TRUE, FALSE, Has(dn', i, Answered), Has(dn', i, {"fail"}))
        BY <3>1, <1>4, <1>7, <1>8, Zenon DEF NewKind
      <3> QED
        BY <2>2, <3>2, <3>3, <3>4, <1>5, <1>6, Zenon DEF NextSlotInv, Kind, NewKind
    <2> QED
      BY <2>1, <2>2
  <1> QED
    BY <1>1, <1>3, <1>4, <1>9, OthersKept, Zenon DEF i

(* Steps that leave alone what tells the kinds apart.                      *)
SameKind(x, y) ==
  /\ y.flagisDL = x.flagisDL /\ y.flagCache = x.flagCache
  /\ y.missingOn = x.missingOn /\ y.availableOn \subseteq x.availableOn

(* Setting any of these flags leaves the kind of the item alone.           *)
LEMMA PlainSame ==
  ASSUME NEW x \in Flags, NEW b \in BOOLEAN, NEW S
  PROVE  /\ SameKind(x, [x EXCEPT !.flaginDL = b])
         /\ SameKind(x, [x EXCEPT !.flaginUP = b])
         /\ SameKind(x, [x EXCEPT !.memlocked = b])
         /\ SameKind(x, [x EXCEPT !.article = b])
         /\ SameKind(x, [x EXCEPT !.inRetry = b])
         /\ SameKind(x, [x EXCEPT !.ignoreDlOn = S])
         /\ SameKind(x, [x EXCEPT !.ignoreDlOn = S, !.flaginDL = b])
         /\ SameKind(x, [x EXCEPT !.flaginUP = b, !.retryOn = S])
         /\ SameKind(x, [x EXCEPT !.errorOn = S, !.flaginUP = b])
         /\ SameKind(x, [x EXCEPT !.unwantedOn = S, !.flaginUP = b])
         /\ SameKind(x, [x EXCEPT !.retryOn = S, !.inRetry = TRUE, !.flaginUP = b])
  BY DEF SameKind, Flags

(* FlagError takes a provider out of availableOn, nothing that matters     *)
(* more.                                                                   *)
LEMMA FlagErrorSame ==
  ASSUME NEW x \in Flags, NEW p
  PROVE  /\ SameKind(x, FlagError(x, p))
         /\ \A S : SameKind(x, [FlagError(x, p) EXCEPT !.ignoreDlOn = S])
  <1>1. /\ FlagError(x, p).flagisDL = x.flagisDL /\ FlagError(x, p).flagCache = x.flagCache
        /\ FlagError(x, p).missingOn = x.missingOn /\ FlagError(x, p).availableOn = x.availableOn \ {p}
    BY DEF FlagError, Flags
  <1>2. \A S : LET y == [FlagError(x, p) EXCEPT !.ignoreDlOn = S] IN
               /\ y.flagisDL = FlagError(x, p).flagisDL /\ y.flagCache = FlagError(x, p).flagCache
               /\ y.missingOn = FlagError(x, p).missingOn
               /\ y.availableOn = FlagError(x, p).availableOn
    BY DEF FlagError, Flags
  <1> QED
    BY <1>1, <1>2 DEF SameKind

(* Giving the slot back leaves the kind alone too.                         *)
LEMMA RetireSame ==
  ASSUME NEW x \in Flags
  PROVE  /\ SameKind(x, retireItem(x)) /\ ~retireItem(x).memlocked
         /\ SameKind(x, retireAfterDownload(x)) /\ (retireAfterDownload(x).memlocked => x.memlocked)
         /\ SameKind(x, MemReturn(x)) /\ ~MemReturn(x).memlocked
  BY DEF SameKind, retireItem, retireAfterDownload, MemReturn, Flags

(* Then the item is missing everywhere exactly when it was before.         *)
LEMMA SameGone ==
  ASSUME NEW x, NEW y, SameKind(x, y)
  PROVE  /\ Gone(y) <=> Gone(x)
         /\ x.availableOn \cap x.missingOn = {} => y.availableOn \cap y.missingOn = {}
         /\ y.flagisDL <=> x.flagisDL
         /\ y.flagCache <=> x.flagCache
  BY DEF SameKind, Gone

(* Its provider is down, or its connection breaks.                         *)
LEMMA DnErrorSlots ==
  ASSUME IInv, SlotsInv, NEW p \in Providers, DnDown(p) \/ DnConnError(p) \/ DnAborted(p)
  PROVE  SlotsInv'
  <1> DEFINE i == dn[p].item
  <1>1. dn[p].pc \in DnWaits /\ dn[p].pc # "idle" /\ ElsewhereSame /\ UNCHANGED <<disk, cacheChan>>
    BY DEF DnDown, DnConnError, DnAborted, DnWaits, ElsewhereSame, dnRest, caching, upWork, divider
  <1>2. /\ i \in Items /\ item[i] \in Flags /\ ~item[i].flagisDL /\ ~Gone(item[i])
        /\ item[i].availableOn \cap item[i].missingOn = {}
    BY <1>1, AwaitedKind, Zenon
  <1>3. PICK y : Set(i, y) /\ SameKind(item[i], y)
    <2>1. CASE DnDown(p)
      BY <2>1, <1>2, FlagErrorSame DEF DnDown, dnItem
    <2>2. CASE DnConnError(p)
      BY <2>2, <1>2, FlagErrorSame DEF DnConnError, dnItem
    <2>3. CASE DnAborted(p)
      BY <2>3, <1>2, PlainSame DEF DnAborted, dnItem
    <2> QED
      BY <2>1, <2>2, <2>3
  <1>4. PICK st : Moves(p, st) /\ (st = Idle \/ st = [pc |-> "fail", item |-> i])
    <2>1. CASE DnDown(p) \/ DnConnError(p)
      <3>1. DnGo(p, "fail") /\ "fail" # "mem" /\ "fail" \notin DnWaits
        BY <2>1 DEF DnDown, DnConnError, DnWaits
      <3> QED
        BY <3>1, <1>1, DnGoMoves
    <2>2. CASE DnAborted(p)
      BY <2>2, <1>1, DnDoneMoves DEF DnAborted
    <2> QED
      BY <2>1, <2>2
  <1>5. /\ ~y.flagisDL /\ y.flagCache = item[i].flagCache /\ ~Gone(y)
        /\ y.availableOn \cap y.missingOn = {}
    BY <1>2, <1>3, SameGone DEF SameKind
  <1> QED
    BY <1>1, <1>3, <1>4, <1>5, DnGivesUp

(* ARTICLE is answered with anything but 220: only here may a provider be  *)
(* the last one found to miss the article, and the item is a new one.      *)
LEMMA DnRefusedSlots ==
  ASSUME IInv, SlotsInv, NEW p \in Providers, NEW code, DnRefused(p, code)
  PROVE  SlotsInv'
  <1> DEFINE i == dn[p].item
             x == item[i]
             S == Siblings(p)
             on(c, set) == IF code \in c THEN set \cup S ELSE set
             y == [x EXCEPT !.missingOn = @ \cup S, !.availableOn = @ \ S,
                            !.dmcaOn = on({"451"}, @), !.errorOn = on({"badcrc"}, @),
                            !.ignoreDlOn = on({"451", "badcrc"}, @),
                            !.flaginDL = FALSE]
  <1>1. dn[p].pc \in DnWaits /\ dn[p].pc # "idle" /\ ElsewhereSame /\ UNCHANGED <<disk, cacheChan>>
    BY DEF DnRefused, DnWaits, ElsewhereSame, dnRest, caching, upWork, divider
  <1>2. /\ i \in Items /\ x \in Flags /\ ~x.flagisDL /\ x.availableOn \cap x.missingOn = {}
        /\ x.flagCache => cacheON /\ disk[i] = "ok"
    BY <1>1, AwaitedKind, Zenon
  <1>3. ~x.flagCache
    BY <1>2 DEF DnRefused, inCache, dnItem
  <1>4. Set(i, y) /\ DnGo(p, "fail")
    BY DEF DnRefused, dnItem
  <1>5. Moves(p, [pc |-> "fail", item |-> i])
    BY <1>1, <1>4, DnGoMoves DEF DnWaits
  <1>6. ~y.flagisDL /\ y.flagCache = x.flagCache /\ y.missingOn = x.missingOn \cup S /\ y.availableOn = x.availableOn \ S
    BY <1>2 DEF Flags
  <1> HIDE DEF y, S
  <1>7. y.availableOn \cap y.missingOn = {}
    BY <1>2, <1>6
  <1> QED
    BY <1>1, <1>3, <1>4, <1>5, <1>6, <1>7, DnGivesUp

-----------------------------------------------------------------------------
(* An item that was downloaded or comes from the cache, and that some      *)
(* provider is not known to miss, may be worked on in any way.             *)
Live(x) == (x.flagisDL \/ x.flagCache) /\ ~Gone(x)

(* Whatever is done to a live item that stays one keeps its part of the    *)
(* invariant.                                                              *)
LEMMA LiveKept ==
  ASSUME NEW i \in Items, SlotInv(i), Live(item[i]), NEW y, item'[i] = y,
         y.flagisDL = item[i].flagisDL, y.flagCache = item[i].flagCache \/ item[i].flagisDL,
         ~Gone(y), y.availableOn \cap y.missingOn = {},
         disk'[i] = disk[i] \/ item[i].flagisDL,
         Waits(dlChan', dn', DnWaits, i) => Waits(dlChan, dn, DnWaits, i) \/ ~item[i].flagisDL,
         Storing(cacheChan', cw', dn', i) => Storing(cacheChan, cw, dn, i) \/ item[i].flagisDL
  PROVE  NextSlotInv(i)
  <1>1. CASE item[i].flagisDL
    BY <1>1, Zenon DEF SlotInv, NextSlotInv, Kind
  <1>2. CASE ~item[i].flagisDL
    BY <1>2, Zenon DEF SlotInv, NextSlotInv, Kind, CachedKind, Live
  <1> QED
    BY <1>1, <1>2

(* Any other item, when the work on it only gets less.                     *)
LEMMA KindKept ==
  ASSUME NEW i \in Items, SlotInv(i), NEW y, item'[i] = y, SameKind(item[i], y),
         disk'[i] = disk[i],
         Waits(dlChan', dn', DnWaits, i)
           => Waits(dlChan, dn, DnWaits, i) /\ (item[i].flaginDL => y.flaginDL),
         Once(dlChan, dn, i) => Once(dlChan', dn', i),
         Uploads(upChan', up', i) => Uploads(upChan, up, i),
         Has(dn', i, Answered) => Has(dn, i, Answered),
         Has(dn', i, {"fail"}) => Has(dn, i, {"fail"}),
         Storing(cacheChan', cw', dn', i) => Storing(cacheChan, cw, dn, i),
         Chosen(pos', i) => Chosen(pos, i),
         y.memlocked => \/ ~Gone(item[i])
                        \/ item[i].memlocked /\ (Has(dn, i, {"fail"}) => Has(dn', i, {"fail"}))
  PROVE  NextSlotInv(i)
  <1> DEFINE x == item[i]
  <1>1. /\ Gone(y) <=> Gone(x)
        /\ x.availableOn \cap x.missingOn = {} => y.availableOn \cap y.missingOn = {}
        /\ y.flagisDL <=> x.flagisDL
        /\ y.flagCache <=> x.flagCache
    BY SameGone, Zenon
  <1>2. y.availableOn \cap y.missingOn = {} /\ (Storing(cacheChan', cw', dn', i) => y.flagisDL)
    BY <1>1, Zenon DEF SlotInv, Kind
  <1>3. CASE x.flagisDL
    BY <1>1, <1>2, <1>3, Zenon DEF SlotInv, NextSlotInv, Kind
  <1>4. CASE ~x.flagisDL /\ x.flagCache
    <2>1. CachedKind(x, disk[i], Waits(dlChan, dn, DnWaits, i), Uploads(upChan, up, i),
                     Has(dn, i, Answered), Has(dn, i, {"fail"}), Chosen(pos, i))
      BY <1>4, Zenon DEF SlotInv, Kind
    <2>2. CachedKind(y, disk[i], Waits(dlChan', dn', DnWaits, i), Uploads(upChan', up', i),
                     Has(dn', i, Answered), Has(dn', i, {"fail"}), Chosen(pos', i))
      BY <2>1, <1>1, Zenon DEF CachedKind
    <2> QED
      BY <2>2, <1>1, <1>2, <1>4, Zenon DEF NextSlotInv, Kind
  <1>5. CASE ~x.flagisDL /\ ~x.flagCache
    <2>1. NewKind(x, disk[i], Waits(dlChan, dn, DnWaits, i), Once(dlChan, dn, i), Uploads(upChan, up, i),
                  Has(dn, i, Answered), Has(dn, i, {"fail"}))
      BY <1>5, Zenon DEF SlotInv, Kind
    <2>2. NewKind(y, disk[i], Waits(dlChan', dn', DnWaits, i), Once(dlChan', dn', i), Uploads(upChan', up', i),
                  Has(dn', i, Answered), Has(dn', i, {"fail"}))
      BY <2>1, <1>1, Zenon DEF NewKind
    <2> QED
      BY <2>2, <1>1, <1>2, <1>5, Zenon DEF NextSlotInv, Kind
  <1> QED
    BY <1>3, <1>4, <1>5, Zenon

(* A routine that has its slot waits for its answer still.                 *)
LEMMA DnLockSlots ==
  ASSUME IInv, SlotsInv, NEW p \in Providers, DnLock(p)
  PROVE  SlotsInv'
  <1> DEFINE i == dn[p].item
             pc == IF p \in down THEN "down" ELSE "cmd"
             y == [item[i] EXCEPT !.memlocked = TRUE]
  <1>1. dn[p].pc \in DnWaits /\ dn[p].pc # "idle" /\ ElsewhereSame /\ UNCHANGED <<disk, cacheChan>>
    BY DEF DnLock, DnWaits, ElsewhereSame, dnRest, caching, upWork, divider
  <1>2. i \in Items /\ item[i] \in Flags /\ ~Gone(item[i]) /\ Waits(dlChan, dn, DnWaits, i)
    BY <1>1, AwaitedKind, Zenon
  <1>3. Set(i, y) /\ DnGo(p, pc) /\ pc \in DnWaits /\ pc # "mem" /\ pc \notin Answered \cup {"fail", "add"}
    BY DEF DnLock, dnItem, DnWaits, Answered
  <1> HIDE DEF pc
  <1> DEFINE st == [pc |-> pc, item |-> i]
  <1>4. Moves(p, st)
    BY <1>1, <1>3, DnGoMoves
  <1>5. SameKind(item[i], y) /\ (item[i].flaginDL => y.flaginDL)
    BY <1>2, PlainSame DEF Flags
  <1>6. item'[i] = y
    BY <1>2, <1>3, SetItem
  <1>7. /\ \A j \in Items : j # i => SameWork(j)
        /\ \A j \in Items : \A S : Has(dn', j, S) => Has(dn, j, S) \/ (j = st.item /\ st.pc \in S)
        /\ \A q \in Providers : q # p => dn'[q] = dn[q]
    BY <1>1, <1>4, DnOthers
  <1>8. dn'[p] = st
    BY <1>4 DEF Moves, Becomes, IInv, DlInv, WorkInv
  <1>9. /\ dlChan' = dlChan /\ upChan' = upChan /\ up' = up /\ pos' = pos /\ cw' = cw
        /\ disk' = disk /\ cacheChan' = cacheChan
    BY <1>1 DEF ElsewhereSame
  <1>10. SlotInv(i)
    BY <1>2 DEF SlotsInv
  <1>11. Once(dlChan, dn, i) => Once(dlChan', dn', i)
    <2>1. \A q \in Providers : dn'[q].item = i /\ dn'[q].pc \in DnWaits => dn[q].item = i /\ dn[q].pc \in DnWaits
      BY <1>1, <1>7, <1>8
    <2> QED
      BY <2>1, <1>9, OnceKept, Zenon
  <1>12. /\ Has(dn', i, Answered) => Has(dn, i, Answered)
         /\ Has(dn', i, {"fail"}) => Has(dn, i, {"fail"})
         /\ Has(dn', i, {"add"}) => Has(dn, i, {"add"})
    BY <1>2, <1>3, <1>7
  <1> HIDE DEF i, y
  <1>13. Storing(cacheChan', cw', dn', i) => Storing(cacheChan, cw, dn, i)
    BY <1>9, <1>12, Zenon DEF Storing
  <1>14. NextSlotInv(i)
    BY <1>2, <1>5, <1>6, <1>9, <1>10, <1>11, <1>12, <1>13, KindKept, Zenon
  <1> QED
    BY <1>2, <1>3, <1>7, <1>9, <1>14, OthersKept, Zenon

(* An answered item is live.                                               *)
LEMMA AnsweredLive ==
  ASSUME IInv, SlotsInv, NEW p \in Providers, dn[p].pc \in Answered
  PROVE  dn[p].item \in Items /\ item[dn[p].item] \in Flags /\ Live(item[dn[p].item])
  <1> DEFINE i == dn[p].item
  <1>1. i \in Items /\ item[i] \in Flags
    BY DnAtWork DEF Answered, dnItem
  <1>2. Has(dn, i, Answered)
    BY Zenon DEF Has
  <1> HIDE DEF i
  <1>3. Live(item[i])
    BY <1>1, <1>2, Zenon DEF SlotsInv, SlotInv, Kind, CachedKind, NewKind, Live
  <1> QED
    BY <1>1, <1>3 DEF i

(* What a routine does with a live item after the answer, or when it finds *)
(* it in the cache.                                                        *)
LEMMA DnLiveMoves ==
  ASSUME IInv, SlotsInv, NEW p \in Providers, NEW st, Moves(p, st), ElsewhereSame,
         disk' = disk, st.pc \notin DnWaits, st.pc # "add",
         \/ cacheChan' = cacheChan
         \/ dn[p].pc = "add" /\ cacheChan' = Append(cacheChan, dn[p].item),
         dn[p].item \in Items, Live(item[dn[p].item]),
         NEW y, Set(dn[p].item, y), SameKind(item[dn[p].item], y)
  PROVE  SlotsInv'
  <1> DEFINE i == dn[p].item
  <1>1. /\ \A j \in Items : j # i => SameWork(j)
        /\ \A j \in Items : \A S : Has(dn', j, S) => Has(dn, j, S) \/ (j = st.item /\ st.pc \in S)
    BY DnOthers, Zenon
  <1>2. dlChan' = dlChan /\ cw' = cw /\ disk' = disk
    BY DEF ElsewhereSame
  <1>3. item'[i] = y /\ SlotInv(i)
    BY SetItem DEF SlotsInv
  <1>4. /\ Has(dn', i, {"add"}) => Has(dn, i, {"add"})
        /\ Has(dn', i, DnWaits) => Has(dn, i, DnWaits)
    BY <1>1
  <1>5. Waits(dlChan', dn', DnWaits, i) => Waits(dlChan, dn, DnWaits, i)
    BY <1>2, <1>4, Zenon DEF Waits, Has
  <1>6. Storing(cacheChan', cw', dn', i) => Storing(cacheChan, cw, dn, i)
    <2>1. CASE cacheChan' = cacheChan
      BY <2>1, <1>2, <1>4, Zenon DEF Storing
    <2>2. CASE dn[p].pc = "add"
      <3>1. Has(dn, i, {"add"})
        BY <2>2 DEF Has
      <3> QED
        BY <3>1, Zenon DEF Storing
    <2> QED
      BY <2>1, <2>2
  <1> HIDE DEF i
  <1>7. /\ y.flagisDL = item[i].flagisDL /\ y.flagCache = item[i].flagCache /\ ~Gone(y)
        /\ y.availableOn \cap y.missingOn = {}
    <2>1. item[i].availableOn \cap item[i].missingOn = {}
      BY <1>3, Zenon DEF SlotInv, Kind
    <2> QED
      BY <2>1, SameGone DEF SameKind, Live, i
  <1>8. NextSlotInv(i)
    BY <1>2, <1>3, <1>5, <1>6, <1>7, LiveKept, Zenon DEF i
  <1> QED
    BY <1>1, <1>2, <1>8, OthersKept, Zenon DEF i

(* ReadCache: the item is of the cache, and some provider is not known to  *)
(* miss it.                                                                *)
LEMMA DnCacheReadSlots ==
  ASSUME IInv, SlotsInv, NEW p \in Providers, DnCacheRead(p)
  PROVE  SlotsInv'
  <1> DEFINE i == dn[p].item
             x == item[i]
  <1>1. /\ dn[p].pc \in DnWaits /\ dn[p].pc # "idle" /\ ElsewhereSame /\ UNCHANGED <<disk, cacheChan>>
        /\ DnGo(p, "hit") /\ "hit" \notin DnWaits /\ "hit" # "mem"
    BY DEF DnCacheRead, DnWaits, ElsewhereSame, dnRest, caching, upWork, divider
  <1>2. /\ i \in Items /\ x \in Flags /\ FlagsFit(x) /\ ~x.flagisDL /\ ~Gone(x)
        /\ ~x.flagCache => NewKind(x, disk[i], TRUE, Once(dlChan, dn, i), Uploads(upChan, up, i),
                                   Has(dn, i, Answered), Has(dn, i, {"fail"}))
    BY <1>1, AwaitedKind, Zenon
  <1>3. x.flagCache
    BY <1>2 DEF DnCacheRead, inCache, dnItem, NewKind, FlagsFit
  <1>4. PICK y : Set(i, y) /\ SameKind(x, y)
    <2>1. SameKind(x, [x EXCEPT !.article = TRUE, !.flagCache = TRUE, !.flaginDL = FALSE]) /\ SameKind(x, x)
      BY <1>2, <1>3 DEF SameKind, Flags
    <2> QED
      BY <2>1 DEF DnCacheRead, dnItem
  <1>5. Moves(p, [pc |-> "hit", item |-> i])
    BY <1>1, DnGoMoves
  <1> QED
    BY <1>1, <1>2, <1>3, <1>4, <1>5, DnLiveMoves DEF Live

(* What follows a good answer is work on a live item.                      *)
LEMMA DnAnsweredSlots ==
  ASSUME IInv, SlotsInv, NEW p \in Providers, DnAdd(p) \/ DnRetire(p) \/ DnHit(p)
  PROVE  SlotsInv'
  <1> DEFINE i == dn[p].item
             x == item[i]
  <1>1. dn[p].pc \in Answered /\ dn[p].pc # "idle" /\ ElsewhereSame /\ disk' = disk
    BY DEF DnAdd, DnRetire, DnHit, Answered, ElsewhereSame, dnRest, caching, upWork, divider
  <1>2. i \in Items /\ x \in Flags /\ Live(x)
    BY <1>1, AnsweredLive
  <1>3. PICK y : Set(i, y) /\ SameKind(x, y)
    <2>1. CASE DnRetire(p)
      BY <2>1, <1>2, RetireSame DEF DnRetire, dnItem
    <2>2. CASE DnAdd(p) \/ DnHit(p)
      <3>1. item' = item /\ item \in [Items -> Flags]
        BY <2>2 DEF DnAdd, DnHit, IInv, FlagsInv
      <3>2. Set(i, x) /\ SameKind(x, x)
        BY <3>1 DEF Set, SameKind
      <3> QED
        BY <3>2
    <2> QED
      BY <2>1, <2>2
  <1>4. PICK st : Moves(p, st) /\ st.pc \notin DnWaits /\ st.pc # "add"
    <2>1. CASE DnAdd(p)
      <3>1. DnGo(p, "retire") /\ "retire" \notin DnWaits /\ "retire" # "mem" /\ "retire" # "add"
        BY <2>1 DEF DnAdd, DnWaits
      <3>2. Moves(p, [pc |-> "retire", item |-> i])
        BY <3>1, <1>1, DnGoMoves
      <3> QED
        BY <3>1, <3>2
    <2>2. CASE DnRetire(p) \/ DnHit(p)
      <3>1. Moves(p, Idle)
        BY <2>2, <1>1, DnDoneMoves DEF DnRetire, DnHit
      <3> QED
        BY <3>1 DEF Idle, DnWaits
    <2> QED
      BY <2>1, <2>2
  <1>5. \/ cacheChan' = cacheChan
        \/ dn[p].pc = "add" /\ cacheChan' = Append(cacheChan, i)
    BY DEF DnAdd, DnRetire, DnHit, caching, dnItem
  <1> QED
    BY <1>1, <1>2, <1>3, <1>4, <1>5, DnLiveMoves

(* 220: a new item becomes a downloaded one.                               *)
LEMMA DnArticleSlots ==
  ASSUME IInv, SlotsInv, NEW p \in Providers, DnArticle(p)
  PROVE  SlotsInv'
  <1> DEFINE i == dn[p].item
             x == item[i]
             S == Siblings(p)
             y == [x EXCEPT !.availableOn = @ \cup S, !.missingOn = @ \ S, !.article = TRUE,
                            !.flagisDL = TRUE, !.flaginDL = FALSE]
             st == [pc |-> "add", item |-> i]
  <1>1. /\ dn[p].pc \in DnWaits /\ dn[p].pc # "idle" /\ ElsewhereSame /\ UNCHANGED <<disk, cacheChan>>
        /\ DnGo(p, "add") /\ "add" \notin DnWaits /\ "add" # "mem" /\ Set(i, y)
    BY DEF DnArticle, DnWaits, ElsewhereSame, dnRest, caching, upWork, divider, dnItem
  <1>2. /\ i \in Items /\ x \in Flags /\ ~x.flagisDL /\ x.availableOn \cap x.missingOn = {}
        /\ x.flagCache => cacheON /\ disk[i] = "ok"
        /\ ~x.flagCache => NewKind(x, disk[i], TRUE, Once(dlChan, dn, i), Uploads(upChan, up, i),
                                   Has(dn, i, Answered), Has(dn, i, {"fail"}))
    BY <1>1, AwaitedKind, Zenon
  <1>3. Once(dlChan, dn, i)
    <2>1. ~x.flagCache
      BY <1>2 DEF DnArticle, inCache, dnItem
    <2> QED
      BY <2>1, <1>2, Zenon DEF NewKind
  <1>4. Moves(p, st) /\ st.pc \notin DnWaits
    BY <1>1, DnGoMoves
  <1>5. dlChan' = dlChan /\ disk' = disk /\ cacheChan' = cacheChan
    BY <1>1 DEF ElsewhereSame
  <1>6. ~Waits(dlChan', dn', DnWaits, i)
    BY <1>1, <1>3, <1>4, <1>5, OnlyOne, Zenon
  <1>7. y.flagisDL /\ ~Gone(y) /\ y.availableOn \cap y.missingOn = {}
    <2>1. p \in S
      BY DEF Siblings
    <2> HIDE DEF S
    <2> QED
      BY <2>1, <1>2 DEF Flags, Gone
  <1>8. item'[i] = y
    BY <1>1, <1>2, SetItem
  <1> HIDE DEF y
  <1>9. NextSlotInv(i)
    BY <1>6, <1>7, <1>8, Zenon DEF NextSlotInv, Kind
  <1>10. \A j \in Items : j # i => SameWork(j)
    BY <1>1, <1>4, <1>5, DnOthers, Zenon
  <1> QED
    BY <1>1, <1>2, <1>5, <1>9, <1>10, OthersKept, Zenon

(* A routine that failed returns the slot: nothing else holds it then for  *)
(* a new item that every provider misses.                                  *)
LEMMA DnFailSlots ==
  ASSUME IInv, SlotsInv, NEW p \in Providers, DnFail(p)
  PROVE  SlotsInv'
  <1> DEFINE i == dn[p].item
             y == MemReturn(item[i])
  <1>1. /\ dn[p].pc = "fail" /\ ElsewhereSame /\ UNCHANGED <<disk, cacheChan>> /\ DnDone(p) /\ Set(i, y)
    BY DEF DnFail, ElsewhereSame, dnRest, caching, upWork, divider, dnItem
  <1>2. i \in Items /\ item[i] \in Flags
    BY <1>1, DnAtWork DEF dnItem
  <1>3. Moves(p, Idle)
    BY <1>1, DnDoneMoves
  <1>4. /\ \A j \in Items : j # i => SameWork(j)
        /\ \A j \in Items : \A S : Has(dn', j, S) => Has(dn, j, S) \/ (j = Idle.item /\ Idle.pc \in S)
        /\ \A q \in Providers : q # p => dn'[q] = dn[q]
    BY <1>1, <1>3, DnOthers
  <1>5. dn'[p] = Idle
    BY <1>1 DEF DnDone, IInv, DlInv, WorkInv
  <1>6. /\ dlChan' = dlChan /\ upChan' = upChan /\ up' = up /\ pos' = pos /\ cw' = cw
        /\ disk' = disk /\ cacheChan' = cacheChan
    BY <1>1 DEF ElsewhereSame
  <1>7. \A S : Has(dn', i, S) => Has(dn, i, S)
    BY <1>2, <1>4, Parameters DEF Idle
  <1>8. Once(dlChan, dn, i) => Once(dlChan', dn', i)
    <2>1. \A q \in Providers : dn'[q].item = i /\ dn'[q].pc \in DnWaits => dn[q].item = i /\ dn[q].pc \in DnWaits
      BY <1>2, <1>4, <1>5, Parameters DEF Idle
    <2> QED
      BY <2>1, <1>6, OnceKept, Zenon
  <1>9. SameKind(item[i], y) /\ ~y.memlocked /\ y.flaginDL = item[i].flaginDL
    BY <1>2, RetireSame DEF MemReturn, Flags
  <1>10. item'[i] = y /\ SlotInv(i)
    BY <1>1, <1>2, SetItem DEF SlotsInv
  <1> HIDE DEF i, y
  <1>11. Storing(cacheChan', cw', dn', i) => Storing(cacheChan, cw, dn, i)
    BY <1>6, <1>7, Zenon DEF Storing
  <1>12. Waits(dlChan', dn', DnWaits, i) => Waits(dlChan, dn, DnWaits, i)
    <2>1. Has(dn', i, DnWaits) => Has(dn, i, DnWaits)
      BY <1>7
    <2> QED
      BY <2>1, <1>6, Zenon DEF Waits, Has
  <1>13. NextSlotInv(i)
    BY <1>2, <1>6, <1>7, <1>8, <1>9, <1>10, <1>11, <1>12, KindKept, Zenon
  <1> QED
    BY <1>1, <1>2, <1>4, <1>6, <1>13, OthersKept, Zenon

-----------------------------------------------------------------------------
(* The first item of a channel is taken.                                   *)
LEMMA TakenPlaces ==
  ASSUME NEW chan \in [Groups -> Seq(Items)], NEW g \in Groups, chan[g] # <<>>,
         NEW chan2, Taken(chan2, chan, g)
  PROVE  /\ \A j : Queued(chan2, j) => Queued(chan, j)
         /\ Queued(chan, Head(chan[g]))
         /\ \A j, r : Once(chan, r, j) => Once(chan2, r, j)
         /\ \A r : Once(chan, r, Head(chan[g])) => ~Queued(chan2, Head(chan[g]))
  <1> DEFINE at(h, k) == IF h = g THEN k + 1 ELSE k
  <1>1. \A h \in Groups : chan[h] \in Seq(Items) /\ Len(chan[h]) \in Nat /\ DOMAIN chan[h] = 1..Len(chan[h])
    OBVIOUS
  <1>2. chan2[g] = Tail(chan[g]) /\ \A h \in Groups : h # g => chan2[h] = chan[h]
    BY DEF Taken
  <1>3. Head(chan[g]) = chan[g][1] /\ 1 \in 1..Len(chan[g])
    BY <1>1
  <1>4. ASSUME NEW h \in Groups, NEW k \in 1..Len(chan2[h])
        PROVE  /\ at(h, k) \in 1..Len(chan[h]) /\ chan2[h][k] = chan[h][at(h, k)]
               /\ h = g => at(h, k) # 1
    <2>1. CASE h = g
      BY <2>1, <1>1, <1>2, <1>4
    <2>2. CASE h # g
      BY <2>2, <1>1, <1>2, <1>4
    <2> QED
      BY <2>1, <2>2
  <1>5. ASSUME NEW h \in Groups, NEW k \in Int, NEW l \in Int, at(h, k) = at(h, l)
        PROVE  k = l
    BY <1>5
  <1>6. \A h \in Groups : chan2[h] \in Seq(Items) /\ DOMAIN chan2[h] = 1..Len(chan2[h]) /\ Len(chan2[h]) \in Nat
    <2> TAKE h \in Groups
    <2>1. CASE h = g
      <3>1. chan[g] \in Seq(Items)
        BY <1>1
      <3>2. Tail(chan[g]) \in Seq(Items)
        BY <3>1
      <3> QED
        BY <2>1, <3>2, <1>2
    <2>2. CASE h # g
      BY <2>2, <1>1, <1>2
    <2> QED
      BY <2>1, <2>2
  <1> HIDE DEF at
  <1>7. ASSUME NEW j, Queued(chan2, j)
        PROVE  Queued(chan, j)
    <2>1. PICK h \in Groups : \E k \in 1..Len(chan2[h]) : chan2[h][k] = j
      BY <1>6, <1>7 DEF Queued, Range
    <2> QED
      BY <2>1, <1>1, <1>4 DEF Queued, Range
  <1>8. Queued(chan, Head(chan[g]))
    BY <1>1, <1>3 DEF Queued, Range
  <1>9. ASSUME NEW j, NEW r, Once(chan, r, j)
        PROVE  Once(chan2, r, j)
    <2>1. ASSUME NEW h \in Groups, NEW f \in Groups, NEW k \in 1..Len(chan2[h]), NEW l \in 1..Len(chan2[f]),
                 chan2[h][k] = j, chan2[f][l] = j
          PROVE  h = f /\ k = l
      <3>0. /\ at(h, k) \in 1..Len(chan[h]) /\ chan[h][at(h, k)] = j
            /\ at(f, l) \in 1..Len(chan[f]) /\ chan[f][at(f, l)] = j
        BY <1>4, <2>1, Zenon
      <3>1. h = f /\ at(h, k) = at(f, l)
        BY <1>9, <3>0, Zenon DEF Once
      <3> QED
        BY <3>1, <1>5
    <2> QED
      BY <2>1, <1>7, <1>9, Zenon DEF Once
  <1>10. ASSUME NEW r, Once(chan, r, Head(chan[g])), Queued(chan2, Head(chan[g]))
         PROVE  FALSE
    <2>1. PICK h \in Groups : \E k \in 1..Len(chan2[h]) : chan2[h][k] = Head(chan[g])
      BY <1>6, <1>10 DEF Queued, Range
    <2>2. PICK k \in 1..Len(chan2[h]) : chan2[h][k] = Head(chan[g])
      BY <2>1
    <2>0. at(h, k) \in 1..Len(chan[h]) /\ chan[h][at(h, k)] = Head(chan[g])
      BY <2>2, <1>4, Zenon
    <2>3. h = g /\ at(h, k) = 1
      BY <2>0, <1>3, <1>10, Zenon DEF Once
    <2> QED
      BY <2>3, <1>4
  <1> QED
    BY <1>7, <1>8, <1>9, <1>10, Zenon

(* An item leaves its channel: it was there once, so it waits in one place *)
(* still.                                                                  *)
LEMMA DnTakeSlots ==
  ASSUME IInv, SlotsInv, NEW p \in Providers, DnTake(p)
  PROVE  SlotsInv'
  <1> DEFINE g == group[p]
             i == Head(dlChan[g])
             x == item[i]
  <1>1. /\ dn[p].pc = "idle" /\ dlChan[g] # <<>> /\ Taken(dlChan', dlChan, g) /\ g \in Groups
    BY Parameters, Zenon DEF DnTake, Taken
  <1>2. /\ dlChan \in [Groups -> Seq(Items)] /\ item \in [Items -> Flags]
        /\ dn \in [Providers -> [pc : DnPCs, item : Items \cup {None}]] /\ dn[p].item = None
    BY <1>1 DEF IInv, DlInv, WorkInv, FlagsInv
  <1>3. i \in Items /\ x \in Flags
    <2>1. i \in Items
      BY <1>1, <1>2, TakenChannel, Zenon
    <2> QED
      BY <2>1, <1>2
  <1>4. /\ \A j : Queued(dlChan', j) => Queued(dlChan, j)
        /\ Queued(dlChan, i)
        /\ \A j, r : Once(dlChan, r, j) => Once(dlChan', r, j)
        /\ \A r : Once(dlChan, r, i) => ~Queued(dlChan', i)
    BY <1>1, <1>2, TakenPlaces
  <1>5. /\ upChan' = upChan /\ up' = up /\ pos' = pos /\ cw' = cw /\ disk' = disk /\ cacheChan' = cacheChan
    BY DEF DnTake, dnRest, caching, upWork, divider
  <1>6. PICK y : /\ Set(i, y) /\ SameKind(x, y) /\ (y.memlocked = x.memlocked)
                 /\ \/ sessStop /\ dn' = dn
                    \/ y = x /\ Becomes(dn', dn, p, [pc |-> "mem", item |-> i])
    <2>1. CASE sessStop
      <3>1. SameKind(x, [x EXCEPT !.flaginDL = FALSE]) /\ [x EXCEPT !.flaginDL = FALSE].memlocked = x.memlocked
        BY <1>3, PlainSame DEF Flags
      <3> QED
        BY <2>1, <3>1 DEF DnTake
    <2>2. CASE ~sessStop
      <3>1. item' = item /\ Becomes(dn', dn, p, [pc |-> "mem", item |-> i])
        BY <2>2 DEF DnTake, Becomes
      <3>2. Set(i, x) /\ SameKind(x, x)
        BY <3>1, <1>2 DEF Set, SameKind
      <3> QED
        BY <3>1, <3>2
    <2> QED
      BY <2>1, <2>2
  <1>7. item'[i] = y /\ SlotInv(i)
    BY <1>3, <1>6, SetItem DEF SlotsInv
  <1>8. \A q \in Providers : q # p => dn'[q] = dn[q]
    BY <1>2, <1>6 DEF Becomes
  <1>9. dn'[p] = dn[p] \/ dn'[p] = [pc |-> "mem", item |-> i]
    BY <1>2, <1>6 DEF Becomes
  <1>10. /\ \A j \in Items : \A S : j # i => (Has(dn', j, S) => Has(dn, j, S))
         /\ \A j \in Items : \A S : "mem" \notin S => (Has(dn', j, S) => Has(dn, j, S))
         /\ \A j \in Items : \A S : Has(dn, j, S) => Has(dn', j, S)
    <2>1. \A j \in Items : dn[p].item # j
      BY <1>2, Parameters
    <2>2. dn'[p] = dn[p] \/ (dn'[p].item = i /\ dn'[p].pc = "mem")
      BY <1>9
    <2> QED
      BY <2>1, <2>2, <1>8, Zenon DEF Has
  <1> HIDE DEF i, g
  <1>11. ASSUME NEW j \in Items, j # i
         PROVE  SameWork(j)
    <2>1. Waits(dlChan', dn', DnWaits, j) => Waits(dlChan, dn, DnWaits, j)
      <3>1. Has(dn', j, DnWaits) => Has(dn, j, DnWaits)
        BY <1>10, <1>11, Zenon
      <3> QED
        BY <3>1, <1>4, Zenon DEF Waits, Has
    <2>2. Once(dlChan, dn, j) => Once(dlChan', dn', j)
      <3>1. \A q \in Providers : dn'[q].item = j /\ dn'[q].pc \in DnWaits => dn[q].item = j /\ dn[q].pc \in DnWaits
        BY <1>8, <1>9, <1>11
      <3> QED
        BY <3>1, <1>4, OnceKept, Zenon
    <2> QED
      BY <2>1, <2>2, <1>5, <1>10, <1>11, Zenon DEF SameWork, Storing
  <1>12. "mem" \notin Answered /\ "mem" \notin {"fail"} /\ "mem" \notin {"add"}
    BY DEF Answered
  <1>13. Storing(cacheChan', cw', dn', i) => Storing(cacheChan, cw, dn, i)
    BY <1>3, <1>5, <1>10, <1>12, Zenon DEF Storing
  <1>14. Waits(dlChan, dn, DnWaits, i)
    BY <1>4, Zenon DEF Waits
  <1>15. CASE Live(x)
    <2>1. /\ y.flagisDL = x.flagisDL /\ y.flagCache = x.flagCache /\ ~Gone(y)
          /\ y.availableOn \cap y.missingOn = {}
      <3>1. x.availableOn \cap x.missingOn = {}
        BY <1>7, Zenon DEF SlotInv, Kind
      <3> QED
        BY <3>1, <1>6, <1>15, SameGone DEF SameKind, Live
    <2>2. NextSlotInv(i)
      BY <2>1, <1>3, <1>5, <1>7, <1>13, <1>14, <1>15, LiveKept, Zenon
    <2> QED
      BY <2>2, <1>3, <1>5, <1>6, <1>11, OthersKept, Zenon
  <1>16. CASE ~Live(x)
    <2>1. Once(dlChan, dn, i)
      BY <1>7, <1>14, <1>16, Zenon DEF SlotInv, Kind, CachedKind, NewKind, Live
    <2>2. ~Queued(dlChan', i) /\ ~Has(dn, i, DnWaits) /\ Once(dlChan', dn, i)
      BY <2>1, <1>4, Zenon DEF Once
    <2>3. Once(dlChan', dn', i)
      <3>1. \A q \in Providers : dn'[q].item = i /\ dn'[q].pc \in DnWaits => q = p
        BY <2>2, <1>8, Zenon DEF Has
      <3>2. \A h, f \in Groups : \A k \in 1..Len(dlChan'[h]), l \in 1..Len(dlChan'[f]) :
              dlChan'[h][k] = i /\ dlChan'[f][l] = i => h = f /\ k = l
        BY <2>2, Zenon DEF Once
      <3> QED
        BY <2>2, <3>1, <3>2, Zenon DEF Once
    <2>4. Waits(dlChan', dn', DnWaits, i) => y.flaginDL = x.flaginDL
      <3>1. CASE dn' = dn
        BY <3>1, <2>2, Zenon DEF Waits, Has
      <3>2. CASE y = x
        BY <3>2
      <3> QED
        BY <3>1, <3>2, <1>6
    <2>5. /\ Has(dn', i, Answered) => Has(dn, i, Answered)
          /\ Has(dn', i, {"fail"}) => Has(dn, i, {"fail"})
          /\ Has(dn, i, {"fail"}) => Has(dn', i, {"fail"})
      BY <1>3, <1>10, <1>12, Zenon
    <2>6. NextSlotInv(i)
      <3>1. /\ SameKind(x, y) /\ disk'[i] = disk[i] /\ (y.memlocked => x.memlocked)
            /\ Uploads(upChan', up', i) => Uploads(upChan, up, i)
            /\ Chosen(pos', i) => Chosen(pos, i)
        BY <1>5, <1>6, Zenon
      <3>2. Waits(dlChan', dn', DnWaits, i) => Waits(dlChan, dn, DnWaits, i) /\ (x.flaginDL => y.flaginDL)
        BY <1>14, <2>4, Zenon
      <3> QED
        BY <3>1, <3>2, <2>3, <2>5, <1>3, <1>7, <1>13, KindKept, Zenon
    <2> QED
      BY <2>6, <1>3, <1>5, <1>6, <1>11, OthersKept, Zenon
  <1> QED
    BY <1>15, <1>16

-----------------------------------------------------------------------------
(* Upload routines: they work on live items only.                          *)
LEMMA UploadsLive ==
  ASSUME SlotsInv, NEW i \in Items, Uploads(upChan, up, i)
  PROVE  Live(item[i]) /\ item[i].availableOn \cap item[i].missingOn = {}
  BY Zenon DEF SlotsInv, SlotInv, Kind, CachedKind, NewKind, Live

(* A step of an upload routine that leaves its item live.                  *)
LEMMA UpLiveMoves ==
  ASSUME IInv, SlotsInv, NEW i \in Items, Uploads(upChan, up, i), NEW y, Set(i, y),
         y.flagisDL = item[i].flagisDL, y.flagCache = item[i].flagCache,
         ~Gone(y), y.availableOn \cap y.missingOn = {},
         UNCHANGED <<dlChan, dn, disk, cacheChan, cw, pos>>,
         \A j \in Items : j # i => (Uploads(upChan', up', j) => Uploads(upChan, up, j))
  PROVE  SlotsInv'
  <1>1. /\ dlChan' = dlChan /\ dn' = dn /\ disk' = disk /\ cacheChan' = cacheChan /\ cw' = cw /\ pos' = pos
    OBVIOUS
  <1>2. \A j \in Items : j # i => SameWork(j)
    BY <1>1, Zenon DEF SameWork
  <1>3. item'[i] = y /\ SlotInv(i) /\ Live(item[i])
    BY SetItem, UploadsLive DEF SlotsInv
  <1>4. NextSlotInv(i)
    BY <1>1, <1>3, LiveKept, Zenon
  <1> QED
    BY <1>1, <1>2, <1>4, OthersKept, Zenon

(* No step of a routine queues or takes any other item.                    *)
LEMMA UpOthers ==
  ASSUME IInv, NEW p \in Providers, up[p].pc # "idle", upChan' = upChan,
         UpDone(p) \/ \E pc : UpGo(p, pc)
  PROVE  /\ up[p].item \in Items /\ item[up[p].item] \in Flags /\ Uploads(upChan, up, up[p].item)
         /\ \A j \in Items : j # up[p].item => (Uploads(upChan', up', j) => Uploads(upChan, up, j))
  <1>1. up \in [Providers -> [pc : UpPCs, item : Items \cup {None}]]
    BY DEF IInv, UpInv, WorkInv
  <1>2. up'[p].item \in {up[p].item, None} /\ \A q \in Providers : q # p => up'[q] = up[q]
    BY <1>1 DEF UpDone, UpGo, Idle
  <1>3. \A j \in Items : (\E q \in Providers : up'[q].item = j) => (\E q \in Providers : up[q].item = j)
    BY <1>2, Parameters
  <1>4. up[p].item \in Items /\ item[up[p].item] \in Flags
    BY UpAtWork DEF upItem
  <1> QED
    BY <1>3, <1>4, Zenon DEF Uploads

(* An upload routine takes its item, which is live.                        *)
LEMMA UpTakeSlots ==
  ASSUME IInv, SlotsInv, NEW p \in Providers, UpTake(p)
  PROVE  SlotsInv'
  <1> DEFINE g == group[p]
             i == Head(upChan[g])
  <1>1. /\ up[p].pc = "idle" /\ upChan[g] # <<>> /\ Taken(upChan', upChan, g) /\ g \in Groups
        /\ UNCHANGED <<dlChan, dn, disk, cacheChan, cw, pos>>
    BY Parameters, Zenon DEF UpTake, Taken, upRest, dlWork, caching, divider
  <1>2. /\ upChan \in [Groups -> Seq(Items)] /\ item \in [Items -> Flags]
        /\ up \in [Providers -> [pc : UpPCs, item : Items \cup {None}]]
    BY <1>1 DEF IInv, UpInv, WorkInv, FlagsInv
  <1>3. i \in Items /\ item[i] \in Flags
    <2>1. i \in Items
      BY <1>1, <1>2, TakenChannel, Zenon
    <2> QED
      BY <2>1, <1>2
  <1>4. (\A j : Queued(upChan', j) => Queued(upChan, j)) /\ Queued(upChan, i)
    BY <1>1, <1>2, TakenPlaces, Zenon
  <1>5. up' = up \/ \E pc : up' = [up EXCEPT ![p] = [pc |-> pc, item |-> i]]
    BY DEF UpTake
  <1>6. \A j \in Items : j # i => (Uploads(upChan', up', j) => Uploads(upChan, up, j))
    <2>1. \A q \in Providers : up'[q] = up[q] \/ up'[q].item = i
      BY <1>2, <1>5
    <2> QED
      BY <2>1, <1>4, Zenon DEF Uploads
  <1>7. \E y : SameKind(item[i], y) /\ Set(i, y)
    <2>1. CASE sessStop
      BY <2>1, <1>3, PlainSame DEF UpTake
    <2>2. CASE ~sessStop
      <3>1. Set(i, item[i])
        BY <2>2, <1>2 DEF UpTake, Set
      <3> QED
        BY <3>1 DEF SameKind
    <2> QED
      BY <2>1, <2>2
  <1>8. PICK y : SameKind(item[i], y) /\ Set(i, y)
    BY <1>7
  <1>9. Uploads(upChan, up, i)
    BY <1>4, Zenon DEF Uploads
  <1> HIDE DEF i
  <1>10. /\ y.flagisDL = item[i].flagisDL /\ y.flagCache = item[i].flagCache
         /\ ~Gone(y) /\ y.availableOn \cap y.missingOn = {}
    BY <1>3, <1>8, <1>9, UploadsLive, SameGone DEF SameKind, Live
  <1> QED
    BY <1>1, <1>3, <1>6, <1>8, <1>9, <1>10, UpLiveMoves

(* What a routine does with its item: the providers that miss it get fewer *)
(* at most, and nothing else changes that tells the kinds apart.           *)
LEMMA UpChange ==
  ASSUME NEW x \in Flags, NEW p \in Providers, Live(x), x.availableOn \cap x.missingOn = {}, NEW y,
         \/ SameKind(x, y)
         \/ y = [x EXCEPT !.uploadedTo = @ \cup Siblings(p), !.missingOn = @ \ Siblings(p),
                          !.flaginUP = FALSE, !.flagisUP = TRUE, !.fails = 0]
  PROVE  /\ y.flagisDL = x.flagisDL /\ y.flagCache = x.flagCache
         /\ ~Gone(y) /\ y.availableOn \cap y.missingOn = {}
  <1>1. CASE SameKind(x, y)
    BY <1>1, SameGone DEF SameKind, Live
  <1>2. CASE y = [x EXCEPT !.uploadedTo = @ \cup Siblings(p), !.missingOn = @ \ Siblings(p),
                           !.flaginUP = FALSE, !.flagisUP = TRUE, !.fails = 0]
    <2>1. /\ y.flagisDL = x.flagisDL /\ y.flagCache = x.flagCache /\ y.availableOn = x.availableOn
          /\ y.missingOn = x.missingOn \ Siblings(p)
      BY <1>2 DEF Flags
    <2>2. p \in Siblings(p)
      BY DEF Siblings
    <2> QED
      BY <2>1, <2>2 DEF Gone
  <1> QED
    BY <1>1, <1>2

(* A step of an upload routine: the kind of its item stays, or the upload  *)
(* succeeded and the item is live as before.                               *)
LEMMA UpChanged ==
  ASSUME IInv, SlotsInv, NEW p \in Providers, up[p].pc # "idle", upChan' = upChan,
         UNCHANGED <<dlChan, dn, disk, cacheChan, cw, pos>>, UpDone(p) \/ \E pc : UpGo(p, pc),
         NEW y, Set(up[p].item, y),
         \/ SameKind(item[up[p].item], y)
         \/ y = [item[up[p].item] EXCEPT !.uploadedTo = @ \cup Siblings(p), !.missingOn = @ \ Siblings(p),
                                         !.flaginUP = FALSE, !.flagisUP = TRUE, !.fails = 0]
  PROVE  SlotsInv'
  <1> DEFINE i == up[p].item
  <1>1. /\ i \in Items /\ item[i] \in Flags /\ Uploads(upChan, up, i)
        /\ \A j \in Items : j # i => (Uploads(upChan', up', j) => Uploads(upChan, up, j))
    BY UpOthers, Zenon
  <1>2. Live(item[i]) /\ item[i].availableOn \cap item[i].missingOn = {}
    BY <1>1, UploadsLive, Zenon
  <1>3. /\ y.flagisDL = item[i].flagisDL /\ y.flagCache = item[i].flagCache
        /\ ~Gone(y) /\ y.availableOn \cap y.missingOn = {}
    BY <1>1, <1>2, UpChange, Zenon
  <1> HIDE DEF i
  <1> QED
    BY <1>1, <1>3, UpLiveMoves DEF i

(* The same, whatever the flags are.                                       *)
LEMMA UpSame ==
  ASSUME IInv, SlotsInv, NEW p \in Providers, up[p].pc # "idle", upChan' = upChan,
         UNCHANGED <<dlChan, dn, disk, cacheChan, cw, pos>>, UpDone(p) \/ \E pc : UpGo(p, pc),
         \E y : Set(up[p].item, y) /\ SameKind(item[up[p].item], y)
  PROVE  SlotsInv'
  <1>1. PICK y : Set(up[p].item, y) /\ SameKind(item[up[p].item], y)
    OBVIOUS
  <1> QED
    BY <1>1, UpChanged, Zenon

(* The other steps of an upload routine.                                   *)
LEMMA ReupsSlots ==
  ASSUME IInv, SlotsInv, NEW p \in Providers, Reups(p), ~UpTake(p)
  PROVE  SlotsInv'
  <1> DEFINE i == up[p].item
             x == item[i]
  <1>0. CASE UpDown(p) \/ UpLock(p) \/ UpAborted(p) \/ UpConnError(p)
    <2>1. /\ up[p].pc # "idle" /\ upChan' = upChan /\ UNCHANGED <<dlChan, dn, disk, cacheChan, cw, pos>>
          /\ \E pc : UpGo(p, pc)
      BY <1>0 DEF UpDown, UpLock, UpAborted, UpConnError, upRest, dlWork, caching, divider
    <2>2. i \in Items /\ x \in Flags
      BY <2>1, UpAtWork DEF upItem
    <2>3. \E y : Set(i, y) /\ SameKind(x, y)
      <3>1. CASE UpDown(p)
        BY <3>1, <2>2, PlainSame DEF UpDown, upItem
      <3>2. CASE UpLock(p)
        BY <3>2, <2>2, PlainSame DEF UpLock, upItem
      <3>3. CASE UpAborted(p)
        <4>1. Set(i, x)
          BY <3>3 DEF UpAborted, Set, IInv, FlagsInv
        <4> QED
          BY <4>1 DEF SameKind
      <3>4. CASE UpConnError(p)
        BY <3>4, <2>2, FlagErrorSame DEF UpConnError, upItem
      <3> QED
        BY <3>1, <3>2, <3>3, <3>4, <1>0
    <2> QED
      BY <2>1, <2>3, UpSame
  <1>1. CASE (\E code \in Replies : UpUnwanted(p, code)) \/ UpRetry(p) \/ UpFree(p) \/ UpFlagError(p)
    <2>1. /\ up[p].pc # "idle" /\ upChan' = upChan /\ UNCHANGED <<dlChan, dn, disk, cacheChan, cw, pos>>
          /\ \E pc : UpGo(p, pc)
      BY <1>1 DEF UpUnwanted, UpRetry, UpFree, UpFlagError, UpAnswer, upRest, dlWork, caching, divider
    <2>2. i \in Items /\ x \in Flags
      BY <2>1, UpAtWork DEF upItem
    <2>3. \E y : Set(i, y) /\ SameKind(x, y)
      <3>1. ASSUME NEW code \in Replies, UpUnwanted(p, code)
            PROVE  \E y : Set(i, y) /\ SameKind(x, y)
        BY <3>1, <2>2, PlainSame DEF UpUnwanted, upItem
      <3>2. CASE UpRetry(p)
        BY <3>2, <2>2, PlainSame DEF UpRetry, upItem
      <3>3. CASE UpFree(p)
        BY <3>3, <2>2, PlainSame DEF UpFree, upItem
      <3>4. CASE UpFlagError(p)
        BY <3>4, <2>2, FlagErrorSame DEF UpFlagError, upItem
      <3> QED
        BY <3>1, <3>2, <3>3, <3>4, <1>1
    <2> QED
      BY <2>1, <2>3, UpSame
  <1>2. CASE UpErr(p) \/ UpReturn(p)
    <2>1. /\ up[p].pc # "idle" /\ upChan' = upChan /\ UNCHANGED <<dlChan, dn, disk, cacheChan, cw, pos>>
          /\ UpDone(p)
      BY <1>2 DEF UpErr, UpReturn, upRest, dlWork, caching, divider
    <2>2. i \in Items /\ x \in Flags
      BY <2>1, UpAtWork DEF upItem
    <2>3. \E y : Set(i, y) /\ SameKind(x, y)
      <3>1. CASE UpErr(p)
        <4>1. Set(i, x)
          BY <3>1 DEF UpErr, Set, IInv, FlagsInv
        <4> QED
          BY <4>1 DEF SameKind
      <3>2. CASE UpReturn(p)
        BY <3>2, <2>2, RetireSame DEF UpReturn, upItem
      <3> QED
        BY <3>1, <3>2, <1>2
    <2> QED
      BY <2>1, <2>3, UpSame
  <1>3. CASE UpOK(p)
    <2>1. /\ up[p].pc # "idle" /\ upChan' = upChan /\ UNCHANGED <<dlChan, dn, disk, cacheChan, cw, pos>>
          /\ UpGo(p, "free")
      BY <1>3 DEF UpOK, UpAnswer, upRest, dlWork, caching, divider
    <2> DEFINE y == [x EXCEPT !.uploadedTo = @ \cup Siblings(p), !.missingOn = @ \ Siblings(p),
                              !.flaginUP = FALSE, !.flagisUP = TRUE, !.fails = 0]
    <2>2. Set(i, y)
      BY <1>3 DEF UpOK, upItem
    <2> HIDE DEF y
    <2> QED
      BY <2>1, <2>2, UpChanged DEF y
  <1> QED
    BY <1>0, <1>1, <1>2, <1>3, Zenon DEF Reups

-----------------------------------------------------------------------------
(* The cache writer: it has downloaded items only.                         *)
LEMMA CwMoves ==
  ASSUME IInv, SlotsInv, NEW i \in Items, Storing(cacheChan, cw, dn, i), NEW y, Set(i, y),
         y.flagisDL = item[i].flagisDL, y.missingOn = item[i].missingOn, y.availableOn = item[i].availableOn,
         disk' = disk \/ (\E d : disk' = [disk EXCEPT ![i] = d]),
         UNCHANGED <<dlChan, dn, upChan, up, pos>>,
         \A j \in Items : j # i => (Storing(cacheChan', cw', dn', j) => Storing(cacheChan, cw, dn, j))
  PROVE  SlotsInv'
  <1>1. /\ dlChan' = dlChan /\ dn' = dn /\ upChan' = upChan /\ up' = up /\ pos' = pos
    OBVIOUS
  <1>2. \A j \in Items : j # i => SameWork(j)
    BY <1>1, Zenon DEF SameWork
  <1>3. SlotInv(i) /\ item'[i] = y
    BY SetItem DEF SlotsInv
  <1>4. item[i].flagisDL /\ ~Gone(item[i]) /\ item[i].availableOn \cap item[i].missingOn = {}
    BY <1>3, Zenon DEF SlotInv, Kind
  <1>5. NextSlotInv(i)
    <2>1. ~Gone(y) /\ y.availableOn \cap y.missingOn = {}
      BY <1>4 DEF Gone
    <2> QED
      BY <2>1, <1>1, <1>3, <1>4, LiveKept, Zenon DEF Live
  <1> QED
    BY <1>2, <1>5, OthersKept, Zenon

(* Its four steps work on the item it took from its channel.               *)
LEMMA CacheWriterSlots ==
  ASSUME IInv, SlotsInv, CacheWriter
  PROVE  SlotsInv'
  <1>1. /\ UNCHANGED <<dlChan, dn, upChan, up, pos>> /\ cacheChan \in Seq(Items) /\ item \in [Items -> Flags]
        /\ cw.item \in Items \cup {None} /\ (cw.pc # "idle" => cw.item # None)
    BY DEF CacheWriter, CwTake, CwWrite, CwFails, afterCacheWrite, cwRest, dlWork, upWork, divider,
           IInv, RestInv, FlagsInv
  <1>2. CASE CwTake
    <2> DEFINE i == Head(cacheChan)
               y == [item[i] EXCEPT !.flagCache = @ \/ (item[i].article /\ disk[i] # "none")]
    <2>1. /\ cacheChan # <<>> /\ cacheChan' = Tail(cacheChan) /\ cw'.item = i /\ Set(i, y) /\ disk' = disk
      BY <1>2 DEF CwTake
    <2>2. i \in Items /\ item[i] \in Flags /\ i \in Range(cacheChan)
      BY <1>1, <2>1 DEF Range
    <2>3. Range(cacheChan') \subseteq Range(cacheChan)
      BY <1>1, <2>1 DEF Range
    <2>4. y.flagisDL = item[i].flagisDL /\ y.missingOn = item[i].missingOn /\ y.availableOn = item[i].availableOn
      BY <2>2 DEF Flags
    <2> HIDE DEF i, y
    <2>5. Storing(cacheChan, cw, dn, i)
      BY <2>2 DEF Storing
    <2>6. \A j \in Items : j # i => (Storing(cacheChan', cw', dn', j) => Storing(cacheChan, cw, dn, j))
      BY <1>1, <2>1, <2>3 DEF Storing
    <2> QED
      BY <1>1, <2>1, <2>2, <2>4, <2>5, <2>6, CwMoves
  <1>3. CASE CwWrite \/ CwFails \/ afterCacheWrite
    <2> DEFINE i == cw.item
    <2>1. /\ i \in Items /\ item[i] \in Flags /\ cacheChan' = cacheChan
          /\ disk' = disk \/ (\E d : disk' = [disk EXCEPT ![i] = d])
      BY <1>1, <1>3 DEF CwWrite, CwFails, afterCacheWrite
    <2>2. cw'.item \in {i, None}
      BY <1>3, <1>1 DEF CwWrite, CwFails, afterCacheWrite, Idle, IInv, RestInv
    <2>3. \E y : /\ Set(i, y) /\ y.flagisDL = item[i].flagisDL
                 /\ y.missingOn = item[i].missingOn /\ y.availableOn = item[i].availableOn
      <3>1. CASE CwWrite
        <4> DEFINE z == [item[i] EXCEPT !.flagCache = TRUE, !.flaginDL = FALSE, !.article = @ /\ allowUp]
        <4>1. Set(i, z)
          BY <3>1 DEF CwWrite
        <4>2. z.flagisDL = item[i].flagisDL /\ z.missingOn = item[i].missingOn /\ z.availableOn = item[i].availableOn
          BY <2>1 DEF Flags
        <4> HIDE DEF z
        <4> QED
          BY <4>1, <4>2
      <3>2. CASE CwFails
        <4>1. Set(i, item[i])
          BY <3>2, <1>1 DEF CwFails, Set
        <4> QED
          BY <4>1
      <3>3. CASE afterCacheWrite
        <4> DEFINE z == [item[i] EXCEPT !.retireWhenCached = FALSE]
        <4>1. z \in Flags /\ z.flagisDL = item[i].flagisDL /\ z.missingOn = item[i].missingOn /\ z.availableOn = item[i].availableOn
          BY <2>1 DEF Flags
        <4>2. Set(i, retireItem(z)) \/ Set(i, item[i])
          BY <3>3 DEF afterCacheWrite
        <4> HIDE DEF z
        <4>3. /\ retireItem(z).flagisDL = z.flagisDL /\ retireItem(z).missingOn = z.missingOn
              /\ retireItem(z).availableOn = z.availableOn
          BY <4>1 DEF retireItem, Flags
        <4> QED
          BY <4>1, <4>2, <4>3
      <3> QED
        BY <3>1, <3>2, <3>3, <1>3
    <2>4. PICK y : /\ Set(i, y) /\ y.flagisDL = item[i].flagisDL
                   /\ y.missingOn = item[i].missingOn /\ y.availableOn = item[i].availableOn
      BY <2>3
    <2>5. Storing(cacheChan, cw, dn, i)
      BY DEF Storing
    <2>6. \A j \in Items : j # i => (Storing(cacheChan', cw', dn', j) => Storing(cacheChan, cw, dn, j))
      BY <1>1, <2>1, <2>2, Parameters DEF Storing
    <2> HIDE DEF i
    <2> QED
      BY <1>1, <2>1, <2>4, <2>5, <2>6, CwMoves
  <1> QED
    BY <1>2, <1>3 DEF CacheWriter

-----------------------------------------------------------------------------
(* The divider, and the rest.                                              *)
QuietWork == UNCHANGED <<dlChan, dn, upChan, up, disk, cacheChan, cw>>

(* Nobody's work changes, and no slot is taken.                            *)
LEMMA QuietSlots ==
  ASSUME IInv, SlotsInv, QuietWork,
         \A j \in Items : SameKind(item[j], item'[j]) /\ (item[j].flaginDL => item'[j].flaginDL)
                            /\ (item'[j].memlocked => item[j].memlocked),
         \A j \in Items : Chosen(pos', j) => Chosen(pos, j) \/ ~Gone(item[j])
  PROVE  SlotsInv'
  <1>1. ASSUME NEW j \in Items
        PROVE  NextSlotInv(j)
    <2>1. /\ dlChan' = dlChan /\ dn' = dn /\ upChan' = upChan /\ up' = up
          /\ disk' = disk /\ cacheChan' = cacheChan /\ cw' = cw
      BY DEF QuietWork
    <2>2. SlotInv(j)
      BY <1>1 DEF SlotsInv
    <2>3. CASE Chosen(pos', j) => Chosen(pos, j)
      BY <2>1, <2>2, <2>3, <1>1, KindKept, Zenon
    <2>4. CASE ~Gone(item[j]) /\ (item[j].flagisDL \/ item[j].flagCache)
      <3>1. /\ item'[j].flagisDL = item[j].flagisDL /\ item'[j].flagCache = item[j].flagCache
            /\ ~Gone(item'[j]) /\ item'[j].availableOn \cap item'[j].missingOn = {}
        <4>1. item[j].availableOn \cap item[j].missingOn = {}
          BY <2>2, Zenon DEF SlotInv, Kind
        <4> QED
          BY <4>1, <1>1, <2>4, SameGone DEF SameKind
      <3> QED
        BY <3>1, <2>1, <2>2, <2>4, <1>1, LiveKept, Zenon DEF Live
    <2>5. CASE ~item[j].flagisDL /\ ~item[j].flagCache
      <3>1. /\ ~item'[j].flagisDL /\ ~item'[j].flagCache /\ (Gone(item'[j]) <=> Gone(item[j]))
            /\ item[j].availableOn \cap item[j].missingOn = {} => item'[j].availableOn \cap item'[j].missingOn = {}
        BY <1>1, <2>5, SameGone, Zenon
      <3> QED
        BY <3>1, <2>1, <2>2, <2>5, <1>1, Zenon DEF SlotInv, NextSlotInv, Kind, NewKind
    <2> QED
      BY <2>3, <2>4, <2>5, <1>1, Zenon
  <1> QED
    BY <1>1, NextSlots, Zenon

(* When the divider goes on to another item or round, it has chosen none.  *)
LEMMA NotChosen ==
  ASSUME IInv, NextItem \/ At("retire") \/ At("quit") \/ At("closed") \/ At("ended") \/ pos' = NewRound
  PROVE  \A j : ~Chosen(pos', j)
  <1>1. pos \in [n : 1..todo + 1, at : {"scan", "retire", "up", "dl", "quit", "closed", "ended"}]
    BY DEF IInv, DividerInv
  <1>2. pos'.at \notin {"up", "dl"}
    BY <1>1 DEF NextItem, At, NewRound
  <1> QED
    BY <1>2 DEF Chosen

(* The divider goes on with no item that every provider misses: it counts  *)
(* it as dead.                                                             *)
LEMMA GoneIsStupid ==
  ASSUME NEW x \in Flags, Gone(x), x.availableOn \cap x.missingOn = {}
  PROVE  IsSegmentStupid(x)
  <1>1. x.availableOn = {}
    BY DEF Flags, Gone
  <1>2. Cardinality(x.availableOn) = 0
    BY <1>1, FS_EmptySet
  <1> QED
    BY <1>2 DEF IsSegmentStupid, Gone

(* The divider's steps at an item that push nothing.                       *)
LEMMA AtItemSlots ==
  ASSUME IInv, SlotsInv, Scan \/ Retire \/ pushUPFails \/ pushUPNoMatch \/ pushDLFails
  PROVE  SlotsInv'
  <1>1. QuietWork
    BY DEF Scan, Retire, pushUPFails, pushUPNoMatch, pushDLFails, divRest, caching, QuietWork
  <1>2. item \in [Items -> Flags] /\ DividerInv
    BY DEF IInv, FlagsInv
  <1>3. pos.at \in {"scan", "retire", "up", "dl"} /\ here \in Items
    <2>1. pos.at \in {"scan", "retire", "up", "dl"} /\ pos.n <= todo /\ pos.n \in 1..todo + 1
      BY <1>2 DEF Scan, Retire, pushUPFails, pushUPNoMatch, pushDLFails, DividerInv
    <2> QED
      BY <2>1, Parameters DEF here
  <1>4. \A j \in Items : Chosen(pos', j) => Chosen(pos, j) \/ ~Gone(item[j])
    <2>1. CASE NextItem \/ At("retire")
      BY <2>1, NotChosen
    <2>2. CASE pushUPNoMatch
      <3>1. pos' = [pos EXCEPT !.at = "dl"] /\ pos.at = "up"
        BY <2>2 DEF pushUPNoMatch, At
      <3>2. pos'.n = pos.n
        BY <3>1, <1>2 DEF DividerInv
      <3> QED
        BY <3>1, <3>2 DEF Chosen
    <2>3. CASE Scan /\ ~NextItem /\ ~At("retire")
      <3>1. ~IsSegmentStupid(item[here]) /\ \E step : At(step)
        BY <2>3 DEF Scan
      <3>2. pos'.n = pos.n
        BY <3>1, <1>2 DEF At, DividerInv
      <3>3. ASSUME NEW j \in Items, Chosen(pos', j)
            PROVE  ~Gone(item[j])
        <4>1. j = here
          BY <3>2, <3>3 DEF Chosen, here
        <4>2. item[j] \in Flags /\ item[j].availableOn \cap item[j].missingOn = {}
          BY <1>2, Zenon DEF SlotsInv, SlotInv, Kind
        <4> QED
          BY <3>1, <4>1, <4>2, GoneIsStupid
      <3> QED
        BY <3>3
    <2> QED
      BY <2>1, <2>2, <2>3, Zenon DEF Retire, pushUPFails, pushDLFails
  <1>5. \E y : /\ Set(here, y) /\ SameKind(item[here], y) /\ (item[here].flaginDL => y.flaginDL)
               /\ (y.memlocked => item[here].memlocked)
    <2> DEFINE x == item[here]
    <2>1. CASE Retire
      <3>1. Set(here, retireItem(x)) /\ x \in Flags
        BY <2>1, <1>2, <1>3 DEF Retire
      <3>2. SameKind(x, retireItem(x)) /\ ~retireItem(x).memlocked /\ retireItem(x).flaginDL = x.flaginDL
        BY <3>1, RetireSame DEF retireItem, Flags
      <3> QED
        BY <3>1, <3>2
    <2>2. CASE item' = item
      <3>1. Set(here, x) /\ SameKind(x, x)
        BY <2>2, <1>2 DEF Set, SameKind
      <3> QED
        BY <3>1
    <2>3. CASE pushDLFails /\ item' # item
      <3> DEFINE y == [x EXCEPT !.ignoreDlOn = @ \cup useless(x)]
      <3>1. Set(here, y) /\ x \in Flags
        BY <2>3, <1>2, <1>3 DEF pushDLFails
      <3>2. SameKind(x, y) /\ y.flaginDL = x.flaginDL /\ y.memlocked = x.memlocked
        BY <3>1, PlainSame DEF Flags
      <3> HIDE DEF y
      <3> QED
        BY <3>1, <3>2
    <2> QED
      BY <2>1, <2>2, <2>3 DEF Scan, pushUPFails, pushUPNoMatch
  <1>6. PICK y : /\ Set(here, y) /\ SameKind(item[here], y) /\ (item[here].flaginDL => y.flaginDL)
                 /\ (y.memlocked => item[here].memlocked)
    BY <1>5
  <1>7. ASSUME NEW j \in Items
        PROVE  SameKind(item[j], item'[j]) /\ (item[j].flaginDL => item'[j].flaginDL)
                 /\ (item'[j].memlocked => item[j].memlocked)
    <2>1. item'[here] = y /\ (j # here => item'[j] = item[j])
      BY <1>2, <1>3, <1>6, <1>7 DEF Set
    <2> QED
      BY <2>1, <1>6 DEF SameKind
  <1> QED
    BY <1>1, <1>4, <1>7, QuietSlots

(* pushUP: a live item, since its article is in memory.                    *)
LEMMA PushUPSlots ==
  ASSUME IInv, SlotsInv, NEW p \in Providers, pushUP(p)
  PROVE  SlotsInv'
  <1> DEFINE i == here
             x == item[i]
             y == [x EXCEPT !.flaginUP = TRUE, !.retryOn = @ \ {p}]
             g == group[p]
  <1>1. /\ pos.at = "up" /\ matchThisUP(x) /\ Set(i, y) /\ NextItem
        /\ UNCHANGED <<dlChan, dn, up, disk, cacheChan, cw>>
        /\ upChan' = [upChan EXCEPT ![g] = Append(@, i)]
    BY DEF pushUP, divRest, caching
  <1>2. i \in Items /\ x \in Flags /\ g \in Groups /\ upChan \in [Groups -> Seq(Items)]
    <2>1. /\ DividerInv /\ item \in [Items -> Flags] /\ upChan \in [Groups -> Seq(Items)]
      BY DEF IInv, FlagsInv, UpInv, WorkInv
    <2>2. pos.n \in 1..todo
      BY <1>1, <2>1, Parameters DEF DividerInv
    <2> QED
      BY <2>1, <2>2, Parameters DEF here
  <1>3. SlotInv(i) /\ Chosen(pos, i)
    BY <1>1, <1>2 DEF SlotsInv, Chosen, here
  <1>4. (x.flagisDL \/ x.flagCache) /\ x.availableOn \cap x.missingOn = {}
    BY <1>1, <1>3, Zenon DEF matchThisUP, SlotInv, Kind
  <1>5. Live(x)
    BY <1>3, <1>4, Zenon DEF SlotInv, Kind, CachedKind, Live
  <1>6. SameKind(x, y) /\ item'[i] = y
    BY <1>1, <1>2, PlainSame, SetItem
  <1>7. \A j : ~Chosen(pos', j)
    BY <1>1, NotChosen
  <1>8. \A j \in Items : j # i => (Queued(upChan', j) => Queued(upChan, j))
    <2>1. \A h \in Groups : h # g => upChan'[h] = upChan[h]
      BY <1>1, <1>2
    <2>2. upChan'[g] = Append(upChan[g], i) /\ upChan[g] \in Seq(Items)
      BY <1>1, <1>2
    <2>3. \A j : j # i /\ j \in Range(upChan'[g]) => j \in Range(upChan[g])
      BY <2>2 DEF Range
    <2> QED
      BY <2>1, <2>3, Zenon DEF Queued
  <1>9. /\ dlChan' = dlChan /\ dn' = dn /\ up' = up /\ disk' = disk /\ cacheChan' = cacheChan /\ cw' = cw
    BY <1>1
  <1> HIDE DEF i, y
  <1>10. \A j \in Items : j # i => SameWork(j)
    BY <1>7, <1>8, <1>9, Zenon DEF SameWork, Uploads
  <1>11. NextSlotInv(i)
    <2>1. /\ y.flagisDL = x.flagisDL /\ y.flagCache = x.flagCache /\ ~Gone(y)
          /\ y.availableOn \cap y.missingOn = {}
      BY <1>4, <1>5, <1>6, SameGone DEF SameKind, Live
    <2> QED
      BY <2>1, <1>2, <1>3, <1>5, <1>6, <1>9, LiveKept, Zenon
  <1> QED
    BY <1>1, <1>2, <1>9, <1>10, <1>11, OthersKept, Zenon

(* An item goes to the end of a channel it is not in.                      *)
LEMMA PushedPlaces ==
  ASSUME NEW chan \in [Groups -> Seq(Items)], NEW g \in Groups, NEW i \in Items,
         NEW chan2, Appended(chan2, chan, g, i)
  PROVE  /\ \A j : j # i => (Queued(chan2, j) => Queued(chan, j))
         /\ \A j, r : j # i /\ Once(chan, r, j) => Once(chan2, r, j)
         /\ \A r : ~Queued(chan, i) /\ ~Has(r, i, DnWaits) => Once(chan2, r, i)
  <1>1. /\ \A h \in Groups : chan[h] \in Seq(Items) /\ Len(chan[h]) \in Nat /\ DOMAIN chan[h] = 1..Len(chan[h])
        /\ chan2[g] = Append(chan[g], i) /\ \A h \in Groups : h # g => chan2[h] = chan[h]
    BY DEF Appended
  <1>2. ASSUME NEW h \in Groups, NEW k \in 1..Len(chan2[h])
        PROVE  \/ k \in 1..Len(chan[h]) /\ chan2[h][k] = chan[h][k]
               \/ h = g /\ k = Len(chan[g]) + 1 /\ chan2[h][k] = i
    <2>1. CASE h = g
      BY <2>1, <1>1, <1>2
    <2>2. CASE h # g
      BY <2>2, <1>1, <1>2
    <2> QED
      BY <2>1, <2>2
  <1>3. \A h \in Groups : DOMAIN chan2[h] = 1..Len(chan2[h])
    <2> TAKE h \in Groups
    <2>1. CASE h = g
      BY <2>1, <1>1
    <2>2. CASE h # g
      BY <2>2, <1>1
    <2> QED
      BY <2>1, <2>2
  <1>4. \A h \in Groups : \A k \in 1..Len(chan[h]) : Queued(chan, chan[h][k])
    BY <1>1 DEF Queued, Range
  <1>5. ASSUME NEW j, j # i, Queued(chan2, j)
        PROVE  Queued(chan, j)
    <2>1. PICK h \in Groups : \E k \in 1..Len(chan2[h]) : chan2[h][k] = j
      BY <1>3, <1>5 DEF Queued, Range
    <2> QED
      BY <2>1, <1>2, <1>4, <1>5
  <1>6. ASSUME NEW j, NEW r, j # i, Once(chan, r, j)
        PROVE  Once(chan2, r, j)
    <2>1. ASSUME NEW h \in Groups, NEW f \in Groups, NEW k \in 1..Len(chan2[h]), NEW l \in 1..Len(chan2[f]),
                 chan2[h][k] = j, chan2[f][l] = j
          PROVE  h = f /\ k = l
      <3>1. /\ k \in 1..Len(chan[h]) /\ chan[h][k] = j
            /\ l \in 1..Len(chan[f]) /\ chan[f][l] = j
        BY <1>2, <1>6, <2>1
      <3> QED
        BY <3>1, <1>6, Zenon DEF Once
    <2> QED
      BY <2>1, <1>5, <1>6, Zenon DEF Once
  <1>7. ASSUME NEW r, ~Queued(chan, i), ~Has(r, i, DnWaits)
        PROVE  Once(chan2, r, i)
    <2>1. ASSUME NEW h \in Groups, NEW f \in Groups, NEW k \in 1..Len(chan2[h]), NEW l \in 1..Len(chan2[f]),
                 chan2[h][k] = i, chan2[f][l] = i
          PROVE  h = f /\ k = l
      <3>1. h = g /\ k = Len(chan[g]) + 1 /\ f = g /\ l = Len(chan[g]) + 1
        BY <1>2, <1>4, <1>7, <2>1
      <3> QED
        BY <3>1
    <2>2. \A q, s \in Providers :
            r[q].item = i /\ r[s].item = i /\ r[q].pc \in DnWaits /\ r[s].pc \in DnWaits => q = s
      BY <1>7, Zenon DEF Has
    <2> QED
      BY <2>1, <2>2, <1>7, Zenon DEF Once
  <1> QED
    BY <1>5, <1>6, <1>7, Zenon

(* pushDL: the item waits for nobody yet, and has a source.                *)
LEMMA PushDLSlots ==
  ASSUME IInv, SlotsInv, NEW p \in Providers, pushDL(p)
  PROVE  SlotsInv'
  <1> DEFINE i == here
             x == item[i]
             g == group[p]
             fits == Len(dlChan[g]) < ChanSize
             z(seen) == [x EXCEPT !.ignoreDlOn = @ \cup seen, !.flaginDL = fits]
  <1>1. /\ pos.at = "dl" /\ matchThisDL(x) /\ NextItem /\ p \in sources(x)
        /\ UNCHANGED <<upChan, dn, up, disk, cacheChan, cw>>
        /\ \/ fits /\ Appended(dlChan', dlChan, g, i)
           \/ dlChan' = dlChan /\ ~fits
    BY DEF pushDL, divRest, caching, Appended
  <1>2. i \in Items /\ x \in Flags /\ g \in Groups /\ dlChan \in [Groups -> Seq(Items)]
    <2>1. /\ DividerInv /\ item \in [Items -> Flags] /\ dlChan \in [Groups -> Seq(Items)]
      BY DEF IInv, FlagsInv, DlInv, WorkInv
    <2>2. pos.n \in 1..todo
      BY <1>1, <2>1, Parameters DEF DividerInv
    <2> QED
      BY <2>1, <2>2, Parameters DEF here
  <1>3. SlotInv(i) /\ x.availableOn \cap x.missingOn = {} /\ ~Gone(x)
    <2>1. SlotInv(i) /\ x.availableOn \cap x.missingOn = {}
      BY <1>2, Zenon DEF SlotsInv, SlotInv, Kind
    <2> QED
      BY <1>1, <2>1 DEF sources, Gone
  <1>4. PICK y : /\ Set(i, y) /\ SameKind(x, y) /\ y.flaginDL = fits /\ y.memlocked = x.memlocked
    <2>1. PICK seen \in SUBSET useless(x) : Set(i, z(seen))
      BY DEF pushDL
    <2>2. \A S : \A b \in BOOLEAN :
            LET y == [x EXCEPT !.ignoreDlOn = @ \cup S, !.flaginDL = b]
            IN SameKind(x, y) /\ y.flaginDL = b /\ y.memlocked = x.memlocked
      BY <1>2 DEF SameKind, Flags
    <2>3. fits \in BOOLEAN
      OBVIOUS
    <2> HIDE DEF fits
    <2> QED
      BY <2>1, <2>2, <2>3, Zenon
  <1>5. \A j : ~Chosen(pos', j)
    BY <1>1, NotChosen
  <1>6. /\ dn' = dn /\ upChan' = upChan /\ up' = up /\ disk' = disk /\ cacheChan' = cacheChan /\ cw' = cw
    BY <1>1
  <1>7. item'[i] = y
    BY <1>2, <1>4, SetItem
  <1> HIDE DEF i, fits, z, g
  <1>8. /\ \A j : j # i => (Queued(dlChan', j) => Queued(dlChan, j))
        /\ \A j, r : j # i /\ Once(dlChan, r, j) => Once(dlChan', r, j)
        /\ \A r : fits /\ ~Queued(dlChan, i) /\ ~Has(r, i, DnWaits) => Once(dlChan', r, i)
    <2>1. CASE fits /\ Appended(dlChan', dlChan, g, i)
      BY <2>1, <1>2, PushedPlaces, Zenon
    <2>2. CASE dlChan' = dlChan /\ ~fits
      BY <2>2, Zenon
    <2> QED
      BY <2>1, <2>2, <1>1
  <1>9. \A j \in Items : j # i => SameWork(j)
    BY <1>5, <1>6, <1>8, Zenon DEF SameWork, Waits
  <1>10. /\ y.flagisDL = x.flagisDL /\ y.flagCache = x.flagCache /\ ~Gone(y)
         /\ y.availableOn \cap y.missingOn = {} /\ ~x.flagisDL
    BY <1>1, <1>3, <1>4, SameGone DEF SameKind, matchThisDL
  <1>11. NextSlotInv(i)
    <2>1. CASE x.flagCache
      BY <2>1, <1>2, <1>3, <1>6, <1>7, <1>10, LiveKept, Zenon DEF Live
    <2>2. CASE ~x.flagCache
      <3>1. NewKind(x, disk[i], Waits(dlChan, dn, DnWaits, i), Once(dlChan, dn, i), Uploads(upChan, up, i),
                    Has(dn, i, Answered), Has(dn, i, {"fail"}))
        BY <2>2, <1>3, <1>10, Zenon DEF SlotInv, Kind
      <3>2. ~x.flaginDL
        BY <1>1 DEF matchThisDL
      <3>3. ~Queued(dlChan, i) /\ ~Has(dn, i, DnWaits) /\ Once(dlChan, dn, i)
        BY <3>1, <3>2, Zenon DEF NewKind, Waits, Has
      <3>4. Once(dlChan', dn', i) /\ (~fits => ~Waits(dlChan', dn', DnWaits, i))
        BY <3>3, <1>1, <1>6, <1>8, Zenon DEF Waits, Has
      <3>5. ~fits => ~Waits(dlChan', dn', DnWaits, i)
        BY <3>4
      <3>6. NewKind(y, disk'[i], Waits(dlChan', dn', DnWaits, i), Once(dlChan', dn', i), Uploads(upChan', up', i),
                    Has(dn', i, Answered), Has(dn', i, {"fail"}))
        BY <3>1, <3>4, <1>4, <1>6, <1>10, Zenon DEF NewKind
      <3>7. ~Storing(cacheChan', cw', dn', i)
        BY <1>3, <1>6, <1>10, Zenon DEF SlotInv, Kind
      <3> QED
        BY <2>2, <3>6, <3>7, <1>7, <1>10, Zenon DEF NextSlotInv, Kind
    <2> QED
      BY <2>1, <2>2
  <1> QED
    BY <1>2, <1>4, <1>6, <1>9, <1>11, OthersKept, Zenon

(* The ends of a round choose no item.                                     *)
LEMMA RoundsSlots ==
  ASSUME IInv, SlotsInv, Rounds \/ StopRoutines
  PROVE  SlotsInv'
  <1>1. QuietWork /\ item' = item
    BY DEF Rounds, RoundBusy, RoundQuits, RoundCloses, RoundUnresolved, DividerStops, NoProgress,
           StopRoutines, roundRest, dlWork, upWork, caching, QuietWork
  <1>2. At("quit") \/ At("closed") \/ pos' = NewRound
    BY DEF Rounds, RoundBusy, RoundQuits, RoundCloses, RoundUnresolved, DividerStops, NoProgress,
           StopRoutines, Quit, Again
  <1>3. \A j : ~Chosen(pos', j)
    BY <1>2, NotChosen
  <1>4. \A j \in Items : SameKind(item[j], item'[j]) /\ (item[j].flaginDL => item'[j].flaginDL)
                           /\ (item'[j].memlocked => item[j].memlocked)
    BY <1>1 DEF SameKind
  <1> QED
    BY <1>1, <1>3, <1>4, QuietSlots

(* The end of the session gives slots back, it takes none.                 *)
LEMMA ReleaseSlots ==
  ASSUME IInv, SlotsInv, releaseMemSlots
  PROVE  SlotsInv'
  <1>1. QuietWork /\ At("ended") /\ item' = [i \in Items |-> MemReturn(item[i])]
    BY DEF releaseMemSlots, dlWork, upWork, caching, QuietWork
  <1>2. \A j : ~Chosen(pos', j)
    BY <1>1, NotChosen
  <1>3. ASSUME NEW j \in Items
        PROVE  SameKind(item[j], item'[j]) /\ (item[j].flaginDL => item'[j].flaginDL)
                 /\ (item'[j].memlocked => item[j].memlocked)
    <2>1. item[j] \in Flags /\ item'[j] = MemReturn(item[j])
      BY <1>1, <1>3 DEF IInv, FlagsInv
    <2>2. MemReturn(item[j]).flaginDL = item[j].flaginDL
      BY <2>1 DEF MemReturn, Flags
    <2> QED
      BY <2>1, <2>2, RetireSame
  <1> QED
    BY <1>1, <1>2, <1>3, QuietSlots

(* A stop from outside, time that passes, or nothing at all.               *)
LEMMA OutsideSlots ==
  ASSUME IInv, SlotsInv, Stop \/ (\E i \in Items : RetryElapsed(i)) \/ UNCHANGED vars
  PROVE  SlotsInv'
  <1>1. QuietWork /\ pos' = pos
    BY DEF Stop, RetryElapsed, vars, dlWork, upWork, caching, divider, QuietWork
  <1>2. \A j \in Items : SameKind(item[j], item'[j]) /\ (item[j].flaginDL => item'[j].flaginDL)
                           /\ (item'[j].memlocked => item[j].memlocked)
    <2>1. CASE item' = item
      BY <2>1 DEF SameKind
    <2>2. ASSUME NEW i \in Items, RetryElapsed(i), NEW j \in Items
          PROVE  SameKind(item[j], item'[j]) /\ (item[j].flaginDL => item'[j].flaginDL)
                   /\ (item'[j].memlocked => item[j].memlocked)
      <3>1. item \in [Items -> Flags] /\ Set(i, [item[i] EXCEPT !.inRetry = FALSE])
        BY <2>2 DEF RetryElapsed, IInv, FlagsInv
      <3>2. /\ SameKind(item[i], [item[i] EXCEPT !.inRetry = FALSE])
            /\ [item[i] EXCEPT !.inRetry = FALSE].flaginDL = item[i].flaginDL
            /\ [item[i] EXCEPT !.inRetry = FALSE].memlocked = item[i].memlocked
        BY <3>1, PlainSame DEF Flags
      <3>3. CASE j = i
        BY <3>1, <3>2, <3>3, SetItem
      <3>4. CASE j # i
        <4>1. item'[j] = item[j]
          BY <3>1, <3>4 DEF Set
        <4> QED
          BY <4>1 DEF SameKind
      <3> QED
        BY <3>3, <3>4
    <2> QED
      BY <2>1, <2>2 DEF Stop, vars
  <1>3. \A j \in Items : Chosen(pos', j) => Chosen(pos, j) \/ ~Gone(item[j])
    BY <1>1
  <1> QED
    BY <1>1, <1>2, <1>3, QuietSlots

(* A session begins with nothing held, queued or chosen, and the checks    *)
(* found an item available or missing on a provider, never both.           *)
LEMMA InitSlots == Init => SlotsInv
  <1> SUFFICES ASSUME Init, NEW i \in Items PROVE SlotInv(i)
    BY DEF SlotsInv
  <1>1. /\ \A g \in Groups : dlChan[g] = <<>> /\ upChan[g] = <<>>
        /\ \A p \in Providers : dn[p] = Idle /\ up[p] = Idle
        /\ cacheChan = <<>> /\ cw = Idle /\ pos.at = "scan"
        /\ disk[i] = "ok" => cacheON
    BY DEF Init, NewRound
  <1>2. /\ \A j : ~Queued(dlChan, j) /\ ~Queued(upChan, j) /\ j \notin Range(cacheChan)
    BY <1>1 DEF Queued, Range
  <1>3. \A p \in Providers : dn[p].item # i /\ up[p].item # i /\ cw.item # i
    BY <1>1, Parameters DEF Idle
  <1>4. cw.item # i
    BY <1>1, Parameters DEF Idle
  <1>5. /\ ~Waits(dlChan, dn, DnWaits, i) /\ Once(dlChan, dn, i) /\ ~Uploads(upChan, up, i)
        /\ ~Has(dn, i, Answered) /\ ~Has(dn, i, {"fail"}) /\ ~Storing(cacheChan, cw, dn, i)
        /\ ~Chosen(pos, i)
    <2>1. Once(dlChan, dn, i)
      <3>1. \A g \in Groups : \A k \in 1..Len(dlChan[g]) : FALSE
        BY <1>1
      <3> QED
        BY <3>1, <1>2, <1>3, Zenon DEF Once
    <2>2. ~Chosen(pos, i)
      BY <1>1 DEF Chosen
    <2> QED
      BY <2>1, <2>2, <1>2, <1>3, <1>4, Zenon DEF Waits, Uploads, Has, Storing
  <1>6. /\ item[i].availableOn \cap item[i].missingOn = {} /\ ~item[i].flagisDL /\ ~item[i].memlocked
        /\ item[i].flagCache <=> disk[i] = "ok"
    <2>1. PICK code \in [Items -> Checked], by \in {f \in [Groups -> Providers] : \A g \in Groups : group[f[g]] = g} :
            item = [j \in Items |-> [CheckResult(code[j], by) EXCEPT !.flagCache = (disk[j] = "ok")]]
      BY DEF Init
    <2> DEFINE c == CheckResult(code[i], by)
    <2>2. c.availableOn \cap c.missingOn = {} /\ ~c.flagisDL /\ ~c.memlocked
      BY DEF CheckResult
    <2>3. /\ item[i].availableOn = c.availableOn /\ item[i].missingOn = c.missingOn
          /\ item[i].flagisDL = c.flagisDL /\ item[i].memlocked = c.memlocked
          /\ item[i].flagCache = (disk[i] = "ok")
      BY <2>1 DEF CheckResult
    <2> QED
      BY <2>2, <2>3
  <1> QED
    BY <1>1, <1>5, <1>6, Zenon DEF SlotInv, Kind, CachedKind, NewKind

(* Every step keeps the slots of dead items free.                          *)
LEMMA StepSlots == IInv /\ SlotsInv /\ [Next]_vars => SlotsInv'
  <1> SUFFICES ASSUME IInv, SlotsInv, [Next]_vars PROVE SlotsInv'
    OBVIOUS
  <1>1. ASSUME NEW p \in Providers, Downs(p)
        PROVE  SlotsInv'
    <2>1. ASSUME NEW code \in Replies, DnRefused(p, code)
          PROVE  SlotsInv'
      BY <2>1, DnRefusedSlots
    <2> QED
      BY <1>1, <2>1, DnTakeSlots, DnLockSlots, DnErrorSlots, DnCacheReadSlots, DnArticleSlots,
         DnAnsweredSlots, DnFailSlots, Zenon DEF Downs
  <1>2. ASSUME NEW p \in Providers, Reups(p)
        PROVE  SlotsInv'
    BY <1>2, UpTakeSlots, ReupsSlots
  <1>3. CASE CacheWriter
    BY <1>3, CacheWriterSlots
  <1>4. CASE Divider \/ NoProgress
    <2>1. ASSUME NEW p \in Providers, pushUP(p) \/ pushDL(p)
          PROVE  SlotsInv'
      BY <2>1, PushUPSlots, PushDLSlots
    <2>2. CASE Scan \/ Retire \/ pushUPFails \/ pushUPNoMatch \/ pushDLFails
      BY <2>2, AtItemSlots
    <2>3. CASE Rounds
      BY <2>3, RoundsSlots
    <2> QED
      BY <1>4, <2>1, <2>2, <2>3, Zenon DEF Divider, Rounds
  <1>5. CASE Teardown
    BY <1>5, RoundsSlots, ReleaseSlots DEF Teardown
  <1>6. CASE Stop \/ (\E i \in Items : RetryElapsed(i)) \/ UNCHANGED vars
    BY <1>6, OutsideSlots
  <1> QED
    BY <1>1, <1>2, <1>3, <1>4, <1>5, <1>6, Zenon DEF Next

(* An item that every provider misses holds no slot once nobody works on   *)
(* it: the divider skips it, so nobody would give the slot back but the    *)
(* routine whose download found it missing, and that one does (GoWorker,   *)
(* MemRetOnERR); an item that was downloaded or comes from the cache is    *)
(* never found missing everywhere while it holds one.                      *)
THEOREM DeadNeverHoldsSlot == Spec => []DeadHoldsNoSlot
  <1>1. Spec => [](IInv /\ SlotsInv)
    BY InitIInv, StepIInv, InitSlots, StepSlots, PTL DEF Spec
  <1> QED
    BY <1>1, SlotsDead, PTL
=============================================================================
