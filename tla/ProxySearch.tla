----------------------------- MODULE ProxySearch -----------------------------
(***************************************************************************)
(* The commands of the proxy's logged-in clients (Server.go 376-564,       *)
(* Proxy.go 271-617) and the negative cache they share (ProxyHelper.go     *)
(* 185-232). A command walks the provider list, takes a connection of a    *)
(* provider's pool, parks or closes it again, and writes one reply to its  *)
(* client. A session is used by its own goroutine only; what two of them   *)
(* share is the negative cache and the pools (GetConn is in ConnPool.tla). *)
(*                                                                         *)
(* An article is a key: 0 stands for a message-ID, n > 0 for number n of   *)
(* the one newsgroup. All the providers of a group hold the same articles. *)
(* ARTICLE stands for BODY and HEAD, NEXT for LAST, OVER also for an HDR   *)
(* of a range, and HDR for that of a message-ID. Commands that neither ask *)
(* a provider nor change the session (DATE, MODE, ...) are left out.       *)
(***************************************************************************)
EXTENDS Integers, FiniteSets, Sequences, FiniteSetsExt

CONSTANTS Sessions,
          providerList,  \* Seq of [group, NoDownload, Newsreader]
          Commands,      \* what a session's client may send
          MaxNum,        \* the newsgroup's article numbers are 1..MaxNum
          Held,          \* <<group, key>>: there all the time
          Late,          \* <<group, key>>: posted while we look
          negCacheMax, negCacheTTL,  \* the time to live in ticks of the clock
          MaxTicks, MaxCommands      \* bounds of the model

Kinds == {"ARTICLE", "STAT", "GROUP", "LIST", "OVER", "HDR", "NEXT"}
Providers == DOMAIN providerList
Groups == {providerList[p].group : p \in Providers}
Keys == 0..MaxNum
Places == Groups \X Keys
None == 0  \* no provider

ASSUME SearchAssumption ==
  /\ IsFiniteSet(Sessions)
  /\ providerList \in Seq([group : Groups, NoDownload : BOOLEAN, Newsreader : BOOLEAN])
  /\ Commands \in [Sessions -> SUBSET Kinds]
  /\ Held \subseteq Places /\ Late \subseteq Places /\ Held \cap Late = {}
  /\ {MaxNum, negCacheTTL, negCacheMax} \subseteq Nat \ {0}
  /\ MaxTicks \in Nat /\ MaxCommands \in [Sessions -> Nat]

VARIABLES phase,     \* where a session's goroutine is
          cmd, key,  \* the command it handles, and the article of an article command
          at,        \* the provider its loop is at
          upstream,  \* the provider whose connection it holds
          checked,   \* its checkedProviderGroups
          response,  \* what it answers when no provider serves the command
          replies,   \* the replies this command got
          owed,      \* the groups that must not be missed: see Owed
          Group, MsgNum, selectedProvider,  \* the session's newsreader state
          out,       \* connections of a provider's pool that are handed out
          negCache,  \* an entry's ticks to live; -1: no entry
          n,         \* the entries counted
          age,       \* ticks since a late article was posted; -1: not yet
          ticks, commands

request == <<cmd, key>>
reader == <<Group, MsgNum, selectedProvider>>
cache == <<negCache, n>>
clock == <<age, ticks>>
vars == <<phase, request, at, upstream, checked, response, replies, owed, reader,
          out, cache, clock, commands>>

TypeOK ==
  /\ phase \in [Sessions -> {"idle", "next", "group", "cmd", "move", "write", "closed"}]
  /\ cmd \in [Sessions -> Kinds \cup {"none"}] /\ key \in [Sessions -> Keys]
  /\ at \in [Sessions -> 1..Len(providerList) + 1]
  /\ upstream \in [Sessions -> Providers \cup {None}]
  /\ checked \in [Sessions -> SUBSET Groups] /\ owed \in [Sessions -> SUBSET Groups]
  /\ response \in [Sessions -> {"", "ok", "notFound", "code"}]
  /\ replies \in [Sessions -> 0..1]
  /\ Group \in [Sessions -> BOOLEAN] /\ MsgNum \in [Sessions -> Keys]
  /\ selectedProvider \in [Sessions -> Providers \cup {None}]
  /\ out \in [Providers -> 0..Cardinality(Sessions)]
  /\ negCache \in [Places -> -1..negCacheTTL] /\ n \in 0..negCacheMax
  /\ age \in [Late -> -1..negCacheTTL]
  /\ ticks \in 0..MaxTicks /\ DOMAIN commands = Sessions
  /\ \A s \in Sessions : commands[s] \in 0..MaxCommands[s]

Init ==
  /\ phase = [s \in Sessions |-> "idle"]
  /\ cmd = [s \in Sessions |-> "none"] /\ key = [s \in Sessions |-> 0]
  /\ at = [s \in Sessions |-> 1] /\ upstream = [s \in Sessions |-> None]
  /\ checked = [s \in Sessions |-> {}] /\ owed = [s \in Sessions |-> {}]
  /\ response = [s \in Sessions |-> ""] /\ replies = [s \in Sessions |-> 0]
  /\ Group = [s \in Sessions |-> FALSE] /\ MsgNum = [s \in Sessions |-> 0]
  /\ selectedProvider = [s \in Sessions |-> None]
  /\ out = [p \in Providers |-> 0]
  /\ negCache = [l \in Places |-> -1] /\ n = 0
  /\ age = [l \in Late |-> -1] /\ ticks = 0 /\ commands = [s \in Sessions |-> 0]

Set(f, s, v) == [f EXCEPT ![s] = v]
To(s, ph) == phase' = Set(phase, s, ph)

IsArticle(s) == cmd[s] \in {"ARTICLE", "STAT"}
byNumber(s) == IsArticle(s) /\ key[s] > 0
groupOf(p) == providerList[p].group
Has(g, k) == <<g, k>> \in Held \/ (<<g, k>> \in Late /\ age[<<g, k>>] >= 0)

(***************************************************************************)
(* The negative cache                                                      *)
(***************************************************************************)
IsArticleNotFoundAtProviderGroup(k, g) == negCache[<<g, k>>] > 0

(* A full cache takes no new entry, but an entry it has is refreshed. *)
SetArticleNotFoundAtProviderGroup(k, g) ==
  IF negCache[<<g, k>>] = -1 /\ n >= negCacheMax THEN UNCHANGED cache
  ELSE /\ negCache' = Set(negCache, <<g, k>>, negCacheTTL)
       /\ n' = IF negCache[<<g, k>>] = -1 THEN n + 1 ELSE n

purgeNegCache ==
  LET expired == {l \in Places : negCache[l] = 0} IN
  /\ expired # {}
  /\ negCache' = [l \in Places |-> IF l \in expired THEN -1 ELSE negCache[l]]
  /\ n' = n - Cardinality(expired)
  /\ UNCHANGED <<phase, request, at, upstream, checked, response, replies, owed,
                 reader, out, clock, commands>>

(* Mutant: an entry lives until the janitor finds the cache full. *)
Tick_EntriesStay ==
  /\ ticks < MaxTicks /\ ticks' = ticks + 1
  /\ age' = [l \in Late |-> IF age[l] < 0 THEN -1 ELSE Min({age[l] + 1, negCacheTTL})]
  /\ UNCHANGED <<phase, request, at, upstream, checked, response, replies, owed,
                 reader, out, cache, commands>>

(* Time passes: entries run out, articles get older. *)
Tick ==
  /\ ticks < MaxTicks /\ ticks' = ticks + 1
  /\ negCache' = [l \in Places |-> IF negCache[l] > 0 THEN negCache[l] - 1 ELSE negCache[l]]
  /\ age' = [l \in Late |-> IF age[l] < 0 THEN -1 ELSE Min({age[l] + 1, negCacheTTL})]
  /\ UNCHANGED <<phase, request, at, upstream, checked, response, replies, owed,
                 reader, out, n, commands>>

(* External: somebody posts the article, and it reaches the group's servers. *)
Post(l) ==
  /\ age[l] = -1 /\ age' = Set(age, l, 0)
  /\ UNCHANGED <<phase, request, at, upstream, checked, response, replies, owed,
                 reader, out, cache, ticks, commands>>

(***************************************************************************)
(* The pieces of a handler. Every one of them ends what it does with the   *)
(* upstream connection before the client is written to.                    *)
(***************************************************************************)
Park(s) == out' = Set(out, upstream[s], out[upstream[s]] - 1) /\ upstream' = Set(upstream, s, None)
Close(s) == Park(s)  \* for the pool's count of what is handed out it is the same

Answer(s, r) ==
  /\ response' = Set(response, s, r) /\ replies' = Set(replies, s, replies[s] + 1)
  /\ To(s, "write") /\ UNCHANGED at

Continue(s, r) ==
  /\ response' = Set(response, s, r) /\ at' = Set(at, s, at[s] + 1)
  /\ To(s, "next") /\ UNCHANGED replies

(* The provider did not get to say whether it has the article. *)
Excuse(s) == owed' = Set(owed, s, owed[s] \ {groupOf(at[s])})
Checked(s) == checked' = Set(checked, s, checked[s] \cup {groupOf(at[s])})

Idle(s, c) ==
  /\ phase[s] = "idle" /\ c \in Commands[s] /\ commands[s] < MaxCommands[s]
  /\ commands' = Set(commands, s, commands[s] + 1)

(* The article may be asked for at this provider. *)
MayAsk(p, k) == ~providerList[p].NoDownload /\ (k > 0 => providerList[p].Newsreader)

(* The groups that have had the article longer than a miss is remembered:  *)
(* one of them must serve it, unless it fails.                             *)
Owed(k) ==
  {g \in Groups : /\ \E p \in Providers : groupOf(p) = g /\ MayAsk(p, k)
                  /\ \/ <<g, k>> \in Held
                     \/ <<g, k>> \in Late /\ age[<<g, k>>] = negCacheTTL}

Begin(s, c, k) ==
  /\ Idle(s, c)
  /\ cmd' = Set(cmd, s, c) /\ key' = Set(key, s, k)
  /\ at' = Set(at, s, 1) /\ response' = Set(response, s, "") /\ replies' = Set(replies, s, 0)
  /\ checked' = Set(checked, s, {})
  /\ owed' = Set(owed, s, IF c \in {"ARTICLE", "STAT"} THEN Owed(k) ELSE {})
  /\ To(s, "next")
  /\ UNCHANGED <<upstream, reader, out, cache, clock>>

(* handleArticleCommand: by message-ID, or by a number of the selected group. *)
ArticleCommand(s) ==
  \E c \in {"ARTICLE", "STAT"}, k \in Keys : (k > 0 => Group[s]) /\ Begin(s, c, k)

ReaderCommand(s) ==
  \E c \in Kinds \ {"ARTICLE", "STAT"} :
    /\ c \in {"OVER", "NEXT"} => Group[s]  \* a range or the current article
    /\ c = "NEXT" => MsgNum[s] > 0
    /\ Begin(s, c, 0)

(* 412, 420: no newsgroup is selected, or it has no current article. *)
RefusedCommand(s) ==
  \E c \in Kinds \ {"GROUP", "LIST", "HDR"} :
    /\ Idle(s, c) /\ (~Group[s] \/ MsgNum[s] = 0)
    /\ cmd' = Set(cmd, s, c) /\ key' = Set(key, s, 0)
    /\ response' = Set(response, s, "code") /\ replies' = Set(replies, s, 1)
    /\ To(s, "write")
    /\ UNCHANGED <<at, upstream, checked, owed, reader, out, cache, clock>>

(***************************************************************************)
(* The loop over the providers                                             *)
(***************************************************************************)
(* readerProviders: the selected provider only, once there is one. GROUP   *)
(* asks every newsreader provider.                                         *)
IsReader(s, p) ==
  /\ ~providerList[p].NoDownload /\ providerList[p].Newsreader
  /\ cmd[s] = "GROUP" \/ selectedProvider[s] \in {None, p}

(* Known not to serve the article. *)
Misses(s, p) ==
  \/ ~MayAsk(p, key[s])
  \/ groupOf(p) \in checked[s]
  \/ IsArticleNotFoundAtProviderGroup(key[s], groupOf(p))

AtProvider(s) == phase[s] = "next" /\ at[s] \in Providers

SkipProvider(s) ==
  /\ AtProvider(s)
  /\ \/ IsArticle(s) /\ Misses(s, at[s]) /\ Continue(s, "notFound")
     \/ ~IsArticle(s) /\ ~IsReader(s, at[s]) /\ Continue(s, response[s])
  /\ UNCHANGED <<request, upstream, checked, owed, reader, out, cache, clock, commands>>

TryProvider(s) ==
  /\ AtProvider(s)
  /\ IF IsArticle(s) THEN ~Misses(s, at[s]) ELSE IsReader(s, at[s])

GetConnOK(s) ==
  /\ TryProvider(s)
  /\ out' = Set(out, at[s], out[at[s]] + 1) /\ upstream' = Set(upstream, s, at[s])
  /\ To(s, IF byNumber(s) \/ cmd[s] \in {"OVER", "NEXT"} THEN "group" ELSE "cmd")
  /\ UNCHANGED <<request, at, checked, response, replies, owed, reader, cache, clock, commands>>

GetConnFailed(s) ==
  /\ TryProvider(s)
  /\ Excuse(s) /\ Continue(s, response[s])
  /\ UNCHANGED <<request, upstream, checked, reader, out, cache, clock, commands>>

(* Mutant: a broken connection is tried again at the same provider. *)
Broken_TriesAgain(s) ==
  /\ phase[s] \in {"group", "cmd", "move"}
  /\ Close(s) /\ Excuse(s) /\ To(s, "next") /\ UNCHANGED <<at, response, replies>>
  /\ UNCHANGED <<request, checked, reader, cache, clock, commands>>

Exhausted(s) ==
  /\ phase[s] = "next" /\ at[s] \notin Providers
  /\ IF IsArticle(s)
     THEN /\ Answer(s, IF response[s] = "" THEN "code" ELSE response[s])  \* "503 No provider"
          /\ UNCHANGED selectedProvider
     ELSE Answer(s, "code") /\ selectedProvider' = Set(selectedProvider, s, None)
  /\ UNCHANGED <<request, upstream, checked, owed, Group, MsgNum, out, cache, clock, commands>>

(***************************************************************************)
(* The upstream's answers                                                  *)
(***************************************************************************)
(* Mutant: the dead connection is just forgotten. *)
Broken_Forgotten(s) ==
  /\ phase[s] \in {"group", "cmd", "move"}
  /\ upstream' = Set(upstream, s, None) /\ UNCHANGED out
  /\ Excuse(s) /\ Continue(s, response[s])
  /\ UNCHANGED <<request, checked, reader, cache, clock, commands>>

(* Nothing was read, or the article was not read to its end. *)
Broken(s) ==
  /\ phase[s] \in {"group", "cmd", "move"}
  /\ Close(s) /\ Excuse(s) /\ Continue(s, response[s])
  /\ UNCHANGED <<request, checked, reader, cache, clock, commands>>

GroupSelected(s) ==
  /\ phase[s] = "group" /\ To(s, "cmd")
  /\ UNCHANGED <<request, at, upstream, checked, response, replies, owed, reader,
                 out, cache, clock, commands>>

(* An article command tries the next provider, the others (selectGroup)    *)
(* pass the answer on.                                                     *)
GroupRefused(s) ==
  /\ phase[s] = "group" /\ Park(s) /\ Excuse(s)
  /\ IF byNumber(s) THEN Continue(s, "code") ELSE Answer(s, "code")
  /\ UNCHANGED <<request, checked, reader, cache, clock, commands>>

(* 220-223: parked before the client is written to. STAT moves the current *)
(* article here, the others when the client has got the article.           *)
ArticleFound(s) ==
  /\ phase[s] = "cmd" /\ IsArticle(s) /\ Has(groupOf(at[s]), key[s])
  /\ Park(s) /\ Answer(s, "ok")
  /\ MsgNum' = Set(MsgNum, s, IF cmd[s] = "STAT" /\ byNumber(s) THEN key[s] ELSE MsgNum[s])
  /\ UNCHANGED <<request, checked, owed, Group, selectedProvider, cache, clock, commands>>

(* 423, 430, 451 *)
ArticleMissing(s) ==
  /\ phase[s] = "cmd" /\ IsArticle(s) /\ ~Has(groupOf(at[s]), key[s])
  /\ Park(s) /\ Checked(s)
  /\ SetArticleNotFoundAtProviderGroup(key[s], groupOf(at[s]))
  /\ Continue(s, "notFound")
  /\ UNCHANGED <<request, owed, reader, clock, commands>>

(* 99932: read in full, but its yEnc check failed. *)
ArticleDamaged(s) ==
  /\ phase[s] = "cmd" /\ cmd[s] = "ARTICLE" /\ Has(groupOf(at[s]), key[s])
  /\ Park(s) /\ Checked(s) /\ Excuse(s)
  /\ Continue(s, "notFound")
  /\ UNCHANGED <<request, reader, cache, clock, commands>>

(* Any other code is kept as the answer, and the next provider is asked. *)
ArticleOther(s) ==
  /\ phase[s] = "cmd" /\ IsArticle(s)
  /\ Park(s) /\ Excuse(s) /\ Continue(s, "code")
  /\ UNCHANGED <<request, checked, reader, cache, clock, commands>>

(* handleGroupCommand: the newsgroup has its first article, or is empty. *)
GroupFound(s) ==
  /\ phase[s] = "cmd" /\ cmd[s] = "GROUP" /\ Park(s)
  /\ selectedProvider' = Set(selectedProvider, s, at[s])
  /\ Group' = Set(Group, s, TRUE)
  /\ \E first \in {0, 1} : MsgNum' = Set(MsgNum, s, first)
  /\ Answer(s, "ok")
  /\ UNCHANGED <<request, checked, owed, cache, clock, commands>>

GroupNotThere(s) ==
  /\ phase[s] = "cmd" /\ cmd[s] = "GROUP" /\ Park(s)
  /\ Continue(s, response[s])
  /\ UNCHANGED <<request, checked, owed, reader, cache, clock, commands>>

(* upstreamBlock answered: LIST selects the provider if none is. A reply   *)
(* that is too large costs the connection and is answered with 503.        *)
Block(s) ==
  /\ phase[s] = "cmd" /\ cmd[s] \in {"LIST", "OVER", "HDR"}
  /\ Park(s) \/ Close(s)
  /\ selectedProvider' = IF cmd[s] = "LIST" /\ selectedProvider[s] = None
                         THEN Set(selectedProvider, s, at[s]) ELSE selectedProvider
  /\ \E r \in {"ok", "code"} : Answer(s, r)
  /\ UNCHANGED <<request, checked, owed, Group, MsgNum, cache, clock, commands>>

(* handleNextOrLastCommand: STAT sets the upstream's current article ...   *)
NextStat(s) ==
  /\ phase[s] = "cmd" /\ cmd[s] = "NEXT"
  /\ \/ To(s, "move") /\ UNCHANGED <<at, upstream, response, replies, out>>
     \/ Park(s) /\ Answer(s, "code")
  /\ UNCHANGED <<request, checked, owed, reader, cache, clock, commands>>

(* ... and NEXT or LAST moves it. *)
NextMoved(s) ==
  /\ phase[s] = "move" /\ Park(s)
  /\ \/ \E num \in Keys \ {0} : Answer(s, "ok") /\ MsgNum' = Set(MsgNum, s, num)
     \/ Answer(s, "code") /\ UNCHANGED MsgNum
  /\ UNCHANGED <<request, checked, owed, Group, selectedProvider, cache, clock, commands>>

(* The handler returns. *)
Done(s) ==
  /\ cmd' = Set(cmd, s, "none") /\ key' = Set(key, s, 0) /\ at' = Set(at, s, 1)
  /\ checked' = Set(checked, s, {}) /\ owed' = Set(owed, s, {})
  /\ response' = Set(response, s, "") /\ replies' = Set(replies, s, 0)

(* The client gets its reply. *)
Written(s) ==
  /\ phase[s] = "write" /\ To(s, "idle")
  /\ MsgNum' = Set(MsgNum, s, IF byNumber(s) /\ response[s] = "ok" THEN key[s] ELSE MsgNum[s])
  /\ Done(s)
  /\ UNCHANGED <<upstream, Group, selectedProvider, out, cache, clock, commands>>

(* The write fails or times out (writeErr): the connection is closed. *)
WriteFailed(s) ==
  /\ phase[s] = "write" /\ To(s, "closed") /\ Done(s)
  /\ UNCHANGED <<upstream, reader, out, cache, clock, commands>>

(* QUIT, an expired login (480) or the idle timeout. A client that asks *)
(* for nothing at all is left out.                                      *)
CloseSession(s) ==
  /\ phase[s] = "idle" /\ commands[s] > 0 /\ To(s, "closed")
  /\ UNCHANGED <<request, at, upstream, checked, response, replies, owed, reader,
                 out, cache, clock, commands>>

Handle(s) ==
  \/ SkipProvider(s) \/ GetConnOK(s) \/ GetConnFailed(s) \/ Exhausted(s)
  \/ Broken(s) \/ GroupSelected(s) \/ GroupRefused(s)
  \/ ArticleFound(s) \/ ArticleMissing(s) \/ ArticleDamaged(s) \/ ArticleOther(s)
  \/ GroupFound(s) \/ GroupNotThere(s) \/ Block(s) \/ NextStat(s) \/ NextMoved(s)
  \/ Written(s) \/ WriteFailed(s)

Next ==
  \/ purgeNegCache \/ Tick \/ \E l \in Late : Post(l)
  \/ \E s \in Sessions : \/ ArticleCommand(s) \/ ReaderCommand(s) \/ RefusedCommand(s)
                         \/ Handle(s) \/ CloseSession(s)

Spec == Init /\ [][Next]_vars

(* A handler goes on: GetConn, the upstream and the client's socket all    *)
(* have timeouts. Clients, the clock and the janitor owe nothing.          *)
FairSpec == Spec /\ \A s \in Sessions : WF_vars(Handle(s))

(***************************************************************************)
(* Properties                                                              *)
(***************************************************************************)
(* What a pool has handed out is what the sessions' handlers hold: every   *)
(* way through a handler parks or closes its connection exactly once, and  *)
(* none is lost when an upstream breaks off (Proxy.go:268-304).            *)
UpstreamAccounted ==
  \A p \in Providers : out[p] = Cardinality({s \in Sessions : upstream[s] = p})

(* A client that reads slowly, or not at all, keeps no upstream connection *)
(* from the others (Server.go:483, Proxy.go:268-270).                      *)
SlowClientHoldsNone == \A s \in Sessions : phase[s] \in {"write", "idle"} => upstream[s] = None

(* A command gets one reply: none is left without, and no handler goes on  *)
(* after it has answered (Proxy.go:322-336, Server.go:560-563).            *)
OneReply ==
  \A s \in Sessions :
    replies[s] = IF phase[s] = "write" THEN 1 ELSE 0

(* An article that a group has had for longer than a miss is remembered is *)
(* served, or that group's provider failed: what one session was told is   *)
(* never held against the article for longer, and a checked group is not   *)
(* one that was only tried (Server.go:445-458, ProxyHelper.go:185-207).    *)
FoundIsServed ==
  \A s \in Sessions :
    phase[s] = "write" /\ IsArticle(s) /\ response[s] # "ok" => owed[s] = {}

(* n is the number of entries, whatever sequence of misses, refreshes and  *)
(* purges went before: a count that drifts would close the cache for good  *)
(* or let it grow without bound (ProxyHelper.go:192-224).                  *)
NegCacheExact ==
  n = Cardinality({l \in Places : negCache[l] # -1}) /\ n <= negCacheMax

(* There is a current article only in a selected newsgroup: a number goes  *)
(* upstream after GROUP, never after an empty one (Server.go:382-391).     *)
PointerInGroup ==
  \A s \in Sessions : MsgNum[s] > 0 \/ byNumber(s) => Group[s]

(* Every command is answered or its connection closed, however the         *)
(* providers fail (Proxy.go:552-554, Server.go:560-563): as the clients    *)
(* send a bounded number of commands, the handlers all come to rest.       *)
CommandAnswered == <>[](\A s \in Sessions : phase[s] \in {"idle", "closed"})
(* Types, connections, the count of the cache and the reader's pointer     *)
(* hold together between any two steps of the handlers.                    *)
StateExact ==
  TypeOK /\ UpstreamAccounted /\ SlowClientHoldsNone /\ NegCacheExact /\ PointerInGroup

(* What a client gets: one reply to a command, and the article if it is    *)
(* there (Server.go:445-458, 560-563).                                     *)
RepliesRight == OneReply /\ FoundIsServed
=============================================================================
