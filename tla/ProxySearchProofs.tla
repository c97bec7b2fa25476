------------------------- MODULE ProxySearchProofs --------------------------
(***************************************************************************)
(* Proofs about ProxySearch, for every number of clients, every list of    *)
(* providers, every cache and every history of it: connections and cache   *)
(* entries are counted exactly, and an article that is there is found.     *)
(***************************************************************************)
EXTENDS ProxySearch, FiniteSetTheorems, TLAPS

(* The types; what is handed out and what is cached is counted below.      *)
Kinds0 == Kinds \cup {"none"}
Responses == {"", "ok", "notFound", "code"}
Phases == {"idle", "next", "group", "cmd", "move", "write", "closed"}
AtUpstream == {"group", "cmd", "move"}

Stops == 1..Len(providerList) + 1  \* the last one is behind the list

SessionTypes ==
  /\ phase \in [Sessions -> Phases]
  /\ cmd \in [Sessions -> Kinds0] /\ key \in [Sessions -> Keys]
  /\ at \in [Sessions -> Stops]
  /\ upstream \in [Sessions -> Providers \cup {None}]
  /\ checked \in [Sessions -> SUBSET Groups] /\ owed \in [Sessions -> SUBSET Groups]
  /\ response \in [Sessions -> Responses]
  /\ replies \in [Sessions -> {0, 1}]
  /\ Group \in [Sessions -> BOOLEAN] /\ MsgNum \in [Sessions -> Keys]
  /\ selectedProvider \in [Sessions -> Providers \cup {None}]
  /\ DOMAIN commands = Sessions
  /\ \A s \in Sessions : commands[s] \in 0..MaxCommands[s]

SharedTypes ==
  /\ out \in [Providers -> Int]
  /\ negCache \in [Places -> -1..negCacheTTL] /\ n \in Int
  /\ age \in [Late -> -1..negCacheTTL] /\ ticks \in 0..MaxTicks

(* A session has a connection exactly while it talks to the provider it is *)
(* at; what belongs to a command is gone with it; NEXT and a number are    *)
(* only ever asked for in a newsgroup.                                     *)
ControlAt(s) ==
  /\ phase[s] \in AtUpstream => at[s] \in Providers /\ upstream[s] = at[s]
  /\ phase[s] \notin AtUpstream => upstream[s] = None
  /\ phase[s] = "write" => replies[s] = 1
  /\ phase[s] # "write" => replies[s] = 0
  /\ phase[s] \in {"idle", "closed"} => cmd[s] = "none"
  /\ ~IsArticle(s) => owed[s] = {}
  /\ phase[s] = "move" => cmd[s] = "NEXT"
  /\ phase[s] = "group" /\ IsArticle(s) => byNumber(s)
  /\ cmd[s] = "NEXT" /\ phase[s] # "write" => Group[s]
  /\ MsgNum[s] > 0 \/ byNumber(s) => Group[s]

Control == \A s \in Sessions : ControlAt(s)

-----------------------------------------------------------------------------
(* The provider list, the groups and the places of the cache.              *)
LEMMA ListTypes ==
  /\ Len(providerList) \in Nat /\ Providers = 1..Len(providerList) /\ 0 \notin Providers
  /\ 1 \in Stops /\ \A p \in Providers : p \in Stops /\ p + 1 \in Stops
  /\ \A p \in Providers : groupOf(p) \in Groups
  /\ 0 \in Keys /\ 1 \in Keys /\ Keys \subseteq Nat
  /\ \A s \in Sessions : MaxCommands[s] \in Nat
  <1>1. /\ Len(providerList) \in Nat /\ Providers = 1..Len(providerList)
        /\ MaxNum \in Nat \ {0} /\ \A s \in Sessions : MaxCommands[s] \in Nat
    BY SearchAssumption DEF Providers
  <1> QED
    BY <1>1 DEF Keys, Stops, Groups, groupOf

LEMMA PlacesFinite == IsFiniteSet(Places)
  <1>1. IsFiniteSet(Providers)
    <2>1. 1 \in Int /\ Len(providerList) \in Int
      BY ListTypes
    <2> QED
      BY <2>1, FS_Interval, ListTypes, Zenon
  <1>2. IsFiniteSet(Groups)
    <2> DEFINE f == [p \in Providers |-> providerList[p].group]
    <2>1. f \in Surjection(Providers, Groups)
      BY DEF Surjection, Groups
    <2> QED
      BY <2>1, <1>1, FS_Surjection
  <1>3. IsFiniteSet(Keys)
    BY FS_Interval, SearchAssumption DEF Keys
  <1> QED
    BY <1>2, <1>3, FS_Product DEF Places

-----------------------------------------------------------------------------
(* A step of a session changes what is the session's, within its types:    *)
(* what is said of the others stays.                                       *)
Changes(f, g, s, T) == g = f \/ (g = [f EXCEPT ![s] = g[s]] /\ g[s] \in T)

LEMMA ChangesTyped ==
  ASSUME NEW S, NEW T, NEW f \in [S -> T], NEW g, NEW s \in S, Changes(f, g, s, T)
  PROVE  g \in [S -> T] /\ \A t \in S : t # s => g[t] = f[t]
  BY DEF Changes

MovesOn(s) ==
  /\ Changes(phase, phase', s, Phases)
  /\ Changes(cmd, cmd', s, Kinds0) /\ Changes(key, key', s, Keys)
  /\ Changes(at, at', s, Stops) /\ Changes(upstream, upstream', s, Providers \cup {None})

Learns(s) ==
  /\ Changes(checked, checked', s, SUBSET Groups) /\ Changes(owed, owed', s, SUBSET Groups)
  /\ Changes(response, response', s, Responses) /\ Changes(replies, replies', s, {0, 1})

Reads(s) ==
  /\ Changes(Group, Group', s, BOOLEAN) /\ Changes(MsgNum, MsgNum', s, Keys)
  /\ Changes(selectedProvider, selectedProvider', s, Providers \cup {None})
  /\ commands' = commands \/ (commands' = Set(commands, s, commands[s] + 1) /\ commands[s] < MaxCommands[s])

SessionStep(s) == MovesOn(s) /\ Learns(s) /\ Reads(s)

LEMMA SessionStepTyped ==
  ASSUME NEW s \in Sessions, SessionTypes, SessionStep(s)
  PROVE  /\ SessionTypes'
         /\ \A t \in Sessions : t # s =>
              /\ phase'[t] = phase[t] /\ cmd'[t] = cmd[t] /\ key'[t] = key[t] /\ at'[t] = at[t]
              /\ upstream'[t] = upstream[t] /\ checked'[t] = checked[t] /\ owed'[t] = owed[t]
              /\ response'[t] = response[t] /\ replies'[t] = replies[t]
              /\ Group'[t] = Group[t] /\ MsgNum'[t] = MsgNum[t]
  <1>1. phase' \in [Sessions -> Phases] /\ \A t \in Sessions : t # s => phase'[t] = phase[t]
    <2>1. phase \in [Sessions -> Phases] /\ Changes(phase, phase', s, Phases)
      BY DEF SessionTypes, SessionStep, MovesOn, Learns, Reads
    <2> QED
      BY <2>1 DEF Changes
  <1>2. cmd' \in [Sessions -> Kinds0] /\ \A t \in Sessions : t # s => cmd'[t] = cmd[t]
    <2>1. cmd \in [Sessions -> Kinds0] /\ Changes(cmd, cmd', s, Kinds0)
      BY DEF SessionTypes, SessionStep, MovesOn, Learns, Reads
    <2> QED
      BY <2>1 DEF Changes
  <1>3. key' \in [Sessions -> Keys] /\ \A t \in Sessions : t # s => key'[t] = key[t]
    <2>1. key \in [Sessions -> Keys] /\ Changes(key, key', s, Keys)
      BY DEF SessionTypes, SessionStep, MovesOn, Learns, Reads
    <2> QED
      BY <2>1 DEF Changes
  <1>4. at' \in [Sessions -> Stops] /\ \A t \in Sessions : t # s => at'[t] = at[t]
    <2>1. at \in [Sessions -> Stops] /\ Changes(at, at', s, Stops)
      BY DEF SessionTypes, SessionStep, MovesOn, Learns, Reads
    <2> QED
      BY <2>1 DEF Changes
  <1>5. upstream' \in [Sessions -> Providers \cup {None}] /\ \A t \in Sessions : t # s => upstream'[t] = upstream[t]
    <2>1. upstream \in [Sessions -> Providers \cup {None}] /\ Changes(upstream, upstream', s, Providers \cup {None})
      BY DEF SessionTypes, SessionStep, MovesOn, Learns, Reads
    <2> QED
      BY <2>1 DEF Changes
  <1>6. checked' \in [Sessions -> SUBSET Groups] /\ \A t \in Sessions : t # s => checked'[t] = checked[t]
    <2>1. checked \in [Sessions -> SUBSET Groups] /\ Changes(checked, checked', s, SUBSET Groups)
      BY DEF SessionTypes, SessionStep, MovesOn, Learns, Reads
    <2> QED
      BY <2>1 DEF Changes
  <1>7. owed' \in [Sessions -> SUBSET Groups] /\ \A t \in Sessions : t # s => owed'[t] = owed[t]
    <2>1. owed \in [Sessions -> SUBSET Groups] /\ Changes(owed, owed', s, SUBSET Groups)
      BY DEF SessionTypes, SessionStep, MovesOn, Learns, Reads
    <2> QED
      BY <2>1 DEF Changes
  <1>8. response' \in [Sessions -> Responses] /\ \A t \in Sessions : t # s => response'[t] = response[t]
    <2>1. response \in [Sessions -> Responses] /\ Changes(response, response', s, Responses)
      BY DEF SessionTypes, SessionStep, MovesOn, Learns, Reads
    <2> QED
      BY <2>1 DEF Changes
  <1>9. replies' \in [Sessions -> {0, 1}] /\ \A t \in Sessions : t # s => replies'[t] = replies[t]
    <2>1. replies \in [Sessions -> {0, 1}] /\ Changes(replies, replies', s, {0, 1})
      BY DEF SessionTypes, SessionStep, MovesOn, Learns, Reads
    <2> QED
      BY <2>1 DEF Changes
  <1>10. Group' \in [Sessions -> BOOLEAN] /\ \A t \in Sessions : t # s => Group'[t] = Group[t]
    <2>1. Group \in [Sessions -> BOOLEAN] /\ Changes(Group, Group', s, BOOLEAN)
      BY DEF SessionTypes, SessionStep, MovesOn, Learns, Reads
    <2> QED
      BY <2>1 DEF Changes
  <1>11. MsgNum' \in [Sessions -> Keys] /\ \A t \in Sessions : t # s => MsgNum'[t] = MsgNum[t]
    <2>1. MsgNum \in [Sessions -> Keys] /\ Changes(MsgNum, MsgNum', s, Keys)
      BY DEF SessionTypes, SessionStep, MovesOn, Learns, Reads
    <2> QED
      BY <2>1 DEF Changes
  <1>12. selectedProvider' \in [Sessions -> Providers \cup {None}] /\ \A t \in Sessions : t # s => selectedProvider'[t] = selectedProvider[t]
    <2>1. selectedProvider \in [Sessions -> Providers \cup {None}] /\ Changes(selectedProvider, selectedProvider', s, Providers \cup {None})
      BY DEF SessionTypes, SessionStep, MovesOn, Learns, Reads
    <2> QED
      BY <2>1 DEF Changes
  <1>13. DOMAIN commands' = Sessions /\ \A t \in Sessions : commands'[t] \in 0..MaxCommands[t]
    <2>1. DOMAIN commands = Sessions /\ \A t \in Sessions : commands[t] \in 0..MaxCommands[t]
      BY DEF SessionTypes
    <2>2. \/ commands' = commands
          \/ commands' = [commands EXCEPT ![s] = commands[s] + 1] /\ commands[s] < MaxCommands[s]
      BY DEF SessionStep, Reads, Set
    <2> QED
      BY <2>1, <2>2, ListTypes
  <1> QED
    BY <1>1, <1>2, <1>3, <1>4, <1>5, <1>6, <1>7, <1>8, <1>9, <1>10, <1>11, <1>12, <1>13, Zenon DEF SessionTypes

(* What the types say of one session.                                      *)
TypesAt(s) ==
  /\ phase[s] \in Phases /\ cmd[s] \in Kinds0 /\ key[s] \in Keys
  /\ at[s] \in Stops /\ upstream[s] \in Providers \cup {None}
  /\ checked[s] \subseteq Groups /\ owed[s] \subseteq Groups
  /\ response[s] \in Responses /\ replies[s] \in {0, 1}
  /\ Group[s] \in BOOLEAN /\ MsgNum[s] \in Keys /\ selectedProvider[s] \in Providers \cup {None}
  /\ commands[s] \in 0..MaxCommands[s]

Domains ==
  /\ DOMAIN phase = Sessions /\ DOMAIN cmd = Sessions /\ DOMAIN key = Sessions
  /\ DOMAIN at = Sessions /\ DOMAIN upstream = Sessions /\ DOMAIN checked = Sessions
  /\ DOMAIN owed = Sessions /\ DOMAIN response = Sessions /\ DOMAIN replies = Sessions
  /\ DOMAIN Group = Sessions /\ DOMAIN MsgNum = Sessions
  /\ DOMAIN selectedProvider = Sessions

LEMMA TypesOfOne ==
  ASSUME NEW s \in Sessions, SessionTypes
  PROVE  TypesAt(s) /\ Domains
  BY DEF SessionTypes, TypesAt, Domains

-----------------------------------------------------------------------------
(* The pieces of a handler, as they change what is the session's.          *)
LEMMA AnswerStep ==
  ASSUME NEW s \in Sessions, Domains, replies[s] = 0, NEW r \in Responses, Answer(s, r)
  PROVE  /\ Changes(phase, phase', s, Phases) /\ phase'[s] = "write"
         /\ Changes(response, response', s, Responses) /\ response'[s] = r
         /\ Changes(replies, replies', s, {0, 1}) /\ replies'[s] = 1
         /\ at' = at
  BY DEF Answer, To, Set, Changes, Domains, Phases

LEMMA ContinueStep ==
  ASSUME NEW s \in Sessions, Domains, at[s] \in Providers, NEW r \in Responses, Continue(s, r)
  PROVE  /\ Changes(phase, phase', s, Phases) /\ phase'[s] = "next"
         /\ Changes(response, response', s, Responses)
         /\ Changes(at, at', s, Stops) /\ at'[s] = at[s] + 1
         /\ replies' = replies
  BY ListTypes DEF Continue, To, Set, Changes, Domains, Phases

LEMMA ParkStep ==
  ASSUME NEW s \in Sessions, Domains, Park(s)
  PROVE  Changes(upstream, upstream', s, Providers \cup {None}) /\ upstream'[s] = None
  BY DEF Park, Set, Changes, Domains, None

LEMMA ExcuseStep ==
  ASSUME NEW s \in Sessions, Domains, owed[s] \subseteq Groups, Excuse(s)
  PROVE  Changes(owed, owed', s, SUBSET Groups) /\ owed'[s] = owed[s] \ {groupOf(at[s])}
  BY DEF Excuse, Set, Changes, Domains

LEMMA CheckedStep ==
  ASSUME NEW s \in Sessions, Domains, at[s] \in Providers, checked[s] \subseteq Groups, Checked(s)
  PROVE  /\ Changes(checked, checked', s, SUBSET Groups)
         /\ checked'[s] = checked[s] \cup {groupOf(at[s])}
  BY ListTypes DEF Checked, Set, Changes, Domains

(* A step of a handler that is done with a provider: it answers, or goes   *)
(* on to the next one; a connection it had goes back.                      *)
Goes(s) ==
  \E r \in Responses : Answer(s, r) \/ (at[s] \in Providers /\ Continue(s, r))

Releases(s) == IF phase[s] = "next" THEN UNCHANGED <<upstream, out>> ELSE Park(s)

Notes(s) ==
  /\ checked' = checked \/ (at[s] \in Providers /\ Checked(s))
  /\ owed' = owed \/ Excuse(s)

Points(s) ==
  /\ Changes(Group, Group', s, BOOLEAN) /\ Changes(MsgNum, MsgNum', s, Keys)
  /\ Changes(selectedProvider, selectedProvider', s, Providers \cup {None})
  /\ Group[s] => Group'[s]
  /\ MsgNum'[s] > 0 => Group'[s]

Leaves(s) ==
  /\ phase[s] \in {"next"} \cup AtUpstream
  /\ Goes(s) /\ Releases(s) /\ Notes(s) /\ Points(s)
  /\ UNCHANGED <<request, commands>>

LEMMA LeavesControl ==
  ASSUME NEW s \in Sessions, SessionTypes, Control, Leaves(s)
  PROVE  SessionStep(s) /\ ControlAt(s)'
  <1>1. TypesAt(s) /\ Domains /\ ControlAt(s) /\ phase[s] \in {"next"} \cup AtUpstream
    BY TypesOfOne DEF Control, Leaves
  <1>2. /\ Changes(phase, phase', s, Phases) /\ Changes(response, response', s, Responses)
        /\ Changes(replies, replies', s, {0, 1}) /\ Changes(at, at', s, Stops)
        /\ \/ phase'[s] = "write" /\ replies'[s] = 1
           \/ phase'[s] = "next" /\ replies'[s] = 0
    <2>1. replies[s] = 0
      BY <1>1 DEF ControlAt, AtUpstream
    <2>2. PICK r \in Responses : Answer(s, r) \/ (at[s] \in Providers /\ Continue(s, r))
      BY DEF Leaves, Goes
    <2>3. CASE Answer(s, r)
      BY <2>1, <2>3, <1>1, AnswerStep DEF Changes
    <2>4. CASE at[s] \in Providers /\ Continue(s, r)
      BY <2>1, <2>4, <1>1, ContinueStep DEF Changes
    <2> QED
      BY <2>2, <2>3, <2>4
  <1>3. Changes(upstream, upstream', s, Providers \cup {None}) /\ upstream'[s] = None
    <2>1. CASE phase[s] = "next"
      BY <2>1, <1>1 DEF Leaves, Releases, Changes, ControlAt, AtUpstream
    <2>2. CASE phase[s] # "next"
      BY <2>2, <1>1, ParkStep DEF Leaves, Releases
    <2> QED
      BY <2>1, <2>2
  <1>4. /\ Changes(checked, checked', s, SUBSET Groups)
        /\ Changes(owed, owed', s, SUBSET Groups) /\ owed'[s] \subseteq owed[s]
    <2>1. checked[s] \subseteq Groups /\ owed[s] \subseteq Groups
      BY <1>1 DEF TypesAt
    <2>2. Changes(checked, checked', s, SUBSET Groups)
      BY <2>1, <1>1, CheckedStep DEF Leaves, Notes, Changes
    <2>3. CASE owed' = owed
      BY <2>2, <2>3 DEF Changes
    <2>4. CASE Excuse(s)
      BY <2>1, <2>2, <2>4, <1>1, ExcuseStep
    <2> QED
      BY <2>3, <2>4 DEF Leaves, Notes
  <1>5. cmd' = cmd /\ key' = key /\ commands' = commands /\ Points(s)
    BY DEF Leaves, request
  <1>6. SessionStep(s)
    BY <1>2, <1>3, <1>4, <1>5 DEF SessionStep, MovesOn, Learns, Reads, Points, Changes
  <1>7. ControlAt(s)'
    <2>1. /\ phase'[s] \notin AtUpstream /\ phase'[s] \notin {"idle", "closed", "move", "group"}
          /\ upstream'[s] = None
          /\ (phase'[s] = "write" => replies'[s] = 1) /\ (phase'[s] # "write" => replies'[s] = 0)
      BY <1>2, <1>3 DEF AtUpstream
    <2>2. IsArticle(s)' <=> IsArticle(s)
      BY <1>5 DEF IsArticle
    <2>3. byNumber(s)' <=> byNumber(s)
      BY <1>5 DEF IsArticle, byNumber
    <2>4. ~IsArticle(s) => owed'[s] = {}
      BY <1>1, <1>4 DEF ControlAt
    <2>5. cmd'[s] = "NEXT" => Group'[s]
      BY <1>1, <1>5 DEF ControlAt, Points, AtUpstream
    <2>6. MsgNum'[s] > 0 \/ byNumber(s) => Group'[s]
      BY <1>1, <1>5 DEF ControlAt, Points
    <2> QED
      BY <2>1, <2>2, <2>3, <2>4, <2>5, <2>6 DEF ControlAt
  <1> QED
    BY <1>6, <1>7

(* All but five of a handler's steps are of that kind.                     *)
LEMMA HandlerLeaves ==
  ASSUME NEW s \in Sessions, SessionTypes, Control,
         \/ SkipProvider(s) \/ GetConnFailed(s) \/ Exhausted(s) \/ Broken(s) \/ GroupRefused(s)
         \/ ArticleFound(s) \/ ArticleMissing(s) \/ ArticleDamaged(s) \/ ArticleOther(s)
         \/ GroupFound(s) \/ GroupNotThere(s) \/ Block(s) \/ NextMoved(s)
  PROVE  Leaves(s)
  <1>1. TypesAt(s) /\ Domains /\ ControlAt(s)
    BY TypesOfOne DEF Control
  <1>2. /\ response[s] \in Responses /\ {"ok", "notFound", "code"} \subseteq Responses
        /\ (phase[s] \in AtUpstream => at[s] \in Providers)
        /\ MsgNum[s] \in Keys /\ key[s] \in Keys /\ at[s] \in Stops
        /\ (MsgNum[s] > 0 \/ byNumber(s) => Group[s])
    BY <1>1 DEF TypesAt, ControlAt, Responses
  <1>3. Group' = Group /\ MsgNum' = MsgNum /\ selectedProvider' = selectedProvider => Points(s)
    BY <1>2 DEF Points, Changes
  <1>4. CASE SkipProvider(s)
    BY <1>4, <1>2, <1>3
       DEF SkipProvider, AtProvider, Leaves, Goes, Releases, Notes, AtUpstream, request, reader
  <1>5. CASE GetConnFailed(s)
    BY <1>5, <1>2, <1>3
       DEF GetConnFailed, TryProvider, AtProvider, Leaves, Goes, Releases, Notes, AtUpstream, request, reader
  <1>6. CASE Exhausted(s)
    <2>1. Points(s)
      BY <1>6, <1>1, <1>2, ListTypes
         DEF Exhausted, Points, Changes, Domains, Set, ControlAt, AtUpstream
    <2> QED
      BY <1>6, <1>2, <2>1
         DEF Exhausted, Leaves, Goes, Releases, Notes, AtUpstream, request, reader
  <1>7. CASE Broken(s)
    BY <1>7, <1>2, <1>3
       DEF Broken, Close, Leaves, Goes, Releases, Notes, AtUpstream, request, reader
  <1>8. CASE GroupRefused(s)
    BY <1>8, <1>2, <1>3
       DEF GroupRefused, Leaves, Goes, Releases, Notes, AtUpstream, request, reader
  <1>9. CASE ArticleFound(s)
    <2>1. Points(s)
      BY <1>9, <1>1, <1>2, ListTypes
         DEF ArticleFound, Points, Changes, Domains, Set, ControlAt, AtUpstream
    <2> QED
      BY <1>9, <1>2, <2>1
         DEF ArticleFound, Leaves, Goes, Releases, Notes, AtUpstream, request, reader
  <1>10. CASE ArticleMissing(s)
    BY <1>10, <1>2, <1>3
       DEF ArticleMissing, Leaves, Goes, Releases, Notes, AtUpstream, request, reader
  <1>11. CASE ArticleDamaged(s)
    BY <1>11, <1>2, <1>3
       DEF ArticleDamaged, Leaves, Goes, Releases, Notes, AtUpstream, request, reader
  <1>12. CASE ArticleOther(s)
    BY <1>12, <1>2, <1>3
       DEF ArticleOther, Leaves, Goes, Releases, Notes, AtUpstream, request, reader
  <1>13. CASE GroupFound(s)
    <2>1. Points(s)
      BY <1>13, <1>1, <1>2, ListTypes
         DEF GroupFound, Points, Changes, Domains, Set, ControlAt, AtUpstream
    <2> QED
      BY <1>13, <1>2, <2>1
         DEF GroupFound, Leaves, Goes, Releases, Notes, AtUpstream, request, reader
  <1>14. CASE GroupNotThere(s)
    BY <1>14, <1>2, <1>3
       DEF GroupNotThere, Leaves, Goes, Releases, Notes, AtUpstream, request, reader
  <1>15. CASE Block(s)
    <2>1. Points(s)
      BY <1>15, <1>1, <1>2, ListTypes
         DEF Block, Close, Points, Changes, Domains, Set, ControlAt, AtUpstream
    <2> QED
      BY <1>15, <1>2, <2>1
         DEF Block, Close, Leaves, Goes, Releases, Notes, AtUpstream, request, reader
  <1>16. CASE NextMoved(s)
    <2>1. Points(s)
      BY <1>16, <1>1, <1>2, ListTypes
         DEF NextMoved, Points, Changes, Domains, Set, ControlAt, AtUpstream
    <2> QED
      BY <1>16, <1>2, <2>1
         DEF NextMoved, Leaves, Goes, Releases, Notes, AtUpstream, request, reader
  <1> QED
    BY <1>4, <1>5, <1>6, <1>7, <1>8, <1>9, <1>10, <1>11, <1>12, <1>13, <1>14, <1>15, <1>16

(* The other steps of a handler ...                                        *)
LEMMA GetConnOKControl ==
  ASSUME NEW s \in Sessions, SessionTypes, Control, GetConnOK(s)
  PROVE  SessionStep(s) /\ ControlAt(s)'
  <1>1. TypesAt(s) /\ Domains /\ ControlAt(s)
    BY TypesOfOne DEF Control
  <1>3. MovesOn(s)
    BY <1>1, ListTypes
       DEF MovesOn, Changes, TypesAt, Domains, ControlAt, GetConnOK, TryProvider, AtProvider, To, Set, request, reader, Phases, AtUpstream, None, Kinds0, Kinds, Responses
  <1>4. Learns(s)
    BY <1>1, ListTypes
       DEF Learns, Changes, TypesAt, Domains, ControlAt, GetConnOK, TryProvider, AtProvider, To, Set, request, reader, Phases, AtUpstream, None, Kinds0, Kinds, Responses
  <1>5. Reads(s)
    BY <1>1, ListTypes
       DEF Reads, Changes, TypesAt, Domains, ControlAt, GetConnOK, TryProvider, AtProvider, To, Set, request, reader, Phases, AtUpstream, None, Kinds0, Kinds, Responses
  <1>6. ControlAt(s)'
    BY <1>1, ListTypes
       DEF TypesAt, Domains, ControlAt, GetConnOK, TryProvider, AtProvider, To, Set, request, reader, Phases, AtUpstream, None, IsArticle, byNumber
  <1> QED
    BY <1>3, <1>4, <1>5, <1>6 DEF SessionStep

(* ... GROUP was accepted ...                                             *)
LEMMA GroupSelectedControl ==
  ASSUME NEW s \in Sessions, SessionTypes, Control, GroupSelected(s)
  PROVE  SessionStep(s) /\ ControlAt(s)'
  <1>1. TypesAt(s) /\ Domains /\ ControlAt(s)
    BY TypesOfOne DEF Control
  <1>3. MovesOn(s)
    BY <1>1, ListTypes
       DEF MovesOn, Changes, TypesAt, Domains, ControlAt, GroupSelected, To, Set, request, reader, Phases, AtUpstream, None, Kinds0, Kinds, Responses
  <1>4. Learns(s)
    BY <1>1, ListTypes
       DEF Learns, Changes, TypesAt, Domains, ControlAt, GroupSelected, To, Set, request, reader, Phases, AtUpstream, None, Kinds0, Kinds, Responses
  <1>5. Reads(s)
    BY <1>1, ListTypes
       DEF Reads, Changes, TypesAt, Domains, ControlAt, GroupSelected, To, Set, request, reader, Phases, AtUpstream, None, Kinds0, Kinds, Responses
  <1>6. ControlAt(s)'
    BY <1>1, ListTypes
       DEF TypesAt, Domains, ControlAt, GroupSelected, To, Set, request, reader, Phases, AtUpstream, None, IsArticle, byNumber
  <1> QED
    BY <1>3, <1>4, <1>5, <1>6 DEF SessionStep

(* ... STAT was ...                                                        *)
LEMMA NextMovesControl ==
  ASSUME NEW s \in Sessions, SessionTypes, Control, NextStat(s), phase'[s] # "write"
  PROVE  SessionStep(s) /\ ControlAt(s)'
  <1>1. TypesAt(s) /\ Domains /\ ControlAt(s)
    BY TypesOfOne DEF Control
  <1>2. /\ phase[s] = "cmd" /\ cmd[s] = "NEXT" /\ To(s, "move")
        /\ UNCHANGED <<at, upstream, response, replies, request, checked, owed, reader, commands>>
    BY <1>1 DEF NextStat, Answer, To, Set, Domains
  <1>3. MovesOn(s)
    BY <1>1, <1>2, ListTypes
       DEF MovesOn, Changes, TypesAt, Domains, ControlAt, To, Set, request, reader, Phases, AtUpstream, None, Kinds0, Kinds, Responses
  <1>4. Learns(s)
    BY <1>1, <1>2, ListTypes
       DEF Learns, Changes, TypesAt, Domains, ControlAt, To, Set, request, reader, Phases, AtUpstream, None, Kinds0, Kinds, Responses
  <1>5. Reads(s)
    BY <1>1, <1>2, ListTypes
       DEF Reads, Changes, TypesAt, Domains, ControlAt, To, Set, request, reader, Phases, AtUpstream, None, Kinds0, Kinds, Responses
  <1>6. ControlAt(s)'
    BY <1>1, <1>2, ListTypes
       DEF TypesAt, Domains, ControlAt, To, Set, request, reader, Phases, AtUpstream, None, IsArticle, byNumber
  <1> QED
    BY <1>3, <1>4, <1>5, <1>6 DEF SessionStep

(* ... the client has its reply ...                                       *)
LEMMA WrittenControl ==
  ASSUME NEW s \in Sessions, SessionTypes, Control, Written(s)
  PROVE  SessionStep(s) /\ ControlAt(s)'
  <1>1. TypesAt(s) /\ Domains /\ ControlAt(s)
    BY TypesOfOne DEF Control
  <1>3. MovesOn(s)
    BY <1>1, ListTypes
       DEF MovesOn, Changes, TypesAt, Domains, ControlAt, Written, Done, To, Set, request, reader, Phases, AtUpstream, None, Kinds0, Kinds, Responses
  <1>4. Learns(s)
    BY <1>1, ListTypes
       DEF Learns, Changes, TypesAt, Domains, ControlAt, Written, Done, To, Set, request, reader, Phases, AtUpstream, None, Kinds0, Kinds, Responses
  <1>5. Reads(s)
    BY <1>1, ListTypes
       DEF Reads, Changes, TypesAt, Domains, ControlAt, Written, Done, To, Set, request, reader, Phases, AtUpstream, None, Kinds0, Kinds, Responses
  <1>6. ControlAt(s)'
    BY <1>1, ListTypes
       DEF TypesAt, Domains, ControlAt, Written, Done, To, Set, request, reader, Phases, AtUpstream, None, IsArticle, byNumber
  <1> QED
    BY <1>3, <1>4, <1>5, <1>6 DEF SessionStep

(* ... or not.                                                            *)
LEMMA WriteFailedControl ==
  ASSUME NEW s \in Sessions, SessionTypes, Control, WriteFailed(s)
  PROVE  SessionStep(s) /\ ControlAt(s)'
  <1>1. TypesAt(s) /\ Domains /\ ControlAt(s)
    BY TypesOfOne DEF Control
  <1>3. MovesOn(s)
    BY <1>1, ListTypes
       DEF MovesOn, Changes, TypesAt, Domains, ControlAt, WriteFailed, Done, To, Set, request, reader, Phases, AtUpstream, None, Kinds0, Kinds, Responses
  <1>4. Learns(s)
    BY <1>1, ListTypes
       DEF Learns, Changes, TypesAt, Domains, ControlAt, WriteFailed, Done, To, Set, request, reader, Phases, AtUpstream, None, Kinds0, Kinds, Responses
  <1>5. Reads(s)
    BY <1>1, ListTypes
       DEF Reads, Changes, TypesAt, Domains, ControlAt, WriteFailed, Done, To, Set, request, reader, Phases, AtUpstream, None, Kinds0, Kinds, Responses
  <1>6. ControlAt(s)'
    BY <1>1, ListTypes
       DEF TypesAt, Domains, ControlAt, WriteFailed, Done, To, Set, request, reader, Phases, AtUpstream, None, IsArticle, byNumber
  <1> QED
    BY <1>3, <1>4, <1>5, <1>6 DEF SessionStep

(* A session that ends has no command.                                     *)
LEMMA CloseSessionControl ==
  ASSUME NEW s \in Sessions, SessionTypes, Control, CloseSession(s)
  PROVE  SessionStep(s) /\ ControlAt(s)'
  <1>1. TypesAt(s) /\ Domains /\ ControlAt(s)
    BY TypesOfOne DEF Control
  <1>3. MovesOn(s)
    BY <1>1, ListTypes
       DEF MovesOn, Changes, TypesAt, Domains, ControlAt, CloseSession, To, Set, request, reader, Phases, AtUpstream, None, Kinds0, Kinds, Responses
  <1>4. Learns(s)
    BY <1>1, ListTypes
       DEF Learns, Changes, TypesAt, Domains, ControlAt, CloseSession, To, Set, request, reader, Phases, AtUpstream, None, Kinds0, Kinds, Responses
  <1>5. Reads(s)
    BY <1>1, ListTypes
       DEF Reads, Changes, TypesAt, Domains, ControlAt, CloseSession, To, Set, request, reader, Phases, AtUpstream, None, Kinds0, Kinds, Responses
  <1>6. ControlAt(s)'
    BY <1>1, ListTypes
       DEF TypesAt, Domains, ControlAt, CloseSession, To, Set, request, reader, Phases, AtUpstream, None, IsArticle, byNumber
  <1> QED
    BY <1>3, <1>4, <1>5, <1>6 DEF SessionStep

LEMMA NextStatControl ==
  ASSUME NEW s \in Sessions, SessionTypes, Control, NextStat(s)
  PROVE  SessionStep(s) /\ ControlAt(s)'
  <1>1. CASE phase'[s] # "write"
    BY <1>1, NextMovesControl
  <1>2. CASE phase'[s] = "write"
    <2>1. TypesAt(s) /\ Domains
      BY TypesOfOne
    <2>2. Park(s) /\ Answer(s, "code") /\ phase[s] = "cmd"
          /\ UNCHANGED <<request, checked, owed, reader, commands>>
      BY <1>2, <2>1 DEF NextStat, To, Set, Domains
    <2>3. Points(s)
      <3>1. MsgNum[s] > 0 => Group[s]
        BY DEF Control, ControlAt
      <3> QED
        BY <3>1, <2>2 DEF Points, Changes, reader
    <2>4. Leaves(s)
      BY <2>2, <2>3 DEF Leaves, Goes, Releases, Notes, AtUpstream, Responses
    <2> QED
      BY <2>4, LeavesControl
  <1> QED
    BY <1>1, <1>2

(* A command begins.                                                       *)
LEMMA BeginControl ==
  ASSUME NEW s \in Sessions, NEW c \in Kinds, NEW k \in Keys, SessionTypes, Control,
         Begin(s, c, k), k > 0 \/ c = "NEXT" => Group[s]
  PROVE  SessionStep(s) /\ ControlAt(s)' /\ phase'[s] = "next" /\ at'[s] = 1 /\ checked'[s] = {}
         /\ cmd'[s] = c /\ key'[s] = k /\ owed'[s] = IF c \in {"ARTICLE", "STAT"} THEN Owed(k) ELSE {}
  <1>1. TypesAt(s) /\ Domains /\ ControlAt(s)
    BY TypesOfOne DEF Control
  <1> DEFINE due == IF c \in {"ARTICLE", "STAT"} THEN Owed(k) ELSE {}
  <1>2. due \subseteq Groups
    BY DEF Owed
  <1>3. /\ phase[s] = "idle" /\ commands[s] < MaxCommands[s]
        /\ commands' = Set(commands, s, commands[s] + 1)
        /\ cmd' = Set(cmd, s, c) /\ key' = Set(key, s, k)
        /\ at' = Set(at, s, 1) /\ response' = Set(response, s, "") /\ replies' = Set(replies, s, 0)
        /\ checked' = Set(checked, s, {}) /\ owed' = Set(owed, s, due)
        /\ phase' = Set(phase, s, "next") /\ upstream' = upstream
        /\ Group' = Group /\ MsgNum' = MsgNum /\ selectedProvider' = selectedProvider
    BY DEF Begin, Idle, To, reader
  <1> HIDE DEF due
  <1>4. MovesOn(s)
    BY <1>1, <1>3, ListTypes DEF MovesOn, Changes, Domains, Set, Phases, Kinds0
  <1>5. Learns(s)
    BY <1>1, <1>2, <1>3 DEF Learns, Changes, Domains, Set, Responses
  <1>6. Reads(s)
    BY <1>3 DEF Reads, Changes, Set
  <1>7. /\ phase'[s] = "next" /\ upstream'[s] = None /\ replies'[s] = 0 /\ cmd'[s] = c /\ key'[s] = k
        /\ owed'[s] = due /\ Group'[s] = Group[s] /\ MsgNum'[s] = MsgNum[s]
        /\ at'[s] = 1 /\ checked'[s] = {} /\ (MsgNum[s] > 0 => Group[s])
    BY <1>1, <1>3 DEF Domains, Set, ControlAt, AtUpstream
  <1>8. c \notin {"ARTICLE", "STAT"} => due = {}
    BY DEF due
  <1>9. ControlAt(s)'
    BY <1>7, <1>8 DEF ControlAt, AtUpstream, IsArticle, byNumber
  <1> QED
    BY <1>4, <1>5, <1>6, <1>7, <1>9 DEF SessionStep, due

LEMMA CommandControl ==
  ASSUME NEW s \in Sessions, SessionTypes, Control, ArticleCommand(s) \/ ReaderCommand(s)
  PROVE  \E c \in Kinds, k \in Keys : Begin(s, c, k) /\ (k > 0 \/ c = "NEXT" => Group[s])
  <1>1. CASE ArticleCommand(s)
    <2>1. PICK c \in {"ARTICLE", "STAT"}, k \in Keys : (k > 0 => Group[s]) /\ Begin(s, c, k)
      BY <1>1 DEF ArticleCommand
    <2>2. c \in Kinds /\ c # "NEXT"
      BY DEF Kinds
    <2> QED
      BY <2>1, <2>2
  <1>2. CASE ReaderCommand(s)
    <2>1. PICK c \in Kinds \ {"ARTICLE", "STAT"} :
            (c \in {"OVER", "NEXT"} => Group[s]) /\ Begin(s, c, 0)
      BY <1>2 DEF ReaderCommand
    <2>2. 0 \in Keys /\ ~(0 > 0)
      BY ListTypes
    <2> QED
      BY <2>1, <2>2
  <1> QED
    BY <1>1, <1>2

LEMMA RefusedControl ==
  ASSUME NEW s \in Sessions, SessionTypes, Control, RefusedCommand(s)
  PROVE  SessionStep(s) /\ ControlAt(s)' /\ phase'[s] = "write" /\ owed'[s] = {}
  <1>1. TypesAt(s) /\ Domains /\ ControlAt(s)
    BY TypesOfOne DEF Control
  <1>2. PICK c \in Kinds :
        /\ phase[s] = "idle" /\ commands[s] < MaxCommands[s]
        /\ commands' = Set(commands, s, commands[s] + 1)
        /\ cmd' = Set(cmd, s, c) /\ key' = Set(key, s, 0)
        /\ response' = Set(response, s, "code") /\ replies' = Set(replies, s, 1)
        /\ phase' = Set(phase, s, "write")
        /\ UNCHANGED <<at, upstream, checked, owed, Group, MsgNum, selectedProvider>>
    BY DEF RefusedCommand, Idle, To, reader
  <1>3. MovesOn(s)
    BY <1>1, <1>2, ListTypes DEF MovesOn, Changes, Domains, Set, Phases, Kinds0
  <1>4. Learns(s)
    BY <1>1, <1>2 DEF Learns, Changes, Domains, Set, Responses
  <1>5. Reads(s)
    BY <1>2 DEF Reads, Changes, Set
  <1>6. /\ phase'[s] = "write" /\ upstream'[s] = None /\ replies'[s] = 1 /\ key'[s] = 0
        /\ owed'[s] = {} /\ Group'[s] = Group[s] /\ MsgNum'[s] = MsgNum[s]
        /\ (MsgNum[s] > 0 => Group[s])
    BY <1>1, <1>2 DEF Domains, Set, ControlAt, AtUpstream, IsArticle
  <1>7. ControlAt(s)'
    BY <1>6 DEF ControlAt, AtUpstream, IsArticle, byNumber
  <1> QED
    BY <1>3, <1>4, <1>5, <1>6, <1>7 DEF SessionStep

(* What is left of Next belongs to no session.                             *)
SessionNext(s) ==
  ArticleCommand(s) \/ ReaderCommand(s) \/ RefusedCommand(s) \/ Handle(s) \/ CloseSession(s)

LEMMA SessionControl ==
  ASSUME NEW s \in Sessions, SessionTypes, Control, SessionNext(s)
  PROVE  SessionStep(s) /\ ControlAt(s)'
  <1>1. CASE ArticleCommand(s) \/ ReaderCommand(s)
    BY <1>1, CommandControl, BeginControl
  <1>2. CASE RefusedCommand(s) \/ CloseSession(s)
    BY <1>2, RefusedControl, CloseSessionControl
  <1>3. CASE Handle(s)
    BY <1>3, HandlerLeaves, LeavesControl, GetConnOKControl, GroupSelectedControl, NextStatControl,
       WrittenControl, WriteFailedControl DEF Handle
  <1> QED
    BY <1>1, <1>2, <1>3 DEF SessionNext

LEMMA SessionsRest ==
  ASSUME SessionTypes, Control,
         UNCHANGED <<phase, request, at, upstream, checked, response, replies, owed, reader, commands>>
  PROVE  SessionTypes' /\ Control'
  BY DEF SessionTypes, Control, ControlAt, IsArticle, byNumber, request, reader

THEOREM TypesAndControl == Spec => [](SessionTypes /\ Control)
  <1>1. Init => SessionTypes /\ Control
    <2> SUFFICES ASSUME Init PROVE SessionTypes /\ Control
      OBVIOUS
    <2>1. SessionTypes
      <3>1. phase \in [Sessions -> Phases] /\ cmd \in [Sessions -> Kinds0] /\ key \in [Sessions -> Keys]
        BY ListTypes DEF Init, Phases, Kinds0
      <3>2. at \in [Sessions -> Stops] /\ upstream \in [Sessions -> Providers \cup {None}]
        BY ListTypes DEF Init
      <3>3. checked \in [Sessions -> SUBSET Groups] /\ owed \in [Sessions -> SUBSET Groups]
        BY DEF Init
      <3>4. response \in [Sessions -> Responses] /\ replies \in [Sessions -> {0, 1}]
        BY DEF Init, Responses
      <3>5. Group \in [Sessions -> BOOLEAN] /\ MsgNum \in [Sessions -> Keys]
        BY ListTypes DEF Init
      <3>6. selectedProvider \in [Sessions -> Providers \cup {None}]
        BY DEF Init
      <3>7. DOMAIN commands = Sessions /\ \A s \in Sessions : commands[s] \in 0..MaxCommands[s]
        <4>1. commands = [s \in Sessions |-> 0] /\ \A s \in Sessions : MaxCommands[s] \in Nat
          BY ListTypes DEF Init
        <4> QED
          BY <4>1
      <3> QED
        BY <3>1, <3>2, <3>3, <3>4, <3>5, <3>6, <3>7 DEF SessionTypes
    <2>2. Control
      <3> SUFFICES ASSUME NEW s \in Sessions PROVE ControlAt(s)
        BY DEF Control
      <3>1. /\ phase[s] = "idle" /\ cmd[s] = "none" /\ upstream[s] = None /\ owed[s] = {}
            /\ replies[s] = 0 /\ MsgNum[s] = 0
        BY DEF Init
      <3> QED
        BY <3>1 DEF ControlAt, AtUpstream, IsArticle, byNumber
    <2> QED
      BY <2>1, <2>2
  <1>2. SessionTypes /\ Control /\ [Next]_vars => (SessionTypes /\ Control)'
    <2> SUFFICES ASSUME SessionTypes, Control, [Next]_vars PROVE SessionTypes' /\ Control'
      OBVIOUS
    <2>1. CASE purgeNegCache \/ Tick \/ (\E l \in Late : Post(l)) \/ UNCHANGED vars
      <3>1. UNCHANGED <<phase, request, at, upstream, checked, response, replies, owed, reader, commands>>
        BY <2>1 DEF purgeNegCache, Tick, Post, vars
      <3> QED
        BY <3>1, SessionsRest
    <2>2. ASSUME NEW s \in Sessions, SessionNext(s) PROVE SessionTypes' /\ Control'
      <3>1. SessionStep(s) /\ ControlAt(s)'
        BY <2>2, SessionControl
      <3>2. ASSUME NEW t \in Sessions, t # s PROVE ControlAt(t)'
        <4>1. ControlAt(t)
          BY DEF Control
        <4> QED
          BY <4>1, <3>1, <3>2, SessionStepTyped DEF ControlAt, IsArticle, byNumber
      <3> QED
        BY <3>1, <3>2, SessionStepTyped DEF Control
    <2> QED
      BY <2>1, <2>2 DEF Next, SessionNext
  <1> QED
    BY <1>1, <1>2, PTL DEF Spec

-----------------------------------------------------------------------------
(* What the sessions do to the pools: one takes a connection, or gives its *)
(* own back.                                                               *)
Hands(s) ==
  \/ UNCHANGED <<upstream, out>>
  \/ /\ upstream[s] = None
     /\ \E p \in Providers : out' = Set(out, p, out[p] + 1) /\ upstream' = Set(upstream, s, p)
  \/ upstream[s] \in Providers /\ Park(s)

LEMMA SessionHands ==
  ASSUME NEW s \in Sessions, SessionTypes, Control, SessionNext(s)
  PROVE  Hands(s)
  <1>1. ControlAt(s)
    BY DEF Control
  <1>2. CASE Leaves(s)
    BY <1>1, <1>2 DEF Leaves, Releases, Hands, ControlAt
  <1>3. CASE GetConnOK(s)
    BY <1>1, <1>3 DEF GetConnOK, TryProvider, AtProvider, Hands, ControlAt, AtUpstream
  <1>4. CASE NextStat(s)
    BY <1>1, <1>4 DEF NextStat, Hands, ControlAt, AtUpstream
  <1>5. CASE GroupSelected(s) \/ Written(s) \/ WriteFailed(s) \/ CloseSession(s) \/ RefusedCommand(s)
    BY <1>5 DEF GroupSelected, Written, WriteFailed, CloseSession, RefusedCommand, Hands
  <1>6. CASE ArticleCommand(s) \/ ReaderCommand(s)
    BY <1>6, CommandControl DEF Begin, Hands
  <1> QED
    BY <1>2, <1>3, <1>4, <1>5, <1>6, HandlerLeaves DEF SessionNext, Handle

HoldersOf(p) == {s \in Sessions : upstream[s] = p}

LEMMA HandsExact ==
  ASSUME NEW s \in Sessions, SessionTypes, out \in [Providers -> Int], UpstreamAccounted, Hands(s)
  PROVE  (out \in [Providers -> Int] /\ UpstreamAccounted)'
  <1>1. /\ upstream \in [Sessions -> Providers \cup {None}]
        /\ \A p \in Providers : out[p] = Cardinality(HoldersOf(p)) /\ IsFiniteSet(HoldersOf(p))
    <2>1. \A p \in Providers : IsFiniteSet(HoldersOf(p))
      BY FS_Subset, SearchAssumption DEF HoldersOf
    <2> QED
      BY <2>1 DEF SessionTypes, UpstreamAccounted, HoldersOf
  <1>2. CASE UNCHANGED <<upstream, out>>
    BY <1>2 DEF UpstreamAccounted
  <1>3. ASSUME NEW q \in Providers, upstream[s] = None,
               out' = Set(out, q, out[q] + 1), upstream' = Set(upstream, s, q)
        PROVE  (out \in [Providers -> Int] /\ UpstreamAccounted)'
    <2>1. out' \in [Providers -> Int]
      BY <1>3 DEF Set
    <2>2. ASSUME NEW p \in Providers PROVE out'[p] = Cardinality(HoldersOf(p)')
      <3>0. p # None
        BY ListTypes DEF None
      <3>1. CASE p = q
        <4>1. HoldersOf(p)' = HoldersOf(p) \cup {s} /\ s \notin HoldersOf(p)
          BY <1>1, <1>3, <3>0, <3>1 DEF HoldersOf, Set
        <4>2. Cardinality(HoldersOf(p)') = Cardinality(HoldersOf(p)) + 1
          BY <4>1, <1>1, FS_AddElement
        <4> QED
          BY <4>2, <1>1, <1>3, <3>1 DEF Set
      <3>2. CASE p # q
        <4>1. HoldersOf(p)' = HoldersOf(p)
          BY <1>1, <1>3, <3>0, <3>2 DEF HoldersOf, Set
        <4> QED
          BY <4>1, <1>1, <1>3, <3>2 DEF Set
      <3> QED
        BY <3>1, <3>2
    <2> QED
      BY <2>1, <2>2 DEF UpstreamAccounted, HoldersOf
  <1>4. CASE upstream[s] \in Providers /\ Park(s)
    <2> DEFINE q == upstream[s]
    <2>0. q \in Providers /\ out' = [out EXCEPT ![q] = out[q] - 1] /\ upstream' = [upstream EXCEPT ![s] = None]
      BY <1>4 DEF Park, Set
    <2>1. out' \in [Providers -> Int]
      BY <2>0
    <2>2. ASSUME NEW p \in Providers PROVE out'[p] = Cardinality(HoldersOf(p)')
      <3>0. p # None
        BY ListTypes DEF None
      <3>1. CASE p = q
        <4>1. HoldersOf(p)' = HoldersOf(p) \ {s} /\ s \in HoldersOf(p)
          BY <1>1, <2>0, <3>0, <3>1 DEF HoldersOf
        <4>2. Cardinality(HoldersOf(p)') = Cardinality(HoldersOf(p)) - 1
          BY <4>1, <1>1, FS_RemoveElement
        <4>3. out'[p] = out[p] - 1
          BY <2>0, <3>1
        <4> QED
          BY <4>2, <4>3, <1>1
      <3>2. CASE p # q
        <4>1. HoldersOf(p)' = HoldersOf(p)
          BY <1>1, <2>0, <3>0, <3>2 DEF HoldersOf
        <4> QED
          BY <4>1, <1>1, <2>0, <3>2
      <3> QED
        BY <3>1, <3>2
    <2> QED
      BY <2>1, <2>2 DEF UpstreamAccounted, HoldersOf
  <1> QED
    BY <1>2, <1>3, <1>4 DEF Hands

(* What a pool counts as handed out is what the sessions hold.             *)
THEOREM ConnectionsExact == Spec => [](out \in [Providers -> Int] /\ UpstreamAccounted)
  <1>1. Init => out \in [Providers -> Int] /\ UpstreamAccounted
    <2> SUFFICES ASSUME Init PROVE out \in [Providers -> Int] /\ UpstreamAccounted
      OBVIOUS
    <2>1. out = [p \in Providers |-> 0] /\ \A s \in Sessions : upstream[s] = None
      BY DEF Init
    <2>2. \A p \in Providers : {s \in Sessions : upstream[s] = p} = {}
      BY <2>1, ListTypes DEF None
    <2> QED
      BY <2>1, <2>2, FS_EmptySet DEF UpstreamAccounted
  <1>2. SessionTypes /\ Control /\ out \in [Providers -> Int] /\ UpstreamAccounted /\ [Next]_vars
          => (out \in [Providers -> Int] /\ UpstreamAccounted)'
    <2> SUFFICES ASSUME SessionTypes, Control, out \in [Providers -> Int], UpstreamAccounted, [Next]_vars
                 PROVE  (out \in [Providers -> Int] /\ UpstreamAccounted)'
      OBVIOUS
    <2>1. CASE purgeNegCache \/ Tick \/ (\E l \in Late : Post(l)) \/ UNCHANGED vars
      <3>1. UNCHANGED <<upstream, out>>
        BY <2>1 DEF purgeNegCache, Tick, Post, vars
      <3> QED
        BY <3>1 DEF UpstreamAccounted
    <2>2. ASSUME NEW s \in Sessions, SessionNext(s)
          PROVE  (out \in [Providers -> Int] /\ UpstreamAccounted)'
      BY <2>2, SessionHands, HandsExact
    <2> QED
      BY <2>1, <2>2 DEF Next, SessionNext
  <1> QED
    BY <1>1, <1>2, TypesAndControl, PTL DEF Spec

-----------------------------------------------------------------------------
(* The negative cache: its entries are counted, and none says of an        *)
(* article that it is missing for longer than that may be true.            *)
Cached == {l \in Places : negCache[l] # -1}

CacheTypes ==
  /\ negCache \in [Places -> -1..negCacheTTL] /\ n \in Nat
  /\ age \in [Late -> -1..negCacheTTL] /\ ticks \in 0..MaxTicks

Remembered ==
  /\ \A l \in Held : negCache[l] = -1
  /\ \A l \in Late : age[l] >= 0 => negCache[l] <= negCacheTTL - age[l]

CacheInv == CacheTypes /\ NegCacheExact /\ Remembered

LEMMA CacheConstants ==
  /\ negCacheTTL \in Nat \ {0} /\ negCacheMax \in Nat \ {0} /\ MaxTicks \in Nat
  /\ Held \subseteq Places /\ Late \subseteq Places /\ Held \cap Late = {}
  BY SearchAssumption

LEMMA CachedFinite == IsFiniteSet(Cached)
  BY PlacesFinite, FS_Subset DEF Cached

LEMMA SetArticleNotFoundExact ==
  ASSUME CacheInv, NEW k \in Keys, NEW g \in Groups, ~Has(g, k),
         SetArticleNotFoundAtProviderGroup(k, g), UNCHANGED clock
  PROVE  CacheInv'
  <1> DEFINE m == <<g, k>>
  <1>1. /\ m \in Places /\ m \notin Held /\ (m \in Late => age[m] = -1)
        /\ negCache \in [Places -> -1..negCacheTTL] /\ n \in Nat /\ age \in [Late -> -1..negCacheTTL]
        /\ age' = age /\ ticks' = ticks
        /\ n = Cardinality(Cached) /\ n <= negCacheMax
    BY CacheConstants DEF Places, Has, CacheInv, CacheTypes, NegCacheExact, Cached, clock
  <1>2. CASE UNCHANGED cache
    BY <1>1, <1>2 DEF cache, CacheInv, CacheTypes, NegCacheExact, Remembered
  <1>3. CASE ~UNCHANGED cache
    <2>1. /\ ~(negCache[m] = -1 /\ n >= negCacheMax)
          /\ negCache' = [negCache EXCEPT ![m] = negCacheTTL]
          /\ n' = IF negCache[m] = -1 THEN n + 1 ELSE n
      BY <1>3 DEF SetArticleNotFoundAtProviderGroup, Set, cache
    <2> HIDE DEF m
    <2>2. negCache' \in [Places -> -1..negCacheTTL] /\ n' \in Nat
      BY <1>1, <2>1, CacheConstants
    <2>3. Cached' = Cached \cup {m}
      BY <1>1, <2>1, CacheConstants DEF Cached
    <2>4. n' = Cardinality(Cached') /\ n' <= negCacheMax
      <3>1. CASE negCache[m] = -1
        <4>1. m \notin Cached
          BY <3>1 DEF Cached
        <4>2. Cardinality(Cached \cup {m}) = Cardinality(Cached) + 1
          BY <4>1, CachedFinite, FS_AddElement
        <4>3. n' = n + 1 /\ n < negCacheMax
          BY <3>1, <2>1, <1>1, CacheConstants
        <4> QED
          BY <4>2, <4>3, <2>3, <1>1, CacheConstants
      <3>2. CASE negCache[m] # -1
        <4>1. Cached' = Cached
          BY <3>2, <2>3, <1>1 DEF Cached
        <4> QED
          BY <3>2, <4>1, <2>1, <1>1
      <3> QED
        BY <3>1, <3>2
    <2>5. Remembered'
      <3>1. \A l \in Held : negCache'[l] = -1
        BY <1>1, <2>1, CacheConstants DEF CacheInv, Remembered
      <3>2. ASSUME NEW l \in Late, age[l] >= 0 PROVE negCache'[l] <= negCacheTTL - age[l]
        <4>1. l # m /\ l \in Places
          BY <1>1, <3>2, CacheConstants
        <4>2. negCache'[l] = negCache[l]
          BY <4>1, <2>1, <1>1
        <4> QED
          BY <4>2, <3>2 DEF CacheInv, Remembered
      <3> QED
        BY <3>1, <3>2, <1>1 DEF Remembered
    <2> QED
      BY <2>2, <2>4, <2>5, <1>1 DEF CacheInv, CacheTypes, NegCacheExact, Cached
  <1> QED
    BY <1>2, <1>3

LEMMA PurgeExact ==
  ASSUME CacheInv, purgeNegCache
  PROVE  CacheInv'
  <1> DEFINE expired == {l \in Places : negCache[l] = 0}
  <1>1. /\ negCache' = [l \in Places |-> IF l \in expired THEN -1 ELSE negCache[l]]
        /\ n' = n - Cardinality(expired) /\ age' = age /\ ticks' = ticks
    BY DEF purgeNegCache, clock
  <1>2. /\ negCache \in [Places -> -1..negCacheTTL] /\ n \in Nat /\ age \in [Late -> -1..negCacheTTL]
        /\ ticks \in 0..MaxTicks /\ n = Cardinality(Cached) /\ n <= negCacheMax
    BY DEF CacheInv, CacheTypes, NegCacheExact, Cached
  <1>3. expired \subseteq Cached /\ Cached' = Cached \ expired
    BY <1>1, <1>2 DEF Cached
  <1>4. /\ Cardinality(Cached \ expired) = Cardinality(Cached) - Cardinality(expired)
        /\ Cardinality(Cached \ expired) \in Nat /\ Cardinality(expired) \in Nat
    <2>1. IsFiniteSet(expired) /\ IsFiniteSet(Cached) /\ IsFiniteSet(Cached \ expired)
      BY <1>3, CachedFinite, FS_Subset, FS_Difference
    <2>2. Cardinality(Cached \ expired) = Cardinality(Cached) - Cardinality(Cached \cap expired)
      BY <2>1, FS_Difference
    <2>3. Cached \cap expired = expired
      BY <1>3
    <2> QED
      BY <2>1, <2>2, <2>3, FS_CardinalityType
  <1>5. n' = Cardinality(Cached') /\ n' \in Nat /\ n' <= negCacheMax
    <2> HIDE DEF expired
    <2> QED
      BY <1>1, <1>2, <1>3, <1>4, CacheConstants
  <1>6. negCache' \in [Places -> -1..negCacheTTL]
    BY <1>1, <1>2, CacheConstants
  <1>7. Remembered'
    <2>1. \A l \in Held : negCache'[l] = -1
      BY <1>1, <1>2, CacheConstants DEF CacheInv, Remembered
    <2>2. ASSUME NEW l \in Late, age[l] >= 0 PROVE negCache'[l] <= negCacheTTL - age[l]
      <3>1. l \in Places /\ negCache[l] <= negCacheTTL - age[l] /\ age[l] \in -1..negCacheTTL
        BY <2>2, <1>2, CacheConstants DEF CacheInv, Remembered
      <3>2. negCache'[l] = negCache[l] \/ negCache'[l] = -1
        BY <3>1, <1>1
      <3> QED
        BY <3>1, <3>2, <1>2, CacheConstants
    <2> QED
      BY <2>1, <2>2, <1>1 DEF Remembered
  <1> QED
    BY <1>1, <1>2, <1>5, <1>6, <1>7 DEF CacheInv, CacheTypes, NegCacheExact, Cached

(* An article gets older until it has the age of the time to live.         *)
LEMMA AgeTicks ==
  ASSUME CacheInv, NEW l \in Late, age[l] >= 0
  PROVE  /\ Min({age[l] + 1, negCacheTTL}) \in 0..negCacheTTL
         /\ Min({age[l] + 1, negCacheTTL}) = IF age[l] = negCacheTTL THEN negCacheTTL ELSE age[l] + 1
  <1>1. age[l] \in 0..negCacheTTL /\ negCacheTTL \in Nat
    BY CacheConstants DEF CacheInv, CacheTypes
  <1>2. CASE age[l] = negCacheTTL
    <2> DEFINE S == {age[l] + 1, negCacheTTL}
    <2>1. negCacheTTL \in S /\ \A y \in S : negCacheTTL <= y
      BY <1>1, <1>2
    <2>2. \A x \in S : (\A y \in S : x <= y) => x = negCacheTTL
      BY <1>1, <1>2
    <2>3. Min(S) = negCacheTTL
      BY <2>1, <2>2 DEF Min
    <2> QED
      BY <2>3, <1>1, <1>2
  <1>3. CASE age[l] # negCacheTTL
    <2> DEFINE S == {age[l] + 1, negCacheTTL}
    <2>1. age[l] + 1 \in S /\ \A y \in S : age[l] + 1 <= y
      BY <1>1, <1>3
    <2>2. \A x \in S : (\A y \in S : x <= y) => x = age[l] + 1
      BY <1>1, <1>3
    <2>3. Min(S) = age[l] + 1
      BY <2>1, <2>2 DEF Min
    <2> QED
      BY <2>3, <1>1, <1>3
  <1> QED
    BY <1>2, <1>3

LEMMA TickExact ==
  ASSUME CacheInv, Tick
  PROVE  CacheInv'
  <1>1. /\ negCache' = [l \in Places |-> IF negCache[l] > 0 THEN negCache[l] - 1 ELSE negCache[l]]
        /\ age' = [l \in Late |-> IF age[l] < 0 THEN -1 ELSE Min({age[l] + 1, negCacheTTL})]
        /\ n' = n /\ ticks' = ticks + 1 /\ ticks < MaxTicks
    BY DEF Tick
  <1>2. /\ negCache \in [Places -> -1..negCacheTTL] /\ n \in Nat /\ age \in [Late -> -1..negCacheTTL]
        /\ ticks \in 0..MaxTicks /\ n = Cardinality(Cached) /\ n <= negCacheMax
    BY DEF CacheInv, CacheTypes, NegCacheExact, Cached
  <1>3. negCache' \in [Places -> -1..negCacheTTL] /\ ticks' \in 0..MaxTicks
    BY <1>1, <1>2, CacheConstants
  <1>4. ASSUME NEW l \in Late
        PROVE  age'[l] \in -1..negCacheTTL /\ (age'[l] >= 0 => age[l] >= 0 /\ age'[l] = IF age[l] = negCacheTTL THEN negCacheTTL ELSE age[l] + 1)
    <2>1. CASE age[l] < 0
      BY <2>1, <1>1, <1>2, CacheConstants
    <2>2. CASE age[l] >= 0
      <3>1. age'[l] = Min({age[l] + 1, negCacheTTL})
        BY <2>2, <1>1, <1>2, CacheConstants
      <3> QED
        BY <3>1, <2>2, AgeTicks, CacheConstants
    <2> QED
      BY <2>1, <2>2, <1>2, CacheConstants
  <1>5. age' \in [Late -> -1..negCacheTTL]
    <2>1. age' = [l \in Late |-> age'[l]]
      BY <1>1
    <2> QED
      BY <2>1, <1>4
  <1>6. Cached' = Cached
    BY <1>1, <1>2 DEF Cached
  <1>7. Remembered'
    <2>1. \A l \in Held : negCache'[l] = -1
      BY <1>1, <1>2, CacheConstants DEF CacheInv, Remembered
    <2>2. ASSUME NEW l \in Late, age'[l] >= 0 PROVE negCache'[l] <= negCacheTTL - age'[l]
      <3>1. /\ l \in Places /\ age[l] >= 0 /\ age[l] \in -1..negCacheTTL
            /\ age'[l] = (IF age[l] = negCacheTTL THEN negCacheTTL ELSE age[l] + 1)
        BY <2>2, <1>2, <1>4, CacheConstants
      <3>2. negCache[l] <= negCacheTTL - age[l]
        BY <3>1 DEF CacheInv, Remembered
      <3>3. negCache[l] \in -1..negCacheTTL
            /\ negCache'[l] = IF negCache[l] > 0 THEN negCache[l] - 1 ELSE negCache[l]
        BY <3>1, <1>1, <1>2
      <3> QED
        BY <3>1, <3>2, <3>3, CacheConstants
    <2> QED
      BY <2>1, <2>2 DEF Remembered
  <1> QED
    BY <1>1, <1>2, <1>3, <1>5, <1>6, <1>7 DEF CacheInv, CacheTypes, NegCacheExact, Cached

LEMMA PostExact ==
  ASSUME CacheInv, NEW l \in Late, Post(l)
  PROVE  CacheInv'
  <1>1. /\ age' = [age EXCEPT ![l] = 0] /\ UNCHANGED <<negCache, n, ticks>>
    BY DEF Post, Set, cache
  <1>2. /\ negCache \in [Places -> -1..negCacheTTL] /\ age \in [Late -> -1..negCacheTTL]
    BY DEF CacheInv, CacheTypes
  <1>3. age' \in [Late -> -1..negCacheTTL]
    BY <1>1, <1>2, CacheConstants
  <1>4. Remembered'
    <2>1. ASSUME NEW k \in Late, age'[k] >= 0 PROVE negCache[k] <= negCacheTTL - age'[k]
      <3>1. k \in Places /\ negCache[k] \in -1..negCacheTTL
        BY <1>2, CacheConstants
      <3>2. CASE k = l
        BY <3>1, <3>2, <1>1, <1>2, CacheConstants
      <3>3. CASE k # l
        <4>1. age'[k] = age[k]
          BY <3>3, <1>1, <1>2
        <4> QED
          BY <4>1, <2>1 DEF CacheInv, Remembered
      <3> QED
        BY <3>2, <3>3
    <2> QED
      BY <1>1, <2>1 DEF CacheInv, Remembered
  <1> QED
    BY <1>1, <1>3, <1>4 DEF CacheInv, CacheTypes, NegCacheExact

(* Sessions change the cache only with a miss they were told.              *)
LEMMA SessionCache ==
  ASSUME NEW s \in Sessions, SessionTypes, Control, CacheInv, SessionNext(s)
  PROVE  CacheInv' /\ UNCHANGED clock
  <1>1. CASE ArticleMissing(s)
    <2>1. TypesAt(s) /\ ControlAt(s)
      BY TypesOfOne DEF Control
    <2>2. key[s] \in Keys /\ groupOf(at[s]) \in Groups
      BY <1>1, <2>1, ListTypes DEF ArticleMissing, TypesAt, ControlAt, AtUpstream
    <2> QED
      BY <1>1, <2>2, SetArticleNotFoundExact DEF ArticleMissing
  <1>2. CASE UNCHANGED <<cache, clock>>
    BY <1>2 DEF cache, clock, CacheInv, CacheTypes, NegCacheExact, Remembered
  <1>3. CASE Handle(s) /\ ~ArticleMissing(s)
    BY <1>2, <1>3 DEF Handle, SkipProvider, GetConnOK, GetConnFailed, Exhausted, Broken, GroupSelected, GroupRefused,
       ArticleFound, ArticleDamaged, ArticleOther, GroupFound, GroupNotThere, Block, NextStat, NextMoved,
       Written, WriteFailed
  <1>4. CASE ArticleCommand(s) \/ ReaderCommand(s)
    <2>1. PICK c \in Kinds, k \in Keys : Begin(s, c, k)
      BY <1>4, CommandControl
    <2> QED
      BY <1>2, <2>1 DEF Begin
  <1>5. CASE RefusedCommand(s) \/ CloseSession(s)
    BY <1>2, <1>5 DEF RefusedCommand, CloseSession
  <1> QED
    BY <1>1, <1>3, <1>4, <1>5 DEF SessionNext

THEOREM CacheExact == Spec => []CacheInv
  <1>1. Init => CacheInv
    <2> SUFFICES ASSUME Init PROVE CacheInv
      OBVIOUS
    <2>1. /\ negCache = [l \in Places |-> -1] /\ n = 0 /\ age = [l \in Late |-> -1] /\ ticks = 0
      BY DEF Init
    <2>2. CacheTypes
      BY <2>1, CacheConstants DEF CacheTypes
    <2>3. Cached = {}
      BY <2>1 DEF Cached
    <2>4. NegCacheExact
      BY <2>1, <2>3, FS_EmptySet, CacheConstants DEF NegCacheExact, Cached
    <2>5. Remembered
      BY <2>1, CacheConstants DEF Remembered
    <2> QED
      BY <2>2, <2>4, <2>5 DEF CacheInv
  <1>2. SessionTypes /\ Control /\ CacheInv /\ [Next]_vars => CacheInv'
    <2> SUFFICES ASSUME SessionTypes, Control, CacheInv, [Next]_vars PROVE CacheInv'
      OBVIOUS
    <2>1. CASE UNCHANGED vars
      BY <2>1 DEF vars, cache, clock, CacheInv, CacheTypes, NegCacheExact, Remembered
    <2> QED
      BY <2>1, PurgeExact, TickExact, PostExact, SessionCache DEF Next, SessionNext
  <1> QED
    BY <1>1, <1>2, TypesAndControl, PTL DEF Spec

-----------------------------------------------------------------------------
(* A group that must not be missed is still ahead in the provider list,    *)
(* and nothing says that it does not have the article. When a handler      *)
(* answers otherwise, there is no such group left.                         *)
Due(s, g) ==
  /\ \/ <<g, key[s]>> \in Held
     \/ <<g, key[s]>> \in Late /\ age[<<g, key[s]>>] = negCacheTTL
  /\ g \notin checked[s]
  /\ \E p \in Providers : p >= at[s] /\ groupOf(p) = g /\ MayAsk(p, key[s])

OwesAt(s) ==
  /\ phase[s] \in {"next"} \cup AtUpstream => \A g \in owed[s] : Due(s, g)
  /\ phase[s] = "write" /\ IsArticle(s) /\ response[s] # "ok" => owed[s] = {}

Owes == \A s \in Sessions : OwesAt(s)

(* The article of such a group is there, and the cache does not deny it.   *)
LEMMA DueIsThere ==
  ASSUME NEW s \in Sessions, CacheInv, NEW g, Due(s, g)
  PROVE  Has(g, key[s]) /\ ~IsArticleNotFoundAtProviderGroup(key[s], g)
  <1> DEFINE l == <<g, key[s]>>
  <1>1. l \in Held \/ (l \in Late /\ age[l] = negCacheTTL)
    BY DEF Due
  <1>2. l \in Held => negCache[l] = -1
    BY DEF CacheInv, Remembered
  <1>3. l \in Late /\ age[l] = negCacheTTL => negCache[l] \in -1..negCacheTTL /\ negCache[l] <= 0 /\ age[l] >= 0
    <2> SUFFICES ASSUME l \in Late, age[l] = negCacheTTL
                 PROVE  negCache[l] \in -1..negCacheTTL /\ negCache[l] <= 0 /\ age[l] >= 0
      OBVIOUS
    <2>1. l \in Places /\ age[l] >= 0 /\ negCacheTTL \in Nat
      BY CacheConstants
    <2>2. negCache[l] \in -1..negCacheTTL /\ negCache[l] <= negCacheTTL - age[l]
      BY <2>1 DEF CacheInv, CacheTypes, Remembered
    <2> HIDE DEF l
    <2> QED
      BY <2>1, <2>2
  <1>4. Has(g, key[s])
    BY <1>1, <1>3 DEF Has
  <1>5. ~(negCache[l] > 0)
    <2> HIDE DEF l
    <2> QED
      BY <1>1, <1>2, <1>3, CacheConstants
  <1> QED
    BY <1>4, <1>5 DEF IsArticleNotFoundAtProviderGroup

(* A step that goes on leaves a group behind only if it may not be asked   *)
(* there, or if it failed.                                                 *)
GoesOnRight(s) ==
  \A g \in owed'[s] : g \notin checked'[s] /\ (groupOf(at[s]) = g => ~MayAsk(at[s], key[s]))

LEMMA HandlerOwes ==
  ASSUME NEW s \in Sessions, SessionTypes, Control, CacheInv, OwesAt(s),
         \/ SkipProvider(s) \/ GetConnFailed(s) \/ Exhausted(s) \/ Broken(s) \/ GroupRefused(s)
         \/ ArticleFound(s) \/ ArticleMissing(s) \/ ArticleDamaged(s) \/ ArticleOther(s)
         \/ GroupFound(s) \/ GroupNotThere(s) \/ Block(s) \/ NextMoved(s)
  PROVE  /\ phase'[s] = "next" => GoesOnRight(s)
         /\ phase'[s] = "write" /\ IsArticle(s) /\ response'[s] # "ok" => owed'[s] = {}
  <1>1. TypesAt(s) /\ Domains /\ ControlAt(s) /\ Leaves(s)
    BY TypesOfOne, HandlerLeaves DEF Control
  <1>2. owed[s] \subseteq Groups /\ checked[s] \subseteq Groups /\ at[s] \in Stops
        /\ (phase[s] \in AtUpstream => at[s] \in Providers) /\ (~IsArticle(s) => owed[s] = {})
    BY <1>1 DEF TypesAt, ControlAt
  <1>3. \A g \in owed[s] : Due(s, g) /\ g \notin checked[s] /\ Has(g, key[s]) /\ ~IsArticleNotFoundAtProviderGroup(key[s], g)
    <2>1. \A g \in owed[s] : Due(s, g)
      BY <1>1 DEF OwesAt, Leaves
    <2> QED
      BY <2>1, DueIsThere DEF Due
  <1>4. owed'[s] = owed[s] \/ owed'[s] = owed[s] \ {groupOf(at[s])}
    BY <1>1, <1>2, ExcuseStep DEF Leaves, Notes
  <1>5. CASE ~IsArticle(s)
    BY <1>2, <1>4, <1>5 DEF GoesOnRight
  <1>6. CASE IsArticle(s) /\ SkipProvider(s)
    <2>1. owed' = owed /\ checked' = checked /\ Misses(s, at[s]) /\ phase'[s] = "next"
      BY <1>1, <1>6 DEF SkipProvider, Continue, To, Set, Domains
    <2> QED
      BY <2>1, <1>3 DEF GoesOnRight, Misses
  <1>7. CASE IsArticle(s) /\ (GetConnFailed(s) \/ Broken(s) \/ ArticleOther(s) \/ ArticleDamaged(s))
    <2>1. Excuse(s) /\ (checked' = checked \/ Checked(s)) /\ at[s] \in Providers /\ \E r \in {response[s], "code", "notFound"} : Continue(s, r)
      BY <1>2, <1>7 DEF GetConnFailed, TryProvider, AtProvider, Broken, ArticleOther, ArticleDamaged, AtUpstream
    <2>2. owed'[s] = owed[s] \ {groupOf(at[s])}
          /\ (checked'[s] = checked[s] \/ checked'[s] = checked[s] \cup {groupOf(at[s])}) /\ phase'[s] = "next"
      BY <2>1, <1>1, <1>2, ExcuseStep, CheckedStep DEF Continue, To, Set, Domains
    <2> QED
      BY <2>2, <1>3 DEF GoesOnRight
  <1>8. CASE IsArticle(s) /\ Exhausted(s)
    <2>1. owed' = owed /\ at[s] \notin Providers /\ phase'[s] = "write"
      BY <1>1, <1>8 DEF Exhausted, Answer, To, Set, Domains
    <2>2. \A p \in Providers : ~(p >= at[s])
      BY <2>1, <1>2, ListTypes DEF Stops
    <2>3. owed[s] = {}
      BY <2>2, <1>3 DEF Due
    <2> QED
      BY <2>1, <2>3
  <1>9. CASE IsArticle(s) /\ GroupRefused(s)
    <2>1. Excuse(s) /\ checked' = checked /\ Continue(s, "code")
      BY <1>1, <1>9 DEF GroupRefused, ControlAt
    <2>2. owed'[s] = owed[s] \ {groupOf(at[s])} /\ phase'[s] = "next"
      BY <2>1, <1>1, <1>2, ExcuseStep DEF Continue, To, Set, Domains
    <2> QED
      BY <2>1, <2>2, <1>3 DEF GoesOnRight
  <1>10. CASE IsArticle(s) /\ ArticleFound(s)
    BY <1>1, <1>10 DEF ArticleFound, Answer, To, Set, Domains
  <1>11. CASE IsArticle(s) /\ ArticleMissing(s)
    <2>1. Checked(s) /\ at[s] \in Providers /\ owed' = owed /\ ~Has(groupOf(at[s]), key[s]) /\ Continue(s, "notFound")
      BY <1>2, <1>11 DEF ArticleMissing, AtUpstream
    <2>2. checked'[s] = checked[s] \cup {groupOf(at[s])} /\ phase'[s] = "next"
      BY <2>1, <1>1, <1>2, CheckedStep DEF Continue, To, Set, Domains
    <2> QED
      BY <2>1, <2>2, <1>3 DEF GoesOnRight
  <1>12. CASE IsArticle(s) /\ (GroupFound(s) \/ GroupNotThere(s) \/ Block(s) \/ NextMoved(s))
    BY <1>1, <1>12 DEF GroupFound, GroupNotThere, Block, NextMoved, IsArticle, ControlAt
  <1> QED
    BY <1>5, <1>6, <1>7, <1>8, <1>9, <1>10, <1>11, <1>12

LEMMA LeavesOwes ==
  ASSUME NEW s \in Sessions, SessionTypes, Control, OwesAt(s), Leaves(s), age' = age,
         phase'[s] = "next" => GoesOnRight(s),
         phase'[s] = "write" /\ IsArticle(s) /\ response'[s] # "ok" => owed'[s] = {}
  PROVE  OwesAt(s)'
  <1>1. TypesAt(s) /\ Domains /\ key' = key /\ cmd' = cmd
    BY TypesOfOne DEF Leaves, request
  <1>2. owed'[s] \subseteq owed[s]
    <2>1. owed[s] \subseteq Groups
      BY <1>1 DEF TypesAt
    <2> QED
      BY <2>1, <1>1, ExcuseStep DEF Leaves, Notes
  <1>3. \/ phase'[s] = "write"
        \/ phase'[s] = "next" /\ at[s] \in Providers /\ at'[s] = at[s] + 1
    BY <1>1 DEF Leaves, Goes, Answer, Continue, To, Set, Domains
  <1>4. ASSUME phase'[s] = "next", NEW g \in owed'[s] PROVE Due(s, g)'
    <2>1. Due(s, g)
      BY <1>2, <1>4 DEF OwesAt, Leaves
    <2>2. PICK p \in Providers : p >= at[s] /\ groupOf(p) = g /\ MayAsk(p, key[s])
      BY <2>1 DEF Due
    <2>3. g \notin checked'[s] /\ p # at[s]
      BY <1>4, <2>2 DEF GoesOnRight
    <2>4. p >= at'[s]
      BY <1>3, <1>4, <2>2, <2>3, ListTypes
    <2> QED
      BY <2>1, <2>2, <2>3, <2>4, <1>1 DEF Due, MayAsk
  <1>5. IsArticle(s)' <=> IsArticle(s)
    BY <1>1 DEF IsArticle
  <1> QED
    BY <1>3, <1>4, <1>5 DEF OwesAt, AtUpstream

LEMMA SessionOwes ==
  ASSUME NEW s \in Sessions, SessionTypes, Control, CacheInv, OwesAt(s), SessionNext(s)
  PROVE  OwesAt(s)'
  <1>1. TypesAt(s) /\ Domains /\ ControlAt(s) /\ age' = age
    BY TypesOfOne, SessionCache DEF Control, clock
  <1>2. CASE \/ SkipProvider(s) \/ GetConnFailed(s) \/ Exhausted(s) \/ Broken(s) \/ GroupRefused(s)
             \/ ArticleFound(s) \/ ArticleMissing(s) \/ ArticleDamaged(s) \/ ArticleOther(s)
             \/ GroupFound(s) \/ GroupNotThere(s) \/ Block(s) \/ NextMoved(s)
    BY <1>1, <1>2, HandlerLeaves, HandlerOwes, LeavesOwes
  <1>3. CASE GetConnOK(s) \/ GroupSelected(s)
    <2>1. /\ phase[s] \in {"next"} \cup AtUpstream /\ phase'[s] # "write"
          /\ key' = key /\ at' = at /\ checked' = checked /\ owed' = owed
      BY <1>1, <1>3 DEF GetConnOK, GroupSelected, TryProvider, AtProvider, AtUpstream, To, Set, Domains, request
    <2> QED
      BY <2>1, <1>1 DEF OwesAt, Due, MayAsk
  <1>4. CASE NextStat(s)
    <2>1. /\ cmd[s] = "NEXT" /\ cmd' = cmd /\ owed' = owed /\ owed[s] = {}
      BY <1>1, <1>4 DEF NextStat, ControlAt, IsArticle, request
    <2> QED
      BY <2>1 DEF OwesAt, IsArticle
  <1>5. CASE Written(s) \/ WriteFailed(s) \/ CloseSession(s)
    <2>1. phase'[s] \in {"idle", "closed"}
      BY <1>1, <1>5 DEF Written, WriteFailed, CloseSession, To, Set, Domains
    <2> QED
      BY <2>1 DEF OwesAt, AtUpstream
  <1>6. CASE RefusedCommand(s)
    BY <1>6, RefusedControl DEF OwesAt, AtUpstream
  <1>7. CASE ArticleCommand(s) \/ ReaderCommand(s)
    <2>1. PICK c \in Kinds, k \in Keys : Begin(s, c, k) /\ (k > 0 \/ c = "NEXT" => Group[s])
      BY <1>7, CommandControl
    <2>2. /\ phase'[s] = "next" /\ at'[s] = 1 /\ checked'[s] = {} /\ key'[s] = k
          /\ owed'[s] = IF c \in {"ARTICLE", "STAT"} THEN Owed(k) ELSE {}
      BY <2>1, BeginControl
    <2>3. \A p \in Providers : p >= 1
      BY ListTypes
    <2>4. ASSUME NEW g \in owed'[s] PROVE Due(s, g)'
      <3>1. g \in Owed(k)
        BY <2>2, <2>4
      <3>2. PICK p \in Providers : groupOf(p) = g /\ MayAsk(p, k)
        BY <3>1 DEF Owed
      <3> QED
        BY <3>1, <3>2, <2>2, <2>3, <1>1 DEF Owed, Due, MayAsk
    <2> QED
      BY <2>2, <2>4 DEF OwesAt
  <1> QED
    BY <1>2, <1>3, <1>4, <1>5, <1>6, <1>7 DEF SessionNext, Handle

(* As time passes and articles come, an old article stays old.             *)
LEMMA OwesStays ==
  ASSUME NEW s \in Sessions, OwesAt(s),
         \A l \in Late : age[l] = negCacheTTL => age'[l] = negCacheTTL,
         /\ phase'[s] = phase[s] /\ cmd'[s] = cmd[s] /\ key'[s] = key[s] /\ at'[s] = at[s]
         /\ checked'[s] = checked[s] /\ owed'[s] = owed[s] /\ response'[s] = response[s]
  PROVE  OwesAt(s)'
  <1>1. \A g \in owed[s] : Due(s, g) => Due(s, g)'
    BY DEF Due, MayAsk
  <1> QED
    BY <1>1 DEF OwesAt, IsArticle

THEOREM OwedIsServed == Spec => []Owes
  <1>1. Init => Owes
    BY DEF Init, Owes, OwesAt, AtUpstream
  <1>2. SessionTypes /\ Control /\ CacheInv /\ Owes /\ [Next]_vars => Owes'
    <2> SUFFICES ASSUME SessionTypes, Control, CacheInv, Owes, [Next]_vars PROVE Owes'
      OBVIOUS
    <2>1. ASSUME NEW s \in Sessions, SessionNext(s), NEW t \in Sessions PROVE OwesAt(t)'
      <3>1. CASE t = s
        BY <2>1, <3>1, SessionOwes DEF Owes
      <3>2. CASE t # s
        <4>1. age' = age
          BY <2>1, SessionCache DEF clock
        <4> QED
          BY <4>1, <3>2, <2>1, SessionControl, SessionStepTyped, OwesStays DEF Owes
      <3> QED
        BY <3>1, <3>2
    <2>2. CASE purgeNegCache \/ Tick \/ (\E l \in Late : Post(l)) \/ UNCHANGED vars
      <3>1. \A l \in Late : age[l] = negCacheTTL => age'[l] = negCacheTTL
        <4>1. CASE purgeNegCache \/ UNCHANGED vars
          BY <4>1 DEF purgeNegCache, vars, clock
        <4>2. CASE Tick
          <5> SUFFICES ASSUME NEW l \in Late, age[l] = negCacheTTL PROVE age'[l] = negCacheTTL
            OBVIOUS
          <5>1. age[l] >= 0 /\ ~(age[l] < 0)
            BY CacheConstants
          <5>2. age'[l] = Min({age[l] + 1, negCacheTTL})
            BY <4>2, <5>1 DEF Tick
          <5> QED
            BY <5>1, <5>2, AgeTicks
        <4>3. CASE \E l \in Late : Post(l)
          <5>1. PICK k \in Late : age[k] = -1 /\ age' = [age EXCEPT ![k] = 0]
            BY <4>3 DEF Post, Set
          <5>2. age \in [Late -> -1..negCacheTTL] /\ negCacheTTL \in Nat \ {0}
            BY CacheConstants DEF CacheInv, CacheTypes
          <5> QED
            BY <5>1, <5>2
        <4> QED
          BY <2>2, <4>1, <4>2, <4>3
      <3>2. UNCHANGED <<phase, request, at, checked, owed, response>>
        BY <2>2 DEF purgeNegCache, Tick, Post, vars
      <3> QED
        BY <3>1, <3>2, OwesStays DEF Owes, request
    <2> QED
      BY <2>1, <2>2 DEF Next, SessionNext, Owes
  <1> QED
    BY <1>1, <1>2, TypesAndControl, CacheExact, PTL DEF Spec

-----------------------------------------------------------------------------
LEMMA ExactTypes ==
  ASSUME SessionTypes, CacheInv, out \in [Providers -> Int], UpstreamAccounted
  PROVE  TypeOK
  <1>1. out \in [Providers -> 0..Cardinality(Sessions)]
    <2>1. ASSUME NEW p \in Providers PROVE out[p] \in 0..Cardinality(Sessions)
      <3>1. /\ Cardinality({s \in Sessions : upstream[s] = p}) <= Cardinality(Sessions)
            /\ Cardinality({s \in Sessions : upstream[s] = p}) \in Nat /\ Cardinality(Sessions) \in Nat
        <4>1. {s \in Sessions : upstream[s] = p} \subseteq Sessions /\ IsFiniteSet(Sessions)
          BY SearchAssumption
        <4> QED
          BY <4>1, FS_Subset, FS_CardinalityType
      <3> QED
        BY <3>1 DEF UpstreamAccounted
    <2> QED
      BY <2>1
  <1>2. n \in 0..negCacheMax
    BY CacheConstants DEF CacheInv, CacheTypes, NegCacheExact
  <1>3. {0, 1} = 0..1
    OBVIOUS
  <1>4. replies \in [Sessions -> 0..1] /\ at \in [Sessions -> 1..Len(providerList) + 1]
    BY <1>3 DEF SessionTypes, Stops
  <1> QED
    BY <1>1, <1>2, <1>4 DEF TypeOK, SessionTypes, CacheInv, CacheTypes, Phases, Kinds0, Responses

(* Whatever the clients send, however the providers fail: connections and  *)
(* cache entries are counted exactly, a client that is written to holds no *)
(* connection, and a number is only asked for in a newsgroup.              *)
THEOREM StateIsExact == Spec => []StateExact
  <1>1. SessionTypes /\ Control /\ CacheInv /\ out \in [Providers -> Int] /\ UpstreamAccounted => StateExact
    <2> SUFFICES ASSUME SessionTypes, Control, CacheInv, out \in [Providers -> Int], UpstreamAccounted
                 PROVE  StateExact
      OBVIOUS
    <2>1. TypeOK /\ NegCacheExact
      BY ExactTypes DEF CacheInv
    <2>2. SlowClientHoldsNone /\ PointerInGroup
      BY DEF Control, ControlAt, SlowClientHoldsNone, PointerInGroup, AtUpstream
    <2> QED
      BY <2>1, <2>2 DEF StateExact
  <1> QED
    BY <1>1, TypesAndControl, CacheExact, ConnectionsExact, PTL

(* A command gets one reply, and an article that a group has had for       *)
(* longer than a miss is remembered is served, or that group failed.       *)
THEOREM RepliesAreRight == Spec => []RepliesRight
  <1>1. Control /\ Owes => RepliesRight
    BY DEF Control, ControlAt, Owes, OwesAt, RepliesRight, OneReply, FoundIsServed
  <1> QED
    BY <1>1, TypesAndControl, OwedIsServed, PTL
=============================================================================
