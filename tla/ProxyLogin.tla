----------------------------- MODULE ProxyLogin -----------------------------
(***************************************************************************)
(* The proxy's client connections, from the listener to the log-out        *)
(* (Proxy.go 122-145, Server.go 93-316), and the user file they are        *)
(* checked against (ProxyHelper.go 57-85, passwd.go 47-135). Several       *)
(* listeners count connections that have not logged in in one counter;     *)
(* every connection has a goroutine that counts it out again, at login or  *)
(* at its end. proxyMutex guards CountConns and passwdMap, but a login     *)
(* takes it three times: for the password, the reload and the limits.      *)
(*                                                                         *)
(* There is one user. Its line in the file is a version (password, limit   *)
(* and expiry), or 0 when the file does not have it.                       *)
(***************************************************************************)
EXTENDS Integers, FiniteSets

CONSTANTS Listeners, Conns,
          Versions,         \* the versions of the user's line
          MaxConns,         \* a version's limit of connections, 0: none
          proxyMaxPreAuth,
          LoginTimeout      \* proxyLoginTimeout, in ticks

NoConn == "accept"

ASSUME LoginAssumption ==
  /\ IsFiniteSet(Listeners) /\ IsFiniteSet(Conns) /\ NoConn \notin Conns
  /\ 0 \notin Versions /\ MaxConns \in [Versions -> Nat]
  /\ proxyMaxPreAuth \in Nat \ {0} /\ LoginTimeout \in Nat \ {0}

VARIABLES lphase,     \* the connection a listener refuses, or "accept"
          phase,      \* where a connection's goroutine is
          preAuth,    \* its flag: still counted in proxyPreAuthConns
          window,     \* ticks until its login deadline
          session,    \* the version it logged in with, for ExpireAt
          proxyPreAuthConns, CountConns,
          passwdMap,  \* the version loaded, 0: not there
          file,       \* the version in the file, 0: not there
          expired,    \* the versions whose ExpireAt has passed
          reloadDue   \* a minute has passed since proxyCron

conns == <<lphase, phase, preAuth, window, session>>
world == <<file, expired, reloadDue>>
vars == <<conns, proxyPreAuthConns, CountConns, passwdMap, world>>

LoginPhases == {"open", "reload", "admit"}

TypeOK ==
  /\ lphase \in [Listeners -> Conns \cup {NoConn}]
  /\ phase \in [Conns -> LoginPhases \cup {"none", "refused", "welcome", "authed", "end", "ended", "closed"}]
  /\ preAuth \in [Conns -> BOOLEAN] /\ window \in [Conns -> 0..LoginTimeout]
  /\ session \in [Conns -> Versions \cup {0}]
  /\ proxyPreAuthConns \in 0..proxyMaxPreAuth + Cardinality(Listeners)
  /\ CountConns \in 0..Cardinality(Conns)
  /\ passwdMap \in Versions \cup {0} /\ file \in Versions \cup {0}
  /\ expired \subseteq Versions /\ reloadDue \in BOOLEAN

Init ==
  /\ lphase = [l \in Listeners |-> NoConn]
  /\ phase = [c \in Conns |-> "none"] /\ preAuth = [c \in Conns |-> FALSE]
  /\ window = [c \in Conns |-> LoginTimeout]
  /\ session = [c \in Conns |-> 0]
  /\ proxyPreAuthConns = 0 /\ CountConns = 0
  /\ \E v \in Versions : file = v /\ passwdMap = v
  /\ expired = {} /\ reloadDue = FALSE

Set(f, x, v) == [f EXCEPT ![x] = v]
To(c, ph) == phase' = Set(phase, c, ph)

(***************************************************************************)
(* serveNNTP                                                               *)
(***************************************************************************)
Accept(l, c) ==
  /\ lphase[l] = NoConn /\ phase[c] = "none"
  /\ proxyPreAuthConns' = proxyPreAuthConns + 1
  /\ IF proxyPreAuthConns' > proxyMaxPreAuth
     THEN To(c, "refused") /\ lphase' = Set(lphase, l, c) /\ UNCHANGED preAuth
     ELSE To(c, "open") /\ preAuth' = Set(preAuth, c, TRUE) /\ UNCHANGED lphase
  /\ UNCHANGED <<window, session, CountConns, passwdMap, world>>

(* 400 Too many connections *)
Refuse(l) ==
  /\ lphase[l] # NoConn
  /\ proxyPreAuthConns' = proxyPreAuthConns - 1
  /\ To(lphase[l], "closed") /\ lphase' = Set(lphase, l, NoConn)
  /\ UNCHANGED <<preAuth, window, session, CountConns, passwdMap, world>>

(***************************************************************************)
(* handleConnection before the login                                       *)
(***************************************************************************)
(* Mutant: every command starts the login window anew. *)
Command_ExtendsWindow(c) ==
  /\ phase[c] = "open" /\ window[c] > 0 /\ window' = Set(window, c, LoginTimeout)
  /\ UNCHANGED <<lphase, phase, preAuth, session, proxyPreAuthConns, CountConns, passwdMap, world>>

(* CAPABILITIES, MODE READER, AUTHINFO USER or a wrong command: answered.  *)
(* The read deadline stays what it was when the connection came.           *)
Command(c) ==
  /\ phase[c] = "open" /\ window[c] > 0
  /\ UNCHANGED vars

(* AUTHINFO PASS, with the password of a version: verifyPassword takes the *)
(* loaded users. A wrong password costs the connection.                    *)
Verify(c, v) ==
  /\ phase[c] = "open" /\ window[c] > 0
  /\ To(c, IF v # 0 /\ v = passwdMap /\ v \notin expired THEN "reload" ELSE "end")
  /\ UNCHANGED <<lphase, preAuth, window, session, proxyPreAuthConns, CountConns, passwdMap, world>>

(* QUIT, a read or write error, or the client goes. *)
Leave(c) ==
  /\ phase[c] \in {"open", "authed"} /\ To(c, "end")
  /\ UNCHANGED <<lphase, preAuth, window, session, proxyPreAuthConns, CountConns, passwdMap, world>>

WindowRuns(c) ==
  /\ phase[c] = "open" /\ window[c] > 0 /\ window' = Set(window, c, window[c] - 1)
  /\ UNCHANGED <<lphase, phase, preAuth, session, proxyPreAuthConns, CountConns, passwdMap, world>>

(* 400 Login timeout *)
LoginTimesOut(c) ==
  /\ phase[c] = "open" /\ window[c] = 0 /\ To(c, "end")
  /\ UNCHANGED <<lphase, preAuth, window, session, proxyPreAuthConns, CountConns, passwdMap, world>>

(***************************************************************************)
(* login                                                                   *)
(***************************************************************************)
(* A file without a user that can log in, or that cannot be read, keeps    *)
(* the users loaded before.                                                *)
loadPasswdFile ==
  \/ passwdMap' = IF file = 0 \/ file \in expired THEN passwdMap ELSE file
  \/ UNCHANGED passwdMap

(* At most one reload a minute; proxyCron is set before it. *)
Reload(c) ==
  /\ phase[c] = "reload" /\ To(c, "admit")
  /\ IF reloadDue THEN reloadDue' = FALSE /\ loadPasswdFile
                  ELSE UNCHANGED <<reloadDue, passwdMap>>
  /\ UNCHANGED <<lphase, preAuth, window, session, proxyPreAuthConns, CountConns, file, expired>>

(* Mutant: the limit is compared with one too many. *)
MayLogin_OneMore ==
  /\ passwdMap # 0 /\ passwdMap \notin expired
  /\ MaxConns[passwdMap] > 0 => CountConns <= MaxConns[passwdMap]

MayLogin ==
  /\ passwdMap # 0 /\ passwdMap \notin expired
  /\ MaxConns[passwdMap] > 0 => CountConns < MaxConns[passwdMap]

(* Under proxyMutex: what the user is allowed now. *)
Admit(c) ==
  /\ phase[c] = "admit"
  /\ IF MayLogin
     THEN /\ CountConns' = CountConns + 1 /\ session' = Set(session, c, passwdMap)
          /\ To(c, "welcome")
     ELSE To(c, "end") /\ UNCHANGED <<CountConns, session>>
  /\ UNCHANGED <<lphase, preAuth, window, proxyPreAuthConns, passwdMap, world>>

(* login returned: the connection is no longer one before its login. *)
LoggedIn(c) ==
  /\ phase[c] = "welcome" /\ To(c, "authed")
  /\ preAuth' = Set(preAuth, c, FALSE) /\ proxyPreAuthConns' = proxyPreAuthConns - 1
  /\ UNCHANGED <<lphase, window, session, CountConns, passwdMap, world>>

(***************************************************************************)
(* After the login                                                         *)
(***************************************************************************)
(* Mutant: the expiry is looked up in the loaded users. *)
SessionExpires_LooksUp(c) ==
  /\ phase[c] = "authed" /\ session[c] = passwdMap /\ session[c] \in expired /\ To(c, "end")
  /\ UNCHANGED <<lphase, preAuth, window, session, proxyPreAuthConns, CountConns, passwdMap, world>>

(* The read deadline is not past the expiry the session logged in with,    *)
(* and the next command gets 480.                                          *)
SessionExpires(c) ==
  /\ phase[c] = "authed" /\ session[c] \in expired /\ To(c, "end")
  /\ UNCHANGED <<lphase, preAuth, window, session, proxyPreAuthConns, CountConns, passwdMap, world>>

(* Mutant: the user's connection is counted out only if it ended well. *)
Cleanup_OnlyUnexpired(c) ==
  /\ phase[c] = "end" /\ To(c, "ended")
  /\ CountConns' = IF session[c] # 0 /\ session[c] \notin expired THEN CountConns - 1 ELSE CountConns
  /\ UNCHANGED <<lphase, preAuth, window, session, proxyPreAuthConns, passwdMap, world>>

(* The deferred functions run in turn: first the user's count ...          *)
Cleanup(c) ==
  /\ phase[c] = "end" /\ To(c, "ended")
  /\ CountConns' = IF session[c] # 0 /\ CountConns > 0 THEN CountConns - 1 ELSE CountConns
  /\ UNCHANGED <<lphase, preAuth, window, session, proxyPreAuthConns, passwdMap, world>>

(* ... then the count of those before their login. *)
Ended(c) ==
  /\ phase[c] = "ended" /\ To(c, "closed")
  /\ proxyPreAuthConns' = IF preAuth[c] THEN proxyPreAuthConns - 1 ELSE proxyPreAuthConns
  /\ preAuth' = Set(preAuth, c, FALSE)
  /\ window' = Set(window, c, LoginTimeout) /\ session' = Set(session, c, 0)
  /\ UNCHANGED <<lphase, CountConns, passwdMap, world>>

(***************************************************************************)
(* External: the administrator and the clock                               *)
(***************************************************************************)
EditFile(v) ==
  /\ file' = v /\ v # file
  /\ UNCHANGED <<conns, proxyPreAuthConns, CountConns, passwdMap, expired, reloadDue>>

Expire(v) ==
  /\ v \notin expired /\ expired' = expired \cup {v}
  /\ UNCHANGED <<conns, proxyPreAuthConns, CountConns, passwdMap, file, reloadDue>>

MinutePasses ==
  /\ ~reloadDue /\ reloadDue' = TRUE
  /\ UNCHANGED <<conns, proxyPreAuthConns, CountConns, passwdMap, file, expired>>

Goroutine(c) ==
  \/ WindowRuns(c) \/ LoginTimesOut(c) \/ Reload(c) \/ Admit(c) \/ LoggedIn(c)
  \/ SessionExpires(c) \/ Cleanup(c) \/ Ended(c)

Next ==
  \/ \E l \in Listeners : Refuse(l) \/ \E c \in Conns : Accept(l, c)
  \/ \E c \in Conns : \/ Goroutine(c) \/ Command(c) \/ Leave(c)
                      \/ \E v \in Versions \cup {0} : Verify(c, v)
  \/ \E v \in Versions \cup {0} : EditFile(v)
  \/ \E v \in Versions : Expire(v)
  \/ MinutePasses

Spec == Init /\ [][Next]_vars

(* A connection's goroutine goes on and its deadlines run out. Clients,    *)
(* the administrator and the expiry of an account owe nothing.             *)
FairSpec ==
  /\ Spec
  /\ \A l \in Listeners : WF_vars(Refuse(l))
  /\ \A c \in Conns : WF_vars(Goroutine(c))

(***************************************************************************)
(* Properties                                                              *)
(***************************************************************************)
(* proxyPreAuthConns is the number of connections before their login, and  *)
(* of those a listener is about to refuse: each is counted out once, by    *)
(* the login, the deferred function or the listener (Server.go:103-108,    *)
(* Server.go:221-222, Proxy.go:136-143).                                   *)
PreAuthExact ==
  proxyPreAuthConns = Cardinality({c \in Conns : preAuth[c]})
                      + Cardinality({l \in Listeners : lphase[l] # NoConn})

(* However many listeners accept at once, no more than proxyMaxPreAuth     *)
(* connections are served before their login (Proxy.go:136-141).           *)
PreAuthBounded == Cardinality({c \in Conns : phase[c] \in LoginPhases}) <= proxyMaxPreAuth

(* CountConns is the number of the user's sessions that have not ended,    *)
(* whatever became of the user's line meanwhile: a count that stays too    *)
(* high locks the user out until a restart (Server.go:124-135, 290).       *)
CountExact ==
  CountConns = Cardinality({c \in Conns : session[c] # 0
                                          /\ phase[c] \in {"welcome", "authed", "end"}})

(* A login counts against the limit and the expiry that hold when it is    *)
(* let in, also when they have changed since its password was checked      *)
(* (Server.go:270-289).                                                    *)
LoginWithinLimits ==
  [][CountConns' > CountConns =>
       /\ passwdMap # 0 /\ passwdMap \notin expired
       /\ MaxConns[passwdMap] > 0 => CountConns' <= MaxConns[passwdMap]]_vars

(* No reload leaves the proxy without users: an empty or unreadable file   *)
(* would lock everyone out (ProxyHelper.go:53-56).                         *)
UsersStay == passwdMap # 0

(* Every connection logs in or is closed within the login window, whatever *)
(* its client sends: the places before the login are never all taken for   *)
(* good (Server.go:153-161).                                               *)
LoginEnds == <>[](\A c \in Conns : phase[c] \notin LoginPhases)

(* A session does not outlive the account it logged in with, also when the *)
(* client sends nothing and the user has a new line (Server.go:154-158,    *)
(* 308-311).                                                               *)
SessionsExpire ==
  <>[](\A c \in Conns : session[c] \in expired => phase[c] \in {"end", "ended", "closed"})
(* Both counters are exact and bounded, and the users are there, whatever  *)
(* becomes of connections, accounts and the user file.                     *)
CountersExact == TypeOK /\ PreAuthExact /\ PreAuthBounded /\ CountExact /\ UsersStay
=============================================================================
