# NZBreX in TLA+

NZBreX checks the articles of an NZB file on several Usenet providers,
downloads the ones it needs into memory and a disk cache, and uploads them to
the providers that miss them. It also runs as an NNTP proxy, has a web
interface with a job queue, can watch a directory for NZB files, and can write
the decoded files. This directory holds TLA+ models of its concurrent parts,
their TLC configurations, and machine-checked proofs (TLAPS).

File names like `Workers.go` are files of the repository's root.

## 1. Inventory

### Parts, their state and their operations

| part | code | state | operations |
|---|---|---|---|
| memory limiter | `MemLimit.go` | `memchan` (free slots), `memdata` (owners), `pending` (who waits for an item), `waiting` | `MemLockWait`, `MemReturn`, `MemReturnIfHeld`, `MemAvail` |
| connection pool | `ConnPool.go` | `openConns`, channel `pool`, `dialSem`, `provider.down` | `GetConn`, `NewConn`, `ParkConn`, `CloseConn`, `KillConnPool` |
| worker | `Workers.go` `GoWorker` | `sharedCC` (one connection or nil), three routines (check, download, upload) | boot, one item at a time, final park |
| work divider | `Workers.go` `GoWorkDivider` | the counts of a round, `closeWait`, `closeCase`, progress watchdog, `deadWorkersDeadline` | a scan of all items per round, `pushDL`, `pushUP`, retire, quit |
| item | `Config.go` `segmentChanItem` | the provider maps (`availableOn`, `missingOn`, ...), the flags (`flaginDL`, `flagisDL`, `flaginUP`, ...), `article`, `memlocked`, `fails`, `retryIn` | shared by all of the above under `item.mux` |
| check | `feedCheckChan`, `checkItem`, `GoCheckRoutine` | check channels, `checkedOn`, `checkerGroup` | feed, STAT, retry, mark failed, exit |
| cache | `Cache.go` | files, channels of readers, checkers and writers | `CacheReader`, `CacheWriter`, `Add2Cache` |
| yEnc output | `Cache.go`, `Yenc.go` | `yenc_writer_chan`, `yencQueueCnt`, `flaginYenc`, part and target files | `WriteYenc`, `YencWriter`, `YencMerge` |
| session | `Session.go` | `stopChan`, session map, channels per group, wait groups | launch, boot, `StopRoutines`, `releaseMemSlots`, teardown, clear, remove |
| job queue | `webjobs.go` | jobs, the running one, `wake`, uploaded files | add, start, stop, delete, run |
| web server | `webserver.go` | upload directory | handlers that call the job queue, shutdown on a signal |
| directory watcher | `nzbdir.go` | `stop`, `current`, `pending`, `skip`, files | scan, process one file, move, stop |
| proxy commands | `Server.go`, `Proxy.go`, `ProxyHelper.go` | client sessions (selected newsgroup, provider, article), not-found cache | article commands over all providers, newsgroup commands |
| proxy login | `Server.go`, `Proxy.go`, `passwd.go` | `proxyPreAuthConns`, `CountConns` of a user, `passwdMap` and its file | accept, login, reload, log-out, expiry |
| counters | `Counter_uint64.go`, `Utils.go` | named counters clamped at 0 | `Incr`, `Decr`, `Add` |
| the rest | decoders, web login, flags, results | | one lock and one request at a time, or sequential, or pure I/O |

### How they interact

The divider is the only sender on the download and upload channels of a
provider group; the routines of all workers of that group receive from them.
A download routine takes a memory slot, then the worker's shared connection
(through `SharedConnGet`, which may fall back on the pool), then runs ARTICLE,
queues the decoded part for the yEnc writers, hands the item to the cache
writer and gives the slot back, or leaves it to the cache writer, to the
upload, to the divider, or to the end of the session. Upload routines do the
same with IHAVE or POST. Everybody writes the item's flags under `item.mux`;
the divider reads them in its scan under the read lock and acts on them later
under the write lock. `stopChan` of the session ends every wait; `memlim`,
`GCounter`, `cache` and its writers are global and outlive a session.

A session is launched by the command line, by the job queue's one runner, or
by the directory watcher, one at a time. The HTTP handlers and the signal
handler change the jobs under `jq.mu` while the runner works on them. The
proxy's sessions share the pools and the not-found cache; they never launch
workers.

### What is hard

* a slot, a queue count, a connection or a token that one of some thirty paths
  forgets to give back, or gives back twice;
* decisions on state read under an earlier lock (the divider's scan,
  `checkersGone`, `GetConn`'s look at `openConns`, the runner's next job, the
  password that was checked before a reload);
* flags cleared in one critical section and again in a later one;
* who waits for whom: items for slots, routines for the token, callers of
  `MemLockWait` for each other, the divider for the counts to add up, feeders
  for check routines that gave up, wait groups for routines that never start;
* a stop at any point, provider failures at any point, a killed process
  between two writes of a file.

`PROJECT.json` lists each of these under `hazards`, at its line, with the
properties that are about it.

### What makes each part correct

Limiter: slots conserved, one waiter per item, no lost wakeup, every call
returns, a stop ends every wait. Pool: `openConns` exact, never above
`MaxConns`. Worker: exactly one token, every waiter gets it. Check phase: every
check counted once, the divider gives up only when nobody can check any more,
`LaunchSession` waits for exactly what runs. Transfer: queue counts exact,
flags mean work, no slot left behind, a session ends.
yEnc output: the merge waits for every part, takes none that is torn, loses
none. Job queue: one session at a time, in order, a job runs once and ends in
one final state, its upload goes with it. Directory watcher: no file lost or
run twice, a stop reaches the session. Proxy: one reply per command, no
connection kept, a found article is served, counters return to 0, nobody holds
a place for ever.

## 2. Modules

| module | models | built on |
|---|---|---|
| `SlotService` | what the limiter promises: the abstract specification | |
| `MemLimiter` | `MemLimit.go` | refines `SlotService` |
| `MemLimiterProofs` | theorems about `MemLimiter` | `MemLimiter`, `TLAPS` |
| `ConnPool` | `GetConn`, `NewConn`, `ParkConn`, `CloseConn` step by step | |
| `ProxyPool` | proxy clients sharing a pool | `ConnPool` |
| `SharedConn` | workers and their routines sharing one connection each, down to `KillConnPool` | `ConnPool` |
| `CheckPhase` | a session's boot, feeders, check routines, the divider's rounds and the wait groups, to the session's end | |
| `Transfer` | items, divider, download and upload routines, cache writer, end of the session | |
| `YencOutput` | `WriteYenc`, the yEnc writers, the divider's wait for them, `YencMerge`, restarts | |
| `JobQueue` | the queue of web jobs, its handlers, its runner, the shutdown, `sessMap` | |
| `DirWatcher` | directory mode, its stop, restarts | |
| `ProxySearch` | the commands of logged-in proxy clients and the not-found cache | |
| `ProxyLogin` | the proxy's connections from the listener to the log-out, and the user file | |
| `ConnPoolProofs` | lemmas about the steps of `GetConn`; theorems about the proxy's pool and a session's connections | `ProxyPool`, `SharedConn`, `TLAPS` |
| `FilesProofs` | theorems about the directory watcher's files and the yEnc output's | `DirWatcher`, `YencOutput`, `TLAPS` |
| `CheckPhaseProofs`, `TransferProofs`, `JobQueueProofs`, `ProxySearchProofs`, `ProxyLoginProofs` | theorems about the module of that name | that module, `TLAPS` |
| `MC...` | the instances for TLC, one per module with runs | |

A session is cut along time and resource: `CheckPhase` from boot to end with
no transfer work, `Transfer` from the end of the check, `SharedConn` for the
connections, `MemLimiter` for the slots, `YencOutput` for the decoded parts.
What crosses a cut is left open on both sides: `Transfer` starts from every
combination of check results, its `GetConn` fails or not, `SharedConn`'s
routines work as long as they like, `MemLimiter`'s callers ask for any item at
any time, `YencOutput`'s downloads succeed or not.

Helpers ending in a suffix and marked "mutant" (`OpenTmp_Truncates`) are deliberately
wrong forms of the definition below them. No specification uses them; each one
put in place of its original makes TLC find a property of some run violated,
which shows that the property can fail. `PROJECT.json` pairs them.

### MemLimiter

One action per step between two operations on `m.mux` or a channel. `pc` says
where a caller of `MemLockWait` is: `enter` (before the lock), `other` (waits
for the done channel of the caller in `other[c]`), `try` (the first select),
`select` (the second), `record` (before the second lock). `tokens` is
`len(memchan)`; `pending` maps an item to the caller whose done channel is in
the map. `MemReturn` deletes the owner under the lock, `Refill` sends the
token after the unlock. `CloseDone` is the close of the done channel. `MemAvail`
reads `waiting`. Who calls it with which item is left open: any caller, any
item, any time, and any returner may return any item, owned or not, as
`MemReturn` documents.

### ConnPool, ProxyPool, SharedConn

`pc` follows `GetConn`: `loop` (first select), `closeOld` and `closeExpired`
(an idle connection over 30 s, or 20 s, old was taken), `check` (the look at
`openConns`), `full` (the infinite wait), `new`, `sem`, `dial` (in `NewConn`).
`stale[c]` is the named result `err` left over from an earlier iteration.
`holds` is the `ConnItem` a client has: `dead` is one with a nil `conn` that
`readDotLines` closed already. `lost` is a history variable: connections
dropped by a caller that got one together with an error (`Forget`).

`ProxyPool` has clients that run commands for ever. `SharedConn` adds the
channel `sharedCC` of each worker (`cc`: empty, nil, or a connection), the
routines' way through `SharedConnGet`, the outcome of the command, the worker's
boot and final park, and the teardown.

### CheckPhase

A boot goroutine per provider, workers, a feeder per group, a check routine
per worker, the divider, `LaunchSession` and a stop. The four wait groups are
counters. A check ends with an answer, breaks (once more on a fresh connection,
then an error counts), or gets no connection; what the answer was is
`Transfer`'s Init. `checkersGone` and `checked` are the divider's copies of a
round, read at different times, as in the code. After the items are all
checked a close case matches, as it always does with `-checkonly`.

### Transfer

Starts when every item has been checked on every provider group; `CheckResult`
is what a check leaves on an item, for every combination of answers in
`Checked`. Each action is one critical section on `item.mux`, or one channel
operation, with what happens up to the next one that another goroutine could
see. The download and upload routines of a provider are `dn[p]` and `up[p]`;
the divider is at an item `pos.n` and does `pos.at` with it: `scan` reads the
item under the read lock, `retire`, `up`, `dl` act on it later. `acc` holds
the counts of the round, as the code's local variables do.

What is abstracted, and why it is sound for the properties checked:

* one connection and so one download and one upload routine per provider;
  several providers may share a group and its channels, which gives the same
  competition for items as several connections;
* `GetConn` fails or not (`Flaky` says on which providers it may, and the
  provider may go down); its protocol is `SharedConn`'s;
* slots are counted; waiting for one is `MemLimiter`'s protocol;
* consecutive critical sections of one routine without a visible change in
  between are one step (the loop over the providers of a group);
* `retryIn` is a flag that time may clear (`RetryElapsed`), the 5 and the 15
  second delays are not told apart;
* providers that take neither IHAVE nor POST but stream are not counted in
  `postProviders`, as if there were none;
* the force quit after 15 idle rounds is scaled down to `CloseLimit`, the
  watchdog of 3 minutes without progress may fire at the end of any round;
* `-checkfirst`, `-checkonly`, `-bypassstat`, `-yencout` and `-uploadlater`
  are off.

### YencOutput

`dl[p]` is where the download routine of an item is: `asked`, then the three
steps of `WriteYenc` (flag, send, count), then the flags after code 220. A
writer's record says where `YencWriter` is, whose item it has, of which
session, and under which name the file it has open is known by now, since
another writer of the same part may rename it. A file is a sequence of what was
appended, the empty one being no file; `torn` is a part whose copy has not been
synced. A file's merge takes its items in the order of `segmentList`: `Places`
are where they are. `Init` chooses which files are `.par2` files. The divider reads one item
per step and the counter at the end of the round. A session may be stopped or
given up at any round; the same NZB is then run again, in the same process
(`NextSession`, with the channel and the writers as they are) or after the
process ended or was killed at any step (`Restart`). The articles of any set of
decoded parts may be in the cache by then; they are not decoded again, as in the
code.

### JobQueue

Each critical section on `jq.mu` is an action; `act` says where a handler or
the shutdown is between two of them, `runner` where the runner is. Jobs are
numbered in the order they are added. `uploads` are the files in the upload
directory, `sessMap` the sessions that have not been removed.

### DirWatcher

`pending` and `skip` are the watcher's maps, `todo` what the last scan found,
`pc` where `loop` is down to `runSession` and the move. Files are known by the
number of their last write. `Stop` is two critical sections apart, as it closes
`stop` before it looks at `current`. A stopped or killed process may be started
again.

### ProxySearch

One action per answer of an upstream and per write to the client. `at` is the
provider in the loop, `upstream` the one whose connection is held, `owed` and
`checked` are history: which groups must, and did, say whether they have the
article. `negCache` counts down to 0 with `Tick`; the janitor removes what ran
out. A `Late` article is posted while clients look for it.

### ProxyLogin

One action per critical section or deadline of a connection: it is accepted
and counted, talks before its login, sends its password (`Verify`, against the
users loaded then), reloads the user file, is admitted under the limits loaded
by then, and ends through the deferred functions in their order. The
administrator edits the file at any time, with an empty file as one of the
edits.

## 3. Runs

| run | instance | checks |
|---|---|---|
| `MemLimiter` | 3 callers, 2 returners, 3 items, `-mem 0` (2 slots), 1 call each | safety, refinement of `SlotService`, `EveryCallReturns` if holders return their slots, `StopEndsWait` even if nobody does |
| `ProxyPool` | 3 clients, 2 connections, 1 dial at a time, 2 tries, symmetric | `ProxyConnsExact`; `PoolBounded`: the limit, room to park |
| `SharedConn` | 2 workers, 3 routines, 2 connections | `ConnsAccounted`: one token, the count; nobody waits in `GetConn`; `TokenComes`, `SessionEnds` |
| `CheckPhase` | 3 providers in 2 groups, 3 workers, 2 items, channels of 1 | `CountsExact`: items, check routines and waits; `GivesUpRightly`; `SessionEnds` |
| `TransferUpload` | 1 item, cache, 3 providers in 2 groups, IHAVE and POST, all answers but 436, a provider that goes down | `ItemsAccounted`: counts and flags; slots (`DeadHoldsNoSlot`, `QuitLeavesNoSlot`); `SessionEnds` |
| `TransferSlots` | 2 items, `-dlall`, 3 providers of which one has `NoDownload`, 1 slot, IHAVE, 436 and 437, no cache | `ItemsAccounted` when items compete for a slot |
| `YencOutput` | 1 file of 1 part, ordinary or `.par2`, 2 writers, a channel of 1, `-yencdelparts`, 2 sessions in one process or in two | `PartsReady`: the count, whole parts; `PartsKept`, `MergedHasParts`, `SessionEnds` |
| `JobQueue` | 2 handlers (1 may upload), 3 jobs, 2 pending, 1 finished, `SessThreshold` 1 | `QueueConsistent`: limits, uploads, one session, no lost wake; `JobsGoForward`: order, life cycle; stop, jobs and shutdown end |
| `DirWatcher` | 2 names, 3 writes, 2 starts | `WatcherConsistent`, `FilesKept`: nothing lost, nothing twice; stop ends, all files are taken |
| `ProxySearch` | 2 sessions, 3 providers in 2 groups, 1 article number, a cache of 2, TTL 1, 2 ticks, 2 + 1 commands | `StateExact`: connections, cache, pointer; `RepliesRight`; every command answered |
| `ProxyLogin` | 2 listeners, 3 connections, 2 versions of the user (limits 1 and 2), 1 place before login, window of 2 ticks | `CountersExact`, both counters; `LoginWithinLimits`; login and session end |
| `NoSlotDeadlock` | 2 items, 3 providers in 3 groups, 1 slot, 437 | see section 5: the code violates it |

Several of these properties are conjunctions of named parts, defined at the end
of each module, each with its own comment: the type invariant and what the
variables owe each other in one state go together, as do the parts that say what
a step may not do.

`Stop`, cache write failures and the watchdog may happen at any time in the
runs of `Transfer`, failures of the connections of the providers in `Flaky`
too. What `SessionEnds` shows is that it ends without `Stop` and without the
watchdog. A server that answers 436 (try later) for ever keeps a cached item in
retry for ever, as each deferral counts as work done for the watchdog and
raises no `fails`: the runs with `SessionEnds` leave that answer out, and the
repository does not promise otherwise.

### Bounds

`MaxCalls` bounds the calls per caller; returned slots let a caller be both the
waiter and the one waiting behind another. Three callers and three items over
two slots give a waiter, a waiter behind it, and an owner at once. One slot and
two items are the smallest instance in which an item waits for another's slot;
one place per channel (`ChanSize`, `chanSize`) the smallest in which a push
finds it full. Three providers in two groups give a sibling (same group), and
another target for the upload. `MaxItemFails` is the code's 3. `CloseLimit` is
3 instead of 15: the starting value 1, one idle round more, force quit.
`DialParallel` is 1, so that the semaphore is contended; `MaxConnErrors` is 1
or 2, so that both a retry and a give-up occur. `maxCheckNoConn` is 1 and
`DeadWorkersRounds` 1, instead of 3 and 9: each counter's reset and its end are
reached.

Three jobs give one running, one waiting and one to be added or dropped while
a finished one is; two handlers race for one of them. Two names and three
writes let a name come again while another is run; two starts let what a
killed process forgot matter. A cache of two entries is full with one article
missing in both groups, and must refuse the next. Two ticks let an entry run
out and be made again. One place before login and three connections over two
listeners make a refusal race an accept; limits 1 and 2 tell an old version of
the user from a new one.

One part and two writers let a writer left over from a session that was given
up meet another with the same part; with more parts the merge adds one after the
other, which is a loop over what the run checks. Two sessions show what a killed
process or a lost count leaves to the next; two parts, or three sessions, are
beyond TLC's reach together with the restart at any step.

Deadlock is checked in `JobQueue` and `DirWatcher`. In the other runs callers
that made all their calls, sessions that ended and a proxy whose clients wait
at a full pool stop. Waiting that should end is a liveness property there.

### Fairness

Weak fairness of each goroutine's next step: Go runs every goroutine that can
run. Dials have a timeout, commands a read deadline, file operations end.

* A channel serves its receivers in order. So a routine that waits for the
  shared connection is strongly fair to the token (`TakeConn`, `TakeNil`), so
  is a caller at the dial semaphore, and in `Transfer` so is a provider that
  shares its group's channels with another one (`DnTake`, `UpTake`).
* `MemLimiter`'s `EveryCallReturns` has the premise that owners return their
  slots (`HoldersReturn`): it is what the callers owe.
* `CheckPhase`: some goroutine that can go on does (`Progress`), and the
  divider does; there is an end to what the others can do, so each gets its
  turn. Idle routines need not give up early.
* `YencOutput`: the 3-minute watchdog is relied upon only when a count was
  lost (`CountLost`), and strongly, as its time is over at the end of some
  round.
* `JobQueue`: the runner, handlers that have begun, the shutdown, and a stopped
  session, which ends (`SharedConn`, `CheckPhase` and `Transfer` show that).
  `EveryJobEnds` has the premise that sessions end.
* `DirWatcher`: the loop, `Stop`, and a stopped session. `select` picks at
  random between a stop and the ticker, so the stop is picked in the end (SF).
* `ProxySearch`, `ProxyLogin`: a session's handler, a connection's goroutine
  and its deadlines, a listener that refuses.

Nothing assumes that a stop comes, that the watchdog of `Transfer` fires, that
a connection works, or that a client or an administrator does anything. In
`SharedConn` no work is owed: routines may stop taking items.

### What the runs show

* **Limits and counts.** Slots, connections, tokens, queue counts, wait groups
  and login counts are exact on every path the models have, with any stop,
  failure or restart in between; the one exception is `yencQueueCnt`, which
  may be too high and is never too low.
* **Ends.** A session ends by itself after its check, after a transfer in
  which no server defers for ever and no two items deadlock over a slot
  (section 5), and after the yEnc output. A stopped session ends in any case.
  Every waiting job, every file of the directory, every proxy command and
  every login attempt comes to its end.
* **Order and memory.** The runner takes jobs in order and runs none twice; a
  canceled one never. The divider never gives up on an item somebody may still
  check. No miss is remembered longer than its time, so an article that is
  there that long is found unless its providers fail.
* **Files.** The directory watcher loses none, the merge of an ordinary file
  loses no part, and a part file is whole whenever it is there, over two
  sessions.

## 4. Proofs

`MemLimiterProofs` proves, for any number of callers, returners, items and
slots, every safety property the run `MemLimiter` checks, and that
`MemLimiter` implements `SlotService`; and three facts that need no run beside
them: its type invariant `TypeOK`, `ChanNotFull` (the channel has room for a slot
that comes back) and `WaitingExact` (what `MemAvail` reads). The assumptions are the module's own
(`SetsAssumption`: the sets are finite, callers and returners are disjoint,
`None` is neither a caller nor an item; `ValuesAssumption`: the numbers are
integers).

The invariant `IInv` is a conjunction of two parts. `ControlInv`: types; who
is in `try`, `select` or `record` is the caller `pending` names for its item,
the item is not owned, and a caller in `other` waits for such a caller. It is
needed because `Record` deletes `pending[item]` without looking whose it is:
only if there is one waiter per item is that entry its own. `CountInv`: the two
sums, of `tokens`, owners and slots in flight, and of `waiting`. Each part has
a lemma with one step per action (`ControlStep`, `CountStep`); the second uses
the first, as adding an item to `memdata` raises its cardinality only if the
item was not owned. `NeverFull` follows from conservation: a returner in
`refill` has one slot in flight, so fewer than `MemMax` are in the channel.

For the refinement, `SlotBound` gives the abstract guard of `Grant` (the owned
items plus the new one are at most `MemMax`) and `ServiceStep` maps each
action to a step of `SlotService` or to a stutter.

The other theorems, each for every value of the constants:

| module | theorem | property |
|---|---|---|
| `ConnPoolProofs` | `OpenConnsAlwaysExact`, `PoolAlwaysBounded` | `ProxyConnsExact`, `PoolBounded` |
| `ConnPoolProofs` | `ConnsAlwaysAccounted`, `SessionNeverWaitsAlways` | `ConnsAccounted`, `SessionNeverWaits` |
| `CheckPhaseProofs` | `CountsAlwaysExact`, `AlwaysGivesUpRightly` | `CountsExact`, `GivesUpRightly` |
| `TransferProofs` | `ItemsAlwaysAccounted`, `DeadNeverHoldsSlot` | `ItemsAccounted`, `DeadHoldsNoSlot` |
| `JobQueueProofs` | `QueueAlwaysConsistent`, `JobsAlwaysGoForward` | `QueueConsistent`, `JobsGoForward` (an action property) |
| `ProxyLoginProofs` | `CountersAlwaysExact`, `LoginAlwaysWithinLimits` | `CountersExact`, `LoginWithinLimits` (an action property) |
| `ProxySearchProofs` | `StateIsExact`, `RepliesAreRight` | `StateExact`, `RepliesRight` (an action property) |
| `FilesProofs` | `WatcherAlwaysConsistent`, `FilesAlwaysKept` | `WatcherConsistent`, `FilesKept` (an action property) |
| `FilesProofs` | `PartsAreCounted`, `MergedAlwaysHasParts` | `TypeOK` and `NeverUndercounts`; `MergedHasParts` (an action property) |
| `FilesProofs` | `PartsAlwaysReady`, `PartsAlwaysKept`, both for `MaxSessions <= 2` | `PartsReady`, `PartsKept` (an action property) |

All of them are proved of the specification without fairness. Each has an
inductive invariant `Inv` and shows `Init => Inv` and `Inv /\ [Next]_vars => Inv'`,
one lemma per action or group of actions. The invariants are called `IInv`, except
`WatchInv`, `YencInv` and `TwoInv` of `FilesProofs`, where two specifications meet,
and the four parts of `ProxySearchProofs`, each proved with the help of the ones before.

**Pool.** `PoolInv`: a client inside `GetConn` has nothing in hand and has
tries left, one with a connection got it from the last return, and `openConns`
is at most `MaxConns`. With it the count is inductive: each of the lemmas of
`ConnPoolProofs` says what a step adds to or takes from the owners and the idle
connections. They have a parameter `rest` for connections that are neither, so
that both models use them.

**Shared connection.** `Control` and `Tokens` say where the one token of a
worker is. That no goroutine waits in `GetConn` needs a count as well
(`Leftovers`): idle connections and forgotten ones come from workers that are
gone, so a caller never finds the pool full and empty at once, as `GoBootWorkers`
starts exactly `MaxConns` workers (`SharedAssumption`).

**Check phase.** `ChannelInv` and `AtWork`: a group's channel holds the items
that were fed and not received, in order, and no item is at two routines of a
group. So the providers that have checked an item are those whose group has
received it and is not at it (`ChecksInv`, with equality until a stop). `CountInv`
gives the wait groups as the numbers of routines they wait for. `DividerInv` is why
the divider gives up rightly: it has looked for check routines before it counts,
and once none is left the count is final.

**Transfer.** `ItemsAccounted` is nearly inductive. `FlagsFit` is added (an
article in memory was downloaded or comes from the cache; a downloaded item is
not in download), and that a routine has an item exactly when it is not idle.
The queue counts are sizes of sets (`Places` of the channels, `Busy` routines),
so each push, take and end of a routine is a lemma on cardinalities.

`DeadHoldsNoSlot` needs an invariant of its own, `SlotsInv`, which tells three
kinds of items apart. One that was downloaded, or stored, is available
somewhere for good. One that was in the cache is not worked on once every
provider misses it. Any other item is new: it is in one download channel or at
one download routine, once (`Once`), never in an upload, and as long as it waits
it has `flaginDL` and a provider that may have it; so it is only its own download
that finds it missing everywhere, and that routine gives the slot back.

**Job queue.** `StopsAll`: every job that waits while the shutdown stops its
snapshot is in the snapshot. `RunnerInv`: the running job is the runner's, and
what it has picked has nobody older ahead. `FilesInv`: which uploaded files are
still needed. The oldest job exists by the well-founded order of the numbers
(`Least`), and `YoungestBounded` is the bound on finished jobs that
`finishLocked` keeps.

**Proxy login.** `Control` says which connections still count as before their
login and that a listener refuses one connection at a time; the two counters
are then sizes of sets, and the limit holds for connections that are kept,
although a listener counts one before it looks.

**Proxy search.** `SessionTypes` and `Control` say that a session has an
upstream's connection exactly while it talks to it, so that `out` is a size
(`UpstreamAccounted`). `CacheInv`: the cache's counter is the number of entries
(`NegCacheExact`), an article that is held everywhere is never in it, and the entry
of an article that was posted `age` ticks ago runs out that much earlier than a
new one would (`Remembered`). `Owes` is why no found article is missed: a group that
must still say so (`Due`) has a provider ahead in the loop, is not among those checked, has the
article, and the cache does not deny it.

**Directory watcher.** `LoopInv`: the names of a scan all differ, and none of those
still to do is skipped. `StopInv`: `stop` is closed before anything else of a stop
happens, so a session that was launched late finds it. `RanInv`: what was run was
moved, or is being handled, or is skipped, or has been replaced by a later
write. `FilesKept` follows from these step by step.

**yEnc output.** `YencInv` holds over any number of sessions. The running session's
jobs are of parts that it handed over, and a part has its flag before it is sent
(`JobInv`); so nothing is in work that the flags or the count do not show
(`NeverUndercounts`). `RoundInv`: a round of the divider that has seen nothing in
flight so far has passed only parts at rest, so when it closes by the counts
nothing moves any more. Then each wanted part is a file (`DecodedInv`), and
`MergeInv` follows the merge through each target: what it has passed is in the `.tmp`,
or in the target, and what is ahead is still a file.

That a part file is whole needs the number of sessions. `TwoInv` has, besides
`WholeParts`, that a part is in at most one job of a session (`OneJob`), and that a
writer whose open file another one renamed is one of the only two that have its part
(`NamesInv`, `Overtaken`). Over three sessions both properties are false: TLC finds the
trace of section 5, with three writers. So `MaxSessions <= 2` is a hypothesis
of these two theorems, and not of the other two.

Assumptions: those the modules state (`PoolAssumption`, `SharedAssumption`,
`CheckAssumption`, `TransferAssumption`, `JobQueueAssumption`, `DirWatcherAssumption`,
`SearchAssumption`, `LoginAssumption`, `YencOutputAssumption`): sets of clients,
providers, workers, listeners and
connections are finite, limits are positive, a marker for "nothing" is no item,
job or connection, every provider has a group and at least one worker, the IHAVE
and POST providers are different ones. TLC evaluates them on every run.

The proofs changed the models. `Booted` of `CheckPhase` bound a quantifier
further than the code's loop. `FlagMeansWork` is false of an item of the cache
(section 5) and says so now. `DeadHoldsNoSlot` and `QuitLeavesNoSlot` used to say more,
of everything that counts as dead; larger instances refute that (section 5), and both
now say of which items the code keeps it.

`OldestFirst` of `DirWatcher` says that a scan's order is by age where it
used to choose a sort, and the merge of `YencOutput` works on the set of a file's
places where it used to filter a sequence: what was computed by recursion is stated as a
property, as the code's `sort` promises it.

Left to TLC: liveness, which needs ENABLED, and `QuitLeavesNoSlot` of `Transfer`.
Every other safety property of a passing run is stated by a theorem.
`QuitLeavesNoSlot` speaks of the divider's last step and of all its rounds before:
its scan of an item is older than the quit, and an invariant would have to say
of every item it has passed what can still change its verdict. It once said
that such an item has an upload target; TLC refutes that over two items, with
two providers that go down (section 5), and it says now that some provider,
down or not, still wants the item. Besides the run, TLC finished a search of that
instance of two items without an error. With refused uploads, whose late
`FlagError` takes the flag of an item in an upload channel, it searched two items
to a depth of 50 steps only, so the property is not claimed beyond these instances.

## 5. Where the code and its documentation disagree

One is a run that expects a violation; `PROJECT.json` quotes the text.

* `NoSlotDeadlock`: after an IHAVE answered 437 the slot is returned although
  the item waits for another upload (`Workers.go` 548): the deadlock the
  comment at 538-542 describes for the error path, which keeps the slot for
  that reason.

More follow from the modelled code and have no run of their own:

* `WriteYenc` counts `yencQueueCnt` after the send (`Cache.go` 323-325). A fast
  writer's decrement is dropped at 0, and the late increment stays for good, in
  later sessions too: the divider then ends by its watchdog only. `Utils.go` 749
  tells why the other queues count before the send. `CountLost` of `YencOutput`
  is that state.
* For a `.par2` with a missing part `YencMerge` says "not merging", but appends
  the later parts to a new `.tmp` (`Yenc.go` 87-115). The next session's merge
  appends to that file, and the target has them twice.
* `GetConn` may return a good connection together with the error of an earlier
  iteration of its loop (`ConnPool.go` 504); the callers, e.g. at 862, drop the
  connection, and its place in the pool is gone until the pool is killed.
* A client that waits for a parked connection (`ConnPool.go` 542) is not woken
  when a connection is closed instead, although it could then dial.
* An item counts as dead though a provider still has it, since
  `IsSegmentStupid` (`Routines.go` 18) compares sizes of maps that name
  different providers (`Workers.go` 1174: "segment is not available to download
  on any provider...").
* A refused POST clears `flaginUP` in one critical section and `FlagError`
  clears it again in the next (`Routines.go` 501, 537): a push in between loses
  its flag, and the item is queued for a second provider, against
  `Workers.go` 996-997.
* A routine that failed returns the slot after it cleared `flaginDL`. The item
  may be queued again in between; the next routine finds the slot held, and the
  first one takes it away (`Workers.go` 446-454, `Routines.go` 297; against
  `MemLimit.go` 85-87).
* After a 436 `memory` is dropped and the slot returned, and without a cache
  `flagisDL` keeps the item from being downloaded again: the retry never
  happens (`Routines.go` 529; the comment at 522 doubts it).
* With uploads, an article may be emptied by the upload while the cache writer
  reads it without the lock: an empty file is renamed into place and counts as
  cached (`Cache.go` 212, 249; `Config.go` 231, `README.md` 78): `disk` in
  `Transfer` is then `empty`.
* A provider with `NoDownload` that comes second in its group is accepted and
  downloads what the group's channel holds (`Utils.go` 222; `README.md` 290).
* A round in which an item waits for its retry counts as idle, as an error from
  `pushUP` skips the count of retries (`Workers.go` 1016, 1405). With an item
  that failed on three targets, two of them to be tried again, `fails` is at its
  limit and the divider quits: the retries are not made, and the item's slot is
  held to the end of the session.
* The divider may quit while an item it could retire holds a slot. Two items wait
  for a retry on `c`, all counts close the first time (`closeWait` 0); one is
  pushed again, and `c` goes down with it after the divider has looked at the
  other in that round. Nothing is in flight at its end, and it quits without
  a look at the close cases (`Workers.go` 1412); the slot comes back with
  `releaseMemSlots`, which is there for leaked slots (`Session.go` 387).
* A dead item may keep a slot, although an item is to be "either re-pushed
  (retry, another group) or retired by the divider" (`Workers.go` 538-539). An
  item is read from the cache; `b` answers 436, and before the article is
  dropped the item is pushed to `c`, where the IHAVE of an empty article is an
  error and keeps the slot. Its only source goes down, `pushDL` enters it in
  `ignoreDlOn` (874-876), `IsSegmentStupid` calls the item dead and the divider
  skips it. As that function compares sizes, with four providers an item that
  has just been downloaded can count as dead too.
* `ReadCache` returns without clearing `flaginDL` if the article is in memory
  already (`Cache.go` 91-96; `Routines.go` 177 clears it on an error for that reason). Two
  downloads of an item of the cache meet after the late `FlagError` above
  (`Routines.go` 501) let the divider push it twice, the second finds the
  article the first has read, and the item counts as in download until the watchdog.
* `-mem` bounds slots, not articles: `retireItem` gives a slot back while the
  article waits for the cache writer (`Workers.go` 752; `README.md` 190).
* `ConnPool.go` 701: `WatchOpenConnsThread` closes nothing, it logs.
* A file that is replaced in `-nzbdir` while its session runs is moved to
  `done/` or `failed/` with the old one's result (`nzbdir.go` 163;
  `README.md` 171, `nzbdir.go` 15-20).
* The proxy asks every newsreader provider for an article number of the
  selected newsgroup (`Server.go` 446), although numbers are each provider's
  own, as `Proxy.go` 93-94 says. In `ProxySearch` all providers share them.
* A killed process may leave a target's `.tmp` behind; the next merge appends
  to it (`Yenc.go` 84-115). With `-yencdelparts` the parts that are in it are
  gone as files, so they come again as null bytes.
* A writer held up over two sessions of one process may tear a part, with or
  without `-yencdelparts` (`Cache.go` 352-388). Sessions 1 and 2 are given up while
  two writers, each with the part written to the same `.tmp`, stand before their
  rename. In session 3 a third one sees no part; one of the two renames the
  `.tmp`, the third opens a new one and has written half of it, and the
  other renames that over the whole part. `PartsReady` and `PartsKept` hold
  over two sessions (section 4), and TLC refutes both over three.

The passing runs use instances in which these do not break what they check,
and the theorems are about properties that hold in spite of them: `SessionEnds`
is checked where no upload can be answered 437 while two items
compete for a slot.

## 6. Not modelled, and the plan

Next, in this order:

1. `QuitLeavesNoSlot` of `Transfer`: whether it needs that no upload is refused
   (`Routines.go` 501, 537), then its proof.
2. Composition of `JobQueue` with an abstract session that `CheckPhase`
   implements.
3. `-checkfirst` and `-bypassstat`, which move work between `CheckPhase` and
   `Transfer`.
4. Pure functions against reference definitions: `AdjustMicroSleep`,
   `loadProviderList`.

Not planned:

* the wire format of NNTP, yEnc decoding, TLS, password hashes, pages of the
  web server, flag parsing, logging, results: sequential or libraries, and the
  models need their outcomes only;
* the web login: its users, its cache and its table of failed logins are each
  read and written under one lock within one request, and its tests cover them;
* statistics (`GoCliRxTxCounter`, `Speedmeter`, the counters the web pages
  show): they decide nothing.
