# TLA+ verification of zinc-sig/linter

This directory specifies `cobe-lint serve`, the resident lint server of this
repository, in TLA+: modules translated from the Go sources, TLC configurations
that check them on small instances, and proofs that TLAPS checks for every
instance. Section numbers such as "contract 9.1" are those of
`docs/CONTRACT.md`.

    tlc -config JavacWorkerCalls.cfg MCJavacWorker.tla     # one run
    tlapm JavacWorkerProofs.tla                            # the proofs about one module

Every safety invariant of a stateful module is both checked by TLC on a small
instance and proved for every instance (section 6); liveness is checked only.

## 1. The system

`cobe-lint serve` is one Go process in a container. It answers lint requests and
asset uploads over a Unix socket (and optionally TCP), runs one-shot tools (ruff,
clang-tidy, go vet) as child processes, and keeps one JVM alive for Java lints.

| Component | State it keeps | Operations | Hard part | What makes it correct |
|---|---|---|---|---|
| **javac worker supervisor** `internal/javacworker/worker.go` | `Worker`: current/starting JVM, generation, `changed` channel, closed/ready/failed, thread semaphore, in-flight requests; per JVM: pending replies, dead, reaped | `Start`, `supervise`, `launch`, `Check`, `finish`, `Close`, the reader and writer goroutines | one supervisor, one reader per JVM, one writer per line, one goroutine per Check and Close interleave; the JVM may hang, die, or answer late; deadline, run budget and reply race | one JVM at a time; a slot covers what the JVM works on; no lost wake-up; true errors; every call ends |
| **asset cache** `internal/serve/cache.go` | entries by key, bytes used, reader counts, stale flags, LRU order, per-key locks with reference counts | `acquire`/`release`, `put`, `reserve`/`unreserve`, `install`, `remove`, `lockKey` | uploads and copies run while sets are replaced and evicted; failures half-way | disk within budget; `used` exact; a set being copied stays; no leak |
| **lint endpoint, pool, tool run** `lint.go`, `pool.go`, `linter/run.go` | `admitted`, `slots`, `holds`; per request a workspace, a context with the deadline, a tool | `handleLint`, `admit`/`leave`, `acquire`/`release`, `lint`, `RunContext`, `lintFailed` | a client leaves, the deadline passes and the server stops at any point of a long handler | every place, slot and workspace comes back once; work is covered; honest answers |
| **lifecycle and readiness** `server.go`, `readiness.go`, `main.go` | base context, listeners, checker, pending components, ready/failed | `New`, `Run`, `startChecker`, `runGoWarmup`, `shutdown` | crash and restart on the same directories; signal during warm-up; concurrent warm-ups | no set and no workspace of an earlier life; ready means warm; an orderly exit leaves nothing |
| **routing, health, uploads endpoint** `handlers.go` | upload slots | `handleAssets`, `handleLive`, `handleReady`, routing, token check, log | liveness probe reads state kept elsewhere | `holds` and `inFlight` are what they claim |
| **javac worker, Java side** `JavacWorker.java` | pool threads with a compiler each, `REBUILDING`, warm-up latches, heap watch | request loop, `handle`, `warm`, `compiler`/`warmed` | threads rebuild their compilers one at a time while the others serve; a latch spreads the warm-up; errors end requests, threads or the process | one rebuild at a time; warm before the first request; every request is answered, ends with the process, or is lost with a thread that an Error ended |
| **dial-stdio** `dialstdio.go` | two copying goroutines, one connection | half-close, exit | the ends of stdin, of the connection and of stdout come in any order | a half-close means the whole input; an orderly exit the whole output; it ends when the server has closed |
| **pure rules** `cache.go`, `lint.go`, `run.go`, `JavacWorker.java` | none | `checkFilename`, `checkAssetName`, `extractAssets`' entries, `NormalizePath`, `cappedBuffer`, `capReport`, class `Lines`; `decodeLint`, `redact`, `ParseFlags` | order of archive entries, spellings of paths, limits, line ends and UTF-16 | they agree with an order-free or cursor-wise reading of the contract |
| **languages and drivers** `languages/` | none | tool command lines, output parsing | text formats | not modelled (see 8) |
| **command line, manifest, platform files** | none | one-shot lint, listing | none | not modelled |

Interaction: a lint handler asks the pool for a place and a slot, the asset cache
for a set to copy, and then either runs a tool or calls `Check` of the worker.
Uploads touch the cache only. The lifecycle starts the worker, watches its
`Ready` and `Failed` channels, cancels every request's context on shutdown and
closes the worker. `PROJECT.json` lists the hazards of each component by line.

## 2. Modules

| Module | Models | Used by |
|---|---|---|
| `JavacWorker` | `worker.go` at the granularity of critical sections and channel operations | `JavacWorkerProofs`, `MCJavacWorker` |
| `Checker` | what the worker promises its callers (the `Checker` interface of `server.go` with the documented errors): the abstract specification | `JavacWorker` implements it, `LintServer` uses it |
| `JavacWorkerProofs` | theorems about the supervisor, the JVMs and the slots | `JavacWorkerRefinement` |
| `JavacWorkerRefinement` | theorems about what callers see: true outcomes, and that `JavacWorker` implements `Checker` | |
| `AssetCache` | `cache.go`, with `handleAssets` and the copying lint as its users | `AssetCacheProofs`, `MCAssetCache` |
| `AssetSets` | what the cache promises uploads and lints (the comment of `assetCache`, the results of `put` and `acquire`): the abstract specification | `AssetCache` implements it |
| `AssetCacheProofs` | theorems about `AssetCache`, and that it implements `AssetSets` | |
| `LintServer` | `handleLint`, `lint`, `lintFailed`, `pool.go`, `RunContext`, composed with `Checker` | `LintServerProofs`, `MCLintServer` |
| `LintServerProofs` | theorems about `LintServer` | |
| `Lifecycle` | `server.go` New/Run/shutdown, `readiness.go`, over several lives of the process | `LifecycleProofs`, `MCLifecycle` |
| `LifecycleProofs` | theorems about `Lifecycle` | |
| `JvmRebuild` | `JavacWorker.java`: pool, warm-up, rebuild of compilers, replies, exits | `JvmRebuildProofs`, `MCJvmRebuild` |
| `JvmRebuildProofs` | theorems about `JvmRebuild` | |
| `DialStdio` | `dialstdio.go` between a caller and a server | `DialStdioProofs`, run `bridge` |
| `DialStdioProofs` | theorems about `DialStdio` | |
| `Workspaces` | names and entries: `checkAssetName`, `extractAssets`, `copyAssets`, `checkFilename`, `writeCode` | `Reports`, `MCLintServer`, `RulesProofs` |
| `Reports` | `cappedBuffer`, `NormalizePath`, `capReport`, `truncateUTF8` | `MCLintServer`, `RulesProofs` |
| `Lines` | class `Lines` and the range of a finding in `JavacWorker.java` | `MCJvmRebuild`, `MCLines`, `RulesProofs` |
| `RulesProofs` | lemmas about `Lines`, `Reports` and `Workspaces`: what their recursive definitions and folds return | `LintServerProofs`, `JvmRebuildProofs` |

The `MC*` modules add model values and symmetry sets. Definitions named as a
*Mutant* in a comment are variants of the operator that follows them, the way a
plausible bug would change it; no specification uses them. They show that each
property can fail: substituted for their operator, they make TLC find the
property violated.

### JavacWorker

JVMs are numbered by `Worker.gen`; what a `process` keeps is a function of that
number. `sup` is the program counter of `supervise`/`launch` (launch, spawn,
register, warmsend, warming, failing, count, backoff, publish, serving, closing,
exited), `reader[g]` that of the reader goroutine (reading, draining, waited,
failing, done), `pc[r]` that of a `Check` (slot, snapshot, inspect, blocked, send,
sent, wait, settle, poison, finish, reap, untrack, free, returned). `await` is four actions, since
it reads under the lock, looks at `p.isDead()` under another lock, and then
sleeps: `Snapshot`, `Inspect`, `Await`, and the wake-up when `watching` loses the
Check. `watching` stands for the channel `changed`: whoever holds the present
channel is in it, and `broadcastLocked` empties it. `Kill` marks `dead` under
`process.mu`; `Exit` is the kernel's. `cmd.Wait` returning (`Wait`), the reader's
critical section (`Reap`), the failing of orphans (`FailOrphan`) and the closing of
`p.done` (`CloseDone`) are separate steps. So are the last two of a call:
`Untrack` takes it out of `inFlight`, then `Free` receives from `w.sem`, in `Check`
as in `finish`; in between a slot is held that `LongestInFlight` does not see. A
request line's contents, logging, and
the defaults of `Config` are left out; a reply is an answer, an invalid line, or
none.

### Checker

States a caller can tell apart: a call is idle, waiting, running on the JVM, or
returned; `onJvm` holds what the JVM works on, also after its caller was answered
at the deadline. The promise: at most `Threads` are on the JVM, a running call is
ended by a reply, the loss of the JVM, the deadline or the run budget and never by
cancellation alone, and whatever is answered at its deadline leaves the JVM later.
Fairness is part of the promise (`FairSpec`): a call that can return does.

### AssetCache

An upload stores at most one set, so directories, cache entries and key locks are
named by the upload that made them. `reserve` runs for each file: `NextFile`
evicts, retires and claims in one critical section of `assetCache.mu`; deleting
what was retired (`RemoveDir`) and crediting it (`Credit`) are later steps of the
same actor, as in `remove`. `WriteFile`, `Install`, `Discard`, `Unreserve`,
`Unlock` and `Unref` follow `put`, `install` and `lockKey`. A lint is `Acquire`,
copying, `Release`. Times of last use matter only by their order, so `lastUsed`
is the relation `older` between the keys that have an entry. `Candidates` are the
unread entries sorted as `reserve` sorts them, the own key's last, and `Evicts`
is the shortest beginning of such a sequence that makes room. `Total` adds
numbers by counting the bytes they stand for, because a sum by recursion could
not be reasoned about.

### AssetSets

A set is named by the upload that made it. A key has at most one stored set; what
is on disk whole is in `whole`, what a lint copies in `reading`. An upload takes
its turn (`Begin`), keeps an equal set (`Keep`), puts its own in the place of the
key's (`Put`) or is refused (`Refuse`), and ends its turn with its answer
(`Finish`). A set that nobody reads may leave (`Evict`), and is deleted
(`Delete`) only when it is not stored and nobody reads it. Locks, bytes, counts,
staging directories and the order of eviction are `AssetCache`'s.

### LintServer

`pc[r]` follows `handleLint` and `lint` through the body, readiness, admission,
queue, hold, workspace, assets, context check, tool or worker, parsing, cleanup,
answer, and the deferred `release` (two steps) and `leave`. Every stage is a step,
so a disconnect, the deadline, shutdown or a failure of the worker may fall
between any two. A tool is a member of `tools` from `cmd.Start` until `cmd.Wait`
has it; `KillTool` is the cancellation that kills its group. `Worker` is an
instance of `Checker`; the overrun of the run budget is possible only after the
deadline, because `Run` starts the worker with the deadline as run budget and the
budget counts from the send. `lintFailed` looks at the contexts when it answers,
not when the lint failed, and so does `Responses`. `gone[r]` is
`r.Context().Err()`, which is all the handler sees: it ends when the client leaves
(`Disconnect`), and also when `Shutdown` cancels the base context while the client
waits. Both make an answer `abandoned`, for which the handler writes nothing
(section 7). `exit[r]` is how a tool ended, with a status or by a signal
(the server's or another); `vain` holds the requests that got a slot when their
context had already ended, as the `select` of `acquire` allows.

### Lifecycle

`main` follows `New` (cache directory, work directory, bind), `Run` and
`shutdown`; `watcher` and `warmup` are the goroutines of `startChecker` and
`runGoWarmup`; `servers` those of `shutdown`. `files` is what is on disk, tagged
with the life that wrote it. `Kill` ends a life anywhere and leaves `files` and
the socket file. `prepareDir` may fail half-way; it is two steps, since it empties
the directory, writes a `.probe-*` file and then removes it (`PrepareCache` and
`ProbeCache`, `PrepareWork` and `ProbeWork`). A life that ends in between leaves the
probe file: the cache directory is emptied whole by the next life, but of the work
directory only workspaces are cleared, so there it stays. A failed `Bind` may have
removed an old socket file or not. Lints and uploads appear only as what they leave
on disk.

### JvmRebuild

`main` is the main thread: it submits the warm-up, waits for it, reads, and drains
the pool after the end of stdin. `pc[t]` is a pool thread: at the warm-up latch,
before its compiler, building a new one, analysing, writing its reply.
`compilers[t]` is the thread-local `COMPILER`. Of the executor only its contract is
used: any free thread takes the next task. How a check ends is a choice between a
report, an Exception, an Error and the lack of memory. `Ends` is what the two
callers of `check` do with it: the warm-up task, which catches an Exception and no
Error, and `handle`, which catches all but halts when memory is out. A thread that
an Error ends is replaced by one without a compiler that has taken no sample:
`Dies` resets the thread's entry and puts it into `died`. `CloseFails` is an Error
after a rebuilt compiler is installed, of the log line or while the old one closes:
the new one is there, cold, and `REBUILDING` stays held until the thread's next
request, or for ever if the thread is replaced before. `crossings` counts
full collections that leave the heap above its threshold, at any moment.
`EncodeFails` is an Error after the `try` of `handle`: it ends the pool thread,
which the executor replaces, and nobody answers the request. `JavacWorker` allows
for it: there a JVM may stay silent, and the run budget poisons it.

### DialStdio

A direction is four counts: chunks written by its source, read by the bridge,
written by the bridge, read by its sink; `Cap` is what a pipe or socket buffers.
`CopyIn` and `CopyInEnds` are the goroutine that copies stdin (each a read or a
write of `io.Copy`, then the end with or without `CloseWrite`), `CopyOut` and
`CopyOutEnds` are `Run`. A server that closes with input unread resets the
connection, which `io.Copy` reports after it has read what was sent. A write to a
closed standard output is an error, or `SIGPIPE` when it is a pipe.

### Workspaces, Reports, Lines

Operators without variables. A name is the sequence of its segments, and a
segment one of the kinds that the rules tell apart (`"ctl"`, `"long"`, `"back"`,
`"-a"`, `"zinc"`, `".."`, ...); a file system is a function from paths to
`"file"`, `"dir"` and `"code"`; a message is its bytes, of which the first of a
rune says how many it has; a source is its UTF-16 units, none of them when it cannot be
read any more (`Content`). `path.Clean`,
`os.MkdirAll`, `O_EXCL` and `codePointCount` are modelled by what they do. Each
module ends in one statement that compares the operators with a reference that is
written another way: the tree that a set of entries describes in whatever order
they come, the first bytes of all that was written, the longest prefix of runes,
and a cursor that moves through a text character by character. `MCLintServer` and
`MCJvmRebuild` require the statements where the running system relies on them:
when the tool starts in its workspace, when a report is there, when a reply is
written. The statements do not depend on the state, so TLC evaluates each once. They
quantify over constants of the modules (`Entries`, `CodeNames`, `Files` and the
`Max...`), which the assumptions allow to be any sets of entries and names and any
numbers; `MCLintServer` gives TLC small ones. Code units and runes are there for
these two statements only: limits and positions are about them.

## 3. What the runs check

Every property of a passing run has a mutant in `PROJECT.json`.

| Run | Instance | Shows |
|---|---|---|
| `calls` | JavacWorker, 2 Checks, 2 threads | a slot covers what the JVM works on or died with (`SlotCoversJvm`); results are true, `ErrClosed` included (`TrueOutcomes`); `LongestInFlight` sees all that is on the JVM once it is tracked, and nothing without a slot (`InFlightHoldsSlot`); no sleeper in `await` has anything to wake for (`NoLostWakeup`); a reaped JVM has answered (`DoneMeansAnswered`); every step is one of `Checker` (`ImplementsChecker`) |
| `starts` | JavacWorker, 1 Check, 1 tolerated failure, 1 fault | never two JVMs (`OneJvm`), no request before the warm-up (`WarmBeforeRequests`), no JVM after Close (`CloseLeavesNoJvm`) |
| `live` | JavacWorker, 2 Checks, 1 thread, fair | Checks return and slots come back (`EveryCheckReturns`), Close returns, and until then the worker serves again or fails (`SupervisorGetsOn`), and it keeps the fairness of `Checker` (`KeepsCheckersPromise`) |
| `budget` | AssetCache, 3 uploads, 2 at a time, 3 keys, 2 fingerprints, 1 lint | disk within budget and `used` exact (`BudgetIsExact`), `NothingLeftBehind`, `EvictsInOrder`; every step is one of `AssetSets`, so uploads of a key take turns and a set that is read is there whole (`ImplementsSets`) |
| `readers` | AssetCache, 2 uploads of up to 2 files, 2 lints, fair | a set that is read or handed out stays whole, a retired one is removed once (`ReadSetsStayWhole`), `UploadsEnd` |
| `cache_full` | AssetCache, violation | finding 1 |
| `queue` | LintServer, 2 requests, 1 slot, queue of 0 or 1, fair; archives of up to 4 entries and up to 3 levels, names of 3 segments | nothing is left when all requests are over (`NothingLeftBehind`), tools and Java requests keep slot and workspace, nothing starts for a request whose context ended in the queue, and the liveness probe's `holds` are slots (`WorkIsCovered`), answers are true (`HonestAnswers`), the workspace is the tree of the archive with the code in it (`WorkspacesAreWhole`), reports are what the tool said (`ReportsAreTrue`), every request ends and leaves the JVM (`EveryRequestEnds`) |
| `deadline` | LintServer, violation | finding 2 |
| `lives` | Lifecycle, 3 lives, 2 lints, fair | no set and no workspace of an earlier life meets a server that listens (`OnlyOwnFiles`), `ReadyMeansWarm`, `OrderlyExit`; a signal ends a life, and a server becomes ready or failed although its worker never fails (`LivesGetOn`) |
| `jvm` | JvmRebuild, 2 threads, 3 requests, fair; texts of 5 units | `REBUILDING` is held by exactly one rebuilding thread or none, unless a thread died (`OneRebuildAtATime`); the warm-up reaches every thread before stdin is read, but for those that take the place of a dead one (`WarmedTogether`); diagnostics are where an editor has them (`PositionsAreTrue`); a request gets its reply, or ends with the process, or is dropped with the thread that an Error ended, and the process ends after stdin (`RequestsEnd`) |
| `columns` | Lines, texts of 4 units, violation | finding 3 |
| `bridge` | DialStdio, 2 chunks each way, buffers of 1, fair | a half-close means that stdin was read to its end and passed on, an exit code of 0 that the server closed and stdout has everything (`StreamsAreWhole`); the bridge ends once the server has closed, and the half-close reaches a server that stays (`BridgeGetsOn`) |

`starts`, `readers`, `queue`, `lives`, `jvm` and `bridge` also check the type
invariants.

### Bounds, and why they are enough

- *JavacWorker.* `MaxGen` bounds the JVMs launched; `EnoughGens` in
  `MCJavacWorker` asserts that it never stops a restart: a launch is a failed one
  (at most `Backoff + 1` in a row), or its JVM is ended by one of `MaxFaults`
  faults or by a poison, of which each Check causes at most one. Two Checks are
  what a race for a slot, for a JVM, or between a poison and a bystander needs;
  two threads let both be on one JVM (`calls`), one thread makes one wait for the
  other (`live`). A fault is a JVM that exits or writes an invalid line by itself;
  a JVM that hangs, fails its warm-up or breaks a pipe after a kill is no fault
  and unbounded. The theorems of section 6 hold for every value of these
  constants.
- *AssetCache.* Three uploads over three keys with sizes 1 and 2 and a budget of
  3 make room by evicting none, one or two sets, the own key's included; with two
  at a time, one upload evicts while the other writes, and the third waits for a
  key's lock while the lock leaves the map. `MaxFiles` bounds the files of one
  archive: with two files an upload fails or evicts after it has written some.
  Each lint may copy many times.
- *LintServer.* A queue of 0 makes the second request find the server busy, a
  queue of 1 makes it wait for the slot; `Init` chooses it, as `ParseFlags` does. A
  request is any of Java and one-shot. Requests are
  alike, and since TLC may not exchange them where it looks at liveness, `LiveSpec`
  says that a Java request comes first.
- *Workspaces, Reports, Lines.* `Entries` (`SmallEntries`) has names of up to three
  segments: two entries are what a clash needs, three what a parent, its child and
  its grandchild's file need (`a`, `a/b`, `a/b/a`), four to exceed `maxAssetEntries`
  (here 3). `CodeNames` and `Files` have names that hit and miss these. A name that
  is looked at by itself has up to `MaxSegments = 3` segments of all ten kinds, which
  hold every rule and every pair of rules. `MaxWrites = 3` writes of up to `MaxPiece = 2`
  bytes reach a `MaxOutput` of 3 from below, exactly and beyond; up to
  `MaxRunes = 3` runes of 1 to 4 bytes put a `MaxMessageBytes` of 4 before, inside and
  after a rune, and two findings with a message each meet limits of 1 and 2. Five code units hold CRLF next to a
  supplementary character with a character on either side; two lines and a third
  that is empty.
- *DialStdio.* With two chunks one is under way while the other waits, and with
  buffers of one every writer blocks at some time.
- *Lifecycle.* `MaxLives` bounds restarts: with three, what a killed first life
  left meets a second life that fails half-way through `prepareDir` and a third
  that must clean up after both.
- *JvmRebuild.* A compiler is worn after `MAX_USES = 2`, or after `MIN_USES = 1`
  and a crossing (`MaxCrossings = 1`); after the warm-up both threads are due at
  once when the heap crosses, and a third request comes back to one of them. The
  real thresholds, 20,000 and 200, only say when a thread is due.

Symmetry is used where requests, uploads, lints, keys and fingerprints are
interchangeable, and never in a run with a liveness property.

## 4. Fairness

- *JavacWorker* `Fairness`: goroutines that can step do (the Go scheduler); a
  killed JVM exits and is reaped (SIGKILL); a write to a broken pipe fails; timers
  (warm-up timeout, run budget, deadlines) fire. Not assumed: that a JVM reads,
  replies or exits by itself, that a caller cancels, that Close is called.
- *AssetCache* `Fairness`: uploads and removals go on (a body ends or the 60 s
  read deadline ends it), a lint that copies finishes. `Lock` is strongly fair: a
  `sync.Mutex` in starvation mode hands itself to the waiter, so nobody waits for
  ever while others come and go.
- *LintServer* `Fairness`: handlers go on, deadlines pass, a tool that was killed
  exits, and the worker keeps `Checker`'s promise. Not assumed: that a tool exits
  by itself, that a JVM replies, that a client leaves.
- *Lifecycle* `Fairness`: goroutines go on, the grace period and the warm-up's
  timeout pass, a worker that is not ready becomes ready or fails
  (`CheckerStarts`) and its Close returns (both are `SupervisorGetsOn`). Not assumed:
  that a worker that serves ever fails, or that a lint ends.
- *JvmRebuild* `FairSpec`: threads go on and javac ends, in one of the ways of
  `Ends`. Nothing is assumed of stdin, of the heap, or that no Error comes.
- *DialStdio* `Fairness`: both goroutines go on, a caller that keeps its stdout
  reads it, a server that keeps the connection reads it. Not assumed: that anybody
  writes, closes or ends.

## 5. How the modules fit together

`JavacWorker` implements `Checker` under the mapping `CallOf`/`OnJvm`: a call whose
line is on its way or that waits for a reply is running, `finish` keeps a returned
call on the JVM. The safety part (`ImplementsChecker`) is proved, step by step
(`WorkerImplementsChecker`); the fairness that `LintServer` relies on
(`KeepsCheckersPromise`) is checked by TLC. `LintServer` may therefore use
`Checker` in place of the whole worker, and its theorems hold of the worker too:
they need no more than the steps of `Checker`. `AssetCache` implements
`AssetSets`: an upload's turn is its time between `Lock` and `Unlock`
(`LockedStages`), the stored set of a key its entry, the whole sets the
directories that were renamed into place and not yet deleted. It is checked
(`ImplementsSets`) and proved (`CacheImplementsSets`). `LintServer` abstracts
the asset cache to three outcomes of `Prepare` (copied, failed, not cached), which
is what `acquire`, `copyAssets` and `release` return to `lint`; `AssetCache` has
the copying lint as an actor. `Lifecycle` takes from `JavacWorker` that a worker
serves or fails and that Close returns.

## 6. What is proved

Eight modules hold the proofs. `RulesProofs` is about operators; each of the others
has an inductive invariant `IInv` (`CInv` for the calls of the worker), the theorem
`Invariance` (`CallInvariance`) that it always holds, and the theorems that follow
from it. The invariants were checked
by TLC on the instances of section 3 before they were proved. No theorem bounds a
constant: they hold for any number of requests, threads, uploads, keys or
lives. The assumptions are those of the modules, named where the constants are
declared, and TLC evaluates them in every run:

- `JavacWorker`: `Threads` is a positive number, `Warm` is no request, the bounds
  are numbers. `LintServer`: `Workers` is positive and `Queue` a number, as
  `ParseFlags` enforces. `DialStdio`: a pipe holds something. `Lifecycle`: the bound
  is a number.
- `AssetCache`: numbers for the budget, sizes and bounds; a server has received
  finitely many uploads and lints for finitely many keys; an upload is no lint.
- `JvmRebuild`: finitely many threads, at least one, and requests; `MAX_USES`,
  `MIN_USES` at least 1, as `JavacWorker.java` has them; the values that stand for
  null and for a warm-up task are no requests.
- `Lines`, `Reports`, `Workspaces`: the bounds and limits are numbers, and
  `maxMessageBytes` is positive.

### The worker (`JavacWorkerProofs`)

| Theorem | Statement |
|---|---|
| `Invariance` | `Spec => []IInv` |
| `TypeCorrect` | `Spec => []TypeOK` |
| `OneJvmAtATime` | `Spec => []OneJvm` |
| `SlotsCoverTheJvm` | `Spec => []SlotCoversJvm` |
| `DoneJvmHasAnswered` | `Spec => []DoneMeansAnswered` |
| `NoWakeupIsLost` | `Spec => []NoLostWakeup` |
| `RequestsComeAfterWarmup` | `Spec => []WarmBeforeRequests` |
| `NoJvmOutlivesClose` | `Spec => []CloseLeavesNoJvm` |

None of these is inductive by itself. `IInv` ties the goroutines together:

- `GenInv`: the one JVM with a live reader is JVM `gen`, and only in the stages in
  which the supervisor waits for it; later numbers are unused.
- `ShownInv`: `current` and `starting` are that JVM in the stages that publish it,
  and Close has killed it.
- `ReaderInv`: a reaped JVM is dead and takes no more requests; only a reader that
  is failing requests has orphans.
- `OwedInv`: a JVM owes a reply to exactly the requests that were sent to it and
  whose channel is empty. This carries `SlotCoversJvm` and `DoneMeansAnswered`.
- `SlotInv`: the slots are finitely many, at most `Threads`, and held by every
  Check between acquiring one and its end.
- `WatchInv`: whoever holds the channel `changed` has seen the present `current`.
- `WarmInv`: the warm-up is outstanding only while the supervisor waits for it,
  and no Check holds a JVM that is still starting.
- `FailuresInv`: only a supervisor that gave up has more failures than `Backoff`.

Each part is kept by each kind of step (a Check's, the supervisor's, a JVM's with
its reader and writers, Close); lemmas state what each kind leaves alone.
`WarmInv` is the part that makes a stale `current` harmless: it says that a JVM
handed out by `await` is an older one (dead) or one whose warm-up was answered.

### What callers of the worker see (`JavacWorkerRefinement`)

| Theorem | Statement |
|---|---|
| `CallInvariance` | `Spec => []CInv` |
| `OutcomesAreTrue` | `Spec => []TrueOutcomes` |
| `InFlightHoldsItsSlot` | `Spec => []InFlightHoldsSlot` |
| `WorkerImplementsChecker` | `Spec => ImplementsChecker` |

`CInv` adds to `IInv` where a call has its slot, its place in `inFlight` and its
result (`StageInv`), and why it was told what it was told (`ToldInv`): `timeout`
because its deadline passed or its JVM is gone, `restarted` because its JVM is
dead, `closed` because Close was called and its JVM, if it had one, is dead. A
request is in `inFlight` from `track` to `untrack` and holds its slot from before
that to after it. For the refinement, a lemma per kind of step shows which step of `Checker`
it is: the wake-up or the deadline of a call is none, sending its line is
`Checker`'s start, a result is a return for the reason `Checker` asks for, and
`finish` or `reap` is the moment when the request leaves the JVM. That `Checker`'s
own limit of `Threads` requests holds when a line is sent is `SlotCoversJvm`.

### The asset cache (`AssetCacheProofs`)

| Theorem | Statement |
|---|---|
| `Invariance` | `Spec => []IInv` |
| `TypeCorrect` | `Spec => []TypeOK` |
| `DiskStaysInBudget` | `Spec => []BudgetIsExact` |
| `OneUploadAtATime` | `Spec => []OneUploadPerKey` |
| `ReadSetsAreWhole` | `Spec => []ReadSetsStayWhole` |
| `NothingStays` | `Spec => []NothingLeftBehind` |
| `EvictionOrder` | `Spec => EvictsInOrder`, an action property |
| `CacheImplementsSets` | `Spec => ImplementsSets`, the refinement of `AssetSets` |

- `LockInv`: whoever counts in a `keyLock` finds it in the map under its key, and
  its reference count is the number of those who do. So a lock cannot be replaced
  in the map while an upload waits for it or holds it.
- `DirInv`: a directory that was stored is the entry of its key, or stale, and then
  it has readers or exactly one actor that removes it; `readers` counts the lints
  that copy from it.
- `UploadInv`: what an upload has reserved and written, at each of its stages.
- `UsedInv`: `used` is what is reserved and what is stored and not yet credited.
- `RoomInv`: `reserve` claims the room of what it evicts at once, and `remove`
  credits it later, so `used <= MaxBytes` does not hold while evicted sets wait to
  be deleted. What holds is a statement about every set `S` of the uploads that
  have a claim in hand: `used`, less the sets that `S` evicted and have not
  deleted, less what the others claimed and have not written, is within the
  budget. With `S` empty it bounds what is on disk; a general `S` is needed because
  one upload's evictions end, and its claim is written, while others are between
  the two.

The proofs about sums rest on lemmas about `Total` as the cardinality of a set of
bytes: what one number adds, what a larger function adds, what a disjoint union
is.

For the refinement, `AnswerInv` says that an upload has an answer exactly from its
cleanup on. The rest is in `IInv`: that the turns of one key do not overlap is
`LockInv`, that a set is deleted only when it is neither stored nor read is
`DirInv`. A lemma per action shows which step of `AssetSets` it is, or none.
`OneUploadPerKey`, which no run checks by itself since `ImplementsSets` implies
it, is stated as a theorem all the same.

### The lint endpoint (`LintServerProofs`)

| Theorem | Statement |
|---|---|
| `Invariance` | `Spec => []IInv` |
| `TypeCorrect` | `Spec => []TypeOK` |
| `WorkStaysCovered` | `Spec => []WorkIsCovered` |
| `EverythingIsGivenBack` | `Spec => []NothingLeftBehind` |
| `AnswersAreHonest` | `Spec => []HonestAnswers` |
| `ReportsAreRight` | `Spec => []ReportsAreTrue` |
| `WorkspacesStayWhole` | `Spec => []WorkspacesAreWhole` |

`CountInv`: `admitted` counts the handlers between `admit` and `leave`, which needs
a lemma on how the cardinality of that set moves with a handler. `CoverInv`: slot,
hold, workspace and tool go with the stage of the handler, and only a handler that
waits for the worker has a call there. `SlotInv`: there are at most `Workers`
slots. `BasedInv`: every verdict that a later stage turns into an answer was
founded when it was reached, and what it was founded on (a deadline that passed,
a worker that failed or closed, a tool that ended with a status) stays true.
`AsleepInv`: a request that got its slot when its context had ended is kept from the
tool and the worker by that context, which does not come back.

### Lives (`LifecycleProofs`)

| Theorem | Statement |
|---|---|
| `Invariance` | `Spec => []IInv` |
| `TypeCorrect` | `Spec => []TypeOK` |
| `DirectoriesAreOwn` | `Spec => []OnlyOwnFiles` |
| `ReadyIsWarm` | `Spec => []ReadyMeansWarm` |
| `ExitIsOrderly` | `Spec => []OrderlyExit` |

`StageInv` says which goroutines exist by where `main` is; `FilesInv` that the
directories are emptied one after the other before the socket exists, however
the life before ended, and that what is then left of it are probe files of the work
directory; `WarmInv` that a component leaves `pending` only when what
it stands for is warm; `ExitInv` who may still listen, and who has unlinked.

### The Java side (`JvmRebuildProofs`)

| Theorem | Statement |
|---|---|
| `Invariance` | `Spec => []IInv` |
| `TypeCorrect` | `Spec => []TypeOK` |
| `RebuildsInTurn` | `Spec => []OneRebuildAtATime` |
| `EveryThreadIsWarm` | `Spec => []WarmedTogether` |
| `PositionsAreRight` | `Spec => []PositionsAreTrue` |

`RebuildInv` gives `REBUILDING` to the one thread that builds a compiler or has a
cold one, which has served nothing or serves its first request; to nobody only once
a thread has died. `PlaceInv` keeps every request that was read in one
place: the queue, one thread, or among those answered or dropped. `UseInv` pays
for the uses of a compiler with distinct requests, which bounds them by the number
of requests. `WarmInv` counts the two latches: `started` is the number of warm-up
tasks in the queue, `finished` counts in addition those that a thread has, and
while any is queued every thread that took one waits at the latch. While
any is queued no sample has ended, so no thread has died either. So no thread takes
two, and main reads when all have had one, but for the successors of those that an
Error ended.

### The bridge (`DialStdioProofs`)

| Theorem | Statement |
|---|---|
| `Invariance` | `Spec => []IInv` |
| `TypeCorrect` | `Spec => []TypeOK` |
| `WholeStreams` | `Spec => []StreamsAreWhole` |

`HalfCloseInv`: a half-close ends the copying of stdin, and what was copied was
all. `DialInv`: without a connection nothing was touched. `ExitInv`: an exit in
order means that the server ended and everything read from it was written.

### The rules (`RulesProofs`)

`ReportsAreRight`, `WorkspacesStayWhole` and `PositionsAreRight` rest on what the
rules compute. The bounds that TLC needs are constants there too, so the theorems
range over texts of any length; any number of writes of any length; any set of files
with clean names over two kinds of segments, and spellings of any length; findings
with messages of any number of runes; archives of any length made of any entries,
with names of any length over the ten kinds of segments, and any filenames; and any
limits. One thing is fixed: the workspace's own directory is one absolute path. The prover cannot instantiate the
library's induction theorems, so induction is a lemma about sets of numbers
(`Counting`, from the well-foundedness of `<`). A recursive definition, like the
fold under `FoldLeft` and `FlattenSeq`, is a `CHOOSE` of a function with an
equation: `Recursion` and `Folding` show that such a function exists, so the chosen
one has the equation, and a lemma turns each definition into a sequence of
steps. `Gathering` is induction over the subsets of a finite set.

*Positions.* `Starts` has the line starts in order, without gaps
(`StartsAreLineStarts`). The binary search ends, by induction on the width of its
range, at the last start that is not behind the offset (`SearchFinds`). A cursor
that takes one unit after the other has the line `Index` finds and a column one
past the code points since that start: the surrogates of a pair, CRLF and the end
of the text are the cases of one step (`PositionMoves`, `CursorIsPosition`). Where a
range ends on its first line is `LineEndFacts` and `ShownIsRange`.

The text of a source that cannot be read is empty, and so is every position in it
the first (`PositionInNothing`).

*Output.* After each write the buffer is what is kept of all that was written so
far (`WriteKeeps`), whatever the pieces.

*Messages.* A message is a concatenation of runes, so its bytes that are no `cont`
are the ends of the shorter messages; cutting back from the limit to such a byte
(`CutAtRune`) is the longest message that fits (`TruncatesToRunes`).

*Paths.* `Clean` takes a name segment by segment (`CleanSteps`). A relative name and
the same name behind the directory are cleaned side by side: as long as the name
has not left the directory the second result is the first behind the directory's
name, and after that the first has its `..`s in front of the second (`WalkStep`).
So what cleans to a file of the directory is that file's name, or climbs out and
comes back through the directory's name (`CleanInDir`). In the first case
`NormalizePath` finds the equal file; in the second, which an absolute name
resembles, no file equals it, and none that it ends in is longer than the right
one (`ClimbFits`), because the segment before that is the directory's and in no
file's name. That last fact is the assumption in `PathsAreGiven` that the
directory is none that a file's name starts with.

*Workspaces.* A name passes `checkAssetName` exactly when all its segments are
proper, whatever `Clean` does with it (`NamesAreChecked`). `ExtractSteps` takes an
archive entry by entry. After some entries the state of `extractAssets` is the one
`Reached` reads off the set of their indices, its disk included, and the next entry
is refused exactly when it makes that set unfit (`RefusedWhenUnfit`, `OneMore`): so
neither the file system refuses what the maps of files and directories let pass,
nor does the order matter, and a set that is unfit stays so (`FineBefore`). `Extracted`
is the induction over the archive. What a fit set makes is a tree
(`FineMakesATree`), and copying a tree path by path, whichever comes last, gives the
tree again (`CopiesAreWhole`). `OneWorkspace` says this of every sequence of entries,
of which `Archives` holds some.

### Only model-checked

- Liveness (`EveryCheckReturns`, `SupervisorGetsOn`, `KeepsCheckersPromise`,
  `UploadsEnd`, `EveryRequestEnds`, `LivesGetOn`, `RequestsEnd`, `BridgeGetsOn`):
  fairness and ENABLED are out of the prover's reach.
- That the code violates `CacheFullMeansFull`, `DeadlineCoversParsing` and
  `EndColumnsCountCodePoints`: the counterexamples are TLC's.

## 7. Findings

1. `cache_full` (`CacheFullMeansFull`): contract 8.5 says that `507 cache_full`
   means "no room can be made". `reserve` counts what another upload has retired
   and is about to delete, and cannot evict it again, so an upload may be refused
   although no set in its way is in use.
2. `deadline` (`DeadlineCoversParsing`): contract 9.1 says that the deadline covers
   parsing and that the request then answers `504`. After the tool or the worker
   has returned nothing looks at the deadline, so the lint answers `200`.
3. `columns` (`EndColumnsCountCodePoints`): appendix A says that columns count code
   points. `check` takes the end column at `end - 1`, which lies inside a
   supplementary character that ends the range, and `codePointCount` counts its
   first half: the end column is one past the last character. The start column,
   and the end column behind any other character, are right (`PositionsAreTrue`).

More divergences are visible in the code, and in the models as states that the
properties have to allow, without a run of their own:

- `kill` signals the process group "unless it was reaped" (`worker.go:657`), but
  `reaped` is recorded in the critical section after `cmd.Wait` has returned
  (`worker.go:724-727`): a kill in between signals a pid that the kernel may have
  given away.
- `ToolVersion` (`linter/version.go:22-26`) loads, probes and stores in three steps,
  so two first lints both run the probe that contract 9.3 has run once per process,
  and what a failed probe returned stays for the life of the process.
- `handlers.go:22` says that "abandoned requests got no response because the client
  left". `lint.go:118` and `lint.go:140` test `r.Context()`, which `cancelBase`
  (`server.go:371`) ends as well: a lint in flight at shutdown is abandoned although
  its client waits. `HonestAnswers` therefore says that the request's context ended,
  not that the client left.
- A life that is killed inside `prepareDir` leaves its `.probe-*` file
  (`server.go:204-209`). The cache directory is emptied whole, but `server.go:144`
  clears only workspaces from the work directory, so the file stays for ever, empty.
  `OnlyOwnFiles` allows for it.
- `JavacWorker.java:197` says that `warm` "returns whether every thread checked the
  sample", but its tasks catch `Exception` only (line 211). A sample that ends in an
  Error leaves `ok` true, so `watchHeap` runs, and the thread that takes the dead
  one's place is cold. `WarmedTogether` excepts it.
- Contract, Appendix A: "Exactly one reply per request", and exit code 4 on
  `OutOfMemoryError`. An Error at line 328, outside `handle`'s `try`, ends the pool
  thread: no reply, no exit. `RequestsEnd` counts the request as dropped; in
  `JavacWorker` it is a JVM that stays silent, and the run budget ends the call
  (`EveryCheckReturns`).
- An Error between `COMPILER.set` and the `try` of `check` (lines 276-279 and 355-361)
  leaves `REBUILDING` held by a thread that is idle. It comes free with that thread's
  next request; if an Error ends the thread before, no thread rebuilds any more.
  `OneRebuildAtATime` says both.

## 8. What is not modelled

- The JSON of requests and reports, `redact`, logs; parsing in the drivers
  (`languages/`); manifest rendering; the command line. They are sequential, keep
  no state and are regular expressions, tables and lists of independent guards
  whose model would be their transcript; tests compare them with golden files.
- Failures of `os.RemoveAll` on a directory the server owns (its error is ignored
  by the code; the bytes are credited all the same).
- Tools that outlive a killed server, and two servers that run at the same time on
  one socket path and one cache directory.
- Time as a quantity: that a deadline is 8 s or an exit takes less than 2 s. A
  timer is an event that may come at any moment after it was set, in the order
  that the code gives two timers of one request.
- The bytes of a response on the wire: a client that reads its answer before
  `leave` has run and comes back at once.

## 9. Plan

Order of work, all done.

1. `JavacWorker`, its proofs, `Checker` and the refinement.
2. `AssetCache`.
3. `LintServer` over `Checker`.
4. `Lifecycle`.
5. `JvmRebuild`.
6. `DialStdio`, `Workspaces`, `Reports` and `Lines`.
7. Proofs: the safety invariants of `JavacWorker`, `AssetCache`, `LintServer`,
   `Lifecycle`, `JvmRebuild` and `DialStdio`, the refinement of `Checker`, and
   `EvictsInOrder`.
8. `AssetSets` and the proof that `AssetCache` implements it; the proofs about
   `Lines`, `Reports` and `Workspaces`.
