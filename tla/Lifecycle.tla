----------------------------- MODULE Lifecycle ------------------------------
(***************************************************************************)
(* The life of `cobe-lint serve`: New, Run, startChecker, runGoWarmup and  *)
(* shutdown of internal/serve/server.go with readiness.go, over several    *)
(* lives of the process that share the cache directory, the work directory *)
(* and the socket file.  A life ends in order, by a failed start, or by a  *)
(* kill at any moment.  A lint and an upload are what they leave on disk;  *)
(* LintServer and AssetCache look inside.                                  *)
(***************************************************************************)
EXTENDS Naturals, FiniteSets

CONSTANTS
  Lints,       \* the lints that one life may run
  MaxLives     \* bound: lives of the process

ASSUME LivesAssumption == MaxLives \in Nat

ASSUME LintsAssumption == Lints \cap {"warmup", "assets", "cache-probe", "work-probe"} = {}

VARIABLES
  life,                  \* which life this is
  main,                  \* where Main is in it
  exit,                  \* how the last life ended
  uses,                  \* the tools that warm up: readiness components
  files,                 \* what is on disk: <<life, a lint, or one of Kinds>>
  socket, listening,     \* the socket file; the listeners are open
  signalled, broken,     \* SIGTERM or SIGINT came; a Serve returned an error
  base,                  \* s.baseCtx is cancelled
  servers, grace,        \* the goroutines of shutdown; their context has ended
  checker,               \* s.checker: none, running, closed
  isReady, hasFailed,    \* its channels Ready and Failed are closed
  watcher,               \* the goroutine of startChecker
  warmup,                \* the goroutine of runGoWarmup
  pending, ready, failed,   \* readiness
  lints                  \* per lint: its handler

dirVars     == <<uses, files>>
netVars     == <<socket, listening, servers>>
wishVars    == <<signalled, broken, grace>>
checkerVars == <<checker, isReady, hasFailed>>
stateVars   == <<pending, ready, failed>>
mainVars    == <<life, main, exit, base>>
vars == <<mainVars, dirVars, netVars, wishVars, checkerVars, watcher, warmup, stateVars, lints>>

Lives == 1 .. MaxLives
Tools == {"javac", "go-warmup"}
Components == Tools \cup {"workers"}
Kinds      == {"warmup", "assets", "cache-probe", "work-probe"}
Files      == Lives \X (Lints \cup Kinds)
CacheFiles == {"assets", "cache-probe"}      \* the kinds in the cache directory
New   == {"cache", "probed-cache", "work", "probed-work", "bind"}
Run   == {"serve", "checker", "warm", "select"}
Stop  == {"cancel", "close", "wait", "unlink", "join"}

SetsOK == uses \subseteq Tools /\ files \subseteq Files /\ pending \subseteq Components
FlagsOK ==
  /\ socket \in BOOLEAN /\ listening \in BOOLEAN /\ base \in BOOLEAN
  /\ signalled \in BOOLEAN /\ broken \in BOOLEAN /\ grace \in BOOLEAN
  /\ isReady \in BOOLEAN /\ hasFailed \in BOOLEAN
  /\ ready \in BOOLEAN /\ failed \in BOOLEAN
TypeOK ==
  /\ SetsOK /\ FlagsOK
  /\ life \in 0 .. MaxLives /\ main \in {"down"} \cup New \cup Run \cup Stop
  /\ exit \in {"none", "stopped", "error", "killed"}
  /\ servers \in {"none", "serving", "closing", "closed"}
  /\ checker \in {"none", "running", "closed"}
  /\ watcher \in {"none", "first", "second", "over"}
  /\ warmup \in {"none", "running", "clean", "over"}
  /\ lints \in [Lints -> {"idle", "active", "done"}]
  /\ checker # "none" => "javac" \in uses
  /\ warmup # "none" => "go-warmup" \in uses

Init ==
  /\ life = 0 /\ main = "down" /\ exit = "none" /\ base = FALSE
  /\ uses \in SUBSET Tools /\ files = {}
  /\ socket = FALSE /\ listening = FALSE /\ servers = "none"
  /\ signalled = FALSE /\ broken = FALSE /\ grace = FALSE
  /\ checker = "none" /\ isReady = FALSE /\ hasFailed = FALSE
  /\ watcher = "none" /\ warmup = "none"
  /\ pending = {} /\ ready = FALSE /\ failed = FALSE
  /\ lints = [l \in Lints |-> "idle"]

Enter(stage) == main' = stage /\ UNCHANGED <<life, exit, base>>
Ends(how)    == main' = "down" /\ exit' = how /\ UNCHANGED <<life, base>>
Up           == main \in Run \cup Stop

\* readiness.done
Done(component) ==
  /\ pending' = pending \ {component}
  /\ ready' = (ready \/ pending' = {})
  /\ UNCHANGED failed

(***************************************************************************)
(* Main and New.                                                           *)
(***************************************************************************)

Boot ==
  /\ main = "down" /\ life < MaxLives /\ life' = life + 1 /\ main' = "cache"
  /\ exit' = "none" /\ base' = FALSE
  /\ signalled' = FALSE /\ broken' = FALSE /\ grace' = FALSE /\ servers' = "none"
  /\ checker' = "none" /\ isReady' = FALSE /\ hasFailed' = FALSE
  /\ watcher' = "none" /\ warmup' = "none"
  /\ pending' = uses \cup {"workers"} /\ ready' = FALSE /\ failed' = FALSE
  /\ lints' = [l \in Lints |-> "idle"]
  /\ UNCHANGED <<dirVars, socket, listening>>

\* prepareDir empties a directory of what is stale and makes its .probe-* file,
\* or fails half-way (as the token file does, before it) and the process exits.
PrepareDir(stale, probe, next) ==
  /\ \/ files' = (files \ stale) \cup {<<life, probe>>} /\ Enter(next)
     \/ \E S \in SUBSET stale : files' = files \ S /\ Ends("error")
  /\ UNCHANGED <<uses, netVars, wishVars, checkerVars, watcher, warmup, stateVars, lints>>

\* Its last lines: the probe file goes again, or cannot be removed.
RemoveProbe(probe, next) ==
  /\ \/ files' = files \ {<<life, probe>>} /\ Enter(next)
     \/ UNCHANGED files /\ Ends("error")
  /\ UNCHANGED <<uses, netVars, wishVars, checkerVars, watcher, warmup, stateVars, lints>>

PrepareCache ==
  main = "cache" /\ PrepareDir({f \in files : f[2] \in CacheFiles}, "cache-probe", "probed-cache")
ProbeCache   == main = "probed-cache" /\ RemoveProbe("cache-probe", "work")

\* Mutant: the work directory keeps what it had.
PrepareNothing == main = "work" /\ PrepareDir({}, "work-probe", "probed-work")

\* In the work directory only workspaces are stale: a probe file is not.
PrepareWork ==
  /\ main = "work"
  /\ PrepareDir({f \in files : f[2] \in Lints \cup {"warmup"}}, "work-probe", "probed-work")

\* Mutant: a probe file is not removed.
KeepProbe ==
  /\ main = "probed-work" /\ Enter("bind")
  /\ UNCHANGED <<dirVars, netVars, wishVars, checkerVars, watcher, warmup, stateVars, lints>>

ProbeWork == main = "probed-work" /\ RemoveProbe("work-probe", "bind")

\* bind: an old socket file goes first, if it can; a listener that cannot be had
\* or a chmod that fails closes the first, and the file goes with it.
Bind ==
  /\ main = "bind"
  /\ \/ socket' = TRUE /\ listening' = TRUE /\ Enter("serve")
     \/ (socket' = FALSE \/ UNCHANGED socket) /\ UNCHANGED listening /\ Ends("error")
  /\ UNCHANGED <<dirVars, servers, wishVars, checkerVars, watcher, warmup, stateVars, lints>>

(***************************************************************************)
(* Run.                                                                    *)
(***************************************************************************)

Serve ==
  /\ main = "serve" /\ Enter("checker") /\ servers' = "serving" /\ Done("workers")
  /\ UNCHANGED <<dirVars, socket, listening, wishVars, checkerVars, watcher, warmup, lints>>

StartChecker ==
  /\ main = "checker"
  /\ \/ "javac" \in uses /\ checker' = "running" /\ watcher' = "first" /\ Enter("warm")
     \/ "javac" \in uses /\ Enter("cancel") /\ UNCHANGED <<checker, watcher>>
     \/ "javac" \notin uses /\ Enter("warm") /\ UNCHANGED <<checker, watcher>>
  /\ UNCHANGED <<dirVars, netVars, wishVars, isReady, hasFailed, warmup, stateVars, lints>>

\* Mutant: the warm-up runs although no language uses go vet.
StartWarmupAlways ==
  /\ main = "warm" /\ Enter("select") /\ warmup' = "running"
  /\ UNCHANGED <<dirVars, netVars, wishVars, checkerVars, watcher, stateVars, lints>>

StartWarmup ==
  /\ main = "warm" /\ Enter("select")
  /\ warmup' = IF "go-warmup" \in uses THEN "running" ELSE "none"
  /\ UNCHANGED <<dirVars, netVars, wishVars, checkerVars, watcher, stateVars, lints>>

\* The select of Run; err, and with it the exit code, is which case it took.
Stopped ==
  /\ main = "select" /\ main' = "cancel" /\ UNCHANGED <<life, base>>
  /\ \/ signalled /\ exit' = "stopped"
     \/ broken /\ exit' = "error"
  /\ UNCHANGED <<dirVars, netVars, wishVars, checkerVars, watcher, warmup, stateVars, lints>>

Signal ==
  /\ Up /\ ~signalled /\ signalled' = TRUE
  /\ UNCHANGED <<mainVars, dirVars, netVars, broken, grace, checkerVars, watcher, warmup,
                 stateVars, lints>>
ServeFails ==
  /\ servers = "serving" /\ ~broken /\ broken' = TRUE
  /\ UNCHANGED <<mainVars, dirVars, netVars, signalled, grace, checkerVars, watcher, warmup,
                 stateVars, lints>>

(***************************************************************************)
(* The goroutines of startChecker and runGoWarmup, and what they watch.    *)
(***************************************************************************)

\* JavacWorker: the first JVM serves; the third failed start in a row.
CheckerReady ==
  /\ checker = "running" /\ ~isReady /\ ~hasFailed /\ isReady' = TRUE
  /\ UNCHANGED <<mainVars, dirVars, netVars, wishVars, checker, hasFailed, watcher, warmup,
                 stateVars, lints>>
CheckerFails ==
  /\ checker = "running" /\ ~hasFailed /\ hasFailed' = TRUE
  /\ UNCHANGED <<mainVars, dirVars, netVars, wishVars, checker, isReady, watcher, warmup,
                 stateVars, lints>>

\* Mutant: nobody hears that the javac worker is ready.
WatchFirstSilent ==
  /\ watcher = "first"
  /\ \/ (isReady \/ hasFailed) /\ watcher' = "second"
     \/ base /\ watcher' = "over"
  /\ UNCHANGED <<mainVars, dirVars, netVars, wishVars, checkerVars, warmup, stateVars, lints>>

\* Mutant: a javac worker that failed counts as warmed up.
WatchFirstAny ==
  /\ watcher = "first" /\ (isReady \/ hasFailed) /\ Done("javac") /\ watcher' = "second"
  /\ UNCHANGED <<mainVars, dirVars, netVars, wishVars, checkerVars, warmup, lints>>

\* The two selects; each takes any case that is ready.
WatchFirst ==
  /\ watcher = "first"
  /\ \/ isReady /\ Done("javac") /\ watcher' = "second"
     \/ hasFailed /\ watcher' = "second" /\ UNCHANGED stateVars
     \/ base /\ watcher' = "over" /\ UNCHANGED stateVars
  /\ UNCHANGED <<mainVars, dirVars, netVars, wishVars, checkerVars, warmup, lints>>
WatchSecond ==
  /\ watcher = "second" /\ watcher' = "over"
  /\ \/ hasFailed /\ failed' = TRUE /\ UNCHANGED <<pending, ready>>
     \/ base /\ UNCHANGED stateVars
  /\ UNCHANGED <<mainVars, dirVars, netVars, wishVars, checkerVars, warmup, lints>>

\* goWarmup makes a workspace and lints; the tool ends, times out, or dies with
\* baseCtx, and the workspace goes before the component is done.
WarmupRuns ==
  /\ warmup = "running" /\ <<life, "warmup">> \notin files
  /\ files' = files \cup {<<life, "warmup">>}
  /\ UNCHANGED <<mainVars, uses, netVars, wishVars, checkerVars, watcher, warmup, stateVars,
                 lints>>
WarmupEnds ==
  /\ warmup = "running" /\ warmup' = "clean" /\ files' = files \ {<<life, "warmup">>}
  /\ UNCHANGED <<mainVars, uses, netVars, wishVars, checkerVars, watcher, stateVars, lints>>

WarmupDone ==
  /\ warmup = "clean" /\ warmup' = "over" /\ Done("go-warmup")
  /\ UNCHANGED <<mainVars, dirVars, netVars, wishVars, checkerVars, watcher, lints>>

(***************************************************************************)
(* Lints and uploads.  A connection may bring one until its server is      *)
(* closed, and a handler may outlive that.                                 *)
(***************************************************************************)

Lint(l) ==
  /\ servers \in {"serving", "closing"} /\ ready /\ lints[l] = "idle"
  /\ lints' = [lints EXCEPT ![l] = "active"] /\ files' = files \cup {<<life, l>>}
  /\ UNCHANGED <<mainVars, uses, netVars, wishVars, checkerVars, watcher, warmup, stateVars>>
LintEnds(l) ==
  /\ Up /\ lints[l] = "active"
  /\ lints' = [lints EXCEPT ![l] = "done"] /\ files' = files \ {<<life, l>>}
  /\ UNCHANGED <<mainVars, uses, netVars, wishVars, checkerVars, watcher, warmup, stateVars>>
Store ==
  /\ servers \in {"serving", "closing"} /\ <<life, "assets">> \notin files
  /\ files' = files \cup {<<life, "assets">>}
  /\ UNCHANGED <<mainVars, uses, netVars, wishVars, checkerVars, watcher, warmup, stateVars,
                 lints>>

(***************************************************************************)
(* shutdown.                                                               *)
(***************************************************************************)

CancelBase ==
  /\ main = "cancel" /\ main' = "close" /\ base' = TRUE
  /\ exit' = IF exit = "none" THEN "error" ELSE exit
  /\ UNCHANGED <<life, dirVars, netVars, wishVars, checkerVars, watcher, warmup, stateVars,
                 lints>>

\* Checker.Close returns once the JVM is gone (JavacWorker's SupervisorGetsOn).
CloseChecker ==
  /\ main = "close" /\ Enter("wait")
  /\ checker' = IF checker = "running" THEN "closed" ELSE checker
  /\ UNCHANGED <<dirVars, netVars, wishVars, isReady, hasFailed, watcher, warmup, stateVars,
                 lints>>

\* http.Server.Shutdown closes the listeners (the socket file goes with them)
\* and waits for the handlers, until the grace period ends and Close cuts them.
CloseListeners ==
  /\ base /\ servers = "serving" /\ servers' = "closing"
  /\ listening' = FALSE /\ socket' = FALSE
  /\ UNCHANGED <<mainVars, dirVars, wishVars, checkerVars, watcher, warmup, stateVars, lints>>
GraceEnds ==
  /\ base /\ Up /\ ~grace /\ grace' = TRUE
  /\ UNCHANGED <<mainVars, dirVars, netVars, signalled, broken, checkerVars, watcher, warmup,
                 stateVars, lints>>

\* Mutant: shutdown waits for every handler.
ServersCloseIdle ==
  /\ servers = "closing" /\ (\A l \in Lints : lints[l] # "active") /\ servers' = "closed"
  /\ UNCHANGED <<mainVars, dirVars, socket, listening, wishVars, checkerVars, watcher, warmup,
                 stateVars, lints>>
ServersClose ==
  /\ servers = "closing" /\ (grace \/ \A l \in Lints : lints[l] # "active")
  /\ servers' = "closed"
  /\ UNCHANGED <<mainVars, dirVars, socket, listening, wishVars, checkerVars, watcher, warmup,
                 stateVars, lints>>

WaitServers ==
  /\ main = "wait" /\ servers = "closed" /\ Enter("unlink")
  /\ UNCHANGED <<dirVars, netVars, wishVars, checkerVars, watcher, warmup, stateVars, lints>>
Unlink ==
  /\ main = "unlink" /\ Enter("join") /\ socket' = FALSE
  /\ UNCHANGED <<dirVars, listening, servers, wishVars, checkerVars, watcher, warmup,
                 stateVars, lints>>

\* Mutant: Run does not wait for the warm-up.
JoinNothing ==
  /\ main = "join" /\ Ends(exit)
  /\ UNCHANGED <<dirVars, netVars, wishVars, checkerVars, watcher, warmup, stateVars, lints>>

\* warm.Wait, and Main returns; handlers that are left end with the process.
Join ==
  /\ main = "join" /\ warmup \in {"none", "over"} /\ Ends(exit)
  /\ UNCHANGED <<dirVars, netVars, wishVars, checkerVars, watcher, warmup, stateVars, lints>>

\* SIGKILL, the OOM killer, a crash, or a signal before it is caught: files and
\* the socket file stay.
Kill ==
  /\ main # "down" /\ Ends("killed") /\ listening' = FALSE /\ servers' = "none"
  /\ checker' = "none" /\ watcher' = "none" /\ warmup' = "none"
  /\ UNCHANGED <<dirVars, socket, wishVars, isReady, hasFailed, stateVars, lints>>

MainStep ==
  \/ PrepareCache \/ ProbeCache \/ PrepareWork \/ ProbeWork \/ Bind \/ Serve \/ StartChecker \/ StartWarmup
  \/ Stopped \/ CancelBase \/ CloseChecker \/ WaitServers \/ Unlink \/ Join

Terminated == main = "down" /\ life = MaxLives /\ UNCHANGED vars

Next ==
  \/ Terminated \/ Boot \/ MainStep \/ Kill \/ Signal \/ ServeFails
  \/ CheckerReady \/ CheckerFails \/ WatchFirst \/ WatchSecond
  \/ WarmupRuns \/ WarmupEnds \/ WarmupDone \/ Store
  \/ CloseListeners \/ GraceEnds \/ ServersClose
  \/ \E l \in Lints : Lint(l) \/ LintEnds(l)

\* A javac worker that is starting serves or fails (JavacWorker's
\* SupervisorGetsOn); one that serves need never fail.
CheckerStarts == ~isReady /\ (CheckerReady \/ CheckerFails)

\* Goroutines go on, the grace period and the warm-up's timeout pass.  No lint
\* need ever end.
Fairness ==
  /\ WF_vars(MainStep) /\ WF_vars(WatchFirst) /\ WF_vars(WatchSecond)
  /\ WF_vars(WarmupEnds) /\ WF_vars(WarmupDone) /\ WF_vars(CheckerStarts)
  /\ WF_vars(CloseListeners) /\ WF_vars(GraceEnds) /\ WF_vars(ServersClose)

Spec     == Init /\ [][Next]_vars
FairSpec == Spec /\ Fairness

(***************************************************************************)
(* Properties.                                                             *)
(***************************************************************************)

\* What a server that listens finds on disk of an earlier life, however that one
\* ended, is no set that AssetCache does not count and no workspace that nobody
\* removes, but at most the probe file of a life that ended inside prepareDir
\* (those of the work directory stay for ever); its own probe files are gone
\* (contract 7.3, step 1).
OnlyOwnFiles ==
  Up => \A f \in files : IF f[1] = life THEN f[2] \notin {"cache-probe", "work-probe"}
                                       ELSE f[2] = "work-probe"

\* Lints run only in a server that is warm: workers, the javac worker, which is
\* then there to be asked, and the Go build cache (contract 7.3, step 4).
ReadyMeansWarm ==
  Up /\ (ready \/ \E l \in Lints : lints[l] = "active") =>
    /\ pending = {} /\ main # "serve"
    /\ "javac" \in uses => isReady /\ (main \in Run => checker = "running")
    /\ "go-warmup" \in uses => warmup = "over"

\* A life that is not killed ends with its listeners closed, its JVM gone and
\* its warm-up over; once it served, its socket file is gone; and exit code 0
\* answers a signal (contract 7.3, step 5).
OrderlyExit ==
  main = "down" /\ exit \in {"stopped", "error"} =>
    /\ ~listening /\ checker # "running" /\ warmup \notin {"running", "clean"}
    /\ servers # "none" => ~socket
    /\ exit = "stopped" => signalled

\* A signal ends the life, whatever hangs in it; and a server that runs becomes
\* ready or failed, also when the Go warm-up fails, and ready if its javac worker
\* came up and does not fail, however long it lives.
LivesGetOn ==
  /\ (Up /\ signalled) ~> (main = "down")
  /\ (main = "select") ~> (ready \/ failed \/ main # "select")
=============================================================================
