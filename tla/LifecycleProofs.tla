--------------------------- MODULE LifecycleProofs ---------------------------
(***************************************************************************)
(* Proofs about the life of `cobe-lint serve`, for any number of lints and *)
(* of lives: types, what is on disk, what ready means, how a life ends.    *)
(***************************************************************************)
EXTENDS Lifecycle, TLAPS

\* What has not begun yet, and what is over, by where Main is.
StageInv ==
  /\ main # "down" => life # 0
  /\ main \in New \cup {"serve"} => servers = "none" /\ "workers" \in pending
  /\ main \in New \cup {"serve", "checker"} => checker = "none" /\ watcher = "none" /\ ~isReady
  /\ main \in New \cup {"serve", "checker", "warm"} => warmup = "none"
  /\ main \in New \cup Run \cup {"cancel"} => ~base
  /\ main = "down" => servers \notin {"serving", "closing"} /\ warmup \notin {"running", "clean"}
  /\ main \in {"unlink", "join"} => servers = "closed"
  /\ main \in {"wait", "unlink", "join", "down"} => checker # "running"

\* The socket file, the listeners and the exit code.
ExitInv ==
  /\ listening => main = "serve" \/ servers = "serving"
  /\ main = "join" => ~socket
  /\ main = "down" /\ exit \in {"stopped", "error"} /\ servers # "none" => ~socket
  /\ exit = "stopped" => signalled

\* Directories are emptied one after the other before the socket exists; of an
\* earlier life only probe files of the work directory are left.
FilesInv ==
  /\ \A f \in files : f[1] <= life
  /\ main = "probed-cache" => \A f \in files : f[2] \in CacheFiles => f = <<life, "cache-probe">>
  /\ main \in {"work", "probed-work", "bind"} => \A f \in files : f[2] \notin CacheFiles
  /\ main \in {"cache", "probed-cache", "work", "bind"} => <<life, "work-probe">> \notin files
  /\ main \in {"probed-work", "bind"} => \A f \in files : f[2] = "work-probe"
  /\ OnlyOwnFiles

\* A component leaves pending only when what it stands for is warm.
WarmInv ==
  /\ ready => pending = {}
  /\ main # "down" =>
       /\ "javac" \in uses \ pending => isReady
       /\ "go-warmup" \in uses \ pending => warmup = "over"
       /\ \A l \in Lints : lints[l] = "active" => ready
  /\ isReady /\ main \in Run => checker = "running"

IInv == TypeOK /\ StageInv /\ ExitInv /\ FilesInv /\ WarmInv

\* Nothing has started.
LEMMA InitInv == Init => IInv
<1> SUFFICES ASSUME Init PROVE IInv
  OBVIOUS
<1>1. SetsOK /\ FlagsOK
  <2>1. SetsOK
    BY DEF Init, SetsOK
  <2>2. FlagsOK
    BY Zenon DEF Init, FlagsOK
  <2> QED
    BY <2>1, <2>2
<1>2. TypeOK
  BY LivesAssumption, <1>1 DEF Init, TypeOK
<1>3. StageInv /\ ExitInv
  BY DEF Init, StageInv, ExitInv, New, Run, Stop
<1>4. FilesInv /\ WarmInv
  BY DEF Init, FilesInv, OnlyOwnFiles, WarmInv, Run
<1> QED
  BY <1>2, <1>3, <1>4 DEF IInv

\* The steps of Next, in the groups that the proofs take them in.
LEMMA Steps ==
  ASSUME [Next]_vars
  PROVE  \/ Boot \/ PrepareCache \/ ProbeCache \/ PrepareWork \/ ProbeWork \/ Bind \/ Serve \/ StartChecker \/ StartWarmup
         \/ Stopped \/ CancelBase \/ CloseChecker \/ WaitServers \/ Unlink \/ Join \/ Kill
         \/ Signal \/ ServeFails \/ CheckerReady \/ CheckerFails \/ WatchFirst \/ WatchSecond
         \/ WarmupRuns \/ WarmupEnds \/ WarmupDone \/ Store
         \/ CloseListeners \/ GraceEnds \/ ServersClose
         \/ \E l \in Lints : Lint(l) \/ LintEnds(l)
         \/ UNCHANGED vars
  BY DEF Next, MainStep, Terminated

\* readiness.done closes ready with the last component.
LEMMA DoneTypes ==
  ASSUME TypeOK, ready => pending = {}, NEW c, Done(c)
  PROVE  /\ pending' \subseteq pending
         /\ ready => ready'
         /\ ready' => pending' = {}
  BY DEF Done, TypeOK

\* A file belongs to the life that made it, and a life has a number.
LEMMA SetsStep ==
  ASSUME TypeOK, StageInv, [Next]_vars
  PROVE  SetsOK'
<1>1. \/ files' \subseteq files
      \/ /\ main # "down"
         /\ \E x \in Lints \cup Kinds : files' \subseteq files \cup {<<life, x>>}
  <2> USE DEF vars, dirVars, StageInv, Kinds
  <2>1. CASE Boot \/ PrepareCache \/ ProbeCache \/ PrepareWork \/ ProbeWork \/ Bind \/ Serve \/ StartChecker \/ StartWarmup
    BY <2>1 DEF Boot, PrepareCache, ProbeCache, PrepareWork, ProbeWork, PrepareDir, RemoveProbe, Bind, Serve, StartChecker, StartWarmup
  <2>2. CASE Stopped \/ CancelBase \/ CloseChecker \/ WaitServers \/ Unlink \/ Join \/ Kill
    BY <2>2 DEF Stopped, CancelBase, CloseChecker, WaitServers, Unlink, Join, Kill
  <2>3. CASE Signal \/ ServeFails \/ CheckerReady \/ CheckerFails \/ WatchFirst \/ WatchSecond
    BY <2>3 DEF Signal, ServeFails, CheckerReady, CheckerFails, WatchFirst, WatchSecond
  <2>4. CASE WarmupRuns \/ WarmupEnds \/ WarmupDone
    BY <2>4 DEF WarmupRuns, WarmupEnds, WarmupDone
  <2>5. CASE Store \/ CloseListeners \/ GraceEnds \/ ServersClose
    BY <2>5 DEF Store, CloseListeners, GraceEnds, ServersClose
  <2>6. ASSUME NEW l \in Lints, Lint(l) \/ LintEnds(l)
        PROVE  files' \subseteq files \/ (main # "down" /\ files' \subseteq files \cup {<<life, l>>})
    BY <2>6 DEF Lint, LintEnds
  <2>7. CASE UNCHANGED vars
    BY <2>7
  <2> QED
    BY <2>1, <2>2, <2>3, <2>4, <2>5, <2>6, <2>7, Steps
<1>2. main # "down" => life \in Lives
  BY LivesAssumption DEF TypeOK, StageInv, Lives
<1>3. uses' = uses /\ (pending' \subseteq pending \/ pending' = uses \cup {"workers"})
  <2> USE DEF vars, dirVars, stateVars, Done
  <2>1. CASE Boot \/ PrepareCache \/ ProbeCache \/ PrepareWork \/ ProbeWork \/ Bind \/ Serve \/ StartChecker \/ StartWarmup
    BY <2>1 DEF Boot, PrepareCache, ProbeCache, PrepareWork, ProbeWork, PrepareDir, RemoveProbe, Bind, Serve, StartChecker, StartWarmup
  <2>2. CASE Stopped \/ CancelBase \/ CloseChecker \/ WaitServers \/ Unlink \/ Join \/ Kill
    BY <2>2 DEF Stopped, CancelBase, CloseChecker, WaitServers, Unlink, Join, Kill
  <2>3. CASE Signal \/ ServeFails \/ CheckerReady \/ CheckerFails \/ WatchFirst \/ WatchSecond
    BY <2>3 DEF Signal, ServeFails, CheckerReady, CheckerFails, WatchFirst, WatchSecond
  <2>4. CASE WarmupRuns \/ WarmupEnds \/ WarmupDone
    BY <2>4 DEF WarmupRuns, WarmupEnds, WarmupDone
  <2>5. CASE Store \/ CloseListeners \/ GraceEnds \/ ServersClose
    BY <2>5 DEF Store, CloseListeners, GraceEnds, ServersClose
  <2>6. CASE \E l \in Lints : Lint(l) \/ LintEnds(l)
    BY <2>6 DEF Lint, LintEnds
  <2>7. CASE UNCHANGED vars
    BY <2>7
  <2> QED
    BY <2>1, <2>2, <2>3, <2>4, <2>5, <2>6, <2>7, Steps
<1> QED
  BY <1>1, <1>2, <1>3 DEF TypeOK, SetsOK, Files, Components

\* Every step keeps the flags flags.
LEMMA FlagsStep ==
  ASSUME FlagsOK, [Next]_vars
  PROVE  FlagsOK'
<1> USE DEF FlagsOK, dirVars, netVars, wishVars, checkerVars, stateVars, mainVars, vars
<1>1. CASE Boot
  BY <1>1, Zenon DEF Boot
<1>2. CASE PrepareCache \/ ProbeCache \/ PrepareWork \/ ProbeWork
  BY <1>2 DEF PrepareCache, ProbeCache, PrepareWork, ProbeWork, PrepareDir, RemoveProbe, Enter, Ends
<1>3. CASE Bind
  BY <1>3, Zenon DEF Bind, Enter, Ends
<1>4. CASE Serve
  BY <1>4, Zenon DEF Serve, Enter, Done
<1>5. CASE StartChecker \/ StartWarmup \/ Stopped \/ CloseChecker \/ WaitServers \/ Join
  BY <1>5 DEF StartChecker, StartWarmup, Stopped, CloseChecker, WaitServers, Join, Enter, Ends
<1>6. CASE CancelBase
  BY <1>6, Zenon DEF CancelBase
<1>7. CASE Unlink
  BY <1>7, Zenon DEF Unlink, Enter
<1>8. CASE Kill
  BY <1>8, Zenon DEF Kill, Ends
<1>9. CASE Signal \/ ServeFails \/ CheckerReady \/ CheckerFails
  BY <1>9, Zenon DEF Signal, ServeFails, CheckerReady, CheckerFails
<1>10. CASE WatchFirst \/ WatchSecond \/ WarmupDone
  BY <1>10, Zenon DEF WatchFirst, WatchSecond, WarmupDone, Done
<1>11. CASE WarmupRuns \/ WarmupEnds \/ Store \/ ServersClose
  BY <1>11 DEF WarmupRuns, WarmupEnds, Store, ServersClose
<1>12. CASE CloseListeners \/ GraceEnds
  BY <1>12, Zenon DEF CloseListeners, GraceEnds
<1>13. CASE \E l \in Lints : Lint(l) \/ LintEnds(l)
  BY <1>13 DEF Lint, LintEnds
<1>14. CASE UNCHANGED vars
  BY <1>14
<1> QED
  BY <1>1, <1>2, <1>3, <1>4, <1>5, <1>6, <1>7, <1>8, <1>9, <1>10, <1>11, <1>12, <1>13, <1>14, Steps

\* Every step keeps the types.
LEMMA TypeStep ==
  ASSUME TypeOK, StageInv, WarmInv, [Next]_vars
  PROVE  TypeOK'
<1> USE SetsStep, FlagsStep DEF TypeOK, dirVars, netVars, wishVars, checkerVars, stateVars, mainVars, vars,
                     New, Run, Stop
<1>1. CASE Boot
  BY <1>1, LivesAssumption DEF Boot
<1>2. CASE PrepareCache \/ ProbeCache \/ PrepareWork \/ ProbeWork \/ Bind
  BY <1>2 DEF PrepareCache, ProbeCache, PrepareWork, ProbeWork, PrepareDir, RemoveProbe, Bind, Enter, Ends
<1>3. CASE Serve
  BY <1>3, DoneTypes DEF Serve, Enter, Done, WarmInv
<1>4. CASE StartChecker \/ StartWarmup \/ Stopped
  BY <1>4 DEF StartChecker, StartWarmup, Stopped, Enter
<1>5. CASE CancelBase \/ CloseChecker \/ WaitServers \/ Unlink \/ Join \/ Kill
  BY <1>5 DEF CancelBase, CloseChecker, WaitServers, Unlink, Join, Kill, Enter, Ends
<1>6. CASE Signal \/ ServeFails \/ CheckerReady \/ CheckerFails
  BY <1>6 DEF Signal, ServeFails, CheckerReady, CheckerFails
<1>7. CASE WatchFirst \/ WatchSecond
  BY <1>7, DoneTypes DEF WatchFirst, WatchSecond, Done, WarmInv
<1>8. CASE WarmupRuns \/ WarmupEnds
  BY <1>8 DEF WarmupRuns, WarmupEnds
<1>9. CASE WarmupDone
  BY <1>9, DoneTypes DEF WarmupDone, Done, WarmInv
<1>10. CASE Store \/ CloseListeners \/ GraceEnds \/ ServersClose
  BY <1>10 DEF Store, CloseListeners, GraceEnds, ServersClose
<1>11. ASSUME NEW l \in Lints, Lint(l) \/ LintEnds(l) PROVE TypeOK'
  BY <1>11 DEF Lint, LintEnds
<1>12. CASE UNCHANGED vars
  BY <1>12
<1> QED
  BY <1>1, <1>2, <1>3, <1>4, <1>5, <1>6, <1>7, <1>8, <1>9, <1>10, <1>11, <1>12, Steps

\* Where Main is bounds what the rest of the process may be.
LEMMA StageStep ==
  ASSUME TypeOK, StageInv, [Next]_vars
  PROVE  StageInv'
<1> USE LivesAssumption DEF TypeOK, StageInv, dirVars, netVars, wishVars, checkerVars, stateVars,
                            mainVars, vars, Tools, New, Run, Stop
<1>1. CASE Boot
  BY <1>1 DEF Boot
<1>2. CASE PrepareCache \/ ProbeCache \/ PrepareWork \/ ProbeWork \/ Bind
  BY <1>2 DEF PrepareCache, ProbeCache, PrepareWork, ProbeWork, PrepareDir, RemoveProbe, Bind, Enter, Ends
<1>3. CASE Serve
  BY <1>3 DEF Serve, Enter, Done
<1>4. CASE StartChecker \/ StartWarmup \/ Stopped
  BY <1>4 DEF StartChecker, StartWarmup, Stopped, Enter
<1>5. CASE CancelBase \/ CloseChecker \/ WaitServers \/ Unlink \/ Join \/ Kill
  BY <1>5 DEF CancelBase, CloseChecker, WaitServers, Unlink, Join, Kill, Enter, Ends
<1>6. CASE Signal \/ ServeFails \/ CheckerReady \/ CheckerFails
  BY <1>6 DEF Signal, ServeFails, CheckerReady, CheckerFails
<1>7. CASE WatchFirst \/ WatchSecond \/ WarmupDone
  BY <1>7 DEF WatchFirst, WatchSecond, WarmupDone, Done
<1>8. CASE WarmupRuns \/ WarmupEnds
  BY <1>8 DEF WarmupRuns, WarmupEnds
<1>9. CASE Store \/ CloseListeners \/ GraceEnds \/ ServersClose
  BY <1>9 DEF Store, CloseListeners, GraceEnds, ServersClose, Up
<1>10. ASSUME NEW l \in Lints, Lint(l) \/ LintEnds(l) PROVE StageInv'
  BY <1>10 DEF Lint, LintEnds
<1>11. CASE UNCHANGED vars
  BY <1>11
<1> QED
  BY <1>1, <1>2, <1>3, <1>4, <1>5, <1>6, <1>7, <1>8, <1>9, <1>10, <1>11, Steps

\* The socket file goes with the listeners, and the exit code stays what it is.
LEMMA ExitStep ==
  ASSUME TypeOK, StageInv, ExitInv, [Next]_vars
  PROVE  ExitInv'
<1> USE DEF TypeOK, StageInv, ExitInv, dirVars, netVars, wishVars, checkerVars, stateVars,
            mainVars, vars, New, Run, Stop
<1>1. CASE Boot
  BY <1>1 DEF Boot
<1>2. CASE PrepareCache \/ ProbeCache \/ PrepareWork \/ ProbeWork \/ Bind \/ Serve
  BY <1>2 DEF PrepareCache, ProbeCache, PrepareWork, ProbeWork, PrepareDir, RemoveProbe, Bind, Serve, Enter, Ends
<1>3. CASE StartChecker \/ StartWarmup \/ Stopped
  BY <1>3 DEF StartChecker, StartWarmup, Stopped, Enter
<1>4. CASE CancelBase \/ CloseChecker \/ WaitServers \/ Unlink \/ Join \/ Kill
  BY <1>4 DEF CancelBase, CloseChecker, WaitServers, Unlink, Join, Kill, Enter, Ends
<1>5. CASE Signal \/ ServeFails \/ CheckerReady \/ CheckerFails \/ WatchFirst \/ WatchSecond
  BY <1>5 DEF Signal, ServeFails, CheckerReady, CheckerFails, WatchFirst, WatchSecond
<1>6. CASE WarmupRuns \/ WarmupEnds \/ WarmupDone \/ Store
  BY <1>6 DEF WarmupRuns, WarmupEnds, WarmupDone, Store
<1>7. CASE CloseListeners \/ GraceEnds \/ ServersClose
  BY <1>7 DEF CloseListeners, GraceEnds, ServersClose, Up
<1>8. ASSUME NEW l \in Lints, Lint(l) \/ LintEnds(l) PROVE ExitInv'
  BY <1>8 DEF Lint, LintEnds
<1>9. CASE UNCHANGED vars
  BY <1>9
<1> QED
  BY <1>1, <1>2, <1>3, <1>4, <1>5, <1>6, <1>7, <1>8, <1>9, Steps

\* Files of an earlier life go before the socket exists, and none come back.
LEMMA FilesStep ==
  ASSUME TypeOK, StageInv, FilesInv, [Next]_vars
  PROVE  FilesInv'
<1> USE DEF TypeOK, SetsOK, StageInv, FilesInv, OnlyOwnFiles, Up, CacheFiles, Kinds, Files, dirVars, netVars,
            wishVars, checkerVars, stateVars, mainVars, vars, New, Run, Stop
<1>1. CASE Boot
  <2>1. life \in Nat /\ life' = life + 1 /\ main' = "cache" /\ files' = files
    BY <1>1, LivesAssumption DEF Boot
  <2>2. \A f \in files : f[1] <= life /\ f[1] \in Nat
    BY LivesAssumption DEF Lives
  <2>3. \A f \in files : f[1] <= life + 1 /\ f[1] # life + 1
    BY <2>1, <2>2
  <2> QED
    BY <2>1, <2>3
<1>2. CASE PrepareCache \/ ProbeCache
  BY <1>2 DEF PrepareCache, ProbeCache, PrepareDir, RemoveProbe, Enter, Ends
<1>3. CASE PrepareWork \/ ProbeWork
  BY <1>3 DEF PrepareWork, ProbeWork, PrepareDir, RemoveProbe, Enter, Ends
<1>4. CASE Bind \/ Serve \/ StartChecker \/ StartWarmup \/ Stopped
  BY <1>4 DEF Bind, Serve, StartChecker, StartWarmup, Stopped, Enter, Ends
<1>5. CASE CancelBase \/ CloseChecker \/ WaitServers \/ Unlink \/ Join \/ Kill
  BY <1>5 DEF CancelBase, CloseChecker, WaitServers, Unlink, Join, Kill, Enter, Ends
<1>6. CASE Signal \/ ServeFails \/ CheckerReady \/ CheckerFails \/ WatchFirst \/ WatchSecond
  BY <1>6 DEF Signal, ServeFails, CheckerReady, CheckerFails, WatchFirst, WatchSecond
<1>7. CASE WarmupRuns \/ WarmupEnds \/ WarmupDone \/ Store
  BY <1>7 DEF WarmupRuns, WarmupEnds, WarmupDone, Store
<1>8. CASE CloseListeners \/ GraceEnds \/ ServersClose
  BY <1>8 DEF CloseListeners, GraceEnds, ServersClose
<1>9. ASSUME NEW l \in Lints, Lint(l) \/ LintEnds(l) PROVE FilesInv'
  BY <1>9, LintsAssumption DEF Lint, LintEnds
<1>10. CASE UNCHANGED vars
  BY <1>10
<1> QED
  BY <1>1, <1>2, <1>3, <1>4, <1>5, <1>6, <1>7, <1>8, <1>9, <1>10, Steps

\* A component that is done is warm, and stays so while Run goes on.
LEMMA WarmStep ==
  ASSUME TypeOK, StageInv, WarmInv, [Next]_vars
  PROVE  WarmInv'
<1> USE DEF TypeOK, StageInv, WarmInv, dirVars, netVars, checkerVars, stateVars, mainVars, vars,
            New, Run, Stop
<1>1. CASE Boot
  BY <1>1 DEF Boot
<1>2. CASE PrepareCache \/ ProbeCache \/ PrepareWork \/ ProbeWork \/ Bind
  BY <1>2 DEF PrepareCache, ProbeCache, PrepareWork, ProbeWork, PrepareDir, RemoveProbe, Bind, Enter, Ends
<1>3. CASE Serve
  BY <1>3, DoneTypes DEF Serve, Enter, Done
<1>4. CASE StartChecker \/ StartWarmup \/ Stopped
  BY <1>4 DEF StartChecker, StartWarmup, Stopped, Enter
<1>5. CASE CancelBase \/ CloseChecker \/ WaitServers \/ Unlink \/ Join \/ Kill
  BY <1>5 DEF CancelBase, CloseChecker, WaitServers, Unlink, Join, Kill, Enter, Ends
<1>6. CASE Signal \/ ServeFails \/ CheckerReady \/ CheckerFails
  BY <1>6 DEF Signal, ServeFails, CheckerReady, CheckerFails
<1>7. CASE WatchFirst \/ WatchSecond
  BY <1>7, DoneTypes DEF WatchFirst, WatchSecond, Done
<1>8. CASE WarmupRuns \/ WarmupEnds
  BY <1>8 DEF WarmupRuns, WarmupEnds
<1>9. CASE WarmupDone
  BY <1>9, DoneTypes DEF WarmupDone, Done
<1>10. CASE Store \/ CloseListeners \/ GraceEnds \/ ServersClose
  BY <1>10 DEF Store, CloseListeners, GraceEnds, ServersClose
<1>11. ASSUME NEW l \in Lints, Lint(l) \/ LintEnds(l) PROVE WarmInv'
  BY <1>11 DEF Lint, LintEnds
<1>12. CASE UNCHANGED vars
  BY <1>12
<1> QED
  BY <1>1, <1>2, <1>3, <1>4, <1>5, <1>6, <1>7, <1>8, <1>9, <1>10, <1>11, <1>12, Steps

\* The invariant holds in every life, killed or not.
THEOREM Invariance == Spec => []IInv
<1>1. IInv /\ [Next]_vars => IInv'
  BY TypeStep, StageStep, ExitStep, FilesStep, WarmStep DEF IInv
<1> QED
  BY InitInv, <1>1, PTL DEF Spec

\* Types, and that only tools in use are started.
THEOREM TypeCorrect == Spec => []TypeOK
<1>1. IInv => TypeOK
  BY DEF IInv
<1> QED
  BY Invariance, <1>1, PTL

\* prepareDir and bind: of an earlier life, killed anywhere, a server that
\* listens has only probe files in its work directory.
THEOREM DirectoriesAreOwn == Spec => []OnlyOwnFiles
<1>1. IInv => OnlyOwnFiles
  BY DEF IInv, FilesInv
<1> QED
  BY Invariance, <1>1, PTL

\* readiness.go: a server that is ready, or lints, is warm.
THEOREM ReadyIsWarm == Spec => []ReadyMeansWarm
<1>1. IInv => ReadyMeansWarm
  BY DEF IInv, TypeOK, StageInv, WarmInv, ReadyMeansWarm, Up, New, Run, Stop
<1> QED
  BY Invariance, <1>1, PTL

\* shutdown: a life that is not killed leaves no listener, JVM, warm-up or
\* socket file behind, and exit code 0 answers a signal.
THEOREM ExitIsOrderly == Spec => []OrderlyExit
<1>1. IInv => OrderlyExit
  BY DEF IInv, StageInv, ExitInv, OrderlyExit
<1> QED
  BY Invariance, <1>1, PTL
==============================================================================
