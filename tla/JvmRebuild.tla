----------------------------- MODULE JvmRebuild -----------------------------
(***************************************************************************)
(* The resident Java process, internal/javacworker/java/JavacWorker.java:  *)
(* main reads requests and hands them to a fixed pool of threads, each     *)
(* with a compiler of its own that it rebuilds when it is worn, one thread *)
(* at a time.  JavacWorker sees this process from outside.                 *)
(*                                                                         *)
(* A check of sources is abstracted to how it ends: a report, an Exception,*)
(* an Error or the lack of memory.                                         *)
(***************************************************************************)
EXTENDS Naturals, Sequences, FiniteSets

CONSTANTS
  Threads,        \* the pool's threads (--threads)
  Requests,       \* the requests that stdin may hold
  Warm,           \* a warm-up task
  None,           \* no compiler, no task
  MAX_USES, MIN_USES,
  MaxCrossings    \* bound: full collections that leave the heap above its threshold

Compilers == [uses : Nat, crossings : Nat, cold : BOOLEAN]

ASSUME JvmAssumption ==
  /\ Threads # {} /\ IsFiniteSet(Threads) /\ IsFiniteSet(Requests)
  /\ MIN_USES \in Nat \ {0} /\ MAX_USES \in Nat \ {0} /\ MaxCrossings \in Nat
  /\ Warm \notin Requests /\ None \notin Requests \cup {Warm} \cup Compilers

VARIABLES
  warmup,                \* --warmup was given
  main,                  \* where the main thread is
  exit,                  \* the exit code, Alive before
  sent,                  \* the requests that main has read
  queue,                 \* the tasks that no thread has taken
  pc, task,              \* per thread: where it is, and its task
  compilers,             \* per thread: COMPILER, [uses, crossings, cold] or None
  REBUILDING,
  started, finished, ok, \* warm: the two latches and whether no sample failed
  watched, crossings,    \* watchedPools is set; its collections above the threshold
  answered, dropped,     \* requests with a reply; those a dying thread took along
  warmed,                \* per thread: the warm-up tasks it has taken
  died                   \* those that are successors of a thread that an Error ended

mainVars == <<warmup, main, sent>>
heapVars == <<watched, crossings>>
warmVars == <<started, finished, ok, warmed, died>>
poolVars == <<queue, pc, task, compilers, REBUILDING>>
outVars  == <<answered, dropped>>
vars == <<mainVars, exit, heapVars, warmVars, poolVars, outVars>>

Tasks == Requests \cup {Warm}
Codes == {0, 1, 3, 4, 5}
Alive == 6
Size  == Cardinality(Threads)

FlagsOK == warmup \in BOOLEAN /\ REBUILDING \in BOOLEAN /\ ok \in BOOLEAN /\ watched \in BOOLEAN
CompilersOK ==
  /\ compilers \in [Threads -> Compilers \cup {None}]
  /\ \A t \in Threads :
       /\ pc[t] \in {"build", "analyze"} => compilers[t] # None
       /\ compilers[t] # None => /\ compilers[t].uses <= MAX_USES + Cardinality(Requests)
                                 /\ compilers[t].crossings <= crossings
TypeOK ==
  /\ FlagsOK /\ CompilersOK /\ main \in {"submit", "warm", "read", "drain"}
  /\ exit \in Codes \cup {Alive} /\ sent \subseteq Requests
  /\ queue \in Seq(Tasks) /\ Len(queue) <= Size + Cardinality(Requests)
  /\ pc \in [Threads -> {"idle", "latch", "check", "build", "analyze", "encode"}]
  /\ task \in [Threads -> Tasks \cup {None}]
  /\ \A t \in Threads : pc[t] = "idle" <=> task[t] = None
  /\ started \in 0 .. Size /\ finished \in started .. Size
  /\ crossings \in 0 .. MaxCrossings
  /\ answered \subseteq sent /\ dropped \subseteq sent \ answered
  /\ warmed \in [Threads -> 0 .. Size] /\ died \subseteq Threads

Init ==
  /\ warmup \in BOOLEAN /\ main = (IF warmup THEN "submit" ELSE "read")
  /\ exit = Alive /\ sent = {} /\ queue = <<>>
  /\ pc = [t \in Threads |-> "idle"] /\ task = [t \in Threads |-> None]
  /\ compilers = [t \in Threads |-> None] /\ REBUILDING = FALSE
  /\ started = Size /\ finished = Size /\ ok = TRUE
  /\ watched = FALSE /\ crossings = 0 /\ answered = {} /\ dropped = {}
  /\ warmed = [t \in Threads |-> 0] /\ died = {}

Exits(code) ==
  /\ exit' = code
  /\ UNCHANGED <<mainVars, heapVars, warmVars, poolVars, outVars>>

(***************************************************************************)
(* The main thread.                                                        *)
(***************************************************************************)

\* warm hands out one task per thread; none of them gets past the latch before
\* the last one is handed out.
SubmitWarmup ==
  /\ main = "submit" /\ main' = "warm"
  /\ queue' = [i \in 1 .. Size |-> Warm]
  /\ UNCHANGED <<warmup, sent, exit, heapVars, warmVars, pc, task, compilers, REBUILDING, outVars>>

\* finished.await, then watchHeap when warm returns true.
FinishWarmup ==
  /\ main = "warm" /\ finished = 0 /\ main' = "read"
  /\ watched' = ok
  /\ UNCHANGED <<warmup, sent, crossings, exit, warmVars, poolVars, outVars>>

ReadRequest ==
  /\ main = "read"
  /\ \E r \in Requests \ sent : sent' = sent \cup {r} /\ queue' = Append(queue, r)
  /\ UNCHANGED <<warmup, main, exit, heapVars, warmVars, pc, task, compilers, REBUILDING, outVars>>

\* A line that is no request ends the process with 3, a failed read with 1.
ReadFails == main = "read" /\ \E code \in {1, 3} : Exits(code)

\* End of stdin: pool.shutdown.
ReadEof ==
  /\ main = "read" /\ main' = "drain"
  /\ UNCHANGED <<warmup, sent, exit, heapVars, warmVars, poolVars, outVars>>

\* Mutant: main exits once every task has been taken.
DrainedEarly == main = "drain" /\ queue = <<>> /\ Exits(0)

\* awaitTermination has seen every task through.
Drained == main = "drain" /\ queue = <<>> /\ (\A t \in Threads : pc[t] = "idle") /\ Exits(0)

(***************************************************************************)
(* The pool and the warm-up latch.                                         *)
(***************************************************************************)

Go(t, where) == pc' = [pc EXCEPT ![t] = where]

\* A free thread takes the next task.  A warm-up task counts itself as started.
Take(t) ==
  /\ pc[t] = "idle" /\ queue # <<>> /\ queue' = Tail(queue)
  /\ task' = [task EXCEPT ![t] = Head(queue)]
  /\ IF Head(queue) = Warm
       THEN /\ Go(t, "latch") /\ started' = started - 1
            /\ warmed' = [warmed EXCEPT ![t] = @ + 1]
       ELSE Go(t, "check") /\ UNCHANGED <<started, warmed>>
  /\ UNCHANGED <<mainVars, exit, heapVars, finished, ok, died, compilers, REBUILDING, outVars>>

\* Mutant: a warm-up task does not wait for the others.
PassAtOnce(t) ==
  /\ pc[t] = "latch" /\ Go(t, "check")
  /\ UNCHANGED <<mainVars, exit, heapVars, warmVars, queue, task, compilers, REBUILDING, outVars>>
Pass(t) == started = 0 /\ PassAtOnce(t)

\* An Error ends a thread; the pool makes a new one, which has no compiler and has
\* taken nothing.
Dies(t) ==
  /\ compilers' = [compilers EXCEPT ![t] = None]
  /\ warmed' = [warmed EXCEPT ![t] = 0] /\ died' = died \cup {t}

\* The warm-up task catches an Exception, no Error, and counts itself as finished
\* however it ends.
WarmupEnds(t, how, comp) ==
  /\ finished' = finished - 1 /\ ok' = (ok /\ how # "exception")
  /\ Go(t, "idle") /\ task' = [task EXCEPT ![t] = None]
  /\ IF how \in {"error", "oom"}
       THEN Dies(t)
       ELSE compilers' = [compilers EXCEPT ![t] = comp] /\ UNCHANGED <<warmed, died>>

\* How check may end, for the warm-up and for handle: without memory handle
\* halts the JVM, and turns every other Throwable into an error reply.
Ends(t, how, comp, flag) ==
  \/ /\ task[t] = Warm /\ WarmupEnds(t, how, comp) /\ REBUILDING' = flag
     /\ UNCHANGED <<mainVars, exit, heapVars, started, queue, outVars>>
  \/ /\ task[t] # Warm /\ how # "oom" /\ Go(t, "encode")
     /\ compilers' = [compilers EXCEPT ![t] = comp] /\ REBUILDING' = flag
     /\ UNCHANGED <<mainVars, exit, heapVars, warmVars, queue, task, outVars>>
  \/ task[t] # Warm /\ how = "oom" /\ Exits(4)

Failures == {"exception", "error", "oom"}

(***************************************************************************)
(* check and its compiler.                                                 *)
(***************************************************************************)

\* What comes before the compiler fails: the walk over the siblings, too many
\* of them, or the first construction of the thread's compiler.
CheckFails(t) ==
  /\ pc[t] = "check"
  /\ \E how \in Failures : Ends(t, how, compilers[t], REBUILDING)

Fresh == [uses |-> 0, crossings |-> crossings, cold |-> FALSE]
Mine(t) == IF compilers[t] = None THEN Fresh ELSE compilers[t]

\* compiler(): the condition under which a thread wants a new one.
Worn(c) == c.uses >= MAX_USES \/ (c.uses >= MIN_USES /\ crossings > c.crossings)

Used(c) == [c EXCEPT !.uses = @ + 1]
Tried(c) == [c EXCEPT !.cold = FALSE]
New == [Fresh EXCEPT !.cold = TRUE]

\* A compiler that is not worn, or while another thread rebuilds, serves on.
Serve(t) ==
  /\ pc[t] = "check" /\ (~Worn(Mine(t)) \/ REBUILDING)
  /\ Go(t, "analyze")
  /\ compilers' = [compilers EXCEPT ![t] = Used(Mine(t))]
  /\ UNCHANGED <<mainVars, exit, heapVars, warmVars, queue, task, REBUILDING, outVars>>

\* compareAndSet
WinRebuild(t) ==
  /\ pc[t] = "check" /\ Worn(Mine(t)) /\ ~REBUILDING /\ REBUILDING' = TRUE
  /\ Go(t, "build")
  /\ UNCHANGED <<mainVars, exit, heapVars, warmVars, queue, task, compilers, outVars>>

\* The new compiler replaces the old, which closes, and is cold.
Build(t) ==
  /\ pc[t] = "build" /\ Go(t, "analyze")
  /\ compilers' = [compilers EXCEPT ![t] = Used(New)]
  /\ UNCHANGED <<mainVars, exit, heapVars, warmVars, queue, task, REBUILDING, outVars>>

\* An Error while the old one closes, or of the log line: the new compiler is
\* there, has served nothing, and keeps the flag.
CloseFails(t) ==
  /\ pc[t] = "build"
  /\ \E how \in {"error", "oom"} : Ends(t, how, New, REBUILDING)

\* Its construction fails: the flag is free again, the old compiler stays.
BuildFails(t) ==
  /\ pc[t] = "build"
  /\ \E how \in Failures : Ends(t, how, compilers[t], FALSE)

\* Mutant: warmed is not in a finally.
AnalyzeWarm(t) ==
  /\ pc[t] = "analyze"
  /\ \/ Ends(t, "report", Tried(compilers[t]), REBUILDING /\ ~compilers[t].cold)
     \/ \E how \in Failures : Ends(t, how, compilers[t], REBUILDING)

\* analyze and the report end, well or not; before that, warmed lets the next
\* thread rebuild when this compiler was cold.
Analyze(t) ==
  /\ pc[t] = "analyze"
  /\ \E how \in Failures \cup {"report"} :
       Ends(t, how, Tried(compilers[t]), REBUILDING /\ ~compilers[t].cold)

(***************************************************************************)
(* The reply, outside handle's try.                                        *)
(***************************************************************************)

Free(t) == Go(t, "idle") /\ task' = [task EXCEPT ![t] = None]

\* One line, under REPLY_LOCK.
Reply(t) ==
  /\ pc[t] = "encode" /\ Free(t) /\ answered' = answered \cup {task[t]}
  /\ UNCHANGED <<mainVars, exit, heapVars, warmVars, queue, compilers, REBUILDING, dropped>>

\* stdout is gone: halt.
ReplyFails(t) == pc[t] = "encode" /\ Exits(5)

\* Mutant: the Error strikes once the line is out.
EncodeFailsLate(t) ==
  /\ pc[t] = "encode" /\ Free(t) /\ dropped' = dropped \cup {task[t]}
  /\ answered' = answered \cup {task[t]} /\ Dies(t)
  /\ UNCHANGED <<mainVars, exit, heapVars, started, finished, ok, queue, REBUILDING>>

\* An Error while the reply is made into bytes ends the thread, no one else.
EncodeFails(t) ==
  /\ pc[t] = "encode" /\ Free(t) /\ dropped' = dropped \cup {task[t]} /\ Dies(t)
  /\ UNCHANGED <<mainVars, exit, heapVars, started, finished, ok, queue, REBUILDING, answered>>

\* A full collection leaves the old generation above its threshold.
Crossing ==
  /\ watched /\ crossings < MaxCrossings /\ crossings' = crossings + 1
  /\ UNCHANGED <<mainVars, exit, watched, warmVars, poolVars, outVars>>

MainStep == SubmitWarmup \/ FinishWarmup \/ Drained
Input    == ReadRequest \/ ReadFails \/ ReadEof
ThreadStep(t) ==
  \/ Take(t) \/ Pass(t)
  \/ CheckFails(t) \/ Serve(t) \/ WinRebuild(t) \/ Build(t) \/ CloseFails(t)
  \/ BuildFails(t) \/ Analyze(t)
  \/ Reply(t) \/ ReplyFails(t) \/ EncodeFails(t)

\* The process is gone.
Gone == exit # Alive /\ UNCHANGED vars

Next ==
  \/ /\ exit = Alive
     /\ (MainStep \/ Input \/ Crossing \/ \E t \in Threads : ThreadStep(t))
  \/ Gone

Spec == Init /\ [][Next]_vars

\* Every thread gets on: it waits for nothing but the latch, and javac ends.
\* Nothing is assumed of stdin or of the heap.
FairSpec ==
  /\ Spec /\ WF_vars(exit = Alive /\ MainStep)
  /\ \A t \in Threads : WF_vars(exit = Alive /\ ThreadStep(t))

(***************************************************************************)
(* Properties.                                                             *)
(***************************************************************************)

\* Threads rebuild one at a time: REBUILDING is held by exactly one thread that
\* builds a compiler or has a new one that is cold; such a compiler has served no
\* request, or serves its first (compiler, warmed).  Held by none it is only once
\* a thread has died: its cold compiler takes the flag along, and nobody rebuilds
\* any more.
Rebuilders == {t \in Threads : pc[t] = "build" \/ (compilers[t] # None /\ compilers[t].cold)}
OneRebuildAtATime ==
  /\ Cardinality(Rebuilders) = (IF REBUILDING THEN 1 ELSE 0)
       \/ (REBUILDING /\ Rebuilders = {} /\ died # {})
  /\ \A t \in Rebuilders : pc[t] \in {"build", "analyze"} \/ compilers[t].uses = 0

\* With --warmup main reads no request before every thread has been through the
\* sample, each exactly once, whatever thread the pool gives a task to; only the
\* successor of a thread that an Error ended has not (warm).
WarmedTogether ==
  warmup /\ main \in {"read", "drain"} =>
    \A t \in Threads : task[t] # Warm /\ (warmed[t] = 1 \/ t \in died)

\* A request that main reads is not forgotten, also when stdin ends behind it
\* (Appendix A: it finishes the requests in flight and exits 0): it gets its reply,
\* or the process halts, or an Error has taken its thread, and the reply, away.
\* After the end of stdin the process does exit.
RequestsEnd ==
  /\ \A r \in Requests : r \in sent ~> (r \in answered \cup dropped \/ exit \notin {Alive, 0})
  /\ main = "drain" ~> exit # Alive
=============================================================================
