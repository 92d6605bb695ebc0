-------------------------- MODULE JvmRebuildProofs ---------------------------
(***************************************************************************)
(* Proofs about the resident Java process, for any number of threads and   *)
(* requests: one rebuild at a time, and a warm-up that reaches every thread*)
(* before the first request.                                               *)
(***************************************************************************)
EXTENDS MCJvmRebuild, RulesProofs

\* REBUILDING belongs to the one thread that builds or has a cold compiler, or to
\* none when such a thread may have died.
Unserved(t) == pc[t] \in {"build", "analyze"} \/ compilers[t].uses = 0
RebuildInv ==
  /\ REBUILDING => (Rebuilders = {} /\ died # {}) \/ \E t \in Threads : Rebuilders = {t}
  /\ ~REBUILDING => Rebuilders = {}
  /\ \A t \in Rebuilders : Unserved(t)
  /\ \A t \in Threads : pc[t] = "build" => ~compilers[t].cold

\* A request that was read is in one place: the queue, a thread, or the past.
Pending == sent \ (answered \cup dropped)
PlaceInv ==
  /\ answered \cup dropped \subseteq sent /\ answered \cap dropped = {}
  /\ \A i \in 1 .. Len(queue) : queue[i] # Warm =>
       /\ queue[i] \in Pending
       /\ \A t \in Threads : task[t] # queue[i]
       /\ \A j \in 1 .. Len(queue) : queue[j] = queue[i] => i = j
  /\ \A t \in Threads : task[t] \in Requests =>
       /\ task[t] \in Pending
       /\ \A u \in Threads : task[u] = task[t] => t = u
  /\ \A t \in Threads : pc[t] = "encode" => task[t] # Warm
  /\ Len(queue) <= Size + Cardinality(sent)

\* What a thread has spent its compiler on, since it has one: each counts once.
Spent(t) ==
  answered \cup dropped
    \cup (IF pc[t] \in {"analyze", "encode"} THEN {task[t]} ELSE {})
    \cup (IF warmed[t] # 0 /\ task[t] # Warm THEN {Warm} ELSE {})
UseInv == \A t \in Threads : compilers[t] # None => compilers[t].uses <= Cardinality(Spent(t))

\* The two latches: started counts the warm-up tasks in the queue, finished also
\* those that a thread has.  While any is in the queue the others wait, and none dies.
Warmed  == {t \in Threads : warmed[t] = 1 \/ t \in died}
Warming == {t \in Threads : task[t] = Warm}
WarmInv ==
  /\ \A t \in Threads : warmed[t] \in {0, 1} /\ (task[t] = Warm => warmed[t] = 1)
  /\ main = "submit" => /\ warmup /\ queue = <<>> /\ sent = {}
                        /\ \A t \in Threads : pc[t] = "idle" /\ warmed[t] = 0 /\ t \notin died
  /\ main = "warm" =>
       /\ warmup /\ sent = {} /\ Len(queue) = started
       /\ \A i \in 1 .. Len(queue) : queue[i] = Warm
       /\ started + Cardinality(Warmed) = Size
       /\ finished = started + Cardinality(Warming)
       /\ started # 0 => \A t \in Threads :
            t \notin died /\ IF warmed[t] = 1 THEN pc[t] = "latch" ELSE pc[t] = "idle"
  /\ main \in {"read", "drain"} =>
       /\ Warming = {} /\ \A i \in 1 .. Len(queue) : queue[i] # Warm
       /\ warmup => Warmed = Threads
  /\ main = "submit" \/ (main # "warm" /\ ~warmup) => started = Size /\ finished = Size
  /\ main \in {"read", "drain"} /\ warmup => started = 0 /\ finished = 0

IInv == TypeOK /\ RebuildInv /\ PlaceInv /\ UseInv /\ WarmInv

(***************************************************************************)
(* What the steps do, as the proofs need it.                               *)
(***************************************************************************)

\* A check ends: the process halts, a sample is over, or a reply is to be made.
Halts == exit' \in Codes /\ UNCHANGED <<mainVars, heapVars, warmVars, poolVars, outVars>>
Sampled(t) ==
  /\ task[t] = Warm /\ finished' = finished - 1
  /\ pc' = [pc EXCEPT ![t] = "idle"] /\ task' = [task EXCEPT ![t] = None]
  /\ Dies(t) \/ UNCHANGED <<warmed, died>>
  /\ UNCHANGED <<mainVars, exit, heapVars, started, queue, outVars>>
Checked(t) ==
  /\ task[t] # Warm /\ pc' = [pc EXCEPT ![t] = "encode"]
  /\ UNCHANGED <<mainVars, exit, heapVars, warmVars, queue, task, outVars>>
CheckEnds(t) == CheckFails(t) \/ CloseFails(t) \/ BuildFails(t) \/ Analyze(t)

LEMMA EndsHow ==
  ASSUME NEW t \in Threads, CheckEnds(t)
  PROVE  pc[t] \in {"check", "build", "analyze"} /\ (Halts \/ Sampled(t) \/ Checked(t))
<1> USE DEF Halts, Sampled, Checked, Ends, Exits, WarmupEnds, Go, Codes, poolVars, warmVars
<1>1. CASE CheckFails(t)
  BY <1>1 DEF CheckFails
<1>2. CASE BuildFails(t) \/ CloseFails(t)
  BY <1>2 DEF BuildFails, CloseFails
<1>3. CASE Analyze(t)
  BY <1>3 DEF Analyze
<1> QED
  BY <1>1, <1>2, <1>3 DEF CheckEnds

\* The thread has this compiler or, a new thread, none; no other compiler changes.
Leaves(t, c) ==
  /\ compilers' = [compilers EXCEPT ![t] = compilers'[t]]
  /\ \/ compilers'[t] = None /\ died' = died \cup {t}
        /\ warmed' = [warmed EXCEPT ![t] = 0]
     \/ compilers'[t] = c /\ UNCHANGED <<warmed, died>>

LEMMA EndsWith ==
  ASSUME TypeOK, NEW t \in Threads, NEW how, NEW comp, NEW flag, Ends(t, how, comp, flag)
  PROVE  Halts \/ (Leaves(t, comp) /\ REBUILDING' = flag)
BY DEF Ends, WarmupEnds, Dies, Leaves, Halts, Exits, Codes, warmVars, TypeOK, CompilersOK

\* The counts of a compiler that is used, new or tried.
LEMMA CompilerFields ==
  ASSUME TypeOK
  PROVE  /\ Fresh \in Compilers /\ Fresh.uses = 0 /\ Fresh.crossings = crossings /\ ~Fresh.cold
         /\ New \in Compilers /\ New.uses = 0 /\ New.crossings = crossings /\ New.cold
         /\ \A c \in Compilers :
              /\ Used(c) \in Compilers /\ Used(c).uses = c.uses + 1
              /\ Used(c).crossings = c.crossings /\ (Used(c).cold <=> c.cold)
              /\ Tried(c) \in Compilers /\ Tried(c).uses = c.uses
              /\ Tried(c).crossings = c.crossings /\ ~Tried(c).cold
              /\ c # None
<1> USE DEF Compilers, Fresh, New, Used, Tried
<1>1. crossings \in Nat
  BY JvmAssumption DEF TypeOK
<1>2. Fresh \in Compilers /\ Fresh.uses = 0 /\ Fresh.crossings = crossings /\ ~Fresh.cold
  BY <1>1
<1>3. New.uses = 0 /\ New.crossings = crossings /\ New.cold
  BY <1>2
<1>4. New \in Compilers
  BY <1>2
<1>5. ASSUME NEW c \in Compilers
      PROVE  /\ Used(c).uses = c.uses + 1
             /\ Used(c).crossings = c.crossings /\ (Used(c).cold <=> c.cold)
             /\ Tried(c).uses = c.uses
             /\ Tried(c).crossings = c.crossings /\ ~Tried(c).cold
  OBVIOUS
<1>6. ASSUME NEW c \in Compilers
      PROVE  Used(c) \in Compilers
  OBVIOUS
<1>7. ASSUME NEW c \in Compilers
      PROVE  Tried(c) \in Compilers
  OBVIOUS
<1>8. \A c \in Compilers : c # None
  BY JvmAssumption
<1> QED
  BY <1>2, <1>3, <1>4, <1>5, <1>6, <1>7, <1>8, Zenon

\* The steps of a thread, apart from the end of a check, and those that leave
\* threads and compilers alone.
ThreadMoves(t) ==
  \/ Take(t) \/ Pass(t) \/ Serve(t) \/ WinRebuild(t) \/ Build(t)
  \/ Reply(t) \/ EncodeFails(t) \/ CheckEnds(t)
OtherStep ==
  \/ MainStep \/ Input \/ Crossing \/ UNCHANGED vars
  \/ \E t \in Threads : ReplyFails(t)

LEMMA Steps ==
  ASSUME [Next]_vars
  PROVE  OtherStep \/ \E t \in Threads : ThreadMoves(t)
BY DEF Next, Gone, ThreadStep, OtherStep, ThreadMoves, CheckEnds

LEMMA OtherStepStutters ==
  ASSUME OtherStep
  PROVE  UNCHANGED <<pc, task, compilers, REBUILDING, answered, dropped, warmed, died>>
BY DEF OtherStep, MainStep, SubmitWarmup, FinishWarmup, Drained, Input, ReadRequest, ReadFails,
   ReadEof, Crossing, ReplyFails, Exits, vars, mainVars, heapVars, warmVars, poolVars, outVars

\* A thread whose compiler is worn has one.
LEMMA WornIsThere ==
  ASSUME TypeOK, NEW t \in Threads, Worn(Mine(t))
  PROVE  compilers[t] # None /\ Mine(t) = compilers[t]
BY CompilerFields, JvmAssumption DEF Worn, Mine

\* The flag is taken and given back by the thread that rebuilds.
RebuildMoves(t) ==
  /\ \A u \in Threads \ {t} : pc'[u] = pc[u] /\ compilers'[u] = compilers[u]
  /\ \/ (REBUILDING' <=> REBUILDING) /\ (t \in Rebuilders' <=> t \in Rebuilders)
     \/ ~REBUILDING /\ REBUILDING' /\ t \in Rebuilders'
     \/ t \in Rebuilders /\ ~REBUILDING' /\ t \notin Rebuilders'
     \/ t \notin Rebuilders' /\ REBUILDING' = REBUILDING /\ t \in died'
  /\ t \in Rebuilders' => Unserved(t)'
  /\ pc'[t] = "build" => ~compilers'[t].cold
  /\ died \subseteq died'

LEMMA ThreadRebuilds ==
  ASSUME TypeOK, RebuildInv, NEW t \in Threads, ThreadMoves(t)
  PROVE  RebuildMoves(t) \/ UNCHANGED <<pc, compilers, REBUILDING, died>>
<1> USE DEF RebuildMoves, Rebuilders, Unserved, Go, poolVars, warmVars
<1>0. /\ t \in Rebuilders => Unserved(t)
      /\ pc[t] = "build" => ~compilers[t].cold
      /\ pc \in [Threads -> {"idle", "latch", "check", "build", "analyze", "encode"}]
      /\ compilers \in [Threads -> Compilers \cup {None}]
      /\ pc[t] \in {"build", "analyze"} => compilers[t] # None
  BY DEF RebuildInv, TypeOK, CompilersOK
<1>1. CASE Take(t) \/ Pass(t) \/ Reply(t)
  BY <1>0, <1>1 DEF Take, Pass, PassAtOnce, Reply, Free
<1>2. CASE EncodeFails(t)
  BY <1>0, <1>2 DEF EncodeFails, Free, Dies
<1>3. CASE Serve(t)
  <2>1. /\ Mine(t) \in Compilers
        /\ Mine(t).cold <=> compilers[t] # None /\ compilers[t].cold
    BY <1>0, <1>3, CompilerFields DEF Mine, Serve
  <2>2. /\ pc' = [pc EXCEPT ![t] = "analyze"] /\ pc[t] = "check"
        /\ compilers' = [compilers EXCEPT ![t] = Used(Mine(t))]
        /\ UNCHANGED <<REBUILDING, died>>
    BY <1>3 DEF Serve
  <2>3. compilers'[t].cold <=> compilers[t] # None /\ compilers[t].cold
    BY <1>0, <2>1, <2>2, CompilerFields
  <2>4. compilers'[t] # None
    BY <1>0, <2>1, <2>2, CompilerFields
  <2> QED
    BY <1>0, <2>2, <2>3, <2>4
<1>4. CASE WinRebuild(t)
  <2>1. compilers[t] \in Compilers /\ Worn(compilers[t]) /\ ~REBUILDING /\ pc[t] = "check"
    BY <1>0, <1>4, WornIsThere DEF WinRebuild
  <2>2. compilers[t].uses # 0
    <3>1. compilers[t].uses \in Nat
      BY <2>1 DEF Compilers
    <3> QED
      BY <2>1, <3>1, JvmAssumption DEF Worn
  <2>3. compilers[t] # None
    BY <1>0, <2>1, JvmAssumption
  <2>4. ~compilers[t].cold /\ t \notin Rebuilders
    BY <1>0, <2>1, <2>2, <2>3
  <2>5. /\ pc' = [pc EXCEPT ![t] = "build"] /\ REBUILDING' = TRUE
        /\ UNCHANGED <<compilers, died>>
    BY <1>4 DEF WinRebuild
  <2> QED
    BY <1>0, <2>1, <2>3, <2>4, <2>5
<1>5. CASE Build(t)
  BY <1>0, <1>5, CompilerFields DEF Build
<1>6. CASE CheckEnds(t) /\ ~Halts
  <2>1. pc' = [pc EXCEPT ![t] = pc'[t]] /\ pc'[t] \in {"idle", "encode"}
    BY <1>0, <1>6, EndsHow DEF Sampled, Checked
  <2>2. CASE CheckFails(t)
    <3>1. Leaves(t, compilers[t]) /\ REBUILDING' = REBUILDING /\ pc[t] = "check"
      BY <1>6, <2>2, EndsWith DEF CheckFails
    <3> QED
      BY <1>0, <2>1, <3>1 DEF Leaves
  <2>3. CASE BuildFails(t)
    <3>1. Leaves(t, compilers[t]) /\ REBUILDING' = FALSE /\ pc[t] = "build"
      BY <1>6, <2>3, EndsWith DEF BuildFails
    <3> QED
      BY <1>0, <2>1, <3>1 DEF Leaves
  <2>5. CASE CloseFails(t)
    <3>1. Leaves(t, New) /\ REBUILDING' = REBUILDING /\ pc[t] = "build"
      BY <1>6, <2>5, EndsWith DEF CloseFails
    <3>2. New # None /\ New.cold /\ New.uses = 0
      BY CompilerFields
    <3> QED
      BY <1>0, <2>1, <3>1, <3>2 DEF Leaves
  <2>4. CASE Analyze(t)
    <3>1. /\ Leaves(t, Tried(compilers[t])) /\ pc[t] = "analyze"
          /\ REBUILDING' = (REBUILDING /\ ~compilers[t].cold)
      BY <1>6, <2>4, EndsWith DEF Analyze
    <3>2. REBUILDING' <=> REBUILDING /\ ~compilers[t].cold
      BY <3>1, Zenon
    <3>3. /\ compilers[t] \in Compilers
          /\ compilers'[t] = None \/ ~compilers'[t].cold
          /\ died \subseteq died'
      BY <1>0, <3>1, CompilerFields DEF Leaves
    <3>4. \A u \in Threads \ {t} : pc'[u] = pc[u] /\ compilers'[u] = compilers[u]
      BY <1>0, <2>1, <3>1 DEF Leaves
    <3>5. t \notin Rebuilders' /\ (t \in Rebuilders <=> compilers[t].cold)
      BY <1>0, <2>1, <3>1, <3>3, CompilerFields
    <3> QED
      BY <1>0, <2>1, <3>2, <3>3, <3>4, <3>5 DEF RebuildInv
  <2> QED
    BY <1>6, <2>2, <2>3, <2>4, <2>5 DEF CheckEnds
<1>7. CASE Halts
  BY <1>7 DEF Halts
<1> QED
  BY <1>1, <1>2, <1>3, <1>4, <1>5, <1>6, <1>7 DEF ThreadMoves

\* Every step leaves REBUILDING to the thread that rebuilds.
LEMMA RebuildStep ==
  ASSUME TypeOK, RebuildInv, [Next]_vars
  PROVE  RebuildInv'
<1>1. CASE UNCHANGED <<pc, compilers, REBUILDING, died>>
  BY <1>1 DEF RebuildInv, Rebuilders, Unserved
<1>2. ASSUME NEW t \in Threads, RebuildMoves(t) PROVE RebuildInv'
  <2>1. \A u \in Threads \ {t} : u \in Rebuilders' <=> u \in Rebuilders
    BY <1>2 DEF RebuildMoves, Rebuilders
  <2>2. Rebuilders \subseteq Threads /\ Rebuilders' \subseteq Threads
    BY DEF Rebuilders
  <2>3. /\ REBUILDING' => (Rebuilders' = {} /\ died' # {}) \/ \E u \in Threads : Rebuilders' = {u}
        /\ ~REBUILDING' => Rebuilders' = {}
    <3>0. died # {} => died' # {}
      BY <1>2 DEF RebuildMoves
    <3>1. CASE (REBUILDING' <=> REBUILDING) /\ (t \in Rebuilders' <=> t \in Rebuilders)
      <4>1. Rebuilders' = Rebuilders
        BY <2>1, <2>2, <3>1
      <4> QED
        BY <3>0, <3>1, <4>1 DEF RebuildInv
    <3>2. CASE ~REBUILDING /\ REBUILDING' /\ t \in Rebuilders'
      <4>1. Rebuilders' = {t}
        BY <2>1, <2>2, <3>2 DEF RebuildInv
      <4> QED
        BY <3>2, <4>1
    <3>3. CASE t \in Rebuilders /\ ~REBUILDING' /\ t \notin Rebuilders'
      <4>1. Rebuilders' = {}
        BY <2>1, <2>2, <3>3 DEF RebuildInv
      <4> QED
        BY <3>3, <4>1
    <3>4. CASE t \notin Rebuilders' /\ REBUILDING' = REBUILDING /\ t \in died'
      <4>1. REBUILDING => Rebuilders' = {} \/ \E u \in Threads : Rebuilders' = {u}
        BY <2>1, <2>2, <3>4 DEF RebuildInv
      <4>2. ~REBUILDING => Rebuilders' = {}
        BY <2>1, <2>2, <3>4 DEF RebuildInv
      <4>3. died' # {}
        BY <3>4
      <4> QED
        BY <3>4, <4>1, <4>2, <4>3, Zenon
    <3> QED
      BY <1>2, <3>1, <3>2, <3>3, <3>4 DEF RebuildMoves
  <2>4. \A u \in Threads : u \in Rebuilders' => Unserved(u)'
    BY <1>2, <2>1 DEF RebuildMoves, RebuildInv, Unserved
  <2>5. \A u \in Threads : pc'[u] = "build" => ~compilers'[u].cold
    BY <1>2 DEF RebuildMoves, RebuildInv
  <2>6. \A u \in Rebuilders' : Unserved(u)'
    BY <2>2, <2>4
  <2> QED
    BY <2>3, <2>5, <2>6, Zenon DEF RebuildInv
<1> QED
  BY <1>1, <1>2, Steps, OtherStepStutters, ThreadRebuilds

(***************************************************************************)
(* Where requests are.                                                     *)
(***************************************************************************)

LEMMA Sizes ==
  /\ Size \in Nat \ {0} /\ IsFiniteSet(Tasks)
  /\ Cardinality(Requests) \in Nat /\ Cardinality(Tasks) = Cardinality(Requests) + 1
<1>1. Size \in Nat /\ Size # 0
  BY JvmAssumption, FS_CardinalityType, FS_EmptySet DEF Size
<1>2. /\ IsFiniteSet(Requests \cup {Warm}) /\ Cardinality(Requests) \in Nat
      /\ Cardinality(Requests \cup {Warm}) = Cardinality(Requests) + 1
  BY JvmAssumption, FS_CardinalityType, FS_AddElement
<1> QED
  BY <1>1, <1>2 DEF Tasks

\* Of a set of requests there are no more than of requests.
LEMMA FewRequests ==
  ASSUME NEW S, S \subseteq Requests
  PROVE  /\ IsFiniteSet(S) /\ Cardinality(S) \in Nat
         /\ Cardinality(S) <= Cardinality(Requests)
BY JvmAssumption, FS_Subset, FS_CardinalityType

\* The queue that warm fills.
LEMMA WarmQueue ==
  ASSUME SubmitWarmup
  PROVE  /\ queue' \in Seq(Tasks) /\ Len(queue') = Size
         /\ \A i \in 1 .. Size : queue'[i] = Warm
<1>1. queue' = [i \in 1 .. Size |-> Warm] /\ Warm \in Tasks
  BY DEF SubmitWarmup, Tasks
<1>2. queue' \in [1 .. Size -> Tasks]
  BY <1>1
<1>3. queue' \in Seq(Tasks)
  BY <1>2, SeqDef, Sizes
<1> QED
  BY <1>1, <1>3, Sizes, LenProperties

\* The queue that a request, or a thread, leaves behind.
LEMMA LongerQueue ==
  ASSUME TypeOK, NEW r \in Tasks
  PROVE  /\ Append(queue, r) \in Seq(Tasks) /\ Len(Append(queue, r)) = Len(queue) + 1
         /\ Len(queue) \in Nat
         /\ \A i \in 1 .. Len(queue) : Append(queue, r)[i] = queue[i]
         /\ Append(queue, r)[Len(queue) + 1] = r
<1>1. queue \in Seq(Tasks)
  BY DEF TypeOK
<1> QED
  BY <1>1, AppendProperties, LenProperties

LEMMA ShorterQueue ==
  ASSUME TypeOK, queue # <<>>
  PROVE  /\ Head(queue) \in Tasks /\ Tail(queue) \in Seq(Tasks)
         /\ Len(queue) \in Nat \ {0} /\ Len(Tail(queue)) = Len(queue) - 1
         /\ Head(queue) = queue[1]
         /\ \A i \in 1 .. Len(queue) - 1 : Tail(queue)[i] = queue[i + 1]
<1>1. queue \in Seq(Tasks)
  BY DEF TypeOK
<1>2. Head(queue) = queue[1]
  BY <1>1
<1> QED
  BY <1>1, <1>2, HeadTailProperties, EmptySeq

\* A step that moves no request.
LEMMA PlacesStay ==
  ASSUME PlaceInv, UNCHANGED <<sent, answered, dropped, queue, task>>,
         \A t \in Threads : pc'[t] = "encode" => pc[t] = "encode"
  PROVE  PlaceInv'
BY DEF PlaceInv, Pending

\* Every step leaves each request in one place.
LEMMA PlaceStep ==
  ASSUME TypeOK, PlaceInv, WarmInv, [Next]_vars
  PROVE  PlaceInv'
<1> USE DEF mainVars, warmVars, poolVars, outVars, Go
<1>0. /\ sent \subseteq Requests /\ Cardinality(sent) \in Nat /\ IsFiniteSet(sent)
      /\ task \in [Threads -> Tasks \cup {None}]
      /\ pc \in [Threads -> {"idle", "latch", "check", "build", "analyze", "encode"}]
      /\ \A t \in Threads : pc[t] = "idle" <=> task[t] = None
      /\ \A t \in Threads : pc[t] = "encode" => task[t] \in Requests
  BY FewRequests DEF TypeOK, PlaceInv, Tasks
<1>1. CASE SubmitWarmup
  <2>1. /\ sent = {} /\ \A t \in Threads : task[t] = None /\ pc[t] = "idle"
        /\ UNCHANGED <<sent, answered, dropped, task, pc>>
    BY <1>0, <1>1 DEF SubmitWarmup, WarmInv
  <2>2. Len(queue') = Size /\ \A i \in 1 .. Len(queue') : queue'[i] = Warm
    BY <1>1, WarmQueue
  <2>3. Len(queue') <= Size + Cardinality(sent')
    BY <1>0, <2>1, <2>2, Sizes
  <2> QED
    BY <2>1, <2>2, <2>3, JvmAssumption DEF PlaceInv, Tasks
<1>2. ASSUME NEW r \in Requests \ sent, sent' = sent \cup {r}, queue' = Append(queue, r),
             UNCHANGED <<answered, dropped, task, pc>>
      PROVE  PlaceInv'
  <2>1. r \in Tasks /\ r # Warm /\ Cardinality(sent') = Cardinality(sent) + 1
    BY <1>0, <1>2, FS_AddElement, JvmAssumption DEF Tasks
  <2>2. /\ Len(queue) \in Nat /\ Len(queue') = Len(queue) + 1 /\ queue'[Len(queue) + 1] = r
        /\ \A i \in 1 .. Len(queue) : queue'[i] = queue[i]
    BY <1>2, <2>1, LongerQueue
  <2>3. \A i \in 1 .. Len(queue') : i = Len(queue) + 1 \/ i \in 1 .. Len(queue)
    BY <2>2
  <2>4. Pending' = Pending \cup {r} /\ r \notin Pending
    BY <1>2 DEF Pending, PlaceInv
  <2>5. Len(queue') <= Size + Cardinality(sent')
    BY <1>0, <2>1, <2>2, Sizes DEF PlaceInv
  <2>6. \A i \in 1 .. Len(queue') : queue'[i] # Warm =>
             /\ queue'[i] \in Pending'
             /\ \A t \in Threads : task'[t] # queue'[i]
             /\ \A j \in 1 .. Len(queue') : queue'[j] = queue'[i] => i = j
    <3>1. \A t \in Threads : task[t] # r
      BY <1>2, <2>4 DEF PlaceInv
    <3>2. \A i \in 1 .. Len(queue) : queue[i] # r
      BY <2>1, <2>4 DEF PlaceInv
    <3> QED
      BY <1>2, <2>2, <2>3, <2>4, <3>1, <3>2 DEF PlaceInv
  <2>7. \A t \in Threads : task'[t] \in Requests => task'[t] \in Pending'
    BY <1>2, <2>4 DEF PlaceInv
  <2> QED
    BY <1>2, <2>5, <2>6, <2>7 DEF PlaceInv
<1>3. ASSUME NEW t \in Threads, Take(t)
      PROVE  PlaceInv'
  <2>1. /\ queue # <<>> /\ queue' = Tail(queue) /\ task' = [task EXCEPT ![t] = Head(queue)]
        /\ UNCHANGED <<sent, answered, dropped>>
        /\ pc' = [pc EXCEPT ![t] = pc'[t]] /\ pc'[t] \in {"latch", "check"}
    BY <1>0, <1>3 DEF Take
  <2>2. /\ Head(queue) \in Tasks /\ Head(queue) = queue[1]
        /\ Len(queue) \in Nat \ {0} /\ Len(queue') = Len(queue) - 1
        /\ \A i \in 1 .. Len(queue) - 1 : queue'[i] = queue[i + 1]
    BY <2>1, ShorterQueue
  <2>3. \A i \in 1 .. Len(queue') : i + 1 \in 1 .. Len(queue) /\ i + 1 # 1
    BY <2>2
  <2>4. 1 \in 1 .. Len(queue)
    BY <2>2
  <2>5. Len(queue') <= Size + Cardinality(sent')
    BY <1>0, <2>1, <2>2, Sizes DEF PlaceInv
  <2>6. \A i \in 1 .. Len(queue') : queue'[i] # Warm =>
             /\ queue'[i] \in Pending
             /\ \A u \in Threads : task'[u] # queue'[i]
             /\ \A j \in 1 .. Len(queue') : queue'[j] = queue'[i] => i = j
    <3> SUFFICES ASSUME NEW i \in 1 .. Len(queue'), queue'[i] # Warm
                 PROVE  /\ queue'[i] \in Pending
                        /\ \A u \in Threads : task'[u] # queue'[i]
                        /\ \A j \in 1 .. Len(queue') : queue'[j] = queue'[i] => i = j
      OBVIOUS
    <3>1. queue'[i] = queue[i + 1] /\ i + 1 \in 1 .. Len(queue) /\ i + 1 # 1
      BY <2>2, <2>3
    <3>2. /\ queue[i + 1] \in Pending /\ queue[1] # queue[i + 1]
          /\ \A u \in Threads : task[u] # queue[i + 1]
          /\ \A j \in 1 .. Len(queue) : queue[j] = queue[i + 1] => i + 1 = j
      BY <2>4, <3>1 DEF PlaceInv
    <3>3. \A j \in 1 .. Len(queue') : queue'[j] = queue'[i] => i = j
      BY <2>2, <2>3, <3>1, <3>2
    <3> QED
      BY <1>0, <2>1, <2>2, <3>1, <3>2, <3>3
  <2>7. \A u \in Threads : task'[u] \in Requests =>
             task'[u] \in Pending /\ \A v \in Threads : task'[v] = task'[u] => u = v
    <3>1. Head(queue) \in Requests =>
             Head(queue) \in Pending /\ \A v \in Threads : task[v] # Head(queue)
      BY <2>2, <2>4, JvmAssumption DEF PlaceInv
    <3> QED
      BY <1>0, <2>1, <3>1 DEF PlaceInv
  <2>8. \A u \in Threads : pc'[u] = "encode" => task'[u] # Warm
    BY <1>0, <2>1 DEF PlaceInv
  <2> QED
    BY <2>1, <2>5, <2>6, <2>7, <2>8 DEF PlaceInv, Pending
<1>4. ASSUME NEW t \in Threads, Pass(t) \/ Serve(t) \/ WinRebuild(t) \/ Build(t)
      PROVE  PlaceInv'
  BY <1>0, <1>4, PlacesStay DEF Pass, PassAtOnce, Serve, WinRebuild, Build
<1>5. ASSUME NEW t \in Threads, CheckEnds(t)
      PROVE  PlaceInv'
  <2>1. CASE Halts
    BY <2>1, PlacesStay DEF Halts
  <2>2. CASE Sampled(t)
    BY <1>0, <2>2, JvmAssumption DEF Sampled, PlaceInv, Pending
  <2>3. CASE Checked(t)
    BY <1>0, <2>3 DEF Checked, PlaceInv, Pending
  <2> QED
    BY <1>5, <2>1, <2>2, <2>3, EndsHow
<1>6. ASSUME NEW t \in Threads, Reply(t) \/ EncodeFails(t)
      PROVE  PlaceInv'
  <2>1. /\ pc[t] = "encode" /\ pc' = [pc EXCEPT ![t] = "idle"]
        /\ task' = [task EXCEPT ![t] = None]
        /\ UNCHANGED <<sent, queue>>
        /\ \/ answered' = answered \cup {task[t]} /\ dropped' = dropped
           \/ dropped' = dropped \cup {task[t]} /\ answered' = answered
    BY <1>6 DEF Reply, EncodeFails, Free
  <2>2. task[t] \in Requests /\ task[t] \in Pending /\ Pending' = Pending \ {task[t]}
    BY <1>0, <2>1 DEF PlaceInv, Pending
  <2>3. /\ \A i \in 1 .. Len(queue) : queue[i] # task[t]
        /\ \A u \in Threads \ {t} : task[u] # task[t]
    BY <1>0, <2>2, JvmAssumption DEF PlaceInv
  <2>4. answered' \cup dropped' \subseteq sent' /\ answered' \cap dropped' = {}
    BY <2>1, <2>2 DEF PlaceInv, Pending
  <2>5. \A u \in Threads : task'[u] \in Requests =>
             task'[u] \in Pending' /\ \A v \in Threads : task'[v] = task'[u] => u = v
    BY <1>0, <2>1, <2>2, <2>3, JvmAssumption DEF PlaceInv
  <2>6. \A i \in 1 .. Len(queue') : queue'[i] # Warm =>
             queue'[i] \in Pending' /\ \A u \in Threads : task'[u] # queue'[i]
    <3>1. \A i \in 1 .. Len(queue) : queue[i] # Warm => queue[i] # None
      BY <1>0, <2>1, JvmAssumption DEF PlaceInv, Pending
    <3> QED
      BY <1>0, <2>1, <2>2, <2>3, <3>1 DEF PlaceInv
  <2>7. \A u \in Threads : pc'[u] = "encode" => task'[u] # Warm
    BY <1>0, <2>1 DEF PlaceInv
  <2> QED
    BY <2>1, <2>4, <2>5, <2>6, <2>7 DEF PlaceInv
<1>7. CASE OtherStep /\ ~SubmitWarmup /\ ~ReadRequest
  BY <1>7, PlacesStay
  DEF OtherStep, MainStep, FinishWarmup, Drained, Input, ReadFails, ReadEof, Crossing,
      ReplyFails, Exits, vars
<1>8. CASE ReadRequest
  BY <1>8, <1>2 DEF ReadRequest
<1> QED
  BY <1>1, <1>3, <1>4, <1>5, <1>6, <1>7, <1>8, Steps DEF ThreadMoves

(***************************************************************************)
(* What a compiler has been used for.                                      *)
(***************************************************************************)

\* There are no more tasks than a compiler may be used for.
LEMMA FewTasks ==
  ASSUME NEW S, S \subseteq Tasks
  PROVE  /\ IsFiniteSet(S) /\ Cardinality(S) \in Nat
         /\ Cardinality(S) <= MAX_USES + Cardinality(Requests)
<1>1. /\ IsFiniteSet(S) /\ Cardinality(S) \in Nat
      /\ Cardinality(S) <= Cardinality(Tasks)
  BY Sizes, FS_Subset, FS_CardinalityType
<1> QED
  BY <1>1, Sizes, JvmAssumption

\* More is spent, or one thing more.
LEMMA SpentGrows ==
  ASSUME NEW S, IsFiniteSet(S), NEW T, NEW x, S \subseteq T, T \subseteq S \cup {x}
  PROVE  /\ Cardinality(S) \in Nat /\ Cardinality(T) \in Nat
         /\ Cardinality(S) <= Cardinality(T)
         /\ x \in T \ S => Cardinality(T) = Cardinality(S) + 1
<1>1. T = S \/ (T = S \cup {x} /\ x \notin S)
  OBVIOUS
<1>2. Cardinality(S) \in Nat
  BY FS_CardinalityType
<1>3. x \notin S => Cardinality(S \cup {x}) = Cardinality(S) + 1
  BY FS_AddElement
<1>4. CASE T = S
  BY <1>2, <1>4
<1>5. CASE T = S \cup {x} /\ x \notin S
  BY <1>2, <1>3, <1>5
<1> QED
  BY <1>1, <1>4, <1>5

\* A use is paid for by the task that the thread has now.
LEMMA UseStep ==
  ASSUME TypeOK, PlaceInv, UseInv, WarmInv, [Next]_vars
  PROVE  UseInv'
<1> SUFFICES ASSUME NEW q \in Threads, compilers'[q] # None
             PROVE  compilers'[q].uses <= Cardinality(Spent(q)')
  BY DEF UseInv
<1> USE DEF mainVars, warmVars, poolVars, outVars, Go
<1>0. /\ Spent(q) \subseteq Tasks /\ IsFiniteSet(Spent(q)) /\ Cardinality(Spent(q)) \in Nat
      /\ compilers[q] # None => /\ compilers[q] \in Compilers /\ compilers[q].uses \in Nat
                               /\ compilers[q].uses <= Cardinality(Spent(q))
      /\ compilers \in [Threads -> Compilers \cup {None}]
      /\ task \in [Threads -> Tasks \cup {None}]
      /\ pc \in [Threads -> {"idle", "latch", "check", "build", "analyze", "encode"}]
      /\ warmed \in [Threads -> 0 .. Size]
  <2>1. task[q] \in Tasks \/ pc[q] \notin {"analyze", "encode"}
    BY DEF TypeOK
  <2>2. Spent(q) \subseteq Tasks
    BY <2>1 DEF Spent, TypeOK, PlaceInv, Tasks
  <2> QED
    BY <2>2, FewTasks DEF TypeOK, CompilersOK, UseInv, Compilers
\* The compiler stays, or at least its uses.
<1>1. ASSUME NEW x, Spent(q) \subseteq Spent(q)', Spent(q)' \subseteq Spent(q) \cup {x},
             compilers[q] # None, compilers'[q].uses = compilers[q].uses
      PROVE  compilers'[q].uses <= Cardinality(Spent(q)')
  <2>1. Cardinality(Spent(q)') \in Nat /\ Cardinality(Spent(q)) <= Cardinality(Spent(q)')
    BY <1>0, <1>1, SpentGrows
  <2> QED
    BY <1>0, <1>1, <2>1
<1>2. ASSUME UNCHANGED <<pc, task, answered, dropped, warmed, compilers>>
      PROVE  compilers'[q].uses <= Cardinality(Spent(q)')
  BY <1>0, <1>2 DEF Spent
<1>3. ASSUME NEW t \in Threads, Take(t)
      PROVE  compilers'[q].uses <= Cardinality(Spent(q)')
  <2>1. /\ UNCHANGED <<answered, dropped, compilers>>
        /\ pc[t] = "idle" /\ task[t] = None
        /\ pc' = [pc EXCEPT ![t] = pc'[t]] /\ pc'[t] \in {"latch", "check"}
        /\ task' = [task EXCEPT ![t] = task'[t]]
        /\ IF task'[t] = Warm THEN warmed[t] = 0 /\ warmed' = [warmed EXCEPT ![t] = 1]
                               ELSE UNCHANGED warmed
    <3>1. Head(queue) = Warm => warmed[t] = 0
      <4>1. queue # <<>> /\ pc[t] = "idle"
        BY <1>3 DEF Take
      <4>2. Head(queue) = queue[1] /\ 1 \in 1 .. Len(queue) /\ Len(queue) # 0
        BY <4>1, ShorterQueue
      <4> QED
        BY <4>1, <4>2 DEF WarmInv, TypeOK
    <3> QED
      BY <1>0, <1>3, <3>1 DEF Take, TypeOK
  <2>2. Spent(q)' = Spent(q)
    BY <1>0, <2>1, JvmAssumption DEF Spent
  <2> QED
    BY <1>0, <2>1, <2>2
<1>4. ASSUME NEW t \in Threads, Pass(t) \/ WinRebuild(t)
      PROVE  compilers'[q].uses <= Cardinality(Spent(q)')
  <2>1. /\ UNCHANGED <<answered, dropped, compilers, task, warmed>>
        /\ pc[t] \in {"latch", "check"}
        /\ pc' = [pc EXCEPT ![t] = pc'[t]] /\ pc'[t] \in {"check", "build"}
    BY <1>0, <1>4 DEF Pass, PassAtOnce, WinRebuild
  <2>2. Spent(q)' = Spent(q)
    BY <1>0, <2>1 DEF Spent
  <2> QED
    BY <1>0, <2>1, <2>2
<1>5. ASSUME NEW t \in Threads, Serve(t) \/ Build(t)
      PROVE  compilers'[q].uses <= Cardinality(Spent(q)')
  <2>1. /\ UNCHANGED <<answered, dropped, task, warmed>>
        /\ pc[t] \in {"check", "build"}
        /\ pc' = [pc EXCEPT ![t] = "analyze"]
        /\ compilers' = [compilers EXCEPT ![t] = compilers'[t]]
        /\ \/ compilers'[t] = Used(Mine(t)) \/ compilers'[t] = Used(New)
    BY <1>0, <1>5 DEF Serve, Build
  <2>2. CASE q # t
    <3>1. Spent(q)' = Spent(q) /\ compilers'[q] = compilers[q]
      BY <1>0, <2>1, <2>2 DEF Spent
    <3> QED
      BY <1>0, <3>1
  <2>3. CASE q = t
    <3>1. task[t] \in Tasks /\ task[t] \notin Spent(t)
      BY <1>0, <2>1 DEF Spent, TypeOK, PlaceInv, Pending, Tasks
    <3>2. Spent(t)' = Spent(t) \cup {task[t]}
      BY <1>0, <2>1 DEF Spent
    <3>3. Cardinality(Spent(t)') = Cardinality(Spent(t)) + 1
      BY <1>0, <2>3, <3>1, <3>2, FS_AddElement
    <3>4. \E n \in Nat : n <= Cardinality(Spent(t)) /\ compilers'[t].uses = n + 1
      BY <1>0, <2>1, <2>3, CompilerFields DEF Mine
    <3> QED
      BY <1>0, <2>3, <3>3, <3>4
  <2> QED
    BY <2>2, <2>3
<1>6. ASSUME NEW t \in Threads, CheckEnds(t)
      PROVE  compilers'[q].uses <= Cardinality(Spent(q)')
  <2>1. CASE Halts
    BY <1>2, <2>1 DEF Halts
  <2>2. CASE CloseFails(t) /\ q = t /\ ~Halts
    <3>1. compilers'[q] = New
      BY <1>0, <2>2, EndsWith DEF CloseFails, Leaves
    <3>2. Spent(q)' \subseteq Tasks
      <4>1. task'[q] \in Tasks \/ pc'[q] \notin {"analyze", "encode"}
        BY <1>0, <1>6, <2>2, EndsHow DEF Sampled, Checked, PlaceInv, TypeOK
      <4>2. answered' \cup dropped' \subseteq Tasks
        BY <1>6, <2>2, EndsHow DEF Sampled, Checked, PlaceInv, TypeOK, Tasks
      <4> QED
        BY <4>1, <4>2 DEF Spent, Tasks
    <3>3. Cardinality(Spent(q)') \in Nat
      BY <3>2, FewTasks
    <3> QED
      BY <3>1, <3>3, CompilerFields
  <2>3. CASE ~Halts /\ ~(CloseFails(t) /\ q = t)
    <3>0. q = t => UNCHANGED warmed
      <4>1. Leaves(t, compilers[t]) \/ Leaves(t, New) \/ Leaves(t, Tried(compilers[t]))
        BY <1>6, <2>3, EndsWith DEF CheckEnds, CheckFails, CloseFails, BuildFails, Analyze
      <4> QED
        BY <4>1 DEF Leaves
    <3>1. /\ UNCHANGED <<answered, dropped>> /\ warmed'[q] = warmed[q]
          /\ pc[t] \in {"check", "build", "analyze"}
          /\ pc' = [pc EXCEPT ![t] = pc'[t]] /\ task' = [task EXCEPT ![t] = task'[t]]
          /\ \/ pc'[t] = "idle" /\ task[t] = Warm /\ task'[t] = None /\ warmed[t] = 1
             \/ pc'[t] = "encode" /\ task'[t] = task[t]
      BY <1>0, <1>6, <2>3, <3>0, EndsHow DEF Sampled, Checked, Dies, WarmInv
    <3>2. Spent(q) \subseteq Spent(q)' /\ Spent(q)' \subseteq Spent(q) \cup {task[t]}
      BY <1>0, <3>1, JvmAssumption DEF Spent
    <3>3. Leaves(t, compilers[t]) \/ Leaves(t, Tried(compilers[t])) \/ (Leaves(t, New) /\ q # t)
      BY <1>6, <2>3, EndsWith DEF CheckEnds, CheckFails, CloseFails, BuildFails, Analyze
    <3>4. compilers[q] # None /\ compilers'[q].uses = compilers[q].uses
      <4>1. CASE q # t
        BY <1>0, <3>3, <4>1 DEF Leaves
      <4>2. CASE q = t /\ compilers[t] # None
        BY <1>0, <3>3, <4>2, CompilerFields DEF Leaves
      <4>3. CASE q = t /\ compilers[t] = None
        <5>1. CheckFails(t)
          BY <1>6, <2>3, <4>3 DEF CheckEnds, CloseFails, BuildFails, Analyze, TypeOK, CompilersOK
        <5>2. Leaves(t, compilers[t])
          BY <2>3, <5>1, EndsWith DEF CheckFails
        <5> QED
          BY <4>3, <5>2 DEF Leaves
      <4> QED
        BY <4>1, <4>2, <4>3
    <3> QED
      BY <1>1, <3>2, <3>4
  <2> QED
    BY <2>1, <2>2, <2>3
<1>7. ASSUME NEW t \in Threads, Reply(t) \/ EncodeFails(t)
      PROVE  compilers'[q].uses <= Cardinality(Spent(q)')
  <2>1. /\ pc[t] = "encode" /\ pc' = [pc EXCEPT ![t] = "idle"]
        /\ task' = [task EXCEPT ![t] = None] /\ warmed'[q] = warmed[q]
        /\ answered' \cup dropped' = answered \cup dropped \cup {task[t]}
        /\ compilers'[q] = compilers[q]
    BY <1>0, <1>7 DEF Reply, EncodeFails, Free, Dies
  <2>2. Spent(q) \subseteq Spent(q)' /\ Spent(q)' \subseteq Spent(q) \cup {task[t]}
    BY <1>0, <2>1, JvmAssumption DEF Spent, PlaceInv
  <2> QED
    BY <1>1, <2>1, <2>2
<1> QED
  BY <1>2, <1>3, <1>4, <1>5, <1>6, <1>7, Steps, OtherStepStutters DEF ThreadMoves

(***************************************************************************)
(* The warm-up.                                                            *)
(***************************************************************************)

LEMMA WarmSets ==
  /\ IsFiniteSet(Warmed) /\ Cardinality(Warmed) \in Nat
  /\ IsFiniteSet(Warming) /\ Cardinality(Warming) \in Nat
  /\ Cardinality(Warming) = 0 => Warming = {}
  /\ Cardinality(Warmed) = Size => Warmed = Threads
<1>1. Warmed \in SUBSET Threads /\ Warming \in SUBSET Threads /\ IsFiniteSet(Threads)
  BY JvmAssumption DEF Warmed, Warming
<1>2. IsFiniteSet(Warmed) /\ (Cardinality(Threads) = Cardinality(Warmed) => Threads = Warmed)
  BY <1>1, FS_Subset
<1>3. IsFiniteSet(Warming)
  BY <1>1, FS_Subset
<1> QED
  BY <1>2, <1>3, FS_CardinalityType, FS_EmptySet DEF Size

\* A thread behind the latch goes on, with a task of another kind or the same.
LEMMA WarmStays ==
  ASSUME WarmInv, NEW t \in Threads, pc[t] # "idle", pc[t] = "latch" => started = 0,
         \A u \in Threads : task'[u] = Warm <=> task[u] = Warm,
         UNCHANGED <<warmup, main, sent, started, finished, warmed, died, queue>>
  PROVE  WarmInv'
<1>1. Warmed' = Warmed /\ Warming' = Warming
  BY DEF Warmed, Warming
<1>2. main # "submit" /\ (main = "warm" => started = 0)
  BY DEF WarmInv
<1> QED
  BY <1>1, <1>2 DEF WarmInv

\* Every step keeps the count of the warm-up tasks.
LEMMA WarmStep ==
  ASSUME TypeOK, PlaceInv, WarmInv, [Next]_vars
  PROVE  WarmInv'
<1> USE DEF mainVars, warmVars, poolVars, outVars, Go
<1>0. /\ task \in [Threads -> Tasks \cup {None}]
      /\ pc \in [Threads -> {"idle", "latch", "check", "build", "analyze", "encode"}]
      /\ \A t \in Threads : pc[t] = "idle" <=> task[t] = None
      /\ warmed \in [Threads -> 0 .. Size]
      /\ started \in Nat /\ finished \in Nat /\ Size \in Nat \ {0} /\ Len(queue) \in Nat
      /\ main \in {"submit", "warm", "read", "drain"}
  BY Sizes, LenProperties DEF TypeOK
<1>1. CASE SubmitWarmup
  <2>1. /\ warmup /\ sent = {} /\ \A t \in Threads : pc[t] = "idle" /\ task[t] = None /\ warmed[t] = 0
        /\ UNCHANGED <<warmup, sent, task, pc, warmed, died, started, finished>> /\ main' = "warm"
        /\ \A t \in Threads : t \notin died
        /\ started = Size /\ finished = Size
    BY <1>0, <1>1 DEF SubmitWarmup, WarmInv
  <2>2. Len(queue') = Size /\ \A i \in 1 .. Len(queue') : queue'[i] = Warm
    BY <1>1, WarmQueue
  <2>3. Warmed' = {} /\ Warming' = {}
    BY <2>1, JvmAssumption DEF Warmed, Warming
  <2>4. Cardinality(Warmed') = 0 /\ Cardinality(Warming') = 0
    BY <2>3, FS_EmptySet
  <2>5. started' + Cardinality(Warmed') = Size /\ finished' = started' + Cardinality(Warming')
    BY <1>0, <2>1, <2>4
  <2> QED
    BY <2>1, <2>2, <2>5, JvmAssumption DEF WarmInv
<1>2. CASE FinishWarmup
  <2>1. /\ main = "warm" /\ finished = 0 /\ main' = "read"
        /\ UNCHANGED <<warmup, sent, task, pc, warmed, died, started, finished, queue>>
    BY <1>2 DEF FinishWarmup
  <2>2. /\ warmup /\ sent = {} /\ Len(queue) = started
        /\ started + Cardinality(Warmed) = Size
        /\ finished = started + Cardinality(Warming)
    BY <2>1 DEF WarmInv
  <2>3. started = 0 /\ Cardinality(Warmed) = Size /\ Cardinality(Warming) = 0
    BY <1>0, <2>1, <2>2, WarmSets
  <2>4. Warmed' = Threads /\ Warming' = {}
    BY <2>1, <2>3, WarmSets DEF Warmed, Warming
  <2>5. \A i \in 1 .. Len(queue') : queue'[i] # Warm
    BY <1>0, <2>1, <2>2, <2>3
  <2> QED
    BY <2>1, <2>2, <2>3, <2>4, <2>5 DEF WarmInv
<1>3. CASE ReadRequest \/ ReadEof
  <2>1. /\ main = "read" /\ main' \in {"read", "drain"}
        /\ UNCHANGED <<warmup, task, pc, warmed, died, started, finished>>
    BY <1>3 DEF ReadRequest, ReadEof
  <2>2. \A i \in 1 .. Len(queue') : queue'[i] # Warm
    <3>1. \A i \in 1 .. Len(queue) : queue[i] # Warm
      BY <2>1 DEF WarmInv
    <3>2. CASE ReadRequest
      <4>1. PICK r \in Requests : queue' = Append(queue, r)
        BY <3>2 DEF ReadRequest
      <4>2. r \in Tasks /\ r # Warm
        BY JvmAssumption DEF Tasks
      <4>3. /\ Len(queue') = Len(queue) + 1 /\ queue'[Len(queue) + 1] = r
            /\ \A i \in 1 .. Len(queue) : queue'[i] = queue[i]
        BY <4>1, <4>2, LongerQueue
      <4>4. \A i \in 1 .. Len(queue') : i = Len(queue) + 1 \/ i \in 1 .. Len(queue)
        BY <1>0, <4>3
      <4> QED
        BY <3>1, <4>2, <4>3, <4>4
    <3>3. CASE ReadEof
      BY <3>1, <3>3 DEF ReadEof
    <3> QED
      BY <1>3, <3>2, <3>3
  <2>3. Warmed' = Warmed /\ Warming' = Warming
    BY <2>1 DEF Warmed, Warming
  <2> QED
    BY <2>1, <2>2, <2>3 DEF WarmInv
<1>4. ASSUME NEW t \in Threads, Take(t)
      PROVE  WarmInv'
  <2>1. /\ queue # <<>> /\ queue' = Tail(queue) /\ pc[t] = "idle" /\ task[t] = None
        /\ task' = [task EXCEPT ![t] = Head(queue)] /\ UNCHANGED <<warmup, main, sent, finished, died>>
    BY <1>0, <1>4 DEF Take
  <2>2. /\ Head(queue) = queue[1] /\ 1 \in 1 .. Len(queue)
        /\ Len(queue) \in Nat \ {0} /\ Len(queue') = Len(queue) - 1
        /\ \A i \in 1 .. Len(queue') : i + 1 \in 1 .. Len(queue) /\ queue'[i] = queue[i + 1]
    BY <2>1, ShorterQueue
  <2>3. main # "submit"
    BY <2>1 DEF WarmInv
  <2>4. CASE Head(queue) = Warm
    <3>1. main = "warm"
      BY <1>0, <2>2, <2>3, <2>4 DEF WarmInv
    <3>2. /\ warmup /\ sent = {} /\ Len(queue) = started
          /\ \A i \in 1 .. Len(queue) : queue[i] = Warm
          /\ started + Cardinality(Warmed) = Size
          /\ finished = started + Cardinality(Warming)
          /\ \A u \in Threads :
               u \notin died /\ IF warmed[u] = 1 THEN pc[u] = "latch" ELSE pc[u] = "idle"
          /\ \A u \in Threads : warmed[u] \in {0, 1} /\ (task[u] = Warm => warmed[u] = 1)
      BY <2>2, <3>1 DEF WarmInv
    <3>3. /\ warmed[t] = 0 /\ started' = started - 1
          /\ warmed' = [warmed EXCEPT ![t] = 1] /\ pc' = [pc EXCEPT ![t] = "latch"]
      BY <1>0, <1>4, <2>1, <2>4, <3>2 DEF Take
    <3>4. /\ Warmed' = Warmed \cup {t} /\ t \notin Warmed
          /\ Warming' = Warming \cup {t} /\ t \notin Warming
      BY <1>0, <2>1, <2>4, <3>2, <3>3, JvmAssumption DEF Warmed, Warming
    <3>5. /\ Cardinality(Warmed') = Cardinality(Warmed) + 1
          /\ Cardinality(Warming') = Cardinality(Warming) + 1
      BY <3>4, WarmSets, FS_AddElement
    <3>6. /\ Len(queue') = started' /\ started' + Cardinality(Warmed') = Size
          /\ finished' = started' + Cardinality(Warming')
      <4>1. Cardinality(Warmed) \in Nat /\ Cardinality(Warming) \in Nat
        BY WarmSets
      <4>2. Len(queue') = started'
        BY <2>2, <3>2, <3>3
      <4>3. started + Cardinality(Warmed) = Size /\ finished = started + Cardinality(Warming)
        BY <3>2
      <4>4. started' = started - 1 /\ finished' = finished
        BY <2>1, <3>3
      <4>5. started' + Cardinality(Warmed') = Size /\ finished' = started' + Cardinality(Warming')
        BY <1>0, <3>5, <4>1, <4>3, <4>4
      <4> QED
        BY <4>2, <4>5
    <3>7. \A i \in 1 .. Len(queue') : queue'[i] = Warm
      BY <2>2, <3>2
    <3>8. \A u \in Threads : /\ u \notin died'
                            /\ IF warmed'[u] = 1 THEN pc'[u] = "latch" ELSE pc'[u] = "idle"
                            /\ warmed'[u] \in {0, 1} /\ (task'[u] = Warm => warmed'[u] = 1)
      BY <1>0, <2>1, <3>2, <3>3
    <3> QED
      BY <2>1, <3>1, <3>2, <3>6, <3>7, <3>8 DEF WarmInv
  <2>5. CASE Head(queue) # Warm
    <3>1. main \in {"read", "drain"}
      BY <1>0, <2>2, <2>3, <2>5 DEF WarmInv
    <3>2. UNCHANGED <<warmed, started>>
      BY <1>4, <2>5 DEF Take
    <3>3. Warmed' = Warmed /\ Warming' = Warming
      BY <1>0, <2>1, <2>5, <3>2, JvmAssumption DEF Warmed, Warming
    <3>4. \A i \in 1 .. Len(queue') : queue'[i] # Warm
      BY <2>2, <3>1 DEF WarmInv
    <3>5. \A u \in Threads : warmed'[u] \in {0, 1} /\ (task'[u] = Warm => warmed'[u] = 1)
      BY <1>0, <2>1, <2>5, <3>2 DEF WarmInv
    <3> QED
      BY <2>1, <3>1, <3>2, <3>3, <3>4, <3>5 DEF WarmInv
  <2> QED
    BY <2>4, <2>5
<1>5. ASSUME NEW t \in Threads, Pass(t) \/ Serve(t) \/ WinRebuild(t) \/ Build(t)
      PROVE  WarmInv'
  BY <1>5, WarmStays DEF Pass, PassAtOnce, Serve, WinRebuild, Build
<1>6. ASSUME NEW t \in Threads, Reply(t) \/ EncodeFails(t)
      PROVE  WarmInv'
  <2>1. /\ pc[t] = "encode" /\ task' = [task EXCEPT ![t] = None] /\ task[t] # Warm
        /\ UNCHANGED <<warmup, main, sent, started, finished, queue>>
        /\ Dies(t) \/ UNCHANGED <<warmed, died>>
    BY <1>6 DEF Reply, EncodeFails, Free, PlaceInv
  <2>2. \A u \in Threads : task'[u] = Warm <=> task[u] = Warm
    BY <1>0, <2>1, JvmAssumption
  <2>3. CASE UNCHANGED <<warmed, died>>
    BY <2>1, <2>2, <2>3, WarmStays
  <2>4. CASE Dies(t)
    <3>1. task[t] \in Pending
      BY <1>0, <2>1, JvmAssumption DEF PlaceInv, Tasks
    <3>2. sent # {}
      BY <3>1 DEF Pending
    <3>3. main \in {"read", "drain"}
      BY <1>0, <3>2 DEF WarmInv
    <3>4. Warming' = Warming
      BY <2>2 DEF Warming
    <3>5. Warmed \subseteq Warmed' /\ Warmed' \subseteq Threads
      BY <1>0, <2>4 DEF Warmed, Dies
    <3>6. \A u \in Threads : warmed'[u] \in {0, 1} /\ (task'[u] = Warm => warmed'[u] = 1)
      BY <1>0, <2>1, <2>2, <2>4 DEF WarmInv, Dies
    <3> QED
      BY <2>1, <3>3, <3>4, <3>5, <3>6 DEF WarmInv
  <2> QED
    BY <2>1, <2>3, <2>4
<1>7. ASSUME NEW t \in Threads, CheckEnds(t), ~Halts
      PROVE  WarmInv'
  <2>1. pc[t] \in {"check", "build", "analyze"} /\ (Sampled(t) \/ Checked(t))
    BY <1>7, EndsHow
  <2>2. CASE Checked(t)
    BY <2>1, <2>2, WarmStays DEF Checked
  <2>3. CASE Sampled(t)
    <3>1. /\ task[t] = Warm /\ finished' = finished - 1
          /\ task' = [task EXCEPT ![t] = None]
          /\ Dies(t) \/ UNCHANGED <<warmed, died>>
          /\ UNCHANGED <<warmup, main, sent, started, queue>>
      BY <2>3 DEF Sampled
    <3>2. main = "warm" /\ started = 0
      BY <1>0, <2>1, <3>1 DEF WarmInv, Warming
    <3>3. /\ warmup /\ sent = {} /\ Len(queue) = started
          /\ \A i \in 1 .. Len(queue) : queue[i] = Warm
          /\ started + Cardinality(Warmed) = Size
          /\ finished = started + Cardinality(Warming)
          /\ \A u \in Threads : warmed[u] \in {0, 1} /\ (task[u] = Warm => warmed[u] = 1)
      BY <3>2 DEF WarmInv
    <3>4. Warmed' = Warmed /\ Warming' = Warming \ {t} /\ t \in Warming
      <4>1. t \in Warmed
        BY <3>1, <3>3 DEF Warmed
      <4>2. Warmed' = Warmed
        BY <1>0, <3>1, <4>1 DEF Warmed, Dies
      <4> QED
        BY <1>0, <3>1, <4>2, JvmAssumption DEF Warming
    <3>5. Cardinality(Warming') = Cardinality(Warming) - 1
      BY <3>4, WarmSets, FS_RemoveElement
    <3>6. finished' = started' + Cardinality(Warming')
      BY <1>0, <3>1, <3>3, <3>5, WarmSets
    <3>7. \A u \in Threads : warmed'[u] \in {0, 1} /\ (task'[u] = Warm => warmed'[u] = 1)
      BY <1>0, <3>1, <3>3, JvmAssumption DEF Dies
    <3> QED
      BY <3>1, <3>2, <3>3, <3>4, <3>6, <3>7 DEF WarmInv
  <2> QED
    BY <2>1, <2>2, <2>3
<1>8. ASSUME UNCHANGED <<warmup, main, sent, started, finished, warmed, died, queue, pc, task>>
      PROVE  WarmInv'
  <2>1. Warmed' = Warmed /\ Warming' = Warming
    BY <1>8 DEF Warmed, Warming
  <2> QED
    BY <1>8, <2>1 DEF WarmInv
<1>9. CASE Halts \/ (OtherStep /\ ~SubmitWarmup /\ ~FinishWarmup /\ ~ReadRequest /\ ~ReadEof)
  BY <1>8, <1>9
  DEF Halts, OtherStep, MainStep, Drained, Input, ReadFails, Crossing, ReplyFails, Exits, vars
<1> QED
  BY <1>1, <1>2, <1>3, <1>4, <1>5, <1>6, <1>7, <1>9, Steps DEF ThreadMoves

(***************************************************************************)
(* The types.                                                              *)
(***************************************************************************)

LEMMA FlagsStep ==
  ASSUME FlagsOK, [Next]_vars
  PROVE  FlagsOK'
<1> USE DEF FlagsOK, mainVars, heapVars, warmVars, poolVars
<1>1. \A t \in Threads : \A how, comp, flag : Ends(t, how, comp, flag) /\ flag \in BOOLEAN => FlagsOK'
  <2> SUFFICES ASSUME NEW t \in Threads, NEW how, NEW comp, NEW flag,
                      Ends(t, how, comp, flag), flag \in BOOLEAN
               PROVE  FlagsOK'
    OBVIOUS
  <2>1. (ok /\ how # "exception") \in BOOLEAN
    BY Zenon
  <2> QED
    BY <2>1 DEF Ends, WarmupEnds, Exits
<1>2. \A t : (REBUILDING /\ ~compilers[t].cold) \in BOOLEAN /\ FALSE \in BOOLEAN /\ TRUE \in BOOLEAN
  BY Zenon
<1>3. ASSUME NEW t \in Threads, ThreadMoves(t)
      PROVE  FlagsOK'
  <2>1. CASE CheckFails(t) \/ CloseFails(t) \/ BuildFails(t) \/ Analyze(t)
    <3>1. CASE CloseFails(t)
      BY <1>1, <3>1 DEF CloseFails
    <3>2. CASE CheckFails(t) \/ BuildFails(t) \/ Analyze(t)
      BY <1>1, <1>2, <3>2 DEF CheckFails, BuildFails, Analyze
    <3> QED
      BY <2>1, <3>1, <3>2
  <2>2. CASE WinRebuild(t)
    <3>1. REBUILDING' = TRUE /\ UNCHANGED <<warmup, ok, watched>>
      BY <2>2 DEF WinRebuild
    <3> QED
      BY <1>2, <3>1, Zenon
  <2>3. CASE Take(t) \/ Pass(t) \/ Serve(t) \/ Build(t) \/ Reply(t) \/ EncodeFails(t)
    BY <2>3 DEF Take, Pass, PassAtOnce, Serve, Build, Reply, EncodeFails
  <2> QED
    BY <1>3, <2>1, <2>2, <2>3 DEF ThreadMoves, CheckEnds
<1>4. CASE OtherStep
  BY <1>4
  DEF OtherStep, MainStep, SubmitWarmup, FinishWarmup, Drained, Input, ReadRequest, ReadFails,
      ReadEof, Crossing, ReplyFails, Exits, vars
<1> QED
  BY <1>3, <1>4, Steps

\* A thread that builds or analyzes has a compiler; no compiler has seen more
\* crossings than there were.
LEMMA CompilersStep ==
  ASSUME TypeOK, [Next]_vars, crossings' \in Nat, crossings <= crossings'
  PROVE  /\ compilers' \in [Threads -> Compilers \cup {None}]
         /\ \A t \in Threads :
              /\ pc'[t] \in {"build", "analyze"} => compilers'[t] # None
              /\ compilers'[t] # None => compilers'[t].crossings <= crossings'
<1> DEFINE Good == /\ compilers' \in [Threads -> Compilers \cup {None}]
                   /\ \A t \in Threads :
                        /\ pc'[t] \in {"build", "analyze"} => compilers'[t] # None
                        /\ compilers'[t] # None => compilers'[t].crossings <= crossings'
<1> USE DEF mainVars, heapVars, warmVars, poolVars, Go
<1>0. /\ compilers \in [Threads -> Compilers \cup {None}] /\ crossings \in Nat
      /\ pc \in [Threads -> {"idle", "latch", "check", "build", "analyze", "encode"}]
      /\ \A t \in Threads :
           /\ pc[t] \in {"build", "analyze"} => compilers[t] # None
           /\ compilers[t] # None => /\ compilers[t].crossings <= crossings
                                    /\ compilers[t].crossings \in Nat
  BY JvmAssumption DEF TypeOK, CompilersOK, Compilers
<1>1. ASSUME UNCHANGED compilers,
             \A t \in Threads : pc'[t] \in {"build", "analyze"} => compilers[t] # None
      PROVE  Good
  BY <1>0, <1>1
<1>2. ASSUME NEW t \in Threads, pc' = [pc EXCEPT ![t] = pc'[t]],
             compilers' = [compilers EXCEPT ![t] = compilers'[t]],
             \/ pc'[t] \notin {"build", "analyze"} /\ compilers'[t] = None
             \/ compilers'[t] \in Compilers /\ compilers'[t].crossings <= crossings
      PROVE  Good
  <2>1. compilers'[t] \in Compilers => compilers'[t].crossings <= crossings'
    <3>1. compilers'[t] \in Compilers => compilers'[t].crossings \in Nat
      BY DEF Compilers
    <3> QED
      BY <1>0, <1>2, <3>1, JvmAssumption
  <2> QED
    BY <1>0, <1>2, <2>1, JvmAssumption
<1>3. ASSUME NEW t \in Threads, Take(t) \/ Pass(t) \/ Reply(t)
      PROVE  Good
  BY <1>0, <1>1, <1>3 DEF Take, Pass, PassAtOnce, Reply, Free
<1>4. ASSUME NEW t \in Threads, WinRebuild(t)
      PROVE  Good
  BY <1>0, <1>1, <1>4, WornIsThere DEF WinRebuild
<1>5. ASSUME NEW t \in Threads, Serve(t) \/ Build(t)
      PROVE  Good
  <2>1. /\ compilers' = [compilers EXCEPT ![t] = compilers'[t]]
        /\ pc' = [pc EXCEPT ![t] = pc'[t]]
        /\ compilers'[t] = Used(Mine(t)) \/ compilers'[t] = Used(New)
    BY <1>0, <1>5 DEF Serve, Build
  <2>2. Mine(t) \in Compilers /\ Mine(t).crossings <= crossings
    BY <1>0, CompilerFields DEF Mine
  <2> QED
    BY <1>0, <1>2, <2>1, <2>2, CompilerFields
<1>6. ASSUME NEW t \in Threads, EncodeFails(t)
      PROVE  Good
  BY <1>0, <1>2, <1>6 DEF EncodeFails, Free, Dies
<1>7. ASSUME NEW t \in Threads, CheckEnds(t)
      PROVE  Good
  <2>1. CASE Halts
    BY <1>0, <1>1, <2>1 DEF Halts
  <2>2. CASE ~Halts
    <3>1. /\ pc' = [pc EXCEPT ![t] = pc'[t]] /\ pc'[t] \notin {"build", "analyze"}
      BY <1>0, <1>7, <2>2, EndsHow DEF Sampled, Checked
    <3>2. \/ Leaves(t, compilers[t])
          \/ Leaves(t, New)
          \/ Leaves(t, Tried(compilers[t])) /\ compilers[t] \in Compilers
      BY <1>0, <1>7, <2>2, EndsWith DEF CheckEnds, CheckFails, CloseFails, BuildFails, Analyze
    <3>3. /\ compilers' = [compilers EXCEPT ![t] = compilers'[t]]
          /\ \/ compilers'[t] = None
             \/ compilers'[t] \in Compilers /\ compilers'[t].crossings <= crossings
      BY <1>0, <3>2, CompilerFields DEF Leaves
    <3> QED
      BY <1>2, <3>1, <3>3
  <2> QED
    BY <2>1, <2>2
<1>8. CASE OtherStep
  BY <1>0, <1>1, <1>8, OtherStepStutters
<1> QED
  BY <1>3, <1>4, <1>5, <1>6, <1>7, <1>8, Steps DEF ThreadMoves

\* The types of all but the flags and the compilers.
BasicOK ==
  /\ main \in {"submit", "warm", "read", "drain"}
  /\ exit \in Codes \cup {Alive} /\ sent \subseteq Requests
  /\ queue \in Seq(Tasks)
  /\ pc \in [Threads -> {"idle", "latch", "check", "build", "analyze", "encode"}]
  /\ task \in [Threads -> Tasks \cup {None}]
  /\ \A t \in Threads : pc[t] = "idle" <=> task[t] = None
  /\ started \in 0 .. Size /\ finished \in started .. Size
  /\ crossings \in 0 .. MaxCrossings
  /\ warmed \in [Threads -> 0 .. Size] /\ died \subseteq Threads

LEMMA WarmedStays ==
  ASSUME warmed \in [Threads -> 0 .. Size], died \subseteq Threads, Size \in Nat,
         NEW t \in Threads, Dies(t) \/ UNCHANGED <<warmed, died>>
  PROVE  warmed' \in [Threads -> 0 .. Size] /\ died' \subseteq Threads
<1>1. CASE Dies(t)
  BY <1>1 DEF Dies
<1>2. CASE UNCHANGED <<warmed, died>>
  BY <1>2
<1> QED
  BY <1>1, <1>2

LEMMA TypeParts ==
  TypeOK <=> /\ FlagsOK /\ CompilersOK /\ BasicOK /\ Len(queue) <= Size + Cardinality(Requests)
             /\ answered \subseteq sent /\ dropped \subseteq sent \ answered
BY DEF TypeOK, BasicOK

LEMMA BasicStep ==
  ASSUME TypeOK, WarmInv, [Next]_vars
  PROVE  BasicOK' /\ crossings <= crossings'
<1> USE DEF BasicOK, mainVars, heapVars, warmVars, poolVars, outVars, Go
<1>0. BasicOK /\ crossings \in Nat /\ MaxCrossings \in Nat /\ Size \in Nat \ {0}
  BY TypeParts, Sizes, JvmAssumption DEF TypeOK
<1>1. CASE SubmitWarmup
  <2>1. queue' \in Seq(Tasks)
    BY <1>1, WarmQueue
  <2> QED
    BY <1>0, <1>1, <2>1 DEF SubmitWarmup
<1>2. CASE ReadRequest
  <2>1. queue' \in Seq(Tasks)
    BY <1>2, LongerQueue DEF ReadRequest, Tasks
  <2> QED
    BY <1>0, <1>2, <2>1 DEF ReadRequest
<1>3. CASE OtherStep /\ ~SubmitWarmup /\ ~ReadRequest
  BY <1>0, <1>3
  DEF OtherStep, MainStep, FinishWarmup, Drained, Input, ReadFails, ReadEof, Crossing,
      ReplyFails, Exits, Codes, vars
<1>4. ASSUME NEW t \in Threads, Take(t)
      PROVE  BasicOK' /\ crossings <= crossings'
  <2>1. /\ queue # <<>> /\ Head(queue) \in Tasks /\ queue' \in Seq(Tasks) /\ Head(queue) = queue[1]
        /\ 1 \in 1 .. Len(queue) /\ Len(queue) \in Nat \ {0} /\ pc[t] = "idle"
    BY <1>4, ShorterQueue DEF Take
  <2>2. Head(queue) = Warm => main = "warm" /\ Len(queue) = started /\ warmed[t] = 0
    BY <1>0, <2>1 DEF WarmInv
  <2>3. started' \in 0 .. Size /\ finished' \in started' .. Size /\ warmed' \in [Threads -> 0 .. Size]
    <3>1. CASE Head(queue) = Warm
      <4>1. started \in 1 .. Size /\ warmed[t] + 1 \in 0 .. Size
        BY <1>0, <2>1, <2>2, <3>1
      <4>2. started' = started - 1 /\ finished' = finished /\ warmed' = [warmed EXCEPT ![t] = @ + 1]
        BY <1>4, <3>1 DEF Take
      <4> QED
        BY <1>0, <4>1, <4>2
    <3>2. CASE Head(queue) # Warm
      BY <1>0, <1>4, <3>2 DEF Take
    <3> QED
      BY <3>1, <3>2
  <2>4. Head(queue) # None
    BY <2>1, JvmAssumption DEF Tasks
  <2>5. /\ task' = [task EXCEPT ![t] = Head(queue)] /\ pc' = [pc EXCEPT ![t] = pc'[t]]
        /\ pc'[t] \in {"latch", "check"} /\ UNCHANGED <<main, exit, sent, crossings, died>>
    BY <1>0, <1>4 DEF Take
  <2>6. /\ pc' \in [Threads -> {"idle", "latch", "check", "build", "analyze", "encode"}]
        /\ task' \in [Threads -> Tasks \cup {None}]
    BY <1>0, <2>1, <2>5
  <2>7. \A u \in Threads : pc'[u] = "idle" <=> task'[u] = None
    BY <1>0, <2>1, <2>4, <2>5
  <2> QED
    BY <1>0, <2>1, <2>3, <2>5, <2>6, <2>7
<1>5. ASSUME NEW t \in Threads,
             Pass(t) \/ Serve(t) \/ WinRebuild(t) \/ Build(t) \/ Reply(t) \/ EncodeFails(t)
      PROVE  BasicOK' /\ crossings <= crossings'
  <2>1. /\ UNCHANGED <<main, exit, sent, queue, started, finished, crossings>>
        /\ Dies(t) \/ UNCHANGED <<warmed, died>>
    BY <1>5 DEF Pass, PassAtOnce, Serve, WinRebuild, Build, Reply, EncodeFails
  <2>3. warmed' \in [Threads -> 0 .. Size] /\ died' \subseteq Threads
    BY <1>0, <2>1, WarmedStays
  <2>2. \/ /\ pc' = [pc EXCEPT ![t] = pc'[t]] /\ pc'[t] \in {"check", "build", "analyze"}
           /\ pc[t] # "idle" /\ task' = task
        \/ pc' = [pc EXCEPT ![t] = "idle"] /\ task' = [task EXCEPT ![t] = None]
    BY <1>0, <1>5 DEF Pass, PassAtOnce, Serve, WinRebuild, Build, Reply, EncodeFails, Free
  <2>4. /\ pc' \in [Threads -> {"idle", "latch", "check", "build", "analyze", "encode"}]
        /\ task' \in [Threads -> Tasks \cup {None}]
        /\ \A u \in Threads : pc'[u] = "idle" <=> task'[u] = None
    BY <1>0, <2>2
  <2> QED
    BY <1>0, <2>1, <2>3, <2>4
<1>6. ASSUME NEW t \in Threads, CheckEnds(t)
      PROVE  BasicOK' /\ crossings <= crossings'
  <2>1. CASE Halts
    BY <1>0, <2>1 DEF Halts
  <2>2. CASE Checked(t)
    <3>1. /\ UNCHANGED <<main, exit, sent, queue, task, started, finished, crossings, warmed, died>>
          /\ pc' = [pc EXCEPT ![t] = "encode"] /\ pc[t] # "idle"
      BY <1>6, <2>2, EndsHow DEF Checked
    <3> QED
      BY <1>0, <3>1
  <2>3. CASE Sampled(t)
    <3>1. main = "warm" /\ finished = started + Cardinality(Warming) /\ t \in Warming
      BY <1>0, <1>6, <2>3, EndsHow DEF Sampled, WarmInv, Warming
    <3>2. Cardinality(Warming) \in Nat \ {0}
      BY <3>1, WarmSets
    <3>3. finished - 1 \in started .. Size
      BY <1>0, <3>1, <3>2
    <3>4. warmed' \in [Threads -> 0 .. Size] /\ died' \subseteq Threads
      BY <1>0, <2>3, WarmedStays DEF Sampled
    <3>5. /\ UNCHANGED <<main, exit, sent, queue, started, crossings>> /\ finished' = finished - 1
          /\ pc' = [pc EXCEPT ![t] = "idle"] /\ task' = [task EXCEPT ![t] = None]
      BY <2>3 DEF Sampled
    <3> HIDE DEF Sampled
    <3> QED
      BY <1>0, <3>3, <3>4, <3>5
  <2> QED
    BY <1>6, <2>1, <2>2, <2>3, EndsHow
<1> QED
  BY <1>1, <1>2, <1>3, <1>4, <1>5, <1>6, Steps DEF ThreadMoves

LEMMA TypeStep ==
  ASSUME IInv, [Next]_vars
  PROVE  TypeOK'
<1>1. /\ TypeOK /\ FlagsOK /\ WarmInv /\ PlaceInv /\ UseInv
      /\ BasicOK' /\ PlaceInv' /\ UseInv' /\ FlagsOK' /\ crossings <= crossings'
  BY BasicStep, PlaceStep, UseStep, FlagsStep DEF IInv, TypeOK
<1>2. crossings' \in Nat
  BY <1>1, JvmAssumption DEF BasicOK
<1>3. /\ compilers' \in [Threads -> Compilers \cup {None}]
      /\ \A t \in Threads :
           /\ pc'[t] \in {"build", "analyze"} => compilers'[t] # None
           /\ compilers'[t] # None => compilers'[t].crossings <= crossings'
  BY <1>1, <1>2, CompilersStep
<1>4. \A t \in Threads : compilers'[t] # None =>
        compilers'[t].uses <= MAX_USES + Cardinality(Requests)
  <2> SUFFICES ASSUME NEW t \in Threads, compilers'[t] # None
               PROVE  compilers'[t].uses <= MAX_USES + Cardinality(Requests)
    OBVIOUS
  <2>1. Spent(t)' \subseteq Tasks
    BY <1>1 DEF Spent, BasicOK, PlaceInv, Tasks
  <2>2. /\ Cardinality(Spent(t)') \in Nat
        /\ Cardinality(Spent(t)') <= MAX_USES + Cardinality(Requests)
    BY <2>1, FewTasks
  <2>3. compilers'[t].uses \in Nat /\ compilers'[t].uses <= Cardinality(Spent(t)')
    BY <1>1, <1>3 DEF UseInv, Compilers
  <2> QED
    BY <2>2, <2>3, Sizes, JvmAssumption
<1>5. CompilersOK'
  BY <1>3, <1>4 DEF CompilersOK
<1>6. Len(queue') <= Size + Cardinality(Requests)
  <2>1. /\ Len(queue') \in Nat /\ Len(queue') <= Size + Cardinality(sent')
        /\ Cardinality(sent') \in Nat /\ Cardinality(sent') <= Cardinality(Requests)
    BY <1>1, LenProperties, FewRequests DEF BasicOK, PlaceInv
  <2> QED
    BY <2>1, Sizes
<1>7. answered' \subseteq sent' /\ dropped' \subseteq sent' \ answered'
  BY <1>1 DEF PlaceInv
<1> QED
  BY <1>1, <1>5, <1>6, <1>7 DEF TypeOK, BasicOK

(***************************************************************************)
(* The theorems.                                                           *)
(***************************************************************************)

LEMMA InitHolds == Init => IInv
<1> SUFFICES ASSUME Init PROVE IInv
  OBVIOUS
<1> USE DEF Init
<1>1. FlagsOK
  <2>1. warmup \in BOOLEAN /\ REBUILDING = FALSE /\ ok = TRUE /\ watched = FALSE
    OBVIOUS
  <2> QED
    BY <2>1, Zenon DEF FlagsOK
<1>2. CompilersOK
  BY Sizes DEF CompilersOK
<1>3. queue \in Seq(Tasks) /\ Len(queue) = 0
  BY EmptySeq
<1>4. BasicOK
  BY <1>3, Sizes, JvmAssumption DEF BasicOK, Codes
<1>5. PlaceInv
  <2>1. Cardinality(sent) = 0
    BY FS_EmptySet
  <2> QED
    BY <1>3, <2>1, Sizes, JvmAssumption DEF PlaceInv, Pending, Tasks
<1>6. RebuildInv
  BY DEF RebuildInv, Rebuilders
<1>7. UseInv
  BY DEF UseInv
<1>8. WarmInv
  <2>1. Warming = {} /\ \A i \in 1 .. Len(queue) : FALSE
    BY <1>3, JvmAssumption DEF Warming
  <2> QED
    BY <1>3, <2>1, JvmAssumption DEF WarmInv
<1>9. Len(queue) <= Size + Cardinality(Requests)
  BY <1>3, Sizes
<1> QED
  BY <1>1, <1>2, <1>4, <1>5, <1>6, <1>7, <1>8, <1>9, TypeParts DEF IInv

\* The inductive invariant holds in every state of the process: one rebuild at a
\* time, each request in one place, uses that are paid for, and the latches.
THEOREM Invariance == Spec => []IInv
<1>1. IInv /\ [Next]_vars => IInv'
  BY TypeStep, RebuildStep, PlaceStep, UseStep, WarmStep DEF IInv
<1> QED
  BY InitHolds, <1>1, PTL DEF Spec

\* Every state is of its type: the queue holds no more than what was submitted, a
\* thread that builds or analyzes has a compiler, no request is answered and
\* dropped, and no compiler is used beyond MAX_USES by more than there are requests.
THEOREM TypeCorrect == Spec => []TypeOK
<1>1. IInv => TypeOK
  BY DEF IInv
<1> QED
  BY Invariance, <1>1, PTL

\* REBUILDING is held by the one thread that builds a compiler or has one that has
\* not served its first request, however builds, closing and checks fail; it is held
\* by none only once a thread has died (compiler, warmed).
THEOREM RebuildsInTurn == Spec => []OneRebuildAtATime
<1>1. IInv => OneRebuildAtATime
  <2> SUFFICES ASSUME RebuildInv PROVE OneRebuildAtATime
    BY DEF IInv
  <2>1. (\E t \in Threads : Rebuilders = {t}) => Cardinality(Rebuilders) = 1
    BY FS_Singleton
  <2>2. Rebuilders = {} => Cardinality(Rebuilders) = 0
    BY FS_EmptySet
  <2> QED
    BY <2>1, <2>2 DEF RebuildInv, Unserved, OneRebuildAtATime
<1> QED
  BY Invariance, <1>1, PTL

\* Main reads no request before every thread has taken exactly one sample and is
\* done with it, whichever thread takes which task; but for those that came in place
\* of one that an Error ended (warm).
THEOREM EveryThreadIsWarm == Spec => []WarmedTogether
<1>1. IInv => WarmedTogether
  BY DEF IInv, WarmInv, WarmedTogether, Warmed, Warming
<1> QED
  BY Invariance, <1>1, PTL

\* What JavacWorker.check reports is where an editor's cursor is, for every source
\* of any length, in every state in which a thread encodes a reply.
THEOREM PositionsAreRight == Spec => []PositionsAreTrue
<1>1. PositionsAreTrue
  BY EveryPosition DEF PositionsAreTrue
<1> QED
  BY <1>1, PTL
==============================================================================
