-------------------------- MODULE JavacWorkerProofs --------------------------
(***************************************************************************)
(* Proofs about JavacWorker, for any number of requests, threads, tolerated*)
(* failures, faults and JVMs.                                              *)
(***************************************************************************)
EXTENDS JavacWorker, FiniteSetTheorems, TLAPS

(***************************************************************************)
(* The inductive invariant, part by part.                                  *)
(***************************************************************************)

\* The stages of a Check that hold a slot, and of these the ones in which its
\* line was handed to a JVM.
HoldStages == CallStages \ {"idle", "slot", "returned"}
SentStages == {"sent", "wait", "settle", "poison", "finish", "reap"}

\* What JVM g owes a reply to.
Owed(g) == pending[g] \cup orphans[g]

\* Only the supervisor that gave up has more failures than Backoff.
FailuresInv == failures > Backoff => sup = "exited"

\* The JVM in use is JVM gen, and there is one only in these stages.
JvmStagesOfSup ==
  {"register", "warmsend", "warming", "failing", "publish", "serving", "closing"}
GenInv ==
  /\ \A g \in Gens : Running(g) => g = gen /\ sup \in JvmStagesOfSup
  /\ \A g \in Gens : g > gen \/ (g = gen /\ sup = "spawn") => reader[g] = "none"
  /\ sup \notin {"launch", "backoff", "count", "exited"} => gen \in Gens

\* What Worker shows is the JVM of the supervisor, and Close killed it.
ShownInv ==
  /\ current # NoJvm => current = gen /\ sup = "serving"
  /\ starting # NoJvm => starting = gen /\ sup \in {"warmsend", "warming", "failing", "publish"}
  /\ closed => /\ current # NoJvm => dead[current]
               /\ starting # NoJvm => dead[starting]

\* A reaped JVM takes nothing and owes nothing but its orphans.
ReaderInv ==
  \A g \in Gens :
    /\ Reaped(g) => dead[g] /\ pending[g] = {}
    /\ reader[g] # "failing" => orphans[g] = {}

\* Slots are counted, and a Check on its way holds one.
SlotInv ==
  /\ IsFiniteSet(slots) /\ Cardinality(slots) <= Threads
  /\ \A r \in Requests : pc[r] \in HoldStages => r \in slots

\* A JVM owes a reply exactly to the requests sent to it whose channel is empty.
OwedTo(r) ==
  /\ \A g \in Gens : r \in Owed(g) =>
       pc[r] \in SentStages \ {"settle"} /\ at[r] = g /\ chan[r] = "empty"
  /\ pc[r] \notin SentStages \cup {"untrack", "free", "returned"} => chan[r] = "empty"
  /\ pc[r] \in SentStages => at[r] \in Gens /\ (chan[r] = "empty" => r \in Owed(at[r]))
  /\ pc[r] = "settle" => chan[r] # "empty"
  /\ pc[r] \in {"inspect", "send"} => at[r] \in Gens
OwedInv == \A r \in Requests : OwedTo(r)

\* Whoever holds the channel Worker.changed has seen what is current now.
WatchInv ==
  \A r \in watching :
    /\ pc[r] \in {"inspect", "blocked"} /\ ~failed /\ at[r] = current
    /\ pc[r] = "blocked" => current = NoJvm \/ dead[current]

\* A warm-up is outstanding only while the supervisor waits for it or its JVM's
\* end, and a Check never has a JVM that is still starting.
WarmInv ==
  /\ \A g \in Gens : Warm \in pending[g] => g = gen /\ sup \in {"warming", "failing"}
  /\ sup = "warming" /\ chan[Warm] = "answer" => Warm \notin pending[gen]
  /\ \A r \in Requests : at[r] # NoJvm =>
       at[r] <= gen /\ (at[r] = gen => sup \in {"serving", "launch", "exited"})

IInv ==
  /\ TypeOK /\ FailuresInv /\ GenInv /\ ShownInv /\ ReaderInv /\ SlotInv /\ OwedInv
  /\ WatchInv /\ WarmInv

(***************************************************************************)
(* What each goroutine leaves alone.                                       *)
(***************************************************************************)

CallAny(r) == Call(r) \/ Cancel(r) \/ Expire(r) \/ CallStep(r)

\* A Check changes no JVM but by a send and by a kill, and nothing of the
\* supervisor's.
LEMMA CallKeeps ==
  ASSUME NEW r \in Requests, CallAny(r)
  PROVE  UNCHANGED <<workerVars, supVars, reader, orphans, chan, faults>>
  BY DEF CallAny, CallStep, Call, Cancel, Expire, Acquire, Snapshot, Inspect, Await, Send,
     Track, Receive, PassDeadline, Poison, Poisoned, Settle, Finish, Untrack, Free, Return, Go, Enqueue,
     Kill, workerVars, supVars, procVars, queueVars, callVars, ctxVars

\* A JVM, its reader and its writers change nothing of Worker's or of a Check's.
LEMMA ProcKeeps ==
  ASSUME NEW g \in Gens, ProcStep(g)
  PROVE  UNCHANGED <<workerVars, supVars, callVars, ctxVars>>
  BY DEF ProcStep, ReaderStep, Exit, Garbage, Wait, Reap, CloseDone, FailOrphan, Write,
     WriteFails, Reply, workerVars, supVars, procVars, queueVars, callVars, ctxVars

\* The supervisor changes nothing of a Check's but what it watches.
LEMMA SupKeeps ==
  ASSUME SupStep
  PROVE  UNCHANGED <<closed, pc, at, result, slots, inFlight, ctxVars, orphans>>
  BY DEF SupStep, Launch, Spawn, Register, SendWarmup, WarmedUp, WarmupFails, Failed,
     CountFailure, Pause, Publish, Restart, Closing, Enqueue, Kill, workerVars, supVars,
     procVars, queueVars, callVars, ctxVars

\* Every step is one of these.
LEMMA Steps ==
  ASSUME [Next]_vars
  PROVE  \/ SupStep \/ Close \/ UNCHANGED vars
         \/ \E g \in Gens : ProcStep(g)
         \/ \E r \in Requests : CallAny(r)
  BY DEF Next, Terminated, CallAny

\* What a Check changes of its own when it moves on or returns.
CallTypes ==
  /\ pc \in [Requests -> CallStages] /\ result \in [Requests -> Outcomes \cup {"none"}]
  /\ watching \subseteq Requests /\ slots \subseteq Requests /\ inFlight \subseteq Requests

\* A Check that moves to a stage keeps the types, and so does one that returns.
LEMMA GoTypes ==
  ASSUME TypeOK, NEW r \in Requests, NEW s \in CallStages, Go(r, s)
  PROVE  pc' \in [Requests -> CallStages]
  BY DEF TypeOK, Go
LEMMA ReturnTypes ==
  ASSUME TypeOK, NEW r \in Requests, NEW o \in Outcomes, NEW s \in CallStages, Return(r, o, s)
  PROVE  CallTypes'
  BY DEF TypeOK, CallTypes, Return, Go, CallStages

\* ctxErr is ErrTimeout or the cancellation once the context has ended.
LEMMA CtxErrTypes ==
  ASSUME TypeOK, NEW r \in Requests, ctx[r] # "none"
  PROVE  CtxErr(r) \in Outcomes
  BY DEF TypeOK, CtxErr, CtxErrs, Outcomes

\* Every step keeps the types; failures stays in its bound by FailuresInv.
LEMMA TypeStep ==
  ASSUME TypeOK, FailuresInv, [Next]_vars
  PROVE  TypeOK'
<1> USE DEF TypeOK, CtxErrs, Outcomes, SupStages, CallStages, ReaderStages, JvmStages,
        workerVars, supVars, queueVars, procVars, callVars, ctxVars, Gens, NoJvm, Lines
<1>1. CASE Launch
  BY <1>1, BoundsAssumption DEF Launch
<1>2. CASE Spawn
  BY <1>2 DEF Spawn
<1>3. CASE Register
  BY <1>3 DEF Register, Kill
<1>4. CASE SendWarmup
  BY <1>4 DEF SendWarmup, Kill, Enqueue
<1>5. CASE WarmedUp
  BY <1>5 DEF WarmedUp
<1>6. CASE WarmupFails
  BY <1>6 DEF WarmupFails, Kill
<1>7. CASE Failed
  BY <1>7 DEF Failed
<1>8. CASE CountFailure
  <2>1. failures <= Backoff
    BY <1>8, BoundsAssumption DEF CountFailure, FailuresInv
  <2>2. failures' \in 0 .. Backoff + 1
    BY <2>1, <1>8, BoundsAssumption DEF CountFailure
  <2>3. failed' \in BOOLEAN /\ watching' \subseteq Requests
    BY <1>8 DEF CountFailure, Broadcast
  <2>4. sup' \in SupStages
    BY <1>8 DEF CountFailure
  <2>5. UNCHANGED <<closed, ready, current, starting, gen, procVars, chan, pc, at, result,
                    slots, inFlight, ctxVars, faults>>
    BY <1>8 DEF CountFailure
  <2> QED
    BY <2>2, <2>3, <2>4, <2>5
<1>9. CASE Pause
  BY <1>9 DEF Pause
<1>10. CASE Publish
  <2>1. failures' \in 0 .. Backoff + 1 /\ starting' = NoJvm
    BY <1>10, BoundsAssumption DEF Publish
  <2>2. current' \in Gens \cup {NoJvm}
    <3>1. current' = current \/ current' = gen
      BY <1>10 DEF Publish
    <3> QED
      BY <3>1
  <2>3. ready' \in BOOLEAN
    BY <1>10 DEF Publish
  <2>4. watching' \subseteq Requests
    BY <1>10 DEF Publish, Broadcast
  <2>5. sup' \in SupStages
    BY <1>10 DEF Publish
  <2>6. jvm' \in [Gens -> JvmStages] /\ dead' \in [Gens -> BOOLEAN]
    BY <1>10 DEF Publish, Kill
  <2>7. UNCHANGED <<closed, failed, gen, reader, queueVars, chan, pc, at, result, slots,
                    inFlight, ctxVars, faults>>
    BY <1>10 DEF Publish
  <2> QED
    BY <2>1, <2>2, <2>3, <2>4, <2>5, <2>6, <2>7
<1>11. CASE Restart
  BY <1>11 DEF Restart, Broadcast
<1>12. CASE Closing
  BY <1>12 DEF Closing
<1>13. CASE Close
  BY <1>13 DEF Close, Kill
<1>14. ASSUME NEW g \in Gens, Exit(g) PROVE TypeOK'
  BY <1>14, BoundsAssumption DEF Exit
<1>15. ASSUME NEW g \in Gens, Garbage(g) PROVE TypeOK'
  BY <1>15, BoundsAssumption DEF Garbage, Kill
<1>16. ASSUME NEW g \in Gens, Wait(g) PROVE TypeOK'
  BY <1>16 DEF Wait
<1>17. ASSUME NEW g \in Gens, Reap(g) PROVE TypeOK'
  BY <1>17 DEF Reap
<1>18. ASSUME NEW g \in Gens, CloseDone(g) PROVE TypeOK'
  BY <1>18 DEF CloseDone
<1>19. ASSUME NEW g \in Gens, NEW x \in Lines, FailOrphan(g, x) PROVE TypeOK'
  BY <1>19 DEF FailOrphan
<1>20. ASSUME NEW g \in Gens, NEW x \in Lines, Write(g, x) PROVE TypeOK'
  BY <1>20 DEF Write
<1>21. ASSUME NEW g \in Gens, NEW x \in Lines, WriteFails(g, x) PROVE TypeOK'
  BY <1>21 DEF WriteFails, Kill
<1>22. ASSUME NEW g \in Gens, NEW x \in Lines, Reply(g, x) PROVE TypeOK'
  BY <1>22 DEF Reply
<1>23. ASSUME NEW r \in Requests, Call(r) PROVE TypeOK'
  BY <1>23 DEF Call, Go
<1>24. ASSUME NEW r \in Requests, Cancel(r) PROVE TypeOK'
  BY <1>24 DEF Cancel
<1>25. ASSUME NEW r \in Requests, Expire(r) PROVE TypeOK'
  BY <1>25 DEF Expire
<1>26. ASSUME NEW r \in Requests, Acquire(r) PROVE TypeOK'
  <2>1. CASE Go(r, "snapshot") /\ slots' = slots \cup {r} /\ UNCHANGED <<result, watching, inFlight>>
    BY <1>26, <2>1, GoTypes DEF Acquire
  <2>2. ASSUME NEW o \in Outcomes, Return(r, o, "returned") PROVE TypeOK'
    BY <1>26, <2>2, ReturnTypes DEF Acquire, CallTypes
  <2> QED
    BY <1>26, <2>1, <2>2, CtxErrTypes DEF Acquire
<1>27. ASSUME NEW r \in Requests, Snapshot(r) PROVE TypeOK'
  <2>1. ASSUME NEW o \in Outcomes, Return(r, o, "free"), UNCHANGED at PROVE TypeOK'
    BY <1>27, <2>1, ReturnTypes DEF Snapshot, CallTypes
  <2>2. CASE /\ at' = [at EXCEPT ![r] = current] /\ watching' = watching \cup {r}
             /\ Go(r, IF current = NoJvm THEN "blocked" ELSE "inspect")
             /\ UNCHANGED <<result, slots, inFlight>>
    BY <1>27, <2>2 DEF Snapshot, Go
  <2> QED
    BY <1>27, <2>1, <2>2 DEF Snapshot
<1>28. ASSUME NEW r \in Requests, Inspect(r) PROVE TypeOK'
  <2>1. CASE Go(r, "blocked") /\ UNCHANGED <<result, watching, slots, inFlight>>
    BY <1>28, <2>1, GoTypes DEF Inspect
  <2>2. CASE Go(r, "send") /\ watching' = watching \ {r} /\ UNCHANGED <<result, slots, inFlight>>
    BY <1>28, <2>2, GoTypes DEF Inspect
  <2>3. ASSUME NEW o \in Outcomes, Return(r, o, "free") PROVE TypeOK'
    BY <1>28, <2>3, ReturnTypes DEF Inspect, CallTypes
  <2> QED
    BY <1>28, <2>1, <2>2, <2>3, CtxErrTypes DEF Inspect
<1>29. ASSUME NEW r \in Requests, Await(r) PROVE TypeOK'
  <2>1. CASE Go(r, "snapshot") /\ UNCHANGED <<result, watching, slots, inFlight>>
    BY <1>29, <2>1, GoTypes DEF Await
  <2>2. ASSUME NEW o \in Outcomes, Return(r, o, "free") PROVE TypeOK'
    BY <1>29, <2>2, ReturnTypes DEF Await, CallTypes
  <2> QED
    BY <1>29, <2>1, <2>2, CtxErrTypes DEF Await
<1>30. ASSUME NEW r \in Requests, Send(r) PROVE TypeOK'
  <2>1. pc' \in [Requests -> CallStages]
    BY <1>30 DEF Send, Go
  <2>2. CASE UNCHANGED queueVars
    BY <1>30, <2>1, <2>2 DEF Send
  <2>3. CASE Enqueue(at[r], r)
    <3>1. pending' \in [Gens -> SUBSET Lines] /\ writing' \in [Gens -> SUBSET Lines]
      BY <2>3 DEF Enqueue
    <3>2. UNCHANGED orphans
      BY <2>3 DEF Enqueue
    <3> QED
      BY <1>30, <2>1, <3>1, <3>2 DEF Send
  <2> QED
    BY <1>30, <2>2, <2>3 DEF Send
<1>31. ASSUME NEW r \in Requests, Track(r) PROVE TypeOK'
  BY <1>31 DEF Track, Go
<1>32. ASSUME NEW r \in Requests, Receive(r) PROVE TypeOK'
  BY <1>32 DEF Receive, Go
<1>33. ASSUME NEW r \in Requests, PassDeadline(r) PROVE TypeOK'
  BY <1>33 DEF PassDeadline, Go
<1>34. ASSUME NEW r \in Requests, Poison(r) PROVE TypeOK'
  BY <1>34 DEF Poison, Go, Kill
<1>35. ASSUME NEW r \in Requests, Poisoned(r) PROVE TypeOK'
  BY <1>35 DEF Poisoned, Return, Go
<1>36. ASSUME NEW r \in Requests, Settle(r) PROVE TypeOK'
  BY <1>36 DEF Settle, Return, Go
<1>37. ASSUME NEW r \in Requests, Finish(r) PROVE TypeOK'
  BY <1>37 DEF Finish, Go
<1>38. ASSUME NEW r \in Requests, Untrack(r) \/ Free(r) PROVE TypeOK'
  <2>1. ASSUME Untrack(r) PROVE TypeOK'
    BY <2>1, GoTypes DEF Untrack
  <2>2. ASSUME Free(r) PROVE TypeOK'
    BY <2>2, GoTypes DEF Free
  <2> QED
    BY <1>38, <2>1, <2>2
<1>39. CASE UNCHANGED vars
  BY <1>39 DEF vars
<1> QED
  BY <1>1, <1>2, <1>3, <1>4, <1>5, <1>6, <1>7, <1>8, <1>9, <1>10, <1>11, <1>12, <1>13,
     <1>14, <1>15, <1>16, <1>17, <1>18, <1>19, <1>20, <1>21, <1>22, <1>23, <1>24, <1>25,
     <1>26, <1>27, <1>28, <1>29, <1>30, <1>31, <1>32, <1>33, <1>34, <1>35, <1>36, <1>37,
     <1>38, <1>39
    DEF Next, SupStep, ProcStep, ReaderStep, CallStep, Terminated

\* Only CountFailure counts, and it gives up in the same step.
LEMMA FailuresStep ==
  ASSUME TypeOK, FailuresInv, [Next]_vars
  PROVE  FailuresInv'
<1> USE DEF FailuresInv, supVars
<1>1. CASE SupStep
  <2>1. CASE Launch
    BY <2>1 DEF Launch
  <2>2. CASE Spawn
    BY <2>2 DEF Spawn
  <2>3. CASE Register
    BY <2>3 DEF Register
  <2>4. CASE SendWarmup
    BY <2>4 DEF SendWarmup
  <2>5. CASE WarmedUp
    BY <2>5 DEF WarmedUp
  <2>6. CASE WarmupFails
    BY <2>6 DEF WarmupFails
  <2>7. CASE Failed
    BY <2>7 DEF Failed
  <2>8. CASE CountFailure
    BY <2>8, BoundsAssumption DEF CountFailure, TypeOK
  <2>9. CASE Pause
    BY <2>9 DEF Pause
  <2>10. CASE Publish
    BY <2>10, BoundsAssumption DEF Publish
  <2>11. CASE Restart
    BY <2>11 DEF Restart
  <2>12. CASE Closing
    BY <2>12 DEF Closing
  <2> QED
    BY <2>1, <2>2, <2>3, <2>4, <2>5, <2>6, <2>7, <2>8, <2>9, <2>10, <2>11, <2>12, <1>1 DEF SupStep
<1>2. CASE UNCHANGED supVars
  BY <1>2
<1> QED
  BY <1>1, <1>2, Steps, CallKeeps, ProcKeeps DEF Close, vars

\* A JVM starts only from spawn, and its stages end only with p.done.
LEMMA GenStep ==
  ASSUME TypeOK, GenInv, [Next]_vars
  PROVE  GenInv'
<1> USE DEF GenInv, Running, JvmStagesOfSup, Gens, TypeOK, ReaderStages, SupStages
<1>1. CASE SupStep
  <2>1. CASE Launch
    BY <2>1, BoundsAssumption DEF supVars, procVars, Launch
  <2>2. CASE Spawn
    BY <2>2, BoundsAssumption DEF supVars, procVars, Spawn
  <2>3. CASE Register
    BY <2>3, BoundsAssumption DEF supVars, procVars, Register
  <2>4. CASE SendWarmup
    BY <2>4, BoundsAssumption DEF supVars, procVars, SendWarmup
  <2>5. CASE WarmedUp
    BY <2>5, BoundsAssumption DEF supVars, procVars, WarmedUp
  <2>6. CASE WarmupFails
    BY <2>6, BoundsAssumption DEF supVars, procVars, WarmupFails
  <2>7. CASE Failed
    BY <2>7, BoundsAssumption DEF supVars, procVars, Failed
  <2>8. CASE CountFailure
    BY <2>8, BoundsAssumption DEF supVars, procVars, CountFailure
  <2>9. CASE Pause
    BY <2>9, BoundsAssumption DEF supVars, procVars, Pause
  <2>10. CASE Publish
    BY <2>10, BoundsAssumption DEF supVars, procVars, Publish
  <2>11. CASE Restart
    BY <2>11, BoundsAssumption DEF supVars, procVars, Restart
  <2>12. CASE Closing
    BY <2>12, BoundsAssumption DEF supVars, procVars, Closing
  <2> QED
    BY <2>1, <2>2, <2>3, <2>4, <2>5, <2>6, <2>7, <2>8, <2>9, <2>10, <2>11, <2>12, <1>1 DEF SupStep
<1>2. CASE UNCHANGED <<sup, gen, reader>>
  BY <1>2
<1>3. ASSUME NEW g \in Gens, ProcStep(g) PROVE GenInv'
  <2>1. UNCHANGED <<sup, gen>>
    BY <1>3, ProcKeeps DEF supVars
  <2>2. reader[g] # "none" \/ UNCHANGED reader
    BY <1>3 DEF ProcStep, ReaderStep, Exit, Garbage, Wait, Reap, CloseDone, FailOrphan,
       Write, WriteFails, Reply
  <2>3. \A h \in Gens : h # g => reader'[h] = reader[h]
    BY <1>3 DEF ProcStep, ReaderStep, Exit, Garbage, Wait, Reap, CloseDone, FailOrphan,
       Write, WriteFails, Reply
  <2>4. reader[g] = "done" => UNCHANGED reader
    BY <1>3 DEF ProcStep, ReaderStep, Exit, Garbage, Wait, Reap, CloseDone, FailOrphan,
       Write, WriteFails, Reply
  <2> QED
    BY <2>1, <2>2, <2>3, <2>4
<1> QED
  BY <1>1, <1>2, <1>3, Steps, CallKeeps DEF Close, supVars, vars, procVars

\* A dead JVM stays dead.
LEMMA DeadStays ==
  ASSUME TypeOK, [Next]_vars, NEW h \in Gens, dead[h]
  PROVE  dead'[h]
<1> USE DEF TypeOK, Kill
<1>1. CASE SupStep
  BY <1>1 DEF SupStep, Launch, Spawn, Register, SendWarmup, WarmedUp, WarmupFails, Failed,
     CountFailure, Pause, Publish, Restart, Closing, procVars
<1>2. ASSUME NEW g \in Gens, ProcStep(g) PROVE dead'[h]
  BY <1>2 DEF ProcStep, ReaderStep, Exit, Garbage, Wait, Reap, CloseDone, FailOrphan, Write,
     WriteFails, Reply
<1>3. ASSUME NEW r \in Requests, CallAny(r) PROVE dead'[h]
  BY <1>3 DEF CallAny, CallStep, Call, Cancel, Expire, Acquire, Snapshot, Inspect, Await,
     Send, Track, Receive, PassDeadline, Poison, Poisoned, Settle, Finish, Untrack, Free, procVars
<1>4. CASE Close
  BY <1>4 DEF Close
<1>5. CASE UNCHANGED vars
  BY <1>5 DEF vars, procVars
<1> QED
  BY <1>1, <1>2, <1>3, <1>4, <1>5, Steps

\* Close kills what is shown, and nothing alive is shown after Close.
LEMMA ShownStep ==
  ASSUME TypeOK, GenInv, ShownInv, [Next]_vars
  PROVE  ShownInv'
<1> USE DEF ShownInv, TypeOK, Gens, NoJvm
<1>1. CASE SupStep
  <2>1. CASE Launch
    BY <1>1, SupKeeps, <2>1, DeadStays DEF GenInv, supVars, workerVars, Launch
  <2>2. CASE Spawn
    BY <1>1, SupKeeps, <2>2, DeadStays DEF GenInv, supVars, workerVars, Spawn
  <2>3. CASE Register
    BY <1>1, SupKeeps, <2>3, DeadStays DEF GenInv, supVars, workerVars, Register, Kill
  <2>4. CASE SendWarmup
    BY <1>1, SupKeeps, <2>4, DeadStays DEF GenInv, supVars, workerVars, SendWarmup
  <2>5. CASE WarmedUp
    BY <1>1, SupKeeps, <2>5, DeadStays DEF GenInv, supVars, workerVars, WarmedUp
  <2>6. CASE WarmupFails
    BY <1>1, SupKeeps, <2>6, DeadStays DEF GenInv, supVars, workerVars, WarmupFails
  <2>7. CASE Failed
    BY <1>1, SupKeeps, <2>7, DeadStays DEF GenInv, supVars, workerVars, Failed
  <2>8. CASE CountFailure
    BY <1>1, SupKeeps, <2>8, DeadStays DEF GenInv, supVars, workerVars, CountFailure
  <2>9. CASE Pause
    BY <1>1, SupKeeps, <2>9, DeadStays DEF GenInv, supVars, workerVars, Pause
  <2>10. CASE Publish
    BY <1>1, SupKeeps, <2>10, DeadStays DEF GenInv, supVars, workerVars, Publish, Kill
  <2>11. CASE Restart
    BY <1>1, SupKeeps, <2>11, DeadStays DEF GenInv, supVars, workerVars, Restart
  <2>12. CASE Closing
    BY <1>1, SupKeeps, <2>12, DeadStays DEF GenInv, supVars, workerVars, Closing
  <2> QED
    BY <2>1, <2>2, <2>3, <2>4, <2>5, <2>6, <2>7, <2>8, <2>9, <2>10, <2>11, <2>12, <1>1 DEF SupStep
<1>2. CASE Close
  BY <1>2 DEF Close, Kill, supVars
<1>3. CASE UNCHANGED <<closed, current, starting, sup, gen>>
  BY <1>3, DeadStays
<1> QED
  BY <1>1, <1>2, <1>3, Steps, CallKeeps, ProcKeeps DEF supVars, workerVars, vars

\* send refuses a dead JVM, so a reaped one is given nothing more.
LEMMA ReaderInvStep ==
  ASSUME TypeOK, GenInv, ReaderInv, [Next]_vars
  PROVE  ReaderInv'
<1> USE DEF ReaderInv, Reaped, TypeOK, ReaderStages
<1>1. CASE SupStep
  <2>1. UNCHANGED orphans
    BY <1>1, SupKeeps
  <2>2. \A g \in Gens : reader'[g] = reader[g] \/ (reader[g] = "none" /\ reader'[g] = "reading")
    BY <1>1 DEF SupStep, Launch, Spawn, Register, SendWarmup, WarmedUp, WarmupFails, Failed,
       CountFailure, Pause, Publish, Restart, Closing, procVars, GenInv, Gens
  <2>3. \A g \in Gens : dead[g] => pending'[g] = pending[g]
    BY <1>1 DEF SupStep, Launch, Spawn, Register, SendWarmup, WarmedUp, WarmupFails, Failed,
       CountFailure, Pause, Publish, Restart, Closing, procVars, queueVars, Enqueue
  <2> QED
    BY <2>1, <2>2, <2>3, DeadStays
<1>2. ASSUME NEW g \in Gens, ProcStep(g) PROVE ReaderInv'
  <2>1. CASE Exit(g) \/ Garbage(g) \/ Wait(g)
    BY <2>1, DeadStays DEF Exit, Garbage, Wait, queueVars
  <2>2. CASE Reap(g)
    BY <2>2 DEF Reap
  <2>3. CASE CloseDone(g)
    BY <2>3 DEF CloseDone, queueVars
  <2>4. ASSUME NEW x \in Lines, FailOrphan(g, x) PROVE ReaderInv'
    BY <2>4 DEF FailOrphan
  <2>5. ASSUME NEW x \in Lines, Write(g, x) \/ WriteFails(g, x) PROVE ReaderInv'
    BY <2>5, DeadStays DEF Write, WriteFails
  <2>6. ASSUME NEW x \in Lines, Reply(g, x) PROVE ReaderInv'
    BY <2>6 DEF Reply
  <2> QED
    BY <2>1, <2>2, <2>3, <2>4, <2>5, <2>6, <1>2 DEF ProcStep, ReaderStep
<1>3. ASSUME NEW r \in Requests, CallAny(r) PROVE ReaderInv'
  <2>1. UNCHANGED <<reader, orphans>>
    BY <1>3, CallKeeps
  <2>2. \A g \in Gens : dead[g] => pending'[g] = pending[g]
    BY <1>3 DEF CallAny, CallStep, Call, Cancel, Expire, Acquire, Snapshot, Inspect, Await,
       Send, Track, Receive, PassDeadline, Poison, Poisoned, Settle, Finish, Untrack, Free, procVars,
       queueVars, Enqueue
  <2> QED
    BY <2>1, <2>2, DeadStays
<1>4. CASE Close \/ UNCHANGED vars
  BY <1>4, DeadStays DEF Close, vars, procVars, queueVars
<1> QED
  BY <1>1, <1>2, <1>3, <1>4, Steps

\* Taking and freeing a slot.
LEMMA SlotCount ==
  ASSUME NEW S, NEW r, IsFiniteSet(S)
  PROVE  /\ IsFiniteSet(S \cup {r}) /\ Cardinality(S \cup {r}) <= Cardinality(S) + 1
         /\ IsFiniteSet(S \ {r}) /\ Cardinality(S \ {r}) <= Cardinality(S)
         /\ Cardinality(S) \in Nat /\ Cardinality(S \cup {r}) \in Nat
         /\ Cardinality(S \ {r}) \in Nat
<1>1. IsFiniteSet(S \cup {r}) /\ IsFiniteSet(S \ {r})
  BY FS_AddElement, FS_RemoveElement
<1>2. Cardinality(S) \in Nat /\ Cardinality(S \cup {r}) \in Nat /\ Cardinality(S \ {r}) \in Nat
  BY <1>1, FS_CardinalityType
<1>3. Cardinality(S \cup {r}) = IF r \in S THEN Cardinality(S) ELSE Cardinality(S) + 1
  BY FS_AddElement
<1>4. Cardinality(S \ {r}) = IF r \in S THEN Cardinality(S) - 1 ELSE Cardinality(S)
  BY FS_RemoveElement
<1> QED
  BY <1>1, <1>2, <1>3, <1>4

\* A slot is taken only when one is free and freed only by the call that ends.
LEMMA SlotStep ==
  ASSUME TypeOK, SlotInv, [Next]_vars
  PROVE  SlotInv'
<1> USE DEF SlotInv, TypeOK, HoldStages, CallStages
<1>1. CASE UNCHANGED <<pc, slots>>
  BY <1>1
<1>2. ASSUME NEW r \in Requests, CallAny(r) PROVE SlotInv'
  <2> DEFINE Kept == slots' = slots /\ (pc[r] \in HoldStages \/ pc'[r] \notin HoldStages)
             Freed == slots' = slots \ {r} /\ pc'[r] = "returned"
             Taken == Cardinality(slots) < Threads /\ slots' = slots \cup {r}
  <2>1. \A q \in Requests : q # r => pc'[q] = pc[q]
    BY <1>2 DEF CallAny, CallStep, Call, Cancel, Expire, Acquire, Snapshot, Inspect, Await,
       Send, Track, Receive, PassDeadline, Poison, Poisoned, Settle, Finish, Untrack, Free, Return, Go,
       callVars
  <2>2. Kept \/ Freed \/ Taken
    <3>1. CASE Acquire(r)
      BY <3>1 DEF Acquire, Return, Go
    <3>2. CASE Snapshot(r) \/ Inspect(r) \/ Await(r)
      BY <3>2 DEF Snapshot, Inspect, Await, Return, Go
    <3>3. CASE Call(r) \/ Cancel(r) \/ Expire(r) \/ Send(r) \/ Track(r)
      BY <3>3 DEF Call, Cancel, Expire, Send, Track, Go, callVars
    <3>4. CASE Receive(r) \/ PassDeadline(r) \/ Poison(r)
      BY <3>4 DEF Receive, PassDeadline, Poison, Go
    <3>5. CASE Poisoned(r) \/ Settle(r) \/ Finish(r) \/ Untrack(r) \/ Free(r)
      BY <3>5 DEF Poisoned, Settle, Finish, Untrack, Free, Return, Go
    <3> QED
      BY <3>1, <3>2, <3>3, <3>4, <3>5, <1>2 DEF CallAny, CallStep
  <2>3. IsFiniteSet(slots') /\ Cardinality(slots') <= Threads
    <3>1. CASE Kept
      BY <3>1
    <3>2. CASE Freed
      <4>1. IsFiniteSet(slots \ {r}) /\ Cardinality(slots \ {r}) <= Cardinality(slots)
        BY SlotCount
      <4> QED
        BY <3>2, <4>1, FS_CardinalityType, ThreadsAssumption
    <3>3. CASE Taken
      <4>1. IsFiniteSet(slots \cup {r}) /\ Cardinality(slots \cup {r}) <= Cardinality(slots) + 1
        BY SlotCount
      <4> QED
        BY <3>3, <4>1, FS_CardinalityType, ThreadsAssumption
    <3> QED
      BY <2>2, <3>1, <3>2, <3>3
  <2> QED
    BY <2>1, <2>2, <2>3
<1> QED
  BY <1>1, <1>2, Steps, SupKeeps, ProcKeeps DEF Close, callVars, vars

\* What a JVM owes is touched by its own steps and by a send alone.
LEMMA OwedStep ==
  ASSUME TypeOK, GenInv, ReaderInv, OwedInv, [Next]_vars
  PROVE  OwedInv'
<1> USE RequestsAssumption DEF OwedInv, OwedTo, Owed, TypeOK, SentStages, Lines
<1>1. CASE SupStep
  <2>1. UNCHANGED <<pc, at, orphans>>
    BY <1>1, SupKeeps
  <2>2. \A r \in Requests : chan'[r] = chan[r]
    BY <1>1 DEF SupStep, Launch, Spawn, Register, SendWarmup, WarmedUp, WarmupFails, Failed,
       CountFailure, Pause, Publish, Restart, Closing
  <2>3. \A g \in Gens, r \in Requests : r \in pending'[g] <=> r \in pending[g]
    BY <1>1 DEF SupStep, Launch, Spawn, Register, SendWarmup, WarmedUp, WarmupFails, Failed,
       CountFailure, Pause, Publish, Restart, Closing, Enqueue, procVars, queueVars
  <2> QED
    BY <2>1, <2>2, <2>3
<1>2. ASSUME NEW g \in Gens, ProcStep(g) PROVE OwedInv'
  <2>0. UNCHANGED <<pc, at>>
    BY <1>2, ProcKeeps DEF callVars
  <2>1. CASE UNCHANGED <<pending, orphans, chan>>
    BY <2>0, <2>1
  <2>2. CASE Reap(g)
    BY <2>0, <2>2 DEF Reap, ReaderInv, ReaderStages
  <2>3. ASSUME NEW x \in Lines, FailOrphan(g, x) PROVE OwedInv'
    BY <2>0, <2>3 DEF FailOrphan, ReaderInv, Reaped
  <2>4. ASSUME NEW x \in Lines, Reply(g, x) PROVE OwedInv'
    <3>1. orphans[g] = {} /\ UNCHANGED orphans /\ x \in pending[g]
      BY <2>4 DEF Reply, ReaderInv
    <3>2. \A h \in Gens : pending'[h] = IF h = g THEN pending[g] \ {x} ELSE pending[h]
      BY <2>4 DEF Reply
    <3>3. \A y \in Lines : y # x => chan'[y] = chan[y]
      BY <2>4 DEF Reply
    <3>4. chan'[x] # "empty"
      BY <2>4 DEF Reply
    <3>5. ASSUME NEW r \in Requests, r # x PROVE OwedTo(r)'
      BY <2>0, <3>1, <3>2, <3>3, <3>5
    <3>6. ASSUME x \in Requests PROVE OwedTo(x)'
      BY <2>0, <3>1, <3>2, <3>4, <3>6
    <3> QED
      BY <3>5, <3>6
  <2> QED
    BY <2>1, <2>2, <2>3, <2>4, <1>2
    DEF ProcStep, ReaderStep, Exit, Garbage, Wait, CloseDone, Write, WriteFails, queueVars
<1>3. ASSUME NEW r \in Requests, CallAny(r) PROVE OwedInv'
  <2>0. UNCHANGED <<orphans, chan>>
    BY <1>3, CallKeeps
  <2>1. CASE Call(r) \/ Cancel(r) \/ Expire(r) \/ Acquire(r)
    BY <2>0, <2>1 DEF Call, Cancel, Expire, Acquire, Return, Go, CallStages, procVars, queueVars,
       callVars
  <2>2. CASE Snapshot(r)
    BY <2>0, <2>2 DEF Snapshot, Return, Go, CallStages, procVars, queueVars
  <2>3. CASE Inspect(r) \/ Await(r)
    BY <2>0, <2>3 DEF Inspect, Await, Return, Go, CallStages, procVars, queueVars
  <2>4. CASE Send(r)
    BY <2>0, <2>4 DEF Send, Enqueue, Go, CallStages, queueVars
  <2>5. CASE Track(r) \/ Receive(r) \/ PassDeadline(r) \/ Poison(r)
    BY <2>0, <2>5 DEF Track, Receive, PassDeadline, Poison, Go, procVars, queueVars
  <2>6. CASE Poisoned(r) \/ Settle(r) \/ Finish(r) \/ Untrack(r) \/ Free(r)
    BY <2>0, <2>6 DEF Poisoned, Settle, Finish, Untrack, Free, Return, Go, procVars, queueVars, ReaderInv,
       Reaped
  <2> QED
    BY <2>1, <2>2, <2>3, <2>4, <2>5, <2>6, <1>3 DEF CallAny, CallStep
<1>4. CASE Close \/ UNCHANGED vars
  BY <1>4 DEF Close, vars, procVars, queueVars, callVars
<1> QED
  BY <1>1, <1>2, <1>3, <1>4, Steps

\* current and failed change only with a broadcast, and dead never goes back.
LEMMA WatchStep ==
  ASSUME TypeOK, GenInv, ShownInv, OwedInv, WatchInv, [Next]_vars
  PROVE  WatchInv'
<1> USE DEF WatchInv, TypeOK, NoJvm, Gens
<1>1. CASE SupStep
  <2>1. UNCHANGED <<pc, at>>
    BY <1>1, SupKeeps
  <2>2. watching' = {} \/ UNCHANGED <<watching, failed, current>>
    BY <1>1 DEF SupStep, Launch, Spawn, Register, SendWarmup, WarmedUp, WarmupFails, Failed,
       CountFailure, Pause, Publish, Restart, Closing, Broadcast, workerVars, callVars
  <2> QED
    BY <2>1, <2>2, DeadStays
<1>2. CASE UNCHANGED <<watching, pc, at, failed, current>>
  BY <1>2, DeadStays
<1>3. ASSUME NEW r \in Requests, CallAny(r) PROVE WatchInv'
  <2>0. UNCHANGED <<failed, current>>
    BY <1>3, CallKeeps DEF workerVars
  <2>1. CASE Snapshot(r)
    BY <2>0, <2>1, DeadStays DEF Snapshot, Return, Go
  <2>2. CASE Inspect(r)
    BY <2>0, <2>2, DeadStays DEF Inspect, Return, Go
  <2>3. CASE Await(r)
    BY <2>0, <2>3, DeadStays DEF Await, Return, Go
  <2>4. CASE Acquire(r) \/ Poisoned(r) \/ Settle(r) \/ Finish(r) \/ Untrack(r) \/ Free(r)
    BY <2>0, <2>4, DeadStays DEF Acquire, Poisoned, Settle, Finish, Untrack, Free, Return, Go
  <2>5. CASE Call(r) \/ Cancel(r) \/ Expire(r) \/ Send(r) \/ Track(r)
    BY <2>0, <2>5, DeadStays DEF Call, Cancel, Expire, Send, Track, Go, callVars
  <2>6. CASE Receive(r) \/ PassDeadline(r) \/ Poison(r)
    BY <2>0, <2>6, DeadStays DEF Receive, PassDeadline, Poison, Go
  <2> QED
    BY <2>1, <2>2, <2>3, <2>4, <2>5, <2>6, <1>3 DEF CallAny, CallStep
<1> QED
  BY <1>1, <1>2, <1>3, Steps, ProcKeeps DEF Close, workerVars, callVars, vars

\* The supervisor leaves warming only by the reply or by waiting for p.done.
LEMMA WarmStep ==
  ASSUME TypeOK, GenInv, ShownInv, ReaderInv, WarmInv, [Next]_vars
  PROVE  WarmInv'
<1> USE RequestsAssumption DEF WarmInv, TypeOK, Gens, NoJvm, Lines
<1>1. CASE SupStep
  <2>0. UNCHANGED at
    BY <1>1, SupKeeps
  <2>1. CASE Launch
    BY <2>0, <2>1, BoundsAssumption DEF Launch, procVars, queueVars
  <2>2. CASE Spawn \/ Register
    BY <2>0, <2>2 DEF Spawn, Register, queueVars
  <2>3. CASE SendWarmup
    BY <2>0, <2>3 DEF SendWarmup, Enqueue, queueVars, GenInv
  <2>4. CASE WarmedUp \/ WarmupFails
    <3>1. UNCHANGED <<gen, pending, chan>>
      BY <2>4 DEF WarmedUp, WarmupFails, procVars, queueVars
    <3>2. CASE WarmedUp
      BY <2>0, <3>1, <3>2 DEF WarmedUp
    <3>3. CASE WarmupFails
      BY <2>0, <3>1, <3>3 DEF WarmupFails
    <3> QED
      BY <2>4, <3>2, <3>3
  <2>5. CASE Failed
    BY <2>0, <2>5 DEF Failed, procVars, queueVars, ReaderInv, Reaped
  <2>6. CASE CountFailure \/ Pause
    <3>1. UNCHANGED <<gen, pending, chan>>
      BY <2>6 DEF CountFailure, Pause, procVars, queueVars
    <3>2. sup \in {"count", "backoff"} /\ sup' \in {"exited", "backoff", "launch"}
      BY <2>6 DEF CountFailure, Pause
    <3> QED
      BY <2>0, <3>1, <3>2
  <2>7. CASE Publish \/ Restart \/ Closing
    <3>1. UNCHANGED <<gen, pending, chan>>
      BY <2>7 DEF Publish, Restart, Closing, procVars, queueVars
    <3>2. CASE Publish
      BY <2>0, <3>1, <3>2 DEF Publish
    <3>3. CASE Restart
      BY <2>0, <3>1, <3>3 DEF Restart
    <3>4. CASE Closing
      BY <2>0, <3>1, <3>4 DEF Closing
    <3> QED
      BY <2>7, <3>2, <3>3, <3>4
  <2> QED
    BY <2>1, <2>2, <2>3, <2>4, <2>5, <2>6, <2>7, <1>1 DEF SupStep
<1>2. ASSUME NEW g \in Gens, ProcStep(g) PROVE WarmInv'
  <2>0. UNCHANGED <<sup, gen, at>>
    BY <1>2, ProcKeeps DEF callVars, supVars
  <2>1. CASE UNCHANGED <<pending, chan>>
    BY <2>0, <2>1
  <2>2. CASE Reap(g)
    BY <2>0, <2>2 DEF Reap
  <2>3. ASSUME NEW x \in Lines, FailOrphan(g, x) PROVE WarmInv'
    BY <2>0, <2>3 DEF FailOrphan
  <2>4. ASSUME NEW x \in Lines, Reply(g, x) PROVE WarmInv'
    BY <2>0, <2>4 DEF Reply
  <2> QED
    BY <2>1, <2>2, <2>3, <2>4, <1>2
    DEF ProcStep, ReaderStep, Exit, Garbage, Wait, CloseDone, Write, WriteFails, queueVars
<1>3. ASSUME NEW r \in Requests, CallAny(r) PROVE WarmInv'
  <2>0. UNCHANGED <<sup, gen, chan>>
    BY <1>3, CallKeeps DEF supVars
  <2>1. CASE Snapshot(r)
    BY <2>0, <2>1 DEF Snapshot, ShownInv, procVars, queueVars
  <2>2. CASE Send(r)
    <3>1. UNCHANGED at
      BY <2>2 DEF Send
    <3>2. CASE UNCHANGED pending
      BY <2>0, <3>1, <3>2
    <3>3. sup = "warming" => gen \in Gens
      BY DEF GenInv
    <3>4. CASE pending' = [pending EXCEPT ![at[r]] = @ \cup {r}]
      <4>1. \A g \in Gens : Warm \in pending'[g] <=> Warm \in pending[g]
        BY <3>4
      <4> QED
        BY <2>0, <3>1, <3>3, <4>1
    <3> QED
      BY <2>2, <3>2, <3>4 DEF Send, Enqueue, queueVars
  <2>3. CASE ~Snapshot(r) /\ ~Send(r)
    <3>1. UNCHANGED <<pending, at>>
      BY <1>3, <2>3 DEF CallAny, CallStep, Call, Cancel, Expire, Acquire, Inspect, Await, Track,
         Receive, PassDeadline, Poison, Poisoned, Settle, Finish, Untrack, Free, procVars, queueVars, callVars
    <3> QED
      BY <2>0, <3>1
  <2> QED
    BY <2>1, <2>2, <2>3
<1>4. CASE Close \/ UNCHANGED vars
  <2>1. UNCHANGED <<sup, gen, pending, chan, at>>
    BY <1>4 DEF Close, vars, procVars, queueVars, callVars, supVars
  <2> QED
    BY <2>1
<1> QED
  BY <1>1, <1>2, <1>3, <1>4, Steps

\* The invariant holds before the supervisor's first step.
LEMMA InitInv == Init => IInv
<1> SUFFICES ASSUME Init PROVE IInv
  OBVIOUS
<1> USE DEF Init
<1>1. TypeOK
  <2> USE DEF Gens, NoJvm, Lines
  <2>1. failures \in 0 .. Backoff + 1 /\ gen \in 0 .. MaxGen /\ faults \in 0 .. MaxFaults
    BY BoundsAssumption
  <2>2. /\ jvm \in [Gens -> JvmStages] /\ dead \in [Gens -> BOOLEAN]
        /\ reader \in [Gens -> ReaderStages]
    BY DEF JvmStages, ReaderStages
  <2>3. /\ pending \in [Gens -> SUBSET Lines] /\ writing \in [Gens -> SUBSET Lines]
        /\ orphans \in [Gens -> SUBSET Lines]
    OBVIOUS
  <2>4. /\ pc \in [Requests -> CallStages] /\ at \in [Requests -> Gens \cup {NoJvm}]
        /\ ctx \in [Requests -> CtxErrs] /\ late \in [Requests -> BOOLEAN]
        /\ result \in [Requests -> Outcomes \cup {"none"}]
    BY DEF CallStages, CtxErrs, Outcomes
  <2>5. chan \in [Lines -> {"empty", "answer", "bad", "restarted"}]
    OBVIOUS
  <2> QED
    BY <2>1, <2>2, <2>3, <2>4, <2>5 DEF TypeOK, SupStages
<1>2. FailuresInv /\ GenInv /\ ShownInv
  BY BoundsAssumption DEF FailuresInv, GenInv, ShownInv, Running, Gens, NoJvm
<1>3. ReaderInv
  BY DEF ReaderInv, Reaped
<1>4. SlotInv
  BY FS_EmptySet, ThreadsAssumption DEF SlotInv, HoldStages, CallStages
<1>5. OwedInv
  BY DEF OwedInv, OwedTo, Owed, SentStages, Lines
<1>6. WatchInv /\ WarmInv
  BY DEF WatchInv, WarmInv, NoJvm
<1> QED
  BY <1>1, <1>2, <1>3, <1>4, <1>5, <1>6 DEF IInv

\* Every step keeps the invariant.
LEMMA NextInv == IInv /\ [Next]_vars => IInv'
<1> SUFFICES ASSUME IInv, [Next]_vars PROVE IInv'
  OBVIOUS
<1>1. TypeOK' /\ FailuresInv' /\ GenInv'
  BY TypeStep, FailuresStep, GenStep DEF IInv
<1>2. ShownInv' /\ ReaderInv' /\ SlotInv'
  BY ShownStep, ReaderInvStep, SlotStep DEF IInv
<1>3. OwedInv' /\ WatchInv' /\ WarmInv'
  BY OwedStep, WatchStep, WarmStep DEF IInv
<1> QED
  BY <1>1, <1>2, <1>3 DEF IInv

\* The inductive invariant holds of every behaviour of the worker.
THEOREM Invariance == Spec => []IInv
  BY InitInv, NextInv, PTL DEF Spec

(***************************************************************************)
(* What follows.                                                           *)
(***************************************************************************)

\* The variables of Worker, of its processes and of the Checks have the types
\* the code gives them, failures never passing Backoff + 1 (supervise).
THEOREM TypeCorrect == Spec => []TypeOK
<1>1. IInv => TypeOK
  BY DEF IInv
<1> QED
  BY Invariance, <1>1, PTL

\* supervise waits for p.done on all its paths: never two JVMs.
THEOREM OneJvmAtATime == Spec => []OneJvm
<1>1. IInv => OneJvm
  BY DEF IInv, GenInv, OneJvm
<1> QED
  BY Invariance, <1>1, PTL

\* Check, finish and poison: whatever a JVM owes is covered by one of at most
\* Threads slots.
THEOREM SlotsCoverTheJvm == Spec => []SlotCoversJvm
<1>1. ASSUME IInv PROVE SlotCoversJvm
  <2>1. ASSUME NEW g \in Gens, NEW r \in (pending[g] \cup orphans[g]) \ {Warm} PROVE r \in slots
    <3>1. r \in Requests
      BY <1>1 DEF IInv, TypeOK, Lines
    <3>2. pc[r] \in SentStages
      BY <1>1, <3>1 DEF IInv, OwedInv, OwedTo, Owed
    <3> QED
      BY <1>1, <3>1, <3>2 DEF IInv, SlotInv, SentStages, HoldStages, CallStages
  <2> QED
    BY <1>1, <2>1 DEF IInv, SlotInv, SlotCoversJvm
<1> QED
  BY Invariance, <1>1, PTL

\* read fails what is pending before it closes p.done, and send takes nothing
\* after: no Check waits for a reply that cannot come.
THEOREM DoneJvmHasAnswered == Spec => []DoneMeansAnswered
<1>1. IInv => DoneMeansAnswered
  BY DEF IInv, DoneMeansAnswered, OwedInv, OwedTo, Owed, SentStages, ReaderInv, Reaped
<1> QED
  BY Invariance, <1>1, PTL

\* await reads current and changed together, and every change broadcasts.
THEOREM NoWakeupIsLost == Spec => []NoLostWakeup
<1>1. IInv => NoLostWakeup
  BY DEF IInv, NoLostWakeup, WatchInv
<1> QED
  BY Invariance, <1>1, PTL

\* launch returns, and a JVM becomes current, only after the warm-up reply.
THEOREM RequestsComeAfterWarmup == Spec => []WarmBeforeRequests
<1>1. ASSUME IInv PROVE WarmBeforeRequests
  <2>1. ASSUME NEW g \in Gens, NEW r \in pending[g] \cap Requests, Warm \in pending[g] PROVE FALSE
    <3>1. at[r] = g
      BY <1>1, <2>1 DEF IInv, OwedInv, OwedTo, Owed
    <3>2. g = gen /\ sup \in {"warming", "failing"}
      BY <1>1, <2>1 DEF IInv, WarmInv
    <3> QED
      BY <1>1, <2>1, <3>1, <3>2 DEF IInv, WarmInv, Gens, NoJvm
  <2> QED
    BY <2>1 DEF WarmBeforeRequests
<1> QED
  BY Invariance, <1>1, PTL

\* Close, launch and supervise between them kill every JVM, whatever stage of a
\* start Close meets.
THEOREM NoJvmOutlivesClose == Spec => []CloseLeavesNoJvm
<1>1. IInv => CloseLeavesNoJvm
  BY DEF IInv, CloseLeavesNoJvm, ShownInv, GenInv, JvmStagesOfSup
<1> QED
  BY Invariance, <1>1, PTL
==============================================================================
