------------------------ MODULE JavacWorkerRefinement ------------------------
(***************************************************************************)
(* Proofs of what a caller of Check relies on: that outcomes are true, that*)
(* LongestInFlight sees what it should, and that JavacWorker implements    *)
(* Checker, step by step, for any number of requests, threads and JVMs.    *)
(***************************************************************************)
EXTENDS JavacWorkerProofs

\* Where a request is tracked in Worker.inFlight, and where it has its result.
TrackedStages  == {"wait", "settle", "poison", "finish", "reap", "untrack"}
AnsweredStages == {"finish", "reap", "untrack", "free", "returned"}

\* Slot, tracking and result go with the stage of the call.
StageInv ==
  \A r \in Requests :
    /\ r \in inFlight <=> pc[r] \in TrackedStages
    /\ r \in slots => pc[r] \in HoldStages
    /\ result[r] # "none" <=> pc[r] \in AnsweredStages

\* What a call was told, and why.
Told(r) ==
  /\ ctx[r] = "expired" => late[r]
  /\ chan[r] # "bad" /\ (chan[r] = "restarted" => at[r] \in Gens /\ dead[at[r]])
  /\ result[r] = "timeout" => late[r] \/ (at[r] \in Gens /\ reader[at[r]] = "done")
  /\ result[r] = "restarted" => chan[r] = "restarted"
  /\ result[r] = "closed" => closed /\ (at[r] \in Gens => dead[at[r]])
  /\ result[r] = "output" => chan[r] = "answer"
  /\ pc[r] \in {"finish", "reap"} => result[r] = "timeout"
  /\ pc[r] \in {"idle", "slot"} => at[r] = NoJvm
  /\ pc[r] \in {"snapshot", "blocked"} => at[r] = NoJvm \/ dead[at[r]]
ToldInv == \A r \in Requests : Told(r)

\* Worker.failed is closed by the supervisor's last step.
FailedInv == failed => sup = "exited"

CInv == IInv /\ StageInv /\ ToldInv /\ FailedInv

\* Slot and inFlight move with the stage.
LEMMA StageStep ==
  ASSUME TypeOK, StageInv, [Next]_vars
  PROVE  StageInv'
<1> USE DEF StageInv, TypeOK, CallStages, HoldStages, TrackedStages, AnsweredStages
<1>1. CASE UNCHANGED <<pc, slots, inFlight, result>>
  BY <1>1
<1>2. ASSUME NEW r \in Requests, CallAny(r) PROVE StageInv'
  <2>1. CASE Call(r) \/ Cancel(r) \/ Expire(r)
    BY <2>1 DEF Call, Cancel, Expire, Go, callVars
  <2>2. CASE Acquire(r)
    BY <2>2, CtxErrTypes DEF Acquire, Go, Return, Outcomes
  <2>3. CASE Snapshot(r)
    BY <2>3 DEF Snapshot, Go, Return
  <2>4. CASE Inspect(r)
    BY <2>4, CtxErrTypes DEF Inspect, Go, Return, Outcomes
  <2>5. CASE Await(r)
    BY <2>5, CtxErrTypes DEF Await, Go, Return, Outcomes
  <2>6. CASE Send(r) \/ Track(r) \/ Receive(r)
    BY <2>6 DEF Send, Track, Receive, Go
  <2>7. CASE PassDeadline(r) \/ Poison(r) \/ Finish(r) \/ Untrack(r) \/ Free(r)
    BY <2>7 DEF PassDeadline, Poison, Finish, Untrack, Free, Go
  <2>8. CASE Poisoned(r) \/ Settle(r)
    BY <2>8 DEF Poisoned, Settle, Return, Go
  <2> QED
    BY <2>1, <2>2, <2>3, <2>4, <2>5, <2>6, <2>7, <2>8, <1>2 DEF CallAny, CallStep
<1> QED
  BY <1>1, <1>2, Steps, SupKeeps, ProcKeeps DEF Close, callVars, vars

\* A reader that is done stays done.
LEMMA DoneStays ==
  ASSUME TypeOK, GenInv, [Next]_vars, NEW h \in Gens, reader[h] = "done"
  PROVE  reader'[h] = "done"
<1> USE DEF TypeOK
<1>1. CASE SupStep
  BY <1>1 DEF SupStep, Launch, Spawn, Register, SendWarmup, WarmedUp, WarmupFails, Failed,
     CountFailure, Pause, Publish, Restart, Closing, procVars, GenInv, Gens
<1>2. ASSUME NEW g \in Gens, ProcStep(g) PROVE reader'[h] = "done"
  BY <1>2 DEF ProcStep, ReaderStep, Exit, Garbage, Wait, Reap, CloseDone, FailOrphan, Write,
     WriteFails, Reply
<1> QED
  BY <1>1, <1>2, Steps, CallKeeps DEF Close, vars, procVars

\* A reply comes once, and only to a request that is owed one.
LEMMA ChanStep ==
  ASSUME IInv, [Next]_vars, NEW r \in Requests
  PROVE  \/ chan'[r] = chan[r]
         \/ chan[r] = "empty" /\ chan'[r] = "answer"
         \/ chan[r] = "empty" /\ chan'[r] = "restarted" /\ at[r] \in Gens /\ dead[at[r]]
<1> USE RequestsAssumption DEF IInv, TypeOK, Lines
<1>1. CASE SupStep
  BY <1>1 DEF SupStep, Launch, Spawn, Register, SendWarmup, WarmedUp, WarmupFails, Failed,
     CountFailure, Pause, Publish, Restart, Closing
<1>2. ASSUME NEW g \in Gens, ProcStep(g), chan'[r] # chan[r]
      PROVE  /\ chan[r] = "empty"
             /\ chan'[r] = "answer" \/ (chan'[r] = "restarted" /\ at[r] \in Gens /\ dead[at[r]])
  <2>1. CASE Reply(g, r)
    BY <2>1 DEF Reply, OwedInv, OwedTo, Owed
  <2>2. CASE FailOrphan(g, r)
    BY <2>2 DEF FailOrphan, OwedInv, OwedTo, Owed, ReaderInv, Reaped
  <2>3. ASSUME NEW x \in Lines, x # r, Reply(g, x) \/ FailOrphan(g, x) PROVE FALSE
    BY <1>2, <2>3 DEF Reply, FailOrphan
  <2> QED
    BY <2>1, <2>2, <2>3, <1>2
    DEF ProcStep, ReaderStep, Exit, Garbage, Wait, Reap, CloseDone, Write, WriteFails
<1> QED
  BY <1>1, <1>2, Steps, CallKeeps DEF Close, vars

\* Nothing that a result was based on is taken back.
LEMMA ToldStep ==
  ASSUME CInv, [Next]_vars
  PROVE  ToldInv'
<1> USE DEF CInv, IInv, TypeOK, StageInv, AnsweredStages, CallStages
<1> SUFFICES ASSUME NEW q \in Requests PROVE Told(q)'
  BY DEF ToldInv
<1>0. Told(q)
  BY DEF ToldInv
<1>1. /\ chan[q] # "empty" => chan'[q] = chan[q]
      /\ chan'[q] # "bad"
      /\ chan'[q] = "restarted" => at[q] \in Gens /\ dead'[at[q]]
  BY <1>0, ChanStep, DeadStays DEF Told
<1>2. at[q] \in Gens /\ reader[at[q]] = "done" => reader'[at[q]] = "done"
  BY DoneStays
<1>a. (at[q] \in Gens /\ dead[at[q]] => dead'[at[q]]) /\ (closed => closed')
  <2>1. closed => closed'
    BY Steps, SupKeeps, CallKeeps, ProcKeeps DEF Close, vars, workerVars
  <2> QED
    BY <2>1, DeadStays
<1>b. at[q] \in Gens \cup {NoJvm} /\ NoJvm \notin Gens
  BY DEF Gens, NoJvm
<1> DEFINE Same ==
      /\ at'[q] = at[q] /\ result'[q] = result[q] /\ ctx'[q] = ctx[q] /\ late'[q] = late[q]
      /\ \/ pc'[q] = pc[q]
         \/ pc'[q] = "slot" /\ pc[q] = "idle"
         \/ pc'[q] = "reap" /\ pc[q] = "finish"
         \/ pc'[q] \notin {"idle", "slot", "snapshot", "blocked", "finish", "reap"}
<1>3. CASE Same
  BY <1>0, <1>1, <1>2, <1>3, <1>a, <1>b DEF Told
<1>4. ASSUME NEW r \in Requests, CallAny(r), r # q PROVE Same
  BY <1>4 DEF CallAny, CallStep, Call, Cancel, Expire, Acquire, Snapshot, Inspect, Await, Send,
     Track, Receive, PassDeadline, Poison, Poisoned, Settle, Finish, Untrack, Free, Return, Go, callVars, ctxVars
<1>5. CASE CallAny(q)
  <2>0. chan' = chan
    BY <1>5, CallKeeps
  <2>1. CASE \/ Call(q) \/ Track(q) \/ Receive(q) \/ Poison(q) \/ Finish(q)
            \/ Untrack(q) \/ Free(q)
    <3>1. Same
      BY <2>1 DEF Call, Track, Receive, Poison, Finish, Untrack, Free, Go, ctxVars
    <3> QED
      BY <3>1, <1>3
  <2>0a. CASE Send(q)
    <3>1. UNCHANGED <<at, result, ctx, late, dead>> /\ pc'[q] \in {"snapshot", "sent"}
      BY <2>0a DEF Send, Go, ctxVars
    <3>2. pc'[q] = "snapshot" => dead[at[q]]
      BY <2>0a DEF Send, Go
    <3> QED
      BY <1>0, <1>1, <1>2, <1>a, <1>b, <3>1, <3>2 DEF Told
  <2>2. CASE Cancel(q) \/ Expire(q)
    BY <2>2, <1>0, <1>1, <1>2, <1>a, <1>b DEF Cancel, Expire, callVars, Told, CtxErrs
  <2>3. CASE Acquire(q)
    <3>1. at[q] = NoJvm /\ chan[q] = "empty" /\ result[q] = "none"
      BY <1>0, <2>3 DEF Acquire, OwedInv, OwedTo, SentStages, Told
    <3>2. UNCHANGED <<at, ctx, late>>
      BY <2>3 DEF Acquire, ctxVars
    <3>3. \/ result'[q] = "none" /\ pc'[q] = "snapshot"
          \/ result'[q] = CtxErr(q) /\ ctx[q] # "none" /\ pc'[q] = "returned"
          \/ result'[q] = "closed" /\ closed /\ pc'[q] = "returned"
      BY <3>1, <2>3 DEF Acquire, Return, Go
    <3> QED
      BY <1>0, <1>1, <1>a, <1>b, <3>1, <3>2, <3>3 DEF Told, CtxErr, CtxErrs
  <2>4. CASE Snapshot(q)
    <3>1. chan[q] = "empty" /\ result[q] = "none"
      BY <2>4 DEF Snapshot, OwedInv, OwedTo, SentStages
    <3>2. ctx' = ctx /\ late' = late
      BY <2>4 DEF Snapshot, ctxVars
    <3>3. \/ result'[q] \in {"closed", "failed"} /\ at' = at /\ pc'[q] = "free" /\ (result'[q] = "closed" => closed)
          \/ result'[q] = "none" /\ pc'[q] = "inspect"
          \/ result'[q] = "none" /\ pc'[q] = "blocked" /\ at'[q] = NoJvm
      BY <3>1, <2>4 DEF Snapshot, Return, Go
    <3>4. at[q] = NoJvm \/ dead[at[q]]
      BY <1>0, <2>4 DEF Told, Snapshot
    <3> QED
      BY <1>0, <1>1, <1>a, <1>b, <2>0, <3>1, <3>2, <3>3, <3>4 DEF Told
  <2>5. CASE Inspect(q) \/ Await(q)
    <3>1. chan[q] = "empty" /\ result[q] = "none"
      BY <2>5 DEF Inspect, Await, OwedInv, OwedTo, SentStages
    <3>2. UNCHANGED <<at, ctx, late>>
      BY <2>5 DEF Inspect, Await, ctxVars
    <3>3. \/ result'[q] = "none" /\ pc'[q] = "send"
          \/ result'[q] = "none" /\ pc'[q] = "blocked" /\ dead[at[q]]
          \/ result'[q] = "none" /\ pc'[q] = "snapshot" /\ pc[q] = "blocked"
          \/ result'[q] = CtxErr(q) /\ ctx[q] # "none" /\ pc'[q] = "free"
      BY <3>1, <2>5 DEF Inspect, Await, Return, Go
    <3> QED
      BY <1>0, <1>1, <1>a, <1>b, <3>1, <3>2, <3>3 DEF Told, CtxErr, CtxErrs
  <2>7. CASE PassDeadline(q)
    BY <2>7, <1>0, <1>1, <1>2, <1>a, <1>b DEF PassDeadline, Go, ctxVars, Told
  <2>8. CASE Poisoned(q)
    <3>1. at[q] \in Gens
      BY <2>8 DEF Poisoned, OwedInv, OwedTo, SentStages
    <3> QED
      BY <2>8, <3>1, <1>0, <1>1, <1>2, <1>a, <1>b DEF Poisoned, Return, Go, ctxVars, Told
  <2>9. CASE Settle(q)
    <3>1. chan[q] \in {"answer", "restarted"}
      BY <2>9, <1>0 DEF Settle, OwedInv, OwedTo, Told, Lines
    <3>2. UNCHANGED <<at, ctx, late>> /\ pc'[q] = "untrack" /\ chan'[q] = chan[q]
      BY <2>9, <2>0 DEF Settle, Return, Go, ctxVars
    <3>3. \/ result'[q] = "output" /\ chan[q] = "answer"
          \/ result'[q] = "closed" /\ chan[q] = "restarted" /\ closed
          \/ result'[q] = "restarted" /\ chan[q] = "restarted"
      BY <2>9, <3>1 DEF Settle, Return
    <3> QED
      BY <3>1, <3>2, <3>3, <1>0, <1>1, <1>2, <1>a, <1>b DEF Told
  <2> QED
    BY <1>5, <2>0a, <2>1, <2>2, <2>3, <2>4, <2>5, <2>7, <2>8, <2>9 DEF CallAny, CallStep
<1>6. CASE SupStep \/ Close \/ UNCHANGED vars
  <2>1. Same
    BY <1>6, SupKeeps DEF Close, vars, callVars, ctxVars
  <2> QED
    BY <2>1, <1>3
<1>7. ASSUME NEW g \in Gens, ProcStep(g) PROVE Same
  BY <1>7, ProcKeeps DEF callVars, ctxVars
<1> QED
  BY <1>3, <1>4, <1>5, <1>6, <1>7, Steps

\* CountFailure closes failed and ends the supervisor.
LEMMA FailedStep ==
  ASSUME FailedInv, [Next]_vars
  PROVE  FailedInv'
<1> USE DEF FailedInv, workerVars, supVars
<1>1. CASE SupStep
  BY <1>1 DEF SupStep, Launch, Spawn, Register, SendWarmup, WarmedUp, WarmupFails, Failed,
     CountFailure, Pause, Publish, Restart, Closing
<1> QED
  BY <1>1, Steps, CallKeeps, ProcKeeps DEF Close, vars

\* The invariant of the calls holds of every behaviour of the worker.
THEOREM CallInvariance == Spec => []CInv
<1>1. Init => CInv
  BY InitInv DEF Init, CInv, StageInv, ToldInv, Told, FailedInv, TrackedStages, AnsweredStages,
     HoldStages, Lines
<1>2. CInv /\ [Next]_vars => CInv'
  BY NextInv, StageStep, ToldStep, FailedStep DEF CInv, IInv
<1> QED
  BY <1>1, <1>2, PTL DEF Spec

\* ErrTimeout, ErrRestarted and a report mean what their comments say: the
\* deadline or a reaped JVM, a dead JVM that owes nothing more, a reply.
THEOREM OutcomesAreTrue == Spec => []TrueOutcomes
<1>1. ASSUME CInv PROVE TrueOutcomes
  <2> SUFFICES ASSUME NEW r \in Requests
               PROVE  /\ result[r] = "timeout" => late[r] \/ (at[r] # NoJvm /\ reader[at[r]] = "done")
                      /\ result[r] = "restarted" =>
                           at[r] # NoJvm /\ dead[at[r]] /\ r \notin pending[at[r]]
                      /\ result[r] = "closed" =>
                           closed /\ (at[r] = NoJvm \/ (dead[at[r]] /\ r \notin pending[at[r]]))
                      /\ result[r] = "output" => chan[r] = "answer"
    BY DEF TrueOutcomes
  <2>1. Told(r) /\ OwedTo(r)
    BY <1>1 DEF CInv, IInv, ToldInv, OwedInv
  <2>2. at[r] \in Gens \cup {NoJvm} /\ NoJvm \notin Gens
    BY <1>1 DEF CInv, IInv, TypeOK, Gens, NoJvm
  <2>3. result[r] \in {"restarted", "closed"} => pc[r] \in AnsweredStages
    BY <1>1 DEF CInv, StageInv
  <2>4. result[r] \in {"restarted", "closed"} => pc[r] \notin {"finish", "reap"}
    BY <2>1 DEF Told
  <2> QED
    BY <2>1, <2>2, <2>3, <2>4 DEF Told, OwedTo, Owed, SentStages, AnsweredStages
<1> QED
  BY CallInvariance, <1>1, PTL

\* LongestInFlight looks only at requests that hold their slots, and at every one
\* that a JVM owes a reply to: finish untracks when that is over, and frees last.
THEOREM InFlightHoldsItsSlot == Spec => []InFlightHoldsSlot
<1>1. ASSUME CInv PROVE InFlightHoldsSlot
  <2>1. inFlight \subseteq slots
    BY <1>1 DEF CInv, IInv, TypeOK, StageInv, SlotInv, TrackedStages, HoldStages, CallStages
  <2>2. ASSUME NEW r \in Requests, NEW g \in Gens, r \in pending[g] \cup orphans[g], pc[r] # "sent"
        PROVE  r \in inFlight
    <3>1. pc[r] \in SentStages
      BY <1>1, <2>2 DEF CInv, IInv, OwedInv, OwedTo, Owed
    <3> QED
      BY <1>1, <2>2, <3>1 DEF CInv, StageInv, SentStages, TrackedStages
  <2> QED
    BY <2>1, <2>2 DEF InFlightHoldsSlot
<1> QED
  BY CallInvariance, <1>1, PTL

(***************************************************************************)
(* The worker implements Checker.                                          *)
(***************************************************************************)

\* The initial state is one of Checker's.
LEMMA RefinesInit == Init => Promise!Init
  BY DEF Init, Promise!Init, CallOf, OnJvm

calls == [r \in Requests |-> CallOf(r)]

\* A step that moves one call changes the others for nobody.
LEMMA OneCall ==
  ASSUME TypeOK, NEW r \in Requests, NEW s \in CallStages, pc' = [pc EXCEPT ![r] = s],
         NEW o, result' = [result EXCEPT ![r] = o]
  PROVE  /\ calls' = [calls EXCEPT ![r] = CallOf(r)']
         /\ OnJvm' = IF s \in SentStages THEN OnJvm \cup {r} ELSE OnJvm \ {r}
<1>1. \A q \in Requests : q # r => pc'[q] = pc[q] /\ result'[q] = result[q]
  BY DEF TypeOK
<1>2. \A q \in Requests : q # r => CallOf(q)' = CallOf(q)
  BY <1>1 DEF CallOf
<1>3. pc'[r] = s
  BY DEF TypeOK
<1> QED
  BY <1>1, <1>2, <1>3 DEF calls, OnJvm, SentStages

\* The requests on the JVM, by stage.
LEMMA OnJvmIs == \A r \in Requests : r \in OnJvm <=> pc[r] \in SentStages
  BY DEF OnJvm, SentStages

\* The steps of the supervisor, of a JVM and of Close: Fail, Close or nothing.
LEMMA RefinesOthers ==
  ASSUME CInv, \/ SupStep \/ Close \/ UNCHANGED vars \/ \E g \in Gens : ProcStep(g)
  PROVE  [Promise!Next]_Promise!checkerVars
<1>1. UNCHANGED <<pc, result, ctx, late>>
  BY SupKeeps, ProcKeeps DEF Close, vars, callVars, ctxVars
<1>2. UNCHANGED <<calls, OnJvm>>
  BY <1>1 DEF calls, OnJvm, CallOf
<1>3. CASE SupStep
  <2>1. closed' = closed
    BY <1>3, SupKeeps
  <2>2. failed' = failed \/ (~failed /\ failed' = TRUE)
    BY <1>3 DEF SupStep, Launch, Spawn, Register, SendWarmup, WarmedUp, WarmupFails, Failed,
       CountFailure, Pause, Publish, Restart, Closing, workerVars, CInv, FailedInv
  <2> QED
    BY <1>1, <1>2, <2>1, <2>2 DEF Promise!Next, Promise!Fail, Promise!checkerVars, calls
<1>4. CASE Close
  BY <1>1, <1>2, <1>4 DEF Close, Promise!Next, Promise!Close, calls
<1>5. CASE UNCHANGED <<closed, failed>>
  BY <1>1, <1>2, <1>5 DEF Promise!checkerVars, calls
<1> QED
  BY <1>3, <1>4, <1>5, ProcKeeps DEF vars, workerVars

\* A step of a call that only moves it within what Checker sees.
LEMMA Stutters ==
  ASSUME CInv, NEW r \in Requests, NEW s \in CallStages, pc' = [pc EXCEPT ![r] = s],
         result' = result, UNCHANGED <<ctxVars, closed, failed>>, CallOf(r)' = CallOf(r),
         s \in SentStages <=> pc[r] \in SentStages
  PROVE  UNCHANGED Promise!checkerVars
<1> USE DEF CInv, IInv, TypeOK
<1>1. result' = [result EXCEPT ![r] = result[r]]
  OBVIOUS
<1>2. calls' = [calls EXCEPT ![r] = CallOf(r)']
  BY <1>1, OneCall
<1>3. OnJvm' = IF s \in SentStages THEN OnJvm \cup {r} ELSE OnJvm \ {r}
  BY <1>1, OneCall
<1>4. calls' = calls
  BY <1>2 DEF calls
<1>5. OnJvm' = OnJvm
  BY <1>3, OnJvmIs
<1>6. UNCHANGED <<ctx, late>>
  BY DEF ctxVars
<1> QED
  BY <1>4, <1>5, <1>6 DEF Promise!checkerVars, calls

\* What Refuse does, as a call that waits returns without having been sent.
LEMMA Refuses ==
  ASSUME CInv, NEW r \in Requests, NEW o \in Outcomes, NEW s \in {"free", "returned"},
         Return(r, o, s),
         pc[r] \in {"slot", "snapshot", "inspect", "blocked"},
         UNCHANGED <<ctxVars, closed, failed>>,
         \/ ctx[r] # "none" /\ o = CtxErr(r)
         \/ closed /\ o = "closed"
         \/ failed /\ o = "failed"
  PROVE  Promise!Refuse(r)
<1> USE DEF CInv, IInv, TypeOK, StageInv
<1>1. pc' = [pc EXCEPT ![r] = s] /\ result' = [result EXCEPT ![r] = o]
  BY DEF Return, Go
<1>2. result[r] = "none" /\ result'[r] = o
  BY <1>1 DEF AnsweredStages
<1>3. CallOf(r) = "waiting" /\ CallOf(r)' = "returned"
  BY <1>1, <1>2 DEF CallOf, Outcomes
<1>4. calls' = [calls EXCEPT ![r] = "returned"]
  BY <1>1, <1>3, OneCall DEF CallStages
<1>5. OnJvm' = OnJvm
  BY <1>1, OneCall DEF CallStages, SentStages, OnJvm
<1>6. calls[r] = "waiting"
  BY <1>3 DEF calls
<1>7. UNCHANGED <<ctx, late>>
  BY DEF ctxVars
<1> QED
  BY <1>1, <1>4, <1>5, <1>6, <1>7 DEF Promise!Refuse, Promise!Returns, Promise!Becomes, calls, CtxErr, CtxErrs

\* A step of a call is one of Checker's steps for it, or hidden from Checker.
LEMMA RefinesCall ==
  ASSUME CInv, NEW r \in Requests, CallAny(r)
  PROVE  [Promise!Next]_Promise!checkerVars
<1> USE DEF CInv, IInv, TypeOK, StageInv
<1>0. UNCHANGED <<failed, closed>>
  BY CallKeeps DEF workerVars
<1>1. CASE Call(r)
  <2>1. CallOf(r) = "idle" /\ CallOf(r)' = "waiting"
    BY <1>1 DEF Call, Go, CallOf, AnsweredStages
  <2>2. pc' = [pc EXCEPT ![r] = "slot"] /\ result' = [result EXCEPT ![r] = result[r]]
    BY <1>1 DEF Call, Go
  <2>3. calls' = [calls EXCEPT ![r] = "waiting"] /\ OnJvm' = OnJvm
    <3>1. r \notin OnJvm
      BY <1>1, OnJvmIs DEF Call, SentStages
    <3>2. /\ calls' = [calls EXCEPT ![r] = CallOf(r)']
          /\ OnJvm' = IF "slot" \in SentStages THEN OnJvm \cup {r} ELSE OnJvm \ {r}
      BY <2>2, OneCall DEF CallStages
    <3> QED
      BY <2>1, <3>1, <3>2 DEF SentStages
  <2>4. calls[r] = "idle" /\ UNCHANGED <<result, ctx, late>>
    BY <1>1, <2>1 DEF Call, calls, ctxVars
  <2>5. Promise!Ask(r)
    BY <1>0, <2>3, <2>4 DEF Promise!Ask, Promise!Becomes, calls
  <2> QED
    BY <2>5 DEF Promise!Next
<1>2. CASE Cancel(r)
  <2>1. UNCHANGED <<pc, result, late>> /\ ctx[r] = "none" /\ ctx' = [ctx EXCEPT ![r] = "cancelled"]
    BY <1>2 DEF Cancel, callVars
  <2>2. UNCHANGED <<calls, OnJvm>>
    BY <2>1 DEF calls, OnJvm, CallOf
  <2>3. Promise!Cancel(r)
    BY <1>0, <2>1, <2>2 DEF Promise!Cancel, calls
  <2> QED
    BY <2>3 DEF Promise!Next
<1>3. CASE Expire(r)
  <2>1. /\ UNCHANGED <<pc, result>> /\ ~late[r] /\ late' = [late EXCEPT ![r] = TRUE]
        /\ ctx' = [ctx EXCEPT ![r] = IF @ = "none" THEN "expired" ELSE @]
    BY <1>3 DEF Expire, callVars
  <2>2. UNCHANGED <<calls, OnJvm>>
    BY <2>1 DEF calls, OnJvm, CallOf
  <2>3. Promise!Expire(r)
    BY <1>0, <2>1, <2>2 DEF Promise!Expire, calls
  <2> QED
    BY <2>3 DEF Promise!Next
<1> DEFINE Move(a, b) == CallOf(r) = a /\ CallOf(r)' = b
<1>4. CASE Acquire(r) \/ Snapshot(r) \/ Inspect(r) \/ Await(r)
  <2>1. pc[r] \in {"slot", "snapshot", "inspect", "blocked"} /\ UNCHANGED ctxVars
    BY <1>4 DEF Acquire, Snapshot, Inspect, Await
  <2>2. ASSUME NEW s \in {"snapshot", "inspect", "blocked", "send"}, Go(r, s), result' = result
        PROVE  UNCHANGED Promise!checkerVars
    <3>1. pc' = [pc EXCEPT ![r] = s] /\ s \in CallStages
      BY <2>2 DEF Go, CallStages
    <3>2. CallOf(r)' = CallOf(r) /\ (s \in SentStages <=> pc[r] \in SentStages)
      BY <2>1, <2>2, <3>1 DEF CallOf, SentStages
    <3> QED
      BY <1>0, <2>1, <2>2, <3>1, <3>2, Stutters
  <2>3. ASSUME NEW o \in Outcomes, NEW s \in {"free", "returned"}, Return(r, o, s),
               (ctx[r] # "none" /\ o = CtxErr(r)) \/ (closed /\ o = "closed") \/ (failed /\ o = "failed")
        PROVE  Promise!Next
    <3>1. Promise!Refuse(r)
      BY <1>0, <2>1, <2>3, Refuses
    <3> QED
      BY <3>1 DEF Promise!Next, Promise!Return
  <2>4. \/ \E s \in {"snapshot", "inspect", "blocked", "send"} : Go(r, s) /\ result' = result
        \/ \E s \in {"free", "returned"} :
             \/ ctx[r] # "none" /\ Return(r, CtxErr(r), s)
             \/ closed /\ Return(r, "closed", s)
             \/ failed /\ Return(r, "failed", s)
    BY <1>4 DEF Acquire, Snapshot, Inspect, Await
  <2>5. "closed" \in Outcomes /\ "failed" \in Outcomes /\ (ctx[r] # "none" => CtxErr(r) \in Outcomes)
    BY CtxErrTypes DEF Outcomes
  <2> QED
    BY <2>2, <2>3, <2>4, <2>5
<1>5. CASE Send(r)
  <2>1. CASE Go(r, "snapshot")
    <3>1. CallOf(r)' = CallOf(r)
      BY <1>5, <2>1 DEF Send, Go, CallOf
    <3> QED
      BY <1>0, <1>5, <2>1, <3>1, Stutters DEF Send, Go, SentStages, CallStages
  <2>2. CASE Go(r, "sent")
    <3>1. Move("waiting", "running")
      BY <1>5, <2>2 DEF Send, Go, CallOf, AnsweredStages
    <3>2. pc' = [pc EXCEPT ![r] = "sent"] /\ result' = [result EXCEPT ![r] = result[r]]
      BY <1>5, <2>2 DEF Send, Go
    <3>3. calls' = [calls EXCEPT ![r] = "running"] /\ OnJvm' = OnJvm \cup {r}
      BY <3>1, <3>2, OneCall DEF CallStages, SentStages
    <3>4. OnJvm \subseteq slots \ {r} /\ r \in slots
      BY <1>5 DEF OnJvm, SlotInv, HoldStages, SentStages, CallStages, Send
    <3>5. Cardinality(OnJvm) < Threads
      <4>1. IsFiniteSet(slots \ {r}) /\ Cardinality(slots \ {r}) = Cardinality(slots) - 1
        BY <3>4, FS_RemoveElement DEF SlotInv
      <4>2. Cardinality(OnJvm) <= Cardinality(slots \ {r})
        BY <3>4, <4>1, FS_Subset
      <4>3. Cardinality(OnJvm) \in Nat /\ Cardinality(slots) \in Nat
        BY <3>4, <4>1, FS_Subset, FS_CardinalityType DEF SlotInv
      <4> QED
        BY <4>1, <4>2, <4>3, ThreadsAssumption DEF SlotInv
    <3>6. calls[r] = "waiting" /\ UNCHANGED <<result, ctx, late>>
      BY <1>5, <3>1 DEF Send, calls, ctxVars
    <3>7. Promise!Run(r)
      <4>1. Promise!Cardinality(OnJvm) = Cardinality(OnJvm)
        BY DEF Promise!Cardinality, Cardinality
      <4> QED
        BY <1>0, <3>3, <3>5, <3>6, <4>1 DEF Promise!Run, Promise!Becomes, calls
    <3> QED
      BY <3>7 DEF Promise!Next
  <2> QED
    BY <1>5, <2>1, <2>2 DEF Send
<1>6. CASE Track(r) \/ Receive(r)
  <2>1. CallOf(r)' = CallOf(r)
    BY <1>6 DEF Track, Receive, Go, CallOf
  <2> QED
    BY <1>0, <1>6, <2>1, Stutters DEF Track, Receive, Go, SentStages, CallStages
<1>7. CASE Poison(r)
  <2>1. CallOf(r)' = CallOf(r)
    BY <1>7 DEF Poison, Go, CallOf, AnsweredStages
  <2>2. \E s \in {"poison", "reap"} : pc' = [pc EXCEPT ![r] = s]
    BY <1>7 DEF Poison, Go
  <2> QED
    BY <1>0, <1>7, <2>1, <2>2, Stutters DEF Poison, SentStages, CallStages
<1>8. CASE PassDeadline(r)
  <2>1. pc' = [pc EXCEPT ![r] = "finish"] /\ result' = [result EXCEPT ![r] = "timeout"]
    BY <1>8 DEF PassDeadline, Go
  <2>2. Move("running", "returned")
    BY <1>8, <2>1 DEF PassDeadline, CallOf, AnsweredStages
  <2>3. calls' = [calls EXCEPT ![r] = "returned"] /\ OnJvm' = OnJvm
    <3>1. r \in OnJvm
      BY <1>8, OnJvmIs DEF PassDeadline, SentStages
    <3>2. /\ calls' = [calls EXCEPT ![r] = CallOf(r)']
          /\ OnJvm' = IF "finish" \in SentStages THEN OnJvm \cup {r} ELSE OnJvm \ {r}
      BY <2>1, OneCall DEF CallStages
    <3> QED
      BY <2>2, <3>1, <3>2 DEF SentStages
  <2>4. calls[r] = "running" /\ late[r] /\ UNCHANGED <<ctx, late>>
    BY <1>8, <2>2 DEF PassDeadline, calls, ctxVars
  <2>5. Promise!PassDeadline(r)
    BY <1>0, <2>1, <2>3, <2>4
    DEF Promise!PassDeadline, Promise!Returns, Promise!Becomes, calls
  <2> QED
    BY <2>5 DEF Promise!Next, Promise!Return
<1>9. ASSUME NEW o \in Outcomes, Return(r, o, "untrack"), pc[r] \in {"poison", "settle"}
      PROVE  /\ calls[r] = "running" /\ OnJvm' = OnJvm \ {r}
             /\ calls' = [calls EXCEPT ![r] = "returned"] /\ result' = [result EXCEPT ![r] = o]
  <2>1. pc' = [pc EXCEPT ![r] = "untrack"] /\ result' = [result EXCEPT ![r] = o]
    BY <1>9 DEF Return, Go
  <2>2. Move("running", "returned")
    BY <1>9, <2>1 DEF CallOf, AnsweredStages, Outcomes
  <2> QED
    BY <2>1, <2>2, OneCall DEF CallStages, SentStages, calls
<1>10. CASE Poisoned(r)
  <2>1. Promise!Overrun(r)
    BY <1>0, <1>9, <1>10
    DEF Poisoned, Outcomes, Promise!Overrun, Promise!Returns, Promise!Becomes, calls, ctxVars
  <2> QED
    BY <2>1 DEF Promise!Next, Promise!Return
<1>11. CASE Settle(r)
  <2>1. CASE chan[r] = "answer"
    <3>1. Promise!Answer(r)
      BY <1>0, <1>9, <1>11, <2>1
      DEF Settle, Outcomes, Promise!Answer, Promise!Returns, Promise!Becomes, calls, ctxVars
    <3> QED
      BY <3>1 DEF Promise!Next, Promise!Return
  <2>2. CASE chan[r] # "answer"
    <3>1. Promise!Lose(r)
      BY <1>0, <1>9, <1>11, <2>2
      DEF Settle, Outcomes, Promise!Lose, Promise!Returns, Promise!Becomes, calls, ctxVars
    <3> QED
      BY <3>1 DEF Promise!Next, Promise!Return
  <2> QED
    BY <2>1, <2>2
<1>12. CASE Finish(r)
  <2>1. pc' = [pc EXCEPT ![r] = "untrack"] /\ result' = [result EXCEPT ![r] = result[r]]
    BY <1>12 DEF Finish, Go
  <2>2. Move("returned", "returned") /\ r \in OnJvm
    BY <1>12, <2>1 DEF Finish, CallOf, AnsweredStages, OnJvm
  <2>3. calls[r] = "returned" /\ UNCHANGED <<result, ctx, late>>
    BY <1>12, <2>2 DEF Finish, calls, ctxVars
  <2>4. calls' = [calls EXCEPT ![r] = "returned"] /\ OnJvm' = OnJvm \ {r}
    BY <2>1, <2>2, OneCall DEF CallStages, SentStages
  <2>5. calls' = calls
    BY <2>3, <2>4 DEF calls
  <2>6. Promise!Leave(r)
    BY <1>0, <2>2, <2>3, <2>4, <2>5 DEF Promise!Leave, calls
  <2> QED
    BY <2>6 DEF Promise!Next
<1>13. CASE Untrack(r) \/ Free(r)
  <2>1. CallOf(r)' = CallOf(r)
    BY <1>13 DEF Untrack, Free, Go, CallOf, AnsweredStages
  <2>2. \E s \in {"free", "returned"} : pc' = [pc EXCEPT ![r] = s]
    BY <1>13 DEF Untrack, Free, Go
  <2> QED
    BY <1>0, <1>13, <2>1, <2>2, Stutters DEF Untrack, Free, SentStages, CallStages
<1> QED
  BY <1>1, <1>2, <1>3, <1>4, <1>5, <1>6, <1>7, <1>8, <1>10, <1>11, <1>12, <1>13 DEF CallAny, CallStep

\* Whatever the supervisor, the JVMs and Close do, a caller sees Checker: at most
\* Threads requests on the JVM, a call that runs is ended by a reply, the loss of
\* the JVM, its deadline or its run budget, and by nothing else.
THEOREM WorkerImplementsChecker == Spec => ImplementsChecker
<1>1. CInv /\ [Next]_vars => [Promise!Next]_Promise!checkerVars
  BY Steps, RefinesOthers, RefinesCall
<1> QED
  BY RefinesInit, <1>1, CallInvariance, PTL DEF Spec, ImplementsChecker, Promise!Spec
==============================================================================
