-------------------------- MODULE LintServerProofs ---------------------------
(***************************************************************************)
(* Proofs about POST /v1/lint, for any number of requests and workers and  *)
(* any queue: types, what covers the work, what is left, what is answered. *)
(***************************************************************************)
EXTENDS MCLintServer, RulesProofs

\* Where a handler has a place, a slot, a hold and a workspace.
HoldStages  == {"workspace", "prepare", "check", "run", "tool", "java", "ran", "parse", "cleanup",
                "unhold"}
SlotStages  == HoldStages \cup {"hold", "free"}
PlaceStages == SlotStages \cup {"queue", "answer", "leave"}
WorkStages  == HoldStages \ {"workspace", "unhold"}
Early == {"idle", "body", "ready", "admit", "queue", "hold", "workspace", "prepare", "check", "run"}
Placed == {r \in Requests : pc[r] \in PlaceStages}

\* pool.admitted counts the handlers between admit and leave.
CountInv == IsFiniteSet(Placed) /\ admitted = Cardinality(Placed)

\* Slot, hold, workspace and tool go with the stage; a request that waits for
\* its answer may have got no slot.
Covered(r) ==
  /\ pc[r] \in SlotStages => r \in slots
  /\ r \in slots => pc[r] \in SlotStages \cup {"answer"}
  /\ pc[r] \in HoldStages => r \in holds
  /\ r \in holds => pc[r] \in HoldStages \cup {"answer"} /\ r \in slots
  /\ pc[r] = "answer" /\ r \in slots => r \in holds
  /\ r \in ws <=> pc[r] \in WorkStages
  /\ r \in tools <=> pc[r] = "tool"
  /\ call[r] \in {"waiting", "running"} => pc[r] = "java"
CoverInv == \A r \in Requests : Covered(r)
SlotInv  == IsFiniteSet(slots) /\ Cardinality(slots) <= Workers

\* Where a verdict comes from.
WorkerErrors == {"timeout", "cancelled", "restarted", "failed", "closed"}
Based(r) ==
  /\ ctx[r] = "expired" => late[r]
  /\ outcome[r] # "none" => call[r] = "returned"
  /\ outcome[r] = "timeout" => late[r]
  /\ (outcome[r] = "failed" => failed) /\ (outcome[r] = "closed" => closed)
  /\ pc[r] \in {"tool", "ran"} => ~java[r]
  /\ pc[r] = "java" => java[r]
  /\ pc[r] = "parse" /\ java[r] => outcome[r] = "output"
  /\ verdict[r] = "report" /\ java[r] => outcome[r] = "output"
  /\ verdict[r] \in WorkerErrors => java[r] /\ outcome[r] = verdict[r]
  /\ pc[r] = "parse" /\ ~java[r] => exit[r] = "status"
  /\ verdict[r] = "report" =>
       pc[r] \in {"cleanup", "answer", "unhold", "free", "leave"} /\ (java[r] \/ exit[r] = "status")
  /\ pc[r] \in {"unhold", "free", "leave", "done"} <=> answer[r] # "none"
BasedInv == (\A r \in Requests : Based(r)) /\ HonestAnswers


\* A request that got its slot for nothing is kept from the tool and the worker by
\* its context, which does not come back.
Asleep(r) ==
  /\ r \in vain =>
       ctx[r] # "none" /\ call[r] = "idle" /\ pc[r] \notin {"run", "tool", "java"}
  /\ pc[r] \in Early => call[r] = "idle"
AsleepInv == \A r \in Requests : Asleep(r)

IInv == TypeOK /\ CountInv /\ CoverInv /\ SlotInv /\ BasedInv /\ AsleepInv
\* The steps, in the groups that the proofs take them in: of the server, of the
\* worker for one request, of its client and clock, and of its handler.
ServerStep == Shutdown \/ WarmedUp \/ WorkerFails \/ CloseWorker
WorkerStep(r) == WorkerRuns(r) \/ WorkerReturns(r) \/ WorkerLeaves(r)
OneStep(r) ==
  \/ Arrive(r) \/ Disconnect(r) \/ Expire(r) \/ ToolExits(r) \/ WorkerStep(r)
  \/ ReadBody(r) \/ CheckReady(r) \/ Admit(r) \/ Acquire(r) \/ Hold(r)
  \/ NewWorkspace(r) \/ Prepare(r) \/ CheckCtx(r) \/ StartTool(r) \/ Ran(r)
  \/ AskWorker(r) \/ WorkerAnswered(r) \/ Parse(r) \/ Cleanup(r) \/ Respond(r)
  \/ Unhold(r) \/ Free(r) \/ Leave(r)

LEMMA Steps ==
  ASSUME [Next]_vars
  PROVE  ServerStep \/ UNCHANGED vars \/ \E r \in Requests : OneStep(r)
  BY DEF Next, Terminated, ServerStep, OneStep, WorkerStep, HandlerStep, KillTool, ToolExits

\* What the worker does for a request, as far as the server sees it.
WorkerMoves(r) ==
  /\ ServerStutters /\ UNCHANGED <<ctx, late, failed, closed>>
  /\ onJvm' \subseteq onJvm \cup {r}
  /\ call' = [call EXCEPT ![r] = call'[r]] /\ outcome' = [outcome EXCEPT ![r] = outcome'[r]]
  /\ \/ call'[r] = call[r]
     \/ call[r] = "waiting" /\ call'[r] = "running"
     \/ call[r] \in {"waiting", "running"} /\ call'[r] = "returned"
  /\ outcome'[r] # outcome[r] =>
       /\ call'[r] = "returned" /\ call[r] # "returned"
       /\ outcome'[r] \in WorkerErrors \cup {"output"}
       /\ outcome'[r] = "timeout" => late[r] \/ ctx[r] = "expired"
       /\ outcome'[r] = "failed" => failed
       /\ outcome'[r] = "closed" => closed

LEMMA WorkerStepMoves ==
  ASSUME TypeOK, NEW r \in Requests, WorkerStep(r)
  PROVE  WorkerMoves(r)
<1> USE DEF TypeOK, WorkerMoves, WorkerErrors, Worker!Becomes, Worker!Returns
<1>1. CASE WorkerRuns(r)
  BY <1>1 DEF WorkerRuns, Worker!Run
<1>2. CASE WorkerLeaves(r)
  BY <1>2 DEF WorkerLeaves, Worker!Leave
<1>3. CASE Worker!Refuse(r) /\ ServerStutters
  BY <1>3 DEF Worker!Refuse
<1>4. CASE Worker!Answer(r) /\ ServerStutters
  BY <1>4 DEF Worker!Answer
<1>5. CASE Worker!Lose(r) /\ ServerStutters
  BY <1>5 DEF Worker!Lose
<1>6. CASE Worker!PassDeadline(r) /\ ServerStutters
  BY <1>6 DEF Worker!PassDeadline
<1>7. CASE late[r] /\ Worker!Overrun(r) /\ ServerStutters
  BY <1>7 DEF Worker!Overrun
<1> QED
  BY <1>1, <1>2, <1>3, <1>4, <1>5, <1>6, <1>7 DEF WorkerStep, WorkerReturns

\* The number of handlers with a place is what a step makes of it.
LEMMA PlacedMoves ==
  ASSUME TypeOK, CountInv, NEW r \in Requests, NEW t \in Stages, pc' = [pc EXCEPT ![r] = t]
  PROVE  /\ IsFiniteSet(Placed')
         /\ (pc[r] \in PlaceStages <=> t \in PlaceStages) => Placed' = Placed
         /\ pc[r] \notin PlaceStages /\ t \in PlaceStages => Cardinality(Placed') = admitted + 1
         /\ pc[r] \in PlaceStages /\ t \notin PlaceStages =>
              admitted > 0 /\ Cardinality(Placed') = admitted - 1
<1>1. r \in Placed <=> pc[r] \in PlaceStages
  BY DEF Placed
<1>2. CASE t \in PlaceStages
  <2>1. Placed' = Placed \cup {r}
    BY <1>2 DEF TypeOK, Placed
  <2> QED
    BY <1>1, <1>2, <2>1, FS_AddElement DEF CountInv
<1>3. CASE t \notin PlaceStages
  <2>1. Placed' = Placed \ {r}
    BY <1>3 DEF TypeOK, Placed
  <2>2. /\ IsFiniteSet(Placed \ {r})
        /\ Cardinality(Placed \ {r}) = IF r \in Placed THEN admitted - 1 ELSE admitted
    BY FS_RemoveElement DEF CountInv
  <2>3. Cardinality(Placed \ {r}) \in Nat /\ admitted \in Nat
    BY <2>2, FS_CardinalityType DEF CountInv
  <2>4. r \in Placed => admitted > 0
    BY <2>2, <2>3
  <2> QED
    BY <1>1, <1>3, <2>1, <2>2, <2>4
<1> QED
  BY <1>2, <1>3

\* admitted goes up in admit and down in leave, and the places with it.
LEMMA CountStep ==
  ASSUME TypeOK, CountInv, [Next]_vars
  PROVE  CountInv' /\ queue' = queue /\ admitted' \in 0 .. Workers + queue
<1> USE DEF CountInv, poolVars
<1>0. ASSUME UNCHANGED <<pc, queue, admitted>>
      PROVE  CountInv' /\ queue' = queue /\ admitted' \in 0 .. Workers + queue
  BY <1>0 DEF TypeOK, Placed
<1>1. CASE ServerStep \/ UNCHANGED vars
  BY <1>1, <1>0
  DEF ServerStep, Shutdown, WarmedUp, WorkerFails, CloseWorker, vars
<1>2. ASSUME NEW r \in Requests, OneStep(r)
      PROVE  CountInv' /\ queue' = queue /\ admitted' \in 0 .. Workers + queue
  <2>1. CASE WorkerStep(r) \/ Disconnect(r) \/ Expire(r)
    BY <2>1, <1>0, WorkerStepMoves DEF WorkerMoves, ServerStutters, Disconnect, Expire
  <2>2. CASE Admit(r) /\ admitted < Workers + queue
    <3>1. pc' = [pc EXCEPT ![r] = "queue"] /\ pc[r] = "admit" /\ admitted' = admitted + 1
      BY <2>2, PoolAssumption DEF Admit, Go, TypeOK
    <3>2. queue' = queue
      BY <2>2 DEF Admit
    <3>3. IsFiniteSet(Placed') /\ Cardinality(Placed') = admitted + 1
      BY <3>1, PlacedMoves DEF PlaceStages, SlotStages, HoldStages, Stages
    <3>4. admitted + 1 \in 0 .. Workers + queue
      BY <2>2, PoolAssumption DEF TypeOK
    <3> QED
      BY <3>1, <3>2, <3>3, <3>4
  <2>3. CASE Leave(r)
    <3>1. pc' = [pc EXCEPT ![r] = "done"] /\ pc[r] = "leave" /\ admitted' = admitted - 1
      BY <2>3 DEF Leave, Go
    <3>2. queue' = queue
      BY <2>3 DEF Leave
    <3>3. IsFiniteSet(Placed') /\ Cardinality(Placed') = admitted - 1 /\ admitted > 0
      BY <3>1, PlacedMoves DEF PlaceStages, SlotStages, HoldStages, Stages
    <3>4. admitted - 1 \in 0 .. Workers + queue
      BY <3>3, PoolAssumption DEF TypeOK
    <3> QED
      BY <3>1, <3>2, <3>3, <3>4
  <2>4. CASE ~Leave(r) /\ ~(Admit(r) /\ admitted < Workers + queue)
             /\ ~(WorkerStep(r) \/ Disconnect(r) \/ Expire(r))
    <3>1. /\ UNCHANGED <<queue, admitted>>
          /\ \E t \in Stages : /\ pc' = [pc EXCEPT ![r] = t]
                               /\ pc[r] \in PlaceStages <=> t \in PlaceStages
      <4> USE DEF Go, PlaceStages, SlotStages, HoldStages, Stages
      <4>1. CASE Arrive(r) \/ ReadBody(r) \/ CheckReady(r) \/ Admit(r)
        BY <2>4, <4>1 DEF Arrive, ReadBody, CheckReady, Admit
      <4>2. CASE Acquire(r) \/ Hold(r) \/ NewWorkspace(r) \/ Prepare(r) \/ CheckCtx(r)
        BY <4>2 DEF Acquire, Hold, NewWorkspace, Prepare, CheckCtx
      <4>3. CASE StartTool(r) \/ ToolExits(r) \/ Ran(r) \/ AskWorker(r) \/ WorkerAnswered(r)
        BY <4>3 DEF StartTool, ToolExits, ToolEnds, Ran, AskWorker, WorkerAnswered
      <4>4. CASE Parse(r) \/ Cleanup(r) \/ Respond(r) \/ Unhold(r) \/ Free(r)
        BY <4>4 DEF Parse, Cleanup, Respond, Unhold, Free
      <4> QED
        BY <1>2, <2>4, <4>1, <4>2, <4>3, <4>4 DEF OneStep
    <3>2. Placed' = Placed
      BY <3>1, PlacedMoves
    <3> QED
      BY <3>1, <3>2 DEF TypeOK
  <2> QED
    BY <2>1, <2>2, <2>3, <2>4
<1> QED
  BY <1>1, <1>2, Steps

\* Slot, hold, workspace and tool move with the stage.
LEMMA CoverStep ==
  ASSUME TypeOK, CoverInv, [Next]_vars
  PROVE  CoverInv'
<1> USE DEF CoverInv, Covered, Go, HoldStages, SlotStages, WorkStages, poolVars, workVars, jvmVars
<1>1. CASE ServerStep \/ UNCHANGED vars
  BY <1>1
  DEF ServerStep, Shutdown, WarmedUp, WorkerFails, CloseWorker, Worker!Fail, Worker!Close, vars
<1>2. ASSUME NEW r \in Requests, OneStep(r) PROVE CoverInv'
  <2> USE DEF TypeOK
  <2>1. CASE WorkerStep(r)
    BY <2>1, WorkerStepMoves DEF WorkerMoves, ServerStutters
  <2>2. CASE Disconnect(r) \/ Expire(r)
    BY <2>2 DEF Disconnect, Expire, Worker!Expire
  <2>3. CASE Arrive(r) \/ ReadBody(r) \/ CheckReady(r) \/ Admit(r)
    BY <2>3 DEF Arrive, ReadBody, CheckReady, Admit
  <2>4. CASE Acquire(r) \/ Hold(r)
    BY <2>4 DEF Acquire, Hold
  <2>5. CASE NewWorkspace(r) \/ Prepare(r) \/ CheckCtx(r)
    BY <2>5 DEF NewWorkspace, Prepare, CheckCtx
  <2>6. CASE StartTool(r) \/ ToolExits(r) \/ Ran(r)
    BY <2>6 DEF StartTool, ToolExits, ToolEnds, Ran
  <2>7. CASE AskWorker(r) \/ WorkerAnswered(r)
    BY <2>7 DEF AskWorker, WorkerAnswered, Worker!Ask, Worker!Becomes
  <2>8. CASE Parse(r) \/ Cleanup(r) \/ Respond(r)
    BY <2>8 DEF Parse, Cleanup, Respond
  <2>9. CASE Unhold(r) \/ Free(r) \/ Leave(r)
    BY <2>9 DEF Unhold, Free, Leave
  <2> QED
    BY <1>2, <2>1, <2>2, <2>3, <2>4, <2>5, <2>6, <2>7, <2>8, <2>9 DEF OneStep
<1> QED
  BY <1>1, <1>2, Steps

\* A slot is taken when there is one, and given back.
LEMMA SlotStep ==
  ASSUME TypeOK, SlotInv, [Next]_vars
  PROVE  SlotInv'
<1>1. \/ slots' = slots
      \/ \E r \in Requests : \/ Cardinality(slots) < Workers /\ slots' = slots \cup {r}
                             \/ slots' = slots \ {r}
  <2> USE DEF poolVars
  <2>1. CASE ServerStep \/ UNCHANGED vars
    BY <2>1 DEF ServerStep, Shutdown, WarmedUp, WorkerFails, CloseWorker, vars
  <2>2. ASSUME NEW r \in Requests, OneStep(r)
        PROVE  \/ slots' = slots
               \/ Cardinality(slots) < Workers /\ slots' = slots \cup {r}
               \/ slots' = slots \ {r}
    <3>1. CASE WorkerStep(r) \/ Disconnect(r) \/ Expire(r) \/ Arrive(r) \/ ReadBody(r)
      BY <3>1, WorkerStepMoves
      DEF WorkerMoves, ServerStutters, Disconnect, Expire, Arrive, ReadBody
    <3>2. CASE CheckReady(r) \/ Admit(r) \/ Acquire(r) \/ Hold(r)
      BY <3>2 DEF CheckReady, Admit, Acquire, Hold
    <3>3. CASE NewWorkspace(r) \/ Prepare(r) \/ CheckCtx(r) \/ StartTool(r) \/ ToolExits(r) \/ Ran(r)
      BY <3>3 DEF NewWorkspace, Prepare, CheckCtx, StartTool, ToolExits, ToolEnds, Ran
    <3>4. CASE AskWorker(r) \/ WorkerAnswered(r) \/ Parse(r) \/ Cleanup(r) \/ Respond(r)
      BY <3>4 DEF AskWorker, WorkerAnswered, Parse, Cleanup, Respond
    <3>5. CASE Unhold(r) \/ Free(r) \/ Leave(r)
      BY <3>5 DEF Unhold, Free, Leave
    <3> QED
      BY <2>2, <3>1, <3>2, <3>3, <3>4, <3>5 DEF OneStep
  <2> QED
    BY <2>1, <2>2, Steps
<1>2. ASSUME NEW r \in Requests
      PROVE  /\ IsFiniteSet(slots \cup {r}) /\ IsFiniteSet(slots \ {r})
             /\ Cardinality(slots) < Workers => Cardinality(slots \cup {r}) <= Workers
             /\ Cardinality(slots \ {r}) <= Workers
  <2>1. Cardinality(slots) \in Nat /\ Workers \in Nat /\ Cardinality(slots) <= Workers
    BY FS_CardinalityType, PoolAssumption DEF SlotInv
  <2>2. /\ IsFiniteSet(slots \cup {r})
        /\ Cardinality(slots \cup {r}) \in {Cardinality(slots), Cardinality(slots) + 1}
    BY FS_AddElement DEF SlotInv
  <2>3. /\ IsFiniteSet(slots \ {r})
        /\ Cardinality(slots \ {r}) \in {Cardinality(slots), Cardinality(slots) - 1}
    BY FS_RemoveElement DEF SlotInv
  <2> QED
    BY <2>1, <2>2, <2>3
<1> QED
  BY <1>1, <1>2 DEF SlotInv

\* Flags stay flags; a context that ended, a deadline that passed and a worker
\* that failed or closed stay so.
LEMMA FlagsStep ==
  ASSUME TypeOK, [Next]_vars
  PROVE  /\ FlagsOK'
         /\ \A q \in Requests : (gone[q] => gone'[q]) /\ (late[q] => late'[q])
         /\ (failed => failed') /\ (closed => closed') /\ (stopping => stopping')
         /\ java' = java
<1> DEFINE Kept == /\ \A q \in Requests : (gone[q] => gone'[q]) /\ (late[q] => late'[q])
                   /\ (failed => failed') /\ (closed => closed') /\ (stopping => stopping')
                   /\ java' = java
<1> USE DEF FlagsOK, ctxVars, serverVars, jvmVars
<1> FlagsOK
  BY DEF TypeOK
<1>1. ASSUME NEW R, Ends(R)
      PROVE  /\ gone' \in [Requests -> BOOLEAN] /\ late' = late
             /\ \A q \in Requests : gone[q] => gone'[q]
  <2>1. \A q \in Requests : (gone[q] \/ q \in R) \in BOOLEAN
    BY Zenon
  <2> QED
    BY <1>1, <2>1 DEF Ends
<1>2. CASE UNCHANGED <<java, ctxVars, serverVars>>
  BY <1>2
<1>3. CASE Shutdown
  <2>1. stopping' \in BOOLEAN /\ Ends({r \in Requests : Heeds(r)})
    BY <1>3, Zenon DEF Shutdown
  <2> QED
    BY <1>1, <1>3, <2>1 DEF Shutdown
<1>4. CASE WarmedUp
  <2>1. warm' \in BOOLEAN
    BY <1>4, Zenon DEF WarmedUp
  <2> QED
    BY <1>4, <2>1 DEF WarmedUp
<1>5. CASE WorkerFails
  <2>1. failed' \in BOOLEAN
    BY <1>5, Zenon DEF WorkerFails, Worker!Fail
  <2> QED
    BY <1>5, <2>1 DEF WorkerFails, Worker!Fail
<1>6. CASE CloseWorker
  <2>1. closed' \in BOOLEAN
    BY <1>6, Zenon DEF CloseWorker, Worker!Close
  <2> QED
    BY <1>6, <2>1 DEF CloseWorker, Worker!Close
<1>7. ASSUME NEW r \in Requests, OneStep(r) PROVE FlagsOK' /\ Kept
  <2>1. CASE Disconnect(r) \/ Arrive(r)
    <3>1. Ends({r}) \/ UNCHANGED ctxVars
      BY <2>1 DEF Disconnect, Arrive
    <3>2. UNCHANGED <<java, serverVars>>
      BY <2>1 DEF Disconnect, Arrive
    <3> QED
      BY <1>1, <3>1, <3>2
  <2>2. CASE Expire(r)
    <3>1. UNCHANGED <<java, gone, warm, stopping, failed, closed>> /\ late' = [late EXCEPT ![r] = TRUE]
      BY <2>2 DEF Expire, Worker!Expire
    <3>2. late' \in [Requests -> BOOLEAN]
      BY <3>1
    <3> QED
      BY <3>1, <3>2
  <2>3. CASE WorkerStep(r)
    BY <2>3, <1>2, WorkerStepMoves DEF WorkerMoves, ServerStutters
  <2>4. CASE ReadBody(r) \/ CheckReady(r) \/ Admit(r) \/ Acquire(r) \/ Hold(r)
    BY <2>4, <1>2 DEF ReadBody, CheckReady, Admit, Acquire, Hold
  <2>5. CASE NewWorkspace(r) \/ Prepare(r) \/ CheckCtx(r) \/ StartTool(r) \/ ToolExits(r) \/ Ran(r)
    BY <2>5, <1>2 DEF NewWorkspace, Prepare, CheckCtx, StartTool, ToolExits, ToolEnds, Ran
  <2>6. CASE AskWorker(r) \/ WorkerAnswered(r) \/ Parse(r) \/ Cleanup(r) \/ Respond(r)
    BY <2>6, <1>2 DEF AskWorker, WorkerAnswered, Parse, Cleanup, Respond, Worker!Ask
  <2>7. CASE Unhold(r) \/ Free(r) \/ Leave(r)
    BY <2>7, <1>2 DEF Unhold, Free, Leave
  <2> QED
    BY <1>7, <2>1, <2>2, <2>3, <2>4, <2>5, <2>6, <2>7 DEF OneStep
<1>8. CASE UNCHANGED vars
  BY <1>8, <1>2 DEF vars
<1> QED
  BY <1>3, <1>4, <1>5, <1>6, <1>7, <1>8, Steps DEF ServerStep

\* The answers that lintFailed and the end of handleLint give.
LEMMA ResponsesAreAnswers == \A r : Responses(r) \subseteq Answers
  BY DEF Responses, Verdicts, Answers

\* Every step keeps the types.
LEMMA TypeStep ==
  ASSUME TypeOK, CountInv, [Next]_vars
  PROVE  TypeOK'
<1> USE FlagsStep, CountStep DEF TypeOK, ctxVars, serverVars, poolVars, workVars, jvmVars, Go, Yields,
        Answered, Stages, Errors, Answers
<1>1. CASE UNCHANGED vars
  BY <1>1 DEF vars
<1>2. CASE ServerStep
  BY <1>2 DEF ServerStep, Shutdown, WarmedUp, WorkerFails, CloseWorker, Worker!Fail, Worker!Close,
     Ends
<1>3. ASSUME NEW r \in Requests, OneStep(r) PROVE TypeOK'
  <2>1. CASE Disconnect(r) \/ Arrive(r)
    BY <2>1 DEF Disconnect, Arrive, Ends
  <2>2. CASE Expire(r)
    BY <2>2 DEF Expire, Worker!Expire
  <2>3. CASE WorkerStep(r)
    BY <2>3, WorkerStepMoves DEF WorkerMoves, ServerStutters, WorkerErrors
  <2>4. CASE ReadBody(r) \/ CheckReady(r)
    BY <2>4 DEF ReadBody, CheckReady
  <2>5. CASE Admit(r) \/ Leave(r)
    BY <2>5 DEF Admit, Leave
  <2>6. CASE Acquire(r) \/ Hold(r) \/ NewWorkspace(r) \/ Prepare(r) \/ CheckCtx(r)
    BY <2>6 DEF Acquire, Hold, NewWorkspace, Prepare, CheckCtx
  <2>7. CASE StartTool(r) \/ ToolExits(r) \/ Ran(r)
    BY <2>7 DEF StartTool, ToolExits, ToolEnds, Ran
  <2>8. CASE AskWorker(r)
    BY <2>8 DEF AskWorker, Worker!Ask, Worker!Becomes
  <2>9. CASE WorkerAnswered(r)
    BY <2>9 DEF WorkerAnswered
  <2>10. CASE Parse(r) \/ Cleanup(r) \/ Unhold(r) \/ Free(r)
    BY <2>10 DEF Parse, Cleanup, Unhold, Free
  <2>11. CASE Respond(r)
    BY <2>11, ResponsesAreAnswers DEF Respond
  <2> QED
    BY <1>3, <2>1, <2>2, <2>3, <2>4, <2>5, <2>6, <2>7, <2>8, <2>9, <2>10, <2>11 DEF OneStep
<1> QED
  BY <1>1, <1>2, <1>3, Steps

\* What a verdict and an answer rest on is never taken back.
LEMMA BasedStep ==
  ASSUME TypeOK, CoverInv, BasedInv, [Next]_vars
  PROVE  BasedInv'
<1> SUFFICES ASSUME NEW q \in Requests PROVE Based(q)' /\ HonestAnswer(q)'
  BY DEF BasedInv, HonestAnswers
<1> DEFINE Good == Based(q)' /\ HonestAnswer(q)'
<1>0. /\ Based(q) /\ HonestAnswer(q) /\ Covered(q)
      /\ (gone[q] => gone'[q]) /\ (late[q] => late'[q])
      /\ (failed => failed') /\ (closed => closed') /\ java' = java
  BY FlagsStep DEF BasedInv, HonestAnswers, CoverInv
<1> USE <1>0 DEF TypeOK, Based, HonestAnswer, WorkerErrors, Go, Yields, Answered
<1>1. ASSUME pc'[q] = pc[q], answer'[q] = answer[q], verdict'[q] = verdict[q],
             outcome'[q] = outcome[q], call'[q] = call[q], ctx'[q] = "expired" => late'[q],
             exit'[q] = exit[q]
      PROVE  Good
  <2>1. HonestAnswer(q)'
    BY <1>1
  <2>2. (ctx[q] = "expired" => late[q])'
    BY <1>1
  <2>3. (pc[q] \in {"unhold", "free", "leave", "done"} <=> answer[q] # "none")'
    BY <1>1
  <2> QED
    BY <1>1, <2>1, <2>2, <2>3
<1>2. CASE ServerStep \/ UNCHANGED vars
  <2> USE DEF ctxVars, jvmVars, workVars
  <2>1. CASE UNCHANGED vars
    BY <2>1, <1>1 DEF vars
  <2>2. CASE Shutdown
    <3>1. UNCHANGED <<pc, answer, verdict, outcome, call, exit, late>>
      BY <2>2 DEF Shutdown, Ends
    <3>2. ctx'[q] = "expired" => ctx[q] = "expired"
      BY <2>2 DEF Shutdown, Ends
    <3> QED
      BY <1>1, <3>1, <3>2
  <2>3. CASE WarmedUp \/ WorkerFails \/ CloseWorker
    BY <2>3, <1>1 DEF WarmedUp, WorkerFails, CloseWorker, Worker!Fail, Worker!Close
  <2> QED
    BY <1>2, <2>1, <2>2, <2>3 DEF ServerStep
<1>3. ASSUME NEW r \in Requests, r # q, OneStep(r) PROVE Good
  <2> USE <1>3 DEF ctxVars, jvmVars, workVars
  <2>1. CASE Disconnect(r) \/ Arrive(r) \/ Expire(r)
    <3>1. /\ pc'[q] = pc[q]
          /\ UNCHANGED <<answer, verdict, outcome, call, exit>>
      BY <2>1 DEF Disconnect, Arrive, Expire, Worker!Expire
    <3>2. ctx'[q] = "expired" => ctx[q] = "expired"
      <4>0. ASSUME Ends({r}) PROVE ctx'[q] = ctx[q]
        <5>1. ctx'[q] = IF q \in {r} /\ ctx[q] = "none" THEN "cancelled" ELSE ctx[q]
          BY <4>0, Zenon DEF Ends
        <5> QED
          BY <1>3, <5>1, Zenon
      <4>1. CASE Disconnect(r)
        BY <4>0, <4>1 DEF Disconnect
      <4>2. CASE Arrive(r)
        BY <4>0, <4>2 DEF Arrive
      <4>3. CASE Expire(r)
        BY <4>3 DEF Expire, Worker!Expire
      <4> QED
        BY <2>1, <4>1, <4>2, <4>3
    <3> QED
      BY <1>1, <3>1, <3>2
  <2>2. CASE WorkerStep(r)
    BY <2>2, <1>1, WorkerStepMoves DEF WorkerMoves, ServerStutters
  <2>3. CASE ReadBody(r) \/ CheckReady(r) \/ Admit(r) \/ Acquire(r) \/ Hold(r)
    BY <2>3, <1>1 DEF ReadBody, CheckReady, Admit, Acquire, Hold
  <2>4. CASE NewWorkspace(r) \/ Prepare(r) \/ CheckCtx(r) \/ StartTool(r) \/ ToolExits(r) \/ Ran(r)
    BY <2>4, <1>1 DEF NewWorkspace, Prepare, CheckCtx, StartTool, ToolExits, ToolEnds, Ran
  <2>5. CASE AskWorker(r) \/ WorkerAnswered(r) \/ Parse(r) \/ Cleanup(r) \/ Respond(r)
    BY <2>5, <1>1 DEF AskWorker, WorkerAnswered, Parse, Cleanup, Respond, Worker!Ask, Worker!Becomes
  <2>6. CASE Unhold(r) \/ Free(r) \/ Leave(r)
    BY <2>6, <1>1 DEF Unhold, Free, Leave
  <2> QED
    BY <2>1, <2>2, <2>3, <2>4, <2>5, <2>6 DEF OneStep
<1>4. CASE OneStep(q)
  <2> USE DEF ctxVars, serverVars, jvmVars, workVars
  <2>1. CASE Disconnect(q) \/ Expire(q)
    <3>1. UNCHANGED <<pc, answer, verdict, outcome, call, exit>>
      BY <2>1 DEF Disconnect, Expire, Worker!Expire, workVars
    <3>2. ctx'[q] = "expired" => late'[q]
      <4>1. CASE Disconnect(q)
        BY <4>1 DEF Disconnect, Ends
      <4>2. CASE Expire(q)
        BY <4>2 DEF Expire, Worker!Expire, FlagsOK
      <4> QED
        BY <2>1, <4>1, <4>2
    <3> QED
      BY <1>1, <3>1, <3>2
  <2>2. CASE Arrive(q)
    BY <2>2 DEF Arrive, Ends
  <2>3. CASE WorkerStep(q)
    BY <2>3, WorkerStepMoves DEF WorkerMoves, ServerStutters
  <2>4. CASE ReadBody(q) \/ CheckReady(q) \/ Admit(q)
    BY <2>4 DEF ReadBody, CheckReady, Admit
  <2>5. CASE Acquire(q) \/ Hold(q) \/ NewWorkspace(q) \/ Prepare(q) \/ CheckCtx(q)
    BY <2>5 DEF Acquire, Hold, NewWorkspace, Prepare, CheckCtx
  <2>6. CASE StartTool(q) \/ ToolExits(q) \/ Ran(q)
    <3>1. CASE StartTool(q)
      BY <3>1 DEF StartTool
    <3>2. CASE ToolExits(q)
      <4>1. PICK how \in {"status", "signal"} : ToolEnds(q, how)
        BY <3>2 DEF ToolExits
      <4>2. /\ pc[q] = "tool" /\ pc'[q] = "ran" /\ exit'[q] = how
            /\ UNCHANGED <<java, ctx, gone, late, stopping, failed, closed, verdict, answer, outcome, call>>
        BY <4>1 DEF ToolEnds
      <4> QED
        BY <4>2
    <3>3. CASE Ran(q)
      BY <3>3 DEF Ran
    <3> QED
      BY <2>6, <3>1, <3>2, <3>3
  <2>7. CASE AskWorker(q)
    BY <2>7 DEF AskWorker, Worker!Ask, Worker!Becomes
  <2>8. CASE WorkerAnswered(q)
    BY <2>8 DEF WorkerAnswered, Errors
  <2>9. CASE Parse(q) \/ Cleanup(q)
    BY <2>9 DEF Parse, Cleanup
  <2>10. CASE Respond(q)
    BY <2>10 DEF Respond, Responses, Verdicts
  <2>11. CASE Unhold(q) \/ Free(q) \/ Leave(q)
    BY <2>11 DEF Unhold, Free, Leave
  <2> QED
    BY <1>4, <2>1, <2>2, <2>3, <2>4, <2>5, <2>6, <2>7, <2>8, <2>9, <2>10, <2>11 DEF OneStep
<1> QED
  BY <1>2, <1>3, <1>4, Steps

\* A slot taken with a context that has ended: nothing is started, as it is looked
\* at before the worker is asked and when the tool starts.
LEMMA AsleepStep ==
  ASSUME TypeOK, CoverInv, AsleepInv, [Next]_vars
  PROVE  AsleepInv'
<1> USE DEF AsleepInv, Asleep, Early, Go, TypeOK, ctxVars, jvmVars, workVars
<1>1. CASE ServerStep \/ UNCHANGED vars
  BY <1>1
  DEF ServerStep, Shutdown, WarmedUp, WorkerFails, CloseWorker, Worker!Fail, Worker!Close, Ends, vars
<1>2. ASSUME NEW r \in Requests, OneStep(r) PROVE AsleepInv'
  <2>1. CASE WorkerStep(r)
    <3>1. call[r] # "idle" \/ call'[r] = "idle"
      BY <2>1, WorkerStepMoves DEF WorkerMoves
    <3>2. call[r] \in {"waiting", "running"} => pc[r] = "java"
      BY DEF CoverInv, Covered
    <3> QED
      BY <2>1, <3>1, <3>2, WorkerStepMoves DEF WorkerMoves, ServerStutters
  <2>2. CASE Disconnect(r) \/ Expire(r) \/ Arrive(r)
    BY <2>2 DEF Disconnect, Expire, Worker!Expire, Arrive, Ends
  <2>3. CASE ReadBody(r) \/ CheckReady(r) \/ Admit(r)
    BY <2>3 DEF ReadBody, CheckReady, Admit
  <2>4. CASE Acquire(r) \/ Hold(r)
    BY <2>4 DEF Acquire, Hold
  <2>5. CASE NewWorkspace(r) \/ Prepare(r) \/ CheckCtx(r)
    BY <2>5 DEF NewWorkspace, Prepare, CheckCtx
  <2>6. CASE StartTool(r) \/ ToolExits(r) \/ Ran(r)
    BY <2>6 DEF StartTool, ToolExits, ToolEnds, Ran
  <2>7. CASE AskWorker(r) \/ WorkerAnswered(r)
    BY <2>7 DEF AskWorker, WorkerAnswered, Worker!Ask, Worker!Becomes
  <2>8. CASE Parse(r) \/ Cleanup(r) \/ Respond(r)
    BY <2>8 DEF Parse, Cleanup, Respond
  <2>9. CASE Unhold(r) \/ Free(r) \/ Leave(r)
    BY <2>9 DEF Unhold, Free, Leave
  <2> QED
    BY <1>2, <2>1, <2>2, <2>3, <2>4, <2>5, <2>6, <2>7, <2>8, <2>9 DEF OneStep
<1> QED
  BY <1>1, <1>2, Steps

\* No request has come.
LEMMA InitInv == Init => IInv
<1> SUFFICES ASSUME Init PROVE IInv
  OBVIOUS
<1> USE DEF Init, Worker!Init
<1>1. FlagsOK
  <2>1. warm \in BOOLEAN /\ stopping \in BOOLEAN /\ failed \in BOOLEAN /\ closed \in BOOLEAN
    BY Zenon
  <2> QED
    BY <2>1 DEF FlagsOK
<1>2. TypeOK
  BY <1>1, PoolAssumption DEF TypeOK, Stages
<1>3. CountInv
  <2>1. Placed = {}
    BY DEF Placed, PlaceStages, SlotStages, HoldStages
  <2> QED
    BY <2>1, FS_EmptySet DEF CountInv
<1>4. CoverInv /\ SlotInv
  BY FS_EmptySet, PoolAssumption
  DEF CoverInv, Covered, SlotInv, SlotStages, HoldStages, WorkStages
<1>5. BasedInv
  BY DEF BasedInv, Based, HonestAnswers, HonestAnswer, WorkerErrors
<1>6. AsleepInv
  BY DEF AsleepInv, Asleep
<1> QED
  BY <1>2, <1>3, <1>4, <1>5, <1>6 DEF IInv

\* The invariant holds whatever clients, clock, tools, worker and shutdown do.
THEOREM Invariance == Spec => []IInv
<1>1. IInv /\ [Next]_vars => IInv'
  BY TypeStep, CountStep, CoverStep, SlotStep, BasedStep, AsleepStep DEF IInv
<1> QED
  BY InitInv, <1>1, PTL DEF Spec

\* Types, and that admitted stays within --workers plus --queue.
THEOREM TypeCorrect == Spec => []TypeOK
<1>1. IInv => TypeOK
  BY DEF IInv
<1> QED
  BY Invariance, <1>1, PTL

\* Tools, workspaces and Java requests are covered by slots, of which there are
\* Workers.
THEOREM WorkStaysCovered == Spec => []WorkIsCovered
<1>1. IInv => WorkIsCovered
  BY DEF IInv, TypeOK, CoverInv, Covered, SlotInv, AsleepInv, Asleep, WorkIsCovered, SlotStages,
         HoldStages, WorkStages
<1> QED
  BY Invariance, <1>1, PTL

\* admit and leave, acquire and release: nothing is left between requests.
THEOREM EverythingIsGivenBack == Spec => []NothingLeftBehind
<1>1. ASSUME IInv, \A r \in Requests : ~InHandler(r)
      PROVE  admitted = 0 /\ slots = {} /\ holds = {} /\ ws = {} /\ tools = {}
  <2>1. \A r \in Requests : pc[r] \in {"idle", "done"}
    BY <1>1 DEF InHandler
  <2>2. Placed = {}
    BY <2>1 DEF Placed, PlaceStages, SlotStages, HoldStages
  <2>3. admitted = 0
    BY <1>1, <2>2, FS_EmptySet DEF IInv, CountInv
  <2> QED
    BY <1>1, <2>1, <2>3
    DEF IInv, TypeOK, CoverInv, Covered, SlotStages, HoldStages, WorkStages
<1>2. IInv => NothingLeftBehind
  BY <1>1 DEF NothingLeftBehind
<1> QED
  BY Invariance, <1>2, PTL

\* lintFailed: an answer says what has happened.
THEOREM AnswersAreHonest == Spec => []HonestAnswers
<1>1. IInv => HonestAnswers
  BY DEF IInv, BasedInv
<1> QED
  BY Invariance, <1>1, PTL

\* What a lint answers with a report: of the tool's output the first MaxOutput bytes,
\* the caller's own names for its files, and the first findings with the most whole
\* runes of their messages, for outputs, paths and limits of any size.
THEOREM ReportsAreRight == Spec => []ReportsAreTrue
<1>1. ReportsAreTrue
  BY EveryReport DEF ReportsAreTrue
<1> QED
  BY <1>1, PTL

\* extractAssets, copyAssets and writeCode: what a lint runs in is the tree that the
\* archive's entries describe with the code in it, for archives and names of any
\* length and whatever the order of the entries.
THEOREM WorkspacesStayWhole == Spec => []WorkspacesAreWhole
<1>1. WorkspacesAreWhole
  BY EveryWorkspace DEF WorkspacesAreWhole
<1> QED
  BY <1>1, PTL
==============================================================================
