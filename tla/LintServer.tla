----------------------------- MODULE LintServer -----------------------------
(***************************************************************************)
(* POST /v1/lint: handleLint, lint and lintFailed of internal/serve/lint.go*)
(* with the pool of pool.go, RunContext of linter/run.go and the resident  *)
(* javac worker as Checker promises it.  Every request is a goroutine of   *)
(* its own; a step is a critical section, a channel operation, or a piece  *)
(* of work during which the client may leave and the deadline may pass.    *)
(* What a request says, and what the report holds, is left out.            *)
(***************************************************************************)
EXTENDS Naturals, FiniteSets

CONSTANTS
  Requests,    \* the lint requests
  Workers,     \* --workers: lint slots, and threads of the javac worker
  Queue        \* the largest --queue considered

ASSUME PoolAssumption == Workers \in Nat \ {0} /\ Queue \in Nat

VARIABLES
  queue,           \* --queue, as ParseFlags accepted it
  pc,              \* per request: where its handler is
  java,            \* per request: whether its language uses javac
  gone,            \* per request: r.Context().Err() is not nil
  ctx, late,       \* per request: Err() of the context with the deadline; the deadline
  warm,            \* readiness.isReady
  stopping,        \* shutdown has cancelled the base context
  admitted,        \* pool.admitted
  slots, holds,    \* the requests in pool.slots and in pool.holds
  ws,              \* the requests whose workspace exists
  tools,           \* the requests whose one-shot tool runs
  exit,            \* per request: how its tool ended, with a status or by a signal
  vain,            \* the requests that got a slot when their context had ended
  verdict,         \* per request: what lint returned, the report or an error
  answer,          \* per request: the response, or abandoned
  call, outcome, onJvm, failed, closed    \* the worker's, see Checker

Worker == INSTANCE Checker WITH Threads <- Workers

poolVars   == <<queue, admitted, slots, holds>>
ctxVars    == <<gone, ctx, late>>
serverVars == <<warm, stopping, failed, closed>>
jvmVars    == <<call, outcome, onJvm>>
workVars   == <<ws, tools, exit, vain>>
vars == <<pc, java, ctxVars, serverVars, poolVars, workVars, verdict, answer, jvmVars>>

Errors == {"ctx", "setup", "assets_required", "tool", "timeout", "cancelled", "restarted",
           "failed", "closed"}
Answers == {"abandoned", "rejected", "not_ready", "busy", "timeout", "assets_required",
            "unavailable", "internal", "report"}
Stages == {"idle", "body", "ready", "admit", "queue", "hold", "workspace", "prepare", "check",
           "run", "tool", "java", "ran", "parse", "cleanup", "answer", "unhold", "free",
           "leave", "done"}

FlagsOK ==
  /\ java \in [Requests -> BOOLEAN]
  /\ gone \in [Requests -> BOOLEAN] /\ late \in [Requests -> BOOLEAN]
  /\ warm \in BOOLEAN /\ stopping \in BOOLEAN /\ failed \in BOOLEAN /\ closed \in BOOLEAN
TypeOK ==
  /\ FlagsOK /\ pc \in [Requests -> Stages]
  /\ ctx \in [Requests -> {"none", "cancelled", "expired"}]
  /\ queue \in 0 .. Queue /\ admitted \in 0 .. Workers + queue
  /\ slots \subseteq Requests /\ holds \subseteq Requests
  /\ ws \subseteq Requests /\ tools \subseteq Requests /\ onJvm \subseteq Requests
  /\ vain \subseteq Requests
  /\ exit \in [Requests -> {"none", "status", "signal"}]
  /\ verdict \in [Requests -> Errors \cup {"none", "report"}]
  /\ answer \in [Requests -> Answers \cup {"none"}]
  /\ call \in [Requests -> {"idle", "waiting", "running", "returned"}]
  /\ outcome \in [Requests -> (Errors \ {"ctx", "setup", "assets_required", "tool"})
                                \cup {"none", "output"}]

Init ==
  /\ queue \in 0 .. Queue
  /\ pc = [r \in Requests |-> "idle"] /\ java \in [Requests -> BOOLEAN]
  /\ gone = [r \in Requests |-> FALSE]
  /\ warm = FALSE /\ stopping = FALSE
  /\ admitted = 0 /\ slots = {} /\ holds = {} /\ ws = {} /\ tools = {}
  /\ exit = [r \in Requests |-> "none"] /\ vain = {}
  /\ verdict = [r \in Requests |-> "none"] /\ answer = [r \in Requests |-> "none"]
  /\ Worker!Init

Go(r, stage) == pc' = [pc EXCEPT ![r] = stage]
Answered(r, a) == answer' = [answer EXCEPT ![r] = a]
Yields(r, v) == verdict' = [verdict EXCEPT ![r] = v]

(***************************************************************************)
(* The client, the clock and the server's own life.                        *)
(***************************************************************************)

InHandler(r) == pc[r] \notin {"idle", "done"}

\* Once the answer is written, what becomes of the contexts is nothing to the
\* handler, and is left out.
Heeds(r) == InHandler(r) /\ pc[r] \notin {"unhold", "free", "leave"}

\* The client leaves, or shutdown cancels the base context while the client is
\* there: either way r.Context() ends, and the context derived from it, and the
\* handler cannot tell which.  A client that leaves after shutdown changes nothing.
Ends(R) ==
  /\ gone' = [r \in Requests |-> gone[r] \/ r \in R]
  /\ ctx' = [r \in Requests |-> IF r \in R /\ ctx[r] = "none" THEN "cancelled" ELSE ctx[r]]
  /\ UNCHANGED late
Disconnect(r) ==
  /\ Heeds(r) /\ ~gone[r] /\ Ends({r})
  /\ UNCHANGED <<pc, java, serverVars, poolVars, workVars, verdict, answer, jvmVars>>
Shutdown ==
  /\ ~stopping /\ stopping' = TRUE
  /\ Ends({r \in Requests : Heeds(r)})
  /\ UNCHANGED <<pc, java, warm, failed, closed, poolVars, workVars, verdict, answer, jvmVars>>

\* start + --deadline
Expire(r) ==
  /\ Heeds(r) /\ Worker!Expire(r)
  /\ UNCHANGED <<pc, java, gone, warm, stopping, poolVars, workVars, verdict, answer>>

\* Every component is done; the worker gives up; shutdown closes it.
WarmedUp ==
  /\ ~warm /\ warm' = TRUE
  /\ UNCHANGED <<pc, java, ctxVars, stopping, failed, closed, poolVars, workVars, verdict,
                 answer, jvmVars>>
WorkerFails ==
  /\ Worker!Fail
  /\ UNCHANGED <<pc, java, gone, warm, stopping, poolVars, workVars, verdict, answer>>
CloseWorker ==
  /\ stopping /\ Worker!Close
  /\ UNCHANGED <<pc, java, gone, warm, stopping, poolVars, workVars, verdict, answer>>

(***************************************************************************)
(* handleLint up to the worker slot.                                       *)
(***************************************************************************)

\* A connection accepted before the listeners closed may still send a request.
Arrive(r) ==
  /\ pc[r] = "idle" /\ Go(r, "body")
  /\ IF stopping THEN Ends({r}) ELSE UNCHANGED ctxVars
  /\ UNCHANGED <<java, serverVars, poolVars, workVars, verdict, answer, jvmVars>>

\* ReadAll under the read deadline, and decodeLint.
ReadBody(r) ==
  /\ pc[r] = "body"
  /\ \/ Go(r, "ready") /\ UNCHANGED answer
     \/ late[r] /\ Go(r, "done") /\ Answered(r, "timeout")
     \/ gone[r] /\ Go(r, "done") /\ Answered(r, "abandoned")
     \/ Go(r, "done") /\ Answered(r, "rejected")
  /\ UNCHANGED <<java, ctxVars, serverVars, poolVars, workVars, verdict, jvmVars>>

CheckReady(r) ==
  /\ pc[r] = "ready"
  /\ \/ warm /\ Go(r, "admit") /\ UNCHANGED answer
     \/ ~warm /\ Go(r, "done") /\ Answered(r, "not_ready")
  /\ UNCHANGED <<java, ctxVars, serverVars, poolVars, workVars, verdict, jvmVars>>

\* Mutant: one place too many.
AdmitOneMore(r) ==
  /\ pc[r] = "admit" /\ admitted <= Workers + queue /\ admitted' = admitted + 1
  /\ Go(r, "queue")
  /\ UNCHANGED <<java, ctxVars, serverVars, queue, slots, holds, workVars, verdict, answer, jvmVars>>

Admit(r) ==
  /\ pc[r] = "admit"
  /\ \/ /\ admitted < Workers + queue /\ admitted' = admitted + 1
        /\ Go(r, "queue") /\ UNCHANGED answer
     \/ /\ admitted >= Workers + queue /\ UNCHANGED admitted
        /\ Go(r, "done") /\ Answered(r, "busy")
  /\ UNCHANGED <<java, ctxVars, serverVars, queue, slots, holds, workVars, verdict, jvmVars>>

\* acquire, its select: when both are there it takes either.
Acquire(r) ==
  /\ pc[r] = "queue"
  /\ \/ /\ Cardinality(slots) < Workers /\ slots' = slots \cup {r}
        /\ vain' = IF ctx[r] = "none" THEN vain ELSE vain \cup {r}
        /\ Go(r, "hold") /\ UNCHANGED verdict
     \/ /\ ctx[r] # "none" /\ Yields(r, "ctx") /\ Go(r, "answer")
        /\ UNCHANGED <<slots, vain>>
  /\ UNCHANGED <<java, ctxVars, serverVars, queue, admitted, holds, ws, tools, exit, answer,
                 jvmVars>>

Hold(r) ==
  /\ pc[r] = "hold" /\ holds' = holds \cup {r} /\ Go(r, "workspace")
  /\ UNCHANGED <<java, ctxVars, serverVars, queue, admitted, slots, workVars, verdict, answer, jvmVars>>

(***************************************************************************)
(* lint, in the slot.                                                      *)
(***************************************************************************)

NewWorkspace(r) ==
  /\ pc[r] = "workspace"
  /\ \/ ws' = ws \cup {r} /\ Go(r, "prepare") /\ UNCHANGED verdict
     \/ Yields(r, "setup") /\ Go(r, "answer") /\ UNCHANGED ws
  /\ UNCHANGED <<java, ctxVars, serverVars, poolVars, tools, exit, vain, answer, jvmVars>>

\* The asset set is copied (AssetCache's Acquire and Release) and the code
\* written.
Prepare(r) ==
  /\ pc[r] = "prepare"
  /\ \/ Go(r, "check") /\ UNCHANGED verdict
     \/ Yields(r, "setup") /\ Go(r, "cleanup")
     \/ Yields(r, "assets_required") /\ Go(r, "cleanup")
  /\ UNCHANGED <<java, ctxVars, serverVars, poolVars, workVars, answer, jvmVars>>

\* Mutant: a lint whose context has ended goes on.
CheckNothing(r) ==
  /\ pc[r] = "check" /\ Go(r, "run")
  /\ UNCHANGED <<java, ctxVars, serverVars, poolVars, workVars, verdict, answer, jvmVars>>

CheckCtx(r) ==
  /\ pc[r] = "check"
  /\ \/ ctx[r] = "none" /\ Go(r, "run") /\ UNCHANGED verdict
     \/ ctx[r] # "none" /\ Yields(r, "ctx") /\ Go(r, "cleanup")
  /\ UNCHANGED <<java, ctxVars, serverVars, poolVars, workVars, answer, jvmVars>>

\* RunContext: cmd.Start, which looks at the context again.
StartTool(r) ==
  /\ pc[r] = "run" /\ ~java[r]
  /\ \/ ctx[r] = "none" /\ tools' = tools \cup {r} /\ Go(r, "tool") /\ UNCHANGED verdict
     \/ Yields(r, IF ctx[r] = "none" THEN "tool" ELSE "ctx") /\ Go(r, "cleanup")
        /\ UNCHANGED tools
  /\ UNCHANGED <<java, ctxVars, serverVars, poolVars, ws, exit, vain, answer, jvmVars>>

ToolEnds(r, how) ==
  /\ pc[r] = "tool" /\ tools' = tools \ {r} /\ Go(r, "ran")
  /\ exit' = [exit EXCEPT ![r] = how]
  /\ UNCHANGED <<java, ctxVars, serverVars, poolVars, ws, vain, verdict, answer, jvmVars>>

\* By itself, or by a signal that is not the server's: it crashes, or memory is out.
ToolExits(r) == \E how \in {"status", "signal"} : ToolEnds(r, how)

\* Mutants: the tool has the client's context, without the deadline; RunContext
\* does not wait for the tool it killed.
KillToolOfGone(r) ==
  /\ gone[r] /\ ToolEnds(r, "signal")
KillToolNoWait(r) ==
  /\ ctx[r] # "none" /\ pc[r] = "tool" /\ Go(r, "ran")
  /\ UNCHANGED <<java, ctxVars, serverVars, poolVars, workVars, verdict, answer, jvmVars>>

\* cmd.Cancel kills the group, and Wait returns once the tool has exited.
KillTool(r) == ctx[r] # "none" /\ ToolEnds(r, "signal")

\* Mutant: what a tool wrote before a signal ended it is taken for its output.
RanOrDied(r) ==
  /\ pc[r] = "ran"
  /\ \/ ctx[r] # "none" /\ Yields(r, "ctx") /\ Go(r, "cleanup")
     \/ ctx[r] = "none" /\ Yields(r, "tool") /\ Go(r, "cleanup")
     \/ ctx[r] = "none" /\ Go(r, "parse") /\ UNCHANGED verdict
  /\ UNCHANGED <<java, ctxVars, serverVars, poolVars, workVars, answer, jvmVars>>

\* After cmd.Run: the context first, then a signal, too much output, the report.
Ran(r) ==
  /\ pc[r] = "ran"
  /\ \/ ctx[r] # "none" /\ Yields(r, "ctx") /\ Go(r, "cleanup")
     \/ ctx[r] = "none" /\ Yields(r, "tool") /\ Go(r, "cleanup")
     \/ ctx[r] = "none" /\ exit[r] = "status" /\ Go(r, "parse") /\ UNCHANGED verdict
  /\ UNCHANGED <<java, ctxVars, serverVars, poolVars, workVars, answer, jvmVars>>

AskWorker(r) ==
  /\ pc[r] = "run" /\ java[r] /\ Worker!Ask(r) /\ Go(r, "java")
  /\ UNCHANGED <<java, gone, warm, stopping, poolVars, workVars, verdict, answer>>

WorkerAnswered(r) ==
  /\ pc[r] = "java" /\ call[r] = "returned"
  /\ \/ outcome[r] = "output" /\ Go(r, "parse") /\ UNCHANGED verdict
     \/ outcome[r] # "output" /\ Yields(r, outcome[r]) /\ Go(r, "cleanup")
  /\ UNCHANGED <<java, ctxVars, serverVars, poolVars, workVars, answer, jvmVars>>

\* Redaction, l.Parse and NormalizePath: time passes, nothing looks at it.
Parse(r) ==
  /\ pc[r] = "parse" /\ Go(r, "cleanup")
  /\ \E v \in {"report", "tool"} : Yields(r, v)
  /\ UNCHANGED <<java, ctxVars, serverVars, poolVars, workVars, answer, jvmVars>>

\* os.RemoveAll(ws), deferred: before the answer.  How the tool ended is kept for a
\* report only.
Cleanup(r) ==
  /\ pc[r] = "cleanup" /\ ws' = ws \ {r} /\ Go(r, "answer") /\ vain' = vain \ {r}
  /\ exit' = [exit EXCEPT ![r] = IF verdict[r] = "report" THEN @ ELSE "none"]
  /\ UNCHANGED <<java, ctxVars, serverVars, poolVars, tools, verdict, answer, jvmVars>>

(***************************************************************************)
(* The end of handleLint: the answer, then release, then leave.            *)
(***************************************************************************)

\* lintFailed, and the 200 (or a report that is too large), of a request whose
\* r.Context() has not ended.
Verdicts(r) ==
  IF verdict[r] = "report" THEN {"report", "internal"}
  ELSE IF verdict[r] = "setup" THEN {"internal"}
  ELSE IF verdict[r] = "assets_required" THEN {"assets_required"}
  ELSE IF verdict[r] = "timeout" \/ ctx[r] = "expired" THEN {"timeout"}
  ELSE IF verdict[r] \in {"restarted", "failed", "closed"} THEN {"unavailable"}
  ELSE {"internal"}

\* Mutant: it looks at the context with the deadline instead.
ResponsesOfCtx(r) == IF ctx[r] # "none" THEN {"abandoned"} ELSE Verdicts(r)

\* abandoned: the handler returns and has written nothing, whether the client left
\* or shutdown cancelled the base context of one that waits.
Responses(r) == IF gone[r] THEN {"abandoned"} ELSE Verdicts(r)

\* Mutant: a request that got no slot does not leave.
RespondNoLeave(r) ==
  /\ pc[r] = "answer" /\ \E a \in Responses(r) : Answered(r, a)
  /\ Go(r, IF r \in slots THEN "unhold" ELSE "done")
  /\ UNCHANGED <<java, ctxVars, serverVars, poolVars, workVars, verdict, jvmVars>>

Respond(r) ==
  /\ pc[r] = "answer" /\ \E a \in Responses(r) : Answered(r, a)
  /\ Go(r, IF r \in slots THEN "unhold" ELSE "leave")
  /\ UNCHANGED <<java, ctxVars, serverVars, poolVars, workVars, verdict, jvmVars>>

\* Mutant: the slot goes first.
UnholdLast(r) ==
  /\ pc[r] = "unhold" /\ slots' = slots \ {r} /\ Go(r, "free")
  /\ UNCHANGED <<java, ctxVars, serverVars, queue, admitted, holds, workVars, verdict, answer, jvmVars>>

\* release: holds, then the slot.
Unhold(r) ==
  /\ pc[r] = "unhold" /\ holds' = holds \ {r} /\ Go(r, "free")
  /\ UNCHANGED <<java, ctxVars, serverVars, queue, admitted, slots, workVars, verdict, answer, jvmVars>>
Free(r) ==
  /\ pc[r] = "free" /\ slots' = slots \ {r} /\ Go(r, "leave")
  /\ UNCHANGED <<java, ctxVars, serverVars, queue, admitted, holds, workVars, verdict, answer, jvmVars>>
Leave(r) ==
  /\ pc[r] = "leave" /\ admitted' = admitted - 1 /\ Go(r, "done")
  /\ Yields(r, "none") /\ vain' = vain \ {r} /\ exit' = [exit EXCEPT ![r] = "none"]
  /\ UNCHANGED <<java, ctxVars, serverVars, queue, slots, holds, ws, tools, answer, jvmVars>>

HandlerStep(r) ==
  \/ ReadBody(r) \/ CheckReady(r) \/ Admit(r) \/ Acquire(r) \/ Hold(r)
  \/ NewWorkspace(r) \/ Prepare(r) \/ CheckCtx(r) \/ StartTool(r) \/ KillTool(r) \/ Ran(r)
  \/ AskWorker(r) \/ WorkerAnswered(r) \/ Parse(r) \/ Cleanup(r) \/ Respond(r)
  \/ Unhold(r) \/ Free(r) \/ Leave(r)

(***************************************************************************)
(* The javac worker.  Its run budget is the deadline too, counted from the *)
(* send, so no call overruns it before its own deadline.                   *)
(***************************************************************************)

ServerStutters ==
  UNCHANGED <<pc, java, gone, warm, stopping, poolVars, workVars, verdict, answer>>

\* Mutant: the run budget is shorter than the deadline.
WorkerReturnsAnyTime(r) == Worker!Return(r) /\ ServerStutters

WorkerReturns(r) ==
  /\ \/ Worker!Refuse(r) \/ Worker!Answer(r) \/ Worker!Lose(r) \/ Worker!PassDeadline(r)
     \/ late[r] /\ Worker!Overrun(r)
  /\ ServerStutters
WorkerRuns(r)   == Worker!Run(r) /\ ServerStutters
WorkerLeaves(r) == Worker!Leave(r) /\ ServerStutters

Terminated == (\A r \in Requests : pc[r] = "done") /\ onJvm = {} /\ UNCHANGED vars

Next ==
  \/ Shutdown \/ WarmedUp \/ WorkerFails \/ CloseWorker \/ Terminated
  \/ \E r \in Requests :
       \/ Arrive(r) \/ Disconnect(r) \/ Expire(r) \/ ToolExits(r) \/ HandlerStep(r)
       \/ WorkerRuns(r) \/ WorkerReturns(r) \/ WorkerLeaves(r)

\* Every handler that can step does (a body arrives, or its read deadline
\* passes), deadlines pass, a killed tool exits, and the worker keeps Checker's
\* promise.  Nothing obliges a tool to exit by itself or a client to leave.
Fairness ==
  \A r \in Requests :
    /\ WF_vars(HandlerStep(r)) /\ WF_vars(Expire(r))
    /\ WF_vars(WorkerReturns(r) \/ WorkerLeaves(r))

Spec     == Init /\ [][Next]_vars
FairSpec == Spec /\ Fairness

(***************************************************************************)
(* Properties.                                                             *)
(***************************************************************************)

\* Whatever a lint started is covered by its slot, of which there are Workers,
\* and keeps its workspace: a tool until it has exited, also when it was killed
\* at the deadline, and a Java request until the worker has answered it, also
\* when the client is gone (contract 9.2 and 9.4).  The liveness probe, which
\* looks at holds, counts no request without a slot and misses none at work.  For
\* a request that got its slot when its context had ended, nothing is started.
WorkIsCovered ==
  /\ Cardinality(slots) <= Workers
  /\ ws \subseteq holds /\ holds \subseteq slots
  /\ tools \cup {r \in Requests : call[r] \in {"waiting", "running"}} \subseteq slots \cap ws
  /\ \A r \in vain : r \notin tools /\ call[r] = "idle"

\* However the requests left, between requests nothing is left of them: no place,
\* no slot, no tool, no workspace.  One lost leave would refuse lints for ever.
NothingLeftBehind ==
  (\A r \in Requests : ~InHandler(r)) =>
    admitted = 0 /\ slots = {} /\ holds = {} /\ ws = {} /\ tools = {}

\* A handler that ends has answered; it writes nothing only when r.Context() has
\* ended, as it does for a client that left and, on shutdown, for one that waits;
\* a timeout means that the deadline has passed, a report that the worker gave one,
\* or that the tool ended by itself and not by a signal, of the server's or
\* another; and that the linter is not ready, that the worker failed, closed or
\* restarted.
HonestAnswer(r) ==
  /\ pc[r] = "done" => answer[r] # "none"
  /\ answer[r] = "abandoned" => gone[r]
  /\ answer[r] = "timeout" => late[r]
  /\ answer[r] = "report" /\ pc[r] # "done" =>
       IF java[r] THEN outcome[r] = "output" ELSE exit[r] = "status"
  /\ answer[r] = "unavailable" =>
       failed \/ closed \/ (java[r] /\ outcome[r] = "restarted")
HonestAnswers == \A r \in Requests : HonestAnswer(r)

\* Contract 9.1: the deadline "covers ... the tool run and parsing.  When it
\* passes, the request answers 504 timeout".
DeadlineCoversParsing ==
  [][\A r \in Requests : pc[r] = "parse" /\ late[r] /\ ~gone[r] /\ pc'[r] # "parse" =>
       verdict'[r] \notin {"report"}]_vars

\* Every request ends, whatever the tool and the JVM do, and the JVM is rid of
\* it in the end.
EveryRequestEnds == <>[](onJvm = {} /\ \A r \in Requests : ~InHandler(r))
=============================================================================
