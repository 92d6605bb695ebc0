------------------------------ MODULE Checker ------------------------------
(***************************************************************************)
(* What the resident javac worker promises the server: the interface       *)
(* Checker of internal/serve/server.go, with the outcomes that the package *)
(* documentation and the errors of internal/javacworker/worker.go give to  *)
(* Check.  No JVM, supervisor or lock is seen here.  JavacWorker implements*)
(* this module, LintServer uses it.                                        *)
(***************************************************************************)
EXTENDS Naturals, FiniteSets

CONSTANTS
  Requests,    \* the calls of Check
  Threads      \* the requests that the JVM works on at a time

VARIABLES
  call,        \* per request: idle, waiting, running on the JVM, or returned
  outcome,     \* per request: what Check returned
  onJvm,       \* the requests on the JVM, also those already answered
  ctx, late,   \* per request: ctx.Err(), and whether the deadline has passed
  failed, closed   \* terminal failure, Close

checkerVars == <<call, outcome, onJvm, ctx, late, failed, closed>>

Init ==
  /\ call = [r \in Requests |-> "idle"] /\ outcome = [r \in Requests |-> "none"]
  /\ onJvm = {}
  /\ ctx = [r \in Requests |-> "none"] /\ late = [r \in Requests |-> FALSE]
  /\ failed = FALSE /\ closed = FALSE

Becomes(r, c) == call' = [call EXCEPT ![r] = c]
Returns(r, o) == Becomes(r, "returned") /\ outcome' = [outcome EXCEPT ![r] = o]

Ask(r) ==
  /\ call[r] = "idle" /\ Becomes(r, "waiting")
  /\ UNCHANGED <<outcome, onJvm, ctx, late, failed, closed>>

\* Before the send: the context, Close and the terminal failure end the call.
Refuse(r) ==
  /\ call[r] = "waiting"
  /\ \/ ctx[r] = "expired" /\ Returns(r, "timeout")
     \/ ctx[r] = "cancelled" /\ Returns(r, "cancelled")
     \/ closed /\ Returns(r, "closed")
     \/ failed /\ Returns(r, "failed")
  /\ UNCHANGED <<onJvm, ctx, late, failed, closed>>

\* A thread is free and the JVM serves.
Run(r) ==
  /\ call[r] = "waiting" /\ Cardinality(onJvm) < Threads
  /\ Becomes(r, "running") /\ onJvm' = onJvm \cup {r}
  /\ UNCHANGED <<outcome, ctx, late, failed, closed>>

\* A report or an error reply; the deadline may pass while it arrives, and a
\* cancelled context alone ends nothing.
Answer(r) ==
  /\ call[r] = "running" /\ Returns(r, "output") /\ onJvm' = onJvm \ {r}
  /\ UNCHANGED <<ctx, late, failed, closed>>

\* The JVM is gone: ErrRestarted, or ErrClosed after Close.
Lose(r) ==
  /\ call[r] = "running" /\ Returns(r, IF closed THEN "closed" ELSE "restarted")
  /\ onJvm' = onJvm \ {r}
  /\ UNCHANGED <<ctx, late, failed, closed>>

\* The deadline: the call is answered, the JVM goes on.
PassDeadline(r) ==
  /\ call[r] = "running" /\ late[r] /\ Returns(r, "timeout")
  /\ UNCHANGED <<onJvm, ctx, late, failed, closed>>

\* The run budget: the JVM is killed and reaped, then the call is answered.
Overrun(r) ==
  /\ call[r] = "running" /\ Returns(r, "timeout") /\ onJvm' = onJvm \ {r}
  /\ UNCHANGED <<ctx, late, failed, closed>>

\* A request that was answered at its deadline leaves the JVM.
Leave(r) ==
  /\ call[r] = "returned" /\ r \in onJvm /\ onJvm' = onJvm \ {r}
  /\ UNCHANGED <<call, outcome, ctx, late, failed, closed>>

Cancel(r) ==
  /\ ctx[r] = "none" /\ ctx' = [ctx EXCEPT ![r] = "cancelled"]
  /\ UNCHANGED <<call, outcome, onJvm, late, failed, closed>>
Expire(r) ==
  /\ ~late[r] /\ late' = [late EXCEPT ![r] = TRUE]
  /\ ctx' = [ctx EXCEPT ![r] = IF @ = "none" THEN "expired" ELSE @]
  /\ UNCHANGED <<call, outcome, onJvm, failed, closed>>

\* Three starts in a row failed; Close.
Fail ==
  /\ ~failed /\ failed' = TRUE
  /\ UNCHANGED <<call, outcome, onJvm, ctx, late, closed>>
Close ==
  /\ ~closed /\ closed' = TRUE
  /\ UNCHANGED <<call, outcome, onJvm, ctx, late, failed>>

\* What the worker does for request r on its own, and what it may not put off
\* for ever: a call that runs or whose context ended returns, and whatever was
\* answered at its deadline leaves the JVM.
Return(r) == Refuse(r) \/ Answer(r) \/ Lose(r) \/ PassDeadline(r) \/ Overrun(r)

Next ==
  \/ Fail \/ Close
  \/ \E r \in Requests :
       Ask(r) \/ Run(r) \/ Return(r) \/ Leave(r) \/ Cancel(r) \/ Expire(r)

Spec == Init /\ [][Next]_checkerVars
FairSpec ==
  Spec /\ \A r \in Requests : WF_checkerVars(Return(r)) /\ WF_checkerVars(Leave(r))
=============================================================================
