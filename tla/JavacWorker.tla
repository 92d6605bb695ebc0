---------------------------- MODULE JavacWorker ----------------------------
(***************************************************************************)
(* internal/javacworker/worker.go: the supervisor of the resident javac    *)
(* JVM.  One supervisor goroutine launches, warms up and restarts the JVM; *)
(* one reader goroutine per JVM dispatches replies and reaps it; one       *)
(* writer goroutine per request line writes to its stdin; every Check is a *)
(* goroutine of its own, and Close may be called at any moment.            *)
(*                                                                         *)
(* A step is what one goroutine does between two points where another can  *)
(* be seen: a critical section of Worker.mu or process.mu, or one channel  *)
(* operation.  JVMs are numbered by Worker.gen.                            *)
(***************************************************************************)
EXTENDS Naturals, FiniteSets

CONSTANTS
  Requests,    \* the calls of Check, each one a goroutine
  Warm,        \* the warm-up request of the supervisor
  Threads,     \* Config.Threads
  Backoff,     \* len(Config.Backoff): the failed starts tolerated
  MaxFaults,   \* bound: JVMs that exit or write an invalid line by themselves
  MaxGen       \* bound: JVMs launched

ASSUME ThreadsAssumption == Threads \in Nat \ {0}
ASSUME RequestsAssumption == Warm \notin Requests
ASSUME BoundsAssumption == Backoff \in Nat /\ MaxFaults \in Nat /\ MaxGen \in Nat

VARIABLES
  closed, ready, failed,   \* Worker.closed, Worker.ready and Worker.failed closed
  current, starting,       \* Worker.current, Worker.starting; NoJvm is nil
  watching,                \* the Checks that hold the channel Worker.changed
  slots,                   \* the Checks that hold a token of Worker.sem
  inFlight,                \* Worker.inFlight
  sup, gen, failures,      \* the supervisor: where it is, Worker.gen, failures
  jvm,                     \* per JVM: running, killed or exited
  dead,                    \* per JVM: process.dead
  reader,                  \* per JVM: where its reader is
  pending,                 \* per JVM: the keys of process.pending
  writing,                 \* per JVM: the requests whose line is not written yet
  orphans,                 \* per JVM: the reader's local copy of pending
  chan,                    \* per request: its reply channel
  pc, at, ctx, late,       \* per Check: where it is, its JVM, ctx.Err(), deadline
  result,                  \* per Check: what it returns, from where that is settled
  faults                   \* how many of MaxFaults happened

workerVars == <<closed, ready, failed, current, starting>>
supVars    == <<sup, gen, failures>>
queueVars  == <<pending, writing, orphans>>
procVars   == <<jvm, dead, reader, queueVars>>
callVars   == <<pc, at, result, watching, slots, inFlight>>
ctxVars    == <<ctx, late>>
vars == <<workerVars, supVars, procVars, chan, callVars, ctxVars, faults>>

Gens  == 1 .. MaxGen
NoJvm == 0
Lines == Requests \cup {Warm}

CtxErrs  == {"none", "cancelled", "expired"}
Outcomes == {"output", "timeout", "cancelled", "restarted", "failed", "closed"}
SupStages == {"launch", "spawn", "register", "warmsend", "warming", "failing",
              "count", "backoff", "publish", "serving", "closing", "exited"}
CallStages == {"idle", "slot", "snapshot", "inspect", "blocked", "send", "sent",
               "wait", "settle", "poison", "finish", "reap", "untrack", "free", "returned"}
ReaderStages == {"none", "reading", "draining", "waited", "failing", "done"}
JvmStages    == {"none", "up", "killed", "exited"}

TypeOK ==
  /\ closed \in BOOLEAN /\ ready \in BOOLEAN /\ failed \in BOOLEAN
  /\ current \in Gens \cup {NoJvm} /\ starting \in Gens \cup {NoJvm}
  /\ watching \subseteq Requests /\ slots \subseteq Requests /\ inFlight \subseteq Requests
  /\ sup \in SupStages /\ gen \in 0 .. MaxGen /\ failures \in 0 .. Backoff + 1
  /\ jvm \in [Gens -> JvmStages] /\ dead \in [Gens -> BOOLEAN]
  /\ reader \in [Gens -> ReaderStages]
  /\ pending \in [Gens -> SUBSET Lines] /\ writing \in [Gens -> SUBSET Lines]
  /\ orphans \in [Gens -> SUBSET Lines]
  /\ chan \in [Lines -> {"empty", "answer", "bad", "restarted"}]
  /\ pc \in [Requests -> CallStages] /\ at \in [Requests -> Gens \cup {NoJvm}]
  /\ ctx \in [Requests -> CtxErrs] /\ late \in [Requests -> BOOLEAN]
  /\ result \in [Requests -> Outcomes \cup {"none"}]
  /\ faults \in 0 .. MaxFaults

Init ==
  /\ closed = FALSE /\ ready = FALSE /\ failed = FALSE
  /\ current = NoJvm /\ starting = NoJvm
  /\ watching = {} /\ slots = {} /\ inFlight = {}
  /\ sup = "launch" /\ gen = 0 /\ failures = 0
  /\ jvm = [g \in Gens |-> "none"] /\ dead = [g \in Gens |-> FALSE]
  /\ reader = [g \in Gens |-> "none"]
  /\ pending = [g \in Gens |-> {}] /\ writing = [g \in Gens |-> {}]
  /\ orphans = [g \in Gens |-> {}]
  /\ chan = [x \in Lines |-> "empty"]
  /\ pc = [r \in Requests |-> "idle"] /\ at = [r \in Requests |-> NoJvm]
  /\ ctx = [r \in Requests |-> "none"] /\ late = [r \in Requests |-> FALSE]
  /\ result = [r \in Requests |-> "none"]
  /\ faults = 0

(***************************************************************************)
(* One JVM: process.kill, the writer goroutines of process.send, the       *)
(* reader goroutine, and the JVM itself as the kernel sees it.             *)
(***************************************************************************)

Reaped(g) == reader[g] \in {"failing", "done"}

\* kill, of every JVM of G: no new requests, and SIGKILL to the group unless
\* the reader recorded the reaping.
Kill(G) ==
  /\ dead' = [g \in Gens |-> dead[g] \/ g \in G]
  /\ jvm' = [g \in Gens |-> IF g \in G /\ ~Reaped(g) /\ jvm[g] = "up"
                            THEN "killed" ELSE jvm[g]]

\* send, under process.mu and up to the start of the writer goroutine.
Enqueue(g, x) ==
  /\ pending' = [pending EXCEPT ![g] = @ \cup {x}]
  /\ writing' = [writing EXCEPT ![g] = @ \cup {x}]
  /\ UNCHANGED orphans

\* The JVM exits: by itself, or because it was killed.
Exit(g) ==
  /\ jvm[g] \in {"up", "killed"}
  /\ jvm[g] = "up" => faults < MaxFaults
  /\ faults' = IF jvm[g] = "up" THEN faults + 1 ELSE faults
  /\ jvm' = [jvm EXCEPT ![g] = "exited"]
  /\ UNCHANGED <<workerVars, supVars, dead, reader, queueVars, chan, callVars, ctxVars>>

\* The writer goroutine of request x gets its line into the pipe.
Write(g, x) ==
  /\ x \in writing[g] /\ jvm[g] \in {"up", "killed"}
  /\ writing' = [writing EXCEPT ![g] = @ \ {x}]
  /\ UNCHANGED <<workerVars, supVars, jvm, dead, reader, pending, orphans, chan,
                 callVars, ctxVars, faults>>

\* The pipe is broken: the writer goroutine kills the JVM.
WriteFails(g, x) ==
  /\ x \in writing[g] /\ jvm[g] # "up"
  /\ Kill({g})
  /\ writing' = [writing EXCEPT ![g] = @ \ {x}]
  /\ UNCHANGED <<workerVars, supVars, reader, pending, orphans, chan, callVars,
                 ctxVars, faults>>

\* The reader decodes the reply to x and hands it to the channel.  A request
\* of a Check is answered with a report or an error, both an Output; only
\* the supervisor tells a good warm-up reply from a bad one.
Reply(g, x) ==
  /\ reader[g] = "reading" /\ x \in pending[g] \ writing[g]
  /\ pending' = [pending EXCEPT ![g] = @ \ {x}]
  /\ \E r \in {"answer"} \cup IF x = Warm THEN {"bad"} ELSE {} :
       chan' = [chan EXCEPT ![x] = r]
  /\ UNCHANGED <<workerVars, supVars, jvm, dead, reader, writing, orphans, callVars,
                 ctxVars, faults>>

\* An invalid, oversized or truncated line: kill, then drain stdout.
Garbage(g) ==
  /\ reader[g] = "reading" /\ faults < MaxFaults
  /\ Kill({g})
  /\ reader' = [reader EXCEPT ![g] = "draining"]
  /\ faults' = faults + 1
  /\ UNCHANGED <<workerVars, supVars, queueVars, chan, callVars, ctxVars>>

\* stdout is at its end and cmd.Wait returns: the pid is free from here on.
Wait(g) ==
  /\ reader[g] \in {"reading", "draining"} /\ jvm[g] = "exited"
  /\ reader' = [reader EXCEPT ![g] = "waited"]
  /\ UNCHANGED <<workerVars, supVars, jvm, dead, queueVars, chan, callVars, ctxVars, faults>>

\* The reader takes process.mu: dead, reaped, and pending becomes its own.
Reap(g) ==
  /\ reader[g] = "waited"
  /\ reader' = [reader EXCEPT ![g] = "failing"]
  /\ dead' = [dead EXCEPT ![g] = TRUE]
  /\ orphans' = [orphans EXCEPT ![g] = pending[g]]
  /\ pending' = [pending EXCEPT ![g] = {}]
  /\ UNCHANGED <<workerVars, supVars, jvm, writing, chan, callVars, ctxVars, faults>>

\* ch <- result{err: ErrRestarted}
FailOrphan(g, x) ==
  /\ reader[g] = "failing" /\ x \in orphans[g]
  /\ orphans' = [orphans EXCEPT ![g] = @ \ {x}]
  /\ chan' = [chan EXCEPT ![x] = "restarted"]
  /\ UNCHANGED <<workerVars, supVars, jvm, dead, reader, pending, writing, callVars,
                 ctxVars, faults>>

\* Mutant: p.done is closed before the orphans have their replies.
CloseDoneFirst(g) ==
  /\ reader[g] = "failing"
  /\ reader' = [reader EXCEPT ![g] = "done"]
  /\ UNCHANGED <<workerVars, supVars, jvm, dead, queueVars, chan, callVars, ctxVars, faults>>

\* close(p.done)
CloseDone(g) ==
  /\ reader[g] = "failing" /\ orphans[g] = {}
  /\ reader' = [reader EXCEPT ![g] = "done"]
  /\ UNCHANGED <<workerVars, supVars, jvm, dead, queueVars, chan, callVars, ctxVars, faults>>

ReaderStep(g) == Wait(g) \/ Reap(g) \/ CloseDone(g) \/ \E x \in Lines : FailOrphan(g, x)

\* What a killed or broken JVM owes, whatever it was doing: it exits, writes to
\* it fail, and its reader cleans up.
Demise(g) ==
  \/ jvm[g] = "killed" /\ Exit(g)
  \/ \E x \in Lines : WriteFails(g, x)
  \/ ReaderStep(g)

ProcStep(g) ==
  \/ Exit(g) \/ Garbage(g) \/ ReaderStep(g)
  \/ \E x \in Lines : Write(g, x) \/ WriteFails(g, x) \/ Reply(g, x)

(***************************************************************************)
(* The supervisor goroutine: supervise and launch.  Its p is JVM gen.      *)
(***************************************************************************)

\* broadcastLocked closes Worker.changed: every Check that holds it wakes.
Broadcast == watching' = {}

\* launch, first critical section.
Launch ==
  /\ sup = "launch"
  /\ \/ closed /\ sup' = "exited" /\ UNCHANGED gen
     \/ ~closed /\ gen < MaxGen /\ sup' = "spawn" /\ gen' = gen + 1
  /\ UNCHANGED <<workerVars, failures, procVars, chan, callVars, ctxVars, faults>>

\* spawn: the JVM and its reader run, or there is no process at all.
Spawn ==
  /\ sup = "spawn"
  /\ \/ /\ sup' = "count" /\ UNCHANGED <<jvm, reader>>
     \/ /\ sup' = "register"
        /\ jvm' = [jvm EXCEPT ![gen] = "up"]
        /\ reader' = [reader EXCEPT ![gen] = "reading"]
  /\ UNCHANGED <<workerVars, gen, failures, dead, queueVars, chan, callVars, ctxVars, faults>>

\* Mutants: no second look at closed; closed without the kill; the JVM is shown
\* as current before its warm-up.
RegisterBlindly ==
  /\ sup = "register"
  /\ starting' = gen /\ sup' = "warmsend"
  /\ UNCHANGED <<closed, ready, failed, current, gen, failures, procVars, chan, callVars,
                 ctxVars, faults>>
RegisterNoKill ==
  /\ sup = "register"
  /\ \/ closed /\ sup' = "closing" /\ UNCHANGED starting
     \/ ~closed /\ starting' = gen /\ sup' = "warmsend"
  /\ UNCHANGED <<closed, ready, failed, current, gen, failures, procVars, chan, callVars,
                 ctxVars, faults>>
RegisterCold ==
  /\ sup = "register" /\ ~closed
  /\ starting' = gen /\ current' = gen /\ sup' = "warmsend"
  /\ UNCHANGED <<closed, ready, failed, gen, failures, procVars, chan, callVars, ctxVars,
                 faults>>

\* launch, second critical section: Close may have come during the spawn.
Register ==
  /\ sup = "register"
  /\ \/ closed /\ Kill({gen}) /\ sup' = "closing" /\ UNCHANGED starting
     \/ ~closed /\ starting' = gen /\ sup' = "warmsend" /\ UNCHANGED <<jvm, dead>>
  /\ UNCHANGED <<closed, ready, failed, current, gen, failures, reader, queueVars,
                 chan, callVars, ctxVars, faults>>

\* p.send(cfg.Warmup)
SendWarmup ==
  /\ sup = "warmsend"
  /\ \/ /\ dead[gen] /\ Kill({gen}) /\ sup' = "failing"
        /\ UNCHANGED <<queueVars, chan>>
     \/ /\ ~dead[gen] /\ Enqueue(gen, Warm) /\ sup' = "warming"
        /\ chan' = [chan EXCEPT ![Warm] = "empty"]
        /\ UNCHANGED <<jvm, dead>>
  /\ UNCHANGED <<workerVars, gen, failures, reader, callVars, ctxVars, faults>>

\* The select of launch: a good reply ends it, anything else is a failed
\* start, and WarmupTimeout may pass at any moment.
WarmedUp ==
  /\ sup = "warming" /\ chan[Warm] = "answer" /\ sup' = "publish"
  /\ UNCHANGED <<workerVars, gen, failures, procVars, chan, callVars, ctxVars, faults>>
\* Mutant: no WarmupTimeout.
WarmupFailsOnReply ==
  /\ sup = "warming" /\ chan[Warm] \in {"bad", "restarted"} /\ Kill({gen}) /\ sup' = "failing"
  /\ UNCHANGED <<workerVars, gen, failures, reader, queueVars, chan, callVars,
                 ctxVars, faults>>
WarmupFails ==
  /\ sup = "warming" /\ Kill({gen}) /\ sup' = "failing"
  /\ UNCHANGED <<workerVars, gen, failures, reader, queueVars, chan, callVars,
                 ctxVars, faults>>

\* fail, once p.done is closed.
Failed ==
  /\ sup = "failing" /\ reader[gen] = "done"
  /\ starting' = NoJvm
  /\ sup' = IF closed THEN "exited" ELSE "count"
  /\ UNCHANGED <<closed, ready, failed, current, gen, failures, procVars, chan,
                 callVars, ctxVars, faults>>

\* Mutant: one tolerated failure too many.
CountFailureLate ==
  /\ sup = "count"
  /\ failures' = failures + 1
  /\ \/ /\ failures > Backoff
        /\ failed' = TRUE /\ Broadcast /\ sup' = "exited"
     \/ /\ failures <= Backoff
        /\ sup' = "backoff" /\ UNCHANGED <<failed, watching>>
  /\ UNCHANGED <<closed, ready, current, starting, gen, procVars, chan, pc, at, result,
                 slots, inFlight, ctxVars, faults>>

\* One failed start more than Backoff has pauses for is the end.
CountFailure ==
  /\ sup = "count"
  /\ failures' = failures + 1
  /\ \/ /\ failures' > Backoff
        /\ failed' = TRUE /\ Broadcast /\ sup' = "exited"
     \/ /\ failures' <= Backoff
        /\ sup' = "backoff" /\ UNCHANGED <<failed, watching>>
  /\ UNCHANGED <<closed, ready, current, starting, gen, procVars, chan, pc, at, result,
                 slots, inFlight, ctxVars, faults>>

\* The pause ends, or quit is closed; the select takes either.
Pause ==
  /\ sup = "backoff"
  /\ sup' \in {"launch"} \cup IF closed THEN {"exited"} ELSE {}
  /\ UNCHANGED <<workerVars, gen, failures, procVars, chan, callVars, ctxVars, faults>>

\* Mutant: no broadcast when the JVM is ready.
PublishSilently ==
  /\ sup = "publish"
  /\ failures' = 0 /\ starting' = NoJvm
  /\ \/ /\ closed /\ Kill({gen}) /\ sup' = "closing" /\ UNCHANGED <<current, ready>>
     \/ /\ ~closed /\ current' = gen /\ ready' = TRUE
        /\ sup' = "serving" /\ UNCHANGED <<jvm, dead>>
  /\ UNCHANGED <<closed, failed, gen, reader, queueVars, chan, callVars, ctxVars, faults>>

\* A warmed-up JVM becomes current, unless Close came first.
Publish ==
  /\ sup = "publish"
  /\ failures' = 0 /\ starting' = NoJvm
  /\ \/ /\ closed /\ Kill({gen}) /\ sup' = "closing"
        /\ UNCHANGED <<current, ready, watching>>
     \/ /\ ~closed /\ current' = gen /\ ready' = TRUE /\ Broadcast
        /\ sup' = "serving" /\ UNCHANGED <<jvm, dead>>
  /\ UNCHANGED <<closed, failed, gen, reader, queueVars, chan, pc, at, result, slots,
                 inFlight, ctxVars, faults>>

\* Mutant: restart as soon as the JVM is killed.
RestartEarly ==
  /\ sup = "serving" /\ dead[gen]
  /\ current' = NoJvm /\ Broadcast
  /\ sup' = IF closed THEN "exited" ELSE "launch"
  /\ UNCHANGED <<closed, ready, failed, starting, gen, failures, procVars, chan, pc, at,
                 result, slots, inFlight, ctxVars, faults>>

\* <-p.done of the serving JVM: restart it, or stop if closed.
Restart ==
  /\ sup = "serving" /\ reader[gen] = "done"
  /\ current' = NoJvm /\ Broadcast
  /\ sup' = IF closed THEN "exited" ELSE "launch"
  /\ UNCHANGED <<closed, ready, failed, starting, gen, failures, procVars, chan, pc, at,
                 result, slots, inFlight, ctxVars, faults>>

\* <-p.done of a JVM that Close overtook.
Closing ==
  /\ sup = "closing" /\ reader[gen] = "done" /\ sup' = "exited"
  /\ UNCHANGED <<workerVars, gen, failures, procVars, chan, callVars, ctxVars, faults>>

SupStep ==
  \/ Launch \/ Spawn \/ Register \/ SendWarmup \/ WarmedUp \/ WarmupFails \/ Failed
  \/ CountFailure \/ Pause \/ Publish \/ Restart \/ Closing

\* Close, up to its wait for the supervisor.
Close ==
  /\ ~closed /\ closed' = TRUE
  /\ Kill({current, starting})
  /\ UNCHANGED <<ready, failed, current, starting, supVars, reader, queueVars, chan,
                 callVars, ctxVars, faults>>

(***************************************************************************)
(* Check, one goroutine per request, and finish, which outlives its call.  *)
(***************************************************************************)

Go(r, stage) == pc' = [pc EXCEPT ![r] = stage]

\* What Check returns is settled; untrack and the release of its slot may be left.
Return(r, outcome, stage) ==
  /\ Go(r, stage) /\ result' = [result EXCEPT ![r] = outcome]
  /\ watching' = watching \ {r} /\ UNCHANGED <<slots, inFlight>>

CtxErr(r) == IF ctx[r] = "expired" THEN "timeout" ELSE ctx[r]

\* The caller's context: cancelled when it went away, expired at its deadline.
Cancel(r) ==
  /\ pc[r] # "idle" /\ result[r] = "none" /\ ctx[r] = "none"
  /\ ctx' = [ctx EXCEPT ![r] = "cancelled"]
  /\ UNCHANGED <<workerVars, supVars, procVars, chan, callVars, late, faults>>
Expire(r) ==
  /\ pc[r] # "idle" /\ result[r] = "none" /\ ~late[r]
  /\ late' = [late EXCEPT ![r] = TRUE]
  /\ ctx' = [ctx EXCEPT ![r] = IF @ = "none" THEN "expired" ELSE @]
  /\ UNCHANGED <<workerVars, supVars, procVars, chan, callVars, faults>>

Call(r) ==
  /\ pc[r] = "idle" /\ Go(r, "slot")
  /\ UNCHANGED <<workerVars, supVars, procVars, chan, at, result, watching, slots,
                 inFlight, ctxVars, faults>>

\* The select on the slot, the context and quit.
Acquire(r) ==
  /\ pc[r] = "slot"
  /\ \/ /\ Cardinality(slots) < Threads
        /\ slots' = slots \cup {r} /\ Go(r, "snapshot")
        /\ UNCHANGED <<result, watching, inFlight>>
     \/ ctx[r] # "none" /\ Return(r, CtxErr(r), "returned")
     \/ closed /\ Return(r, "closed", "returned")
  /\ UNCHANGED <<workerVars, supVars, procVars, chan, at, ctxVars, faults>>

\* await, its critical section: current and changed are read together.
Snapshot(r) ==
  /\ pc[r] = "snapshot"
  /\ \/ closed /\ Return(r, "closed", "free") /\ UNCHANGED at
     \/ ~closed /\ failed /\ Return(r, "failed", "free") /\ UNCHANGED at
     \/ /\ ~closed /\ ~failed
        /\ at' = [at EXCEPT ![r] = current]
        /\ watching' = watching \cup {r}
        /\ Go(r, IF current = NoJvm THEN "blocked" ELSE "inspect")
        /\ UNCHANGED <<result, slots, inFlight>>
  /\ UNCHANGED <<workerVars, supVars, procVars, chan, ctxVars, faults>>

\* await, p.isDead(), then Check's own look at the context.
Inspect(r) ==
  /\ pc[r] = "inspect"
  /\ \/ /\ dead[at[r]] /\ Go(r, "blocked") /\ UNCHANGED <<result, watching, slots, inFlight>>
     \/ ~dead[at[r]] /\ ctx[r] # "none" /\ Return(r, CtxErr(r), "free")
     \/ /\ ~dead[at[r]] /\ ctx[r] = "none" /\ Go(r, "send")
        /\ watching' = watching \ {r} /\ UNCHANGED <<result, slots, inFlight>>
  /\ UNCHANGED <<workerVars, supVars, procVars, chan, at, ctxVars, faults>>

\* await, the select on changed and the context.
Await(r) ==
  /\ pc[r] = "blocked"
  /\ \/ /\ r \notin watching /\ Go(r, "snapshot")
        /\ UNCHANGED <<result, watching, slots, inFlight>>
     \/ ctx[r] # "none" /\ Return(r, CtxErr(r), "free")
  /\ UNCHANGED <<workerVars, supVars, procVars, chan, at, ctxVars, faults>>

\* p.send: the JVM may have died since await looked.
Send(r) ==
  /\ pc[r] = "send"
  /\ \/ dead[at[r]] /\ Go(r, "snapshot") /\ UNCHANGED queueVars
     \/ ~dead[at[r]] /\ Go(r, "sent") /\ Enqueue(at[r], r)
  /\ UNCHANGED <<workerVars, supVars, jvm, dead, reader, chan, at, result, watching,
                 slots, inFlight, ctxVars, faults>>

Track(r) ==
  /\ pc[r] = "sent" /\ Go(r, "wait") /\ inFlight' = inFlight \cup {r}
  /\ UNCHANGED <<workerVars, supVars, procVars, chan, at, result, watching, slots,
                 ctxVars, faults>>

\* Mutant: a call that waits for its reply also watches quit.
ReceiveOrQuit(r) ==
  /\ pc[r] = "wait"
  /\ \/ chan[r] # "empty" /\ Go(r, "settle") /\ UNCHANGED <<result, watching, slots, inFlight>>
     \/ closed /\ Return(r, "closed", "untrack")
  /\ UNCHANGED <<workerVars, supVars, procVars, chan, at, ctxVars, faults>>

\* wait (and poison's first look): a reply there wins over any timer.
Receive(r) ==
  /\ pc[r] = "wait" /\ chan[r] # "empty" /\ Go(r, "settle")
  /\ UNCHANGED <<workerVars, supVars, procVars, chan, at, result, watching, slots,
                 inFlight, ctxVars, faults>>

\* Mutant: a call answered at its deadline counts as settled.
PassDeadlineSettled(r) ==
  /\ pc[r] = "wait" /\ late[r] /\ chan[r] = "empty" /\ Return(r, "timeout", "untrack")
  /\ UNCHANGED <<workerVars, supVars, procVars, chan, at, ctxVars, faults>>

\* wait, deadline first: the call is answered, finish keeps slot and budget.
PassDeadline(r) ==
  /\ pc[r] = "wait" /\ late[r] /\ chan[r] = "empty"
  /\ Go(r, "finish") /\ result' = [result EXCEPT ![r] = "timeout"]
  /\ UNCHANGED <<workerVars, supVars, procVars, chan, at, watching, slots, inFlight,
                 ctxVars, faults>>

\* Mutants: finish has no budget; poison does not kill.
PoisonInWait(r) ==
  /\ pc[r] = "wait" /\ chan[r] = "empty"
  /\ Kill({at[r]}) /\ Go(r, "poison")
  /\ UNCHANGED <<workerVars, supVars, reader, queueVars, chan, at, result, watching,
                 slots, inFlight, ctxVars, faults>>
PoisonNoKill(r) ==
  /\ pc[r] \in {"wait", "finish"} /\ chan[r] = "empty"
  /\ Go(r, IF pc[r] = "wait" THEN "poison" ELSE "reap")
  /\ UNCHANGED <<workerVars, supVars, procVars, chan, at, result, watching, slots,
                 inFlight, ctxVars, faults>>

\* poison: no reply within RunBudget of the send, in wait or in finish.
Poison(r) ==
  /\ pc[r] \in {"wait", "finish"} /\ chan[r] = "empty"
  /\ Kill({at[r]})
  /\ Go(r, IF pc[r] = "wait" THEN "poison" ELSE "reap")
  /\ UNCHANGED <<workerVars, supVars, reader, queueVars, chan, at, result, watching,
                 slots, inFlight, ctxVars, faults>>

\* Mutant: the answer does not wait for the JVM to be reaped.
PoisonedEarly(r) ==
  /\ pc[r] = "poison" /\ Return(r, "timeout", "untrack")
  /\ UNCHANGED <<workerVars, supVars, procVars, chan, at, ctxVars, faults>>

\* poison returns: <-p.done.
Poisoned(r) ==
  /\ pc[r] = "poison" /\ reader[at[r]] = "done" /\ Return(r, "timeout", "untrack")
  /\ UNCHANGED <<workerVars, supVars, procVars, chan, at, ctxVars, faults>>

\* Mutant: output does not look at Worker.closed.
SettleUnlooked(r) ==
  /\ pc[r] = "settle"
  /\ Return(r, IF chan[r] = "answer" THEN "output" ELSE "restarted", "untrack")
  /\ UNCHANGED <<workerVars, supVars, procVars, chan, at, ctxVars, faults>>

\* output: an ErrRestarted after Close reads ErrClosed.
Settle(r) ==
  /\ pc[r] = "settle"
  /\ Return(r, IF chan[r] = "answer" THEN "output"
               ELSE IF closed THEN "closed" ELSE "restarted", "untrack")
  /\ UNCHANGED <<workerVars, supVars, procVars, chan, at, ctxVars, faults>>

\* The select of finish: the reply is discarded, or the poisoned JVM is reaped.
Finish(r) ==
  /\ \/ pc[r] = "finish" /\ chan[r] # "empty"
     \/ pc[r] = "reap" /\ reader[at[r]] = "done"
  /\ Go(r, "untrack")
  /\ UNCHANGED <<workerVars, supVars, procVars, chan, at, result, watching, slots, inFlight,
                 ctxVars, faults>>

\* Mutant: the slot is freed before the request is untracked.
FreeFirst(r) ==
  /\ pc[r] = "untrack" /\ Go(r, "free") /\ slots' = slots \ {r}
  /\ UNCHANGED <<workerVars, supVars, procVars, chan, at, result, watching, inFlight, ctxVars,
                 faults>>

\* untrack, in Check and in finish.
Untrack(r) ==
  /\ pc[r] = "untrack" /\ Go(r, "free") /\ inFlight' = inFlight \ {r}
  /\ UNCHANGED <<workerVars, supVars, procVars, chan, at, result, watching, slots, ctxVars,
                 faults>>

\* <-w.sem, deferred in both.
Free(r) ==
  /\ pc[r] = "free" /\ Go(r, "returned") /\ slots' = slots \ {r}
  /\ UNCHANGED <<workerVars, supVars, procVars, chan, at, result, watching, inFlight, ctxVars,
                 faults>>

\* What a call does by itself, its run budget included.
CallStep(r) ==
  \/ Acquire(r) \/ Snapshot(r) \/ Inspect(r) \/ Await(r) \/ Send(r) \/ Track(r)
  \/ Receive(r) \/ PassDeadline(r) \/ Poison(r) \/ Poisoned(r) \/ Settle(r) \/ Finish(r)
  \/ Untrack(r) \/ Free(r)

\* Every goroutine has ended; anything less that stops is a deadlock.
Terminated ==
  /\ closed /\ sup = "exited"
  /\ \A r \in Requests : pc[r] = "returned"
  /\ \A g \in Gens : writing[g] = {} /\ reader[g] \in {"none", "done"}
  /\ UNCHANGED vars

Next ==
  \/ SupStep \/ Close \/ Terminated
  \/ \E g \in Gens : ProcStep(g)
  \/ \E r \in Requests : Call(r) \/ Cancel(r) \/ Expire(r) \/ CallStep(r)

\* What the Go scheduler, the kernel and the timers owe: every goroutine that
\* can step does, a killed JVM exits, a write to a broken pipe fails, and the
\* warm-up timeout, the run budgets and the deadlines pass.  Nothing obliges a
\* JVM to read, to reply or to exit, a caller to go away, or Close to be called.
Fairness ==
  /\ WF_vars(SupStep)
  /\ \A g \in Gens : WF_vars(Demise(g))
  /\ \A r \in Requests : WF_vars(CallStep(r)) /\ WF_vars(Expire(r))

Spec     == Init /\ [][Next]_vars
FairSpec == Spec /\ Fairness

(***************************************************************************)
(* Properties.                                                             *)
(***************************************************************************)

Running(g) == reader[g] \notin {"none", "done"}

\* A JVM is started only when the one before it is reaped and has answered
\* everyone: two JVMs never hold their heaps at once (supervise waits for
\* p.done on each of its paths, also those that Close overtakes).
OneJvm == \A g, h \in Gens : Running(g) /\ Running(h) => g = h

\* Whatever a JVM still works on, or died with, is covered by a thread slot,
\* also when the caller was answered at its deadline: the JVM never has more
\* requests than compiler threads (Config.Threads, finish).
SlotCoversJvm ==
  /\ Cardinality(slots) <= Threads
  /\ \A g \in Gens : (pending[g] \cup orphans[g]) \ {Warm} \subseteq slots

\* p.done is closed only after every request the JVM owed has its reply, so
\* whoever waits for the reply of a JVM that is gone finds one (read).
DoneMeansAnswered ==
  \A r \in Requests :
    pc[r] \in {"sent", "wait", "finish"} /\ reader[at[r]] = "done" => chan[r] # "empty"

\* No lost wake-up: a Check that sleeps on Worker.changed has nothing to wake
\* for; neither a JVM that serves nor the terminal failure is behind it.
NoLostWakeup ==
  \A r \in Requests : pc[r] = "blocked" /\ r \in watching =>
    ~failed /\ (current = NoJvm \/ dead[current])

\* No request reaches a JVM before its warm-up was answered, not even through
\* a current read before a restart.
WarmBeforeRequests ==
  \A g \in Gens : pending[g] \cap Requests # {} => Warm \notin pending[g]

\* Close kills what Worker shows and the supervisor what it does not show yet,
\* so no JVM started before or during Close survives it, and the supervisor
\* (which Close waits for) leaves none behind, nor does a terminal failure.
CloseLeavesNoJvm ==
  /\ closed /\ current # NoJvm => dead[current]
  /\ closed /\ starting # NoJvm => dead[starting]
  /\ sup = "exited" => current = NoJvm /\ starting = NoJvm /\ \A g \in Gens : ~Running(g)

\* ErrTimeout is answered at the caller's deadline, or else after the JVM that
\* overran its budget is dead and reaped; ErrRestarted and ErrClosed mean that the
\* JVM the request was sent to, if any, is dead and will not answer it, and
\* ErrClosed that Close was called (the comments on the errors).
TrueOutcomes ==
  \A r \in Requests :
    LET Gone == dead[at[r]] /\ r \notin pending[at[r]]
    IN  /\ result[r] = "timeout" => late[r] \/ (at[r] # NoJvm /\ reader[at[r]] = "done")
        /\ result[r] = "restarted" => at[r] # NoJvm /\ Gone
        /\ result[r] = "closed" => closed /\ (at[r] = NoJvm \/ Gone)
        /\ result[r] = "output" => chan[r] = "answer"

\* LongestInFlight, and with it the liveness probe, sees every request that the
\* JVM works on, also when its caller was answered long ago (only a Check between
\* send and track is not seen yet), and no request without a thread slot.
InFlightHoldsSlot ==
  /\ inFlight \subseteq slots
  /\ \A r \in Requests, g \in Gens :
       r \in pending[g] \cup orphans[g] /\ pc[r] # "sent" => r \in inFlight

\* What a caller sees of the worker: where each call is, and what the JVM has.
CallOf(r) ==
  CASE pc[r] = "idle" -> "idle"
    [] result[r] # "none" -> "returned"
    [] pc[r] \in {"sent", "wait", "settle", "poison"} -> "running"
    [] OTHER -> "waiting"
OnJvm == {r \in Requests : pc[r] \in {"sent", "wait", "settle", "poison", "finish", "reap"}}

Promise == INSTANCE Checker WITH
  call <- [r \in Requests |-> CallOf(r)], outcome <- result, onJvm <- OnJvm

\* The worker implements Checker: at most Threads requests on the JVM, a call
\* ends only as its errors say, cancellation ends none that runs, and a request
\* answered at its deadline stays on the JVM (package documentation).
ImplementsChecker == Promise!Spec

\* And it keeps what Checker promises in the end: calls return, and requests
\* answered at their deadline leave the JVM.
KeepsCheckersPromise == Promise!FairSpec

\* Every Check returns, whatever the JVM does and whenever Close comes (a
\* request is one call, so in the end all are answered or were never made); a
\* slot that finish holds for a caller answered long ago comes back, and the
\* request leaves inFlight.
EveryCheckReturns ==
  <>[](/\ \A r \in Requests : pc[r] \in {"idle", "returned"}
       /\ slots = {} /\ inFlight = {})

\* The supervisor never gets stuck: wherever Close meets it, it ends and Close
\* returns, and until then a JVM that is gone is replaced, or the worker says
\* that it failed.
SupervisorGetsOn ==
  (closed ~> sup = "exited") /\ []<>(sup = "serving" \/ failed \/ closed)
=============================================================================
