--------------------------- MODULE DialStdioProofs ---------------------------
(***************************************************************************)
(* Proofs about DialStdio, for any number of chunks and any buffers.       *)
(***************************************************************************)
EXTENDS DialStdio, TLAPS

\* A half-close ends the copying of stdin, and what was copied by then was all.
HalfCloseInv ==
  halfClosed => copier = "ended" /\ stdin = "eof" /\ up.sent = up.given

\* A bridge without a connection has touched nothing.
DialInv == exit \in {"dialling", "connect"} => up.taken = 0 /\ down.sent = 0

\* What is known when the process has ended in order.
ExitInv ==
  /\ exit = "ok" => server # "open"
  /\ exit \in {"ok", "io"} /\ stdout = "open" => down.sent = down.given

IInv == TypeOK /\ HalfCloseInv /\ DialInv /\ ExitInv

\* Each of the four moves of a chunk keeps a direction in order.
LEMMA Moves ==
  ASSUME NEW d, Direction(d)
  PROVE  /\ d.given < Chunks => Direction([d EXCEPT !.given = @ + 1])
         /\ d.taken < d.given => Direction([d EXCEPT !.taken = @ + 1])
         /\ d.sent < d.taken => Direction([d EXCEPT !.sent = @ + 1])
         /\ d.got < d.sent => Direction([d EXCEPT !.got = @ + 1])
  BY BridgeAssumption DEF Direction, Counts

\* The invariant holds before the bridge dials.
LEMMA InitInv == Init => IInv
<1> SUFFICES ASSUME Init PROVE IInv
  OBVIOUS
<1>1. Direction(Nothing)
  BY BridgeAssumption DEF Nothing, Direction, Counts
<1>2. TypeOK
  BY <1>1 DEF Init, TypeOK
<1>3. HalfCloseInv /\ DialInv /\ ExitInv
  BY DEF Init, Nothing, HalfCloseInv, DialInv, ExitInv
<1> QED
  BY <1>2, <1>3 DEF IInv

\* Every step of the bridge, its caller and its server keeps the types.
LEMMA TypeStep ==
  ASSUME TypeOK, [Next]_vars
  PROVE  TypeOK'
<1> USE DEF vars, envVars, TypeOK, Codes
<1>1. CASE Dial \/ Terminated \/ UNCHANGED vars
  BY <1>1 DEF Dial, Terminated
<1>2. CASE CopyIn \/ CopyInEnds
  BY <1>2, Moves DEF CopyIn, CopyInEnds, Direction
<1>3. CASE CopyOut \/ CopyOutEnds
  BY <1>3, Moves DEF CopyOut, CopyOutEnds, Direction
<1>4. CASE CallerGives \/ CallerReads \/ CallerStopsReading
  BY <1>4, Moves DEF CallerGives, CallerReads, CallerStopsReading
<1>5. CASE ServerReads \/ ServerWrites
  BY <1>5, Moves DEF ServerReads, ServerWrites
<1>6. CASE ServerCloses
  <2>1. reset' \in BOOLEAN
    BY <1>6, Zenon DEF ServerCloses
  <2> QED
    BY <1>6, <2>1 DEF ServerCloses
<1> QED
  BY <1>1, <1>2, <1>3, <1>4, <1>5, <1>6 DEF Next, Bridge

\* And the invariant: only the end of a copy without an error half-closes, only
\* Run ends the process, and nothing moves in a process that has ended.
LEMMA StepInv ==
  ASSUME IInv, [Next]_vars
  PROVE  IInv'
<1> USE DEF IInv, vars, envVars, TypeOK, HalfCloseInv, DialInv, ExitInv, Direction, Counts
<1>0. TypeOK'
  BY TypeStep
<1>1. CASE Dial \/ Terminated \/ UNCHANGED vars
  BY <1>0, <1>1 DEF Dial, Terminated, Codes
<1>2. CASE CopyIn
  BY <1>0, <1>2 DEF CopyIn, Copying, Alive
<1>3. CASE CopyInEnds
  BY <1>0, <1>3 DEF CopyInEnds, Copying, Alive
<1>4. CASE CopyOut
  BY <1>0, <1>4 DEF CopyOut, Alive
<1>5. CASE CopyOutEnds
  BY <1>0, <1>5 DEF CopyOutEnds, Alive
<1>6. CASE CallerGives
  BY <1>0, <1>6 DEF CallerGives
<1>7. CASE CallerReads \/ CallerStopsReading
  BY <1>0, <1>7 DEF CallerReads, CallerStopsReading
<1>8. CASE ServerReads
  BY <1>0, <1>8 DEF ServerReads
<1>9. CASE ServerWrites \/ ServerCloses
  BY <1>0, <1>9 DEF ServerWrites, ServerCloses, Alive
<1> QED
  BY <1>1, <1>2, <1>3, <1>4, <1>5, <1>6, <1>7, <1>8, <1>9 DEF Next, Bridge

\* The invariant holds of every behaviour of the bridge.
THEOREM Invariance == Spec => []IInv
  BY InitInv, StepInv, PTL DEF Spec

\* The counts of both directions stay in order and within what was written.
THEOREM TypeCorrect == Spec => []TypeOK
<1>1. IInv => TypeOK
  BY DEF IInv
<1> QED
  BY Invariance, <1>1, PTL

\* Run's exit code and the goroutine's half-close say what became of the streams.
THEOREM WholeStreams == Spec => []StreamsAreWhole
<1>1. IInv => StreamsAreWhole
  BY DEF IInv, HalfCloseInv, DialInv, ExitInv, StreamsAreWhole
<1> QED
  BY Invariance, <1>1, PTL
=============================================================================
