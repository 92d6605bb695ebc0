----------------------------- MODULE DialStdio -----------------------------
(***************************************************************************)
(* cobe-lint dial-stdio (internal/dialstdio): Run dials the socket, one    *)
(* goroutine copies stdin to it and half-closes it, Run itself copies the  *)
(* socket to stdout and returns at the socket's end.  A direction is four  *)
(* counts of chunks: written by its source, read by the bridge, written by *)
(* the bridge, read by its sink.  The caller, the server and the kernel's  *)
(* buffers are the environment.                                            *)
(***************************************************************************)
EXTENDS Naturals

CONSTANTS
  Chunks,   \* bound: what the caller and the server write
  Cap       \* bound: what a pipe or a socket holds of one direction

ASSUME BridgeAssumption == Chunks \in Nat /\ Cap \in Nat \ {0}

VARIABLES
  up, down,   \* the counts of the two directions
  stdin,      \* the caller's end of stdin
  stdout,     \* whether the caller's end of stdout is open
  server,     \* the server's end of the connection; "fin" after its CloseWrite
  reset,      \* the server closed with input unread
  copier,     \* the goroutine that copies stdin
  halfClosed, \* uc.CloseWrite()
  exit        \* "dialling", "running", or how the process ended

envVars == <<stdin, stdout, server, reset>>
vars == <<up, down, envVars, copier, halfClosed, exit>>

Codes == {"ok", "connect", "io", "sigpipe"}   \* 0, 1, 3 and the signal
Counts == [given : 0 .. Chunks, taken : 0 .. Chunks, sent : 0 .. Chunks, got : 0 .. Chunks]

Nothing == [given |-> 0, taken |-> 0, sent |-> 0, got |-> 0]

\* Counts of a direction, in the order in which its chunks travel.
Direction(d) == d \in Counts /\ d.got <= d.sent /\ d.sent <= d.taken /\ d.taken <= d.given

TypeOK ==
  /\ Direction(up) /\ Direction(down)
  /\ stdin \in {"open", "eof", "error"} /\ stdout \in {"open", "closed"}
  /\ server \in {"open", "fin", "closed"} /\ reset \in BOOLEAN
  /\ copier \in {"copying", "ended"} /\ halfClosed \in BOOLEAN
  /\ exit \in {"dialling", "running"} \cup Codes

Init ==
  /\ up = Nothing /\ down = Nothing
  /\ stdin = "open" /\ stdout = "open" /\ server = "open" /\ reset = FALSE
  /\ copier = "copying" /\ halfClosed = FALSE /\ exit = "dialling"

Alive == exit = "running"
Over == exit \in Codes

Dial ==
  /\ exit = "dialling" /\ \E e \in {"running", "connect"} : exit' = e
  /\ UNCHANGED <<up, down, envVars, copier, halfClosed>>

(***************************************************************************)
(* The goroutine: io.Copy(uc, stdin), then CloseWrite.                     *)
(***************************************************************************)
Copying == Alive /\ copier = "copying"

\* Mutant: a write is repeated.
CopyInTwice ==
  /\ Copying
  /\ \/ up.taken <= up.sent /\ up.taken < up.given /\ up' = [up EXCEPT !.taken = @ + 1]
     \/ up.taken > 0 /\ server # "closed" /\ up.sent - up.got < Cap
        /\ up' = [up EXCEPT !.sent = @ + 1]
  /\ UNCHANGED <<down, envVars, copier, halfClosed, exit>>

CopyIn ==
  /\ Copying
  /\ \/ up.taken = up.sent /\ up.taken < up.given /\ up' = [up EXCEPT !.taken = @ + 1]
     \/ up.taken > up.sent /\ server # "closed" /\ up.sent - up.got < Cap
        /\ up' = [up EXCEPT !.sent = @ + 1]
  /\ UNCHANGED <<down, envVars, copier, halfClosed, exit>>

\* Mutants: any end half-closes; none does.
CopyInEndsBy(half) ==
  /\ Copying /\ copier' = "ended" /\ up.sent = up.given /\ stdin # "open"
  /\ halfClosed' = half /\ UNCHANGED <<up, down, envVars, exit>>
EveryEndHalfCloses == CopyInEndsBy(TRUE)
NoEndHalfCloses == CopyInEndsBy(FALSE)

\* Only a copy without an error half-closes; the error goes nowhere.
CopyInEnds ==
  /\ Copying /\ copier' = "ended"
  /\ \/ up.taken > up.sent /\ server = "closed" /\ UNCHANGED halfClosed
     \/ up.sent = up.given /\ stdin # "open" /\ halfClosed' = (stdin = "eof")
  /\ UNCHANGED <<up, down, envVars, exit>>

(***************************************************************************)
(* Run: io.Copy(stdout, uc), then the exit code.                           *)
(***************************************************************************)
CopyOut ==
  /\ Alive
  /\ \/ down.taken = down.sent /\ down.taken < down.given
        /\ down' = [down EXCEPT !.taken = @ + 1]
     \/ down.taken > down.sent /\ stdout = "open" /\ down.sent - down.got < Cap
        /\ down' = [down EXCEPT !.sent = @ + 1]
  /\ UNCHANGED <<up, envVars, copier, halfClosed, exit>>

\* Mutant: Run waits for both directions.
CopyOutEndsLast ==
  /\ Alive
  /\ \/ down.taken > down.sent /\ stdout = "closed"
     \/ copier = "ended" /\ down.sent = down.given /\ server # "open"
  /\ exit' = IF down.taken > down.sent \/ reset THEN "io" ELSE "ok"
  /\ UNCHANGED <<up, down, envVars, copier, halfClosed>>

\* A failed write to a broken standard output ends a Go process by SIGPIPE when
\* it is a pipe; a reset connection reads as an error once it is drained.
CopyOutEnds ==
  /\ Alive
  /\ \/ down.taken > down.sent /\ stdout = "closed" /\ exit' \in {"io", "sigpipe"}
     \/ /\ down.sent = down.given /\ server # "open"
        /\ exit' = IF reset THEN "io" ELSE "ok"
  /\ UNCHANGED <<up, down, envVars, copier, halfClosed>>

(***************************************************************************)
(* The caller and the server.                                              *)
(***************************************************************************)
CallerGives ==
  /\ stdin = "open"
  /\ \/ up.given < Chunks /\ up.given - up.taken < Cap
        /\ up' = [up EXCEPT !.given = @ + 1] /\ UNCHANGED stdin
     \/ stdin' \in {"eof", "error"} /\ UNCHANGED up
  /\ UNCHANGED <<down, stdout, server, reset, copier, halfClosed, exit>>
CallerReads ==
  /\ stdout = "open" /\ down.got < down.sent /\ down' = [down EXCEPT !.got = @ + 1]
  /\ UNCHANGED <<up, envVars, copier, halfClosed, exit>>
CallerStopsReading ==
  /\ stdout = "open" /\ stdout' = "closed"
  /\ UNCHANGED <<up, down, stdin, server, reset, copier, halfClosed, exit>>

ServerReads ==
  /\ server # "closed" /\ up.got < up.sent /\ up' = [up EXCEPT !.got = @ + 1]
  /\ UNCHANGED <<down, envVars, copier, halfClosed, exit>>
ServerWrites ==
  /\ Alive /\ server = "open" /\ down.given < Chunks /\ down.given - down.taken < Cap
  /\ down' = [down EXCEPT !.given = @ + 1]
  /\ UNCHANGED <<up, envVars, copier, halfClosed, exit>>
ServerCloses ==
  /\ exit # "dialling"
  /\ \/ server = "open" /\ server' = "fin" /\ UNCHANGED reset
     \/ server # "closed" /\ server' = "closed" /\ reset' = (up.got # up.sent)
  /\ UNCHANGED <<up, down, stdin, stdout, copier, halfClosed, exit>>

Terminated == Over /\ UNCHANGED vars

Bridge == Dial \/ CopyIn \/ CopyInEnds \/ CopyOut \/ CopyOutEnds
Next ==
  \/ Bridge \/ CallerGives \/ CallerReads \/ CallerStopsReading
  \/ ServerReads \/ ServerWrites \/ ServerCloses \/ Terminated

\* Both goroutines run, a caller that keeps its stdout reads it, and a server
\* that keeps the connection reads it.  Nobody has to write or to close.
Fairness ==
  /\ WF_vars(Dial) /\ WF_vars(CopyIn \/ CopyInEnds) /\ WF_vars(CopyOut \/ CopyOutEnds)
  /\ WF_vars(CallerReads) /\ WF_vars(ServerReads)

Spec     == Init /\ [][Next]_vars
FairSpec == Spec /\ Fairness

(***************************************************************************)
(* Properties.                                                             *)
(***************************************************************************)

\* A half-close tells the server that it has the whole input, so it never comes
\* after a read of stdin that failed.  A bridge that ends with its stdout intact
\* has passed on all the server wrote, also when its exit code is 3, and one
\* that could not connect has touched neither stream (contract 10).
StreamsAreWhole ==
  /\ halfClosed => stdin = "eof" /\ up.sent = up.given
  /\ exit = "ok" => server # "open"
  /\ exit \in {"ok", "io"} /\ stdout = "open" => down.sent = down.given
  /\ exit = "connect" => up.taken = 0 /\ down.sent = 0

\* Once the server has closed, the bridge ends, although its caller never ends
\* stdin: every open connection is a process inside the pid limit.  The end of
\* stdin reaches a server that stays, behind the whole input.
BridgeGetsOn ==
  /\ server # "open" ~> Over
  /\ stdin = "eof" ~> (halfClosed /\ up.got = up.given) \/ server # "open" \/ Over
=============================================================================
