--------------------------- MODULE MCJavacWorker ---------------------------
(* Small instances of JavacWorker. *)
EXTENDS JavacWorker, TLC

CONSTANTS r1, r2

\* Every launch is a failed one (Backoff + 1 in a row at most), or is ended by
\* a fault or by a poison, of which each request can cause one: with this many
\* JVMs, MaxGen is never what stops a restart.
ASSUME EnoughGens == MaxGen >= (Backoff + 1) * (1 + MaxFaults + Cardinality(Requests))

\* Requests are interchangeable: no definition names one.
Symmetry == Permutations(Requests)
=============================================================================
