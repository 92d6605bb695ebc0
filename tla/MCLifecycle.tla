---------------------------- MODULE MCLifecycle -----------------------------
(* Small instances of Lifecycle. *)
EXTENDS Lifecycle

CONSTANTS l1, l2
=============================================================================
