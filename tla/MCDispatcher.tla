---------------------------- MODULE MCDispatcher ----------------------------
(* A model-checking instance of Dispatcher. *)
EXTENDS Dispatcher, TLC

CONSTANTS n1, n2, n3

\* One below MinSeverity, one above, and one of an unknown severity.
MCSeverity == n1 :> "info" @@ n2 :> "critical" @@ n3 :> "page"
=============================================================================
