------------------------------ MODULE Dispatch -------------------------------
(***************************************************************************)
(* The attempt that dispatch_once was called for.  The modules of the      *)
(* probers extend this one: the mode selects the one of them that runs.    *)
(***************************************************************************)
EXTENDS ProbeModes

VARIABLE mode     \* task.mode, a Protocol

=============================================================================
