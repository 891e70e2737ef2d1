---------------------------- MODULE MCExecutions ----------------------------
(* One execution and two requests to cancel it.                            *)
EXTENDS Executions

CONSTANTS c1, c2

=============================================================================
