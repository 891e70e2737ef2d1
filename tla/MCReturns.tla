----------------------------- MODULE MCReturns -----------------------------
(***************************************************************************)
(* What is asked of the simulation server comes to an end: commands that   *)
(* wait for a run thread, and jobs that are inserted into a run; side by   *)
(* side.  They share no variable: only those of one move in a behaviour.   *)
(***************************************************************************)
EXTENDS SimServer, Insertions

CONSTANTS t1, t2, i1

VARIABLE part          \* the one that moves

PartsInit == part \in {"commands", "insertions"} /\ Init /\ InsertInit

PartsNext ==
  /\ UNCHANGED part
  /\ \/ part = "commands" /\ Next /\ UNCHANGED insertionVars
     \/ part = "insertions" /\ InsertNext /\ UNCHANGED vars

\* The fairness of the modules, of the one that moves.
PartsFairness ==
  /\ WF_vars(part = "commands" /\ Proceed)
  /\ \A t \in Threads : /\ WF_vars(part = "commands" /\ Run(t))
                        /\ SF_vars(part = "commands" /\ Lock(t))
                        /\ SF_vars(part = "commands" /\ Wake(t))
  /\ WF_insertionVars(part = "insertions" /\ RunStep)
  /\ WF_insertionVars(part = "insertions" /\ LoopStep)

PartsSpec ==
  PartsInit /\ [][PartsNext]_<<part, vars, insertionVars>> /\ PartsFairness

\* Every command returns and the run it joined ends; every insertion is
\* answered, and its completion is seen.
RequestsEnd == CommandsEnd /\ InsertionsEnd
=============================================================================
