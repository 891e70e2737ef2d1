----------------------------- MODULE MCThreads -----------------------------
(***************************************************************************)
(* Threads that go on while others, given up or ended with the process,    *)
(* leave something behind: the two run threads of the simulation server,   *)
(* and the executions of the platform, one of a plan of two runs and two   *)
(* replays; side by side.  They share no variable: those of one move in a  *)
(* behaviour.  Threads are interchangeable, and so are replays.            *)
(***************************************************************************)
EXTENDS SimServer, Runs, TLC

CONSTANTS t1, t2, i1, x1, x2, x3, g1

VARIABLE part          \* the one that moves

Symmetry == Permutations(Threads) \cup Permutations(Replays)

PartsInit == part \in {"server", "records"} /\ Init /\ RunsInit

\* All executions may have ended.
AllOver == \A x \in Attempts : attempt[x].at \in Over

PartsNext ==
  /\ UNCHANGED part
  /\ \/ part = "server" /\ Next /\ UNCHANGED runsVars
     \/ part = "records" /\ RunsNext /\ UNCHANGED vars
     \/ part = "records" /\ AllOver /\ UNCHANGED <<vars, runsVars>>

PartsSpec == PartsInit /\ [][PartsNext]_<<part, vars, runsVars>>
=============================================================================
