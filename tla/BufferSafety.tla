---------------------------- MODULE BufferSafety ----------------------------
(* The admission test of the baseline schedulers (buffer_safety.py), an    *)
(* adaptation of the Banker's algorithm: a job is admitted to a machine    *)
(* when all admitted jobs can still finish one after the other.            *)
(* claims[m] is the set of jobs with a claim on a slot of machine m, and   *)
(* needs[j] the machines to choose from for each unfinished operation of j.*)
EXTENDS Integers, FiniteSets

CONSTANTS Jobs, Machines, Capacity

\* For each unfinished operation of j a machine has a slot that no other job
\* in held claims.
CanDrain(j, held, needs) ==
  \A options \in needs[j] :
    \E m \in options : Cardinality(held[m] \ {j}) < Capacity[m]

\* The jobs with a claim.
Admitted(claims) == UNION {claims[m] : m \in Machines}

\* Of the jobs S that remain, those that can be drained now.
Possible(S, claims, needs) ==
  {j \in S : CanDrain(j, [m \in Machines |-> claims[m] \cap S], needs)}

\* The while loop drains one of them after another; rest[S] is what is left of S
\* when none can be drained.
Rest(claims, needs) ==
  LET rest[S \in SUBSET Jobs] ==
        IF Possible(S, claims, needs) = {} THEN S
        ELSE rest[S \ {CHOOSE j \in Possible(S, claims, needs) : TRUE}]
  IN rest[Admitted(claims)]

\* Mutant: a drained job keeps the slots it claims.
DrainsWithoutRelease(claims, needs) ==
  \A j \in Admitted(claims) : CanDrain(j, claims, needs)
Drains(claims, needs) == Rest(claims, needs) = {}

WithinCapacity(claims) ==
  \A m \in Machines : Cardinality(claims[m]) <= Capacity[m]

\* safe_to_admit: needs already fixes the machine of the admitted operation.
AdmitWhileRoom(claims, needs, j, m) ==               \* mutant: no drain order
  WithinCapacity([claims EXCEPT ![m] = @ \cup {j}])
SafeToAdmit(claims, needs, j, m) ==
  LET trial == [claims EXCEPT ![m] = @ \cup {j}]
  IN WithinCapacity(trial) /\ Drains(trial, needs)
=============================================================================
