----------------------------- MODULE DrainOrder -----------------------------
(* The loop of the admission test, step by step, from any claims that fit  *)
(* the buffers and any needs: a step drains one job that can be drained,   *)
(* any one, where the code takes the least job_id.                         *)
EXTENDS BufferSafety

VARIABLES claims, needs

claimVars == <<claims, needs>>

AnyClaims ==
  /\ claims \in [Machines -> SUBSET Jobs] /\ WithinCapacity(claims)
  /\ needs \in [Jobs -> SUBSET ((SUBSET Machines) \ {{}})]

Without(j) == [m \in Machines |-> claims[m] \ {j}]

DrainOne == \E j \in Admitted(claims) :
              /\ CanDrain(j, claims, needs)
              /\ claims' = Without(j)
              /\ UNCHANGED needs

DrainSpec == AnyClaims /\ [][DrainOne]_claimVars

-----------------------------------------------------------------------------
\* The reference: all jobs with a claim can be put in an order in which each
\* finds, for every operation left, a slot beside the jobs still to drain.
CanAllDrain ==
  LET jobs  == Admitted(claims)
      ranks == 1..Cardinality(jobs)
  IN \E order \in [ranks -> jobs] :
       /\ \A i, k \in ranks : order[i] = order[k] => i = k
       /\ \A i \in ranks : \A options \in needs[order[i]] : \E m \in options :
            LET still == {order[k] : k \in {k \in ranks : k > i}}
            IN Cardinality(still \cap claims[m]) < Capacity[m]

GreedyFindsIt == Drains(claims, needs) <=> CanAllDrain

SomeMayAdvance ==
  Drains(claims, needs) /\ Admitted(claims) # {} =>
    \E j \in Admitted(claims) : \A options \in needs[j] : \E m \in options :
      SafeToAdmit(claims, [needs EXCEPT ![j] = @ \cup {{m}}], j, m)

\* safe_to_admit tries one order without backtracking; nevertheless it finds
\* a drain order whenever there is one.  And being safe is never a dead end:
\* some job with a claim only waits to be shipped, or may be admitted to a
\* machine for any of the operations it has left.
DrainOrderIsExact == GreedyFindsIt /\ SomeMayAdvance
=============================================================================
