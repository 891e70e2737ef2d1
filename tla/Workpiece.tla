----------------------------- MODULE Workpiece -----------------------------
(***************************************************************************)
(* What a factory promises of its workpieces, without vehicles, queues,    *)
(* tasks or control points: a workpiece is stored, carried, in service or  *)
(* shipped; its operations are carried out once each, in order, on a       *)
(* machine eligible for them; a machine serves one workpiece at a time and *)
(* stores no more of them than its buffer holds; a workpiece is shipped    *)
(* when its operations are finished.  Factory implements this.             *)
(***************************************************************************)
EXTENDS Integers, FiniteSets

CONSTANTS Jobs, Machines, None,
          MaxOps,          \* bound on the operations of a job
          NumOps,          \* NumOps[j]: the number of operations of job j
          Options,         \* Options[<<j, k>>]: where operation k may be done
          Capacity         \* Capacity[m]: the workpieces machine m can store

ASSUME WorkpieceConstants ==
  /\ MaxOps \in Nat /\ NumOps \in [Jobs -> 1..MaxOps]
  /\ \A j \in Jobs : \A k \in 0..(NumOps[j] - 1) : Options[<<j, k>>] \subseteq Machines
  /\ Capacity \in [Machines -> Nat \ {0}]
  /\ None \notin Machines

ASSUME WorkpieceFinite == IsFiniteSet(Jobs)

VARIABLES
  place,               \* how workpiece j is kept
  at,                  \* the machine it is at, None if at none
  done                 \* how many of its operations are finished

pieceVars == <<place, at, done>>

\* "held": finished, and kept on the machine for want of a buffer slot.
Places == {"stored", "carried", "served", "held", "suspended", "shipped"}

Stored(m)   == {j \in Jobs : at[j] = m /\ place[j] = "stored"}
HasSlot(m)  == Cardinality(Stored(m)) < Capacity[m]
OccupiedInService(m) ==                              \* mutant: held is free
  \E j \in Jobs : at[j] = m /\ place[j] = "served"
Occupied(m) == \E j \in Jobs : at[j] = m /\ place[j] \in {"served", "held"}

\* The next operation of j may be done on m.
Due(j, m) == done[j] < NumOps[j] /\ m \in Options[<<j, done[j]>>]

Init ==
  /\ place = [j \in Jobs |-> "stored"]
  /\ at = [j \in Jobs |-> None]
  /\ done = [j \in Jobs |-> 0]

PickUp(j) ==
  /\ place[j] = "stored"
  /\ place' = [place EXCEPT ![j] = "carried"]
  /\ at' = [at EXCEPT ![j] = None]
  /\ UNCHANGED done

\* A workpiece is brought to a machine only for the operation it is due for.
PutDown(j, m) ==
  /\ place[j] = "carried"
  /\ Due(j, m)
  /\ HasSlot(m)
  /\ place' = [place EXCEPT ![j] = "stored"]
  /\ at' = [at EXCEPT ![j] = m]
  /\ UNCHANGED done

Ship(j) ==
  /\ place[j] = "carried"
  /\ done[j] = NumOps[j]
  /\ place' = [place EXCEPT ![j] = "shipped"]
  /\ UNCHANGED <<at, done>>

\* The operation of j ends: j returns to the buffer, or is held without a slot.
Finish(j, slot) ==
  /\ done' = [done EXCEPT ![j] = @ + 1]
  /\ place' = [place EXCEPT ![j] = IF slot THEN "stored" ELSE "held"]

Serve(j, m) ==
  /\ place[j] \in {"stored", "suspended"} /\ at[j] = m
  /\ Due(j, m)
  /\ ~Occupied(m)
  /\ UNCHANGED at
  /\ \/ place' = [place EXCEPT ![j] = "served"] /\ UNCHANGED done
     \/ Finish(j, place[j] = "stored" \/ HasSlot(m))

Complete(j) ==
  /\ place[j] = "served"
  /\ Finish(j, HasSlot(at[j]))
  /\ UNCHANGED at

Suspend(j) ==
  /\ place[j] = "served"
  /\ place' = [place EXCEPT ![j] = "suspended"]
  /\ UNCHANGED <<at, done>>

Leave(j) ==
  /\ place[j] = "held" /\ HasSlot(at[j])
  /\ place' = [place EXCEPT ![j] = "stored"]
  /\ UNCHANGED <<at, done>>

Next == \E j \in Jobs :
          \/ PickUp(j) \/ Ship(j) \/ Complete(j) \/ Suspend(j) \/ Leave(j)
          \/ \E m \in Machines : PutDown(j, m) \/ Serve(j, m)

Spec == Init /\ [][Next]_pieceVars

-----------------------------------------------------------------------------
TypeOK ==
  /\ place \in [Jobs -> Places]
  /\ at \in [Jobs -> Machines \cup {None}]
  /\ done \in [Jobs -> Nat]

\* A machine serves or holds one workpiece at a time, next to those in its
\* buffer: Machine.current_op is one field and buffer_jobs a bounded set.
OneAtATime ==
  \A m \in Machines :
    /\ \A j, k \in Jobs : at[j] = m /\ place[j] \in {"served", "held"}
                       /\ at[k] = m /\ place[k] \in {"served", "held"} => j = k
    /\ Cardinality(Stored(m)) <= Capacity[m]

\* What is on a machine is there for an operation the machine may do: service
\* is interrupted and finished where it was started, in the order of the job.
ServedWhereDue ==
  \A j \in Jobs :
    /\ place[j] \in {"served", "suspended"} => at[j] \in Options[<<j, done[j]>>]
    /\ place[j] = "held" => at[j] \in Options[<<j, done[j] - 1>>]
    /\ place[j] = "shipped" => done[j] = NumOps[j] /\ at[j] = None

\* A machine serves one workpiece, and one that is due there.
ServesInTurn == OneAtATime /\ ServedWhereDue
=============================================================================
