------------------------- MODULE FactoryWorkpieces -------------------------
(* Factory implements Workpiece: what the fields of the jobs, machines and *)
(* vehicles of assign_env.py say together of one workpiece.                *)
EXTENDS Factory

\* The machine at a cell, None if there is none.
MachineAt(cell) ==
  IF \E m \in Machines : Location[m] = cell
  THEN CHOOSE m \in Machines : Location[m] = cell ELSE None

PlaceOf(j) ==
  IF delivered[j] THEN "shipped"
  ELSE IF carrier_id[j] # None THEN "carried"
  ELSE IF \E m \in Machines : Interrupted(j, m) THEN "suspended"
  ELSE IF \E m \in Machines : InService(j, m) /\ status[current_op[m]] = "FINISHED"
  THEN "held"
  ELSE IF \E m \in Machines : InService(j, m) THEN "served"
  ELSE "stored"

FinishedOps(j) == {o \in Ops : o[1] = j /\ status[o] = "FINISHED"}

Place == [j \in Jobs |-> PlaceOf(j)]
At    == [j \in Jobs |-> MachineAt(material_location[j])]
Done  == [j \in Jobs |-> Cardinality(FinishedOps(j))]

W == INSTANCE Workpiece WITH place <- Place, at <- At, done <- Done

\* Whatever the schedulers ask for, and however vehicles and machines
\* interleave, fail and are rescheduled, every step of the factory is one of
\* the lifecycle of a single workpiece, or leaves all of them as they are.
ImplementsWorkpiece == W!Spec
=============================================================================
