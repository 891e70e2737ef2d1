-------------------------- MODULE RefinementProofs -------------------------
(***************************************************************************)
(* Factory implements Workpiece: the fields that assign_env.py keeps of a  *)
(* workpiece on jobs, operations, machines and vehicles say together where *)
(* it is and how far it has come, and every step of every factory takes at *)
(* most one workpiece one step further in its life.                        *)
(*                                                                         *)
(* BaselineFactory implements Factory, and its admission is enough: the    *)
(* test of buffer_safety.py is exact, and what it found stays true.        *)
(***************************************************************************)
EXTENDS FlowProofs, FactoryWorkpieces, BaselineFactory,
        WellFoundedInduction, NaturalsInduction

USE DEF controlVars, planVars, serviceVars, jobVars, queueVars, workVars,
        agvVars, taskVars, statusVars, boundVars

\* An operation is committed to a machine eligible for it, and is served and
\* suspended on that machine.
Assigned ==
  /\ \A o \in Ops : assigned_machine[o] # None => assigned_machine[o] \in Options[o]
  /\ \A m \in Machines : \A o \in Ops :
       current_op[m] = o \/ o \in Suspended(m) => assigned_machine[o] = m

\* A workpiece that was delivered stays where it was put, and is finished.
Over ==
  \A j \in Jobs : delivered[j] =>
    /\ status[LastOp(j)] = "FINISHED"
    /\ ShippingTask(j) \notin Open
    /\ material_location[j] = FinishedDest

RefinementInv == Assigned /\ Over

-----------------------------------------------------------------------------
(* What the abstraction makes of a state.                                  *)

LEMMA MachineAtIs ==
  /\ \A m \in Machines : MachineAt(Location[m]) = m
  /\ \A c : (\A m \in Machines : Location[m] # c) => MachineAt(c) = None
  /\ MachineAt(RawSource) = None /\ MachineAt(FinishedDest) = None
  /\ MachineAt(None) = None
<1>1. ASSUME NEW m \in Machines PROVE MachineAt(Location[m]) = m
  <2>1. \A n \in Machines : Location[n] = Location[m] => n = m  BY FactoryLayout
  <2> QED  BY <2>1 DEF MachineAt
<1>2. ASSUME NEW c, \A m \in Machines : Location[m] # c PROVE MachineAt(c) = None
  BY <1>2 DEF MachineAt
<1>3. \A m \in Machines : Location[m] \notin {RawSource, FinishedDest, None}
  BY FactoryConstants, FactoryNone, FactoryLayout
<1> QED  BY <1>1, <1>2, <1>3

LEMMA FinishedFinite ==
  ASSUME NEW j \in Jobs
  PROVE  /\ IsFiniteSet(FinishedOps(j)) /\ Cardinality(FinishedOps(j)) \in Nat
         /\ IsFiniteSet({j} \X (0..MaxOps))
<1>1. IsFiniteSet({j} \X (0..MaxOps))
  <2>1. IsFiniteSet({j})  BY FS_Singleton
  <2>2. IsFiniteSet(0..MaxOps)  BY FS_Interval, FactoryConstants
  <2> QED  BY <2>1, <2>2, FS_Product
<1>2. FinishedOps(j) \subseteq {j} \X (0..MaxOps)
  BY DEF FinishedOps, Ops, Tasks
<1> QED  BY <1>1, <1>2, FS_Subset, FS_CardinalityType

\* The first k operations of j are that many.
LEMMA FirstOps ==
  ASSUME NEW j \in Jobs, NEW k \in 0..NumOps[j]
  PROVE  Cardinality({o \in Ops : o[1] = j /\ o[2] < k}) = k
<1> DEFINE S == {o \in Ops : o[1] = j /\ o[2] < k}
<1>0. NumOps[j] \in 1..MaxOps /\ MaxOps \in Nat  BY FactoryConstants
<1>1. S = {j} \X (0..(k - 1))
  <2>1. ASSUME NEW o \in S PROVE o \in {j} \X (0..(k - 1))
    BY <1>0, TaskParts DEF Ops, Tasks
  <2>2. ASSUME NEW i \in 0..(k - 1) PROVE <<j, i>> \in S
    BY <1>0 DEF Ops, Tasks
  <2> QED  BY <2>1, <2>2
<1>2. IsFiniteSet({j}) /\ Cardinality({j}) = 1  BY FS_Singleton
<1>3. IsFiniteSet(0..(k - 1)) /\ Cardinality(0..(k - 1)) = k
  <2>1. CASE k = 0
    <3>1. 0..(k - 1) = {}  BY <2>1
    <3> QED  BY <2>1, <3>1, FS_EmptySet
  <2>2. CASE k # 0
    BY <1>0, <2>2, FS_Interval
  <2> QED  BY <2>1, <2>2
<1>4. Cardinality({j} \X (0..(k - 1))) = k
  <2> DEFINE T == 0..(k - 1)
             U == {j}
  <2>1. IsFiniteSet(U) /\ Cardinality(U) = 1 /\ IsFiniteSet(T) /\ Cardinality(T) = k
    BY <1>2, <1>3
  <2> HIDE DEF T, U
  <2>2. Cardinality(U \X T) = Cardinality(U) * Cardinality(T)
    BY <2>1, FS_Product
  <2>3. Cardinality(U \X T) = k
    <3>1. k \in Nat  BY <1>0
    <3>2. 1 * k = k  BY <3>1
    <3> QED  BY <2>1, <2>2, <3>2
  <2> QED  BY <2>3 DEF T, U
<1> QED  BY <1>1, <1>4

\* How many operations are finished when o is the next one.
LEMMA DoneUpTo ==
  ASSUME FlowInv, NEW o \in Ops, Begun(o), status[o] # "FINISHED"
  PROVE  Done[o[1]] = o[2]
<1> DEFINE j == o[1]
<1>1. /\ j \in Jobs /\ o[2] \in 0..NumOps[j] /\ o \in Tasks /\ Ops \subseteq Tasks
  BY TaskFacts, TaskParts
<1>2. ASSUME NEW q \in Ops, q[1] = j
      PROVE  status[q] = "FINISHED" <=> q[2] < o[2]
  <2>1. q[2] < o[2] => status[q] = "FINISHED"
    BY <1>1, <1>2 DEF FlowInv, InOrder, Earlier
  <2>2. ASSUME status[q] = "FINISHED" PROVE q[2] < o[2]
    <3>1. Begun(q) /\ q # o  BY <2>2 DEF Begun
    <3>2. ~Earlier(o, q)  BY <1>1, <3>1 DEF FlowInv, InOrder
    <3>3. Earlier(q, o)  BY <1>1, <1>2, <3>1, <3>2, OneIsEarlier
    <3> QED  BY <3>3 DEF Earlier
  <2> QED  BY <2>1, <2>2
<1>3. FinishedOps(j) = {q \in Ops : q[1] = j /\ q[2] < o[2]}
  BY <1>2 DEF FinishedOps
<1> QED  BY <1>1, <1>3, FirstOps DEF Done

\* All of them are, when the finished-goods task begins or the last one ends.
LEMMA DoneAll ==
  ASSUME NEW j \in Jobs, \A o \in Ops : o[1] = j => status[o] = "FINISHED"
  PROVE  Done[j] = NumOps[j]
<1>1. NumOps[j] \in 0..NumOps[j]  BY FactoryConstants
<1>2. FinishedOps(j) = {q \in Ops : q[1] = j /\ q[2] < NumOps[j]}
  BY TaskParts, TaskFacts DEF FinishedOps
<1> QED  BY <1>1, <1>2, FirstOps DEF Done

\* One more is finished after a step.
LEMMA OneMoreDone ==
  ASSUME NEW o \in Ops, status[o] # "FINISHED", status'[o] = "FINISHED",
         \A q \in Ops \ {o} : status'[q] = status[q]
  PROVE  Done'[o[1]] = Done[o[1]] + 1
<1> DEFINE j == o[1]
<1>1. j \in Jobs  BY TaskFacts
<1>2. FinishedOps(j)' = FinishedOps(j) \cup {o} /\ o \notin FinishedOps(j)
  BY DEF FinishedOps
<1>3. Cardinality(FinishedOps(j) \cup {o}) = Cardinality(FinishedOps(j)) + 1
  BY <1>1, <1>2, FinishedFinite, FS_AddElement
<1> QED  BY <1>1, <1>2, <1>3 DEF Done

\* How the parts of the state make the place of a workpiece.
LEMMA PlaceRules ==
  ASSUME TypeInv, FlowInv, Over, NEW j \in Jobs
  PROVE  /\ delivered[j] => Place[j] = "shipped" /\ carrier_id[j] = None
         /\ carrier_id[j] # None => Place[j] = "carried" /\ At[j] = None
         /\ \A m \in Machines :
              /\ InService(j, m) => /\ At[j] = m
                                    /\ Place[j] = IF status[current_op[m]] = "FINISHED"
                                                  THEN "held" ELSE "served"
              /\ Interrupted(j, m) => At[j] = m /\ Place[j] = "suspended"
              /\ Waits(j, m) => At[j] = m /\ Place[j] = "stored"
<1> USE FactoryConstants, FactoryNone, FactoryLayout
<1>1. ASSUME delivered[j] PROVE Place[j] = "shipped" /\ carrier_id[j] = None
  <2>1. material_location[j] # None  BY <1>1 DEF Over
  <2>2. carrier_id[j] = None  BY <2>1 DEF FlowInv, WorkpieceConservation
  <2>3. PlaceOf(j) = "shipped"  BY <1>1 DEF PlaceOf
  <2> QED  BY <2>2, <2>3 DEF Place
<1>2. ASSUME carrier_id[j] # None PROVE Place[j] = "carried" /\ At[j] = None
  <2>1. material_location[j] = None
    BY <1>2 DEF FlowInv, WorkpieceConservation
  <2>2. ~delivered[j]  BY <1>1, <1>2
  <2>3. PlaceOf(j) = "carried"  BY <1>2, <2>2 DEF PlaceOf
  <2> QED  BY <2>1, <2>3, MachineAtIs DEF Place, At
<1>3. ASSUME NEW m \in Machines, Waits(j, m) \/ InService(j, m) \/ Interrupted(j, m)
      PROVE  /\ ~delivered[j] /\ carrier_id[j] = None /\ At[j] = m
             /\ \A n \in Machines \ {m} : ~InService(j, n) /\ ~Interrupted(j, n)
             /\ ~(Waits(j, m) /\ InService(j, m))
             /\ ~(Waits(j, m) /\ Interrupted(j, m))
             /\ ~(InService(j, m) /\ Interrupted(j, m))
  <2>1. /\ material_location[j] = Location[m] /\ carrier_id[j] = None
        /\ \A n \in Machines \ {m} : ~InService(j, n) /\ ~Interrupted(j, n)
    BY <1>3, AtItsMachine
  <2>2. ~delivered[j]  BY <2>1 DEF Over
  <2>3. At[j] = m  BY <2>1, MachineAtIs DEF At
  <2> QED  BY <2>1, <2>2, <2>3 DEF FlowInv, WorkpieceConservation
<1>4. ASSUME NEW m \in Machines, InService(j, m)
      PROVE  Place[j] = IF status[current_op[m]] = "FINISHED" THEN "held" ELSE "served"
  <2>1. \A n \in Machines : InService(j, n) => n = m  BY <1>3, <1>4
  <2>2. \A n \in Machines : ~Interrupted(j, n)  BY <1>3, <1>4
  <2> QED  BY <1>3, <1>4, <2>1, <2>2 DEF Place, PlaceOf
<1>5. ASSUME NEW m \in Machines, Interrupted(j, m)
      PROVE  Place[j] = "suspended"
  BY <1>3, <1>5 DEF Place, PlaceOf
<1>6. ASSUME NEW m \in Machines, Waits(j, m) PROVE Place[j] = "stored"
  <2>1. \A n \in Machines : ~InService(j, n) /\ ~Interrupted(j, n)  BY <1>3, <1>6
  <2> QED  BY <1>3, <1>6, <2>1 DEF Place, PlaceOf
<1> QED  BY <1>1, <1>2, <1>3, <1>4, <1>5, <1>6

\* A workpiece that is nowhere else is stored.
LEMMA ElseStored ==
  ASSUME NEW j \in Jobs, ~delivered[j], carrier_id[j] = None,
         \A m \in Machines : ~InService(j, m) /\ ~Interrupted(j, m)
  PROVE  Place[j] = "stored"
BY DEF Place, PlaceOf

LEMMA SameCardinality ==
  ASSUME NEW S
  PROVE  W!Cardinality(S) = Cardinality(S)
BY DEF W!Cardinality, Cardinality, W!IsFiniteSet, IsFiniteSet

\* The buffer of a machine, and whether the machine is free, are the same in
\* both specifications.
LEMMA SameMachine ==
  ASSUME TypeInv, FlowInv, Over, NEW m \in Machines
  PROVE  /\ W!Stored(m) = buffer_jobs[m]
         /\ W!HasSlot(m) <=> HasRoom(m, buffer_jobs[m])
         /\ W!Occupied(m) <=> current_op[m] # None
<1>1. ASSUME NEW j \in Jobs, At[j] = m
      PROVE  Waits(j, m) \/ InService(j, m) \/ Interrupted(j, m)
  <2>1. material_location[j] = Location[m]
    <3>1. PICK n \in Machines : Location[n] = material_location[j]
      BY <1>1, FactoryNone, MachineAtIs DEF At
    <3> QED  BY <1>1, <3>1, MachineAtIs DEF At
  <2> QED  BY <2>1 DEF FlowInv, WorkpieceConservation
<1>2. W!Stored(m) = buffer_jobs[m]
  <2>1. ASSUME NEW j \in Jobs
        PROVE  At[j] = m /\ Place[j] = "stored" <=> j \in buffer_jobs[m]
    BY <1>1, PlaceRules DEF Waits
  <2>2. buffer_jobs[m] \subseteq Jobs  BY DEF TypeInv, TypeOK
  <2> QED  BY <2>1, <2>2 DEF W!Stored
<1>3. W!Occupied(m) <=> current_op[m] # None
  <2>1. ASSUME current_op[m] # None PROVE W!Occupied(m)
    <3>1. current_op[m][1] \in Jobs /\ InService(current_op[m][1], m)
      BY <2>1, TaskFacts DEF TypeInv, TypeOK, InService
    <3> QED  BY <3>1, PlaceRules DEF W!Occupied
  <2>2. ASSUME W!Occupied(m) PROVE current_op[m] # None
    <3>1. PICK j \in Jobs : At[j] = m /\ Place[j] \in {"served", "held"}
      BY <2>2 DEF W!Occupied
    <3>2. InService(j, m)  BY <1>1, <3>1, PlaceRules
    <3> QED  BY <3>2 DEF InService
  <2> QED  BY <2>1, <2>2
<1>4. W!HasSlot(m) <=> HasRoom(m, buffer_jobs[m])
  BY <1>2, SameCardinality DEF W!HasSlot, HasRoom
<1> QED  BY <1>2, <1>3, <1>4

-----------------------------------------------------------------------------
(* Steps that leave a workpiece, or all of them, as they are.              *)

\* Nothing that the abstraction looks at changes for j.
Unmoved(j) ==
  /\ delivered'[j] = delivered[j] /\ carrier_id'[j] = carrier_id[j]
  /\ material_location'[j] = material_location[j]
  /\ \A m \in Machines :
       /\ Interrupted(j, m)' <=> Interrupted(j, m)
       /\ InService(j, m)' <=> InService(j, m)
       /\ InService(j, m) =>
            (status'[current_op'[m]] = "FINISHED" <=> status[current_op[m]] = "FINISHED")
  /\ \A o \in Ops : o[1] = j => (status'[o] = "FINISHED" <=> status[o] = "FINISHED")

LEMMA UnmovedStays ==
  ASSUME NEW j \in Jobs, Unmoved(j)
  PROVE  Place'[j] = Place[j] /\ At'[j] = At[j] /\ Done'[j] = Done[j]
<1>1. PlaceOf(j)' = PlaceOf(j)  BY DEF Unmoved, PlaceOf
<1>2. FinishedOps(j)' = FinishedOps(j)  BY DEF Unmoved, FinishedOps
<1>3. At'[j] = At[j]  BY DEF Unmoved, At
<1> QED  BY <1>1, <1>2, <1>3 DEF Place, Done

LEMMA AllUnmoved ==
  ASSUME \A j \in Jobs : Unmoved(j)
  PROVE  UNCHANGED W!pieceVars
<1>1. \A j \in Jobs : Place'[j] = Place[j] /\ At'[j] = At[j] /\ Done'[j] = Done[j]
  BY UnmovedStays
<1>2. /\ Place' = Place /\ At' = At
  BY <1>1 DEF Place, At
<1>3. Done' = Done  BY <1>1 DEF Done
<1> QED  BY <1>2, <1>3 DEF W!pieceVars

LEMMA Untouched ==
  ASSUME UNCHANGED <<delivered, carrier_id, material_location, current_op,
                     suspended_ops, status>>
  PROVE  UNCHANGED W!pieceVars
<1>1. ASSUME NEW j \in Jobs PROVE Unmoved(j)
  BY DEF Unmoved, Interrupted, InService, Suspended
<1> QED  BY <1>1, AllUnmoved

\* What one step makes of the three maps when it touches j alone.
LEMMA OneMoved ==
  ASSUME NEW j \in Jobs, \A k \in Jobs \ {j} : Unmoved(k)
  PROVE  /\ Place' = [Place EXCEPT ![j] = Place'[j]]
         /\ At' = [At EXCEPT ![j] = At'[j]]
         /\ Done' = [Done EXCEPT ![j] = Done'[j]]
<1>1. \A k \in Jobs \ {j} : Place'[k] = Place[k] /\ At'[k] = At[k] /\ Done'[k] = Done[k]
  BY UnmovedStays
<1>2. Place' = [Place EXCEPT ![j] = Place'[j]]  BY <1>1 DEF Place
<1>3. At' = [At EXCEPT ![j] = At'[j]]  BY <1>1 DEF At
<1>4. Done' = [Done EXCEPT ![j] = Done'[j]]  BY <1>1 DEF Done
<1> QED  BY <1>2, <1>3, <1>4

\* A map that a step leaves alone for j, it leaves alone.
LEMMA NotMoved ==
  ASSUME NEW j \in Jobs, \A k \in Jobs \ {j} : Unmoved(k)
  PROVE  /\ Place'[j] = Place[j] => Place' = Place
         /\ At'[j] = At[j] => At' = At
         /\ Done'[j] = Done[j] => Done' = Done
<1>1. \A k \in Jobs \ {j} : Place'[k] = Place[k] /\ At'[k] = At[k] /\ Done'[k] = Done[k]
  BY UnmovedStays
<1>2. Place'[j] = Place[j] => Place' = Place  BY <1>1 DEF Place
<1>3. At'[j] = At[j] => At' = At  BY <1>1 DEF At
<1>4. Done'[j] = Done[j] => Done' = Done  BY <1>1 DEF Done
<1> QED  BY <1>2, <1>3, <1>4

-----------------------------------------------------------------------------
(* The steps of the factory that are steps in the life of a workpiece.     *)

\* A job with an open task, and so one with a vehicle, is not delivered yet.
LEMMA OpenIsNotOver ==
  ASSUME TypeInv, FlowInv, Over, NEW t \in Open
  PROVE  t \in Tasks /\ t[1] \in Jobs /\ ~delivered[t[1]]
<1> USE TaskFacts
<1>1. t \in Tasks /\ t[1] \in Jobs  BY DEF Open, Moving, TypeInv, TypeOK
<1>2. ASSUME delivered[t[1]] PROVE FALSE
  <2>1. /\ status[LastOp(t[1])] = "FINISHED" /\ LastOp(t[1]) \in Ops
        /\ ShippingTask(t[1]) \notin Open
    BY <1>1, <1>2 DEF Over
  <2>2. t \in Ops  BY <1>1, <2>1, ShippingIsLast
  <2>3. status[t] = "PENDING"  BY <2>2 DEF FlowInv, OpenIsAhead
  <2>4. t = LastOp(t[1]) \/ Earlier(t, LastOp(t[1]))
    <3>1. LastOp(t[1])[1] = t[1] /\ LastOp(t[1])[2] = NumOps[t[1]] - 1  BY DEF LastOp
    <3>2. t[2] <= NumOps[t[1]] - 1  BY <1>1, <2>2, TaskParts
    <3>3. t[2] = NumOps[t[1]] - 1 => t = LastOp(t[1])
      BY <1>1, <2>1, <3>1, SameTask
    <3>4. t[2] \in Nat /\ NumOps[t[1]] \in Nat  BY <1>1, TaskParts
    <3> QED  BY <3>1, <3>2, <3>3, <3>4 DEF Earlier
  <2>5. Begun(LastOp(t[1]))  BY <2>1 DEF Begun
  <2>6. status[t] = "FINISHED"
    BY <1>1, <2>1, <2>4, <2>5 DEF FlowInv, InOrder
  <2> QED  BY <2>3, <2>6
<1> QED  BY <1>1, <1>2

LEMMA PickupPiece ==
  ASSUME TypeInv, FlowInv, Over, NEW a \in AGVs, agv_task[a] # None, ~loaded[a],
         FinishPickup(a)
  PROVE  W!Next
<1> DEFINE t == agv_task[a]
           j == t[1]
<1> USE TaskFacts, FactoryNone
<1>1. t \in Tasks /\ t \in Open /\ j \in Jobs
  BY OwnTask DEF Open, Moving
<1>2. /\ material_location' = [material_location EXCEPT ![j] = None]
      /\ carrier_id' = [carrier_id EXCEPT ![j] = a]
      /\ UNCHANGED <<delivered, current_op, suspended_ops, status>>
  BY DEF FinishPickup
<1>3. ~delivered[j]  BY <1>1, OpenIsNotOver
<1>4. carrier_id[j] = None
  <2>1. ASSUME NEW b \in AGVs, carrier_id[j] = b PROVE FALSE
    <3>1. loaded[b] /\ agv_task[b] # None /\ agv_task[b][1] = j
      BY <1>1, <2>1 DEF FlowInv, WorkpieceConservation
    <3>2. b = a  BY <3>1, OwnTask
    <3> QED  BY <3>1, <3>2
  <2> QED  BY <1>1, <2>1 DEF TypeInv, TypeOK
<1>5. \A m \in Machines : ~InService(j, m) /\ ~Interrupted(j, m)
  BY DEF FlowInv, PickupIsFresh
<1>6. Place[j] = "stored"  BY <1>1, <1>3, <1>4, <1>5, ElseStored
<1>7. carrier_id'[j] = a /\ material_location'[j] = None /\ ~delivered'[j]
  BY <1>1, <1>2, <1>3 DEF TypeInv, TypeOK
<1>8. Place'[j] = "carried" /\ At'[j] = None
  BY <1>1, <1>7, MachineAtIs DEF Place, PlaceOf, At
<1>9. \A k \in Jobs \ {j} : Unmoved(k)
  BY <1>2 DEF Unmoved, Interrupted, InService, Suspended, TypeInv, TypeOK
<1>10. Done' = Done  BY <1>2 DEF Done, FinishedOps
<1>11. W!PickUp(j)
  <2> HIDE DEF j
  <2> QED  BY <1>1, <1>6, <1>8, <1>9, <1>10, OneMoved DEF W!PickUp
<1> QED  BY <1>1, <1>11 DEF W!Next

LEMMA DeliverPiece ==
  ASSUME TypeInv, FlowInv, Over, Assigned, NEW a \in AGVs,
         agv_task[a] # None, loaded[a], ~NoRoomFor(agv_task[a]), Deliver(a)
  PROVE  W!Next
<1> USE TaskFacts, FactoryNone
<1>0. PICK t \in Tasks : t = agv_task[a]  BY OwnTask
<1> DEFINE j == t[1]
           m == assigned_machine[t]
<1>1. t \in Open /\ t \in Moving /\ j \in Jobs /\ Begun(t)
  BY <1>0, OwnTask DEF Open, Moving, Begun
<1>2. /\ material_location' = [material_location EXCEPT ![j] = Destination(t)]
      /\ carrier_id' = [carrier_id EXCEPT ![j] = None]
      /\ UNCHANGED <<current_op, suspended_ops, status>>
  BY <1>0 DEF Deliver
<1>3. carrier_id[j] = a /\ material_location[j] = None
  <2>1. carrier_id[j] = a  BY <1>0, <1>1 DEF FlowInv, WorkpieceConservation
  <2> QED  BY <1>1, <2>1 DEF FlowInv, WorkpieceConservation
<1>4. Place[j] = "carried" /\ At[j] = None /\ ~delivered[j]
  BY <1>1, <1>3, PlaceRules, OpenIsNotOver
<1>5. \A n \in Machines : ~InService(j, n) /\ ~Interrupted(j, n)
  BY <1>1, <1>3, AtItsMachine
<1>6. /\ material_location'[j] = Destination(t) /\ carrier_id'[j] = None
      /\ \A n \in Machines : ~InService(j, n)' /\ ~Interrupted(j, n)'
  <2>1. material_location'[j] = Destination(t) /\ carrier_id'[j] = None
    BY <1>1, <1>2 DEF TypeInv, TypeOK
  <2> HIDE DEF j
  <2>2. \A n \in Machines : ~InService(j, n)' /\ ~Interrupted(j, n)'
    BY <1>2, <1>5 DEF InService, Interrupted, Suspended
  <2> QED  BY <2>1, <2>2
<1>7. Done' = Done  BY <1>2 DEF Done, FinishedOps
<1>8. \A k \in Jobs \ {j} :
         /\ carrier_id'[k] = carrier_id[k] /\ material_location'[k] = material_location[k]
         /\ delivered'[k] = delivered[k]
  BY <1>0, <1>2 DEF Deliver, TypeInv, TypeOK
<1>9. \A k \in Jobs \ {j} : Unmoved(k)
  BY <1>2, <1>8 DEF Unmoved, Interrupted, InService, Suspended
<1>10. CASE IsShipping(t)
  <2>1. delivered'[j] = TRUE /\ Destination(t) = FinishedDest
    BY <1>0, <1>1, <1>10 DEF Deliver, Destination, TypeInv, TypeOK
  <2>2. Place'[j] = "shipped"  BY <1>1, <2>1 DEF Place, PlaceOf
  <2>3. At'[j] = None  BY <1>1, <1>6, <2>1, MachineAtIs DEF At
  <2>4. \A o \in Ops : o[1] = j => status[o] = "FINISHED"
    BY <1>1, <1>10, ShippingIsLast DEF FlowInv, InOrder
  <2>5. Done[j] = NumOps[j]  BY <1>1, <2>4, DoneAll
  <2>6. W!Ship(j)
    <3> HIDE DEF j
    <3>1. At' = At  BY <1>1, <1>4, <1>9, <2>3, NotMoved
    <3> QED  BY <1>1, <1>4, <1>7, <1>9, <2>2, <2>5, <3>1, OneMoved DEF W!Ship
  <2> QED  BY <1>1, <2>6 DEF W!Next
<1>11. CASE ~IsShipping(t)
  <2>1. t \in Ops /\ m \in Machines
    BY <1>0, <1>1, <1>11 DEF TypeInv, Committed
  <2>2. m \in Options[t] /\ t = <<j, t[2]>> /\ t[2] < NumOps[j]
    BY <1>1, <2>1, TaskParts DEF Assigned
  <2>3. status[t] = "PENDING"  BY <1>1, <2>1 DEF FlowInv, OpenIsAhead
  <2>4. Done[j] = t[2]  BY <1>1, <2>1, <2>3, DoneUpTo
  <2>5. W!Due(j, m)  BY <2>2, <2>4 DEF W!Due
  <2>6. HasRoom(m, buffer_jobs[m])
    BY <1>0, <1>11, <2>1, BufferFinite DEF NoRoomFor, Full, HasRoom
  <2>7. W!HasSlot(m)  BY <2>1, <2>6, SameMachine
  <2>8. delivered'[j] = delivered[j] /\ Destination(t) = Location[m]
    BY <1>0, <1>11 DEF Deliver, Destination
  <2>9. Place'[j] = "stored"
    <3>1. ~delivered'[j]  BY <1>4, <2>8
    <3>2. PlaceOf(j)' = "stored"  BY <1>6, <3>1 DEF PlaceOf
    <3> QED  BY <1>1, <3>2 DEF Place
  <2>10. At'[j] = m  BY <1>1, <1>6, <2>1, <2>8, MachineAtIs DEF At
  <2>11. W!PutDown(j, m)
    <3> HIDE DEF j, m
    <3> QED  BY <1>1, <1>4, <1>7, <1>9, <2>5, <2>7, <2>9, <2>10, OneMoved DEF W!PutDown
  <2> QED  BY <1>1, <2>1, <2>11 DEF W!Next
<1> QED  BY <1>10, <1>11

\* A request may interrupt what the machine works on, and nothing else.
LEMMA RequestPiece ==
  ASSUME TypeInv, FlowInv, Over, NEW o \in Ops, NEW m \in Machines,
         RequestTransfer(o, m)
  PROVE  [W!Next]_(W!pieceVars)
<1> USE TaskFacts, FactoryNone
<1>1. UNCHANGED <<delivered, carrier_id, material_location>>
  BY DEF RequestTransfer
<1>2. CASE UNCHANGED <<current_op, suspended_ops, status>>
  BY <1>1, <1>2, Untouched
<1>3. CASE Preemptable(m) /\ Suspend(m)
  <2>1. PICK c \in Ops : c = current_op[m]
    BY <1>3 DEF Preemptable, TypeInv, TypeOK
  <2> DEFINE j == c[1]
  <2>2. j \in Jobs /\ InService(j, m)  BY <2>1 DEF InService
  <2>3. status[c] = "PROCESSING"
    <3>1. elapsed[m] < proc_time[c] /\ elapsed[m] \in Nat /\ proc_time[c] \in Nat
      BY <1>3, <2>1 DEF Preemptable, TypeInv, TypeOK
    <3> QED  BY <2>1, <3>1 DEF FlowInv, Servicing
  <2>4. Place[j] = "served" /\ At[j] = m
    BY <2>1, <2>2, <2>3, PlaceRules
  <2>5. ~delivered[j] /\ carrier_id[j] = None
    BY <2>2, <2>4, PlaceRules, AtItsMachine
  <2>6. /\ status' = [status EXCEPT ![c] = "SUSPENDED"]
        /\ current_op' = [current_op EXCEPT ![m] = None]
        /\ suspended_ops' = [suspended_ops EXCEPT ![m] = Append(suspended_ops[m], c)]
    BY <1>3, <2>1 DEF Suspend
  <2>7. /\ Suspended(m)' = Suspended(m) \cup {c}
        /\ \A n \in Machines \ {m} : Suspended(n)' = Suspended(n)
    <3>1. suspended_ops \in [Machines -> Seq(Ops)]  BY DEF TypeInv, TypeOK
    <3> QED  BY <2>6, <3>1, RangeAppend DEF Suspended
  <2>8. /\ current_op'[m] = None
        /\ \A n \in Machines \ {m} : current_op'[n] = current_op[n]
        /\ status'[c] = "SUSPENDED"
        /\ \A q \in Ops \ {c} : status'[q] = status[q]
    BY <2>6 DEF TypeInv, TypeOK
  <2>9. ASSUME NEW k \in Jobs \ {j} PROVE Unmoved(k)
    <3>1. \A n \in Machines : Interrupted(k, n)' <=> Interrupted(k, n)
      BY <2>7 DEF Interrupted
    <3>2. ASSUME NEW n \in Machines
          PROVE  /\ InService(k, n)' <=> InService(k, n)
                 /\ InService(k, n) =>
                      (status'[current_op'[n]] = "FINISHED"
                         <=> status[current_op[n]] = "FINISHED")
      <4>1. CASE n = m  BY <2>1, <2>8, <4>1 DEF InService
      <4>2. CASE n # m
        <5>1. current_op[n] # None => current_op[n] \in Ops
          BY DEF TypeInv, TypeOK
        <5> QED  BY <2>8, <4>2, <5>1 DEF InService
      <4> QED  BY <4>1, <4>2
    <3>3. \A q \in Ops : q[1] = k => (status'[q] = "FINISHED" <=> status[q] = "FINISHED")
      BY <2>8
    <3> QED  BY <1>1, <3>1, <3>2, <3>3 DEF Unmoved
  <2>10. Interrupted(j, m)'  BY <2>7 DEF Interrupted
  <2>11. PlaceOf(j)' = "suspended"
    BY <1>1, <2>5, <2>10 DEF PlaceOf
  <2>12. Place'[j] = "suspended"  BY <2>2, <2>11 DEF Place
  <2>13. At' = At  BY <1>1 DEF At
  <2>14. Done' = Done
    <3>1. \A k : FinishedOps(k)' = FinishedOps(k)
      BY <2>3, <2>8 DEF FinishedOps
    <3> QED  BY <3>1 DEF Done
  <2>15. W!Suspend(j)
    <3> HIDE DEF j
    <3> QED  BY <2>2, <2>4, <2>9, <2>12, <2>13, <2>14, OneMoved DEF W!Suspend
  <2> QED  BY <2>2, <2>15 DEF W!Next
<1> QED  BY <1>2, <1>3 DEF RequestTransfer, ReserveForUrgentTransfer

\* What the turn of a machine with work makes of the workpiece of that work.
LEMMA TreatedPlace ==
  ASSUME TypeInv, FlowInv, Over, NEW m \in Machines, NEW o \in Ops,
         NEW left \in BOOLEAN, AtHand(o, m), Treated(o, m, left)
  PROVE  /\ \A k \in Jobs \ {o[1]} : Unmoved(k)
         /\ At' = At /\ At[o[1]] = m
         /\ Place'[o[1]] = IF left THEN "stored"
                           ELSE IF status'[o] = "FINISHED" THEN "held" ELSE "served"
         /\ (status'[o] = "FINISHED" <=> status[o] = "FINISHED") => Done' = Done
         /\ status'[o] = "FINISHED" /\ status[o] # "FINISHED"
              => Done' = [Done EXCEPT ![o[1]] = Done[o[1]] + 1]
<1> DEFINE j == o[1]
<1> USE TaskFacts, FactoryNone
<1>1. /\ material_location[j] = Location[m] /\ carrier_id[j] = None
      /\ \A n \in Machines \ {m} : ~InService(j, n) /\ ~Interrupted(j, n)
      /\ \A q \in Suspended(m) : q[1] = j => q = o
  BY AtHandFacts
<1>2. /\ \A q \in Ops \ {o} : status'[q] = status[q]
      /\ current_op'[m] = IF left THEN None ELSE o
      /\ \A n \in Machines \ {m} : current_op'[n] = current_op[n]
      /\ UNCHANGED <<material_location, carrier_id, delivered>>
  BY DEF Treated
<1>3. /\ Suspended(m)' = Suspended(m) \ {o}
      /\ \A n \in Machines \ {m} : Suspended(n)' = Suspended(n)
  BY DEF Treated, Suspended
<1>4. current_op[m] \in {o, None}  BY DEF AtHand
<1>5. At' = At /\ At[j] = m  BY <1>1, <1>2, MachineAtIs DEF At
<1>6. ASSUME NEW k \in Jobs \ {j} PROVE Unmoved(k)
  <2>1. \A n \in Machines : Interrupted(k, n)' <=> Interrupted(k, n)
    BY <1>3 DEF Interrupted
  <2>2. ASSUME NEW n \in Machines
        PROVE  /\ InService(k, n)' <=> InService(k, n)
               /\ InService(k, n) =>
                    (status'[current_op'[n]] = "FINISHED"
                       <=> status[current_op[n]] = "FINISHED")
    <3>1. CASE n = m  BY <1>2, <1>4, <3>1 DEF InService
    <3>2. CASE n # m
      <4>1. current_op[n] # None => current_op[n] \in Ops
        BY DEF TypeInv, TypeOK
      <4> QED  BY <1>2, <3>2, <4>1 DEF InService
    <3> QED  BY <3>1, <3>2
  <2>3. \A q \in Ops : q[1] = k => (status'[q] = "FINISHED" <=> status[q] = "FINISHED")
    BY <1>2
  <2> QED  BY <1>2, <2>1, <2>2, <2>3 DEF Unmoved
<1>7. Place'[j] = IF left THEN "stored"
                  ELSE IF status'[o] = "FINISHED" THEN "held" ELSE "served"
  <2>1. ~delivered[j]
    BY <1>1, FactoryLayout DEF Over
  <2>2. ~delivered'[j] /\ carrier_id'[j] = None  BY <1>1, <1>2, <2>1
  <2>3. \A n \in Machines : ~Interrupted(j, n)'
    BY <1>1, <1>3 DEF Interrupted
  <2>4. \A n \in Machines : InService(j, n)' <=> n = m /\ ~left
    BY <1>1, <1>2 DEF InService
  <2>5. PlaceOf(j)' = IF left THEN "stored"
                      ELSE IF status'[o] = "FINISHED" THEN "held" ELSE "served"
    BY <1>2, <2>2, <2>3, <2>4 DEF PlaceOf
  <2> QED  BY <2>5 DEF Place
<1>8. ASSUME status'[o] = "FINISHED" <=> status[o] = "FINISHED" PROVE Done' = Done
  <2>1. \A k : FinishedOps(k)' = FinishedOps(k)
    BY <1>2, <1>8 DEF FinishedOps
  <2> QED  BY <2>1 DEF Done
<1>9. ASSUME status'[o] = "FINISHED", status[o] # "FINISHED"
      PROVE  Done' = [Done EXCEPT ![j] = Done[j] + 1]
  <2>1. Done'[j] = Done[j] + 1  BY <1>2, <1>9, OneMoreDone
  <2>2. j \in Jobs  OBVIOUS
  <2> HIDE DEF j
  <2> QED  BY <1>6, <2>1, <2>2, OneMoved
<1> QED  BY <1>5, <1>6, <1>7, <1>8, <1>9

LEMMA TreatedPiece ==
  ASSUME TypeInv, FlowInv, Over, Assigned, BufferBound, NEW m \in Machines,
         NEW o \in Ops, NEW left \in BOOLEAN, AtHand(o, m), Treated(o, m, left)
  PROVE  [W!Next]_(W!pieceVars)
<1> DEFINE j == o[1]
<1> USE TaskFacts, FactoryNone
<1>1. /\ \A k \in Jobs \ {j} : Unmoved(k)
      /\ At' = At /\ At[j] = m
      /\ Place'[j] = IF left THEN "stored"
                     ELSE IF status'[o] = "FINISHED" THEN "held" ELSE "served"
      /\ (status'[o] = "FINISHED" <=> status[o] = "FINISHED") => Done' = Done
      /\ status'[o] = "FINISHED" /\ status[o] # "FINISHED"
           => Done' = [Done EXCEPT ![j] = Done[j] + 1]
  BY TreatedPlace
<1>2. /\ status[o] = "FINISHED" => status'[o] = "FINISHED"
      /\ left <=> status'[o] = "FINISHED" /\ HasRoom(m, buffer_jobs[m] \ {j})
  BY DEF Treated
<1>3. j \in Jobs  OBVIOUS
<1>4. Begun(o)  BY AtHandFacts
<1> HIDE DEF j
<1>5. Place' = [Place EXCEPT ![j] = Place'[j]] /\ (Place'[j] = Place[j] => Place' = Place)
  BY <1>1, <1>3, OneMoved, NotMoved
<1>6. W!HasSlot(m) <=> HasRoom(m, buffer_jobs[m])  BY SameMachine
<1>7. CASE current_op[m] = o
  <2>1. /\ InService(j, m) /\ buffer_jobs[m] \ {j} = buffer_jobs[m]
    BY <1>7, CurrentAlone DEF InService, j
  <2>2. Place[j] = IF status[o] = "FINISHED" THEN "held" ELSE "served"
    BY <1>3, <1>7, <2>1, PlaceRules
  <2>3. left <=> status'[o] = "FINISHED" /\ W!HasSlot(m)
    BY <1>2, <1>6, <2>1
  <2>4. CASE status[o] = "FINISHED"
    <3>1. CASE left
      <4>1. W!Leave(j)
        BY <1>1, <1>2, <1>5, <2>2, <2>3, <2>4, <3>1 DEF W!Leave
      <4> QED  BY <1>3, <4>1 DEF W!Next
    <3>2. CASE ~left
      BY <1>1, <1>2, <1>5, <2>2, <2>4, <3>2 DEF W!pieceVars
    <3> QED  BY <3>1, <3>2
  <2>5. CASE status[o] # "FINISHED"
    <3>1. CASE status'[o] = "FINISHED"
      <4>1. Place'[j] = IF W!HasSlot(m) THEN "stored" ELSE "held"
        BY <1>1, <2>3, <3>1
      <4>2. W!Complete(j)
        BY <1>1, <1>5, <2>2, <2>5, <3>1, <4>1 DEF W!Complete, W!Finish
      <4> QED  BY <1>3, <4>2 DEF W!Next
    <3>2. CASE status'[o] # "FINISHED"
      BY <1>1, <1>2, <1>5, <2>2, <2>5, <3>2 DEF W!pieceVars
    <3> QED  BY <3>1, <3>2
  <2> QED  BY <2>4, <2>5
<1>8. CASE current_op[m] = None /\ o \in Queued(m) \cup Suspended(m)
  <2>1. status[o] # "FINISHED" /\ assigned_machine[o] = m
    BY <1>8 DEF FlowInv, Servicing, QueuedWorkIsThere, Assigned
  <2>2. m \in Options[o] /\ o = <<j, o[2]>> /\ o[2] < NumOps[j]
    BY <2>1, TaskParts DEF Assigned, j
  <2>3. Done[j] = o[2]  BY <1>4, <2>1, DoneUpTo DEF j
  <2>4. W!Due(j, m)  BY <2>2, <2>3 DEF W!Due
  <2>5. ~W!Occupied(m)  BY <1>8, SameMachine
  <2>6. /\ Place[j] \in {"stored", "suspended"}
        /\ HasRoom(m, buffer_jobs[m] \ {j}) <=> Place[j] = "stored" \/ W!HasSlot(m)
    <3>1. CASE o \in Queued(m)
      <4>1. j \in buffer_jobs[m]
        BY <3>1 DEF FlowInv, QueuedWorkIsThere, j
      <4>2. Place[j] = "stored"  BY <1>3, <4>1, PlaceRules DEF Waits
      <4>3. IsFiniteSet(buffer_jobs[m]) /\ Cardinality(buffer_jobs[m]) \in Nat
        BY BufferFinite
      <4>4. Cardinality(buffer_jobs[m] \ {j}) = Cardinality(buffer_jobs[m]) - 1
        BY <4>1, <4>3, FS_RemoveElement
      <4>5. Cardinality(buffer_jobs[m]) <= Capacity[m] /\ Capacity[m] \in Nat
        BY FactoryConstants DEF BufferBound
      <4> QED  BY <4>2, <4>3, <4>4, <4>5 DEF HasRoom
    <3>2. CASE o \in Suspended(m)
      <4>1. Interrupted(j, m)  BY <3>2 DEF Interrupted, j
      <4>2. Place[j] = "suspended"  BY <1>3, <4>1, PlaceRules
      <4>3. j \notin buffer_jobs[m]
        BY <1>3, <4>1 DEF FlowInv, WorkpieceConservation, Waits
      <4>4. buffer_jobs[m] \ {j} = buffer_jobs[m]  BY <4>3
      <4> QED  BY <1>6, <4>2, <4>4
    <3> QED  BY <1>8, <3>1, <3>2
  <2>7. CASE status'[o] = "FINISHED"
    <3>1. Place'[j] = IF Place[j] = "stored" \/ W!HasSlot(m) THEN "stored" ELSE "held"
      BY <1>1, <1>2, <2>6, <2>7
    <3>2. W!Finish(j, Place[j] = "stored" \/ W!HasSlot(m))
      BY <1>1, <1>5, <2>1, <2>7, <3>1 DEF W!Finish
    <3>3. W!Serve(j, m)
      BY <1>1, <2>4, <2>5, <2>6, <3>2 DEF W!Serve
    <3> QED  BY <1>3, <3>3 DEF W!Next
  <2>8. CASE status'[o] # "FINISHED"
    <3>1. Place' = [Place EXCEPT ![j] = "served"] /\ Done' = Done
      BY <1>1, <1>2, <1>5, <2>1, <2>8
    <3>2. W!Serve(j, m)
      BY <1>1, <2>4, <2>5, <2>6, <3>1 DEF W!Serve
    <3> QED  BY <1>3, <3>2 DEF W!Next
  <2> QED  BY <2>7, <2>8
<1> QED  BY <1>7, <1>8 DEF AtHand

-----------------------------------------------------------------------------
(* The invariant is kept.                                                  *)

LEMMA AssignedKept ==
  ASSUME FlowInv, Assigned, UNCHANGED assigned_machine,
         \A m \in Machines, o \in Ops :
            current_op'[m] = o \/ o \in Suspended(m)' =>
              current_op[m] = o \/ o \in Suspended(m) \/ o \in Queued(m)
  PROVE  Assigned'
BY DEF Assigned, FlowInv, QueuedWorkIsThere

LEMMA OverKept ==
  ASSUME Over, UNCHANGED delivered,
         \A j \in Jobs : delivered[j] =>
           /\ material_location'[j] = material_location[j]
           /\ ShippingTask(j) \notin Open'
           /\ status[LastOp(j)] = "FINISHED" => status'[LastOp(j)] = "FINISHED"
  PROVE  Over'
BY DEF Over, ShippingTask, LastOp

\* Steps that only move tasks between the lists, or put an operation on one.
LEMMA RefinementQuiet ==
  ASSUME FlowInv, RefinementInv,
         UNCHANGED <<assigned_machine, current_op, suspended_ops, delivered,
                     material_location, status>>,
         Open' \subseteq Open
  PROVE  RefinementInv'
<1>1. Assigned'  BY AssignedKept DEF RefinementInv, Suspended
<1>2. Over'  BY OverKept DEF RefinementInv, Over
<1> QED  BY <1>1, <1>2 DEF RefinementInv

LEMMA RefinementReschedule ==
  ASSUME TypeInv, FlowInv, RefinementInv,
         NEW C \in SUBSET {o \in Ops : status[o] = "PENDING"},
         NEW R \in SUBSET {a \in AGVs : agv_task[a] # None},
         NEW queues \in NewQueues(C),
         ApplyReschedule(C, R, queues)
  PROVE  RefinementInv'
<1> DEFINE freed == R \cup {a \in AGVs : agv_task[a] \in C}
           back  == {agv_task[a] : a \in freed}
<1>1. /\ \A a \in freed : Releasable(a)
      /\ active_transfers' = active_transfers \ back
      /\ transfers_to_assign' = (transfers_to_assign \cup back) \ C
      /\ buffered_tasks' = buffered_tasks \ C
      /\ assigned_machine' =
           [o \in Ops |-> IF o \in C THEN None ELSE assigned_machine[o]]
      /\ UNCHANGED <<current_op, suspended_ops, delivered, material_location, status>>
  BY DEF ApplyReschedule
<1>2. back \subseteq active_transfers
  BY <1>1, CalledBackIsReady
<1>3. Open' \subseteq Open  BY <1>1, <1>2 DEF Open, Moving
<1>4. Over'  BY <1>1, <1>3, OverKept DEF RefinementInv, Over
<1>5. Assigned'
  <2>1. ASSUME NEW m \in Machines, NEW o \in Ops, current_op[m] = o \/ o \in Suspended(m)
        PROVE  o \notin C
    <3>1. status[o] # "PENDING"
      BY <2>1, FactoryNone, TaskFacts DEF FlowInv, Servicing
    <3> QED  BY <3>1
  <2> QED  BY <1>1, <2>1 DEF RefinementInv, Assigned, Suspended
<1> QED  BY <1>4, <1>5 DEF RefinementInv

LEMMA RefinementRequest ==
  ASSUME TypeInv, FlowInv, RefinementInv, NEW o \in Ops, NEW m \in Machines,
         RequestTransfer(o, m)
  PROVE  RefinementInv'
<1> USE TaskFacts, FactoryNone
<1>1. /\ m \in Options[o] /\ assigned_machine[o] = None
      /\ assigned_machine' = [assigned_machine EXCEPT ![o] = m]
      /\ buffered_tasks' = buffered_tasks \cup {o}
      /\ UNCHANGED <<transfers_to_assign, active_transfers, delivered, material_location>>
  BY DEF RequestTransfer
<1>2. \A j \in Jobs : ShippingTask(j) \notin Ops
  BY FactoryConstants DEF ShippingTask, Ops
<1>3. \A q \in Ops : status'[q] = "FINISHED" <=> status[q] = "FINISHED"
  BY Preempted
<1>4. Over'
  BY <1>1, <1>2, <1>3, OverKept DEF RefinementInv, Over, Open, Moving
<1>5. ASSUME NEW n \in Machines, NEW q \in Ops,
             current_op'[n] = q \/ q \in Suspended(n)'
      PROVE  current_op[n] = q \/ q \in Suspended(n)
  <2>1. CASE UNCHANGED <<current_op, suspended_ops>>
    BY <1>5, <2>1 DEF Suspended
  <2>2. CASE Preemptable(m) /\ Suspend(m)
    <3>1. PICK c \in Ops : c = current_op[m]
      BY <2>2 DEF Preemptable, TypeInv, TypeOK
    <3>2. /\ current_op' = [current_op EXCEPT ![m] = None]
          /\ suspended_ops' = [suspended_ops EXCEPT ![m] = Append(suspended_ops[m], c)]
          /\ suspended_ops \in [Machines -> Seq(Ops)]
      BY <2>2, <3>1 DEF Suspend, TypeInv, TypeOK
    <3>3. /\ Suspended(m)' = Suspended(m) \cup {c}
          /\ n # m => Suspended(n)' = Suspended(n)
      BY <3>2, RangeAppend DEF Suspended
    <3>4. /\ current_op'[m] = None
          /\ n # m => current_op'[n] = current_op[n]
      BY <3>2 DEF TypeInv, TypeOK
    <3> QED  BY <1>5, <3>1, <3>3, <3>4
  <2> QED  BY <2>1, <2>2 DEF RequestTransfer, ReserveForUrgentTransfer
<1>6. Assigned'
  <2>1. /\ assigned_machine'[o] = m
        /\ \A q \in Ops \ {o} : assigned_machine'[q] = assigned_machine[q]
    BY <1>1 DEF TypeInv, TypeOK
  <2> QED  BY <1>1, <1>5, <2>1 DEF RefinementInv, Assigned
<1> QED  BY <1>4, <1>6 DEF RefinementInv

LEMMA RefinementTreats ==
  ASSUME TypeInv, FlowInv, RefinementInv, NEW m \in Machines, Treats(m)
  PROVE  RefinementInv'
<1> USE TaskFacts
<1>1. PICK o \in Ops, left \in BOOLEAN : AtHand(o, m) /\ Treated(o, m, left)
  BY DEF Treats
<1>2. /\ status[o] = "FINISHED" => status'[o] = "FINISHED"
      /\ \A q \in Ops \ {o} : status'[q] = status[q]
      /\ current_op'[m] = IF left THEN None ELSE o
      /\ buffered_tasks' = IF left /\ o = LastOp(o[1])
                           THEN buffered_tasks \cup {ShippingTask(o[1])}
                           ELSE buffered_tasks
      /\ \A n \in Machines \ {m} : current_op'[n] = current_op[n]
      /\ UNCHANGED <<assigned_machine, material_location, delivered,
                     transfers_to_assign, active_transfers>>
  BY <1>1 DEF Treated
<1>3. /\ Suspended(m)' \subseteq Suspended(m)
      /\ \A n \in Machines \ {m} : Suspended(n)' = Suspended(n)
  BY <1>1 DEF Treated, Suspended
<1>4. Assigned'
  <2>1. current_op[m] = o \/ o \in Queued(m) \cup Suspended(m)
    BY <1>1 DEF AtHand
  <2> QED  BY <1>2, <1>3, <2>1, AssignedKept, FactoryNone DEF RefinementInv
<1>5. ~delivered[o[1]]
  <2>1. material_location[o[1]] = Location[m]  BY <1>1, AtHandFacts
  <2> QED  BY <2>1, FactoryLayout DEF RefinementInv, Over
<1>6. \A j \in Jobs : delivered[j] => ShippingTask(j) \notin Open'
  <2>1. \A j \in Jobs : j # o[1] => ShippingTask(j) # ShippingTask(o[1])
    BY DEF ShippingTask
  <2>2. Open' \subseteq Open \cup {ShippingTask(o[1])}
    BY <1>2 DEF Open, Moving
  <2> QED  BY <1>5, <2>1, <2>2 DEF RefinementInv, Over
<1>7. Over'  BY <1>2, <1>6, OverKept DEF RefinementInv
<1> QED  BY <1>4, <1>7 DEF RefinementInv

LEMMA RefinementPickup ==
  ASSUME TypeInv, FlowInv, RefinementInv, NEW a \in AGVs, agv_task[a] # None,
         FinishPickup(a)
  PROVE  RefinementInv'
<1>1. PICK t \in Tasks : t = agv_task[a] /\ t \in Open /\ t[1] \in Jobs
  BY OwnTask DEF Open, Moving
<1>2. ~delivered[t[1]]  BY <1>1, OpenIsNotOver DEF RefinementInv
<1>3. /\ material_location' = [material_location EXCEPT ![t[1]] = None]
      /\ UNCHANGED <<assigned_machine, current_op, suspended_ops, delivered, status,
                     buffered_tasks, transfers_to_assign, active_transfers>>
  BY <1>1 DEF FinishPickup
<1>4. Assigned'  BY <1>3, AssignedKept DEF RefinementInv, Suspended
<1>5. Over'
  BY <1>2, <1>3, OverKept DEF RefinementInv, Over, Open, Moving, TypeInv, TypeOK
<1> QED  BY <1>4, <1>5 DEF RefinementInv

LEMMA RefinementDeliver ==
  ASSUME TypeInv, FlowInv, RefinementInv, NEW a \in AGVs, agv_task[a] # None,
         Deliver(a)
  PROVE  RefinementInv'
<1> USE TaskFacts
<1>1. PICK t \in Tasks : /\ t = agv_task[a] /\ t[1] \in Jobs
                         /\ t \in active_transfers /\ t \in Open /\ Begun(t)
  BY OwnTask DEF Open, Moving, Begun
<1> DEFINE j == t[1]
<1>2. ~delivered[j]  BY <1>1, OpenIsNotOver DEF RefinementInv
<1>3. /\ material_location' = [material_location EXCEPT ![j] = Destination(t)]
      /\ active_transfers' = active_transfers \ {t}
      /\ UNCHANGED <<assigned_machine, current_op, suspended_ops, status,
                     buffered_tasks, transfers_to_assign>>
  BY <1>1 DEF Deliver
<1>4. Assigned'  BY <1>3, AssignedKept DEF RefinementInv, Suspended
<1>5. Open' = Open \ {t}
  BY <1>1, <1>3 DEF Open, Moving, FlowInv, Owners
<1>6. /\ material_location'[j] = Destination(t)
      /\ \A k \in Jobs \ {j} : material_location'[k] = material_location[k]
  BY <1>1, <1>3 DEF TypeInv, TypeOK
<1>7. CASE IsShipping(t)
  <2>1. t \notin Ops /\ t = ShippingTask(j)  BY <1>1, <1>7, ShippingIsLast
  <2>2. status[LastOp(j)] = "FINISHED"
    BY <1>1, <2>1, ShippingIsLast DEF FlowInv, OpenIsAhead
  <2>3. Destination(t) = FinishedDest  BY <1>7 DEF Destination
  <2>4. \A k \in Jobs \ {j} : delivered'[k] = delivered[k]
    BY <1>1, <1>7 DEF Deliver, TypeInv, TypeOK
  <2>5. ASSUME NEW k \in Jobs, delivered'[k]
        PROVE  /\ status'[LastOp(k)] = "FINISHED"
               /\ ShippingTask(k) \notin Open'
               /\ material_location'[k] = FinishedDest
    <3>1. CASE k = j
      BY <1>3, <1>5, <1>6, <2>1, <2>2, <2>3, <3>1
    <3>2. CASE k # j
      BY <1>3, <1>5, <1>6, <2>4, <2>5, <3>2 DEF RefinementInv, Over
    <3> QED  BY <3>1, <3>2
  <2>6. Over'  BY <2>5 DEF Over, LastOp, ShippingTask
  <2> QED  BY <1>4, <2>6 DEF RefinementInv
<1>8. CASE ~IsShipping(t)
  <2>1. UNCHANGED delivered  BY <1>1, <1>8 DEF Deliver
  <2>2. Over'
    BY <1>2, <1>3, <1>5, <1>6, <2>1, OverKept DEF RefinementInv, Over
  <2> QED  BY <1>4, <2>2 DEF RefinementInv
<1> QED  BY <1>7, <1>8

-----------------------------------------------------------------------------
(* The whole step, and the theorem.                                        *)

LEMMA RefinementInit == Init => RefinementInv /\ W!Init
<1> SUFFICES ASSUME Init PROVE RefinementInv /\ W!Init  OBVIOUS
<1> USE FactoryNone, TaskFacts
<1>1. Assigned  BY DEF Init, Assigned, Suspended, Range
<1>2. Over  BY DEF Init, Over
<1>3. ASSUME NEW j \in Jobs
      PROVE  PlaceOf(j) = "stored" /\ material_location[j] = RawSource
             /\ FinishedOps(j) = {}
  BY DEF Init, PlaceOf, InService, Interrupted, Suspended, Range, FinishedOps
<1>4. Place = [j \in Jobs |-> "stored"]  BY <1>3 DEF Place
<1>5. At = [j \in Jobs |-> None]  BY <1>3, MachineAtIs DEF At
<1>6. Done = [j \in Jobs |-> 0]  BY <1>3, FS_EmptySet DEF Done
<1> QED  BY <1>1, <1>2, <1>4, <1>5, <1>6 DEF RefinementInv, W!Init

\* Steps between two steps in the life of a workpiece.
LEMMA Between ==
  ASSUME FlowInv, RefinementInv,
         UNCHANGED <<assigned_machine, current_op, suspended_ops, delivered,
                     material_location, carrier_id, status>>,
         Open' \subseteq Open
  PROVE  RefinementInv' /\ [W!Next]_(W!pieceVars)
BY RefinementQuiet, Untouched

LEMMA VehicleRefines ==
  ASSUME TypeInv, FlowInv, RefinementInv, NEW a \in AGVs, Vehicle(a)
  PROVE  RefinementInv' /\ [W!Next]_(W!pieceVars)
<1>1. CASE PickupAtOnce(a) \/ CompletePickup(a)
  <2>1. agv_phase[a] \in {"TO_PICKUP", "PICKING"} /\ FinishPickup(a)
    BY <1>1 DEF PickupAtOnce, CompletePickup, AtPickup
  <2>2. agv_task[a] # None /\ ~loaded[a]  BY <2>1 DEF TypeInv, VehiclePhase
  <2> QED  BY <2>1, <2>2, PickupPiece, RefinementPickup DEF RefinementInv
<1>2. CASE DropoffAtOnce(a) \/ CompleteDropoff(a)
  <2>1. agv_phase[a] \in {"TO_DROPOFF", "DROPPING"} /\ FinishDropoff(a)
    BY <1>2 DEF DropoffAtOnce, CompleteDropoff, AtDropoff
  <2>2. agv_task[a] # None /\ loaded[a]  BY <2>1 DEF TypeInv, VehiclePhase
  <2>3. CASE ~NoRoomFor(agv_task[a]) /\ Deliver(a)
    BY <2>2, <2>3, DeliverPiece, RefinementDeliver DEF RefinementInv
  <2>4. CASE UNCHANGED <<planVars, serviceVars, jobVars, queueVars, workVars, taskVars>>
    BY <2>4, Between DEF Open, Moving
  <2> QED  BY <2>1, <2>3, <2>4 DEF FinishDropoff
<1>3. CASE SettleWaits(a) \/ StartPickup(a) \/ StartDropoff(a) \/ KeepHandling(a)
  <2>1. UNCHANGED <<planVars, serviceVars, jobVars, queueVars, workVars, taskVars>>
    BY <1>3 DEF SettleWaits, StartPickup, StartDropoff, KeepHandling
  <2> QED  BY <2>1, Between DEF Open, Moving
<1> QED  BY <1>1, <1>2, <1>3 DEF Vehicle

LEMMA DispatchRefines ==
  ASSUME TypeInv, FlowInv, RefinementInv, Dispatch
  PROVE  RefinementInv' /\ [W!Next]_(W!pieceVars)
<1>1. CASE BeginTaskStep \/ BeginAssign \/ \E t \in Tasks : KeepBuffered(t)
  BY <1>1, Between DEF BeginTaskStep, BeginAssign, KeepBuffered, Open, Moving
<1>2. ASSUME NEW t \in Tasks, AdmitWithoutTransport(t)
      PROVE  RefinementInv' /\ [W!Next]_(W!pieceVars)
  BY <1>2, Between DEF AdmitWithoutTransport, Open, Moving
<1>3. ASSUME NEW t \in Tasks, OfferTask(t)
      PROVE  RefinementInv' /\ [W!Next]_(W!pieceVars)
  <2>1. t \in buffered_tasks
    BY <1>3 DEF OfferTask, TypeInv, Committed
  <2> QED  BY <1>3, <2>1, Between DEF OfferTask, Open, Moving
<1>4. ASSUME NEW a \in AGVs, NEW t \in Tasks, AssignTransfer(a, t)
      PROVE  RefinementInv' /\ [W!Next]_(W!pieceVars)
  BY <1>4, Between DEF AssignTransfer, Activate, Open, Moving
<1> QED  BY <1>1, <1>2, <1>3, <1>4 DEF Dispatch

LEMMA RefinementNext ==
  TypeInv /\ FlowInv /\ BufferBound /\ RefinementInv /\ [Next]_vars
    => RefinementInv' /\ [W!Next]_(W!pieceVars)
<1> SUFFICES ASSUME TypeInv, FlowInv, BufferBound, RefinementInv, [Next]_vars
             PROVE  RefinementInv' /\ [W!Next]_(W!pieceVars)
  OBVIOUS
<1>1. CASE Plan
  <2>1. CASE Reschedule
    <3>1. UNCHANGED <<delivered, carrier_id, material_location, current_op,
                      suspended_ops, status>>
      BY <2>1 DEF Reschedule, ApplyReschedule
    <3>2. RefinementInv'  BY <2>1, RefinementReschedule DEF Reschedule
    <3> QED  BY <3>1, <3>2, Untouched
  <2>2. CASE \/ \E m \in Machines : BreakMachine(m) \/ RepairMachine(m)
             \/ \E a \in AGVs : BreakAgv(a) \/ RepairAgv(a)
    <3>1. UNCHANGED <<planVars, serviceVars, jobVars, queueVars, workVars, taskVars>>
      BY <2>2 DEF BreakMachine, RepairMachine, BreakAgv, RepairAgv
    <3> QED  BY <3>1, Between DEF Open, Moving
  <2>3. CASE \E o \in Ops, m \in Machines : RequestTransfer(o, m)
    BY <2>3, RequestPiece, RefinementRequest DEF RefinementInv
  <2> QED  BY <1>1, <2>1, <2>2, <2>3 DEF Plan
<1>2. CASE \E m \in Machines : Machine(m)
  <2>1. PICK m \in Machines : Machine(m)  BY <1>2
  <2>2. CASE Treats(m)
    BY <2>2, TreatedPiece, RefinementTreats DEF Treats, RefinementInv
  <2>3. CASE HoldForUrgent(m) \/ Deactivate(m)
    BY <2>3, Between DEF HoldForUrgent, Deactivate, Open, Moving
  <2> QED  BY <2>1, <2>2, <2>3, MachineTreats
<1>3. CASE Transport
  <2>1. CASE BeginSettle \/ EndStep \/ \E next \in [AGVs -> Cells] : Move(next)
    BY <2>1, Between DEF BeginSettle, EndStep, Move, Open, Moving
  <2> QED  BY <1>3, <2>1, VehicleRefines DEF Transport
<1>4. CASE BeginMachines \/ UNCHANGED vars
  BY <1>4, Between DEF BeginMachines, vars, Open, Moving
<1> QED  BY <1>1, <1>2, <1>3, <1>4, DispatchRefines DEF Next

\* Whatever schedulers, routers and reschedules ask for, and however machines
\* and vehicles fail, all that the methods of assign_env.py do to a workpiece
\* is to carry it through its operations one by one, on a machine eligible for
\* each, served one at a time, and to ship it when they are finished.
THEOREM FactoryImplementsWorkpiece == Spec => ImplementsWorkpiece
<1>1. Init => RefinementInv /\ W!Init  BY RefinementInit
<1>2. TypeInv /\ FlowInv /\ BufferBound /\ RefinementInv /\ [Next]_vars
        => RefinementInv' /\ [W!Next]_(W!pieceVars)
  BY RefinementNext
<1> QED
  BY <1>1, <1>2, FlowHolds, BufferNeverOverflows, PTL
  DEF Spec, ImplementsWorkpiece, W!Spec

-----------------------------------------------------------------------------
(* Which jobs the admission test leaves: none, or some that stay stuck.    *)

VARIABLES claims, needs

INSTANCE DrainOrder

\* BaselineFactory has the test under a name of its own.
LEMMA SameTest ==
  ASSUME NEW cl, NEW nd
  PROVE  /\ Buffers!WithinCapacity(cl) <=> WithinCapacity(cl)
         /\ Buffers!Drains(cl, nd) <=> Drains(cl, nd)
<1>1. Rest(cl, nd) = Buffers!Rest(cl, nd)
  BY DEF Buffers!Rest, Buffers!Possible, Buffers!CanDrain, Buffers!Admitted,
         Buffers!Cardinality, Buffers!IsFiniteSet,
         Rest, Possible, CanDrain, Admitted, Cardinality, IsFiniteSet
<1>2. \A S : Buffers!Cardinality(S) = Cardinality(S)
  BY DEF Buffers!Cardinality, Cardinality, Buffers!IsFiniteSet, IsFiniteSet
<1>3. Buffers!WithinCapacity(cl) <=> WithinCapacity(cl)
  BY <1>2 DEF Buffers!WithinCapacity, WithinCapacity
<1>4. Buffers!Drains(cl, nd) <=> Drains(cl, nd)
  BY <1>1 DEF Buffers!Drains, Drains
<1> QED BY <1>3, <1>4

LEMMA SameAdmission ==
  ASSUME NEW cl, NEW nd, NEW j, NEW m
  PROVE  Buffers!SafeToAdmit(cl, nd, j, m) <=> SafeToAdmit(cl, nd, j, m)
BY SameTest DEF Buffers!SafeToAdmit, SafeToAdmit

Safe == WithinCapacity(Claims) /\ Drains(Claims, Needs(None, None))

LEMMA SafeIs == Safe <=> StaysSafe
BY SameTest DEF Safe, StaysSafe

\* Claims cl that fit the buffers, and machines nd to choose from.
Given(cl, nd) == /\ cl \in [Machines -> SUBSET Jobs] /\ WithinCapacity(cl)
                 /\ nd \in [Jobs -> SUBSET SUBSET Machines]

\* None of the jobs U can be drained while the others of U keep their claims.
Stuck(U, cl, nd) == U \subseteq Jobs /\ Possible(U, cl, nd) = {}

\* Among sets of jobs there is a smallest one.
LEMMA SmallestSet ==
  ASSUME NEW T, T \subseteq SUBSET Jobs, T # {}
  PROVE  \E S \in T : \A U \in T : U \subseteq S => U = S
<1>1. FiniteSubsetsOf(Jobs) = SUBSET Jobs
  BY FactoryFinite, FS_FiniteSubsetsOfFinite
<1>2. PICK S \in T : \A U \in T : ~(<<U, S>> \in StrictSubsetOrdering(Jobs))
  BY <1>1, FS_StrictSubsetOrderingWellFounded, WFMin
<1> QED BY <1>2 DEF StrictSubsetOrdering

LEMMA Slots == \A m \in Machines : Capacity[m] \in Nat \ {0}
BY FactoryConstants

\* There is a slot beside fewer jobs if there is one beside more.
LEMMA SlotBesideFewer ==
  ASSUME NEW m \in Machines, NEW A, NEW B, A \subseteq B, B \subseteq Jobs,
         Cardinality(B) < Capacity[m]
  PROVE  Cardinality(A) < Capacity[m]
<1>1. IsFiniteSet(B) /\ IsFiniteSet(A) /\ Cardinality(A) <= Cardinality(B)
  BY FactoryFinite, FS_Subset
<1>2. Cardinality(A) \in Nat /\ Cardinality(B) \in Nat
  BY <1>1, FS_CardinalityType
<1> QED BY <1>1, <1>2, FactoryConstants

\* What it takes for j of S to be drained.
LEMMA PossibleIs ==
  ASSUME NEW cl, NEW nd, Given(cl, nd), NEW S \in SUBSET Jobs, NEW j \in S
  PROVE  j \in Possible(S, cl, nd) <=>
           \A options \in nd[j] : \E m \in options :
             /\ m \in Machines
             /\ Cardinality((cl[m] \cap S) \ {j}) < Capacity[m]
<1>1. \A options \in nd[j] : options \subseteq Machines
  BY DEF Given
<1> QED BY <1>1 DEF Possible, CanDrain

\* The fewer remain, the easier it is to drain one of them.
LEMMA StaysPossible ==
  ASSUME NEW cl, NEW nd, Given(cl, nd), NEW S \in SUBSET Jobs, NEW U \in SUBSET S,
         NEW j \in U, j \in Possible(S, cl, nd)
  PROVE  j \in Possible(U, cl, nd)
<1>1. ASSUME NEW m \in Machines, Cardinality((cl[m] \cap S) \ {j}) < Capacity[m]
      PROVE  Cardinality((cl[m] \cap U) \ {j}) < Capacity[m]
  BY <1>1, SlotBesideFewer
<1>2. U \in SUBSET Jobs /\ j \in S
  OBVIOUS
<1>3. \A options \in nd[j] : \E m \in options :
        m \in Machines /\ Cardinality((cl[m] \cap S) \ {j}) < Capacity[m]
  BY <1>2, PossibleIs
<1> QED BY <1>1, <1>2, <1>3, PossibleIs

\* All that remain to be stuck, whatever the order in which others are drained.
Core(S, cl, nd) == UNION {U \in SUBSET S : Stuck(U, cl, nd)}

LEMMA CoreOfStuck ==
  ASSUME NEW cl, NEW nd, NEW S \in SUBSET Jobs, Possible(S, cl, nd) = {}
  PROVE  Core(S, cl, nd) = S
BY DEF Core, Stuck

LEMMA CoreKept ==
  ASSUME NEW cl, NEW nd, Given(cl, nd), NEW S \in SUBSET Jobs, NEW j \in Possible(S, cl, nd)
  PROVE  Core(S \ {j}, cl, nd) = Core(S, cl, nd)
<1>1. ASSUME NEW U \in SUBSET S, Stuck(U, cl, nd) PROVE U \subseteq S \ {j}
  <2>1. j \notin U
    BY <1>1, StaysPossible DEF Stuck
  <2> QED BY <2>1
<1> QED BY <1>1 DEF Core

\* The loop leaves what is stuck in any case.
LEMMA RestIsCore ==
  ASSUME NEW cl, NEW nd, Given(cl, nd)
  PROVE  Rest(cl, nd) = Core(Admitted(cl), cl, nd)
<1> DEFINE next(S)  == S \ {CHOOSE j \in Possible(S, cl, nd) : TRUE}
           loop(g) == [S \in SUBSET Jobs |-> IF Possible(S, cl, nd) = {} THEN S
                                             ELSE g[next(S)]]
           core == [S \in SUBSET Jobs |-> Core(S, cl, nd)]
           rest == CHOOSE g : g = loop(g)
<1>1. ASSUME NEW S \in SUBSET Jobs, Possible(S, cl, nd) # {}
      PROVE  /\ next(S) \in SUBSET Jobs /\ next(S) # S /\ next(S) \subseteq S
             /\ Core(next(S), cl, nd) = Core(S, cl, nd)
  <2> DEFINE j == CHOOSE j \in Possible(S, cl, nd) : TRUE
  <2>1. j \in Possible(S, cl, nd)
    BY <1>1
  <2>2. j \in S
    BY <2>1 DEF Possible
  <2> HIDE DEF j
  <2>3. Core(S \ {j}, cl, nd) = Core(S, cl, nd)
    BY <2>1, CoreKept
  <2>4. next(S) = S \ {j}
    BY DEF j
  <2> HIDE DEF next
  <2> QED BY <2>2, <2>3, <2>4
<1> HIDE DEF next
<1>2. core = loop(core)
  <2>1. ASSUME NEW S \in SUBSET Jobs
        PROVE  core[S] = IF Possible(S, cl, nd) = {} THEN S ELSE core[next(S)]
    BY <1>1, CoreOfStuck
  <2> QED BY <2>1
<1>3. rest = loop(rest)
  BY <1>2
<1>4. ASSUME NEW g, g = loop(g), NEW S \in SUBSET Jobs PROVE g[S] = core[S]
  <2> DEFINE T == {U \in SUBSET Jobs : g[U] # core[U]}
  <2> SUFFICES ASSUME T # {} PROVE FALSE
    OBVIOUS
  <2>1. PICK U \in T : \A V \in T : V \subseteq U => V = U
    <3>1. T \subseteq SUBSET Jobs
      OBVIOUS
    <3> HIDE DEF T
    <3> QED BY <3>1, SmallestSet
  <2>2. U \in SUBSET Jobs /\ g[U] # core[U]
    BY <2>1
  <2>3. g[U] = IF Possible(U, cl, nd) = {} THEN U ELSE g[next(U)]
    BY <1>4, <2>2
  <2>4. core[U] = IF Possible(U, cl, nd) = {} THEN U ELSE core[next(U)]
    BY <2>2, <1>1, CoreOfStuck
  <2>5. Possible(U, cl, nd) # {} /\ g[next(U)] # core[next(U)]
    BY <2>2, <2>3, <2>4
  <2>6. next(U) \in SUBSET Jobs /\ next(U) # U /\ next(U) \subseteq U
    BY <1>1, <2>2, <2>5
  <2> QED BY <2>1, <2>5, <2>6
<1>5. Admitted(cl) \in SUBSET Jobs
  BY DEF Admitted, Given
<1>6. Rest(cl, nd) = rest[Admitted(cl)]
  BY DEF Rest, next
<1> HIDE DEF rest, loop
<1>7. rest[Admitted(cl)] = core[Admitted(cl)]
  BY <1>3, <1>4, <1>5
<1> QED BY <1>5, <1>6, <1>7

LEMMA DrainsIs ==
  ASSUME NEW cl, NEW nd, Given(cl, nd)
  PROVE  Drains(cl, nd) <=> \A U \in SUBSET Admitted(cl) : Stuck(U, cl, nd) => U = {}
BY RestIsCore DEF Drains, Core

-----------------------------------------------------------------------------
\* An order in which the jobs of S can be drained, the first of k first.
Orders(S, k, order, cl, nd) ==
  /\ order \in [1..k -> S]
  /\ \A i, x \in 1..k : order[i] = order[x] => i = x
  /\ \A i \in 1..k : \A options \in nd[order[i]] : \E m \in options :
       /\ m \in Machines
       /\ Cardinality({order[x] : x \in {x \in 1..k : x > i}} \cap cl[m]) < Capacity[m]

\* A number of steps from 1 to n misses the first at which something holds.
LEMMA LeastOf ==
  ASSUME NEW n \in Nat, NEW T, T \subseteq 1..n, T # {}
  PROVE  \E i \in T : \A x \in T : i <= x
<1>1. T \subseteq Nat
  OBVIOUS
<1>2. PICK i \in T : \A x \in T : ~(<<x, i>> \in OpToRel(<, Nat))
  BY <1>1, NatLessThanWellFounded, WFMin
<1>3. i \in Nat /\ \A x \in T : x \in Nat /\ ~(x < i)
  BY <1>1, <1>2 DEF OpToRel
<1>4. \A x \in T : i <= x
  BY <1>3
<1> QED BY <1>2, <1>4

\* No job is stuck among those that can be drained in some order.
LEMMA OrderedIsFree ==
  ASSUME NEW cl, NEW nd, Given(cl, nd), NEW S \in SUBSET Jobs, NEW order,
         Orders(S, Cardinality(S), order, cl, nd),
         NEW U \in SUBSET S, Stuck(U, cl, nd)
  PROVE  U = {}
<1> DEFINE k == Cardinality(S)
<1>0. IsFiniteSet(S) /\ k \in Nat
  BY FactoryFinite, FS_Subset, FS_CardinalityType
<1> HIDE DEF k
<1>1. /\ IsFiniteSet(S) /\ k \in Nat
      /\ Cardinality(1..k) = k /\ IsFiniteSet(1..k)
  BY <1>0, FS_Interval
<1>2. order \in [1..k -> S] /\ \A i, x \in 1..k : order[i] = order[x] => i = x
  BY DEF Orders, k
<1>3. order \in Surjection(1..k, S)
  <2>1. order \in Injection(1..k, S)
    BY <1>2 DEF Injection, IsInjective
  <2> QED BY <1>1, <2>1, FS_Injection DEF k
<1>4. \A j \in S : \E i \in 1..k : order[i] = j
  BY <1>3 DEF Surjection
<1> SUFFICES ASSUME U # {} PROVE FALSE
  OBVIOUS
<1> DEFINE T == {i \in 1..k : order[i] \in U}
<1>5. PICK i \in T : \A x \in T : i <= x
  <2>1. T # {} /\ T \subseteq 1..k
    BY <1>4
  <2> HIDE DEF T
  <2> QED BY <1>1, <2>1, LeastOf
<1> DEFINE j == order[i]
           later == {order[x] : x \in {x \in 1..k : x > i}}
<1>6. i \in 1..k /\ j \in U
  BY <1>5
<1>7. U \ {j} \subseteq later
  <2> SUFFICES ASSUME NEW u \in U, u # j PROVE u \in later
    OBVIOUS
  <2>1. PICK x \in 1..k : order[x] = u
    BY <1>4
  <2>2. i <= x /\ i # x
    BY <1>5, <2>1
  <2> QED BY <1>1, <1>6, <2>1, <2>2
<1>8. later \subseteq Jobs
  BY <1>2
<1>9. \A options \in nd[j] : \E m \in options :
        m \in Machines /\ Cardinality(later \cap cl[m]) < Capacity[m]
  BY <1>6 DEF Orders, k
<1> HIDE DEF j, later
<1>10. ASSUME NEW m \in Machines, Cardinality(later \cap cl[m]) < Capacity[m]
       PROVE  Cardinality((cl[m] \cap U) \ {j}) < Capacity[m]
  <2>1. (cl[m] \cap U) \ {j} \subseteq later \cap cl[m]
    BY <1>7
  <2> QED BY <1>8, <1>10, <2>1, SlotBesideFewer
<1>11. j \in Possible(U, cl, nd)
  BY <1>6, <1>9, <1>10, PossibleIs
<1> QED BY <1>11 DEF Stuck

\* A job that can be drained is put before the others.
LEMMA FirstOfOrder ==
  ASSUME NEW cl, NEW nd, Given(cl, nd), NEW S \in SUBSET Jobs,
         NEW j \in Possible(S, cl, nd), NEW k \in Nat, NEW rest,
         Orders(S \ {j}, k, rest, cl, nd)
  PROVE  \E order : Orders(S, k + 1, order, cl, nd)
<1> DEFINE order == [i \in 1..(k + 1) |-> IF i = 1 THEN j ELSE rest[i - 1]]
           later(i) == {order[x] : x \in {x \in 1..(k + 1) : x > i}}
<1>1. j \in S
  BY DEF Possible
<1>2. /\ rest \in [1..k -> S \ {j}] /\ \A i, x \in 1..k : rest[i] = rest[x] => i = x
      /\ \A i \in 1..k : \A options \in nd[rest[i]] : \E m \in options :
           /\ m \in Machines
           /\ Cardinality({rest[x] : x \in {x \in 1..k : x > i}} \cap cl[m]) < Capacity[m]
  BY DEF Orders
<1>3. order[1] = j /\ \A i \in 2..(k + 1) : i - 1 \in 1..k /\ order[i] = rest[i - 1]
  OBVIOUS
<1>4. order \in [1..(k + 1) -> S]
  BY <1>1, <1>2
<1>5. \A i \in 1..(k + 1) : i = 1 \/ i \in 2..(k + 1)
  OBVIOUS
<1>6. 1 \in 1..(k + 1) /\ 1 \notin 2..(k + 1)
  OBVIOUS
<1> HIDE DEF order
<1>7. \A i, x \in 1..(k + 1) : order[i] = order[x] => i = x
  <2> SUFFICES ASSUME NEW i \in 1..(k + 1), NEW x \in 1..(k + 1), order[i] = order[x]
               PROVE  i = x
    OBVIOUS
  <2>1. CASE i = 1 \/ x = 1
    BY <1>2, <1>3, <1>5, <2>1
  <2>2. CASE i \in 2..(k + 1) /\ x \in 2..(k + 1)
    <3>1. i - 1 = x - 1
      BY <1>2, <1>3, <2>2
    <3> QED BY <2>2, <3>1
  <2> QED BY <1>5, <2>1, <2>2
<1>8. later(1) \subseteq S \ {j}
  <2>1. \A x \in 1..(k + 1) : x > 1 => x \in 2..(k + 1)
    OBVIOUS
  <2> QED BY <1>2, <1>3, <2>1
<1>9. \A i \in 2..(k + 1) : later(i) \subseteq {rest[x] : x \in {x \in 1..k : x > i - 1}}
  <2> SUFFICES ASSUME NEW i \in 2..(k + 1), NEW x \in 1..(k + 1), x > i
               PROVE  order[x] \in {rest[y] : y \in {y \in 1..k : y > i - 1}}
    OBVIOUS
  <2>1. x \in 2..(k + 1) /\ x - 1 > i - 1
    OBVIOUS
  <2> QED BY <1>3, <2>1
<1> HIDE DEF later
<1>10. ASSUME NEW i \in 1..(k + 1), NEW options \in nd[order[i]]
       PROVE  \E m \in options : m \in Machines /\ Cardinality(later(i) \cap cl[m]) < Capacity[m]
  <2>1. CASE i = 1
    <3>1. PICK m \in options : /\ m \in Machines
                               /\ Cardinality((cl[m] \cap S) \ {j}) < Capacity[m]
      BY <1>1, <1>3, <2>1, PossibleIs
    <3>2. later(i) \cap cl[m] \subseteq (cl[m] \cap S) \ {j}
      BY <1>8, <2>1
    <3> QED BY <3>1, <3>2, SlotBesideFewer
  <2>2. CASE i \in 2..(k + 1)
    <3> DEFINE others == {rest[x] : x \in {x \in 1..k : x > i - 1}}
    <3>1. PICK m \in options : m \in Machines /\ Cardinality(others \cap cl[m]) < Capacity[m]
      BY <1>2, <1>3, <2>2
    <3>2. others \subseteq Jobs
      BY <1>2
    <3>3. later(i) \subseteq others
      BY <1>9, <2>2
    <3> HIDE DEF others
    <3>4. later(i) \cap cl[m] \subseteq others \cap cl[m] /\ others \cap cl[m] \subseteq Jobs
      BY <3>2, <3>3
    <3> QED BY <3>1, <3>4, SlotBesideFewer
  <2> QED BY <1>5, <2>1, <2>2
<1>11. \A i \in 1..(k + 1) : \A options \in nd[order[i]] : \E m \in options :
         m \in Machines /\ Cardinality(later(i) \cap cl[m]) < Capacity[m]
  BY <1>10
<1>12. Orders(S, k + 1, order, cl, nd)
  BY <1>4, <1>7, <1>11 DEF Orders, later
<1> QED BY <1>12

\* Where none is stuck the jobs can be put in order.
LEMMA FreeIsOrdered ==
  ASSUME NEW cl, NEW nd, Given(cl, nd), NEW S \in SUBSET Jobs,
         \A U \in SUBSET S : Stuck(U, cl, nd) => U = {}
  PROVE  \E order : Orders(S, Cardinality(S), order, cl, nd)
<1> DEFINE Ordered(U) == \E order : Orders(U, Cardinality(U), order, cl, nd)
           T == {U \in SUBSET S : ~Ordered(U)}
<1> SUFFICES ASSUME T # {} PROVE FALSE
  <2>1. S \in SUBSET S
    OBVIOUS
  <2> QED BY <2>1
<1>1. PICK U \in T : \A V \in T : V \subseteq U => V = U
  <2>1. T \subseteq SUBSET Jobs
    OBVIOUS
  <2> HIDE DEF T
  <2> QED BY <2>1, SmallestSet
<1>2. U \in SUBSET S /\ ~Ordered(U)
  BY <1>1
<1>3. U # {}
  <2> DEFINE order == [i \in 1..0 |-> 0]
  <2>1. Orders({}, 0, order, cl, nd)
    BY DEF Orders
  <2>2. Cardinality({}) = 0
    BY FS_EmptySet
  <2> HIDE DEF order
  <2> QED BY <1>2, <2>1, <2>2
<1>4. PICK j : j \in Possible(U, cl, nd)
  BY <1>2, <1>3 DEF Stuck
<1>5. j \in U
  BY <1>4 DEF Possible
<1>6. Ordered(U \ {j})
  <2>1. U \ {j} \in SUBSET S /\ U \ {j} # U /\ U \ {j} \subseteq U
    BY <1>2, <1>5
  <2> HIDE DEF Ordered
  <2>2. U \ {j} \notin T
    BY <1>1, <2>1
  <2> QED BY <2>1, <2>2
<1>7. /\ Cardinality(U \ {j}) \in Nat /\ Cardinality(U) \in Nat
      /\ Cardinality(U \ {j}) = Cardinality(U) - 1
  BY <1>2, <1>5, FactoryFinite, FS_Subset, FS_CardinalityType, FS_RemoveElement
<1>8. PICK rest : Orders(U \ {j}, Cardinality(U \ {j}), rest, cl, nd)
  BY <1>6
<1>9. \E order : Orders(U, Cardinality(U \ {j}) + 1, order, cl, nd)
  BY <1>2, <1>4, <1>7, <1>8, FirstOfOrder
<1>10. Cardinality(U \ {j}) + 1 = Cardinality(U)
  BY <1>7
<1> QED BY <1>2, <1>9, <1>10

\* Admitting j to m after all its operations have a slot beside the others.
LEMMA MayAdmit ==
  ASSUME NEW cl, NEW nd, Given(cl, nd), Drains(cl, nd),
         NEW j \in Admitted(cl), j \in Possible(Admitted(cl), cl, nd),
         NEW m \in Machines, Cardinality(cl[m] \ {j}) < Capacity[m]
  PROVE  SafeToAdmit(cl, [nd EXCEPT ![j] = @ \cup {{m}}], j, m)
<1> DEFINE trial == [cl EXCEPT ![m] = @ \cup {j}]
           more  == [nd EXCEPT ![j] = @ \cup {{m}}]
<1>1. j \in Jobs /\ Admitted(cl) \in SUBSET Jobs
  BY DEF Admitted, Given
<1>2. /\ trial \in [Machines -> SUBSET Jobs]
      /\ trial[m] = cl[m] \cup {j} /\ \A n \in Machines \ {m} : trial[n] = cl[n]
  BY <1>1 DEF Given
<1>3. /\ more \in [Jobs -> SUBSET SUBSET Machines]
      /\ more[j] = nd[j] \cup {{m}} /\ \A i \in Jobs \ {j} : more[i] = nd[i]
  BY <1>1 DEF Given
<1> HIDE DEF trial, more
<1>4. Admitted(trial) = Admitted(cl)
  BY <1>2 DEF Admitted
<1>5. WithinCapacity(trial)
  <2>1. Cardinality(cl[m] \cup {j}) <= Capacity[m]
    <3>1. IsFiniteSet(cl[m] \ {j}) /\ Cardinality(cl[m] \ {j}) \in Nat
      BY FactoryFinite, FS_Subset, FS_CardinalityType DEF Given
    <3>2. Cardinality((cl[m] \ {j}) \cup {j}) = Cardinality(cl[m] \ {j}) + 1
      BY <3>1, FS_AddElement
    <3>3. (cl[m] \ {j}) \cup {j} = cl[m] \cup {j}
      OBVIOUS
    <3> QED BY <3>1, <3>2, <3>3, Slots
  <2> QED BY <1>2, <2>1 DEF WithinCapacity, Given
<1>6. Given(trial, more)
  BY <1>2, <1>3, <1>5 DEF Given
<1>7. ASSUME NEW U \in SUBSET Admitted(cl), j \in U PROVE ~Stuck(U, trial, more)
  <2>1. ASSUME NEW n \in Machines, Cardinality(cl[n] \ {j}) < Capacity[n]
        PROVE  Cardinality((trial[n] \cap U) \ {j}) < Capacity[n]
    <3>1. (trial[n] \cap U) \ {j} \subseteq cl[n] \ {j} /\ cl[n] \ {j} \subseteq Jobs
      BY <1>2 DEF Given
    <3> QED BY <2>1, <3>1, SlotBesideFewer
  <2>2. \A n \in Machines : cl[n] \cap Admitted(cl) = cl[n]
    BY DEF Admitted
  <2>3. \A options \in nd[j] : \E n \in options :
          n \in Machines /\ Cardinality(cl[n] \ {j}) < Capacity[n]
    <3>1. \A options \in nd[j] : \E n \in options :
            n \in Machines /\ Cardinality((cl[n] \cap Admitted(cl)) \ {j}) < Capacity[n]
      BY <1>1, PossibleIs
    <3> QED BY <2>2, <3>1
  <2>4. \A options \in more[j] : \E n \in options :
          n \in Machines /\ Cardinality((trial[n] \cap U) \ {j}) < Capacity[n]
    BY <1>3, <2>1, <2>3
  <2>5. j \in Possible(U, trial, more)
    BY <1>1, <1>6, <1>7, <2>4, PossibleIs
  <2> QED BY <2>5 DEF Stuck
<1>8. ASSUME NEW U \in SUBSET Admitted(cl), j \notin U, Stuck(U, trial, more) PROVE U = {}
  <2>1. \A n \in Machines : trial[n] \cap U = cl[n] \cap U
    BY <1>2, <1>8
  <2>2. \A i \in U : i \in Jobs /\ more[i] = nd[i]
    BY <1>1, <1>3, <1>8
  <2>3. ASSUME NEW i \in U PROVE i \in Possible(U, cl, nd) <=> i \in Possible(U, trial, more)
    <3>1. U \in SUBSET Jobs /\ more[i] = nd[i]
      BY <1>1, <2>2
    <3>2. i \in Possible(U, cl, nd) <=>
            \A options \in nd[i] : \E n \in options :
              n \in Machines /\ Cardinality((cl[n] \cap U) \ {i}) < Capacity[n]
      BY <3>1, PossibleIs
    <3>3. i \in Possible(U, trial, more) <=>
            \A options \in more[i] : \E n \in options :
              n \in Machines /\ Cardinality((trial[n] \cap U) \ {i}) < Capacity[n]
      BY <1>6, <3>1, PossibleIs
    <3> QED BY <2>1, <3>1, <3>2, <3>3
  <2>4. Stuck(U, cl, nd)
    BY <1>8, <2>3 DEF Stuck, Possible
  <2> QED BY <2>4, DrainsIs
<1>9. Drains(trial, more)
  BY <1>4, <1>6, <1>7, <1>8, DrainsIs
<1> QED BY <1>5, <1>9 DEF SafeToAdmit, trial, more

-----------------------------------------------------------------------------
(* The loop, step by step, against the reference.                          *)

\* The order of the reference is an order of all jobs with a claim.
LEMMA CanAllDrainIs ==
  ASSUME Given(claims, needs)
  PROVE  CanAllDrain <=>
           \E order : Orders(Admitted(claims), Cardinality(Admitted(claims)), order,
                             claims, needs)
<1>1. Admitted(claims) \subseteq Jobs
  BY DEF Admitted, Given
<1>2. \A j \in Jobs : \A options \in needs[j] : options \subseteq Machines
  BY DEF Given
<1> DEFINE k == Cardinality(Admitted(claims))
           Takes(order, i, options, m) ==
             Cardinality({order[x] : x \in {x \in 1..k : x > i}} \cap claims[m]) < Capacity[m]
<1>3. CanAllDrain <=>
        \E order \in [1..k -> Admitted(claims)] :
          /\ \A i, x \in 1..k : order[i] = order[x] => i = x
          /\ \A i \in 1..k : \A options \in needs[order[i]] :
               \E m \in options : Takes(order, i, options, m)
  BY DEF CanAllDrain
<1>4. \A order : Orders(Admitted(claims), k, order, claims, needs) <=>
        /\ order \in [1..k -> Admitted(claims)]
        /\ \A i, x \in 1..k : order[i] = order[x] => i = x
        /\ \A i \in 1..k : \A options \in needs[order[i]] :
             \E m \in options : m \in Machines /\ Takes(order, i, options, m)
  BY DEF Orders
<1> HIDE DEF k, Takes
<1>5. \A order \in [1..k -> Admitted(claims)] : \A i \in 1..k :
        \A options \in needs[order[i]] : \A m \in options : m \in Machines
  BY <1>1, <1>2
<1>6. CanAllDrain <=> \E order : Orders(Admitted(claims), k, order, claims, needs)
  BY <1>3, <1>4, <1>5
<1> QED BY <1>6 DEF k

LEMMA GreedyIsExact ==
  ASSUME Given(claims, needs) PROVE GreedyFindsIt
<1>1. Admitted(claims) \in SUBSET Jobs
  BY DEF Admitted, Given
<1>2. ASSUME Drains(claims, needs) PROVE CanAllDrain
  <2>1. \A U \in SUBSET Admitted(claims) : Stuck(U, claims, needs) => U = {}
    BY <1>2, DrainsIs
  <2> QED BY <1>1, <2>1, FreeIsOrdered, CanAllDrainIs
<1>3. ASSUME CanAllDrain PROVE Drains(claims, needs)
  <2>1. PICK order : Orders(Admitted(claims), Cardinality(Admitted(claims)), order,
                            claims, needs)
    BY <1>3, CanAllDrainIs
  <2>2. \A U \in SUBSET Admitted(claims) : Stuck(U, claims, needs) => U = {}
    BY <1>1, <2>1, OrderedIsFree
  <2> QED BY <2>2, DrainsIs
<1> QED BY <1>2, <1>3 DEF GreedyFindsIt

LEMMA SafeIsNoDeadEnd ==
  ASSUME Given(claims, needs) PROVE SomeMayAdvance
<1> SUFFICES ASSUME Drains(claims, needs), Admitted(claims) # {}
             PROVE  \E j \in Admitted(claims) : \A options \in needs[j] : \E m \in options :
                      SafeToAdmit(claims, [needs EXCEPT ![j] = @ \cup {{m}}], j, m)
  BY DEF SomeMayAdvance
<1>1. Admitted(claims) \in SUBSET Jobs
  BY DEF Admitted, Given
<1>2. PICK j : j \in Possible(Admitted(claims), claims, needs)
  BY <1>1, DrainsIs DEF Stuck
<1>3. j \in Admitted(claims)
  BY <1>2 DEF Possible
<1>4. \A m \in Machines : claims[m] \cap Admitted(claims) = claims[m]
  BY DEF Admitted
<1>5. \A options \in needs[j] : \E m \in options :
        m \in Machines /\ Cardinality(claims[m] \ {j}) < Capacity[m]
  <2>1. \A options \in needs[j] : \E m \in options :
          m \in Machines /\ Cardinality((claims[m] \cap Admitted(claims)) \ {j}) < Capacity[m]
    BY <1>1, <1>2, <1>3, PossibleIs
  <2> QED BY <1>4, <2>1
<1>6. ASSUME NEW options \in needs[j]
      PROVE  \E m \in options : SafeToAdmit(claims, [needs EXCEPT ![j] = @ \cup {{m}}], j, m)
  BY <1>2, <1>3, <1>5, MayAdmit
<1> QED BY <1>3, <1>6

\* The admission test of the baseline schedulers tries one order, without ever
\* going back, and misses none; and what it admits leaves no dead end.  For
\* what remains when it gives up is stuck whatever was drained before, since
\* fewer jobs leave more room (safe_to_admit).
THEOREM AdmissionTestIsExact == DrainSpec => []DrainOrderIsExact
<1>1. AnyClaims => Given(claims, needs)
  BY DEF AnyClaims, Given
<1>2. AnyClaims /\ [DrainOne]_claimVars => AnyClaims'
  <2> SUFFICES ASSUME AnyClaims, [DrainOne]_claimVars PROVE AnyClaims'
    OBVIOUS
  <2>1. CASE UNCHANGED claimVars
    BY <2>1 DEF AnyClaims, claimVars, WithinCapacity
  <2>2. CASE DrainOne
    <3>1. PICK j : claims' = Without(j) /\ UNCHANGED needs
      BY <2>2 DEF DrainOne
    <3>2. claims' \in [Machines -> SUBSET Jobs]
      BY <3>1 DEF AnyClaims, Without
    <3>3. ASSUME NEW m \in Machines PROVE Cardinality(claims'[m]) <= Capacity[m]
      <4>1. claims'[m] \subseteq claims[m] /\ claims[m] \subseteq Jobs
        BY <3>1 DEF AnyClaims, Without
      <4>2. /\ IsFiniteSet(claims[m]) /\ IsFiniteSet(claims'[m])
            /\ Cardinality(claims'[m]) <= Cardinality(claims[m])
        BY <4>1, FactoryFinite, FS_Subset
      <4>3. Cardinality(claims'[m]) \in Nat /\ Cardinality(claims[m]) \in Nat
        BY <4>2, FS_CardinalityType
      <4>4. Cardinality(claims[m]) <= Capacity[m]
        BY DEF AnyClaims, WithinCapacity
      <4> QED BY <4>2, <4>3, <4>4, Slots
    <3>4. WithinCapacity(claims')
      BY <3>3 DEF WithinCapacity
    <3> QED BY <3>1, <3>2, <3>4 DEF AnyClaims
  <2> QED BY <2>1, <2>2
<1>3. AnyClaims => DrainOrderIsExact
  BY <1>1, GreedyIsExact, SafeIsNoDeadEnd DEF DrainOrderIsExact
<1> QED BY <1>2, <1>3, PTL DEF DrainSpec

-----------------------------------------------------------------------------
(* The baseline policy: a factory whose claims always fit and can drain.   *)

\* The policy only chooses among what a factory may do.
LEMMA BaselineStep == [BaselineNext]_vars => [Next]_vars
<1>1. Drive => Transport
  BY DEF Drive, Transport
<1>2. Work => Next
  BY <1>1 DEF Work, Next, Transport
<1>3. ASSUME BaselineNext PROVE Next
  BY <1>2, <1>3 DEF BaselineNext, Next, Plan, RequestAdmitted
<1> QED BY <1>3

\* Everything the theorems say of Factory holds under the baseline policy.
THEOREM BaselineIsFactory == BaselineSpec => Spec
BY BaselineStep, PTL DEF BaselineSpec, Spec

\* The workpiece of an operation asked for is on its way to m.
Inbound(j, m) == \E o \in Ops : o[1] = j /\ o \in Open /\ assigned_machine[o] = m

HasClaim(j, m) == Waits(j, m) \/ InService(j, m) \/ Interrupted(j, m) \/ Inbound(j, m)

LEMMA ClaimsAre ==
  TypeInv => Claims = [m \in Machines |-> {j \in Jobs : HasClaim(j, m)}]
<1> SUFFICES ASSUME TypeInv, NEW m \in Machines
             PROVE  Claims[m] = {j \in Jobs : HasClaim(j, m)}
  BY DEF Claims
<1> DEFINE atMachine == Suspended(m) \cup ({current_op[m]} \ {None})
           inbound   == {u \in Open \cap Ops : assigned_machine[u] = m}
<1>1. Claims[m] = buffer_jobs[m] \cup {o[1] : o \in atMachine} \cup {t[1] : t \in inbound}
  BY DEF Claims, Open, Moving
<1>2. atMachine \subseteq Ops /\ inbound \subseteq Ops /\ buffer_jobs[m] \subseteq Jobs
  BY RangeInOps DEF TypeInv, TypeOK
<1>3. \A j : InService(j, m) \/ Interrupted(j, m) <=> \E o \in atMachine : o[1] = j
  BY DEF InService, Interrupted
<1>4. \A j : Inbound(j, m) <=> \E o \in inbound : o[1] = j
  BY DEF Inbound
<1> HIDE DEF atMachine, inbound
<1>5. \A o \in atMachine \cup inbound : o[1] \in Jobs
  BY <1>2, TaskFacts
<1> QED BY <1>1, <1>2, <1>3, <1>4, <1>5 DEF HasClaim, Waits

\* The machines for operation p, if it is not finished.
Choices(p) == IF assigned_machine[p] # None THEN {assigned_machine[p]} ELSE Options[p]

LEMMA NeedsAre ==
  Needs(None, None) =
    [j \in Jobs |-> {Choices(p) : p \in {q \in Ops : q[1] = j /\ status[q] # "FINISHED"}}]
<1>1. \A p \in Ops : p # None
  BY FactoryNone, TaskFacts
<1> QED BY <1>1 DEF Needs, Choices

LEMMA ClaimsGiven ==
  TypeInv /\ WithinCapacity(Claims) => Given(Claims, Needs(None, None))
<1> SUFFICES ASSUME TypeInv, WithinCapacity(Claims)
             PROVE  Given(Claims, Needs(None, None))
  OBVIOUS
<1>1. Claims \in [Machines -> SUBSET Jobs]
  BY ClaimsAre
<1>2. \A p \in Ops : Choices(p) \subseteq Machines
  BY FactoryConstants DEF Choices, TypeInv, TypeOK
<1>3. Needs(None, None) \in [Jobs -> SUBSET SUBSET Machines]
  BY <1>2, NeedsAre
<1> QED BY <1>1, <1>3 DEF Given

\* The same after a step.
LEMMA NextClaims ==
  TypeInv' =>
    /\ (Claims = [m \in Machines |-> {j \in Jobs : HasClaim(j, m)}])'
    /\ (WithinCapacity(Claims) => Given(Claims, Needs(None, None)))'
<1>1. TypeInv' => (Claims = [m \in Machines |-> {j \in Jobs : HasClaim(j, m)}])'
  BY ClaimsAre, PTL
<1>2. TypeInv' => (WithinCapacity(Claims) => Given(Claims, Needs(None, None)))'
  BY ClaimsGiven, PTL
<1> QED BY <1>1, <1>2

LEMMA NextNeeds ==
  (Needs(None, None) =
     [j \in Jobs |-> {Choices(p) : p \in {q \in Ops : q[1] = j /\ status[q] # "FINISHED"}}])'
BY NeedsAre, PTL

\* Where all can be drained they can with fewer claims and fewer operations left.
LEMMA FewerDrain ==
  ASSUME NEW cl, NEW nd, Given(cl, nd), Drains(cl, nd), NEW fewer, NEW less,
         Given(fewer, less), \A m \in Machines : fewer[m] \subseteq cl[m],
         \A j \in Jobs : less[j] \subseteq nd[j]
  PROVE  Drains(fewer, less)
<1> SUFFICES ASSUME NEW U \in SUBSET Admitted(fewer), Stuck(U, fewer, less) PROVE U = {}
  BY DrainsIs
<1>1. U \subseteq Admitted(cl) /\ U \in SUBSET Jobs
  BY DEF Admitted, Stuck
<1>2. ASSUME NEW j \in U, j \in Possible(U, cl, nd) PROVE FALSE
  <2>1. \A options \in nd[j] : \E m \in options :
          m \in Machines /\ Cardinality((cl[m] \cap U) \ {j}) < Capacity[m]
    BY <1>1, <1>2, PossibleIs
  <2>2. ASSUME NEW m \in Machines, Cardinality((cl[m] \cap U) \ {j}) < Capacity[m]
        PROVE  Cardinality((fewer[m] \cap U) \ {j}) < Capacity[m]
    <3>1. (fewer[m] \cap U) \ {j} \subseteq (cl[m] \cap U) \ {j}
      OBVIOUS
    <3>2. (cl[m] \cap U) \ {j} \subseteq Jobs
      BY <1>1
    <3> QED BY <2>2, <3>1, <3>2, SlotBesideFewer
  <2>3. less[j] \subseteq nd[j]
    BY <1>1
  <2>4. \A options \in less[j] : \E m \in options :
          m \in Machines /\ Cardinality((fewer[m] \cap U) \ {j}) < Capacity[m]
    BY <2>1, <2>2, <2>3
  <2>5. j \in Possible(U, fewer, less)
    BY <1>1, <2>4, PossibleIs
  <2> QED BY <2>5 DEF Stuck
<1>3. Stuck(U, cl, nd)
  BY <1>1, <1>2 DEF Stuck, Possible
<1> QED BY <1>1, <1>3, DrainsIs

\* A step that makes no new claim and commits nothing keeps what was safe.
LEMMA NoNewClaim ==
  ASSUME TypeInv, TypeInv', Safe,
         \A m \in Machines, j \in Jobs : HasClaim(j, m)' => HasClaim(j, m),
         UNCHANGED assigned_machine,
         \A o \in Ops : status[o] = "FINISHED" => status'[o] = "FINISHED"
  PROVE  Safe'
<1>1. /\ Claims = [m \in Machines |-> {j \in Jobs : HasClaim(j, m)}]
      /\ Claims' = [m \in Machines |-> {j \in Jobs : HasClaim(j, m)'}]
  BY ClaimsAre, NextClaims
<1>2. \A m \in Machines : Claims'[m] \subseteq Claims[m] /\ Claims[m] \subseteq Jobs
  BY <1>1
<1>3. \A j \in Jobs : Needs(None, None)'[j] \subseteq Needs(None, None)[j]
  <2>1. \A p \in Ops : Choices(p)' = Choices(p)
    BY DEF Choices
  <2> QED BY <2>1, NeedsAre, NextNeeds
<1>4. WithinCapacity(Claims')
  <2> SUFFICES ASSUME NEW m \in Machines PROVE Cardinality(Claims'[m]) <= Capacity[m]
    BY DEF WithinCapacity
  <2>1. Cardinality(Claims[m]) <= Capacity[m]
    BY DEF Safe, WithinCapacity
  <2>2. /\ IsFiniteSet(Claims[m]) /\ IsFiniteSet(Claims'[m])
        /\ Cardinality(Claims'[m]) <= Cardinality(Claims[m])
    BY <1>2, FactoryFinite, FS_Subset
  <2>3. Cardinality(Claims[m]) \in Nat /\ Cardinality(Claims'[m]) \in Nat
    BY <2>2, FS_CardinalityType
  <2> QED BY <2>1, <2>2, <2>3, Slots
<1>5. Given(Claims, Needs(None, None)) /\ Given(Claims', Needs(None, None)')
  BY <1>4, ClaimsGiven, NextClaims DEF Safe
<1>6. Drains(Claims', Needs(None, None)')
  BY <1>2, <1>3, <1>5, FewerDrain DEF Safe
<1> QED BY <1>4, <1>6 DEF Safe

\* Beside the claims of a machine that fit its buffer, one of which is no
\* workpiece in the buffer, the buffer has a slot.
LEMMA SlotForClaim ==
  ASSUME TypeInv, Safe, NEW m \in Machines, NEW j \in Jobs, HasClaim(j, m)
  PROVE  Cardinality(buffer_jobs[m] \ {j}) < Capacity[m]
<1> DEFINE others == buffer_jobs[m] \ {j}
<1>1. others \cup {j} \subseteq Claims[m] /\ Claims[m] \subseteq Jobs
  <2>1. Claims[m] = {i \in Jobs : HasClaim(i, m)}
    BY ClaimsAre
  <2>2. \A i \in buffer_jobs[m] : i \in Jobs /\ HasClaim(i, m)
    BY DEF TypeInv, TypeOK, HasClaim, Waits
  <2> QED BY <2>1, <2>2
<1>2. j \notin others
  OBVIOUS
<1> HIDE DEF others
<1>3. IsFiniteSet(Claims[m]) /\ IsFiniteSet(others) /\ IsFiniteSet(others \cup {j})
  BY <1>1, FactoryFinite, FS_Subset
<1>4. Cardinality(others \cup {j}) = Cardinality(others) + 1
  BY <1>2, <1>3, FS_AddElement
<1>5. Cardinality(others \cup {j}) <= Cardinality(Claims[m])
  BY <1>1, <1>3, FS_Subset
<1>6. Cardinality(Claims[m]) <= Capacity[m]
  BY DEF Safe, WithinCapacity
<1>7. Cardinality(others) \in Nat /\ Cardinality(Claims[m]) \in Nat
  BY <1>3, FS_CardinalityType
<1> QED BY <1>4, <1>5, <1>6, <1>7, Slots DEF others

-----------------------------------------------------------------------------
\* No machine keeps an operation that is finished.
NoneKept == \A m \in Machines : current_op[m] # None => status[current_op[m]] # "FINISHED"

\* What the admission test found, and what follows for the machines.
AdmissionInv == Safe /\ NoneKept

LEMMA AdmissionQuiet ==
  ASSUME TypeInv, TypeInv', AdmissionInv,
         UNCHANGED <<assigned_machine, status, current_op, suspended_ops>>,
         Open' \subseteq Open,
         \A m \in Machines, j \in Jobs : Waits(j, m)' => HasClaim(j, m)
  PROVE  AdmissionInv'
<1>1. \A m \in Machines, j \in Jobs : HasClaim(j, m)' => HasClaim(j, m)
  BY DEF HasClaim, InService, Interrupted, Suspended, Inbound
<1>2. Safe'
  BY <1>1, NoNewClaim DEF AdmissionInv
<1>3. NoneKept'
  BY DEF AdmissionInv, NoneKept
<1> QED BY <1>2, <1>3 DEF AdmissionInv

\* A workpiece that comes to its machine had its claim before.
LEMMA AdmissionEnqueue ==
  ASSUME TypeInv, TypeInv', AdmissionInv, NEW t \in Ops, NEW m \in Machines,
         assigned_machine[t] = m, t \in Open, Enqueue(t, m), Open' \subseteq Open,
         UNCHANGED <<assigned_machine, status, current_op, suspended_ops>>
  PROVE  AdmissionInv'
<1>1. buffer_jobs' = [buffer_jobs EXCEPT ![m] = @ \cup {t[1]}]
  BY DEF Enqueue
<1>2. HasClaim(t[1], m)
  BY DEF HasClaim, Inbound
<1>3. ASSUME NEW n \in Machines, NEW j \in Jobs, Waits(j, n)' PROVE HasClaim(j, n)
  <2>1. Waits(j, n) \/ (j = t[1] /\ n = m)
    BY <1>1, <1>3 DEF Waits, TypeInv, TypeOK
  <2> QED BY <1>2, <2>1 DEF HasClaim
<1> QED BY <1>3, AdmissionQuiet

\* What a machine finishes finds the slot that its own claim keeps.
LEMMA AdmissionTreats ==
  ASSUME TypeInv, TypeInv', FlowInv, AdmissionInv, NEW m \in Machines,
         NEW o \in Ops, NEW left \in BOOLEAN, AtHand(o, m), Treated(o, m, left)
  PROVE  AdmissionInv'
<1> DEFINE j == o[1]
<1> USE TaskFacts, FactoryNone
<1>0. j \in Jobs
  OBVIOUS
<1>1. HasClaim(j, m)
  BY DEF AtHand, HasClaim, Waits, InService, Interrupted, FlowInv, QueuedWorkIsThere
<1>2. /\ left <=> status'[o] = "FINISHED" /\ HasRoom(m, buffer_jobs[m] \ {j})
      /\ status[o] = "FINISHED" => status'[o] = "FINISHED"
      /\ \A q \in Ops \ {o} : status'[q] = status[q]
      /\ current_op'[m] = IF left THEN None ELSE o
      /\ buffer_jobs'[m] \subseteq buffer_jobs[m] \cup {j}
      /\ buffered_tasks' \subseteq buffered_tasks \cup {ShippingTask(j)}
      /\ \A n \in Machines \ {m} : /\ current_op'[n] = current_op[n]
                                   /\ buffer_jobs'[n] = buffer_jobs[n]
                                   /\ suspended_ops'[n] = suspended_ops[n]
      /\ Suspended(m)' \subseteq Suspended(m)
      /\ UNCHANGED <<assigned_machine, transfers_to_assign, active_transfers>>
  BY DEF Treated
<1>3. HasRoom(m, buffer_jobs[m] \ {j})
  BY <1>0, <1>1, SlotForClaim DEF HasRoom, AdmissionInv
<1>4. \A n \in Machines \ {m} : current_op[n] # o
  BY AtHandFacts DEF InService
<1> HIDE DEF j
<1>5. ASSUME NEW n \in Machines, NEW i \in Jobs, HasClaim(i, n)' PROVE HasClaim(i, n)
  <2>1. CASE n # m
    <3>1. Suspended(n)' = Suspended(n)
      BY <1>2, <2>1 DEF Suspended
    <3>2. ShippingTask(j) \notin Ops
      BY TaskParts DEF ShippingTask, Ops
    <3>3. Inbound(i, n)' => Inbound(i, n)
      BY <1>2, <3>2 DEF Inbound, Open, Moving
    <3> QED BY <1>2, <1>5, <2>1, <3>1, <3>3 DEF HasClaim, Waits, InService, Interrupted
  <2>2. CASE n = m
    <3>1. ShippingTask(j) \notin Ops
      BY TaskParts DEF ShippingTask, Ops
    <3>2. Inbound(i, m)' => Inbound(i, m)
      BY <1>2, <3>1 DEF Inbound, Open, Moving
    <3>3. InService(i, m)' => i = j
      BY <1>2 DEF InService, j
    <3>4. Waits(i, m)' => Waits(i, m) \/ i = j
      BY <1>2 DEF Waits
    <3>5. Interrupted(i, m)' => Interrupted(i, m)
      BY <1>2 DEF Interrupted
    <3> QED BY <1>1, <1>5, <2>2, <3>2, <3>3, <3>4, <3>5 DEF HasClaim
  <2> QED BY <2>1, <2>2
<1>6. \A q \in Ops : status[q] = "FINISHED" => status'[q] = "FINISHED"
  BY <1>2
<1>7. Safe'
  BY <1>2, <1>5, <1>6, NoNewClaim DEF AdmissionInv
<1>8. ASSUME NEW n \in Machines, current_op'[n] # None
      PROVE  status'[current_op'[n]] # "FINISHED"
  <2>1. CASE n = m
    BY <1>2, <1>3, <1>8, <2>1
  <2>2. CASE n # m
    <3>1. current_op[n] \in Ops \ {o} /\ current_op'[n] = current_op[n]
      BY <1>2, <1>4, <1>8, <2>2 DEF TypeInv, TypeOK
    <3> QED BY <1>2, <3>1 DEF AdmissionInv, NoneKept
  <2> QED BY <2>1, <2>2
<1> QED BY <1>7, <1>8 DEF AdmissionInv, NoneKept

\* The claims and needs after an admission are those the test looked at.
LEMMA AdmissionRequest ==
  ASSUME TypeInv, TypeInv', FlowInv, AdmissionInv, NEW o \in Ops, NEW m \in Machines,
         RequestAdmitted(o, m)
  PROVE  AdmissionInv'
<1> USE TaskFacts, FactoryNone
<1>1. /\ assigned_machine[o] = None
      /\ assigned_machine' = [assigned_machine EXCEPT ![o] = m]
      /\ buffered_tasks' = buffered_tasks \cup {o}
      /\ UNCHANGED <<transfers_to_assign, active_transfers, buffer_jobs>>
      /\ RequestTransfer(o, m)
      /\ SafeToAdmit(Claims, Needs(o, m), o[1], m)
  BY SameAdmission DEF RequestAdmitted, RequestTransfer, Admissible
<1>2. /\ \A q \in Ops : status'[q] = "FINISHED" <=> status[q] = "FINISHED"
      /\ \A n \in Machines, q \in Ops : status[q] = "FINISHED" =>
           (current_op'[n] = q <=> current_op[n] = q)
      /\ \A n \in Machines, j \in Jobs : InService(j, n)' \/ Interrupted(j, n)' <=>
                                         InService(j, n) \/ Interrupted(j, n)
  BY <1>1, Preempted
<1>3. assigned_machine'[o] = m /\ \A q \in Ops \ {o} : assigned_machine'[q] = assigned_machine[q]
  BY <1>1 DEF TypeInv, TypeOK
<1>4. Open' = Open \cup {o}
  BY <1>1 DEF Open, Moving
<1>5. ASSUME NEW n \in Machines, NEW j \in Jobs
      PROVE  HasClaim(j, n)' <=> HasClaim(j, n) \/ (n = m /\ j = o[1])
  <2>1. Inbound(j, n)' <=> Inbound(j, n) \/ (n = m /\ j = o[1])
    BY <1>1, <1>3, <1>4 DEF Inbound
  <2> QED BY <1>1, <1>2, <2>1 DEF HasClaim, Waits
<1>6. Claims' = [Claims EXCEPT ![m] = @ \cup {o[1]}]
  <2>1. /\ Claims = [n \in Machines |-> {j \in Jobs : HasClaim(j, n)}]
        /\ Claims' = [n \in Machines |-> {j \in Jobs : HasClaim(j, n)'}]
    BY ClaimsAre, NextClaims
  <2>2. \A n \in Machines : Claims'[n] = IF n = m THEN Claims[n] \cup {o[1]} ELSE Claims[n]
    BY <1>5, <2>1
  <2> QED BY <2>1, <2>2
<1>7. Needs(None, None)' = Needs(o, m)
  <2>1. Needs(None, None)' = [j \in Jobs |->
          {Choices(p)' : p \in {q \in Ops : q[1] = j /\ status'[q] # "FINISHED"}}]
    BY NextNeeds
  <2> DEFINE after(p) ==
        IF p = o THEN {m}
        ELSE IF assigned_machine[p] # None THEN {assigned_machine[p]} ELSE Options[p]
  <2>2. \A p \in Ops : Choices(p)' = after(p)
    BY <1>3 DEF Choices
  <2>3. Needs(o, m) = [j \in Jobs |->
          {after(p) : p \in {q \in Ops : q[1] = j /\ status[q] # "FINISHED"}}]
    BY DEF Needs
  <2> HIDE DEF after
  <2>4. ASSUME NEW j \in Jobs
        PROVE  {Choices(p)' : p \in {q \in Ops : q[1] = j /\ status'[q] # "FINISHED"}} =
               {after(p) : p \in {q \in Ops : q[1] = j /\ status[q] # "FINISHED"}}
    <3>1. {q \in Ops : q[1] = j /\ status'[q] # "FINISHED"} =
          {q \in Ops : q[1] = j /\ status[q] # "FINISHED"}
      BY <1>2
    <3> QED BY <2>2, <3>1
  <2> QED BY <2>1, <2>3, <2>4
<1>8. Safe'
  BY <1>1, <1>6, <1>7 DEF SafeToAdmit, Safe
<1>9. NoneKept'
  <2> SUFFICES ASSUME NEW n \in Machines, current_op'[n] # None,
                      status'[current_op'[n]] = "FINISHED"
               PROVE  FALSE
    BY DEF NoneKept
  <2>1. current_op'[n] \in Ops
    BY DEF TypeInv, TypeOK
  <2>2. status[current_op'[n]] = "FINISHED"
    BY <1>2, <2>1
  <2>3. current_op[n] = current_op'[n]
    BY <1>2, <2>1, <2>2
  <2> QED BY <2>2, <2>3 DEF AdmissionInv, NoneKept
<1> QED BY <1>8, <1>9 DEF AdmissionInv

LEMMA AdmissionVehicle ==
  ASSUME TypeInv, TypeInv', FlowInv, AdmissionInv, NEW a \in AGVs, Vehicle(a)
  PROVE  AdmissionInv'
<1> USE TaskFacts, FactoryNone
<1>1. CASE PickupAtOnce(a) \/ CompletePickup(a)
  <2>1. FinishPickup(a)
    BY <1>1 DEF PickupAtOnce, CompletePickup
  <2>2. /\ UNCHANGED <<assigned_machine, status, current_op, suspended_ops>>
        /\ Open' = Open
        /\ \A m \in Machines : buffer_jobs'[m] \subseteq buffer_jobs[m]
    BY <2>1 DEF FinishPickup, BufferAfterPickup, Open, Moving
  <2>3. \A m \in Machines, j \in Jobs : Waits(j, m)' => HasClaim(j, m)
    BY <2>2 DEF Waits, HasClaim
  <2> QED BY <2>2, <2>3, AdmissionQuiet
<1>2. CASE DropoffAtOnce(a) \/ CompleteDropoff(a)
  <2>1. agv_phase[a] \in {"TO_DROPOFF", "DROPPING"} /\ FinishDropoff(a)
    BY <1>2 DEF DropoffAtOnce, CompleteDropoff, AtDropoff
  <2>2. agv_task[a] # None
    BY <2>1 DEF TypeInv, VehiclePhase
  <2>3. CASE Deliver(a)
    <3> DEFINE t == agv_task[a]
    <3>1. t \in Tasks /\ t \in Open
      BY <2>2, OwnTask DEF Open, Moving
    <3>2. /\ UNCHANGED <<assigned_machine, status, current_op, suspended_ops>>
          /\ Open' \subseteq Open
      BY <2>3 DEF Deliver, Open, Moving
    <3>3. CASE UNCHANGED buffer_jobs
      <4>1. \A m \in Machines, j \in Jobs : Waits(j, m)' => HasClaim(j, m)
        BY <3>3 DEF Waits, HasClaim
      <4> QED BY <3>2, <4>1, AdmissionQuiet
    <3>4. CASE ~IsShipping(t) /\ Enqueue(t, assigned_machine[t])
      <4>1. t \in Ops
        BY <3>1, <3>4
      <4>2. assigned_machine[t] \in Machines
        BY <4>1 DEF TypeInv, Committed
      <4> QED BY <3>1, <3>2, <3>4, <4>1, <4>2, AdmissionEnqueue
    <3> QED BY <2>3, <3>3, <3>4 DEF Deliver
  <2>4. CASE UNCHANGED <<planVars, serviceVars, jobVars, queueVars, workVars,
                         buffer_jobs, taskVars>>
    <3>1. \A m \in Machines, j \in Jobs : Waits(j, m)' => HasClaim(j, m)
      BY <2>4 DEF Waits, HasClaim
    <3>2. Open' \subseteq Open
      BY <2>4 DEF Open, Moving
    <3> QED BY <2>4, <3>1, <3>2, AdmissionQuiet
  <2> QED BY <2>1, <2>3, <2>4 DEF FinishDropoff
<1>3. CASE SettleWaits(a) \/ StartPickup(a) \/ StartDropoff(a) \/ KeepHandling(a)
  <2>1. UNCHANGED <<planVars, serviceVars, jobVars, queueVars, workVars,
                    buffer_jobs, taskVars>>
    BY <1>3 DEF SettleWaits, StartPickup, StartDropoff, KeepHandling
  <2>2. \A m \in Machines, j \in Jobs : Waits(j, m)' => HasClaim(j, m)
    BY <2>1 DEF Waits, HasClaim
  <2>3. Open' \subseteq Open
    BY <2>1 DEF Open, Moving
  <2> QED BY <2>1, <2>2, <2>3, AdmissionQuiet
<1> QED BY <1>1, <1>2, <1>3 DEF Vehicle

LEMMA AdmissionDispatch ==
  ASSUME TypeInv, TypeInv', FlowInv, AdmissionInv, Dispatch
  PROVE  AdmissionInv'
<1> USE TaskFacts, FactoryNone
<1>1. CASE UNCHANGED <<assigned_machine, status, current_op, suspended_ops, buffer_jobs>>
           /\ Open' \subseteq Open
  <2>1. \A m \in Machines, j \in Jobs : Waits(j, m)' => HasClaim(j, m)
    BY <1>1 DEF Waits, HasClaim
  <2> QED BY <1>1, <2>1, AdmissionQuiet
<1>2. CASE BeginTaskStep \/ BeginAssign \/ \E t \in Tasks : KeepBuffered(t)
  BY <1>1, <1>2 DEF BeginTaskStep, BeginAssign, KeepBuffered, Open, Moving
<1>3. ASSUME NEW t \in Tasks, AdmitWithoutTransport(t) PROVE AdmissionInv'
  <2>1. /\ t \in buffered_tasks /\ t \in Ops /\ Enqueue(t, assigned_machine[t])
        /\ Open' \subseteq Open
        /\ UNCHANGED <<assigned_machine, status, current_op, suspended_ops>>
    BY <1>3 DEF AdmitWithoutTransport, AtDestination, TypeInv, Committed, Open, Moving
  <2>2. t \in Open /\ assigned_machine[t] \in Machines
    BY <2>1 DEF Open, TypeInv, Committed
  <2> QED BY <2>1, <2>2, AdmissionEnqueue
<1>4. ASSUME NEW t \in Tasks, OfferTask(t) PROVE AdmissionInv'
  <2>1. t \in buffered_tasks
    BY <1>4 DEF OfferTask, TypeInv, Committed
  <2> QED BY <1>1, <1>4, <2>1 DEF OfferTask, Open, Moving
<1>5. ASSUME NEW a \in AGVs, NEW t \in Tasks, AssignTransfer(a, t) PROVE AdmissionInv'
  BY <1>1, <1>5 DEF AssignTransfer, Activate, Open, Moving
<1> QED BY <1>2, <1>3, <1>4, <1>5 DEF Dispatch

LEMMA AdmissionNext ==
  TypeInv /\ TypeInv' /\ FlowInv /\ AdmissionInv /\ [BaselineNext]_vars => AdmissionInv'
<1> SUFFICES ASSUME TypeInv, TypeInv', FlowInv, AdmissionInv, [BaselineNext]_vars
             PROVE  AdmissionInv'
  OBVIOUS
<1>1. CASE UNCHANGED <<assigned_machine, status, current_op, suspended_ops, buffer_jobs,
                       taskVars>>
  <2>1. \A m \in Machines, j \in Jobs : Waits(j, m)' => HasClaim(j, m)
    BY <1>1 DEF Waits, HasClaim
  <2>2. Open' \subseteq Open
    BY <1>1 DEF Open, Moving
  <2> QED BY <1>1, <2>1, <2>2, AdmissionQuiet
<1>2. CASE \E o \in Ops, m \in Machines : RequestAdmitted(o, m)
  BY <1>2, AdmissionRequest
<1>3. CASE \/ \E m \in Machines : BreakMachine(m) \/ RepairMachine(m)
           \/ \E a \in AGVs : BreakAgv(a) \/ RepairAgv(a)
  BY <1>1, <1>3 DEF BreakMachine, RepairMachine, BreakAgv, RepairAgv
<1>4. CASE \E m \in Machines : Machine(m)
  <2>1. PICK m \in Machines : Machine(m)
    BY <1>4
  <2>2. CASE Treats(m)
    BY <2>2, AdmissionTreats DEF Treats
  <2>3. CASE HoldForUrgent(m) \/ Deactivate(m)
    BY <1>1, <2>3 DEF HoldForUrgent, Deactivate
  <2> QED BY <2>1, <2>2, <2>3, MachineTreats
<1>5. CASE BeginMachines \/ BeginSettle \/ EndStep \/ Drive
  BY <1>1, <1>5 DEF BeginMachines, BeginSettle, EndStep, Drive, Move
<1>6. CASE UNCHANGED vars
  BY <1>1, <1>6 DEF vars
<1> QED
  BY <1>2, <1>3, <1>4, <1>5, <1>6, AdmissionDispatch, AdmissionVehicle
  DEF BaselineNext, Work

LEMMA AdmissionInit == Init => AdmissionInv
<1> SUFFICES ASSUME Init PROVE AdmissionInv
  OBVIOUS
<1>1. TypeInv
  BY TypeInit
<1>2. ASSUME NEW m \in Machines, NEW j \in Jobs PROVE ~HasClaim(j, m)
  BY DEF Init, HasClaim, Waits, InService, Interrupted, Suspended, Range, Inbound,
         Open, Moving
<1>3. \A m \in Machines : Claims[m] = {}
  BY <1>1, <1>2, ClaimsAre
<1>4. WithinCapacity(Claims)
  BY <1>3, FS_EmptySet, Slots DEF WithinCapacity
<1>5. Admitted(Claims) = {}
  BY <1>3 DEF Admitted
<1>6. Drains(Claims, Needs(None, None))
  BY <1>1, <1>4, <1>5, ClaimsGiven, DrainsIs
<1>7. NoneKept
  BY DEF Init, NoneKept
<1> QED BY <1>4, <1>6, <1>7 DEF AdmissionInv, Safe

\* A vehicle that carries a workpiece to a machine has the slot it claims.
LEMMA CarriedHasRoom ==
  ASSUME TypeInv, FlowInv, Safe, NEW j \in Jobs, carrier_id[j] # None
  PROVE  ~NoRoomFor(agv_task[carrier_id[j]])
<1> DEFINE a == carrier_id[j]
           t == agv_task[a]
           m == assigned_machine[t]
<1>1. a \in AGVs
  BY DEF TypeInv, TypeOK
<1>2. t # None /\ t[1] = j
  BY <1>1 DEF FlowInv, WorkpieceConservation
<1>3. t \in Tasks /\ t \in Open
  BY <1>1, <1>2, OwnTask DEF Open, Moving
<1> SUFFICES ASSUME ~IsShipping(t) PROVE ~Full(m)
  BY DEF NoRoomFor
<1>4. t \in Ops
  BY <1>3, TaskFacts
<1>5. m \in Machines
  BY <1>1, <1>4 DEF TypeInv, Committed
<1>6. HasClaim(j, m)
  BY <1>2, <1>3, <1>4 DEF HasClaim, Inbound
<1>7. j \notin buffer_jobs[m]
  BY <1>5, AtItsMachine DEF Waits
<1> HIDE DEF m
<1>8. Cardinality(buffer_jobs[m]) < Capacity[m]
  <2>1. buffer_jobs[m] \ {j} = buffer_jobs[m]
    BY <1>7
  <2>2. Cardinality(buffer_jobs[m] \ {j}) < Capacity[m]
    BY <1>5, <1>6, SlotForClaim
  <2> QED BY <2>1, <2>2
<1>9. Cardinality(buffer_jobs[m]) \in Nat /\ Capacity[m] \in Nat
  <2>1. buffer_jobs[m] \subseteq Jobs
    BY <1>5 DEF TypeInv, TypeOK
  <2> QED BY <1>5, <2>1, FactoryFinite, FS_Subset, FS_CardinalityType, Slots
<1> QED BY <1>8, <1>9 DEF Full

\* Admission by safe_to_admit is enough for every factory: whatever is carried
\* to a machine finds its slot free when it arrives, a finished workpiece
\* leaves its machine at once, and the jobs admitted can still finish one after
\* the other, now and later.  For no step but an admission makes a claim or
\* commits an operation, and fewer claims are no harder to drain.
THEOREM AdmissionIsEnough == BaselineSpec => []AdmissionSuffices
<1>1. TypeInv /\ FlowInv /\ AdmissionInv => AdmissionSuffices
  BY CarriedHasRoom, SafeIs DEF AdmissionInv, NoneKept, AdmissionSuffices, NothingBlocks
<1>2. BaselineSpec => [](TypeInv /\ FlowInv)
  BY BaselineIsFactory, FlowHolds
<1> QED
  BY <1>1, <1>2, AdmissionInit, AdmissionNext, PTL DEF BaselineSpec
=============================================================================
