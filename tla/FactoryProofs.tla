--------------------------- MODULE FactoryProofs ---------------------------
(***************************************************************************)
(* Theorems about Factory, for every number of jobs, machines, vehicles,   *)
(* buffer slots and every layout.                                          *)
(***************************************************************************)
EXTENDS Factory, FiniteSetTheorems, SequenceTheorems, TLAPS

LEMMA TaskFacts ==
  /\ Ops \subseteq Tasks
  /\ \A t \in Tasks : t[1] \in Jobs
  /\ \A t \in Tasks : t \notin Ops <=> IsShipping(t)
  /\ \A j \in Jobs : <<j, NumOps[j]>> \in Tasks
  /\ \A j \in Jobs : LastOp(j) \in Ops
BY SMTT(30), FactoryConstants DEF Tasks, Ops, IsShipping, LastOp

LEMMA OrderingIsSeq ==
  ASSUME NEW S \in SUBSET Ops, IsFiniteSet(S), NEW q \in Orderings(S)
  PROVE  q \in Seq(Ops)
<1>1. Cardinality(S) \in Nat
  BY FS_CardinalityType
<1>2. q \in [1..Cardinality(S) -> Ops]
  BY DEF Orderings
<1> QED
  BY <1>1, <1>2, SeqDef

\* The variables that change only together, for use in UNCHANGED.
USE DEF controlVars, planVars, serviceVars, jobVars, queueVars, workVars,
        agvVars, taskVars, statusVars, boundVars

-----------------------------------------------------------------------------
(* What a vehicle's phase says about the vehicle and its task.             *)

\* The machine of a committed operation is known until the operation is done
\* or cancelled; task_step looks only at tasks that are buffered.
Committed ==
  /\ scan \subseteq buffered_tasks
  /\ pc # "buffer" => scan = {}
  /\ \A t \in Ops :
       \/ t \in buffered_tasks \cup transfers_to_assign
       \/ \E a \in AGVs : agv_task[a] = t
       => assigned_machine[t] \in Machines

VehiclePhase ==
  \A a \in AGVs :
    /\ agv_task[a] = None <=> agv_phase[a] = "IDLE"
    /\ loaded[a] <=> agv_phase[a] \in {"TO_DROPOFF", "DROPPING"}
    /\ agv_phase[a] = "DROPPING" => pos[a] = Destination(agv_task[a])

TypeInv == TypeOK /\ Committed /\ VehiclePhase

LEMMA TypeInit == Init => TypeInv
<1> SUFFICES ASSUME Init PROVE TypeInv
  OBVIOUS
<1>1. TypeOK
  BY FactoryConstants, FactoryNone, EmptySeq DEF Init, TypeOK, Phases
<1>2. Committed
  BY FactoryNone, TaskFacts DEF Init, Committed
<1>3. VehiclePhase
  BY DEF Init, VehiclePhase
<1> QED
  BY <1>1, <1>2, <1>3 DEF TypeInv

\* The destination of a vehicle's task is a cell.
LEMMA DestinationIsCell ==
  ASSUME TypeInv, NEW a \in AGVs, agv_task[a] # None
  PROVE  Destination(agv_task[a]) \in Cells
BY FactoryConstants, TaskFacts DEF TypeInv, TypeOK, Committed, Destination

LEMMA BreakMachineType ==
  ASSUME TypeInv, NEW m \in Machines, BreakMachine(m)
  PROVE  TypeInv'
<1> USE DEF TypeInv
<1>1. TypeOK'
  <2>1. failures' \in 0..MaxFailures
    BY FactoryConstants DEF TypeOK, BreakMachine
  <2>2. machine_status' \in [Machines -> {"OK", "DOWN"}]
    BY DEF TypeOK, BreakMachine
  <2> QED
    BY <2>1, <2>2 DEF TypeOK, BreakMachine
<1>2. Committed'
  BY FactoryNone, TaskFacts DEF TypeOK, Committed, BreakMachine
<1>3. VehiclePhase'
  BY TaskFacts DEF TypeOK, VehiclePhase, Committed, Destination, BreakMachine
<1> QED
  BY <1>1, <1>2, <1>3

LEMMA RepairMachineType ==
  ASSUME TypeInv, NEW m \in Machines, RepairMachine(m)
  PROVE  TypeInv'
<1> USE DEF TypeInv
<1>1. TypeOK'
  BY FactoryConstants, TaskFacts DEF TypeOK, RepairMachine
<1>2. Committed'
  BY FactoryNone, TaskFacts DEF TypeOK, Committed, RepairMachine
<1>3. VehiclePhase'
  BY TaskFacts DEF TypeOK, VehiclePhase, Committed, Destination, RepairMachine
<1> QED
  BY <1>1, <1>2, <1>3

LEMMA BreakAgvType ==
  ASSUME TypeInv, NEW a \in AGVs, BreakAgv(a)
  PROVE  TypeInv'
<1> USE DEF TypeInv
<1>1. TypeOK'
  <2>1. failures' \in 0..MaxFailures
    BY FactoryConstants DEF TypeOK, BreakAgv
  <2>2. agv_status' \in [AGVs -> {"OK", "DOWN"}]
    BY DEF TypeOK, BreakAgv
  <2> QED
    BY <2>1, <2>2 DEF TypeOK, BreakAgv
<1>2. Committed'
  BY FactoryNone, TaskFacts DEF TypeOK, Committed, BreakAgv
<1>3. VehiclePhase'
  BY TaskFacts DEF TypeOK, VehiclePhase, Committed, Destination, BreakAgv
<1> QED
  BY <1>1, <1>2, <1>3

LEMMA RepairAgvType ==
  ASSUME TypeInv, NEW a \in AGVs, RepairAgv(a)
  PROVE  TypeInv'
<1> USE DEF TypeInv
<1>1. TypeOK'
  BY FactoryConstants, TaskFacts DEF TypeOK, RepairAgv
<1>2. Committed'
  BY FactoryNone, TaskFacts DEF TypeOK, Committed, RepairAgv
<1>3. VehiclePhase'
  BY TaskFacts DEF TypeOK, VehiclePhase, Committed, Destination, RepairAgv
<1> QED
  BY <1>1, <1>2, <1>3

LEMMA RequestTransferType ==
  ASSUME TypeInv, NEW m \in Machines, NEW o \in Ops, RequestTransfer(o, m)
  PROVE  TypeInv'
<1> USE DEF TypeInv
<1>1. TypeOK'
  <2>1. /\ pc' = "request"
        /\ transfer_requested' \in [Ops -> BOOLEAN]
        /\ assigned_machine' \in [Ops -> Machines \cup {None}]
        /\ buffered_tasks' \subseteq Tasks
    BY TaskFacts DEF TypeOK, RequestTransfer
  <2>2. /\ urgent_reservations' \in [Machines -> SUBSET Ops]
        /\ activated' \subseteq Machines
    <3>1. CASE IsUrgent(o)
      <4>1. \A n \in Machines : urgent_reservations[n] \cup {o} \in SUBSET Ops
        BY DEF TypeOK
      <4>2. /\ urgent_reservations' =
                 [urgent_reservations EXCEPT ![m] = @ \cup {o}]
            /\ activated' = activated \cup {m}
        BY <3>1 DEF RequestTransfer, ReserveForUrgentTransfer
      <4> QED
        BY <4>1, <4>2 DEF TypeOK
    <3>2. CASE ~IsUrgent(o)
      BY <3>2 DEF TypeOK, RequestTransfer, ReserveForUrgentTransfer
    <3> QED
      BY <3>1, <3>2
  <2>3. /\ remaining' \in [Ops -> Nat]
        /\ status' \in [Ops -> {"PENDING", "PROCESSING", "SUSPENDED", "FINISHED"}]
        /\ suspended_ops' \in [Machines -> Seq(Ops)]
        /\ current_op' \in [Machines -> Ops \cup {None}]
        /\ elapsed' \in [Machines -> Nat]
    <3>1. CASE Preemptable(m) /\ Suspend(m)
      <4>1. current_op[m] \in Ops
        BY <3>1 DEF TypeOK, Preemptable
      <4>2. proc_time[current_op[m]] - elapsed[m] \in Nat
        BY <3>1, <4>1 DEF TypeOK, Preemptable
      <4>3. Append(suspended_ops[m], current_op[m]) \in Seq(Ops)
        BY <4>1, AppendProperties DEF TypeOK
      <4> QED
        BY <3>1, <4>1, <4>2, <4>3 DEF TypeOK, Suspend, Unserved
    <3>2. CASE UNCHANGED <<status, remaining, suspended_ops, workVars>>
      BY <3>2 DEF TypeOK
    <3> QED
      BY <3>1, <3>2 DEF RequestTransfer, ReserveForUrgentTransfer
  <2> QED
    BY <2>1, <2>2, <2>3 DEF TypeOK, RequestTransfer
<1>2. Committed'
  BY FactoryNone, TaskFacts DEF TypeOK, Committed, RequestTransfer, ReserveForUrgentTransfer, Suspend, Unserved, Preemptable
<1>3. VehiclePhase'
  <2>1. \A a \in AGVs : agv_task[a] # o
    BY FactoryNone DEF TypeOK, Committed, RequestTransfer
  <2>2. \A a \in AGVs : agv_task[a] # None =>
          Destination(agv_task[a])' = Destination(agv_task[a])
    BY <2>1, TaskFacts DEF TypeOK, RequestTransfer, Destination
  <2>3. \A a \in AGVs : agv_phase[a] = "DROPPING" => agv_task[a] # None
    BY DEF VehiclePhase
  <2> QED
    BY <2>2, <2>3 DEF VehiclePhase, RequestTransfer
<1> QED
  BY <1>1, <1>2, <1>3

LEMMA BeginTaskStepType ==
  ASSUME TypeInv, BeginTaskStep
  PROVE  TypeInv'
<1> USE DEF TypeInv
<1>1. TypeOK'
  BY FactoryConstants, TaskFacts DEF TypeOK, BeginTaskStep
<1>2. Committed'
  BY FactoryNone, TaskFacts DEF TypeOK, Committed, BeginTaskStep
<1>3. VehiclePhase'
  BY TaskFacts DEF TypeOK, VehiclePhase, Committed, Destination, BeginTaskStep
<1> QED
  BY <1>1, <1>2, <1>3

LEMMA KeepBufferedType ==
  ASSUME TypeInv, NEW t \in Tasks, KeepBuffered(t)
  PROVE  TypeInv'
<1> USE DEF TypeInv
<1>1. TypeOK'
  BY FactoryConstants, TaskFacts DEF TypeOK, KeepBuffered
<1>2. Committed'
  BY FactoryNone, TaskFacts DEF TypeOK, Committed, KeepBuffered
<1>3. VehiclePhase'
  BY TaskFacts DEF TypeOK, VehiclePhase, Committed, Destination, KeepBuffered
<1> QED
  BY <1>1, <1>2, <1>3

LEMMA AdmitWithoutTransportType ==
  ASSUME TypeInv, NEW t \in Tasks, AdmitWithoutTransport(t)
  PROVE  TypeInv'
<1> USE DEF TypeInv
<1>1. TypeOK'
  <2>1. t \in Ops
    BY TaskFacts DEF AdmitWithoutTransport, AtDestination
  <2>2. input_queue' \in [Machines -> Seq(Ops)]
    <3>1. \A n \in Machines : Append(input_queue[n], t) \in Seq(Ops)
      BY <2>1, AppendProperties DEF TypeOK
    <3> QED
      BY <3>1 DEF TypeOK, AdmitWithoutTransport, Enqueue
  <2>3. /\ buffer_jobs' \in [Machines -> SUBSET Jobs]
        /\ urgent_reservations' \in [Machines -> SUBSET Ops]
    <3>1. \A n \in Machines : /\ buffer_jobs[n] \cup {t[1]} \in SUBSET Jobs
                              /\ urgent_reservations[n] \ {t} \in SUBSET Ops
      BY TaskFacts DEF TypeOK
    <3> QED
      BY <3>1 DEF TypeOK, AdmitWithoutTransport, Enqueue
  <2>4. assigned_machine[t] \in Machines
    BY <2>1 DEF TypeOK, Committed, AdmitWithoutTransport
  <2> QED
    BY <2>1, <2>2, <2>3, <2>4 DEF TypeOK, AdmitWithoutTransport, Enqueue
<1>2. Committed'
  BY FactoryNone, TaskFacts DEF TypeOK, Committed, AdmitWithoutTransport, Enqueue
<1>3. VehiclePhase'
  BY TaskFacts DEF TypeOK, VehiclePhase, Committed, Destination, AdmitWithoutTransport, Enqueue
<1> QED
  BY <1>1, <1>2, <1>3

LEMMA OfferTaskType ==
  ASSUME TypeInv, NEW t \in Tasks, OfferTask(t)
  PROVE  TypeInv'
<1> USE DEF TypeInv
<1>1. TypeOK'
  BY FactoryConstants, TaskFacts DEF TypeOK, OfferTask
<1>2. Committed'
  BY FactoryNone, TaskFacts DEF TypeOK, Committed, OfferTask
<1>3. VehiclePhase'
  BY TaskFacts DEF TypeOK, VehiclePhase, Committed, Destination, OfferTask
<1> QED
  BY <1>1, <1>2, <1>3

LEMMA BeginAssignType ==
  ASSUME TypeInv, BeginAssign
  PROVE  TypeInv'
<1> USE DEF TypeInv
<1>1. TypeOK'
  BY FactoryConstants, TaskFacts DEF TypeOK, BeginAssign
<1>2. Committed'
  BY FactoryNone, TaskFacts DEF TypeOK, Committed, BeginAssign
<1>3. VehiclePhase'
  BY TaskFacts DEF TypeOK, VehiclePhase, Committed, Destination, BeginAssign
<1> QED
  BY <1>1, <1>2, <1>3

LEMMA AssignTransferType ==
  ASSUME TypeInv, NEW a \in AGVs, NEW t \in Tasks, AssignTransfer(a, t)
  PROVE  TypeInv'
<1> USE DEF TypeInv
<1>1. TypeOK'
  BY FactoryConstants, TaskFacts DEF TypeOK, AssignTransfer, Activate, Assignable, PickupCell, Phases, Handling
<1>2. Committed'
  BY FactoryNone, TaskFacts DEF TypeOK, Committed, AssignTransfer, Activate, Assignable, PickupCell, Phases, Handling
<1>3. VehiclePhase'
  <2>1. \A b \in AGVs : agv_task[b] # None =>
          Destination(agv_task[b])' = Destination(agv_task[b])
    BY DEF AssignTransfer, Activate, Assignable, PickupCell, Destination
  <2>2. t # None
    BY FactoryNone
  <2>3. \A b \in AGVs : b # a =>
          /\ agv_task'[b] = agv_task[b] /\ agv_phase'[b] = agv_phase[b]
          /\ loaded'[b] = loaded[b] /\ pos'[b] = pos[b]
    BY DEF TypeOK, AssignTransfer, Activate, Assignable, PickupCell
  <2>4. agv_task'[a] = t /\ agv_phase'[a] = "TO_PICKUP" /\ loaded'[a] = FALSE
    BY DEF TypeOK, AssignTransfer, Activate, Assignable, PickupCell
  <2>5. ASSUME NEW b \in AGVs, b # a
        PROVE  /\ agv_task'[b] = None <=> agv_phase'[b] = "IDLE"
               /\ loaded'[b] <=> agv_phase'[b] \in {"TO_DROPOFF", "DROPPING"}
               /\ agv_phase'[b] = "DROPPING" => pos'[b] = Destination(agv_task[b])'
    BY <2>1, <2>3, <2>5 DEF VehiclePhase
  <2> QED
    BY <2>2, <2>4, <2>5 DEF VehiclePhase
<1> QED
  BY <1>1, <1>2, <1>3

LEMMA BeginMachinesType ==
  ASSUME TypeInv, BeginMachines
  PROVE  TypeInv'
<1> USE DEF TypeInv
<1>1. TypeOK'
  BY FactoryConstants, TaskFacts DEF TypeOK, BeginMachines
<1>2. Committed'
  BY FactoryNone, TaskFacts DEF TypeOK, Committed, BeginMachines
<1>3. VehiclePhase'
  BY TaskFacts DEF TypeOK, VehiclePhase, Committed, Destination, BeginMachines
<1> QED
  BY <1>1, <1>2, <1>3

LEMMA ReleaseFinishedFacts ==
  ASSUME TypeInv, NEW m \in Machines, NEW o \in Ops, NEW buffer \in SUBSET Jobs,
         ReleaseFinished(o, m, buffer)
  PROVE  /\ buffer_jobs' \in [Machines -> SUBSET Jobs]
         /\ buffered_tasks' \subseteq Tasks
         /\ buffered_tasks \subseteq buffered_tasks'
         /\ \A t \in Ops : t \in buffered_tasks' => t \in buffered_tasks
<1>1. o[1] \in Jobs
  BY TaskFacts
<1>2. <<o[1], NumOps[o[1]]>> \in Tasks
  BY <1>1, TaskFacts
<1>3. <<o[1], NumOps[o[1]]>> \notin Ops
  BY <1>2, TaskFacts DEF IsShipping
<1>4. buffer \cup {o[1]} \in SUBSET Jobs
  BY <1>1
<1>5. buffer_jobs' \in [Machines -> SUBSET Jobs]
  BY <1>4 DEF TypeInv, TypeOK, ReleaseFinished, ShippingTask
<1>6. buffered_tasks' \in {buffered_tasks,
                           buffered_tasks \cup {<<o[1], NumOps[o[1]]>>}}
  BY DEF ReleaseFinished, ShippingTask
<1> QED
  BY <1>2, <1>3, <1>5, <1>6 DEF TypeInv, TypeOK

LEMMA RetryReleaseType ==
  ASSUME TypeInv, NEW m \in Machines, RetryRelease(m)
  PROVE  TypeInv'
<1> USE DEF TypeInv
<1>0. current_op[m] \in Ops /\ buffer_jobs[m] \in SUBSET Jobs
  BY DEF TypeOK, RetryRelease
<1>1. TypeOK'
  <2>1. /\ current_op' \in [Machines -> Ops \cup {None}]
        /\ elapsed' \in [Machines -> Nat]
    BY <1>0 DEF TypeOK, RetryRelease
  <2>2. /\ buffer_jobs' \in [Machines -> SUBSET Jobs]
        /\ buffered_tasks' \subseteq Tasks
    BY <1>0, ReleaseFinishedFacts DEF RetryRelease
  <2> QED
    BY <2>1, <2>2 DEF TypeOK, RetryRelease, MachineTurn
<1>2. Committed'
  BY <1>0, ReleaseFinishedFacts DEF Committed, RetryRelease, MachineTurn
<1>3. VehiclePhase'
  BY TaskFacts DEF TypeOK, VehiclePhase, Committed, Destination, RetryRelease, MachineTurn, ReleaseFinished, ShippingTask
<1> QED
  BY <1>1, <1>2, <1>3

LEMMA ServeFacts ==
  ASSUME TypeInv, NEW m \in Machines, NEW o \in Ops, NEW buffer \in SUBSET Jobs,
         NEW total \in Nat, NEW before \in Nat,
         Serve(o, m, total, before, buffer)
  PROVE  /\ processed' \in [Ops -> Nat]
         /\ status' \in [Ops -> {"PENDING", "PROCESSING", "SUSPENDED", "FINISHED"}]
         /\ current_op' \in [Machines -> Ops \cup {None}]
         /\ elapsed' \in [Machines -> Nat]
         /\ buffer_jobs' \in [Machines -> SUBSET Jobs]
         /\ buffered_tasks' \subseteq Tasks
         /\ buffered_tasks \subseteq buffered_tasks'
         /\ \A t \in Ops : t \in buffered_tasks' => t \in buffered_tasks
<1>1. /\ processed' \in [Ops -> Nat]
      /\ status' \in [Ops -> {"PENDING", "PROCESSING", "SUSPENDED", "FINISHED"}]
      /\ current_op' \in [Machines -> Ops \cup {None}]
      /\ elapsed' \in [Machines -> Nat]
  BY DEF TypeInv, TypeOK, Serve
<1>2. /\ buffer_jobs' \in [Machines -> SUBSET Jobs]
      /\ buffered_tasks' \subseteq Tasks
      /\ buffered_tasks \subseteq buffered_tasks'
      /\ \A t \in Ops : t \in buffered_tasks' => t \in buffered_tasks
  <2>1. CASE ReleaseFinished(o, m, buffer)
    BY <2>1, ReleaseFinishedFacts
  <2>2. CASE /\ buffer_jobs' = [buffer_jobs EXCEPT ![m] = buffer]
             /\ UNCHANGED buffered_tasks
    BY <2>2 DEF TypeInv, TypeOK
  <2> QED
    BY <2>1, <2>2 DEF Serve
<1> QED
  BY <1>1, <1>2

LEMMA ContinueOperationType ==
  ASSUME TypeInv, NEW m \in Machines, ContinueOperation(m)
  PROVE  TypeInv'
<1> USE DEF TypeInv
<1>0. /\ current_op[m] \in Ops /\ buffer_jobs[m] \in SUBSET Jobs
      /\ proc_time[current_op[m]] \in Nat /\ elapsed[m] \in Nat
  BY DEF TypeOK, ContinueOperation
<1>1. TypeOK'
  BY <1>0, ServeFacts DEF TypeOK, ContinueOperation, MachineTurn
<1>2. Committed'
  BY <1>0, ServeFacts DEF Committed, ContinueOperation, MachineTurn
<1>3. VehiclePhase'
  BY TaskFacts DEF TypeOK, VehiclePhase, Committed, Destination, ContinueOperation, MachineTurn, Serve, ReleaseFinished, ShippingTask
<1> QED
  BY <1>1, <1>2, <1>3

LEMMA HoldForUrgentType ==
  ASSUME TypeInv, NEW m \in Machines, HoldForUrgent(m)
  PROVE  TypeInv'
<1> USE DEF TypeInv
<1>1. TypeOK'
  BY FactoryConstants, TaskFacts DEF TypeOK, HoldForUrgent, MachineTurn
<1>2. Committed'
  BY FactoryNone, TaskFacts DEF TypeOK, Committed, HoldForUrgent, MachineTurn
<1>3. VehiclePhase'
  BY TaskFacts DEF TypeOK, VehiclePhase, Committed, Destination, HoldForUrgent, MachineTurn
<1> QED
  BY <1>1, <1>2, <1>3

LEMMA DeactivateType ==
  ASSUME TypeInv, NEW m \in Machines, Deactivate(m)
  PROVE  TypeInv'
<1> USE DEF TypeInv
<1>1. TypeOK'
  BY FactoryConstants, TaskFacts DEF TypeOK, Deactivate, Idle, MachineTurn
<1>2. Committed'
  BY FactoryNone, TaskFacts DEF TypeOK, Committed, Deactivate, Idle, MachineTurn
<1>3. VehiclePhase'
  BY TaskFacts DEF TypeOK, VehiclePhase, Committed, Destination, Deactivate, Idle, MachineTurn
<1> QED
  BY <1>1, <1>2, <1>3

LEMMA BeginSettleType ==
  ASSUME TypeInv, BeginSettle
  PROVE  TypeInv'
<1> USE DEF TypeInv
<1>1. TypeOK'
  BY FactoryConstants, TaskFacts DEF TypeOK, BeginSettle, Busy
<1>2. Committed'
  BY FactoryNone, TaskFacts DEF TypeOK, Committed, BeginSettle, Busy
<1>3. VehiclePhase'
  BY TaskFacts DEF TypeOK, VehiclePhase, Committed, Destination, BeginSettle, Busy
<1> QED
  BY <1>1, <1>2, <1>3

LEMMA SettleWaitsType ==
  ASSUME TypeInv, NEW a \in AGVs, SettleWaits(a)
  PROVE  TypeInv'
<1> USE DEF TypeInv
<1>1. TypeOK'
  BY FactoryConstants, TaskFacts DEF TypeOK, SettleWaits, SettleTurn
<1>2. Committed'
  BY FactoryNone, TaskFacts DEF TypeOK, Committed, SettleWaits, SettleTurn
<1>3. VehiclePhase'
  BY TaskFacts DEF TypeOK, VehiclePhase, Committed, Destination, SettleWaits, SettleTurn
<1> QED
  BY <1>1, <1>2, <1>3

LEMMA StartPickupType ==
  ASSUME TypeInv, NEW a \in AGVs, StartPickup(a)
  PROVE  TypeInv'
<1> USE DEF TypeInv
<1>1. TypeOK'
  BY FactoryConstants, TaskFacts DEF TypeOK, StartPickup, SettleTurn, AtPickup, Phases, Handling
<1>2. Committed'
  BY FactoryNone, TaskFacts DEF TypeOK, Committed, StartPickup, SettleTurn, AtPickup, Phases, Handling
<1>3. VehiclePhase'
  BY TaskFacts DEF TypeOK, VehiclePhase, Committed, Destination, StartPickup, SettleTurn, AtPickup, Phases, Handling
<1> QED
  BY <1>1, <1>2, <1>3

LEMMA StartDropoffType ==
  ASSUME TypeInv, NEW a \in AGVs, StartDropoff(a)
  PROVE  TypeInv'
<1> USE DEF TypeInv
<1>1. TypeOK'
  BY FactoryConstants, TaskFacts DEF TypeOK, StartDropoff, SettleTurn, AtDropoff, Phases, Handling
<1>2. Committed'
  BY FactoryNone, TaskFacts DEF TypeOK, Committed, StartDropoff, SettleTurn, AtDropoff, Phases, Handling
<1>3. VehiclePhase'
  BY TaskFacts DEF TypeOK, VehiclePhase, Committed, Destination, StartDropoff, SettleTurn, AtDropoff, Phases, Handling
<1> QED
  BY <1>1, <1>2, <1>3

LEMMA PickupAtOnceType ==
  ASSUME TypeInv, NEW a \in AGVs, PickupAtOnce(a)
  PROVE  TypeInv'
<1> USE DEF TypeInv
<1>1. TypeOK'
  BY FactoryConstants, TaskFacts DEF TypeOK, PickupAtOnce, SettleTurn, AtPickup, FinishPickup, BufferAfterPickup, Phases, Handling
<1>2. Committed'
  BY FactoryNone, TaskFacts DEF TypeOK, Committed, PickupAtOnce, SettleTurn, AtPickup, FinishPickup, BufferAfterPickup, Phases, Handling
<1>3. VehiclePhase'
  BY TaskFacts DEF TypeOK, VehiclePhase, Committed, Destination, PickupAtOnce, SettleTurn, AtPickup, FinishPickup, BufferAfterPickup, Phases, Handling
<1> QED
  BY <1>1, <1>2, <1>3

LEMMA KeepHandlingType ==
  ASSUME TypeInv, NEW a \in AGVs, KeepHandling(a)
  PROVE  TypeInv'
<1> USE DEF TypeInv
<1>1. TypeOK'
  <2>1. handling' \in [AGVs -> Nat]
    BY DEF TypeOK, KeepHandling
  <2>2. advancing' \subseteq AGVs /\ settling' \subseteq AGVs
    BY DEF TypeOK, KeepHandling, AdvanceTurn
  <2> QED
    BY <2>1, <2>2 DEF TypeOK, KeepHandling, AdvanceTurn
<1>2. Committed'
  BY FactoryNone, TaskFacts DEF TypeOK, Committed, KeepHandling, AdvanceTurn
<1>3. VehiclePhase'
  BY TaskFacts DEF TypeOK, VehiclePhase, Committed, Destination, KeepHandling, AdvanceTurn
<1> QED
  BY <1>1, <1>2, <1>3

LEMMA CompletePickupType ==
  ASSUME TypeInv, NEW a \in AGVs, CompletePickup(a)
  PROVE  TypeInv'
<1> USE DEF TypeInv
<1>1. TypeOK'
  BY FactoryConstants, TaskFacts DEF TypeOK, CompletePickup, AdvanceTurn, FinishPickup, BufferAfterPickup, Phases, Handling
<1>2. Committed'
  BY FactoryNone, TaskFacts DEF TypeOK, Committed, CompletePickup, AdvanceTurn, FinishPickup, BufferAfterPickup, Phases, Handling
<1>3. VehiclePhase'
  BY TaskFacts DEF TypeOK, VehiclePhase, Committed, Destination, CompletePickup, AdvanceTurn, FinishPickup, BufferAfterPickup, Phases, Handling
<1> QED
  BY <1>1, <1>2, <1>3

LEMMA MoveType ==
  ASSUME TypeInv, NEW next \in [AGVs -> Cells], Move(next)
  PROVE  TypeInv'
<1> USE DEF TypeInv
<1>1. TypeOK'
  BY FactoryConstants, TaskFacts DEF TypeOK, Move, LegalMove, Movable, Busy, Handling
<1>2. Committed'
  BY FactoryNone, TaskFacts DEF TypeOK, Committed, Move, LegalMove, Movable, Busy, Handling
<1>3. VehiclePhase'
  BY TaskFacts DEF TypeOK, VehiclePhase, Committed, Destination, Move, LegalMove, Movable, Busy, Handling
<1> QED
  BY <1>1, <1>2, <1>3

LEMMA EndStepType ==
  ASSUME TypeInv, EndStep
  PROVE  TypeInv'
<1> USE DEF TypeInv
<1>1. TypeOK'
  BY FactoryConstants, TaskFacts DEF TypeOK, EndStep
<1>2. Committed'
  BY FactoryNone, TaskFacts DEF TypeOK, Committed, EndStep
<1>3. VehiclePhase'
  BY TaskFacts DEF TypeOK, VehiclePhase, Committed, Destination, EndStep
<1> QED
  BY <1>1, <1>2, <1>3

LEMMA ApplyRescheduleType ==
  ASSUME TypeInv, NEW cancelled \in SUBSET Ops, NEW release \in SUBSET AGVs,
         NEW queues \in NewQueues(cancelled),
         ApplyReschedule(cancelled, release, queues)
  PROVE  TypeInv'
<1> DEFINE freed == release \cup {a \in AGVs : agv_task[a] \in cancelled}
           back  == {agv_task[a] : a \in freed}
<1> USE DEF TypeInv
<1>1. back \subseteq Tasks
  BY DEF TypeOK, ApplyReschedule, Releasable
<1>2. \A m \in Machines : queues[m] \in Seq(Ops)
  <2> SUFFICES ASSUME NEW m \in Machines PROVE queues[m] \in Seq(Ops)
    OBVIOUS
  <2>1. input_queue[m] \in Seq(Ops)
    BY DEF TypeOK
  <2>2. Queued(m) \in SUBSET Ops
    BY <2>1, ElementOfSeq, LenProperties DEF Queued, Range
  <2>3. IsFiniteSet(Queued(m))
    <3>1. IsFiniteSet(DOMAIN input_queue[m])
      BY <2>1, LenProperties, FS_Interval
    <3>2. input_queue[m] \in Surjection(DOMAIN input_queue[m], Queued(m))
      BY <2>1, LenProperties DEF Surjection, Queued, Range
    <3> QED
      BY <3>1, <3>2, FS_Surjection
  <2>4. IsFiniteSet(Queued(m) \ cancelled)
    BY <2>3, FS_Subset
  <2> QED
    BY <2>2, <2>4, OrderingIsSeq DEF NewQueues
<1>3. TypeOK'
  <2>1. /\ input_queue' \in [Machines -> Seq(Ops)]
        /\ urgent_reservations' \in [Machines -> SUBSET Ops]
    <3>1. queues \in [Machines -> Seq(Ops)]
      BY <1>2 DEF NewQueues
    <3> QED
      BY <3>1 DEF TypeOK, ApplyReschedule, Releasable
  <2>2. /\ active_transfers' \subseteq Tasks
        /\ transfers_to_assign' \subseteq Tasks
        /\ buffered_tasks' \subseteq Tasks
    BY <1>1 DEF TypeOK, ApplyReschedule, Releasable
  <2>3. reschedules' \in 0..MaxReschedules
    BY FactoryConstants DEF TypeOK, ApplyReschedule, Releasable
  <2>4. /\ transport_task' \in [Jobs -> Tasks \cup {None}]
        /\ agv_task' \in [AGVs -> Tasks \cup {None}]
        /\ agv_phase' \in [AGVs -> Phases]
        /\ handling' \in [AGVs -> Nat]
    BY DEF TypeOK, ApplyReschedule, Releasable, Phases
  <2>5. /\ transfer_requested' \in [Ops -> BOOLEAN]
        /\ assigned_machine' \in [Ops -> Machines \cup {None}]
        /\ arrived' \in [Ops -> BOOLEAN]
    BY DEF TypeOK, ApplyReschedule, Releasable
  <2> QED
    BY <2>1, <2>2, <2>3, <2>4, <2>5 DEF TypeOK, ApplyReschedule, Releasable
<1>4. ASSUME NEW a \in AGVs, a \in freed
      PROVE  agv_task'[a] = None /\ agv_phase'[a] = "IDLE" /\ loaded'[a] = FALSE
  BY <1>4 DEF TypeOK, ApplyReschedule, Releasable
<1>5. ASSUME NEW a \in AGVs, a \notin freed
      PROVE  /\ agv_task'[a] = agv_task[a] /\ agv_phase'[a] = agv_phase[a]
             /\ loaded'[a] = loaded[a] /\ pos'[a] = pos[a]
             /\ agv_task[a] \notin cancelled
  BY <1>5 DEF TypeOK, ApplyReschedule, Releasable
<1>6. Committed'
  <2>1. scan' = {}
    BY DEF ApplyReschedule, Releasable, Committed
  <2>2. ASSUME NEW t \in Ops,
               \/ t \in buffered_tasks' \cup transfers_to_assign'
               \/ \E a \in AGVs : agv_task'[a] = t
        PROVE  assigned_machine'[t] \in Machines
    <3>1. t \notin cancelled
      BY <2>2, <1>4, <1>5, FactoryNone, TaskFacts DEF ApplyReschedule, Releasable
    <3>2. \/ t \in buffered_tasks \cup transfers_to_assign
          \/ \E a \in AGVs : agv_task[a] = t
      BY <2>2, <1>4, <1>5, FactoryNone, TaskFacts DEF ApplyReschedule, Releasable
    <3> QED
      BY <3>1, <3>2 DEF Committed, ApplyReschedule, Releasable
  <2> QED
    BY <2>1, <2>2 DEF Committed, ApplyReschedule, Releasable
<1>7. VehiclePhase'
  <2>1. ASSUME NEW a \in AGVs, a \notin freed, agv_task[a] # None
        PROVE  Destination(agv_task[a])' = Destination(agv_task[a])
    BY <2>1, <1>5, TaskFacts DEF TypeOK, Destination, ApplyReschedule, Releasable
  <2> QED
    BY <1>4, <1>5, <2>1 DEF VehiclePhase
<1> QED
  BY <1>3, <1>6, <1>7

LEMMA BeginFacts ==
  ASSUME TypeInv, NEW m \in Machines, NEW o \in Ops, Begin(o, m),
         input_queue' \in [Machines -> Seq(Ops)],
         suspended_ops' \in [Machines -> Seq(Ops)]
  PROVE  TypeInv'
<1> USE DEF TypeInv
<1>1. PICK p \in ProcTimes \cup {remaining[o]} :
        /\ proc_time' = [proc_time EXCEPT ![o] = p]
        /\ \/ sampled' = [sampled EXCEPT ![o] = p] /\ UNCHANGED remaining
           \/ remaining' = [remaining EXCEPT ![o] = 0] /\ UNCHANGED sampled
        /\ Serve(o, m, p, 0, buffer_jobs[m] \ {o[1]})
        /\ MachineTurn(m)
        /\ UNCHANGED <<pc, scan, settling, advancing, assigned_this_step,
                       planVars, jobVars, urgent_reservations, activated,
                       agvVars, pos, transfers_to_assign, active_transfers,
                       statusVars, boundVars>>
  BY DEF Begin
<1>2. p \in Nat /\ buffer_jobs[m] \ {o[1]} \in SUBSET Jobs
  BY FactoryConstants DEF TypeOK
<1>3. /\ processed' \in [Ops -> Nat]
      /\ status' \in [Ops -> {"PENDING", "PROCESSING", "SUSPENDED", "FINISHED"}]
      /\ current_op' \in [Machines -> Ops \cup {None}]
      /\ elapsed' \in [Machines -> Nat]
      /\ buffer_jobs' \in [Machines -> SUBSET Jobs]
      /\ buffered_tasks' \subseteq Tasks
      /\ buffered_tasks \subseteq buffered_tasks'
      /\ \A t \in Ops : t \in buffered_tasks' => t \in buffered_tasks
  BY <1>1, <1>2, ServeFacts
<1>4. /\ proc_time' \in [Ops -> Nat]
      /\ sampled' \in [Ops -> Nat]
      /\ remaining' \in [Ops -> Nat]
  <2>1. CASE sampled' = [sampled EXCEPT ![o] = p] /\ UNCHANGED remaining
    BY <1>1, <1>2, <2>1 DEF TypeOK
  <2>2. CASE remaining' = [remaining EXCEPT ![o] = 0] /\ UNCHANGED sampled
    BY <1>1, <1>2, <2>2 DEF TypeOK
  <2> QED
    BY <1>1, <2>1, <2>2
<1>5. TypeOK'
  BY <1>1, <1>3, <1>4 DEF TypeOK, MachineTurn
<1>6. Committed'
  BY <1>1, <1>3 DEF Committed
<1>7. VehiclePhase'
  BY <1>1 DEF VehiclePhase, Destination
<1> QED
  BY <1>5, <1>6, <1>7

LEMMA StartQueuedType ==
  ASSUME TypeInv, NEW m \in Machines, StartQueued(m)
  PROVE  TypeInv'
<1>1. PICK i \in DOMAIN input_queue[m] :
        /\ input_queue' = [input_queue EXCEPT ![m] =
                             SubSeq(@, 1, i - 1) \o SubSeq(@, i + 1, Len(@))]
        /\ UNCHANGED suspended_ops
        /\ Begin(input_queue[m][i], m)
  BY DEF StartQueued
<1> DEFINE q == input_queue[m]
<1>2. /\ q \in Seq(Ops) /\ Len(q) \in Nat /\ i \in 1..Len(q)
      /\ \A k \in 1..Len(q) : q[k] \in Ops
  BY LenProperties, ElementOfSeq DEF TypeInv, TypeOK
<1>3. SubSeq(q, 1, i - 1) \in Seq(Ops) /\ SubSeq(q, i + 1, Len(q)) \in Seq(Ops)
  <2>1. \A k \in 1..(i - 1) : q[k] \in Ops
    BY <1>2
  <2>2. \A k \in (i + 1)..Len(q) : q[k] \in Ops
    BY <1>2
  <2> QED
    BY <1>2, <2>1, <2>2, SubSeqProperties
<1>4. SubSeq(q, 1, i - 1) \o SubSeq(q, i + 1, Len(q)) \in Seq(Ops)
  BY <1>3, ConcatProperties
<1>5. input_queue' \in [Machines -> Seq(Ops)]
  BY <1>1, <1>4 DEF TypeInv, TypeOK
<1>6. suspended_ops' \in [Machines -> Seq(Ops)]
  BY <1>1 DEF TypeInv, TypeOK
<1> QED
  BY <1>1, <1>2, <1>5, <1>6, BeginFacts

LEMMA ResumeSuspendedType ==
  ASSUME TypeInv, NEW m \in Machines, ResumeSuspended(m)
  PROVE  TypeInv'
<1>1. /\ Head(suspended_ops[m]) \in Ops
      /\ Tail(suspended_ops[m]) \in Seq(Ops)
  BY HeadTailProperties DEF TypeInv, TypeOK, ResumeSuspended
<1>2. /\ input_queue' \in [Machines -> Seq(Ops)]
      /\ suspended_ops' \in [Machines -> Seq(Ops)]
  BY <1>1 DEF TypeInv, TypeOK, ResumeSuspended
<1> QED
  BY <1>1, <1>2, BeginFacts DEF ResumeSuspended

\* What a delivery does to the types; both ways to finish a dropoff use it.
LEMMA FinishDropoffFacts ==
  ASSUME TypeInv, NEW a \in AGVs, FinishDropoff(a),
         agv_phase[a] \in {"TO_DROPOFF", "DROPPING"},
         UNCHANGED <<pc, scan, running, assigned_this_step, pos, statusVars,
                     boundVars>>,
         settling' \subseteq AGVs, advancing' \subseteq AGVs
  PROVE  TypeInv'
<1> USE DEF TypeInv
<1> DEFINE t == agv_task[a]
<1>1. CASE Deliver(a)
  <2>1. t \in Tasks /\ t[1] \in Jobs /\ Destination(t) \in Cells
    BY TaskFacts, DestinationIsCell DEF TypeOK, VehiclePhase
  <2>2. t \notin Ops => IsShipping(t)
    BY <2>1, TaskFacts
  <2>3. /\ arrived' \in [Ops -> BOOLEAN]
        /\ sampled' \in [Ops -> Nat]
        /\ input_queue' \in [Machines -> Seq(Ops)]
        /\ buffer_jobs' \in [Machines -> SUBSET Jobs]
        /\ urgent_reservations' \in [Machines -> SUBSET Ops]
        /\ activated' \subseteq Machines
        /\ delivered' \in [Jobs -> BOOLEAN]
    <3>1. CASE IsShipping(t)
      BY <1>1, <3>1, <2>1 DEF TypeOK, Deliver
    <3>2. CASE ~IsShipping(t)
      <4>1. t \in Ops /\ assigned_machine[t] \in Machines
        BY <2>2, <3>2 DEF Committed
      <4>2. Enqueue(t, assigned_machine[t]) /\ UNCHANGED delivered
        BY <1>1, <3>2 DEF Deliver
      <4>3. \A n \in Machines : Append(input_queue[n], t) \in Seq(Ops)
        BY <4>1, AppendProperties DEF TypeOK
      <4>4. \A n \in Machines : /\ buffer_jobs[n] \cup {t[1]} \in SUBSET Jobs
                                /\ urgent_reservations[n] \ {t} \in SUBSET Ops
        BY <2>1 DEF TypeOK
      <4> QED
        BY <4>1, <4>2, <4>3, <4>4 DEF TypeOK, Enqueue
    <3> QED
      BY <3>1, <3>2
  <2>4. /\ material_location' \in [Jobs -> Cells \cup {None}]
        /\ carrier_id' \in [Jobs -> AGVs \cup {None}]
        /\ transport_task' \in [Jobs -> Tasks \cup {None}]
        /\ active_transfers' \subseteq Tasks
        /\ agv_task' \in [AGVs -> Tasks \cup {None}]
        /\ loaded' \in [AGVs -> BOOLEAN]
        /\ agv_phase' \in [AGVs -> Phases]
        /\ handling' \in [AGVs -> Nat]
    BY <1>1, <2>1 DEF TypeOK, Deliver, Phases
  <2>5. TypeOK'
    BY <1>1, <2>3, <2>4 DEF TypeOK, Deliver
  <2>6. Committed'
    BY <1>1, FactoryNone, TaskFacts DEF TypeOK, Committed, Deliver
  <2>7. VehiclePhase'
    BY <1>1 DEF TypeOK, VehiclePhase, Deliver, Destination
  <2> QED
    BY <2>5, <2>6, <2>7
<1>2. CASE /\ agv_phase' = [agv_phase EXCEPT ![a] = "TO_DROPOFF"]
           /\ handling' = [handling EXCEPT ![a] = 0]
           /\ agv_phase[a] \in {"TO_DROPOFF", "DROPPING"}
           /\ UNCHANGED <<planVars, serviceVars, jobVars, queueVars, workVars,
                          buffer_jobs, agv_task, loaded, source, taskVars>>
  <2>1. TypeOK'
    BY <1>2 DEF TypeOK, Phases
  <2>2. Committed'
    BY <1>2 DEF Committed
  <2>3. VehiclePhase'
    BY <1>2 DEF TypeOK, VehiclePhase, Destination
  <2> QED
    BY <2>1, <2>2, <2>3
<1> QED
  BY <1>1, <1>2 DEF FinishDropoff

LEMMA DropoffAtOnceType ==
  ASSUME TypeInv, NEW a \in AGVs, DropoffAtOnce(a)
  PROVE  TypeInv'
<1>1. settling' \subseteq AGVs /\ advancing' \subseteq AGVs
  BY DEF TypeInv, TypeOK, DropoffAtOnce
<1>2. agv_phase[a] \in {"TO_DROPOFF", "DROPPING"}
  BY DEF DropoffAtOnce, AtDropoff
<1> QED
  BY <1>1, <1>2, FinishDropoffFacts DEF DropoffAtOnce

LEMMA CompleteDropoffType ==
  ASSUME TypeInv, NEW a \in AGVs, CompleteDropoff(a)
  PROVE  TypeInv'
<1>1. settling' \subseteq AGVs /\ advancing' \subseteq AGVs
  BY DEF TypeInv, TypeOK, CompleteDropoff, AdvanceTurn
<1> QED
  BY <1>1, FinishDropoffFacts DEF CompleteDropoff, AdvanceTurn

LEMMA TypeNext == TypeInv /\ [Next]_vars => TypeInv'
<1> SUFFICES ASSUME TypeInv, [Next]_vars PROVE TypeInv'
  OBVIOUS
<1>1. CASE Plan
  <2>1. CASE Reschedule
    BY <2>1, ApplyRescheduleType DEF Reschedule
  <2>2. CASE \E m \in Machines : BreakMachine(m) \/ RepairMachine(m)
    BY <2>2, BreakMachineType, RepairMachineType
  <2>3. CASE \E a \in AGVs : BreakAgv(a) \/ RepairAgv(a)
    BY <2>3, BreakAgvType, RepairAgvType
  <2>4. CASE \E o \in Ops, m \in Machines : RequestTransfer(o, m)
    BY <2>4, RequestTransferType
  <2> QED
    BY <1>1, <2>1, <2>2, <2>3, <2>4 DEF Plan
<1>2. CASE Dispatch
  BY <1>2, BeginTaskStepType, KeepBufferedType, AdmitWithoutTransportType,
     OfferTaskType, BeginAssignType, AssignTransferType DEF Dispatch
<1>3. CASE BeginMachines
  BY <1>3, BeginMachinesType
<1>4. CASE \E m \in Machines : Machine(m)
  BY <1>4, RetryReleaseType, ContinueOperationType, HoldForUrgentType,
     StartQueuedType, ResumeSuspendedType, DeactivateType DEF Machine
<1>5. CASE Transport
  <2>1. CASE \E a \in AGVs : Vehicle(a)
    BY <2>1, SettleWaitsType, StartPickupType, StartDropoffType,
       PickupAtOnceType, DropoffAtOnceType, KeepHandlingType,
       CompletePickupType, CompleteDropoffType DEF Vehicle
  <2>2. CASE \E next \in [AGVs -> Cells] : Move(next)
    BY <2>2, MoveType
  <2> QED
    BY <1>5, <2>1, <2>2, BeginSettleType, EndStepType DEF Transport
<1>6. CASE UNCHANGED vars
  BY <1>6 DEF vars, TypeInv, TypeOK, Committed, VehiclePhase, Destination
<1> QED
  BY <1>1, <1>2, <1>3, <1>4, <1>5, <1>6 DEF Next

\* Every variable keeps its type, along with the facts about the phases of a
\* vehicle and the machines of committed operations that this needs.
THEOREM TypeCorrect == Spec => []TypeOK
<1>1. Init => TypeInv
  BY TypeInit
<1>2. TypeInv /\ [Next]_vars => TypeInv'
  BY TypeNext
<1>3. TypeInv => TypeOK
  BY DEF TypeInv
<1> QED
  BY <1>1, <1>2, <1>3, PTL DEF Spec

-----------------------------------------------------------------------------
(* Finite buffers.                                                         *)

LEMMA BufferFinite ==
  ASSUME TypeInv, NEW m \in Machines, NEW S \in SUBSET buffer_jobs[m]
  PROVE  /\ IsFiniteSet(S) /\ Cardinality(S) \in Nat
         /\ Cardinality(S) <= Cardinality(buffer_jobs[m])
         /\ Capacity[m] \in Nat
<1>1. IsFiniteSet(buffer_jobs[m])
  BY FactoryFinite, FS_Subset DEF TypeInv, TypeOK
<1> QED
  BY <1>1, FS_Subset, FS_CardinalityType, FactoryConstants

\* Adding one workpiece where there is room, or the one that is there.
LEMMA BufferAdd ==
  ASSUME TypeInv, BufferBound, NEW m \in Machines,
         NEW S \in SUBSET buffer_jobs[m], NEW j,
         Cardinality(S) < Capacity[m] \/ j \in buffer_jobs[m]
  PROVE  Cardinality(S \cup {j}) <= Capacity[m]
<1>1. CASE j \in buffer_jobs[m]
  <2>1. S \cup {j} \in SUBSET buffer_jobs[m]
    BY <1>1
  <2> QED
    BY <2>1, BufferFinite DEF BufferBound
<1>2. CASE Cardinality(S) < Capacity[m]
  <2>1. IsFiniteSet(S) /\ Cardinality(S) \in Nat /\ Capacity[m] \in Nat
    BY BufferFinite
  <2>2. Cardinality(S \cup {j}) <= Cardinality(S) + 1
    BY SMTT(30), <2>1, FS_AddElement
  <2> QED
    BY SMTT(30), <1>2, <2>1, <2>2, FS_AddElement
<1> QED
  BY <1>1, <1>2

LEMMA ReleaseBound ==
  ASSUME TypeInv, BufferBound, NEW m \in Machines, NEW o \in Ops,
         NEW S \in SUBSET buffer_jobs[m], ReleaseFinished(o, m, S)
  PROVE  BufferBound'
<1>1. CASE /\ HasRoom(m, S)
           /\ buffer_jobs' = [buffer_jobs EXCEPT ![m] = S \cup {o[1]}]
  <2>1. Cardinality(S \cup {o[1]}) <= Capacity[m]
    BY <1>1, BufferAdd DEF HasRoom
  <2> QED
    BY <1>1, <2>1 DEF TypeInv, TypeOK, BufferBound
<1>2. CASE buffer_jobs' = [buffer_jobs EXCEPT ![m] = S]
  <2>1. Cardinality(S) <= Capacity[m]
    BY BufferFinite DEF BufferBound
  <2> QED
    BY <1>2, <2>1 DEF TypeInv, TypeOK, BufferBound
<1> QED
  BY <1>1, <1>2 DEF ReleaseFinished, ShippingTask

LEMMA ServeBound ==
  ASSUME TypeInv, BufferBound, NEW m \in Machines, NEW o \in Ops,
         NEW S \in SUBSET buffer_jobs[m], NEW total, NEW before,
         Serve(o, m, total, before, S)
  PROVE  BufferBound'
<1>1. CASE buffer_jobs' = [buffer_jobs EXCEPT ![m] = S]
  <2>1. Cardinality(S) <= Capacity[m]
    BY BufferFinite DEF BufferBound
  <2> QED
    BY <1>1, <2>1 DEF TypeInv, TypeOK, BufferBound
<1> QED
  BY <1>1, ReleaseBound DEF Serve

LEMMA EnqueueBound ==
  ASSUME TypeInv, BufferBound, NEW m \in Machines, NEW o, Enqueue(o, m),
         o[1] \in buffer_jobs[m] \/ ~Full(m)
  PROVE  BufferBound'
<1>1. Cardinality(buffer_jobs[m] \cup {o[1]}) <= Capacity[m]
  <2>1. ~Full(m) => Cardinality(buffer_jobs[m]) < Capacity[m]
    BY BufferFinite DEF Full
  <2> QED
    BY <2>1, BufferAdd
<1> QED
  BY <1>1 DEF TypeInv, TypeOK, BufferBound, Enqueue

LEMMA PickupBound ==
  ASSUME TypeInv, BufferBound, NEW a \in AGVs, FinishPickup(a)
  PROVE  BufferBound'
<1> SUFFICES ASSUME NEW m \in Machines
             PROVE  Cardinality(buffer_jobs'[m]) <= Capacity[m]
  BY DEF BufferBound
<1>1. buffer_jobs'[m] \in SUBSET buffer_jobs[m]
  BY DEF FinishPickup, BufferAfterPickup
<1> QED
  BY <1>1, BufferFinite DEF BufferBound

LEMMA DropoffBound ==
  ASSUME TypeInv, BufferBound, NEW a \in AGVs, FinishDropoff(a),
         agv_phase[a] \in {"TO_DROPOFF", "DROPPING"}
  PROVE  BufferBound'
<1>1. CASE UNCHANGED buffer_jobs
  BY <1>1 DEF BufferBound
<1>2. CASE /\ ~NoRoomFor(agv_task[a]) /\ ~IsShipping(agv_task[a])
           /\ Enqueue(agv_task[a], assigned_machine[agv_task[a]])
  <2>1. agv_task[a] \in Ops
    BY <1>2, TaskFacts DEF TypeInv, TypeOK, VehiclePhase
  <2>2. assigned_machine[agv_task[a]] \in Machines
    BY <2>1 DEF TypeInv, Committed
  <2> QED
    BY <1>2, <2>2, EnqueueBound DEF NoRoomFor
<1> QED
  BY <1>1, <1>2 DEF FinishDropoff, Deliver

\* No buffer ever holds more workpieces than its capacity.
THEOREM BufferNeverOverflows == Spec => []BufferBound
<1>1. Init => BufferBound
  <2> SUFFICES ASSUME Init PROVE BufferBound
    OBVIOUS
  <2> QED
    BY FactoryConstants, FS_EmptySet DEF Init, BufferBound
<1>2. TypeInv /\ BufferBound /\ [Next]_vars => BufferBound'
  <2> SUFFICES ASSUME TypeInv, BufferBound, [Next]_vars PROVE BufferBound'
    OBVIOUS
  <2>1. CASE UNCHANGED buffer_jobs
    BY <2>1 DEF BufferBound
  <2>2. ASSUME NEW t \in Tasks, AdmitWithoutTransport(t) PROVE BufferBound'
    <3>1. t \in Ops
      BY <2>2, TaskFacts DEF AdmitWithoutTransport, AtDestination
    <3>2. assigned_machine[t] \in Machines
      BY <2>2, <3>1 DEF TypeInv, Committed, AdmitWithoutTransport
    <3> QED
      BY <2>2, <3>2, EnqueueBound DEF AdmitWithoutTransport
  <2>3. ASSUME NEW m \in Machines, Machine(m) PROVE BufferBound'
    <3>1. CASE RetryRelease(m)
      BY <3>1, ReleaseBound DEF RetryRelease, TypeInv, TypeOK
    <3>2. CASE ContinueOperation(m)
      BY <3>2, ServeBound DEF ContinueOperation, TypeInv, TypeOK
    <3>3. ASSUME NEW o \in Ops, Begin(o, m) PROVE BufferBound'
      <4>1. buffer_jobs[m] \ {o[1]} \in SUBSET buffer_jobs[m]
        OBVIOUS
      <4> QED
        BY <3>3, <4>1, ServeBound DEF Begin
    <3>4. CASE StartQueued(m)
      <4>1. PICK i \in DOMAIN input_queue[m] : Begin(input_queue[m][i], m)
        BY <3>4 DEF StartQueued
      <4>2. input_queue[m][i] \in Ops
        BY LenProperties, ElementOfSeq DEF TypeInv, TypeOK
      <4> QED
        BY <3>3, <4>1, <4>2
    <3>5. CASE ResumeSuspended(m)
      <4>1. Head(suspended_ops[m]) \in Ops
        BY <3>5, HeadTailProperties DEF ResumeSuspended, TypeInv, TypeOK
      <4> QED
        BY <3>3, <3>5, <4>1 DEF ResumeSuspended
    <3>6. CASE HoldForUrgent(m) \/ Deactivate(m)
      BY <2>1, <3>6 DEF HoldForUrgent, Deactivate, Idle
    <3> QED
      BY <2>3, <3>1, <3>2, <3>4, <3>5, <3>6 DEF Machine
  <2>4. ASSUME NEW a \in AGVs, Vehicle(a) PROVE BufferBound'
    <3>1. CASE PickupAtOnce(a) \/ CompletePickup(a)
      BY <3>1, PickupBound DEF PickupAtOnce, CompletePickup
    <3>2. CASE DropoffAtOnce(a)
      BY <3>2, DropoffBound DEF DropoffAtOnce, AtDropoff
    <3>3. CASE CompleteDropoff(a)
      BY <3>3, DropoffBound DEF CompleteDropoff
    <3>4. CASE SettleWaits(a) \/ StartPickup(a) \/ StartDropoff(a) \/ KeepHandling(a)
      BY <2>1, <3>4 DEF SettleWaits, StartPickup, StartDropoff, KeepHandling
    <3> QED
      BY <2>4, <3>1, <3>2, <3>3, <3>4 DEF Vehicle
  <2>5. CASE Plan
    BY <2>1, <2>5 DEF Plan, Reschedule, ApplyReschedule, Releasable, BreakMachine,
       RepairMachine, BreakAgv, RepairAgv, RequestTransfer
  <2>6. CASE Dispatch
    BY <2>1, <2>2, <2>6 DEF Dispatch, BeginTaskStep, KeepBuffered, OfferTask,
       BeginAssign, AssignTransfer, Activate, Assignable, PickupCell
  <2>7. CASE BeginMachines
    BY <2>1, <2>7 DEF BeginMachines
  <2>8. CASE Transport
    BY <2>1, <2>4, <2>8 DEF Transport, BeginSettle, Move, EndStep
  <2>9. CASE UNCHANGED vars
    BY <2>1, <2>9 DEF vars
  <2> QED
    BY <2>3, <2>5, <2>6, <2>7, <2>8, <2>9 DEF Next
<1> QED
  BY <1>1, <1>2, TypeInit, TypeNext, PTL DEF Spec

-----------------------------------------------------------------------------
(* Loaded vehicles.                                                        *)

\* The step relation that LoadedStaysAboard speaks of, for one vehicle.
StaysAboard(a) ==
  loaded[a] /\ (agv_task'[a] # agv_task[a] \/ ~loaded'[a])
    => /\ pos[a] = Destination(agv_task[a])
       /\ material_location'[agv_task[a][1]] = pos[a]

LEMMA DropoffStays ==
  ASSUME TypeInv, NEW b \in AGVs, FinishDropoff(b),
         pos[b] = Destination(agv_task[b]), agv_task[b] # None,
         NEW a \in AGVs
  PROVE  StaysAboard(a)
<1>1. CASE Deliver(b)
  <2>1. agv_task[b][1] \in Jobs
    BY TaskFacts DEF TypeInv, TypeOK
  <2>2. CASE a = b
    BY <1>1, <2>1, <2>2 DEF StaysAboard, Deliver, TypeInv, TypeOK
  <2>3. CASE a # b
    BY <1>1, <2>3 DEF StaysAboard, Deliver, TypeInv, TypeOK
  <2> QED
    BY <2>2, <2>3
<1>2. CASE UNCHANGED <<agv_task, loaded>>
  BY <1>2 DEF StaysAboard
<1> QED
  BY <1>1, <1>2 DEF FinishDropoff

LEMMA StaysAboardNext ==
  ASSUME TypeInv, [Next]_vars, NEW a \in AGVs
  PROVE  StaysAboard(a)
<1>1. CASE UNCHANGED <<agv_task, loaded>>
  BY <1>1 DEF StaysAboard, TypeInv, TypeOK
<1>2. CASE Plan
  <2>1. CASE Reschedule
    BY <2>1 DEF Reschedule, ApplyReschedule, Releasable, StaysAboard, TypeInv, TypeOK
  <2> QED
    BY <1>1, <1>2, <2>1 DEF Plan, BreakMachine, RepairMachine, BreakAgv,
       RepairAgv, RequestTransfer
<1>3. CASE Dispatch
  <2>1. ASSUME NEW b \in AGVs, NEW t \in Tasks, AssignTransfer(b, t)
        PROVE  StaysAboard(a)
    <3>1. ~loaded[b]
      BY <2>1 DEF AssignTransfer, Activate, Assignable, PickupCell, TypeInv, VehiclePhase
    <3> QED
      BY <2>1, <3>1 DEF AssignTransfer, Activate, Assignable, PickupCell, StaysAboard, TypeInv, TypeOK
  <2> QED
    BY <1>1, <1>3, <2>1 DEF Dispatch, BeginTaskStep, KeepBuffered,
       AdmitWithoutTransport, OfferTask, BeginAssign
<1>4. CASE BeginMachines
  BY <1>1, <1>4 DEF BeginMachines
<1>5. CASE \E m \in Machines : Machine(m)
  <2>1. ASSUME NEW m \in Machines, Machine(m)
        PROVE  UNCHANGED <<agv_task, loaded>>
    <3>1. CASE RetryRelease(m)
      BY <3>1 DEF RetryRelease
    <3>2. CASE ContinueOperation(m)
      BY <3>2 DEF ContinueOperation
    <3>3. CASE HoldForUrgent(m)
      BY <3>3 DEF HoldForUrgent
    <3>4. ASSUME NEW o \in Ops, Begin(o, m)
          PROVE  UNCHANGED <<agv_task, loaded>>
      BY <3>4 DEF Begin
    <3>5. CASE StartQueued(m)
      <4>1. PICK i \in DOMAIN input_queue[m] : Begin(input_queue[m][i], m)
        BY <3>5 DEF StartQueued
      <4>2. input_queue[m][i] \in Ops
        BY <4>1 DEF TypeInv, TypeOK
      <4> QED
        BY <3>4, <4>1, <4>2
    <3>6. CASE ResumeSuspended(m)
      <4>1. Head(suspended_ops[m]) \in Ops
        BY <3>6 DEF ResumeSuspended, TypeInv, TypeOK
      <4> QED
        BY <3>4, <3>6, <4>1 DEF ResumeSuspended
    <3>7. CASE Deactivate(m)
      BY <3>7 DEF Deactivate, Idle
    <3> QED
      BY <2>1, <3>1, <3>2, <3>3, <3>5, <3>6, <3>7 DEF Machine
  <2> QED
    BY <1>1, <1>5, <2>1
<1>6. CASE Transport
  <2>1. ASSUME NEW b \in AGVs, Vehicle(b) PROVE StaysAboard(a)
    <3>1. CASE FinishPickup(b)
      BY <3>1 DEF FinishPickup, BufferAfterPickup, StaysAboard, TypeInv, TypeOK
    <3>2. CASE DropoffAtOnce(b)
      <4>1. pos[b] = Destination(agv_task[b]) /\ agv_task[b] # None
        BY <3>2 DEF DropoffAtOnce, AtDropoff, TypeInv, VehiclePhase
      <4> QED
        BY <3>2, <4>1, DropoffStays DEF DropoffAtOnce
    <3>3. CASE CompleteDropoff(b)
      <4>1. pos[b] = Destination(agv_task[b]) /\ agv_task[b] # None
        BY <3>3 DEF CompleteDropoff, TypeInv, VehiclePhase
      <4> QED
        BY <3>3, <4>1, DropoffStays DEF CompleteDropoff
    <3> QED
      BY <1>1, <2>1, <3>1, <3>2, <3>3 DEF Vehicle, SettleWaits, StartPickup,
         StartDropoff, PickupAtOnce, KeepHandling, CompletePickup
  <2> QED
    BY <1>1, <1>6, <2>1 DEF Transport, BeginSettle, Move, EndStep
<1>7. CASE UNCHANGED vars
  BY <1>1, <1>7 DEF vars
<1> QED
  BY <1>2, <1>3, <1>4, <1>5, <1>6, <1>7 DEF Next

\* A loaded vehicle gives up its workpiece and its task only by putting the
\* workpiece down at the destination, rescheduling and breakdowns included.
THEOREM LoadedWorkpieceStaysAboard == Spec => LoadedStaysAboard
<1>1. TypeInv /\ [Next]_vars => [\A a \in AGVs : StaysAboard(a)]_vars
  BY StaysAboardNext
<1> QED
  BY <1>1, TypeInit, TypeNext, PTL DEF Spec, LoadedStaysAboard, StaysAboard

-----------------------------------------------------------------------------
(* Activation of machines.                                                 *)

\* machine_process visits every machine that has work: no arrival, preemption
\* or reschedule leaves one with work out of activated_machines.
THEOREM WorkIsNeverForgotten == Spec => []NoLostWakeup
<1>1. Init => NoLostWakeup
  BY DEF Init, NoLostWakeup
<1>2. TypeInv /\ NoLostWakeup /\ [Next]_vars => NoLostWakeup'
  <2> SUFFICES ASSUME TypeInv, NoLostWakeup, [Next]_vars,
                      NEW m \in Machines, m \notin activated'
               PROVE  /\ input_queue'[m] = <<>> /\ suspended_ops'[m] = <<>>
                      /\ current_op'[m] = None
    BY DEF NoLostWakeup
  <2>1. CASE UNCHANGED <<input_queue, suspended_ops, activated, current_op>>
    BY <2>1 DEF NoLostWakeup
  <2>2. ASSUME NEW o \in Ops, NEW n \in Machines, Enqueue(o, n),
               UNCHANGED <<suspended_ops, current_op>>
        PROVE  /\ input_queue'[m] = <<>> /\ suspended_ops'[m] = <<>>
               /\ current_op'[m] = None
    BY <2>2 DEF Enqueue, NoLostWakeup, TypeInv, TypeOK
  <2>3. CASE Plan
    <3>1. CASE Reschedule
      <4>1. PICK cancelled \in SUBSET Ops :
              /\ input_queue' \in NewQueues(cancelled)
              /\ UNCHANGED <<suspended_ops, activated, current_op>>
        BY <3>1 DEF Reschedule, ApplyReschedule, Releasable
      <4>2. input_queue[m] = <<>> /\ suspended_ops[m] = <<>> /\ current_op[m] = None
        BY <4>1 DEF NoLostWakeup
      <4>3. input_queue'[m] \in Orderings({})
        <5>1. Queued(m) \ cancelled = {}
          BY <4>2 DEF Queued, Range
        <5> QED
          BY <4>1, <5>1 DEF NewQueues
      <4>4. input_queue'[m] = <<>>
        BY <4>3, FS_EmptySet DEF Orderings
      <4> QED
        BY <4>1, <4>2, <4>4
    <3>2. ASSUME NEW o \in Ops, NEW n \in Machines, RequestTransfer(o, n)
          PROVE  /\ input_queue'[m] = <<>> /\ suspended_ops'[m] = <<>>
                 /\ current_op'[m] = None
      <4>1. CASE IsUrgent(o)
        <5>1. activated' = activated \cup {n} /\ UNCHANGED input_queue
          BY <3>2, <4>1 DEF RequestTransfer, ReserveForUrgentTransfer
        <5>2. m # n
          BY <5>1
        <5>3. suspended_ops'[m] = suspended_ops[m] /\ current_op'[m] = current_op[m]
          BY <3>2, <5>2 DEF RequestTransfer, ReserveForUrgentTransfer, Suspend, Unserved,
             TypeInv, TypeOK
        <5> QED
          BY <5>1, <5>3 DEF NoLostWakeup
      <4>2. CASE ~IsUrgent(o)
        BY <2>1, <3>2, <4>2 DEF RequestTransfer, ReserveForUrgentTransfer
      <4> QED
        BY <4>1, <4>2
    <3> QED
      BY <2>1, <2>3, <3>1, <3>2 DEF Plan, BreakMachine, RepairMachine, BreakAgv,
         RepairAgv
  <2>4. CASE Dispatch
    <3>1. ASSUME NEW t \in Tasks, AdmitWithoutTransport(t)
          PROVE  /\ input_queue'[m] = <<>> /\ suspended_ops'[m] = <<>>
                 /\ current_op'[m] = None
      <4>1. t \in Ops
        BY <3>1, TaskFacts DEF AdmitWithoutTransport, AtDestination
      <4>2. assigned_machine[t] \in Machines
        BY <3>1, <4>1 DEF TypeInv, Committed, AdmitWithoutTransport
      <4> QED
        BY <2>2, <3>1, <4>1, <4>2 DEF AdmitWithoutTransport
    <3> QED
      BY <2>1, <2>4, <3>1 DEF Dispatch, BeginTaskStep, KeepBuffered, OfferTask,
         BeginAssign, AssignTransfer, Activate, Assignable, PickupCell
  <2>5. CASE BeginMachines
    BY <2>1, <2>5 DEF BeginMachines
  <2>6. ASSUME NEW n \in Machines, Machine(n)
        PROVE  /\ input_queue'[m] = <<>> /\ suspended_ops'[m] = <<>>
               /\ current_op'[m] = None
    <3>1. CASE RetryRelease(n) \/ ContinueOperation(n)
      BY <3>1 DEF RetryRelease, ContinueOperation, Serve, NoLostWakeup,
         TypeInv, TypeOK
    <3>2. CASE StartQueued(n)
      BY <3>2 DEF StartQueued, Begin, Serve, NoLostWakeup, TypeInv, TypeOK
    <3>3. CASE ResumeSuspended(n)
      BY <3>3 DEF ResumeSuspended, Begin, Serve, NoLostWakeup, TypeInv, TypeOK
    <3>4. CASE HoldForUrgent(n)
      BY <2>1, <3>4 DEF HoldForUrgent
    <3>5. CASE Deactivate(n)
      BY <3>5 DEF Deactivate, Idle, NoLostWakeup, TypeInv, TypeOK
    <3> QED
      BY <2>6, <3>1, <3>2, <3>3, <3>4, <3>5 DEF Machine
  <2>7. CASE Transport
    <3>1. ASSUME NEW a \in AGVs, FinishDropoff(a), agv_phase[a] # "IDLE"
          PROVE  /\ input_queue'[m] = <<>> /\ suspended_ops'[m] = <<>>
                 /\ current_op'[m] = None
      <4>1. CASE /\ ~IsShipping(agv_task[a])
                 /\ Enqueue(agv_task[a], assigned_machine[agv_task[a]])
                 /\ UNCHANGED <<suspended_ops, current_op>>
        <5>1. agv_task[a] \in Ops
          BY <3>1, <4>1, TaskFacts DEF TypeInv, TypeOK, VehiclePhase
        <5>2. assigned_machine[agv_task[a]] \in Machines
          BY <5>1 DEF TypeInv, Committed
        <5> QED
          BY <2>2, <4>1, <5>1, <5>2
      <4> QED
        BY <2>1, <3>1, <4>1 DEF FinishDropoff, Deliver
    <3>2. ASSUME NEW a \in AGVs, Vehicle(a)
          PROVE  /\ input_queue'[m] = <<>> /\ suspended_ops'[m] = <<>>
                 /\ current_op'[m] = None
      <4>1. CASE DropoffAtOnce(a) \/ CompleteDropoff(a)
        BY <3>1, <4>1 DEF DropoffAtOnce, CompleteDropoff, AtDropoff
      <4> QED
        BY <2>1, <3>2, <4>1 DEF Vehicle, SettleWaits, StartPickup, StartDropoff,
           PickupAtOnce, KeepHandling, CompletePickup, FinishPickup, BufferAfterPickup
    <3> QED
      BY <2>1, <2>7, <3>2 DEF Transport, BeginSettle, Move, EndStep
  <2>8. CASE UNCHANGED vars
    BY <2>1, <2>8 DEF vars
  <2> QED
    BY <2>3, <2>4, <2>5, <2>6, <2>7, <2>8 DEF Next
<1> QED
  BY <1>1, <1>2, TypeInit, TypeNext, PTL DEF Spec
=============================================================================
