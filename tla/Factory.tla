------------------------------ MODULE Factory ------------------------------
(***************************************************************************)
(* The material flow of one grid factory: workpieces, machines with finite *)
(* buffers, and AGVs that carry workpieces between them.  One pass through *)
(* the control points                                                      *)
(*                                                                         *)
(*   reschedule, inject, request, buffer, assign, machine, settle, handle  *)
(*                                                                         *)
(* is one call of GridFactoryEnv.step (grid_factory_env.py), which runs    *)
(* apply_reschedule, the exception injector, job_step, task_step and step  *)
(* of PogemaLifeLongWithAssign (assign_env.py) in that order.  The loops   *)
(* of the code over tasks, machines and AGVs are one action per element,   *)
(* taken in every order: the order of the code's lists is one of them.     *)
(*                                                                         *)
(* What the schedulers and routers decide (requests, assignments, moves,   *)
(* reschedules) is an unconstrained input.  Time is abstracted: a transfer *)
(* request is ready when it is made, and a finished-goods task, whose      *)
(* ready_time is the next step, is first looked at in the next step.       *)
(***************************************************************************)
EXTENDS Integers, Sequences, FiniteSets, Functions

CONSTANTS
  Jobs, Machines, AGVs,
  None,                \* Python's None
  MaxOps,              \* bound on the operations of a job
  NumOps,              \* NumOps[j]: the number of operations of job j
  Options,             \* Options[o]: the machines eligible for operation o
  Priority,            \* Priority[j]: the priority of job j and its operations
  ProcTimes,           \* the processing times a sampler may return
  Capacity,            \* Capacity[m]: buffer_capacity of machine m
  PickupDwell, DropoffDwell,
  Cells, Adj,          \* traversable cells and the moves between them
  Location,            \* Location[m]: the cell of machine m
  RawSource, FinishedDest,
  StartPos,            \* StartPos[a]: the cell where AGV a starts
  MaxFailures,         \* bound on the breakdowns of a behaviour
  MaxReschedules       \* bound on the reschedules of a behaviour

\* RoutingTask, named by its (job_id, op_id); op_id = NumOps[j] is the
\* finished-goods transport of job j.
Tasks == {t \in Jobs \X (0..MaxOps) : t[2] <= NumOps[t[1]]}
Ops   == {t \in Tasks : t[2] < NumOps[t[1]]}

ASSUME FactoryConstants ==
  /\ MaxOps \in Nat \ {0}
  /\ NumOps \in [Jobs -> 1..MaxOps]
  /\ Options \in [Ops -> SUBSET Machines]
  /\ Priority \in [Jobs -> Nat]
  /\ ProcTimes \subseteq Nat \ {0}
  /\ Capacity \in [Machines -> Nat \ {0}]
  /\ PickupDwell \in Nat /\ DropoffDwell \in Nat
  /\ Adj \subseteq Cells \X Cells
  /\ Location \in [Machines -> Cells]
  /\ RawSource \in Cells /\ FinishedDest \in Cells
  /\ StartPos \in [AGVs -> Cells]
  /\ MaxFailures \in Nat /\ MaxReschedules \in Nat

ASSUME FactoryNone == None \notin (Machines \cup AGVs \cup Cells \cup Tasks)

\* A machine has a cell of its own and no material station stands on it; the
\* AGVs start on different cells; jobs and machines are finitely many.
ASSUME FactoryLayout ==
  /\ \A m, n \in Machines : Location[m] = Location[n] => m = n
  /\ \A m \in Machines : Location[m] \notin {RawSource, FinishedDest}
  /\ \A a, b \in AGVs : StartPos[a] = StartPos[b] => a = b

ASSUME FactoryFinite == IsFiniteSet(Jobs) /\ IsFiniteSet(Machines)

VARIABLES
  pc,                  \* control point inside GridFactoryEnv.step
  scan,                \* buffered tasks that task_step has yet to look at
  running,             \* activated machines machine_process has yet to visit
  settling,            \* AGVs whose _settle_arrival loop is open
  advancing,           \* AGVs in a handling phase yet to be advanced
  assigned_this_step   \* AGVs given a task in this task_step

VARIABLES
  status,              \* status[o] of the operation
  transfer_requested, assigned_machine,
  arrived,             \* arrive_machine_at >= 0
  proc_time,           \* proc_time of the current run of the operation
  sampled,             \* sampled_proc_time, 0 while not sampled
  remaining,           \* remaining_proc_time, 0 for None
  processed            \* processed_time: service received so far

VARIABLES
  material_location, carrier_id,
  transport_task,      \* transport_task_id
  delivered

VARIABLES
  machine_status, current_op,
  elapsed,             \* machine_process_time
  input_queue, suspended_ops, urgent_reservations, buffer_jobs,
  activated            \* activated_machines

VARIABLES
  pos, agv_status,
  agv_task,            \* agv_current_task
  agv_phase,           \* agv_task_phase
  handling,            \* agv_handling_remaining
  loaded,              \* agv_loaded
  source               \* source of the task the AGV holds

VARIABLES buffered_tasks, transfers_to_assign, active_transfers

VARIABLES failures, reschedules    \* how many of the bounded inputs occurred

controlVars == <<pc, scan, running, settling, advancing, assigned_this_step>>
planVars    == <<transfer_requested, assigned_machine, arrived>>
serviceVars == <<status, proc_time, sampled, remaining, processed>>
jobVars     == <<material_location, carrier_id, transport_task, delivered>>
queueVars   == <<input_queue, suspended_ops, urgent_reservations, activated>>
workVars    == <<current_op, elapsed>>
agvVars     == <<agv_task, agv_phase, handling, loaded, source>>
taskVars    == <<buffered_tasks, transfers_to_assign, active_transfers>>
statusVars  == <<machine_status, agv_status>>
boundVars   == <<failures, reschedules>>
vars == <<controlVars, planVars, serviceVars, jobVars, queueVars, workVars,
          buffer_jobs, agvVars, pos, taskVars, statusVars, boundVars>>

Handling == {"PICKING", "DROPPING"}
Phases   == Handling \cup {"IDLE", "TO_PICKUP", "TO_DROPOFF"}

UrgentPriority == 200
IsUrgent(o) == Priority[o[1]] >= UrgentPriority

IsShipping(t) == t[2] = NumOps[t[1]]                 \* kind "finished_goods"
LastOp(j) == <<j, NumOps[j] - 1>>
ShippingTaskPastEnd(j) == <<j, NumOps[j] + 1>>       \* mutant: off by one
ShippingTask(j) == <<j, NumOps[j]>>                  \* op_id = len(job.ops)
Previous(t) == <<t[1], t[2] - 1>>
Destination(t) == IF IsShipping(t) THEN FinishedDest
                  ELSE Location[assigned_machine[t]]

Full(m) == Cardinality(buffer_jobs[m]) >= Capacity[m]
Queued(m) == Range(input_queue[m])
Suspended(m) == Range(suspended_ops[m])

Init ==
  /\ pc = "reschedule"
  /\ scan = {} /\ running = {} /\ settling = {} /\ advancing = {}
  /\ assigned_this_step = {}
  /\ status = [o \in Ops |-> "PENDING"]
  /\ transfer_requested = [o \in Ops |-> FALSE]
  /\ assigned_machine = [o \in Ops |-> None]
  /\ arrived = [o \in Ops |-> FALSE]
  /\ proc_time = [o \in Ops |-> 0]
  /\ sampled = [o \in Ops |-> 0]
  /\ remaining = [o \in Ops |-> 0]
  /\ processed = [o \in Ops |-> 0]
  /\ material_location = [j \in Jobs |-> RawSource]
  /\ carrier_id = [j \in Jobs |-> None]
  /\ transport_task = [j \in Jobs |-> None]
  /\ delivered = [j \in Jobs |-> FALSE]
  /\ machine_status = [m \in Machines |-> "OK"]
  /\ current_op = [m \in Machines |-> None]
  /\ elapsed = [m \in Machines |-> 0]
  /\ input_queue = [m \in Machines |-> <<>>]
  /\ suspended_ops = [m \in Machines |-> <<>>]
  /\ urgent_reservations = [m \in Machines |-> {}]
  /\ buffer_jobs = [m \in Machines |-> {}]
  /\ activated = {}
  /\ pos = StartPos
  /\ agv_status = [a \in AGVs |-> "OK"]
  /\ agv_task = [a \in AGVs |-> None]
  /\ agv_phase = [a \in AGVs |-> "IDLE"]
  /\ handling = [a \in AGVs |-> 0]
  /\ loaded = [a \in AGVs |-> FALSE]
  /\ source = [a \in AGVs |-> None]
  /\ buffered_tasks = {} /\ transfers_to_assign = {} /\ active_transfers = {}
  /\ failures = 0 /\ reschedules = 0

-----------------------------------------------------------------------------
(* apply_reschedule: one transaction that may cancel unstarted operations, *)
(* take tasks back from unloaded AGVs and reorder the input queues.        *)

\* The orders in which the elements of S may stand in a queue.
Orderings(S) == {q \in [1..Cardinality(S) -> S] :
                   \A i, k \in DOMAIN q : q[i] = q[k] => i = k}

\* Mutant: a cancelled operation stays in the input queue.
NewQueuesWithCancelled(cancelled) ==
  {q \in [Machines -> UNION {Orderings(Queued(m)) : m \in Machines}] :
     \A m \in Machines : q[m] \in Orderings(Queued(m))}

NewQueues(cancelled) ==
  {q \in [Machines -> UNION {Orderings(Queued(m) \ cancelled) : m \in Machines}] :
     \A m \in Machines : q[m] \in Orderings(Queued(m) \ cancelled)}

ReleasableLoaded(a) == agv_task[a] # None           \* mutant: no loaded check

\* "a loaded workpiece must remain on its current AGV"
Releasable(a) == agv_task[a] # None /\ ~loaded[a]

ApplyReschedule(cancelled, release, queues) ==
  LET freed == release \cup {a \in AGVs : agv_task[a] \in cancelled}
      back  == {agv_task[a] : a \in freed}
  IN
  /\ pc = "reschedule"
  /\ reschedules < MaxReschedules
  /\ \A o \in cancelled : status[o] = "PENDING"
  /\ \A a \in freed : Releasable(a)
  /\ pc' = "inject"
  /\ reschedules' = reschedules + 1
  /\ transport_task' = [j \in Jobs |-> IF \E t \in back : t[1] = j
                                       THEN None ELSE transport_task[j]]
  /\ agv_task' = [a \in AGVs |-> IF a \in freed THEN None ELSE agv_task[a]]
  /\ agv_phase' = [a \in AGVs |-> IF a \in freed THEN "IDLE" ELSE agv_phase[a]]
  /\ handling' = [a \in AGVs |-> IF a \in freed THEN 0 ELSE handling[a]]
  /\ active_transfers' = active_transfers \ back
  /\ transfers_to_assign' = (transfers_to_assign \cup back) \ cancelled
  /\ buffered_tasks' = buffered_tasks \ cancelled
  /\ input_queue' = queues
  /\ urgent_reservations' =
       [m \in Machines |-> urgent_reservations[m] \ cancelled]
  /\ transfer_requested' =
       [o \in Ops |-> o \notin cancelled /\ transfer_requested[o]]
  /\ assigned_machine' =
       [o \in Ops |-> IF o \in cancelled THEN None ELSE assigned_machine[o]]
  /\ arrived' = [o \in Ops |-> o \notin cancelled /\ arrived[o]]
  /\ UNCHANGED <<scan, running, settling, advancing, assigned_this_step,
                 serviceVars, material_location, carrier_id, delivered,
                 suspended_ops, activated, workVars, buffer_jobs, loaded,
                 source, pos, statusVars, failures>>

Reschedule == \E cancelled \in SUBSET {o \in Ops : status[o] = "PENDING"},
                 release \in SUBSET {a \in AGVs : agv_task[a] # None} :
                \E queues \in NewQueues(cancelled) :
                  ApplyReschedule(cancelled, release, queues)

-----------------------------------------------------------------------------
(* The exception injector: breakdowns before the step, or by hand between  *)
(* two steps; repairs after the step, or by hand between two steps.        *)

BreakMachine(m) ==
  /\ pc \in {"reschedule", "inject"}
  /\ failures < MaxFailures
  /\ machine_status[m] = "OK"
  /\ machine_status' = [machine_status EXCEPT ![m] = "DOWN"]
  /\ failures' = failures + 1
  /\ UNCHANGED <<controlVars, planVars, serviceVars, jobVars, queueVars,
                 workVars, buffer_jobs, agvVars, pos, taskVars, agv_status,
                 reschedules>>

BreakAgv(a) ==
  /\ pc \in {"reschedule", "inject"}
  /\ failures < MaxFailures
  /\ agv_status[a] = "OK"
  /\ agv_status' = [agv_status EXCEPT ![a] = "DOWN"]
  /\ failures' = failures + 1
  /\ UNCHANGED <<controlVars, planVars, serviceVars, jobVars, queueVars,
                 workVars, buffer_jobs, agvVars, pos, taskVars,
                 machine_status, reschedules>>

RepairMachine(m) ==
  /\ pc = "reschedule"
  /\ machine_status[m] = "DOWN"
  /\ machine_status' = [machine_status EXCEPT ![m] = "OK"]
  /\ UNCHANGED <<controlVars, planVars, serviceVars, jobVars, queueVars,
                 workVars, buffer_jobs, agvVars, pos, taskVars, agv_status,
                 boundVars>>

RepairAgv(a) ==
  /\ pc = "reschedule"
  /\ agv_status[a] = "DOWN"
  /\ agv_status' = [agv_status EXCEPT ![a] = "OK"]
  /\ UNCHANGED <<controlVars, planVars, serviceVars, jobVars, queueVars,
                 workVars, buffer_jobs, agvVars, pos, taskVars,
                 machine_status, boundVars>>

-----------------------------------------------------------------------------
(* job_step: the scheduler commits an operation to a machine.              *)

\* _reserve_for_urgent_transfer: the elapsed time of the current operation
\* is positive and less than its processing time, so it may be suspended.
Preemptable(m) ==
  /\ current_op[m] # None
  /\ ~IsUrgent(current_op[m])
  /\ elapsed[m] > 0
  /\ elapsed[m] < proc_time[current_op[m]]

\* Mutant: a suspended operation is to be served from the start again.
UnservedRestarted(m) == proc_time[current_op[m]]

\* The service the current operation of m still needs.
Unserved(m) == proc_time[current_op[m]] - elapsed[m]

Suspend(m) ==
  LET o == current_op[m] IN
  /\ remaining' = [remaining EXCEPT ![o] = Unserved(m)]
  /\ status' = [status EXCEPT ![o] = "SUSPENDED"]
  /\ suspended_ops' = [suspended_ops EXCEPT ![m] = Append(@, o)]
  /\ current_op' = [current_op EXCEPT ![m] = None]
  /\ elapsed' = [elapsed EXCEPT ![m] = 0]

ReserveForUrgentTransfer(o, m) ==
  \/ /\ ~IsUrgent(o)
     /\ UNCHANGED <<status, remaining, suspended_ops, urgent_reservations,
                    activated, workVars>>
  \/ /\ IsUrgent(o)
     /\ urgent_reservations' = [urgent_reservations EXCEPT ![m] = @ \cup {o}]
     /\ activated' = activated \cup {m}
     /\ \/ Preemptable(m) /\ Suspend(m)
        \/ ~Preemptable(m) /\ UNCHANGED <<status, remaining, suspended_ops,
                                          workVars>>

RequestTransfer(o, m) ==
  /\ pc \in {"reschedule", "inject", "request"}
  /\ m \in Options[o]
  /\ status[o] = "PENDING"
  /\ ~transfer_requested[o]
  /\ assigned_machine[o] = None
  /\ pc' = "request"
  /\ transfer_requested' = [transfer_requested EXCEPT ![o] = TRUE]
  /\ assigned_machine' = [assigned_machine EXCEPT ![o] = m]
  /\ buffered_tasks' = buffered_tasks \cup {o}
  /\ ReserveForUrgentTransfer(o, m)
  /\ UNCHANGED <<scan, running, settling, advancing, assigned_this_step,
                 arrived, proc_time, sampled, processed, jobVars, input_queue,
                 buffer_jobs, agvVars, pos, transfers_to_assign,
                 active_transfers, statusVars, boundVars>>

\* task_step begins: it takes the buffered tasks one by one.
BeginTaskStep ==
  /\ pc \in {"reschedule", "inject", "request"}
  /\ pc' = "buffer"
  /\ scan' = buffered_tasks
  /\ assigned_this_step' = {}
  /\ UNCHANGED <<running, settling, advancing, planVars, serviceVars, jobVars,
                 queueVars, workVars, buffer_jobs, agvVars, pos, taskVars,
                 statusVars, boundVars>>

-----------------------------------------------------------------------------
(* task_step: which buffered tasks are ready, and who carries them.        *)

\* Mutant: it suffices that the previous operation arrived at its machine.
PreviousArrived(t) == t[2] > 0 => arrived[Previous(t)]

PreviousFinished(t) == t[2] > 0 => status[Previous(t)] = "FINISHED"

\* _check_physical_precondition: the workpiece is free, its previous
\* operation is finished and it is not in or under service.
PhysicallyReady(t) ==
  LET j == t[1] IN
  /\ carrier_id[j] = None
  /\ transport_task[j] = None
  /\ PreviousFinished(t)
  /\ \/ t[2] = 0 /\ ~arrived[t] /\ material_location[j] = RawSource
     \/ \A m \in Machines : Location[m] = material_location[j]
                              => j \in buffer_jobs[m]

\* The workpiece already is at the machine of its next operation.
AtDestination(t) == ~IsShipping(t) /\ material_location[t[1]] = Destination(t)

\* Put operation o in the input queue of m: the common end of a delivery and
\* of an admission without transport.
Enqueue(o, m) ==
  /\ arrived' = [arrived EXCEPT ![o] = TRUE]
  /\ sampled' = [sampled EXCEPT ![o] = 0]
  /\ input_queue' = [input_queue EXCEPT ![m] = Append(@, o)]
  /\ buffer_jobs' = [buffer_jobs EXCEPT ![m] = @ \cup {o[1]}]
  /\ urgent_reservations' = [urgent_reservations EXCEPT ![m] = @ \ {o}]
  /\ activated' = activated \cup {m}

\* The task is not ready, or the machine it is at cannot take it: it waits.
KeepBuffered(t) ==
  /\ pc = "buffer" /\ t \in scan
  /\ \/ ~PhysicallyReady(t)
     \/ /\ AtDestination(t)
        /\ t[1] \notin buffer_jobs[assigned_machine[t]]
        /\ Full(assigned_machine[t])
  /\ scan' = scan \ {t}
  /\ UNCHANGED <<pc, running, settling, advancing, assigned_this_step,
                 planVars, serviceVars, jobVars, queueVars, workVars,
                 buffer_jobs, agvVars, pos, taskVars, statusVars, boundVars>>

AdmitWithoutTransport(t) ==
  /\ pc = "buffer" /\ t \in scan
  /\ PhysicallyReady(t) /\ AtDestination(t)
  /\ \/ t[1] \in buffer_jobs[assigned_machine[t]]
     \/ ~Full(assigned_machine[t])
  /\ Enqueue(t, assigned_machine[t])
  /\ scan' = scan \ {t}
  /\ buffered_tasks' = buffered_tasks \ {t}
  /\ UNCHANGED <<pc, running, settling, advancing, assigned_this_step,
                 transfer_requested, assigned_machine, status, proc_time,
                 remaining, processed, jobVars, suspended_ops, workVars,
                 agvVars, pos, transfers_to_assign, active_transfers,
                 statusVars, boundVars>>

OfferTask(t) ==
  /\ pc = "buffer" /\ t \in scan
  /\ PhysicallyReady(t) /\ ~AtDestination(t)
  /\ scan' = scan \ {t}
  /\ buffered_tasks' = buffered_tasks \ {t}
  /\ transfers_to_assign' = transfers_to_assign \cup {t}
  /\ UNCHANGED <<pc, running, settling, advancing, assigned_this_step,
                 planVars, serviceVars, jobVars, queueVars, workVars,
                 buffer_jobs, agvVars, pos, active_transfers, statusVars,
                 boundVars>>

BeginAssign ==
  /\ pc = "buffer" /\ scan = {}
  /\ pc' = "assign"
  /\ UNCHANGED <<scan, running, settling, advancing, assigned_this_step,
                 planVars, serviceVars, jobVars, queueVars, workVars,
                 buffer_jobs, agvVars, pos, taskVars, statusVars, boundVars>>

\* _prepare_transfer: a vehicle is sent where the workpiece is now.
PickupCell(t) == material_location[t[1]]

\* The task passes from transfers_to_assign to active_transfers.
Activate(t) ==
  /\ transfers_to_assign' = transfers_to_assign \ {t}
  /\ active_transfers' = active_transfers \cup {t}

\* An assignment to a broken AGV is deferred: the task stays on offer.
Assignable(a) == agv_task[a] = None /\ agv_status[a] = "OK"

AssignTransfer(a, t) ==
  LET j == t[1] IN
  /\ pc = "assign" /\ settling = {}
  /\ t \in transfers_to_assign
  /\ Assignable(a)
  /\ \A b \in assigned_this_step : agv_task[b] = None \/ agv_task[b][1] # j
  /\ transport_task' = [transport_task EXCEPT ![j] = t]
  /\ agv_task' = [agv_task EXCEPT ![a] = t]
  /\ agv_phase' = [agv_phase EXCEPT ![a] = "TO_PICKUP"]
  /\ handling' = [handling EXCEPT ![a] = 0]
  /\ loaded' = [loaded EXCEPT ![a] = FALSE]
  /\ source' = [source EXCEPT ![a] = PickupCell(t)]
  /\ assigned_this_step' = assigned_this_step \cup {a}
  /\ Activate(t)
  /\ settling' = {a}
  /\ UNCHANGED <<pc, scan, running, advancing, planVars, serviceVars,
                 material_location, carrier_id, delivered, queueVars,
                 workVars, buffer_jobs, pos, buffered_tasks, statusVars,
                 boundVars>>

BeginMachines ==
  /\ pc = "assign" /\ settling = {}
  /\ pc' = "machine"
  /\ running' = {m \in activated : machine_status[m] = "OK"}
  /\ UNCHANGED <<scan, settling, advancing, assigned_this_step, planVars,
                 serviceVars, jobVars, queueVars, workVars, buffer_jobs,
                 agvVars, pos, taskVars, statusVars, boundVars>>

-----------------------------------------------------------------------------
(* machine_process: one step of service on every activated machine.        *)

MachineTurn(m) == pc = "machine" /\ m \in running /\ running' = running \ {m}

\* Mutant: the finished-goods task is forgotten.
ReleaseUnshipped(o, m, buffer) ==
  /\ buffer_jobs' = [buffer_jobs EXCEPT ![m] =
                       IF Cardinality(buffer) < Capacity[m]
                       THEN buffer \cup {o[1]} ELSE buffer]
  /\ UNCHANGED buffered_tasks

\* _release_finished_operation: the finished operation o leaves m if one of
\* its buffer slots is free, the workpieces in buffer holding the others.
HasRoomAtCapacity(m, buffer) ==                      \* mutant: off by one
  Cardinality(buffer) <= Capacity[m]
HasRoom(m, buffer) == Cardinality(buffer) < Capacity[m]

ReleaseFinished(o, m, buffer) ==
  \/ /\ HasRoom(m, buffer)
     /\ buffer_jobs' = [buffer_jobs EXCEPT ![m] = buffer \cup {o[1]}]
     /\ buffered_tasks' = IF o = LastOp(o[1])
                          THEN buffered_tasks \cup {ShippingTask(o[1])}
                          ELSE buffered_tasks
  \/ /\ ~HasRoom(m, buffer)
     /\ buffer_jobs' = [buffer_jobs EXCEPT ![m] = buffer]
     /\ UNCHANGED buffered_tasks

\* One unit of service for o, which has had `before` of the `total` it needs.
Serve(o, m, total, before, buffer) ==
  LET finished == before + 1 >= total
      left     == finished /\ HasRoom(m, buffer)
  IN
  /\ processed' = [processed EXCEPT ![o] = @ + 1]
  /\ status' = [status EXCEPT ![o] = IF finished THEN "FINISHED"
                                                 ELSE "PROCESSING"]
  /\ current_op' = [current_op EXCEPT ![m] = IF left THEN None ELSE o]
  /\ elapsed' = [elapsed EXCEPT ![m] = IF left THEN 0 ELSE before + 1]
  /\ \/ finished /\ ReleaseFinished(o, m, buffer)
     \/ /\ ~finished
        /\ buffer_jobs' = [buffer_jobs EXCEPT ![m] = buffer]
        /\ UNCHANGED buffered_tasks

RetryRelease(m) ==
  LET o == current_op[m]
      left == HasRoom(m, buffer_jobs[m])
  IN
  /\ MachineTurn(m)
  /\ o # None
  /\ status[o] = "FINISHED"
  /\ ReleaseFinished(o, m, buffer_jobs[m])
  /\ current_op' = [current_op EXCEPT ![m] = IF left THEN None ELSE o]
  /\ elapsed' = [elapsed EXCEPT ![m] = IF left THEN 0 ELSE @]
  /\ UNCHANGED <<pc, scan, settling, advancing, assigned_this_step, planVars,
                 serviceVars, jobVars, queueVars, agvVars, pos,
                 transfers_to_assign, active_transfers, statusVars, boundVars>>

ContinueOperation(m) ==
  LET o == current_op[m] IN
  /\ MachineTurn(m)
  /\ o # None
  /\ status[o] # "FINISHED"
  /\ Serve(o, m, proc_time[o], elapsed[m], buffer_jobs[m])
  /\ UNCHANGED <<pc, scan, settling, advancing, assigned_this_step, planVars,
                 proc_time, sampled, remaining, jobVars, queueVars, agvVars,
                 pos, transfers_to_assign, active_transfers, statusVars,
                 boundVars>>

UrgentQueued(m) == \E o \in Queued(m) : IsUrgent(o)

\* An idle machine keeps itself free for an urgent workpiece on its way.
HeldForUrgent(m) == urgent_reservations[m] # {} /\ ~UrgentQueued(m)

HoldForUrgent(m) ==
  /\ MachineTurn(m)
  /\ current_op[m] = None
  /\ HeldForUrgent(m)
  /\ UNCHANGED <<pc, scan, settling, advancing, assigned_this_step, planVars,
                 serviceVars, jobVars, queueVars, workVars, buffer_jobs,
                 agvVars, pos, taskVars, statusVars, boundVars>>

\* The operation at the head of s in priority order, first come first.
IsNext(s, i) ==
  /\ \A k \in DOMAIN s : Priority[s[k][1]] <= Priority[s[i][1]]
  /\ \A k \in 1..(i - 1) : Priority[s[k][1]] < Priority[s[i][1]]

\* Start o on m, for the time it was suspended with or for a sampled time.
Begin(o, m) ==
  \E p \in ProcTimes \cup {remaining[o]} :
    /\ MachineTurn(m)
    /\ current_op[m] = None
    /\ ~HeldForUrgent(m)
    /\ proc_time' = [proc_time EXCEPT ![o] = p]
    /\ \/ /\ remaining[o] = 0 /\ p # 0
          /\ sampled' = [sampled EXCEPT ![o] = p]
          /\ UNCHANGED remaining
       \/ /\ remaining[o] # 0 /\ p = remaining[o]
          /\ remaining' = [remaining EXCEPT ![o] = 0]
          /\ UNCHANGED sampled
    /\ Serve(o, m, p, 0, buffer_jobs[m] \ {o[1]})
    /\ UNCHANGED <<pc, scan, settling, advancing, assigned_this_step,
                   planVars, jobVars, urgent_reservations, activated, agvVars,
                   pos, transfers_to_assign, active_transfers, statusVars,
                   boundVars>>

StartQueued(m) ==
  \E i \in DOMAIN input_queue[m] :
    /\ IsNext(input_queue[m], i)
    /\ input_queue' = [input_queue EXCEPT ![m] =
                         SubSeq(@, 1, i - 1) \o SubSeq(@, i + 1, Len(@))]
    /\ UNCHANGED suspended_ops
    /\ Begin(input_queue[m][i], m)

\* Resume the operation suspended first, when nothing is queued.
ResumeSuspended(m) ==
  /\ input_queue[m] = <<>>
  /\ suspended_ops[m] # <<>>
  /\ suspended_ops' = [suspended_ops EXCEPT ![m] = Tail(@)]
  /\ UNCHANGED input_queue
  /\ Begin(Head(suspended_ops[m]), m)

IdleQueue(m) == input_queue[m] = <<>>                \* mutant: suspended work

\* Nothing left to do on m.
Idle(m) == input_queue[m] = <<>> /\ suspended_ops[m] = <<>>

Deactivate(m) ==
  /\ MachineTurn(m)
  /\ current_op[m] = None
  /\ ~HeldForUrgent(m)
  /\ Idle(m)
  /\ activated' = activated \ {m}
  /\ UNCHANGED <<pc, scan, settling, advancing, assigned_this_step, planVars,
                 serviceVars, jobVars, input_queue, suspended_ops,
                 urgent_reservations, workVars, buffer_jobs, agvVars, pos,
                 taskVars, statusVars, boundVars>>

-----------------------------------------------------------------------------
(* _settle_arrival: what an AGV does where it stands.  One action is one   *)
(* iteration of its loop; `settling` keeps the AGVs whose loop goes on.    *)

Busy == {a \in AGVs : agv_status[a] = "OK" /\ agv_task[a] # None}

SettleTurn(a) == pc \in {"assign", "settle", "handle"} /\ a \in settling

\* task_step: every healthy AGV with a task settles after the machines ran.
BeginSettle ==
  /\ pc = "machine" /\ running = {}
  /\ pc' = "settle"
  /\ settling' = Busy
  /\ UNCHANGED <<scan, running, advancing, assigned_this_step, planVars,
                 serviceVars, jobVars, queueVars, workVars, buffer_jobs,
                 agvVars, pos, taskVars, statusVars, boundVars>>

AtPickup(a)  == agv_phase[a] = "TO_PICKUP" /\ pos[a] = source[a]
AtDropoff(a) == agv_phase[a] = "TO_DROPOFF" /\ pos[a] = Destination(agv_task[a])

\* Every machine buffer the AGV could put its workpiece into is full.
NoRoomFor(t) == ~IsShipping(t) /\ Full(assigned_machine[t])

\* Nothing to do here, or (AtDropoff) the buffer of the machine is full.
SettleWaits(a) ==
  /\ SettleTurn(a)
  /\ ~AtPickup(a)
  /\ agv_phase[a] = "DROPPING" => handling[a] > 0
  /\ AtDropoff(a) => NoRoomFor(agv_task[a])
  /\ settling' = settling \ {a}
  /\ UNCHANGED <<pc, scan, running, advancing, assigned_this_step, planVars,
                 serviceVars, jobVars, queueVars, workVars, buffer_jobs,
                 agvVars, pos, taskVars, statusVars, boundVars>>

StartPickup(a) ==
  /\ SettleTurn(a) /\ AtPickup(a)
  /\ PickupDwell > 0
  /\ agv_phase' = [agv_phase EXCEPT ![a] = "PICKING"]
  /\ handling' = [handling EXCEPT ![a] = PickupDwell]
  /\ settling' = settling \ {a}
  /\ UNCHANGED <<pc, scan, running, advancing, assigned_this_step, planVars,
                 serviceVars, jobVars, queueVars, workVars, buffer_jobs,
                 agv_task, loaded, source, pos, taskVars, statusVars,
                 boundVars>>

StartDropoff(a) ==
  /\ SettleTurn(a) /\ AtDropoff(a)
  /\ ~NoRoomFor(agv_task[a])
  /\ DropoffDwell > 0
  /\ agv_phase' = [agv_phase EXCEPT ![a] = "DROPPING"]
  /\ handling' = [handling EXCEPT ![a] = DropoffDwell]
  /\ settling' = settling \ {a}
  /\ UNCHANGED <<pc, scan, running, advancing, assigned_this_step, planVars,
                 serviceVars, jobVars, queueVars, workVars, buffer_jobs,
                 agv_task, loaded, source, pos, taskVars, statusVars,
                 boundVars>>

\* Mutant: the workpiece that left keeps its slot.
BufferAfterPickupKept(j) == buffer_jobs
BufferAfterPickup(j) == [m \in Machines |->
                           IF Location[m] = material_location[j]
                           THEN buffer_jobs[m] \ {j} ELSE buffer_jobs[m]]

\* _finish_pickup: the workpiece leaves the buffer of the machine it was at.
FinishPickup(a) ==
  LET j == agv_task[a][1] IN
  /\ buffer_jobs' = BufferAfterPickup(j)
  /\ material_location' = [material_location EXCEPT ![j] = None]
  /\ carrier_id' = [carrier_id EXCEPT ![j] = a]
  /\ loaded' = [loaded EXCEPT ![a] = TRUE]
  /\ agv_phase' = [agv_phase EXCEPT ![a] = "TO_DROPOFF"]
  /\ handling' = [handling EXCEPT ![a] = 0]
  /\ UNCHANGED <<planVars, serviceVars, transport_task, delivered, queueVars,
                 workVars, agv_task, source, taskVars>>

\* _deliver, and the vehicle is free again.
Deliver(a) ==
  LET t == agv_task[a]
      j == t[1]
  IN
  /\ \/ /\ IsShipping(t)
        /\ delivered' = [delivered EXCEPT ![j] = TRUE]
        /\ UNCHANGED <<arrived, sampled, input_queue, buffer_jobs,
                       urgent_reservations, activated>>
     \/ /\ ~IsShipping(t)
        /\ Enqueue(t, assigned_machine[t])
        /\ UNCHANGED delivered
  /\ material_location' = [material_location EXCEPT ![j] = Destination(t)]
  /\ carrier_id' = [carrier_id EXCEPT ![j] = None]
  /\ transport_task' = [transport_task EXCEPT ![j] = None]
  /\ active_transfers' = active_transfers \ {t}
  /\ agv_task' = [agv_task EXCEPT ![a] = None]
  /\ loaded' = [loaded EXCEPT ![a] = FALSE]
  /\ agv_phase' = [agv_phase EXCEPT ![a] = "IDLE"]
  /\ handling' = [handling EXCEPT ![a] = 0]
  /\ UNCHANGED <<transfer_requested, assigned_machine, status, proc_time,
                 remaining, processed, suspended_ops, workVars, source,
                 buffered_tasks, transfers_to_assign>>

\* Mutant: room was checked before the dwell, so it is not checked again.
FinishDropoffUnchecked(a) == Deliver(a)

\* _finish_dropoff: a buffer that filled up meanwhile sends the AGV back to
\* waiting, with its workpiece and free to move.
FinishDropoff(a) ==
  \/ ~NoRoomFor(agv_task[a]) /\ Deliver(a)
  \/ /\ NoRoomFor(agv_task[a])
     /\ agv_phase' = [agv_phase EXCEPT ![a] = "TO_DROPOFF"]
     /\ handling' = [handling EXCEPT ![a] = 0]
     /\ UNCHANGED <<planVars, serviceVars, jobVars, queueVars, workVars,
                    buffer_jobs, agv_task, loaded, source, taskVars>>

\* Without a dwell the handling ends where it began, in the same iteration.
PickupAtOnce(a) ==
  /\ SettleTurn(a) /\ AtPickup(a)
  /\ PickupDwell = 0
  /\ FinishPickup(a)
  /\ UNCHANGED <<controlVars, pos, statusVars, boundVars>>

DropoffAtOnce(a) ==
  /\ SettleTurn(a)
  /\ \/ agv_phase[a] = "DROPPING" /\ handling[a] = 0
     \/ AtDropoff(a) /\ ~NoRoomFor(agv_task[a]) /\ DropoffDwell = 0
  /\ FinishDropoff(a)
  /\ settling' = settling \ {a}
  /\ UNCHANGED <<pc, scan, running, advancing, assigned_this_step, pos,
                 statusVars, boundVars>>

-----------------------------------------------------------------------------
(* step: the vehicles move, then handling advances and arrivals settle.    *)

\* Vehicles in handling, broken, or given a task in this step stay put.
Movable(a) == /\ agv_phase[a] \notin Handling
              /\ agv_status[a] = "OK"
              /\ a \notin assigned_this_step

\* Pogema's "soft" collision system: one vehicle per cell, no swaps.
LegalMove(next) ==
  /\ \A a \in AGVs : next[a] # pos[a] => Movable(a) /\ <<pos[a], next[a]>> \in Adj
  /\ \A a, b \in AGVs : next[a] = next[b] => a = b
  /\ \A a, b \in AGVs : next[a] = pos[b] /\ next[b] = pos[a] => a = b

Move(next) ==
  /\ pc = "settle" /\ settling = {}
  /\ LegalMove(next)
  /\ pos' = next
  /\ pc' = "handle"
  /\ advancing' = {a \in Busy : agv_phase[a] \in Handling}
  /\ settling' = {a \in Busy : agv_phase[a] \notin Handling}
  /\ UNCHANGED <<scan, running, assigned_this_step, planVars, serviceVars,
                 jobVars, queueVars, workVars, buffer_jobs, agvVars,
                 taskVars, statusVars, boundVars>>

\* _advance_handling, after which the loop of _settle_arrival opens.
AdvanceTurn(a) ==
  /\ pc = "handle" /\ a \in advancing
  /\ advancing' = advancing \ {a}
  /\ settling' = settling \cup {a}
  /\ UNCHANGED <<pc, scan, running, assigned_this_step, pos, statusVars,
                 boundVars>>

KeepHandling(a) ==
  /\ AdvanceTurn(a)
  /\ handling[a] > 1
  /\ handling' = [handling EXCEPT ![a] = @ - 1]
  /\ UNCHANGED <<planVars, serviceVars, jobVars, queueVars, workVars,
                 buffer_jobs, agv_task, agv_phase, loaded, source, taskVars>>

CompletePickup(a) ==
  /\ AdvanceTurn(a)
  /\ handling[a] <= 1 /\ agv_phase[a] = "PICKING"
  /\ FinishPickup(a)

CompleteDropoff(a) ==
  /\ AdvanceTurn(a)
  /\ handling[a] <= 1 /\ agv_phase[a] = "DROPPING"
  /\ FinishDropoff(a)

EndStep ==
  /\ pc = "handle" /\ settling = {} /\ advancing = {}
  /\ pc' = "reschedule"
  /\ UNCHANGED <<scan, running, settling, advancing, assigned_this_step,
                 planVars, serviceVars, jobVars, queueVars, workVars,
                 buffer_jobs, agvVars, pos, taskVars, statusVars, boundVars>>

-----------------------------------------------------------------------------
Plan == \/ Reschedule
        \/ \E m \in Machines : BreakMachine(m) \/ RepairMachine(m)
        \/ \E a \in AGVs : BreakAgv(a) \/ RepairAgv(a)
        \/ \E o \in Ops, m \in Machines : RequestTransfer(o, m)

Dispatch == \/ BeginTaskStep
            \/ \E t \in Tasks : \/ KeepBuffered(t)
                                \/ AdmitWithoutTransport(t)
                                \/ OfferTask(t)
            \/ BeginAssign
            \/ \E a \in AGVs, t \in Tasks : AssignTransfer(a, t)

Machine(m) == \/ RetryRelease(m)    \/ ContinueOperation(m)
              \/ HoldForUrgent(m)   \/ StartQueued(m)
              \/ ResumeSuspended(m) \/ Deactivate(m)

Vehicle(a) == \/ SettleWaits(a)  \/ StartPickup(a)    \/ StartDropoff(a)
              \/ PickupAtOnce(a) \/ DropoffAtOnce(a)  \/ KeepHandling(a)
              \/ CompletePickup(a) \/ CompleteDropoff(a)

Transport == \/ BeginSettle
             \/ \E a \in AGVs : Vehicle(a)
             \/ \E next \in [AGVs -> Cells] : Move(next)
             \/ EndStep

Next == \/ Plan
        \/ Dispatch
        \/ BeginMachines
        \/ \E m \in Machines : Machine(m)
        \/ Transport

Spec == Init /\ [][Next]_vars

-----------------------------------------------------------------------------
(* Type invariant.                                                         *)

\* Every variable has the type its Python counterpart is used with.
TypeOK ==
  /\ pc \in {"reschedule", "inject", "request", "buffer", "assign",
             "machine", "settle", "handle"}
  /\ scan \subseteq Tasks /\ running \subseteq Machines
  /\ settling \subseteq AGVs /\ advancing \subseteq AGVs
  /\ assigned_this_step \subseteq AGVs
  /\ status \in [Ops -> {"PENDING", "PROCESSING", "SUSPENDED", "FINISHED"}]
  /\ transfer_requested \in [Ops -> BOOLEAN]
  /\ assigned_machine \in [Ops -> Machines \cup {None}]
  /\ arrived \in [Ops -> BOOLEAN]
  /\ proc_time \in [Ops -> Nat] /\ sampled \in [Ops -> Nat]
  /\ remaining \in [Ops -> Nat] /\ processed \in [Ops -> Nat]
  /\ material_location \in [Jobs -> Cells \cup {None}]
  /\ carrier_id \in [Jobs -> AGVs \cup {None}]
  /\ transport_task \in [Jobs -> Tasks \cup {None}]
  /\ delivered \in [Jobs -> BOOLEAN]
  /\ machine_status \in [Machines -> {"OK", "DOWN"}]
  /\ current_op \in [Machines -> Ops \cup {None}]
  /\ elapsed \in [Machines -> Nat]
  /\ input_queue \in [Machines -> Seq(Ops)]
  /\ suspended_ops \in [Machines -> Seq(Ops)]
  /\ urgent_reservations \in [Machines -> SUBSET Ops]
  /\ buffer_jobs \in [Machines -> SUBSET Jobs]
  /\ activated \subseteq Machines
  /\ pos \in [AGVs -> Cells]
  /\ agv_status \in [AGVs -> {"OK", "DOWN"}]
  /\ agv_task \in [AGVs -> Tasks \cup {None}]
  /\ agv_phase \in [AGVs -> Phases]
  /\ handling \in [AGVs -> Nat]
  /\ loaded \in [AGVs -> BOOLEAN]
  /\ source \in [AGVs -> Cells \cup {None}]
  /\ buffered_tasks \subseteq Tasks
  /\ transfers_to_assign \subseteq Tasks /\ active_transfers \subseteq Tasks
  /\ failures \in 0..MaxFailures /\ reschedules \in 0..MaxReschedules

-----------------------------------------------------------------------------
(* Safety.                                                                 *)

Waits(j, m)    == j \in buffer_jobs[m]
InService(j, m) == current_op[m] # None /\ current_op[m][1] = j
Interrupted(j, m) == \E o \in Suspended(m) : o[1] = j

\* A workpiece is in exactly one place: on the vehicle that carries it, or at
\* the cell it was put down; and at a machine it waits in the buffer, is in
\* service or is suspended, one of the three (buffer_jobs, current_op,
\* suspended_ops, material_location and carrier_id change in different
\* methods of assign_env.py).
WorkpieceConservation ==
  \A j \in Jobs :
    /\ carrier_id[j] = None <=> material_location[j] # None
    /\ \A a \in AGVs : carrier_id[j] = a <=>
         loaded[a] /\ agv_task[a] # None /\ agv_task[a][1] = j
    /\ \A m \in Machines :
         /\ material_location[j] = Location[m] <=>
              Waits(j, m) \/ InService(j, m) \/ Interrupted(j, m)
         /\ ~(Waits(j, m) /\ InService(j, m))
         /\ ~(Waits(j, m) /\ Interrupted(j, m))
         /\ ~(InService(j, m) /\ Interrupted(j, m))

\* A buffer never holds more workpieces than its capacity, whichever of a
\* delivery, an admission and a finished operation takes the last slot.
BufferBound == \A m \in Machines : Cardinality(buffer_jobs[m]) <= Capacity[m]

\* A queued operation has its workpiece in the buffer of that machine, has
\* not been started, is queued once, and no transport of it is still open.
QueuedWorkIsThere ==
  \A m \in Machines :
    /\ \A o \in Queued(m) :
         /\ o[1] \in buffer_jobs[m]
         /\ status[o] = "PENDING" /\ arrived[o] /\ assigned_machine[o] = m
         /\ o \notin buffered_tasks \cup transfers_to_assign \cup active_transfers
    /\ \A i, k \in DOMAIN input_queue[m] :
         input_queue[m][i] = input_queue[m][k] => i = k

\* A machine with work is activated: machine_process visits activated
\* machines only, so work on any other would be forgotten.
NoLostWakeup ==
  \A m \in Machines :
    input_queue[m] # <<>> \/ suspended_ops[m] # <<>> \/ current_op[m] # None
      => m \in activated

\* An operation the scheduler committed is not forgotten: until it arrives at
\* its machine its task is buffered, on offer or on a vehicle; and so is the
\* finished-goods task of a job whose last operation has left its machine.
NoLostTransfer ==
  LET open == buffered_tasks \cup transfers_to_assign \cup active_transfers IN
  /\ \A o \in Ops : transfer_requested[o] /\ ~arrived[o] => o \in open
  /\ \A j \in Jobs :
       /\ status[LastOp(j)] = "FINISHED" /\ ~delivered[j]
       /\ \A m \in Machines : current_op[m] # LastOp(j)
       => ShippingTask(j) \in open

\* "transport tasks, workpieces and AGVs must have a single owner"
\* (assign_env.py:628), across steps and reschedules.
SingleOwner ==
  /\ buffered_tasks \cap transfers_to_assign = {}
  /\ buffered_tasks \cap active_transfers = {}
  /\ transfers_to_assign \cap active_transfers = {}
  /\ active_transfers = {agv_task[a] : a \in AGVs} \ {None}
  /\ \A a, b \in AGVs : agv_task[a] # None /\ agv_task[b] # None
                          /\ agv_task[a][1] = agv_task[b][1] => a = b
  /\ \A j \in Jobs : transport_task[j] # None <=>
       \E a \in AGVs : agv_task[a] = transport_task[j] /\ agv_task[a] # None

\* What was checked when a task was put on offer still holds whenever it may
\* be assigned, any number of steps and reschedules later.
OfferedIsReady == \A t \in transfers_to_assign : PhysicallyReady(t)

\* The operations of a job start in order, and a workpiece moves on towards
\* operation k only after operation k - 1.
Precedence ==
  \A t \in Tasks : t[2] > 0 =>
    \/ status[Previous(t)] = "FINISHED"
    \/ /\ t \notin transfers_to_assign \cup active_transfers
       /\ t \in Ops => status[t] = "PENDING" /\ ~arrived[t]

\* A machine is kept free only for an urgent workpiece that is still coming.
ReservationsLive ==
  \A m \in Machines : \A o \in urgent_reservations[m] :
    /\ IsUrgent(o) /\ assigned_machine[o] = m
    /\ o \in buffered_tasks \cup transfers_to_assign \cup active_transfers

\* An unloaded vehicle heads for the place where its workpiece is, and the
\* workpiece there is not under service.
PickupIsFresh ==
  \A a \in AGVs : agv_task[a] # None /\ ~loaded[a] =>
    LET j == agv_task[a][1] IN
    /\ source[a] = material_location[j]
    /\ source[a] # None
    /\ \A m \in Machines : ~InService(j, m) /\ ~Interrupted(j, m)

\* The service an operation receives over all its runs is the time sampled
\* when it first started, whatever interrupts it.
ServiceConserved ==
  /\ \A o \in Ops :
       /\ status[o] = "FINISHED" => processed[o] = sampled[o]
       /\ status[o] = "SUSPENDED" => processed[o] + remaining[o] = sampled[o]
       /\ status[o] = "PENDING" => processed[o] = 0
  /\ \A m \in Machines : current_op[m] # None =>
       LET o == current_op[m] IN
       processed[o] + proc_time[o] = sampled[o] + elapsed[m]

\* "a loaded workpiece must remain on its current AGV" (rescheduling.py:59)
\* until the vehicle stands at its destination.
LoadedStaysAboard ==
  [][\A a \in AGVs : loaded[a] /\ (agv_task'[a] # agv_task[a] \/ ~loaded'[a])
       => /\ pos[a] = Destination(agv_task[a])
          /\ material_location'[agv_task[a][1]] = pos[a]]_vars

\* What is asked to be moved is somewhere on its way, with one owner, and its
\* operations come one after the other.
TransfersKept == SingleOwner /\ NoLostTransfer /\ Precedence

\* An urgent workpiece gets what it was promised, and the others what it took.
PreemptionIsFair == ServiceConserved /\ ReservationsLive

\* A reschedule leaves no stale queue entry, offer or pickup behind.
ReschedulesCleanly == QueuedWorkIsThere /\ OfferedIsReady /\ PickupIsFresh
=============================================================================
