-------------------------- MODULE BaselineFactory --------------------------
(***************************************************************************)
(* Factory under the baseline policy of the dfjsp_t plugin                 *)
(* (research_baseline.py): an operation is requested when its workpiece is *)
(* ready and BufferSafety admits it, and a vehicle alone on the grid       *)
(* drives straight to where its task sends it (pibt.py).                   *)
(***************************************************************************)
EXTENDS Factory

CONSTANT Distance     \* Distance[target][cell]: PIBTRouter.distance

ASSUME DistanceIsNatural == Distance \in [Cells -> [Cells -> Nat]]

Buffers == INSTANCE BufferSafety

\* Mutant: only what is at the machine claims a slot, not what is on its way.
ClaimsWithoutInbound == [m \in Machines |->
  buffer_jobs[m] \cup {o[1] : o \in Suspended(m) \cup ({current_op[m]} \ {None})}]

\* buffer_claims: workpieces in the buffer, in service or suspended, and those
\* whose transport to the machine is requested.
Claims == [m \in Machines |->
  buffer_jobs[m] \cup {o[1] : o \in Suspended(m) \cup ({current_op[m]} \ {None})}
    \cup {t[1] : t \in {u \in (buffered_tasks \cup transfers_to_assign
                                 \cup active_transfers) \cap Ops :
                          assigned_machine[u] = m}}]

\* The machines for each unfinished operation, if o is admitted to m.
Needs(o, m) == [j \in Jobs |->
  {IF p = o THEN {m}
   ELSE IF assigned_machine[p] # None THEN {assigned_machine[p]} ELSE Options[p]
     : p \in {q \in Ops : q[1] = j /\ status[q] # "FINISHED"}}]

\* decide skips a machine that is down in its observation; a machine may break
\* down or be repaired between the observation and job_step.
Up(m) == machine_status[m] = "OK"

\* decide: the first unfinished operation of a job whose workpiece is free.
ReadyToRequest(o) ==
  LET j == o[1] IN
  /\ carrier_id[j] = None /\ transport_task[j] = None
  /\ status[o] = "PENDING" /\ assigned_machine[o] = None
  /\ \A k \in 0..(o[2] - 1) : status[<<j, k>>] = "FINISHED"
  /\ o[2] = 0 \/ \A m \in Machines : Location[m] = material_location[j]
                                       => j \in buffer_jobs[m]

Admissible(o, m) ==
  /\ ReadyToRequest(o) /\ m \in Options[o]
  /\ Buffers!SafeToAdmit(Claims, Needs(o, m), o[1], m)

RequestAdmitted(o, m) == Admissible(o, m) /\ RequestTransfer(o, m)

\* Where the task of a sends it; a vehicle that waits for a slot parks.
Goal(a) == IF agv_phase[a] \in {"TO_PICKUP", "PICKING"} THEN source[a]
           ELSE Destination(agv_task[a])

Approaches(a, next) ==
  agv_task[a] # None /\ Movable(a) /\ ~(agv_phase[a] = "TO_DROPOFF"
                                          /\ NoRoomFor(agv_task[a]))
    => \A c \in Cells : c = pos[a] \/ <<pos[a], c>> \in Adj
         => Distance[Goal(a)][next[a]] <= Distance[Goal(a)][c]

Drive == \E next \in [AGVs -> Cells] :
           /\ Cardinality(AGVs) = 1 => \A a \in AGVs : Approaches(a, next)
           /\ Move(next)

Work == \/ Dispatch
        \/ BeginMachines
        \/ \E m \in Machines : Machine(m)
        \/ BeginSettle
        \/ \E a \in AGVs : Vehicle(a)
        \/ Drive
        \/ EndStep

BaselineNext == \/ \E o \in Ops, m \in Machines : RequestAdmitted(o, m)
                \/ \E m \in Machines : BreakMachine(m) \/ RepairMachine(m)
                \/ \E a \in AGVs : BreakAgv(a) \/ RepairAgv(a)
                \/ Work

BaselineSpec == Init /\ [][BaselineNext]_vars

\* The driver calls step again and again and each call runs to its end; a
\* repair takes a number of steps; in every step decide requests an admissible
\* operation on a machine that is up, if there is one, and _assign gives a task
\* on offer to an idle vehicle.
Fairness ==
  /\ WF_vars(Work)
  /\ SF_vars(\E o \in Ops, m \in Machines : Up(m) /\ RequestAdmitted(o, m))
  /\ SF_vars(\E a \in AGVs, t \in Tasks : AssignTransfer(a, t))
  /\ \A m \in Machines : SF_vars(RepairMachine(m))
  /\ \A a \in AGVs : SF_vars(RepairAgv(a))

BaselineFairSpec == BaselineSpec /\ Fairness

-----------------------------------------------------------------------------
\* "a machine's output and a travelling job cannot consume the same last
\* buffer slot" (buffer_safety.py:4): with admission no vehicle waits for a
\* slot and no finished workpiece is kept on its machine.
NothingBlocks ==
  /\ \A j \in Jobs : carrier_id[j] # None => ~NoRoomFor(agv_task[carrier_id[j]])
  /\ \A m \in Machines : current_op[m] # None => status[current_op[m]] # "FINISHED"

\* The admitted jobs can always finish one after the other: what safe_to_admit
\* found for the moment of a decision holds at every later moment too, as
\* workpieces are picked up, suspended, resumed and finished.
StaysSafe ==
  /\ Buffers!WithinCapacity(Claims)
  /\ Buffers!Drains(Claims, Needs(None, None))

\* Admission is enough, now and later.
AdmissionSuffices == NothingBlocks /\ StaysSafe

\* Every workpiece is delivered: no circular wait for slots, no machine kept
\* free for an urgent workpiece that cannot come.
EverythingIsDelivered == <>(\A j \in Jobs : delivered[j])
=============================================================================
