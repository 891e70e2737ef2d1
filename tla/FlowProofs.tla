----------------------------- MODULE FlowProofs -----------------------------
(***************************************************************************)
(* What is asked to be moved is neither lost nor doubled, workpieces are   *)
(* in one place, and a reschedule leaves nothing stale behind: theorems    *)
(* about Factory for every layout and every behaviour of the schedulers.   *)
(*                                                                         *)
(* The properties rest on each other, and are inductive only together with *)
(* what a job has behind it (InOrder), whom a task belongs to (Owners),    *)
(* when it is open (OpenIsAhead) and what is on a machine (Servicing).     *)
(***************************************************************************)
EXTENDS FactoryProofs

\* Tasks that a vehicle may carry out, or carries out, now.
Moving == transfers_to_assign \cup active_transfers

\* Tasks that are not done yet.
Open == buffered_tasks \cup Moving

Earlier(u, t) == u[1] = t[1] /\ u[2] < t[2]

\* The workpiece is on its way to operation t, or has reached it.
Begun(t) == t \in Moving \/ (t \in Ops /\ (arrived[t] \/ status[t] # "PENDING"))

\* What has begun has all the earlier operations of its job behind it.
InOrder == \A t, u \in Tasks : Begun(t) /\ Earlier(u, t) =>
             u \in Ops /\ status[u] = "FINISHED"

\* An open operation is requested and not there yet; the finished-goods task
\* of a job is open when its last operation has left its machine.
OpenIsAhead ==
  /\ \A o \in Ops : o \in Open =>
       transfer_requested[o] /\ ~arrived[o] /\ status[o] = "PENDING"
  /\ \A o \in Ops : arrived[o] => transfer_requested[o]
  /\ \A t \in Open : t \notin Ops =>
       /\ status[LastOp(t[1])] = "FINISHED"
       /\ \A m \in Machines : current_op[m] # LastOp(t[1])

\* The task of a vehicle is that of its workpiece, and of no other vehicle.
Owners ==
  /\ buffered_tasks \cap Moving = {}
  /\ transfers_to_assign \cap active_transfers = {}
  /\ \A t \in Tasks : t \in active_transfers <=> \E a \in AGVs : agv_task[a] = t
  /\ \A a \in AGVs : agv_task[a] # None =>
       transport_task[agv_task[a][1]] = agv_task[a]
  /\ \A j \in Jobs : transport_task[j] # None =>
       transport_task[j][1] = j /\ \E a \in AGVs : agv_task[a] = transport_task[j]
  /\ \A a, b \in AGVs : agv_task[a] = agv_task[b] /\ agv_task[a] # None => a = b

\* What is on a machine has been started, what is suspended is so once, and
\* what is finished and still there has had all its service.
Servicing ==
  \A m \in Machines :
    /\ current_op[m] # None =>
         /\ status[current_op[m]] \in {"PROCESSING", "FINISHED"}
         /\ status[current_op[m]] = "FINISHED" =>
              elapsed[m] >= proc_time[current_op[m]]
    /\ \A o \in Suspended(m) : status[o] = "SUSPENDED"
    /\ \A i, k \in DOMAIN suspended_ops[m] :
         suspended_ops[m][i] = suspended_ops[m][k] => i = k

FlowInv == /\ InOrder /\ OpenIsAhead /\ Owners /\ Servicing
           /\ WorkpieceConservation /\ QueuedWorkIsThere
           /\ OfferedIsReady /\ PickupIsFresh /\ NoLostTransfer

-----------------------------------------------------------------------------
(* Tasks and their order.                                                  *)

LEMMA TaskParts ==
  /\ \A t \in Tasks : /\ t[1] \in Jobs /\ t[2] \in Nat /\ t[2] <= NumOps[t[1]]
                      /\ t = <<t[1], t[2]>>
  /\ \A t \in Tasks : t \in Ops <=> t[2] < NumOps[t[1]]
  /\ \A j \in Jobs : NumOps[j] \in Nat \ {0}
BY FactoryConstants DEF Tasks, Ops

LEMMA SameTask ==
  ASSUME NEW t \in Tasks, NEW u \in Tasks, t[1] = u[1], t[2] = u[2]
  PROVE  t = u
BY TaskParts

\* Of two tasks of a job one is the earlier.
LEMMA OneIsEarlier ==
  ASSUME NEW t \in Tasks, NEW u \in Tasks, t[1] = u[1], t # u
  PROVE  Earlier(t, u) \/ Earlier(u, t)
<1>1. t[2] # u[2]  BY SameTask
<1> QED  BY <1>1, TaskParts DEF Earlier

LEMMA EarlierIsOp ==
  ASSUME NEW t \in Tasks, NEW u \in Tasks, Earlier(u, t)
  PROVE  u \in Ops
BY TaskParts DEF Earlier

\* The task before t, and what is earlier than t: that task, or earlier still.
LEMMA PreviousTask ==
  ASSUME NEW t \in Tasks, t[2] > 0
  PROVE  /\ Previous(t) \in Ops
         /\ Earlier(Previous(t), t)
         /\ \A u \in Tasks : Earlier(u, t) => u = Previous(t) \/ Earlier(u, Previous(t))
<1>1. t[1] \in Jobs /\ t[2] \in Nat /\ t[2] <= NumOps[t[1]]  BY TaskParts
<1>2. Previous(t)[1] = t[1] /\ Previous(t)[2] = t[2] - 1  BY DEF Previous
<1>3. Previous(t) \in Tasks
  <2>1. t \in Jobs \X (0..MaxOps)  BY DEF Tasks
  <2>2. Previous(t) \in Jobs \X (0..MaxOps)
    BY <1>1, <2>1, FactoryConstants DEF Previous
  <2>3. NumOps[t[1]] \in Nat  BY <1>1, TaskParts
  <2> QED  BY <1>1, <1>2, <2>2, <2>3 DEF Tasks
<1>4. Earlier(Previous(t), t)  BY <1>1, <1>2 DEF Earlier
<1>5. ASSUME NEW u \in Tasks, Earlier(u, t)
      PROVE  u = Previous(t) \/ Earlier(u, Previous(t))
  <2>1. u[2] \in Nat /\ u[2] < t[2] /\ u[1] = t[1]  BY <1>5, TaskParts DEF Earlier
  <2>2. CASE u[2] = t[2] - 1  BY <1>2, <1>3, <2>1, <2>2, SameTask
  <2>3. CASE u[2] < t[2] - 1  BY <1>2, <2>1, <2>3 DEF Earlier
  <2> QED  BY <1>1, <2>1, <2>2, <2>3
<1> QED  BY <1>3, <1>4, <1>5, EarlierIsOp

\* The finished-goods task of a job comes after all its operations.
LEMMA ShippingIsLast ==
  ASSUME NEW t \in Tasks, t \notin Ops
  PROVE  /\ t = ShippingTask(t[1])
         /\ Previous(t) = LastOp(t[1]) /\ LastOp(t[1]) \in Ops
         /\ t[2] > 0
         /\ \A o \in Ops : o[1] = t[1] => Earlier(o, t)
<1>1. t[2] = NumOps[t[1]] /\ t[1] \in Jobs /\ t = <<t[1], t[2]>>  BY TaskParts
<1>2. NumOps[t[1]] \in Nat \ {0}  BY <1>1, TaskParts
<1>3. \A o \in Ops : o[1] = t[1] => Earlier(o, t)
  BY <1>1, TaskParts, TaskFacts DEF Earlier
<1> QED  BY <1>1, <1>2, <1>3, TaskFacts DEF ShippingTask, Previous, LastOp

-----------------------------------------------------------------------------
(* What the invariant says of one job.                                     *)

\* An operation that has been reached and is not finished is the only one of
\* its job, and the workpiece is not to be moved.
LEMMA AloneInJob ==
  ASSUME FlowInv, NEW o \in Ops, arrived[o] \/ status[o] # "PENDING",
         status[o] # "FINISHED"
  PROVE  /\ \A t \in Tasks : t[1] = o[1] /\ Begun(t) =>
              t = o \/ (t \in Ops /\ Earlier(t, o) /\ status[t] = "FINISHED")
         /\ \A t \in Tasks : t[1] = o[1] => t \notin Moving
<1> USE TaskFacts
<1>1. Begun(o)  BY DEF Begun
<1>2. ASSUME NEW t \in Tasks, t[1] = o[1], Begun(t), t # o
      PROVE  t \in Ops /\ Earlier(t, o) /\ status[t] = "FINISHED"
  <2>1. ~Earlier(o, t)  BY <1>2 DEF FlowInv, InOrder
  <2>2. Earlier(t, o)  BY <1>2, <2>1, OneIsEarlier
  <2> QED  BY <1>1, <2>2 DEF FlowInv, InOrder
<1>3. ASSUME NEW t \in Tasks, t[1] = o[1], t \in Moving
      PROVE  FALSE
  <2>1. Begun(t)  BY <1>3 DEF Begun
  <2>2. t \in Open  BY <1>3 DEF Open
  <2>3. t \in Ops /\ (t = o \/ status[t] = "FINISHED")
    BY <1>2, <1>3, <2>1
  <2> QED  BY <2>2, <2>3 DEF FlowInv, OpenIsAhead
<1> QED  BY <1>2, <1>3

\* A job has one task on offer or on a vehicle.
LEMMA OneMoving ==
  ASSUME FlowInv, NEW t \in Tasks, NEW u \in Tasks, t[1] = u[1],
         t \in Moving, u \in Moving
  PROVE  t = u
<1> SUFFICES ASSUME t # u PROVE FALSE  OBVIOUS
<1>1. Begun(t) /\ Begun(u) /\ t \in Open /\ u \in Open  BY DEF Begun, Open
<1>2. \/ t \in Ops /\ status[t] = "FINISHED"
      \/ u \in Ops /\ status[u] = "FINISHED"
  BY <1>1, OneIsEarlier DEF FlowInv, InOrder
<1> QED  BY <1>1, <1>2 DEF FlowInv, OpenIsAhead

\* Where the workpiece of a queued, current or suspended operation is.
LEMMA AtItsMachine ==
  ASSUME TypeInv, FlowInv, NEW m \in Machines, NEW j \in Jobs,
         Waits(j, m) \/ InService(j, m) \/ Interrupted(j, m)
  PROVE  /\ material_location[j] = Location[m]
         /\ carrier_id[j] = None
         /\ \A n \in Machines : n # m =>
              ~Waits(j, n) /\ ~InService(j, n) /\ ~Interrupted(j, n)
<1>1. material_location[j] = Location[m]
  BY DEF FlowInv, WorkpieceConservation
<1>2. material_location[j] # None
  BY <1>1, FactoryConstants, FactoryNone
<1>3. carrier_id[j] = None  BY <1>2 DEF FlowInv, WorkpieceConservation
<1>4. \A n \in Machines : n # m => material_location[j] # Location[n]
  BY <1>1, FactoryLayout
<1> QED  BY <1>1, <1>3, <1>4 DEF FlowInv, WorkpieceConservation

-----------------------------------------------------------------------------
(* Queues without repetition, and the sets of what is in them.             *)

Distinct(s) == \A i, k \in DOMAIN s : s[i] = s[k] => i = k

LEMMA RangeAppend ==
  ASSUME NEW S, NEW s \in Seq(S), NEW x \in S
  PROVE  /\ Range(Append(s, x)) = Range(s) \cup {x}
         /\ Distinct(s) /\ x \notin Range(s) => Distinct(Append(s, x))
<1> DEFINE q == Append(s, x)
<1>1. /\ Len(s) \in Nat /\ DOMAIN s = 1..Len(s)
      /\ DOMAIN q = 1..(Len(s) + 1)
      /\ q[Len(s) + 1] = x /\ \A i \in 1..Len(s) : q[i] = s[i]
  BY AppendProperties, LenProperties
<1> HIDE DEF q
<1>2. Range(q) = Range(s) \cup {x}
  <2>1. ASSUME NEW y \in Range(q) PROVE y \in Range(s) \cup {x}
    BY <1>1, <2>1 DEF Range
  <2>2. ASSUME NEW y \in Range(s) \cup {x} PROVE y \in Range(q)
    BY <1>1, <2>2 DEF Range
  <2> QED  BY <2>1, <2>2
<1>3. ASSUME Distinct(s), x \notin Range(s), NEW i \in DOMAIN q, NEW k \in DOMAIN q,
             q[i] = q[k]
      PROVE  i = k
  <2>1. CASE i \in 1..Len(s) /\ k \in 1..Len(s)  BY <1>1, <1>3, <2>1 DEF Distinct
  <2>2. CASE i = Len(s) + 1 \/ k = Len(s) + 1
    BY <1>1, <1>3, <2>2 DEF Range
  <2> QED  BY <1>1, <2>1, <2>2
<1>4. Distinct(s) /\ x \notin Range(s) => Distinct(q)  BY <1>3 DEF Distinct
<1> QED  BY <1>2, <1>4 DEF q

LEMMA RangeRemove ==
  ASSUME NEW S, NEW s \in Seq(S), NEW i \in DOMAIN s, Distinct(s)
  PROVE  LET q == SubSeq(s, 1, i - 1) \o SubSeq(s, i + 1, Len(s))
         IN  Range(q) = Range(s) \ {s[i]} /\ Distinct(q)
<1> DEFINE q == SubSeq(s, 1, i - 1) \o SubSeq(s, i + 1, Len(s))
           from(k) == IF k < i THEN k ELSE k + 1
<1>1. Len(s) \in Nat /\ DOMAIN s = 1..Len(s) /\ \A k \in 1..Len(s) : s[k] \in S
  BY LenProperties, ElementOfSeq
<1>2. /\ DOMAIN q = 1..(Len(s) - 1)
      /\ \A k \in 1..(Len(s) - 1) : q[k] = s[from(k)]
  <2>1. /\ SubSeq(s, 1, i - 1) \in Seq(S) /\ Len(SubSeq(s, 1, i - 1)) = i - 1
        /\ \A k \in 1..(i - 1) : SubSeq(s, 1, i - 1)[k] = s[k]
    BY <1>1, SubSeqProperties
  <2>2. /\ SubSeq(s, i + 1, Len(s)) \in Seq(S)
        /\ Len(SubSeq(s, i + 1, Len(s))) = Len(s) - i
        /\ \A k \in 1..(Len(s) - i) : SubSeq(s, i + 1, Len(s))[k] = s[i + k]
    BY <1>1, SubSeqProperties
  <2> DEFINE front == SubSeq(s, 1, i - 1)
             back == SubSeq(s, i + 1, Len(s))
  <2>3. /\ q \in Seq(S) /\ Len(q) = Len(s) - 1
        /\ \A k \in 1..(Len(s) - 1) :
             q[k] = IF k <= i - 1 THEN front[k] ELSE back[k - (i - 1)]
    <3>1. /\ q \in Seq(S) /\ Len(q) = Len(front) + Len(back)
          /\ \A k \in 1..(Len(front) + Len(back)) :
               q[k] = IF k <= Len(front) THEN front[k] ELSE back[k - Len(front)]
      BY <2>1, <2>2, ConcatProperties
    <3>2. Len(front) = i - 1 /\ Len(back) = Len(s) - i
          /\ (i - 1) + (Len(s) - i) = Len(s) - 1
      BY <1>1, <2>1, <2>2
    <3> QED  BY <3>1, <3>2
  <2>4. DOMAIN q = 1..(Len(s) - 1)  BY <2>3, LenProperties
  <2>5. ASSUME NEW k \in 1..(Len(s) - 1) PROVE q[k] = s[from(k)]
    <3>1. CASE k < i
      <4>1. k \in 1..(i - 1) /\ k <= i - 1  BY <1>1, <3>1
      <4> QED  BY <2>1, <2>3, <3>1, <4>1
    <3>2. CASE ~(k < i)
      <4>1. /\ k - (i - 1) \in 1..(Len(s) - i) /\ i + (k - (i - 1)) = k + 1
            /\ ~(k <= i - 1)
        BY <1>1, <3>2
      <4>2. back[k - (i - 1)] = s[i + (k - (i - 1))]  BY <2>2, <4>1
      <4> QED  BY <2>3, <3>2, <4>1, <4>2
    <3> QED  BY <3>1, <3>2
  <2> QED  BY <2>4, <2>5
<1> HIDE DEF q
<1>3. ASSUME NEW x \in Range(q) PROVE x \in Range(s) \ {s[i]}
  <2>1. PICK k \in 1..(Len(s) - 1) : x = s[from(k)]  BY <1>2, <1>3 DEF Range
  <2>2. from(k) \in DOMAIN s /\ from(k) # i  BY <1>1, <2>1
  <2> QED  BY <2>1, <2>2 DEF Range, Distinct
<1>4. ASSUME NEW x \in Range(s) \ {s[i]} PROVE x \in Range(q)
  <2>1. PICK k \in DOMAIN s : x = s[k] /\ k # i  BY <1>4 DEF Range
  <2>2. CASE k < i
    <3>1. k \in 1..(Len(s) - 1) /\ from(k) = k  BY <1>1, <2>2
    <3> QED  BY <1>2, <2>1, <3>1 DEF Range
  <2>3. CASE k > i
    <3>1. k - 1 \in 1..(Len(s) - 1) /\ from(k - 1) = k  BY <1>1, <2>3
    <3> QED  BY <1>2, <2>1, <3>1 DEF Range
  <2> QED  BY <1>1, <2>1, <2>2, <2>3
<1>5. Distinct(q)
  <2> SUFFICES ASSUME NEW k \in DOMAIN q, NEW l \in DOMAIN q, q[k] = q[l]
               PROVE  k = l
    BY DEF Distinct
  <2>1. from(k) \in DOMAIN s /\ from(l) \in DOMAIN s /\ s[from(k)] = s[from(l)]
    BY <1>1, <1>2
  <2>2. from(k) = from(l)  BY <2>1 DEF Distinct
  <2> QED  BY <1>1, <1>2, <2>2
<1>6. Range(q) = Range(s) \ {s[i]}  BY <1>3, <1>4
<1> QED  BY <1>5, <1>6 DEF q

LEMMA RangeTail ==
  ASSUME NEW S, NEW s \in Seq(S), s # <<>>, Distinct(s)
  PROVE  /\ Head(s) \in Range(s)
         /\ Range(Tail(s)) = Range(s) \ {Head(s)} /\ Distinct(Tail(s))
<1>1. /\ Len(s) \in Nat \ {0} /\ DOMAIN s = 1..Len(s) /\ Head(s) = s[1]
      /\ DOMAIN Tail(s) = 1..(Len(s) - 1)
      /\ \A i \in 1..(Len(s) - 1) : Tail(s)[i] = s[i + 1]
  BY LenProperties, HeadTailProperties, EmptySeq
<1>2. ASSUME NEW x \in Range(Tail(s)) PROVE x \in Range(s) \ {Head(s)}
  <2>1. PICK k \in 1..(Len(s) - 1) : x = s[k + 1]  BY <1>1, <1>2 DEF Range
  <2>2. k + 1 \in DOMAIN s /\ k + 1 # 1 /\ 1 \in DOMAIN s  BY <1>1, <2>1
  <2> QED  BY <1>1, <2>1, <2>2 DEF Range, Distinct
<1>3. ASSUME NEW x \in Range(s) \ {Head(s)} PROVE x \in Range(Tail(s))
  <2>1. PICK k \in DOMAIN s : x = s[k] /\ k # 1  BY <1>1, <1>3 DEF Range
  <2>2. k - 1 \in 1..(Len(s) - 1) /\ (k - 1) + 1 = k  BY <1>1, <2>1
  <2> QED  BY <1>1, <2>1, <2>2 DEF Range
<1>4. Distinct(Tail(s))
  <2> SUFFICES ASSUME NEW k \in DOMAIN Tail(s), NEW l \in DOMAIN Tail(s),
                      Tail(s)[k] = Tail(s)[l]
               PROVE  k = l
    BY DEF Distinct
  <2>1. k + 1 \in DOMAIN s /\ l + 1 \in DOMAIN s /\ s[k + 1] = s[l + 1]  BY <1>1
  <2> QED  BY <1>1, <2>1 DEF Distinct
<1>5. Head(s) \in Range(s)
  <2>1. 1 \in DOMAIN s  BY <1>1
  <2> QED  BY <1>1, <2>1 DEF Range
<1>6. Range(Tail(s)) = Range(s) \ {Head(s)}  BY <1>2, <1>3
<1> QED  BY <1>4, <1>5, <1>6

-----------------------------------------------------------------------------
\* What the invariant speaks of.
flowVars == <<status, transfer_requested, assigned_machine, arrived, proc_time,
              material_location, carrier_id, transport_task, delivered,
              current_op, elapsed, input_queue, suspended_ops, buffer_jobs,
              agv_task, loaded, source, buffered_tasks, transfers_to_assign,
              active_transfers>>

LEMMA FlowInit == Init => FlowInv
<1> SUFFICES ASSUME Init PROVE FlowInv  OBVIOUS
<1>1. InOrder /\ OpenIsAhead /\ Owners
  BY TaskFacts, FactoryNone DEF Init, InOrder, Begun, OpenIsAhead, Owners, Moving, Open
<1>2. Servicing
  BY DEF Init, Servicing, Suspended, Range
<1>3. WorkpieceConservation
  BY FactoryConstants, FactoryNone, FactoryLayout
  DEF Init, WorkpieceConservation, Waits, InService, Interrupted, Suspended, Range
<1>4. QueuedWorkIsThere
  BY DEF Init, QueuedWorkIsThere, Queued, Range
<1>5. OfferedIsReady /\ PickupIsFresh /\ NoLostTransfer
  BY TaskFacts DEF Init, OfferedIsReady, PickupIsFresh, NoLostTransfer
<1> QED  BY <1>1, <1>2, <1>3, <1>4, <1>5 DEF FlowInv

\* A step that changes nothing of it.
LEMMA FlowQuiet ==
  ASSUME FlowInv, UNCHANGED flowVars
  PROVE  FlowInv'
<1> USE DEF flowVars
<1>1. InOrder' /\ OpenIsAhead' /\ Owners'
  BY DEF FlowInv, InOrder, Begun, Earlier, OpenIsAhead, Owners, Moving, Open
<1>2. Servicing'  BY DEF FlowInv, Servicing, Suspended
<1>3. WorkpieceConservation'
  BY DEF FlowInv, WorkpieceConservation, Waits, InService, Interrupted, Suspended
<1>4. QueuedWorkIsThere'  BY DEF FlowInv, QueuedWorkIsThere, Queued
<1>5. OfferedIsReady'
  BY DEF FlowInv, OfferedIsReady, PhysicallyReady, PreviousFinished, Previous
<1>6. PickupIsFresh'
  BY DEF FlowInv, PickupIsFresh, InService, Interrupted, Suspended
<1>7. NoLostTransfer'  BY DEF FlowInv, NoLostTransfer
<1> QED  BY <1>1, <1>2, <1>3, <1>4, <1>5, <1>6, <1>7 DEF FlowInv

\* The variables that change only together, for use in UNCHANGED.
USE DEF controlVars, planVars, serviceVars, jobVars, queueVars, workVars,
        agvVars, taskVars, statusVars, boundVars

-----------------------------------------------------------------------------
(* How a step keeps the order of a job's operations.                       *)

\* Nothing begins, and what is finished stays finished.
LEMMA InOrderKept ==
  ASSUME InOrder,
         \A t \in Tasks : Begun(t)' => Begun(t),
         \A o \in Ops : status[o] = "FINISHED" => status'[o] = "FINISHED"
  PROVE  InOrder'
BY DEF InOrder, Earlier

\* One task begins, and the operation before it is finished.
LEMMA InOrderBegins ==
  ASSUME InOrder, NEW t \in Tasks, PreviousFinished(t),
         \A u \in Tasks : Begun(u)' => Begun(u) \/ u = t,
         \A o \in Ops : status[o] = "FINISHED" => status'[o] = "FINISHED"
  PROVE  InOrder'
<1> SUFFICES ASSUME NEW u \in Tasks, NEW e \in Tasks, Begun(u)', Earlier(e, u)
             PROVE  e \in Ops /\ status'[e] = "FINISHED"
  BY DEF InOrder, Earlier
<1>1. CASE Begun(u)  BY <1>1 DEF InOrder
<1>2. CASE u = t
  <2>1. t[2] > 0  BY <1>2, TaskParts DEF Earlier
  <2>2. /\ Previous(t) \in Ops /\ status[Previous(t)] = "FINISHED"
        /\ e = Previous(t) \/ Earlier(e, Previous(t))
    BY <1>2, <2>1, PreviousTask DEF PreviousFinished
  <2>3. Begun(Previous(t))  BY <2>2 DEF Begun
  <2> QED  BY <2>2, <2>3, TaskFacts DEF InOrder
<1> QED  BY <1>1, <1>2

-----------------------------------------------------------------------------
(* The transactions of a reschedule.                                       *)

\* A vehicle that is called back leaves its workpiece where it is.
LEMMA CalledBackIsReady ==
  ASSUME TypeInv, FlowInv, NEW a \in AGVs, Releasable(a)
  PROVE  LET t == agv_task[a] IN
         /\ t \in Tasks /\ t \in active_transfers /\ t \in Open
         /\ PreviousFinished(t) /\ carrier_id[t[1]] = None
         /\ \A m \in Machines : Location[m] = material_location[t[1]]
                                  => t[1] \in buffer_jobs[m]
<1> DEFINE t == agv_task[a]
<1>1. t \in Tasks /\ t # None /\ ~loaded[a]
  BY DEF Releasable, TypeInv, TypeOK
<1>2. t \in active_transfers  BY <1>1 DEF FlowInv, Owners
<1>3. Begun(t) /\ t \in Open  BY <1>2 DEF Begun, Moving, Open
<1>4. PreviousFinished(t)
  <2>1. CASE t[2] > 0
    BY <1>1, <1>3, <2>1, PreviousTask, TaskFacts
    DEF PreviousFinished, FlowInv, InOrder
  <2> QED  BY <2>1 DEF PreviousFinished
<1>5. t[1] \in Jobs  BY <1>1, TaskFacts
<1>6. /\ material_location[t[1]] # None
      /\ \A m \in Machines : ~InService(t[1], m) /\ ~Interrupted(t[1], m)
  BY <1>1 DEF FlowInv, PickupIsFresh
<1>7. carrier_id[t[1]] = None  BY <1>5, <1>6 DEF FlowInv, WorkpieceConservation
<1>8. ASSUME NEW m \in Machines, Location[m] = material_location[t[1]]
      PROVE  t[1] \in buffer_jobs[m]
  BY <1>5, <1>6, <1>8 DEF FlowInv, WorkpieceConservation, Waits
<1> QED  BY <1>1, <1>2, <1>3, <1>4, <1>7, <1>8

\* A new order of a queue holds what it held and was not cancelled.
LEMMA ReorderedQueue ==
  ASSUME TypeInv, FlowInv, NEW C \in SUBSET Ops, NEW queues \in NewQueues(C),
         NEW m \in Machines
  PROVE  Range(queues[m]) \subseteq Queued(m) \ C /\ Distinct(queues[m])
<1>1. queues[m] \in Orderings(Queued(m) \ C)  BY DEF NewQueues
<1> QED  BY <1>1 DEF Orderings, Range, Distinct

LEMMA RangeInOps ==
  ASSUME TypeInv, NEW m \in Machines
  PROVE  Queued(m) \subseteq Ops /\ Suspended(m) \subseteq Ops
<1>1. input_queue[m] \in Seq(Ops) /\ suspended_ops[m] \in Seq(Ops)
  BY DEF TypeInv, TypeOK
<1> QED  BY <1>1, ElementOfSeq, LenProperties DEF Queued, Suspended, Range

LEMMA RescheduleFlow ==
  ASSUME TypeInv, FlowInv,
         NEW C \in SUBSET {o \in Ops : status[o] = "PENDING"},
         NEW R \in SUBSET {a \in AGVs : agv_task[a] # None},
         NEW queues \in NewQueues(C),
         ApplyReschedule(C, R, queues)
  PROVE  FlowInv'
<1> DEFINE freed == R \cup {a \in AGVs : agv_task[a] \in C}
           back  == {agv_task[a] : a \in freed}
<1> USE TaskFacts, FactoryNone
<1>1. /\ transport_task' = [j \in Jobs |-> IF \E t \in back : t[1] = j
                                           THEN None ELSE transport_task[j]]
      /\ agv_task' = [a \in AGVs |-> IF a \in freed THEN None ELSE agv_task[a]]
      /\ active_transfers' = active_transfers \ back
      /\ transfers_to_assign' = (transfers_to_assign \cup back) \ C
      /\ buffered_tasks' = buffered_tasks \ C
      /\ input_queue' = queues
      /\ transfer_requested' = [o \in Ops |-> o \notin C /\ transfer_requested[o]]
      /\ assigned_machine' =
           [o \in Ops |-> IF o \in C THEN None ELSE assigned_machine[o]]
      /\ arrived' = [o \in Ops |-> o \notin C /\ arrived[o]]
      /\ UNCHANGED <<status, proc_time, material_location, carrier_id, delivered,
                     suspended_ops, current_op, elapsed, buffer_jobs, loaded,
                     source>>
  BY DEF ApplyReschedule
<1>2. \A a \in freed : a \in AGVs /\ Releasable(a)  BY DEF ApplyReschedule
<1>3. \A a \in freed : /\ agv_task[a] \in Tasks /\ agv_task[a] \in active_transfers
                       /\ ~loaded[a]
  BY <1>2, CalledBackIsReady DEF Releasable
<1>4. /\ back \subseteq active_transfers /\ back \subseteq Tasks
      /\ \A a \in AGVs : agv_task[a] # None /\ a \notin freed => agv_task[a] \notin back
  <2>1. back \subseteq active_transfers /\ back \subseteq Tasks  BY <1>3
  <2>2. ASSUME NEW a \in AGVs, agv_task[a] # None, agv_task[a] \in back
        PROVE  a \in freed
    <3>1. PICK b \in freed : agv_task[b] = agv_task[a]  BY <2>2
    <3> QED  BY <1>2, <2>2, <3>1 DEF FlowInv, Owners
  <2> QED  BY <2>1, <2>2
<1>5. \A t \in active_transfers : t \in C => t \in back
  BY DEF FlowInv, Owners
<1> HIDE DEF back, freed
<1>6. /\ \A t \in Tasks : t \in Moving' <=> t \in Moving /\ t \notin C
      /\ \A t \in Tasks : t \in Open' <=> t \in Open /\ t \notin C
  BY <1>1, <1>4, <1>5 DEF Moving, Open
<1>7. C \in SUBSET Ops  OBVIOUS
<1>8. /\ Moving \subseteq Tasks /\ Moving' \subseteq Tasks
      /\ Open \subseteq Tasks /\ Open' \subseteq Tasks
  BY <1>1, <1>4 DEF TypeInv, TypeOK, Moving, Open
<1>9. \A a \in AGVs : agv_task'[a] # None =>
        a \notin freed /\ agv_task'[a] = agv_task[a] /\ agv_task[a] \in Tasks
  BY <1>1 DEF TypeInv, TypeOK
<1>10. InOrder'
  <2>1. \A t \in Tasks : Begun(t)' => Begun(t)
    BY <1>1, <1>6, <1>7 DEF Begun
  <2> QED  BY <1>1, <2>1, InOrderKept DEF FlowInv
<1>11. OpenIsAhead'
  <2>1. ASSUME NEW o \in Ops, o \in Open'
        PROVE  transfer_requested'[o] /\ ~arrived'[o] /\ status'[o] = "PENDING"
    BY <1>1, <1>6, <2>1 DEF FlowInv, OpenIsAhead
  <2>2. \A o \in Ops : arrived'[o] => transfer_requested'[o]
    BY <1>1 DEF FlowInv, OpenIsAhead
  <2>3. ASSUME NEW t \in Open', t \notin Ops
        PROVE  /\ status'[LastOp(t[1])] = "FINISHED"
               /\ \A m \in Machines : current_op'[m] # LastOp(t[1])
    BY <1>1, <1>6, <1>8, <2>3 DEF FlowInv, OpenIsAhead
  <2> QED  BY <2>1, <2>2, <2>3 DEF OpenIsAhead, LastOp
<1>12. Owners'
  <2>1. buffered_tasks' \cap Moving' = {}
    BY <1>1, <1>6, <1>8 DEF FlowInv, Owners
  <2>2. transfers_to_assign' \cap active_transfers' = {}
    BY <1>1, <1>4 DEF FlowInv, Owners
  <2>3. ASSUME NEW t \in Tasks
        PROVE  t \in active_transfers' <=> \E a \in AGVs : agv_task'[a] = t
    <3>1. ASSUME t \in active_transfers' PROVE \E a \in AGVs : agv_task'[a] = t
      <4>1. t \in active_transfers /\ t \notin back  BY <1>1, <3>1
      <4>2. PICK a \in AGVs : agv_task[a] = t  BY <4>1 DEF FlowInv, Owners
      <4>3. a \notin freed  BY <4>1, <4>2 DEF back
      <4> QED  BY <1>1, <4>2, <4>3
    <3>2. ASSUME NEW a \in AGVs, agv_task'[a] = t PROVE t \in active_transfers'
      <4>1. a \notin freed /\ agv_task[a] = t /\ agv_task[a] # None  BY <1>9, <3>2
      <4>2. t \in active_transfers /\ t \notin back
        BY <1>4, <4>1 DEF FlowInv, Owners
      <4> QED  BY <1>1, <4>2
    <3> QED  BY <3>1, <3>2
  <2>4. ASSUME NEW a \in AGVs, agv_task'[a] # None
        PROVE  transport_task'[agv_task'[a][1]] = agv_task'[a]
    <3>1. a \notin freed /\ agv_task'[a] = agv_task[a] /\ agv_task[a] \in Tasks
      BY <1>9, <2>4
    <3>2. agv_task[a] \notin back /\ agv_task[a] \in active_transfers
      BY <1>4, <3>1 DEF FlowInv, Owners
    <3>3. \A t \in back : t[1] # agv_task[a][1]
      BY <1>4, <3>1, <3>2, OneMoving DEF Moving
    <3> QED  BY <1>1, <3>1, <3>3 DEF FlowInv, Owners
  <2>5. ASSUME NEW j \in Jobs, transport_task'[j] # None
        PROVE  /\ transport_task'[j][1] = j
               /\ \E a \in AGVs : agv_task'[a] = transport_task'[j]
    <3>1. /\ transport_task'[j] = transport_task[j] /\ transport_task[j] # None
          /\ \A t \in back : t[1] # j
      BY <1>1, <2>5
    <3>2. PICK a \in AGVs : agv_task[a] = transport_task[j]
      BY <3>1 DEF FlowInv, Owners
    <3>3. transport_task[j][1] = j  BY <3>1 DEF FlowInv, Owners
    <3>4. a \notin freed  BY <3>1, <3>2, <3>3 DEF back
    <3> QED  BY <1>1, <3>1, <3>2, <3>3, <3>4
  <2>6. \A a, b \in AGVs : agv_task'[a] = agv_task'[b] /\ agv_task'[a] # None => a = b
    BY <1>9 DEF FlowInv, Owners
  <2> QED  BY <2>1, <2>2, <2>3, <2>4, <2>5, <2>6 DEF Owners
<1>13. Servicing'  BY <1>1 DEF FlowInv, Servicing, Suspended
<1>14. WorkpieceConservation'
  <2>1. \A a \in AGVs : loaded[a] => agv_task'[a] = agv_task[a]
    BY <1>1, <1>3
  <2> QED
    BY <1>1, <2>1
    DEF FlowInv, WorkpieceConservation, Waits, InService, Interrupted, Suspended
<1>15. QueuedWorkIsThere'
  <2>1. ASSUME NEW m \in Machines, NEW o \in Queued(m)'
        PROVE  /\ o[1] \in buffer_jobs'[m] /\ status'[o] = "PENDING"
               /\ arrived'[o] /\ assigned_machine'[o] = m
               /\ o \notin buffered_tasks' \cup transfers_to_assign' \cup active_transfers'
    <3>1. o \in Queued(m) /\ o \notin C
      BY <1>1, <1>7, <2>1, ReorderedQueue DEF Queued
    <3>2. /\ o[1] \in buffer_jobs[m] /\ status[o] = "PENDING"
          /\ arrived[o] /\ assigned_machine[o] = m
          /\ o \notin buffered_tasks \cup transfers_to_assign \cup active_transfers
      BY <3>1 DEF FlowInv, QueuedWorkIsThere
    <3>3. o \in Ops  BY <3>1, RangeInOps
    <3> QED  BY <1>1, <1>6, <3>1, <3>2, <3>3 DEF Open, Moving
  <2>2. \A m \in Machines : \A i, k \in DOMAIN input_queue'[m] :
          input_queue'[m][i] = input_queue'[m][k] => i = k
    BY <1>1, <1>7, ReorderedQueue DEF Distinct
  <2> QED  BY <2>1, <2>2 DEF QueuedWorkIsThere
<1>16. OfferedIsReady'
  <2> SUFFICES ASSUME NEW t \in transfers_to_assign' PROVE PhysicallyReady(t)'
    BY DEF OfferedIsReady
  <2>0. t \in Tasks /\ t \notin C /\ t[1] \in Jobs
    BY <1>1, <1>4 DEF TypeInv, TypeOK
  <2>1. CASE t \in transfers_to_assign
    <3>1. PhysicallyReady(t)  BY <2>1 DEF FlowInv, OfferedIsReady
    <3>2. transport_task'[t[1]] = None  BY <1>1, <2>0, <3>1 DEF PhysicallyReady
    <3>3. t[2] = 0 => t \in Ops  BY <2>0, TaskParts
    <3>4. t[2] = 0 /\ ~arrived[t] => ~arrived'[t]  BY <1>1, <3>3
    <3> QED
      BY <1>1, <3>1, <3>2, <3>4
      DEF PhysicallyReady, PreviousFinished, Previous
  <2>2. CASE t \in back
    <3>1. PICK a \in freed : t = agv_task[a]  BY <2>2 DEF back
    <3>2. /\ PreviousFinished(t) /\ carrier_id[t[1]] = None
          /\ \A m \in Machines : Location[m] = material_location[t[1]]
                                  => t[1] \in buffer_jobs[m]
      BY <1>2, <3>1, CalledBackIsReady
    <3>3. transport_task'[t[1]] = None  BY <1>1, <2>0, <2>2
    <3> QED
      BY <1>1, <3>2, <3>3 DEF PhysicallyReady, PreviousFinished, Previous
  <2> QED  BY <1>1, <2>1, <2>2
<1>17. PickupIsFresh'
  BY <1>1, <1>9 DEF FlowInv, PickupIsFresh, InService, Interrupted, Suspended
<1>18. NoLostTransfer'
  <2>1. ASSUME NEW o \in Ops, transfer_requested'[o], ~arrived'[o]
        PROVE  o \in Open'
    <3>1. o \notin C /\ transfer_requested[o] /\ ~arrived[o]  BY <1>1, <2>1
    <3>2. o \in Open  BY <3>1 DEF FlowInv, NoLostTransfer, Open, Moving
    <3> QED  BY <1>6, <3>1, <3>2
  <2>2. ASSUME NEW j \in Jobs, status'[LastOp(j)] = "FINISHED", ~delivered'[j],
               \A m \in Machines : current_op'[m] # LastOp(j)
        PROVE  ShippingTask(j) \in Open'
    <3>1. ShippingTask(j) \in Open
      BY <1>1, <2>2 DEF FlowInv, NoLostTransfer, Open, Moving
    <3>2. ShippingTask(j) \notin Ops
      BY TaskParts DEF ShippingTask, Ops
    <3> QED  BY <1>6, <1>7, <1>8, <3>1, <3>2
  <2> QED  BY <2>1, <2>2 DEF NoLostTransfer, Open, Moving, LastOp, ShippingTask
<1> QED
  BY <1>10, <1>11, <1>12, <1>13, <1>14, <1>15, <1>16, <1>17, <1>18 DEF FlowInv

-----------------------------------------------------------------------------
(* job_step: an urgent request may suspend what is on the machine.         *)

\* What a request leaves as it is, whether it suspends an operation or not.
LEMMA Preempted ==
  ASSUME TypeInv, FlowInv, NEW o \in Ops, NEW m \in Machines, RequestTransfer(o, m)
  PROVE  /\ \A q \in Ops : /\ status'[q] = "FINISHED" <=> status[q] = "FINISHED"
                           /\ status'[q] = "PENDING" <=> status[q] = "PENDING"
         /\ \A n \in Machines, q \in Ops : status[q] = "FINISHED" =>
              (current_op'[n] = q <=> current_op[n] = q)
         /\ \A n \in Machines, j \in Jobs :
              /\ InService(j, n)' \/ Interrupted(j, n)' <=>
                   InService(j, n) \/ Interrupted(j, n)
              /\ ~(InService(j, n)' /\ Interrupted(j, n)')
         /\ Servicing'
<1> USE TaskFacts, FactoryNone
<1>1. CASE UNCHANGED <<status, suspended_ops, current_op, elapsed>>
  <2>1. UNCHANGED proc_time  BY DEF RequestTransfer
  <2> QED
    BY <1>1, <2>1
    DEF FlowInv, Servicing, Suspended, InService, Interrupted, WorkpieceConservation
<1>2. CASE Preemptable(m) /\ Suspend(m)
  <2> DEFINE c == current_op[m]
  <2>1. /\ c \in Ops /\ c # None
        /\ elapsed[m] < proc_time[c] /\ elapsed[m] \in Nat /\ proc_time[c] \in Nat
    BY <1>2 DEF Preemptable, TypeInv, TypeOK
  <2>2. status[c] = "PROCESSING"
    BY <2>1 DEF FlowInv, Servicing
  <2>3. c \notin Suspended(m)
    BY <2>1, <2>2 DEF FlowInv, Servicing
  <2>4. /\ status' = [status EXCEPT ![c] = "SUSPENDED"]
        /\ suspended_ops' = [suspended_ops EXCEPT ![m] = Append(suspended_ops[m], c)]
        /\ current_op' = [current_op EXCEPT ![m] = None]
        /\ elapsed' = [elapsed EXCEPT ![m] = 0]
        /\ UNCHANGED proc_time
    BY <1>2 DEF Suspend, RequestTransfer
  <2> HIDE DEF c
  <2>5. /\ status \in [Ops -> {"PENDING", "PROCESSING", "SUSPENDED", "FINISHED"}]
        /\ current_op \in [Machines -> Ops \cup {None}]
        /\ suspended_ops \in [Machines -> Seq(Ops)]
        /\ elapsed \in [Machines -> Nat]
    BY DEF TypeInv, TypeOK
  <2>6. /\ \A q \in Ops : q # c => status'[q] = status[q]
        /\ status'[c] = "SUSPENDED"
        /\ current_op'[m] = None
        /\ \A n \in Machines : n # m => /\ current_op'[n] = current_op[n]
                                        /\ elapsed'[n] = elapsed[n]
                                        /\ suspended_ops'[n] = suspended_ops[n]
        /\ suspended_ops'[m] = Append(suspended_ops[m], c)
    BY <2>1, <2>4, <2>5
  <2>7. /\ Suspended(m)' = Suspended(m) \cup {c}
        /\ Distinct(suspended_ops'[m])
        /\ \A n \in Machines : n # m => Suspended(n)' = Suspended(n)
    <3>1. Distinct(suspended_ops[m])  BY DEF FlowInv, Servicing, Distinct
    <3> QED  BY <2>1, <2>3, <2>5, <2>6, <3>1, RangeAppend DEF Suspended
  <2>8. ASSUME NEW n \in Machines, n # m
        PROVE  current_op[n] # c /\ c \notin Suspended(n)
    BY <2>1, <2>8, AtItsMachine DEF InService, Interrupted, c
  <2>9. \A q \in Ops : /\ status'[q] = "FINISHED" <=> status[q] = "FINISHED"
                       /\ status'[q] = "PENDING" <=> status[q] = "PENDING"
    BY <2>2, <2>6
  <2>10. \A n \in Machines, q \in Ops : status[q] = "FINISHED" =>
              (current_op'[n] = q <=> current_op[n] = q)
    BY <2>2, <2>6 DEF c
  <2>11. ASSUME NEW n \in Machines, NEW j \in Jobs
         PROVE  /\ InService(j, n)' \/ Interrupted(j, n)' <=>
                   InService(j, n) \/ Interrupted(j, n)
                /\ ~(InService(j, n)' /\ Interrupted(j, n)')
    <3>1. CASE n = m
      BY <2>1, <2>6, <2>7, <3>1 DEF InService, Interrupted, c
    <3>2. CASE n # m
      BY <2>6, <2>7, <3>2
      DEF InService, Interrupted, FlowInv, WorkpieceConservation
    <3> QED  BY <3>1, <3>2
  <2>12. Servicing'
    <3> SUFFICES ASSUME NEW n \in Machines
                 PROVE  /\ current_op'[n] # None =>
                             /\ status'[current_op'[n]] \in {"PROCESSING", "FINISHED"}
                             /\ status'[current_op'[n]] = "FINISHED" =>
                                  elapsed'[n] >= proc_time'[current_op'[n]]
                        /\ \A q \in Suspended(n)' : status'[q] = "SUSPENDED"
                        /\ Distinct(suspended_ops'[n])
      BY DEF Servicing, Distinct
    <3>1. CASE n = m
      <4>1. Suspended(m) \subseteq Ops /\ \A q \in Suspended(m) : status[q] = "SUSPENDED"
        BY RangeInOps DEF FlowInv, Servicing
      <4>2. \A q \in Suspended(m) \cup {c} : status'[q] = "SUSPENDED"
        BY <2>6, <4>1
      <4> QED  BY <2>6, <2>7, <3>1, <4>2
    <3>2. CASE n # m
      <4>1. current_op[n] \in Ops \cup {None} /\ Suspended(n) \subseteq Ops
        BY <2>5, RangeInOps
      <4> QED
        BY <2>4, <2>6, <2>7, <2>8, <3>2, <4>1 DEF FlowInv, Servicing, Distinct
    <3> QED  BY <3>1, <3>2
  <2> QED  BY <2>9, <2>10, <2>11, <2>12
<1> QED
  BY <1>1, <1>2 DEF RequestTransfer, ReserveForUrgentTransfer

LEMMA RequestTransferFlow ==
  ASSUME TypeInv, FlowInv, NEW o \in Ops, NEW m \in Machines, RequestTransfer(o, m)
  PROVE  FlowInv'
<1> USE TaskFacts, FactoryNone
<1>1. /\ status[o] = "PENDING" /\ ~transfer_requested[o]
      /\ transfer_requested' = [transfer_requested EXCEPT ![o] = TRUE]
      /\ assigned_machine' = [assigned_machine EXCEPT ![o] = m]
      /\ buffered_tasks' = buffered_tasks \cup {o}
      /\ UNCHANGED <<arrived, proc_time, material_location, carrier_id,
                     transport_task, delivered, input_queue, buffer_jobs,
                     agv_task, loaded, source, transfers_to_assign,
                     active_transfers>>
  BY DEF RequestTransfer
<1>2. o \notin Open /\ ~arrived[o]  BY <1>1 DEF FlowInv, OpenIsAhead
<1>3. Moving' = Moving /\ Open' = Open \cup {o}  BY <1>1 DEF Moving, Open
<1>4. \A q \in Ops : /\ transfer_requested'[q] = (q = o \/ transfer_requested[q])
                     /\ q # o => assigned_machine'[q] = assigned_machine[q]
  BY <1>1 DEF TypeInv, TypeOK
<1>5. /\ \A q \in Ops : /\ status'[q] = "FINISHED" <=> status[q] = "FINISHED"
                        /\ status'[q] = "PENDING" <=> status[q] = "PENDING"
      /\ \A n \in Machines, q \in Ops : status[q] = "FINISHED" =>
           (current_op'[n] = q <=> current_op[n] = q)
      /\ \A n \in Machines, j \in Jobs :
           /\ InService(j, n)' \/ Interrupted(j, n)' <=>
                InService(j, n) \/ Interrupted(j, n)
           /\ ~(InService(j, n)' /\ Interrupted(j, n)')
  BY Preempted
<1>6. InOrder'
  <2>1. \A t \in Tasks : Begun(t)' => Begun(t)  BY <1>1, <1>3, <1>5 DEF Begun
  <2> QED  BY <1>5, <2>1, InOrderKept DEF FlowInv
<1>7. OpenIsAhead'
  <2>1. \A q \in Ops : q \in Open' =>
          transfer_requested'[q] /\ ~arrived'[q] /\ status'[q] = "PENDING"
    BY <1>1, <1>2, <1>3, <1>4, <1>5 DEF FlowInv, OpenIsAhead
  <2>2. \A q \in Ops : arrived'[q] => transfer_requested'[q]
    BY <1>1, <1>4 DEF FlowInv, OpenIsAhead
  <2>3. Open \subseteq Tasks  BY DEF TypeInv, TypeOK, Open, Moving
  <2>4. ASSUME NEW t \in Open', t \notin Ops
        PROVE  /\ status'[LastOp(t[1])] = "FINISHED"
               /\ \A n \in Machines : current_op'[n] # LastOp(t[1])
    <3>1. /\ t \in Open /\ LastOp(t[1]) \in Ops
          /\ status[LastOp(t[1])] = "FINISHED"
          /\ \A n \in Machines : current_op[n] # LastOp(t[1])
      BY <1>3, <2>3, <2>4 DEF FlowInv, OpenIsAhead
    <3> QED  BY <1>5, <3>1
  <2> QED  BY <2>1, <2>2, <2>4 DEF OpenIsAhead, LastOp
<1>8. Owners'
  <2>1. buffered_tasks' \cap Moving' = {}
    BY <1>1, <1>2, <1>3 DEF FlowInv, Owners, Open
  <2> QED  BY <1>1, <2>1 DEF FlowInv, Owners
<1>9. Servicing'  BY Preempted
<1>10. WorkpieceConservation'
  <2>1. \A n \in Machines, j \in Jobs : Waits(j, n)' = Waits(j, n)
    BY <1>1 DEF Waits
  <2> QED  BY <1>1, <1>5, <2>1 DEF FlowInv, WorkpieceConservation
<1>11. QueuedWorkIsThere'
  <2>1. ASSUME NEW n \in Machines, NEW q \in Queued(n)'
        PROVE  /\ q[1] \in buffer_jobs'[n] /\ status'[q] = "PENDING"
               /\ arrived'[q] /\ assigned_machine'[q] = n
               /\ q \notin buffered_tasks' \cup transfers_to_assign' \cup active_transfers'
    <3>1. q \in Queued(n) /\ q \in Ops  BY <1>1, <2>1, RangeInOps DEF Queued
    <3>2. /\ q[1] \in buffer_jobs[n] /\ status[q] = "PENDING"
          /\ arrived[q] /\ assigned_machine[q] = n
          /\ q \notin buffered_tasks \cup transfers_to_assign \cup active_transfers
      BY <3>1 DEF FlowInv, QueuedWorkIsThere
    <3> QED  BY <1>1, <1>2, <1>4, <1>5, <3>1, <3>2
  <2>2. \A n \in Machines : \A i, k \in DOMAIN input_queue'[n] :
          input_queue'[n][i] = input_queue'[n][k] => i = k
    BY <1>1 DEF FlowInv, QueuedWorkIsThere
  <2> QED  BY <2>1, <2>2 DEF QueuedWorkIsThere
<1>12. OfferedIsReady'
  <2> SUFFICES ASSUME NEW t \in transfers_to_assign PROVE PhysicallyReady(t)'
    BY <1>1 DEF OfferedIsReady
  <2>1. PhysicallyReady(t) /\ t \in Tasks
    BY DEF FlowInv, OfferedIsReady, TypeInv, TypeOK
  <2>2. PreviousFinished(t)'
    BY <1>5, <2>1, PreviousTask DEF PhysicallyReady, PreviousFinished, Previous
  <2> QED  BY <1>1, <2>1, <2>2 DEF PhysicallyReady
<1>13. PickupIsFresh'
  <2> SUFFICES ASSUME NEW a \in AGVs, agv_task[a] # None, ~loaded[a]
               PROVE  /\ source[a] = material_location[agv_task[a][1]]
                      /\ source[a] # None
                      /\ \A n \in Machines : /\ ~InService(agv_task[a][1], n)'
                                             /\ ~Interrupted(agv_task[a][1], n)'
    BY <1>1 DEF PickupIsFresh, InService, Interrupted, Suspended
  <2>1. agv_task[a][1] \in Jobs  BY DEF TypeInv, TypeOK
  <2>2. agv_task'[a][1] = agv_task[a][1]  BY <1>1
  <2>3. \A n \in Machines : /\ ~InService(agv_task[a][1], n)
                            /\ ~Interrupted(agv_task[a][1], n)
    BY DEF FlowInv, PickupIsFresh
  <2>4. \A n \in Machines : /\ ~InService(agv_task[a][1], n)'
                            /\ ~Interrupted(agv_task[a][1], n)'
    BY <1>1, <1>5, <2>1, <2>3 DEF InService, Interrupted
  <2> QED  BY <2>4 DEF FlowInv, PickupIsFresh
<1>14. NoLostTransfer'
  <2>1. ASSUME NEW q \in Ops, transfer_requested'[q], ~arrived'[q]
        PROVE  q \in Open'
    BY <1>1, <1>3, <1>4, <2>1 DEF FlowInv, NoLostTransfer, Open, Moving
  <2>2. ASSUME NEW j \in Jobs, status'[LastOp(j)] = "FINISHED", ~delivered'[j],
               \A n \in Machines : current_op'[n] # LastOp(j)
        PROVE  ShippingTask(j) \in Open'
    <3>1. /\ status[LastOp(j)] = "FINISHED" /\ ~delivered[j]
          /\ \A n \in Machines : current_op[n] # LastOp(j)
      BY <1>1, <1>5, <2>2
    <3> QED  BY <1>3, <3>1 DEF FlowInv, NoLostTransfer, Open, Moving
  <2> QED  BY <2>1, <2>2 DEF NoLostTransfer, Open, Moving, LastOp, ShippingTask
<1> QED
  BY <1>6, <1>7, <1>8, <1>9, <1>10, <1>11, <1>12, <1>13, <1>14 DEF FlowInv

-----------------------------------------------------------------------------
(* task_step: offers, admissions without transport, assignments.           *)

\* A workpiece that is ready to go is in no machine's service.
LEMMA ReadyIsFree ==
  ASSUME TypeInv, FlowInv, NEW t \in Tasks, PhysicallyReady(t)
  PROVE  /\ material_location[t[1]] # None
         /\ \A m \in Machines : ~InService(t[1], m) /\ ~Interrupted(t[1], m)
<1>1. t[1] \in Jobs  BY TaskFacts
<1>2. material_location[t[1]] # None
  BY <1>1 DEF PhysicallyReady, FlowInv, WorkpieceConservation
<1>3. ASSUME NEW m \in Machines, Location[m] = material_location[t[1]]
      PROVE  t[1] \in buffer_jobs[m]
  BY <1>3, FactoryLayout DEF PhysicallyReady
<1>4. ASSUME NEW m \in Machines
      PROVE  ~InService(t[1], m) /\ ~Interrupted(t[1], m)
  <2>1. CASE Location[m] = material_location[t[1]]
    BY <1>1, <1>3, <2>1 DEF FlowInv, WorkpieceConservation, Waits
  <2>2. CASE Location[m] # material_location[t[1]]
    BY <1>1, <2>2 DEF FlowInv, WorkpieceConservation
  <2> QED  BY <2>1, <2>2
<1> QED  BY <1>2, <1>4

LEMMA OfferTaskFlow ==
  ASSUME TypeInv, FlowInv, NEW t \in Tasks, OfferTask(t)
  PROVE  FlowInv'
<1> USE TaskFacts, FactoryNone
<1>1. /\ t \in buffered_tasks /\ PhysicallyReady(t)
      /\ buffered_tasks' = buffered_tasks \ {t}
      /\ transfers_to_assign' = transfers_to_assign \cup {t}
      /\ UNCHANGED <<status, transfer_requested, assigned_machine, arrived,
                     proc_time, material_location, carrier_id, transport_task,
                     delivered, current_op, elapsed, input_queue,
                     suspended_ops, buffer_jobs, agv_task, loaded, source,
                     active_transfers>>
  BY DEF OfferTask, TypeInv, Committed
<1>2. Moving' = Moving \cup {t} /\ Open' = Open /\ t \in Open /\ t \notin Moving
  BY <1>1 DEF Moving, Open, FlowInv, Owners
<1>3. InOrder'
  <2>1. \A u \in Tasks : Begun(u)' => Begun(u) \/ u = t  BY <1>1, <1>2 DEF Begun
  <2> QED  BY <1>1, <2>1, InOrderBegins DEF FlowInv, PhysicallyReady
<1>4. OpenIsAhead'  BY <1>1, <1>2 DEF FlowInv, OpenIsAhead
<1>5. Owners'  BY <1>1, <1>2 DEF FlowInv, Owners, Moving
<1>6. Servicing'  BY <1>1 DEF FlowInv, Servicing, Suspended
<1>7. WorkpieceConservation'
  BY <1>1 DEF FlowInv, WorkpieceConservation, Waits, InService, Interrupted, Suspended
<1>8. QueuedWorkIsThere'
  BY <1>1 DEF FlowInv, QueuedWorkIsThere, Queued
<1>9. OfferedIsReady'
  BY <1>1 DEF FlowInv, OfferedIsReady, PhysicallyReady, PreviousFinished, Previous
<1>10. PickupIsFresh'
  BY <1>1 DEF FlowInv, PickupIsFresh, InService, Interrupted, Suspended
<1>11. NoLostTransfer'
  BY <1>1 DEF FlowInv, NoLostTransfer
<1> QED
  BY <1>3, <1>4, <1>5, <1>6, <1>7, <1>8, <1>9, <1>10, <1>11 DEF FlowInv

\* What an operation that comes to a machine does to the queues.
LEMMA EnqueueFlow ==
  ASSUME TypeInv, FlowInv, NEW t \in Ops, NEW m \in Machines,
         assigned_machine[t] = m, t \in Open, Enqueue(t, m),
         t \notin buffered_tasks' \cup Moving',
         Open' \subseteq Open, UNCHANGED <<status, assigned_machine>>
  PROVE  /\ \A q \in Ops : arrived'[q] = (q = t \/ arrived[q])
         /\ buffer_jobs' = [buffer_jobs EXCEPT ![m] = @ \cup {t[1]}]
         /\ QueuedWorkIsThere'
<1> USE TaskFacts, FactoryNone
<1>1. /\ arrived \in [Ops -> BOOLEAN] /\ input_queue \in [Machines -> Seq(Ops)]
      /\ buffer_jobs \in [Machines -> SUBSET Jobs]
      /\ arrived' = [arrived EXCEPT ![t] = TRUE]
      /\ input_queue' = [input_queue EXCEPT ![m] = Append(input_queue[m], t)]
      /\ buffer_jobs' = [buffer_jobs EXCEPT ![m] = @ \cup {t[1]}]
  BY DEF TypeInv, TypeOK, Enqueue
<1>2. \A q \in Ops : arrived'[q] = (q = t \/ arrived[q])  BY <1>1
<1>3. /\ \A n \in Machines : n # m => input_queue'[n] = input_queue[n]
      /\ input_queue'[m] = Append(input_queue[m], t)
      /\ \A n \in Machines : buffer_jobs[n] \subseteq buffer_jobs'[n]
      /\ t[1] \in buffer_jobs'[m]
  BY <1>1
<1>4. status[t] = "PENDING"  BY DEF FlowInv, OpenIsAhead
<1>5. /\ Queued(m)' = Queued(m) \cup {t} /\ Distinct(input_queue'[m])
      /\ \A n \in Machines : n # m => Queued(n)' = Queued(n)
  <2>1. t \notin Queued(m) /\ Distinct(input_queue[m])
    BY DEF FlowInv, QueuedWorkIsThere, Open, Moving, Distinct
  <2> QED  BY <1>1, <1>3, <2>1, RangeAppend DEF Queued
<1>6. ASSUME NEW n \in Machines, NEW q \in Queued(n)'
      PROVE  /\ q[1] \in buffer_jobs'[n] /\ status'[q] = "PENDING"
             /\ arrived'[q] /\ assigned_machine'[q] = n
             /\ q \notin buffered_tasks' \cup transfers_to_assign' \cup active_transfers'
  <2>1. CASE q \in Queued(n)
    <3>1. q \in Ops  BY <2>1, RangeInOps
    <3>2. /\ q[1] \in buffer_jobs[n] /\ status[q] = "PENDING"
          /\ arrived[q] /\ assigned_machine[q] = n /\ q \notin Open
      BY <2>1 DEF FlowInv, QueuedWorkIsThere, Open, Moving
    <3>3. q \notin Open'  BY <3>2
    <3> QED  BY <1>2, <1>3, <3>1, <3>2, <3>3 DEF Open, Moving
  <2>2. CASE q = t /\ n = m
    BY <1>2, <1>3, <1>4, <2>2 DEF Moving
  <2> QED  BY <1>5, <1>6, <2>1, <2>2
<1>7. ASSUME NEW n \in Machines PROVE Distinct(input_queue'[n])
  <2>1. CASE n = m  BY <1>5, <2>1
  <2>2. CASE n # m  BY <1>3, <2>2 DEF FlowInv, QueuedWorkIsThere, Distinct
  <2> QED  BY <2>1, <2>2
<1>8. QueuedWorkIsThere'  BY <1>6, <1>7 DEF QueuedWorkIsThere, Distinct
<1> QED  BY <1>1, <1>2, <1>8

LEMMA AdmitFlow ==
  ASSUME TypeInv, FlowInv, NEW t \in Tasks, AdmitWithoutTransport(t)
  PROVE  FlowInv'
<1> DEFINE m == assigned_machine[t]
           j == t[1]
<1> USE TaskFacts, FactoryNone
<1>1. /\ t \in buffered_tasks /\ PhysicallyReady(t) /\ t \in Ops
      /\ material_location[j] = Location[m]
      /\ Enqueue(t, m)
      /\ buffered_tasks' = buffered_tasks \ {t}
      /\ UNCHANGED <<status, transfer_requested, assigned_machine, proc_time,
                     material_location, carrier_id, transport_task, delivered,
                     current_op, elapsed, suspended_ops, agv_task, loaded,
                     source, transfers_to_assign, active_transfers>>
  BY DEF AdmitWithoutTransport, AtDestination, Destination, TypeInv, Committed
<1>2. m \in Machines  BY <1>1 DEF TypeInv, Committed
<1>3. j \in buffer_jobs[m] /\ j \in Jobs
  BY <1>1, <1>2, FactoryLayout DEF PhysicallyReady
<1>4. /\ Moving' = Moving /\ Open' = Open \ {t} /\ t \in Open /\ t \notin Moving
      /\ t \notin buffered_tasks' \cup Moving'
  BY <1>1 DEF Moving, Open, FlowInv, Owners
<1>5. /\ \A q \in Ops : arrived'[q] = (q = t \/ arrived[q])
      /\ buffer_jobs' = [buffer_jobs EXCEPT ![m] = @ \cup {j}]
      /\ QueuedWorkIsThere'
  BY <1>1, <1>2, <1>4, EnqueueFlow
<1>6. buffer_jobs' = buffer_jobs
  <2>1. buffer_jobs \in [Machines -> SUBSET Jobs]  BY DEF TypeInv, TypeOK
  <2> HIDE DEF m, j
  <2>2. buffer_jobs[m] \cup {j} = buffer_jobs[m]  BY <1>3
  <2> QED  BY <1>2, <1>5, <2>1, <2>2
<1> HIDE DEF m
<1>7. InOrder'
  <2>1. \A u \in Tasks : Begun(u)' => Begun(u) \/ u = t
    BY <1>1, <1>4, <1>5 DEF Begun
  <2> QED  BY <1>1, <2>1, InOrderBegins DEF FlowInv, PhysicallyReady
<1>8. OpenIsAhead'
  <2>1. transfer_requested[t]  BY <1>1, <1>4 DEF FlowInv, OpenIsAhead
  <2> QED  BY <1>1, <1>4, <1>5, <2>1 DEF FlowInv, OpenIsAhead
<1>9. Owners'  BY <1>1, <1>4 DEF FlowInv, Owners, Moving
<1>10. Servicing'  BY <1>1 DEF FlowInv, Servicing, Suspended
<1>11. WorkpieceConservation'
  BY <1>1, <1>6
  DEF FlowInv, WorkpieceConservation, Waits, InService, Interrupted, Suspended
<1>12. OfferedIsReady'
  <2> SUFFICES ASSUME NEW u \in transfers_to_assign PROVE PhysicallyReady(u)'
    BY <1>1 DEF OfferedIsReady
  <2>1. PhysicallyReady(u) /\ u \in Tasks /\ u # t
    BY <1>4 DEF FlowInv, OfferedIsReady, TypeInv, TypeOK, Moving
  <2>2. u[2] = 0 => u \in Ops  BY <2>1, TaskParts
  <2>3. u[2] = 0 /\ ~arrived[u] => ~arrived'[u]  BY <1>5, <2>1, <2>2
  <2> QED
    BY <1>1, <1>6, <2>1, <2>3 DEF PhysicallyReady, PreviousFinished, Previous
<1>13. PickupIsFresh'
  BY <1>1 DEF FlowInv, PickupIsFresh, InService, Interrupted, Suspended
<1>14. NoLostTransfer'
  <2>1. ASSUME NEW q \in Ops, transfer_requested'[q], ~arrived'[q]
        PROVE  q \in Open'
    BY <1>1, <1>4, <1>5, <2>1 DEF FlowInv, NoLostTransfer, Open, Moving
  <2>2. ASSUME NEW i \in Jobs, status'[LastOp(i)] = "FINISHED", ~delivered'[i],
               \A n \in Machines : current_op'[n] # LastOp(i)
        PROVE  ShippingTask(i) \in Open'
    <3>1. ShippingTask(i) \in Open
      BY <1>1, <2>2 DEF FlowInv, NoLostTransfer, Open, Moving
    <3>2. ShippingTask(i) \notin Ops  BY TaskParts DEF ShippingTask, Ops
    <3> QED  BY <1>1, <1>4, <3>1, <3>2
  <2> QED  BY <2>1, <2>2 DEF NoLostTransfer, Open, Moving, LastOp, ShippingTask
<1> QED
  BY <1>5, <1>7, <1>8, <1>9, <1>10, <1>11, <1>12, <1>13, <1>14 DEF FlowInv

LEMMA AssignTransferFlow ==
  ASSUME TypeInv, FlowInv, NEW a \in AGVs, NEW t \in Tasks, AssignTransfer(a, t)
  PROVE  FlowInv'
<1> DEFINE j == t[1]
<1> USE TaskFacts, FactoryNone
<1>1. /\ t \in transfers_to_assign /\ agv_task[a] = None
      /\ transport_task' = [transport_task EXCEPT ![j] = t]
      /\ agv_task' = [agv_task EXCEPT ![a] = t]
      /\ loaded' = [loaded EXCEPT ![a] = FALSE]
      /\ source' = [source EXCEPT ![a] = material_location[j]]
      /\ transfers_to_assign' = transfers_to_assign \ {t}
      /\ active_transfers' = active_transfers \cup {t}
      /\ UNCHANGED <<status, transfer_requested, assigned_machine, arrived,
                     proc_time, material_location, carrier_id, delivered,
                     current_op, elapsed, input_queue, suspended_ops,
                     buffer_jobs, buffered_tasks>>
  BY DEF AssignTransfer, Assignable, Activate, PickupCell
<1>2. /\ j \in Jobs /\ t # None
      /\ transport_task'[j] = t
      /\ \A i \in Jobs : i # j => transport_task'[i] = transport_task[i]
      /\ agv_task'[a] = t /\ loaded'[a] = FALSE
      /\ source'[a] = material_location[j]
      /\ \A b \in AGVs : b # a => /\ agv_task'[b] = agv_task[b]
                                  /\ loaded'[b] = loaded[b]
                                  /\ source'[b] = source[b]
  BY <1>1 DEF TypeInv, TypeOK
<1>3. Moving' = Moving /\ Open' = Open /\ t \in Moving
  BY <1>1 DEF Moving, Open
<1>4. loaded[a] = FALSE
  BY <1>1 DEF TypeInv, TypeOK, VehiclePhase
<1>5. /\ \A b \in AGVs : agv_task[b] # None =>
           /\ agv_task[b] \in active_transfers /\ agv_task[b] \in Tasks
           /\ agv_task[b] # t /\ agv_task[b][1] # j
      /\ \A u \in transfers_to_assign : u # t => u[1] # j
  <2>1. ASSUME NEW b \in AGVs, agv_task[b] # None
        PROVE  /\ agv_task[b] \in active_transfers /\ agv_task[b] \in Tasks
               /\ agv_task[b] # t
    BY <1>1, <2>1 DEF FlowInv, Owners, TypeInv, TypeOK
  <2>2. \A u \in Tasks : u \in Moving /\ u # t => u[1] # j
    BY <1>3, OneMoving
  <2>3. transfers_to_assign \subseteq Tasks  BY DEF TypeInv, TypeOK
  <2> QED  BY <2>1, <2>2, <2>3 DEF Moving
<1> HIDE DEF j
<1>6. InOrder'
  <2>1. \A u \in Tasks : Begun(u)' => Begun(u)  BY <1>1, <1>3 DEF Begun
  <2> QED  BY <1>1, <2>1, InOrderKept DEF FlowInv
<1>7. OpenIsAhead'  BY <1>1, <1>3 DEF FlowInv, OpenIsAhead
<1>8. Owners'
  <2>1. buffered_tasks' \cap Moving' = {}  BY <1>1, <1>3 DEF FlowInv, Owners
  <2>2. transfers_to_assign' \cap active_transfers' = {}
    BY <1>1 DEF FlowInv, Owners
  <2>3. \A u \in Tasks : u \in active_transfers' <=> \E b \in AGVs : agv_task'[b] = u
    BY <1>1, <1>2 DEF FlowInv, Owners
  <2>4. \A b \in AGVs : agv_task'[b] # None =>
          transport_task'[agv_task'[b][1]] = agv_task'[b]
    BY <1>2, <1>5 DEF FlowInv, Owners, j
  <2>5. ASSUME NEW i \in Jobs, transport_task'[i] # None
        PROVE  /\ transport_task'[i][1] = i
               /\ \E b \in AGVs : agv_task'[b] = transport_task'[i]
    <3>1. CASE i = j  BY <1>2, <3>1 DEF j
    <3>2. CASE i # j
      <4>1. PICK b \in AGVs : agv_task[b] = transport_task[i]
        BY <1>2, <2>5, <3>2 DEF FlowInv, Owners
      <4>2. b # a  BY <1>1, <1>2, <2>5, <3>2, <4>1
      <4> QED  BY <1>2, <2>5, <3>2, <4>1, <4>2 DEF FlowInv, Owners
    <3> QED  BY <3>1, <3>2
  <2>6. \A b, c \in AGVs : agv_task'[b] = agv_task'[c] /\ agv_task'[b] # None => b = c
    BY <1>2, <1>5 DEF FlowInv, Owners
  <2> QED  BY <2>1, <2>2, <2>3, <2>4, <2>5, <2>6 DEF Owners
<1>9. Servicing'  BY <1>1 DEF FlowInv, Servicing, Suspended
<1>10. WorkpieceConservation'
  <2>1. \A b \in AGVs, i \in Jobs :
          (loaded'[b] /\ agv_task'[b] # None /\ agv_task'[b][1] = i) <=>
          (loaded[b] /\ agv_task[b] # None /\ agv_task[b][1] = i)
    BY <1>1, <1>2, <1>4
  <2> QED
    BY <1>1, <2>1
    DEF FlowInv, WorkpieceConservation, Waits, InService, Interrupted, Suspended
<1>11. QueuedWorkIsThere'
  <2>1. \A q : q \in buffered_tasks' \cup transfers_to_assign' \cup active_transfers'
               <=> q \in buffered_tasks \cup transfers_to_assign \cup active_transfers
    BY <1>1
  <2> QED  BY <1>1, <2>1 DEF FlowInv, QueuedWorkIsThere, Queued
<1>12. OfferedIsReady'
  <2> SUFFICES ASSUME NEW u \in transfers_to_assign, u # t PROVE PhysicallyReady(u)'
    BY <1>1 DEF OfferedIsReady
  <2>1. PhysicallyReady(u) /\ u[1] \in Jobs /\ u[1] # j
    BY <1>5 DEF FlowInv, OfferedIsReady, TypeInv, TypeOK
  <2>2. transport_task'[u[1]] = None  BY <1>2, <2>1 DEF PhysicallyReady
  <2> QED  BY <1>1, <2>1, <2>2 DEF PhysicallyReady, PreviousFinished, Previous
<1>13. PickupIsFresh'
  <2>1. /\ material_location[j] # None
        /\ \A m \in Machines : ~InService(j, m) /\ ~Interrupted(j, m)
    BY <1>1, ReadyIsFree DEF FlowInv, OfferedIsReady, j
  <2>2. \A i \in Jobs, m \in Machines : /\ InService(i, m)' <=> InService(i, m)
                                        /\ Interrupted(i, m)' <=> Interrupted(i, m)
    BY <1>1 DEF InService, Interrupted, Suspended
  <2> SUFFICES ASSUME NEW b \in AGVs, agv_task'[b] # None, ~loaded'[b]
               PROVE  /\ source'[b] = material_location'[agv_task'[b][1]]
                      /\ source'[b] # None
                      /\ \A m \in Machines : /\ ~InService(agv_task[b][1], m)'
                                             /\ ~Interrupted(agv_task[b][1], m)'
    BY DEF PickupIsFresh
  <2>3. CASE b = a
    BY <1>1, <1>2, <2>1, <2>3 DEF InService, Interrupted, Suspended, j
  <2>4. CASE b # a
    BY <1>1, <1>2, <2>4 DEF FlowInv, PickupIsFresh, InService, Interrupted, Suspended
  <2> QED  BY <2>3, <2>4
<1>14. NoLostTransfer'
  BY <1>1, <1>3 DEF FlowInv, NoLostTransfer, Open, Moving
<1> QED
  BY <1>6, <1>7, <1>8, <1>9, <1>10, <1>11, <1>12, <1>13, <1>14 DEF FlowInv

-----------------------------------------------------------------------------
(* Vehicles: pickups and deliveries.                                       *)

\* The workpiece of a vehicle's task is nobody else's business.
LEMMA OwnTask ==
  ASSUME TypeInv, FlowInv, NEW a \in AGVs, agv_task[a] # None
  PROVE  LET j == agv_task[a][1] IN
         /\ agv_task[a] \in Tasks /\ agv_task[a] \in active_transfers /\ j \in Jobs
         /\ \A u \in Tasks : u \in Moving /\ u[1] = j => u = agv_task[a]
         /\ \A u \in transfers_to_assign : u[1] # j
         /\ \A b \in AGVs : b # a /\ agv_task[b] # None => agv_task[b][1] # j
         /\ \A m \in Machines : \A o \in Queued(m) : o[1] # j
<1> DEFINE t == agv_task[a]
           j == t[1]
<1>1. t \in Tasks /\ t \in active_transfers /\ j \in Jobs /\ t \in Moving
  BY TaskFacts DEF TypeInv, TypeOK, FlowInv, Owners, Moving
<1>2. \A u \in Tasks : u \in Moving /\ u[1] = j => u = t  BY <1>1, OneMoving
<1>3. \A u \in transfers_to_assign : u[1] # j
  BY <1>1, <1>2 DEF TypeInv, TypeOK, FlowInv, Owners, Moving
<1>4. \A b \in AGVs : b # a /\ agv_task[b] # None => agv_task[b][1] # j
  BY DEF FlowInv, Owners
<1>5. ASSUME NEW m \in Machines, NEW o \in Queued(m) PROVE o[1] # j
  <2>1. o \in Ops /\ arrived[o] /\ status[o] = "PENDING"
    BY <1>5, RangeInOps DEF FlowInv, QueuedWorkIsThere
  <2> QED  BY <1>1, <2>1, AloneInJob
<1> QED  BY <1>1, <1>2, <1>3, <1>4, <1>5

LEMMA FinishPickupFlow ==
  ASSUME TypeInv, FlowInv, NEW a \in AGVs, agv_task[a] # None, ~loaded[a],
         FinishPickup(a)
  PROVE  FlowInv'
<1> DEFINE t == agv_task[a]
           j == t[1]
<1> USE TaskFacts, FactoryNone
<1>1. /\ buffer_jobs' = [m \in Machines |-> IF Location[m] = material_location[j]
                                            THEN buffer_jobs[m] \ {j}
                                            ELSE buffer_jobs[m]]
      /\ material_location' = [material_location EXCEPT ![j] = None]
      /\ carrier_id' = [carrier_id EXCEPT ![j] = a]
      /\ loaded' = [loaded EXCEPT ![a] = TRUE]
      /\ UNCHANGED <<status, transfer_requested, assigned_machine, arrived,
                     proc_time, transport_task, delivered, current_op, elapsed,
                     input_queue, suspended_ops, agv_task, source,
                     buffered_tasks, transfers_to_assign, active_transfers>>
  BY DEF FinishPickup, BufferAfterPickup
<1>2. /\ t \in Tasks /\ t \in active_transfers /\ j \in Jobs
      /\ \A u \in Tasks : u \in Moving /\ u[1] = j => u = t
      /\ \A u \in transfers_to_assign : u[1] # j
      /\ \A b \in AGVs : b # a /\ agv_task[b] # None => agv_task[b][1] # j
      /\ \A m \in Machines : \A o \in Queued(m) : o[1] # j
  BY OwnTask
<1>3. /\ material_location'[j] = None
      /\ \A i \in Jobs : i # j => /\ material_location'[i] = material_location[i]
                                  /\ carrier_id'[i] = carrier_id[i]
      /\ carrier_id'[j] = a
      /\ loaded'[a] /\ \A b \in AGVs : b # a => loaded'[b] = loaded[b]
  BY <1>1, <1>2 DEF TypeInv, TypeOK
<1>4. \A m \in Machines : ~InService(j, m) /\ ~Interrupted(j, m)
  BY DEF FlowInv, PickupIsFresh
<1>5. \A m \in Machines, i \in Jobs : Waits(i, m)' <=> Waits(i, m) /\ i # j
  <2>1. \A m \in Machines : Waits(j, m) => material_location[j] = Location[m]
    BY <1>2 DEF FlowInv, WorkpieceConservation
  <2> HIDE DEF j
  <2> QED  BY <1>1, <2>1 DEF Waits
<1>6. \A m \in Machines, i \in Jobs : /\ InService(i, m)' <=> InService(i, m)
                                      /\ Interrupted(i, m)' <=> Interrupted(i, m)
  BY <1>1 DEF InService, Interrupted, Suspended
<1> HIDE DEF j, t
<1>7. InOrder' /\ OpenIsAhead' /\ Owners'
  BY <1>1
  DEF FlowInv, InOrder, Begun, Earlier, OpenIsAhead, Owners, Moving, Open
<1>8. Servicing'  BY <1>1 DEF FlowInv, Servicing, Suspended
<1>9. WorkpieceConservation'
  <2> SUFFICES ASSUME NEW i \in Jobs
               PROVE  /\ carrier_id'[i] = None <=> material_location'[i] # None
                      /\ \A b \in AGVs : carrier_id'[i] = b <=>
                           loaded'[b] /\ agv_task'[b] # None /\ agv_task'[b][1] = i
                      /\ \A m \in Machines :
                           /\ material_location'[i] = Location[m] <=>
                                Waits(i, m)' \/ InService(i, m)' \/ Interrupted(i, m)'
                           /\ ~(Waits(i, m)' /\ InService(i, m)')
                           /\ ~(Waits(i, m)' /\ Interrupted(i, m)')
                           /\ ~(InService(i, m)' /\ Interrupted(i, m)')
    BY DEF WorkpieceConservation
  <2>1. CASE i = j
    <3>1. \A m \in Machines : Location[m] # None  BY FactoryConstants
    <3>2. a # None  OBVIOUS
    <3>3. \A b \in AGVs : a = b <=>
            loaded'[b] /\ agv_task'[b] # None /\ agv_task'[b][1] = j
      BY <1>1, <1>2, <1>3 DEF t, j
    <3> QED  BY <1>3, <1>4, <1>5, <1>6, <2>1, <3>1, <3>2, <3>3
  <2>2. CASE i # j
    <3>1. \A b \in AGVs : carrier_id'[i] = b <=>
            loaded'[b] /\ agv_task'[b] # None /\ agv_task'[b][1] = i
      BY <1>1, <1>3, <2>2 DEF FlowInv, WorkpieceConservation, t, j
    <3> QED  BY <1>3, <1>5, <1>6, <2>2, <3>1 DEF FlowInv, WorkpieceConservation
  <2> QED  BY <2>1, <2>2
<1>10. QueuedWorkIsThere'
  <2>1. ASSUME NEW m \in Machines, NEW o \in Queued(m)
        PROVE  o[1] \in buffer_jobs'[m]
    <3>1. o[1] \in buffer_jobs[m] /\ o[1] \in Jobs /\ o[1] # j
      BY <1>2, <2>1, RangeInOps DEF FlowInv, QueuedWorkIsThere
    <3> QED  BY <1>5, <3>1 DEF Waits
  <2> QED  BY <1>1, <2>1 DEF FlowInv, QueuedWorkIsThere, Queued
<1>11. OfferedIsReady'
  <2> SUFFICES ASSUME NEW u \in transfers_to_assign PROVE PhysicallyReady(u)'
    BY <1>1 DEF OfferedIsReady
  <2>1. PhysicallyReady(u) /\ u[1] \in Jobs /\ u[1] # j
    BY <1>2 DEF FlowInv, OfferedIsReady, TypeInv, TypeOK
  <2>2. \A m \in Machines : u[1] \in buffer_jobs'[m] <=> u[1] \in buffer_jobs[m]
    BY <1>5, <2>1 DEF Waits
  <2> QED
    BY <1>1, <1>3, <2>1, <2>2 DEF PhysicallyReady, PreviousFinished, Previous
<1>12. PickupIsFresh'
  <2> SUFFICES ASSUME NEW b \in AGVs, agv_task[b] # None, ~loaded'[b]
               PROVE  /\ source[b] = material_location'[agv_task[b][1]]
                      /\ source[b] # None
                      /\ \A m \in Machines : /\ ~InService(agv_task[b][1], m)
                                             /\ ~Interrupted(agv_task[b][1], m)
    BY <1>1 DEF PickupIsFresh, InService, Interrupted, Suspended
  <2>1. b # a /\ ~loaded[b]  BY <1>3
  <2>2. agv_task[b][1] \in Jobs /\ agv_task[b][1] # j
    BY <1>2, <2>1 DEF TypeInv, TypeOK
  <2> QED  BY <1>3, <2>1, <2>2 DEF FlowInv, PickupIsFresh
<1>13. NoLostTransfer'  BY <1>1 DEF FlowInv, NoLostTransfer
<1> QED  BY <1>7, <1>8, <1>9, <1>10, <1>11, <1>12, <1>13 DEF FlowInv

LEMMA DeliverFlow ==
  ASSUME TypeInv, FlowInv, NEW a \in AGVs, agv_task[a] # None, loaded[a],
         Deliver(a)
  PROVE  FlowInv'
<1> DEFINE t == agv_task[a]
           j == t[1]
           m == assigned_machine[t]
<1> USE TaskFacts, FactoryNone
<1>1. /\ \/ /\ IsShipping(t)
            /\ delivered' = [delivered EXCEPT ![j] = TRUE]
            /\ UNCHANGED <<arrived, input_queue, buffer_jobs>>
         \/ /\ ~IsShipping(t) /\ Enqueue(t, m) /\ UNCHANGED delivered
      /\ material_location' = [material_location EXCEPT ![j] = Destination(t)]
      /\ carrier_id' = [carrier_id EXCEPT ![j] = None]
      /\ transport_task' = [transport_task EXCEPT ![j] = None]
      /\ active_transfers' = active_transfers \ {t}
      /\ agv_task' = [agv_task EXCEPT ![a] = None]
      /\ loaded' = [loaded EXCEPT ![a] = FALSE]
      /\ UNCHANGED <<status, transfer_requested, assigned_machine, proc_time,
                     current_op, elapsed, suspended_ops, source,
                     buffered_tasks, transfers_to_assign>>
  BY DEF Deliver
<1>2. /\ t \in Tasks /\ t \in active_transfers /\ j \in Jobs
      /\ \A u \in Tasks : u \in Moving /\ u[1] = j => u = t
      /\ \A u \in transfers_to_assign : u[1] # j
      /\ \A b \in AGVs : b # a /\ agv_task[b] # None => agv_task[b][1] # j
      /\ \A n \in Machines : \A o \in Queued(n) : o[1] # j
  BY OwnTask
<1>3. /\ t \in Ops <=> ~IsShipping(t)
      /\ t \in Ops => m \in Machines
  BY <1>2 DEF TypeInv, Committed
<1>4. /\ Destination(t) \in Cells
      /\ \A n \in Machines : Destination(t) = Location[n] <=> t \in Ops /\ n = m
  BY <1>3, FactoryLayout, FactoryConstants DEF Destination
<1>5. carrier_id[j] = a /\ material_location[j] = None
  BY <1>2 DEF FlowInv, WorkpieceConservation
<1>6. \A n \in Machines : ~Waits(j, n) /\ ~InService(j, n) /\ ~Interrupted(j, n)
  <2>1. \A n \in Machines : Location[n] # None  BY FactoryConstants
  <2> QED  BY <1>2, <1>5, <2>1 DEF FlowInv, WorkpieceConservation
<1>7. /\ material_location'[j] = Destination(t) /\ carrier_id'[j] = None
      /\ transport_task'[j] = None /\ agv_task'[a] = None /\ ~loaded'[a]
      /\ \A i \in Jobs : i # j => /\ material_location'[i] = material_location[i]
                                  /\ carrier_id'[i] = carrier_id[i]
                                  /\ transport_task'[i] = transport_task[i]
      /\ \A b \in AGVs : b # a => /\ loaded'[b] = loaded[b]
                                  /\ agv_task'[b] = agv_task[b]
  BY <1>1, <1>2 DEF TypeInv, TypeOK
<1>8. /\ Moving' = Moving \ {t} /\ Open' = Open \ {t} /\ t \in Moving /\ t \in Open
      /\ t \notin buffered_tasks' \cup Moving'
  BY <1>1, <1>2 DEF Moving, Open, FlowInv, Owners
<1> HIDE DEF t
<1>9. /\ \A q \in Ops : arrived'[q] = (q = t \/ arrived[q])
      /\ \A n \in Machines, i \in Jobs :
           Waits(i, n)' <=> Waits(i, n) \/ (t \in Ops /\ i = j /\ n = m)
      /\ \A i \in Jobs : delivered'[i] = (delivered[i] \/ (t \notin Ops /\ i = j))
      /\ QueuedWorkIsThere'
  <2>1. CASE t \in Ops
    <3>1. Enqueue(t, m) /\ UNCHANGED delivered  BY <1>1, <1>3, <2>1
    <3>2. /\ \A q \in Ops : arrived'[q] = (q = t \/ arrived[q])
          /\ buffer_jobs' = [buffer_jobs EXCEPT ![m] = @ \cup {j}]
          /\ QueuedWorkIsThere'
      BY <1>1, <1>3, <1>8, <2>1, <3>1, EnqueueFlow
    <3>3. \A n \in Machines, i \in Jobs :
            Waits(i, n)' <=> Waits(i, n) \/ (i = j /\ n = m)
      <4> HIDE DEF j, m
      <4> QED  BY <1>3, <2>1, <3>2 DEF Waits, TypeInv, TypeOK
    <3>4. \A i \in Jobs : delivered[i] \in BOOLEAN  BY DEF TypeInv, TypeOK
    <3> QED  BY <2>1, <3>1, <3>2, <3>3, <3>4
  <2>2. CASE t \notin Ops
    <3>1. /\ delivered' = [delivered EXCEPT ![j] = TRUE]
          /\ UNCHANGED <<arrived, input_queue, buffer_jobs>>
      BY <1>1, <1>3, <2>2
    <3>2. QueuedWorkIsThere'
      BY <1>1, <3>1 DEF FlowInv, QueuedWorkIsThere, Queued
    <3>3. /\ \A q \in Ops : arrived[q] \in BOOLEAN
          /\ delivered \in [Jobs -> BOOLEAN]
      BY DEF TypeInv, TypeOK
    <3>4. \A q \in Ops : arrived'[q] = (q = t \/ arrived[q])
      BY <2>2, <3>1, <3>3
    <3>5. \A i \in Jobs : delivered'[i] = (delivered[i] \/ i = j)
      <4> HIDE DEF j
      <4> QED  BY <3>1, <3>3
    <3>6. \A i \in Jobs : delivered'[i] = (delivered[i] \/ (t \notin Ops /\ i = j))
      BY <2>2, <3>5
    <3>7. \A n \in Machines, i \in Jobs :
            Waits(i, n)' <=> Waits(i, n) \/ (t \in Ops /\ i = j /\ n = m)
      BY <2>2, <3>1 DEF Waits
    <3> QED  BY <3>2, <3>4, <3>6, <3>7
  <2> QED  BY <2>1, <2>2
<1>10. \A n \in Machines, i \in Jobs : /\ InService(i, n)' <=> InService(i, n)
                                       /\ Interrupted(i, n)' <=> Interrupted(i, n)
  BY <1>1 DEF InService, Interrupted, Suspended
<1> HIDE DEF j, m
<1>11. InOrder'
  <2>1. \A u \in Tasks : Begun(u)' => Begun(u)  BY <1>1, <1>8, <1>9 DEF Begun
  <2> QED  BY <1>1, <2>1, InOrderKept DEF FlowInv
<1>12. OpenIsAhead'
  <2>1. t \in Ops => transfer_requested[t]
    BY <1>8 DEF FlowInv, OpenIsAhead
  <2> QED  BY <1>1, <1>8, <1>9, <2>1 DEF FlowInv, OpenIsAhead
<1>13. Owners'
  <2>1. buffered_tasks' \cap Moving' = {} /\ transfers_to_assign' \cap active_transfers' = {}
    BY <1>1, <1>8 DEF FlowInv, Owners
  <2>2. ASSUME NEW u \in Tasks
        PROVE  u \in active_transfers' <=> \E b \in AGVs : agv_task'[b] = u
    BY <1>1, <1>7 DEF FlowInv, Owners, t
  <2>3. ASSUME NEW b \in AGVs, agv_task'[b] # None
        PROVE  transport_task'[agv_task'[b][1]] = agv_task'[b]
    <3>1. b # a /\ agv_task'[b] = agv_task[b] /\ agv_task[b] \in Tasks
      BY <1>7, <2>3 DEF TypeInv, TypeOK
    <3> QED  BY <1>2, <1>7, <2>3, <3>1 DEF FlowInv, Owners
  <2>4. ASSUME NEW i \in Jobs, transport_task'[i] # None
        PROVE  /\ transport_task'[i][1] = i
               /\ \E b \in AGVs : agv_task'[b] = transport_task'[i]
    <3>1. i # j /\ transport_task'[i] = transport_task[i]  BY <1>7, <2>4
    <3>2. /\ transport_task[i][1] = i
          /\ \E b \in AGVs : agv_task[b] = transport_task[i]
      BY <2>4, <3>1 DEF FlowInv, Owners
    <3> QED  BY <1>7, <3>1, <3>2 DEF t, j
  <2>5. \A b, c \in AGVs : agv_task'[b] = agv_task'[c] /\ agv_task'[b] # None => b = c
    BY <1>7 DEF FlowInv, Owners
  <2> QED  BY <2>1, <2>2, <2>3, <2>4, <2>5 DEF Owners
<1>14. Servicing'  BY <1>1 DEF FlowInv, Servicing, Suspended
<1>15. WorkpieceConservation'
  <2> SUFFICES ASSUME NEW i \in Jobs
               PROVE  /\ carrier_id'[i] = None <=> material_location'[i] # None
                      /\ \A b \in AGVs : carrier_id'[i] = b <=>
                           loaded'[b] /\ agv_task'[b] # None /\ agv_task'[b][1] = i
                      /\ \A n \in Machines :
                           /\ material_location'[i] = Location[n] <=>
                                Waits(i, n)' \/ InService(i, n)' \/ Interrupted(i, n)'
                           /\ ~(Waits(i, n)' /\ InService(i, n)')
                           /\ ~(Waits(i, n)' /\ Interrupted(i, n)')
                           /\ ~(InService(i, n)' /\ Interrupted(i, n)')
    BY DEF WorkpieceConservation
  <2>1. CASE i = j
    <3>1. \A b \in AGVs : ~(loaded'[b] /\ agv_task'[b] # None /\ agv_task'[b][1] = j)
      BY <1>2, <1>7
    <3> QED  BY <1>4, <1>6, <1>7, <1>9, <1>10, <2>1, <3>1
  <2>2. CASE i # j
    <3>1. \A b \in AGVs : carrier_id'[i] = b <=>
            loaded'[b] /\ agv_task'[b] # None /\ agv_task'[b][1] = i
      BY <1>7, <2>2 DEF FlowInv, WorkpieceConservation, t, j
    <3> QED  BY <1>7, <1>9, <1>10, <2>2, <3>1 DEF FlowInv, WorkpieceConservation
  <2> QED  BY <2>1, <2>2
<1>16. OfferedIsReady'
  <2> SUFFICES ASSUME NEW u \in transfers_to_assign PROVE PhysicallyReady(u)'
    BY <1>1 DEF OfferedIsReady
  <2>1. PhysicallyReady(u) /\ u \in Tasks /\ u[1] \in Jobs /\ u[1] # j /\ u # t
    BY <1>2 DEF FlowInv, OfferedIsReady, TypeInv, TypeOK, j
  <2>2. \A n \in Machines : u[1] \in buffer_jobs'[n] <=> u[1] \in buffer_jobs[n]
    BY <1>9, <2>1 DEF Waits
  <2>3. u[2] = 0 => u \in Ops  BY <2>1, TaskParts
  <2>4. u[2] = 0 /\ ~arrived[u] => ~arrived'[u]  BY <1>9, <2>1, <2>3
  <2> QED
    BY <1>1, <1>7, <2>1, <2>2, <2>4 DEF PhysicallyReady, PreviousFinished, Previous
<1>17. PickupIsFresh'
  <2> SUFFICES ASSUME NEW b \in AGVs, agv_task'[b] # None, ~loaded'[b]
               PROVE  /\ source[b] = material_location'[agv_task'[b][1]]
                      /\ source[b] # None
                      /\ \A n \in Machines : /\ ~InService(agv_task'[b][1], n)
                                             /\ ~Interrupted(agv_task'[b][1], n)
    BY <1>1 DEF PickupIsFresh, InService, Interrupted, Suspended
  <2>1. b # a /\ agv_task'[b] = agv_task[b] /\ ~loaded[b]  BY <1>7
  <2>2. agv_task[b][1] \in Jobs /\ agv_task[b][1] # j
    BY <1>2, <2>1 DEF TypeInv, TypeOK
  <2> QED  BY <1>7, <2>1, <2>2 DEF FlowInv, PickupIsFresh
<1>18. NoLostTransfer'
  <2>1. ASSUME NEW q \in Ops, transfer_requested'[q], ~arrived'[q]
        PROVE  q \in Open'
    BY <1>1, <1>8, <1>9, <2>1 DEF FlowInv, NoLostTransfer, Open, Moving
  <2>2. ASSUME NEW i \in Jobs, status'[LastOp(i)] = "FINISHED", ~delivered'[i],
               \A n \in Machines : current_op'[n] # LastOp(i)
        PROVE  ShippingTask(i) \in Open'
    <3>1. ~delivered[i] /\ ~(t \notin Ops /\ i = j)  BY <1>9, <2>2
    <3>2. ShippingTask(i) \in Open
      BY <1>1, <2>2, <3>1 DEF FlowInv, NoLostTransfer, Open, Moving
    <3>3. ShippingTask(i) \notin Ops /\ ShippingTask(i)[1] = i
      BY TaskParts DEF ShippingTask, Ops
    <3>4. ShippingTask(i) # t  BY <3>1, <3>3 DEF j
    <3> QED  BY <1>8, <3>2, <3>4
  <2> QED  BY <2>1, <2>2 DEF NoLostTransfer, Open, Moving, LastOp, ShippingTask
<1> QED
  BY <1>9, <1>11, <1>12, <1>13, <1>14, <1>15, <1>16, <1>17, <1>18 DEF FlowInv

-----------------------------------------------------------------------------
(* machine_process: whatever runs on a machine, from wherever it comes.    *)

\* Operation o is what machine m works on, or takes from one of its queues.
AtHand(o, m) == \/ current_op[m] = o
                \/ current_op[m] = None /\ o \in Queued(m) \cup Suspended(m)

\* Operation o is served on m, and has left m when `left`.
Treated(o, m, left) ==
  /\ status'[o] \in {"PROCESSING", "FINISHED"}
  /\ status[o] = "FINISHED" => status'[o] = "FINISHED"
  /\ left <=> status'[o] = "FINISHED" /\ HasRoom(m, buffer_jobs[m] \ {o[1]})
  /\ \A q \in Ops \ {o} : status'[q] = status[q] /\ proc_time'[q] = proc_time[q]
  /\ current_op'[m] = IF left THEN None ELSE o
  /\ ~left /\ status'[o] = "FINISHED" => elapsed'[m] >= proc_time'[o]
  /\ buffer_jobs'[m] = IF left THEN (buffer_jobs[m] \ {o[1]}) \cup {o[1]}
                               ELSE buffer_jobs[m] \ {o[1]}
  /\ buffered_tasks' = IF left /\ o = LastOp(o[1])
                       THEN buffered_tasks \cup {ShippingTask(o[1])}
                       ELSE buffered_tasks
  /\ \A n \in Machines \ {m} : /\ current_op'[n] = current_op[n]
                               /\ elapsed'[n] = elapsed[n]
                               /\ buffer_jobs'[n] = buffer_jobs[n]
                               /\ input_queue'[n] = input_queue[n]
                               /\ suspended_ops'[n] = suspended_ops[n]
  /\ Queued(m)' = Queued(m) \ {o} /\ Distinct(input_queue'[m])
  /\ Suspended(m)' = Suspended(m) \ {o} /\ Distinct(suspended_ops'[m])
  /\ UNCHANGED <<transfer_requested, assigned_machine, arrived,
                 material_location, carrier_id, transport_task, delivered,
                 agv_task, loaded, source, transfers_to_assign, active_transfers>>

\* What m does in its turn when it does not stay idle.
Treats(m) == \E o \in Ops, left \in BOOLEAN : AtHand(o, m) /\ Treated(o, m, left)

\* The job of an operation at hand: its workpiece is at the machine and stays.
LEMMA AtHandFacts ==
  ASSUME TypeInv, FlowInv, NEW m \in Machines, NEW o \in Ops, AtHand(o, m)
  PROVE  /\ material_location[o[1]] = Location[m] /\ carrier_id[o[1]] = None
         /\ \A n \in Machines \ {m} : /\ ~Waits(o[1], n) /\ ~InService(o[1], n)
                                      /\ ~Interrupted(o[1], n)
         /\ \A t \in Tasks : t[1] = o[1] => t \notin Moving
         /\ \A t \in Open : t \notin Ops => LastOp(t[1]) # o
         /\ o \notin Open /\ Begun(o)
         /\ \A q \in Queued(m) \cup Suspended(m) : q[1] = o[1] => q = o
<1> DEFINE j == o[1]
<1> USE TaskFacts, FactoryNone
<1>0. j \in Jobs  OBVIOUS
<1>1. Waits(j, m) \/ InService(j, m) \/ Interrupted(j, m)
  BY DEF AtHand, Waits, InService, Interrupted, FlowInv, QueuedWorkIsThere
<1>2. /\ material_location[j] = Location[m] /\ carrier_id[j] = None
      /\ \A n \in Machines : n # m =>
           ~Waits(j, n) /\ ~InService(j, n) /\ ~Interrupted(j, n)
  BY <1>0, <1>1, AtItsMachine
<1>3. \/ current_op[m] = o /\ status[o] \in {"PROCESSING", "FINISHED"}
      \/ o \in Queued(m) /\ status[o] = "PENDING" /\ arrived[o]
      \/ o \in Suspended(m) /\ status[o] = "SUSPENDED"
  BY DEF AtHand, FlowInv, Servicing, QueuedWorkIsThere
<1>4. arrived[o] \/ status[o] # "PENDING"  BY <1>3
<1>5. ASSUME NEW t \in Tasks, t[1] = j, t \in Moving PROVE FALSE
  <2>1. status[o] = "FINISHED" /\ current_op[m] = o
    BY <1>3, <1>4, <1>5, AloneInJob
  <2>2. InService(j, m)  BY <2>1 DEF InService
  <2>3. t \notin transfers_to_assign
    BY <1>5, <2>2, ReadyIsFree DEF FlowInv, OfferedIsReady
  <2>4. PICK a \in AGVs : agv_task[a] = t
    BY <1>5, <2>3 DEF Moving, FlowInv, Owners
  <2>5. loaded[a]  BY <1>5, <2>2, <2>4 DEF FlowInv, PickupIsFresh
  <2>6. carrier_id[j] = a
    BY <1>0, <1>5, <2>4, <2>5 DEF FlowInv, WorkpieceConservation
  <2> QED  BY <1>2, <2>6
<1>6. \A t \in Open : t \notin Ops => LastOp(t[1]) # o
  BY <1>3 DEF FlowInv, OpenIsAhead
<1>7. o \notin Open
  BY <1>3 DEF FlowInv, OpenIsAhead
<1>8. Begun(o)  BY <1>4 DEF Begun
<1>9. ASSUME NEW q \in Queued(m) \cup Suspended(m), q[1] = j PROVE q = o
  <2>1. /\ q \in Ops /\ status[q] # "FINISHED"
        /\ arrived[q] \/ status[q] # "PENDING"
    BY RangeInOps DEF FlowInv, Servicing, QueuedWorkIsThere
  <2>2. ~InService(j, m)
    BY <1>0, <1>9
    DEF Waits, Interrupted, FlowInv, WorkpieceConservation, QueuedWorkIsThere
  <2>3. status[o] # "FINISHED"  BY <1>3, <2>2 DEF InService
  <2>4. Begun(q)  BY <2>1 DEF Begun
  <2> QED  BY <1>4, <1>9, <2>1, <2>3, <2>4, AloneInJob
<1> QED  BY <1>2, <1>5, <1>6, <1>7, <1>8, <1>9

LEMMA TreatedFlow ==
  ASSUME TypeInv, FlowInv, NEW m \in Machines, NEW o \in Ops, NEW left \in BOOLEAN,
         AtHand(o, m), Treated(o, m, left)
  PROVE  FlowInv'
<1> DEFINE j == o[1]
<1> USE TaskFacts, FactoryNone
<1>0. j \in Jobs  OBVIOUS
<1>1. /\ material_location[j] = Location[m] /\ carrier_id[j] = None
      /\ \A n \in Machines \ {m} : ~Waits(j, n) /\ ~InService(j, n) /\ ~Interrupted(j, n)
      /\ \A t \in Tasks : t[1] = j => t \notin Moving
      /\ \A t \in Open : t \notin Ops => LastOp(t[1]) # o
      /\ o \notin Open /\ Begun(o)
      /\ \A q \in Queued(m) \cup Suspended(m) : q[1] = j => q = o
  BY AtHandFacts
<1>2. /\ status'[o] \in {"PROCESSING", "FINISHED"}
      /\ status[o] = "FINISHED" => status'[o] = "FINISHED"
      /\ left => status'[o] = "FINISHED"
      /\ \A q \in Ops \ {o} : status'[q] = status[q] /\ proc_time'[q] = proc_time[q]
      /\ current_op'[m] = IF left THEN None ELSE o
      /\ ~left /\ status'[o] = "FINISHED" => elapsed'[m] >= proc_time'[o]
  BY DEF Treated
<1>3. /\ \A n \in Machines \ {m} : /\ current_op'[n] = current_op[n]
                                   /\ elapsed'[n] = elapsed[n]
                                   /\ buffer_jobs'[n] = buffer_jobs[n]
                                   /\ input_queue'[n] = input_queue[n]
                                   /\ suspended_ops'[n] = suspended_ops[n]
      /\ Queued(m)' = Queued(m) \ {o} /\ Distinct(input_queue'[m])
      /\ Suspended(m)' = Suspended(m) \ {o} /\ Distinct(suspended_ops'[m])
  BY DEF Treated
<1>4. UNCHANGED <<transfer_requested, assigned_machine, arrived,
                  material_location, carrier_id, transport_task, delivered,
                  agv_task, loaded, source, transfers_to_assign, active_transfers>>
  BY DEF Treated
<1>5. /\ current_op[m] \in {o, None}
      /\ \A n \in Machines \ {m} : current_op[n] # o
  BY <1>1 DEF AtHand, InService
<1>6. \A n \in Machines \ {m} : Queued(n)' = Queued(n) /\ Suspended(n)' = Suspended(n)
  BY <1>3 DEF Queued, Suspended
<1>7. /\ ShippingTask(j) \in Tasks /\ ShippingTask(j) \notin Ops
      /\ ShippingTask(j)[1] = j
  BY <1>0, TaskParts DEF ShippingTask, Ops
<1>8. /\ Moving' = Moving
      /\ Open' = IF left /\ o = LastOp(j) THEN Open \cup {ShippingTask(j)} ELSE Open
      /\ Open \subseteq Tasks /\ Open' \subseteq Tasks
      /\ o = LastOp(j) => ShippingTask(j) \notin Open
  <2>1. buffered_tasks' = IF left /\ o = LastOp(j)
                          THEN buffered_tasks \cup {ShippingTask(j)}
                          ELSE buffered_tasks
    BY DEF Treated
  <2>2. Open \subseteq Tasks  BY DEF TypeInv, TypeOK, Open, Moving
  <2>3. o = LastOp(j) => ShippingTask(j) \notin Open  BY <1>1, <1>7
  <2>4. Moving' = Moving  BY <1>4 DEF Moving
  <2> QED  BY <1>7, <2>1, <2>2, <2>3, <2>4 DEF Open
<1>9. \A i \in Jobs \ {j}, n \in Machines :
        /\ Waits(i, n)' <=> Waits(i, n)
        /\ InService(i, n)' <=> InService(i, n)
        /\ Interrupted(i, n)' <=> Interrupted(i, n)
  <2> SUFFICES ASSUME NEW i \in Jobs \ {j}, NEW n \in Machines
               PROVE  /\ Waits(i, n)' <=> Waits(i, n)
                      /\ InService(i, n)' <=> InService(i, n)
                      /\ Interrupted(i, n)' <=> Interrupted(i, n)
    OBVIOUS
  <2>1. CASE n = m
    <3>1. buffer_jobs'[m] \in {buffer_jobs[m] \ {j}, (buffer_jobs[m] \ {j}) \cup {j}}
      BY DEF Treated
    <3>2. Waits(i, n)' <=> Waits(i, n)  BY <2>1, <3>1 DEF Waits
    <3>3. InService(i, n)' <=> InService(i, n)
      BY <1>2, <1>5, <2>1 DEF InService
    <3>4. Interrupted(i, n)' <=> Interrupted(i, n)
      BY <1>3, <2>1 DEF Interrupted
    <3> QED  BY <3>2, <3>3, <3>4
  <2>2. CASE n # m
    BY <1>3, <1>6, <2>2 DEF Waits, InService, Interrupted
  <2> QED  BY <2>1, <2>2
<1>10. \A n \in Machines :
         /\ Waits(j, n)' <=> n = m /\ left
         /\ InService(j, n)' <=> n = m /\ ~left
         /\ ~Interrupted(j, n)'
  <2> SUFFICES ASSUME NEW n \in Machines
               PROVE  /\ Waits(j, n)' <=> n = m /\ left
                      /\ InService(j, n)' <=> n = m /\ ~left
                      /\ ~Interrupted(j, n)'
    OBVIOUS
  <2>1. CASE n = m
    <3>1. buffer_jobs'[m] = IF left THEN (buffer_jobs[m] \ {j}) \cup {j}
                                    ELSE buffer_jobs[m] \ {j}
      BY DEF Treated
    <3>2. Waits(j, n)' <=> left  BY <2>1, <3>1 DEF Waits
    <3>3. InService(j, n)' <=> ~left  BY <1>2, <2>1 DEF InService
    <3>4. ~Interrupted(j, n)'
      BY <1>1, <1>3, <2>1 DEF Interrupted
    <3> QED  BY <2>1, <3>2, <3>3, <3>4
  <2>2. CASE n # m
    BY <1>1, <1>3, <1>6, <2>2 DEF Waits, InService, Interrupted
  <2> QED  BY <2>1, <2>2
<1> HIDE DEF j
<1>11. InOrder'
  <2>1. \A u \in Tasks : Begun(u)' => Begun(u)
    BY <1>1, <1>2, <1>4, <1>8 DEF Begun
  <2> QED  BY <1>2, <2>1, InOrderKept DEF FlowInv
<1>12. OpenIsAhead'
  <2>1. ASSUME NEW q \in Ops, q \in Open'
        PROVE  transfer_requested'[q] /\ ~arrived'[q] /\ status'[q] = "PENDING"
    <3>1. q \in Open /\ q # o  BY <1>1, <1>7, <1>8, <2>1
    <3> QED  BY <1>2, <1>4, <3>1 DEF FlowInv, OpenIsAhead
  <2>2. \A q \in Ops : arrived'[q] => transfer_requested'[q]
    BY <1>4 DEF FlowInv, OpenIsAhead
  <2>3. ASSUME NEW t \in Open', t \notin Ops
        PROVE  /\ status'[LastOp(t[1])] = "FINISHED"
               /\ \A n \in Machines : current_op'[n] # LastOp(t[1])
    <3>1. CASE t \in Open
      <4>1. /\ LastOp(t[1]) # o /\ LastOp(t[1]) \in Ops
            /\ status[LastOp(t[1])] = "FINISHED"
            /\ \A n \in Machines : current_op[n] # LastOp(t[1])
        BY <1>1, <1>8, <2>3, <3>1 DEF FlowInv, OpenIsAhead
      <4> QED  BY <1>2, <1>3, <4>1
    <3>2. CASE t \notin Open
      <4>1. left /\ o = LastOp(j) /\ t[1] = j  BY <1>7, <1>8, <2>3, <3>2
      <4> QED  BY <1>2, <1>3, <1>5, <4>1
    <3> QED  BY <3>1, <3>2
  <2> QED  BY <2>1, <2>2, <2>3 DEF OpenIsAhead, LastOp
<1>13. Owners'
  <2>1. buffered_tasks' \cap Moving' = {}
    <3>1. buffered_tasks' \subseteq buffered_tasks \cup
            (IF o = LastOp(j) THEN {ShippingTask(j)} ELSE {})
      BY DEF Treated, j
    <3> QED  BY <1>8, <3>1 DEF FlowInv, Owners, Open
  <2> QED  BY <1>4, <2>1 DEF FlowInv, Owners
<1>14. Servicing'
  <2> SUFFICES ASSUME NEW n \in Machines
               PROVE  /\ current_op'[n] # None =>
                           /\ status'[current_op'[n]] \in {"PROCESSING", "FINISHED"}
                           /\ status'[current_op'[n]] = "FINISHED" =>
                                elapsed'[n] >= proc_time'[current_op'[n]]
                      /\ \A q \in Suspended(n)' : status'[q] = "SUSPENDED"
                      /\ Distinct(suspended_ops'[n])
    BY DEF Servicing, Distinct
  <2>1. Suspended(n) \subseteq Ops /\ current_op[n] \in Ops \cup {None}
    BY RangeInOps DEF TypeInv, TypeOK
  <2>2. CASE n = m
    BY <1>2, <1>3, <2>1, <2>2 DEF FlowInv, Servicing
  <2>3. CASE n # m
    <3>1. o \notin Suspended(n)  BY <1>1, <2>3 DEF Interrupted, j
    <3>2. current_op[n] # o  BY <1>5, <2>3
    <3>3. current_op[n] # None =>
            /\ status[current_op[n]] \in {"PROCESSING", "FINISHED"}
            /\ status[current_op[n]] = "FINISHED" =>
                 elapsed[n] >= proc_time[current_op[n]]
      BY DEF FlowInv, Servicing
    <3>4. Distinct(suspended_ops[n]) /\ \A q \in Suspended(n) : status[q] = "SUSPENDED"
      BY DEF FlowInv, Servicing, Distinct
    <3> QED  BY <1>2, <1>3, <1>6, <2>1, <2>3, <3>1, <3>2, <3>3, <3>4
  <2> QED  BY <2>2, <2>3
<1>15. WorkpieceConservation'
  <2> SUFFICES ASSUME NEW i \in Jobs
               PROVE  /\ carrier_id[i] = None <=> material_location[i] # None
                      /\ \A b \in AGVs : carrier_id[i] = b <=>
                           loaded[b] /\ agv_task[b] # None /\ agv_task[b][1] = i
                      /\ \A n \in Machines :
                           /\ material_location[i] = Location[n] <=>
                                Waits(i, n)' \/ InService(i, n)' \/ Interrupted(i, n)'
                           /\ ~(Waits(i, n)' /\ InService(i, n)')
                           /\ ~(Waits(i, n)' /\ Interrupted(i, n)')
                           /\ ~(InService(i, n)' /\ Interrupted(i, n)')
    BY <1>4 DEF WorkpieceConservation
  <2>1. CASE i = j
    BY <1>1, <1>10, <2>1, FactoryLayout DEF FlowInv, WorkpieceConservation
  <2>2. CASE i # j
    BY <1>9, <2>2 DEF FlowInv, WorkpieceConservation
  <2> QED  BY <2>1, <2>2
<1>16. QueuedWorkIsThere'
  <2>1. ASSUME NEW n \in Machines, NEW q \in Queued(n)'
        PROVE  /\ q[1] \in buffer_jobs'[n] /\ status'[q] = "PENDING"
               /\ arrived'[q] /\ assigned_machine'[q] = n
               /\ q \notin buffered_tasks' \cup transfers_to_assign' \cup active_transfers'
    <3>1. q \in Queued(n) /\ q \in Ops /\ q[1] \in Jobs
      BY <1>3, <1>6, <2>1, RangeInOps
    <3>2. /\ q[1] \in buffer_jobs[n] /\ status[q] = "PENDING"
          /\ arrived[q] /\ assigned_machine[q] = n /\ q \notin Open
      BY <3>1 DEF FlowInv, QueuedWorkIsThere, Open, Moving
    <3>3. q # o /\ q[1] # j
      <4>1. CASE n = m  BY <1>1, <1>3, <2>1, <3>1, <4>1
      <4>2. CASE n # m  BY <1>1, <3>2, <4>2 DEF Waits, j
      <4> QED  BY <4>1, <4>2
    <3>4. q[1] \in buffer_jobs'[n]  BY <1>9, <3>1, <3>2, <3>3 DEF Waits
    <3>5. q \notin Open'  BY <1>7, <1>8, <3>1, <3>2
    <3> QED  BY <1>2, <1>4, <3>1, <3>2, <3>3, <3>4, <3>5 DEF Open, Moving
  <2>2. ASSUME NEW n \in Machines PROVE Distinct(input_queue'[n])
    BY <1>3 DEF FlowInv, QueuedWorkIsThere, Distinct
  <2> QED  BY <2>1, <2>2 DEF QueuedWorkIsThere, Distinct
<1>17. OfferedIsReady'
  <2> SUFFICES ASSUME NEW u \in transfers_to_assign PROVE PhysicallyReady(u)'
    BY <1>4 DEF OfferedIsReady
  <2>1. PhysicallyReady(u) /\ u \in Tasks /\ u[1] \in Jobs /\ u[1] # j
    BY <1>1 DEF FlowInv, OfferedIsReady, TypeInv, TypeOK, Moving
  <2>2. \A n \in Machines : u[1] \in buffer_jobs'[n] <=> u[1] \in buffer_jobs[n]
    BY <1>9, <2>1 DEF Waits
  <2>3. PreviousFinished(u)'
    <3>1. CASE u[2] > 0
      <4>1. Previous(u) \in Ops /\ Previous(u)[1] = u[1]
        BY <2>1, <3>1, PreviousTask DEF Previous
      <4>2. Previous(u) # o  BY <2>1, <4>1 DEF j
      <4> QED
        BY <1>2, <2>1, <4>1, <4>2 DEF PhysicallyReady, PreviousFinished, Previous
    <3> QED  BY <3>1 DEF PreviousFinished
  <2> QED  BY <1>4, <2>1, <2>2, <2>3 DEF PhysicallyReady
<1>18. PickupIsFresh'
  <2> SUFFICES ASSUME NEW b \in AGVs, agv_task[b] # None, ~loaded[b]
               PROVE  /\ source[b] = material_location[agv_task[b][1]]
                      /\ source[b] # None
                      /\ \A n \in Machines : /\ ~InService(agv_task[b][1], n)'
                                             /\ ~Interrupted(agv_task[b][1], n)'
    BY <1>4 DEF PickupIsFresh
  <2> DEFINE i == agv_task[b][1]
  <2>1. i \in Jobs /\ i # j
    BY <1>1, OwnTask DEF Moving
  <2>2. i' = i  BY <1>4
  <2>3. /\ source[b] = material_location[i] /\ source[b] # None
        /\ \A n \in Machines : ~InService(i, n) /\ ~Interrupted(i, n)
    BY DEF FlowInv, PickupIsFresh
  <2>4. \A n \in Machines : ~InService(i, n)' /\ ~Interrupted(i, n)'
    BY <1>4, <1>9, <2>1, <2>3 DEF InService, Interrupted
  <2> QED  BY <2>3, <2>4
<1>19. NoLostTransfer'
  <2>1. ASSUME NEW q \in Ops, transfer_requested'[q], ~arrived'[q]
        PROVE  q \in Open'
    BY <1>4, <1>8, <2>1 DEF FlowInv, NoLostTransfer, Open, Moving
  <2>2. ASSUME NEW i \in Jobs, status'[LastOp(i)] = "FINISHED", ~delivered'[i],
               \A n \in Machines : current_op'[n] # LastOp(i)
        PROVE  ShippingTask(i) \in Open'
    <3>1. CASE LastOp(i) = o
      <4>1. i = j  BY <3>1 DEF LastOp, j
      <4> QED  BY <1>2, <1>8, <2>2, <3>1, <4>1
    <3>2. CASE LastOp(i) # o
      <4>1. status[LastOp(i)] = "FINISHED"  BY <1>2, <2>2, <3>2
      <4>2. \A n \in Machines : current_op[n] # LastOp(i)
        BY <1>3, <1>5, <2>2, <3>2
      <4>3. ShippingTask(i) \in Open
        BY <1>4, <2>2, <4>1, <4>2 DEF FlowInv, NoLostTransfer, Open, Moving
      <4> QED  BY <1>8, <4>3
    <3> QED  BY <3>1, <3>2
  <2> QED  BY <2>1, <2>2 DEF NoLostTransfer, Open, Moving, LastOp, ShippingTask
<1> QED
  BY <1>11, <1>12, <1>13, <1>14, <1>15, <1>16, <1>17, <1>18, <1>19 DEF FlowInv

\* How a finished operation leaves, or stays on, its machine.
LEMMA ReleaseEffect ==
  ASSUME TypeInv, NEW m \in Machines, NEW o \in Ops, NEW buffer \in SUBSET Jobs,
         ReleaseFinished(o, m, buffer)
  PROVE  /\ buffer_jobs'[m] = IF HasRoom(m, buffer) THEN buffer \cup {o[1]} ELSE buffer
         /\ \A n \in Machines \ {m} : buffer_jobs'[n] = buffer_jobs[n]
         /\ buffered_tasks' = IF HasRoom(m, buffer) /\ o = LastOp(o[1])
                              THEN buffered_tasks \cup {ShippingTask(o[1])}
                              ELSE buffered_tasks
<1>1. buffer_jobs \in [Machines -> SUBSET Jobs]  BY DEF TypeInv, TypeOK
<1> QED  BY <1>1 DEF ReleaseFinished

\* One unit of service.
LEMMA ServeEffect ==
  ASSUME TypeInv, NEW m \in Machines, NEW o \in Ops, NEW buffer \in SUBSET Jobs,
         NEW total, NEW before \in Nat, Serve(o, m, total, before, buffer)
  PROVE  LET finished == before + 1 >= total
             left     == finished /\ HasRoom(m, buffer)
         IN
         /\ status'[o] = IF finished THEN "FINISHED" ELSE "PROCESSING"
         /\ \A q \in Ops \ {o} : status'[q] = status[q]
         /\ current_op'[m] = IF left THEN None ELSE o
         /\ ~left => elapsed'[m] = before + 1
         /\ \A n \in Machines \ {m} : /\ current_op'[n] = current_op[n]
                                      /\ elapsed'[n] = elapsed[n]
                                      /\ buffer_jobs'[n] = buffer_jobs[n]
         /\ buffer_jobs'[m] = IF left THEN buffer \cup {o[1]} ELSE buffer
         /\ buffered_tasks' = IF left /\ o = LastOp(o[1])
                              THEN buffered_tasks \cup {ShippingTask(o[1])}
                              ELSE buffered_tasks
<1> DEFINE finished == before + 1 >= total
           left     == finished /\ HasRoom(m, buffer)
<1>1. /\ status' = [status EXCEPT ![o] = IF finished THEN "FINISHED" ELSE "PROCESSING"]
      /\ current_op' = [current_op EXCEPT ![m] = IF left THEN None ELSE o]
      /\ elapsed' = [elapsed EXCEPT ![m] = IF left THEN 0 ELSE before + 1]
      /\ \/ finished /\ ReleaseFinished(o, m, buffer)
         \/ /\ ~finished
            /\ buffer_jobs' = [buffer_jobs EXCEPT ![m] = buffer]
            /\ UNCHANGED buffered_tasks
  BY DEF Serve
<1>2. /\ DOMAIN status = Ops /\ DOMAIN current_op = Machines
      /\ DOMAIN elapsed = Machines /\ DOMAIN buffer_jobs = Machines
      /\ status = [q \in Ops |-> status[q]]
      /\ current_op = [n \in Machines |-> current_op[n]]
      /\ elapsed = [n \in Machines |-> elapsed[n]]
      /\ buffer_jobs = [n \in Machines |-> buffer_jobs[n]]
  BY DEF TypeInv, TypeOK
<1>3. /\ buffer_jobs'[m] = IF left THEN buffer \cup {o[1]} ELSE buffer
      /\ \A n \in Machines \ {m} : buffer_jobs'[n] = buffer_jobs[n]
      /\ buffered_tasks' = IF left /\ o = LastOp(o[1])
                           THEN buffered_tasks \cup {ShippingTask(o[1])}
                           ELSE buffered_tasks
  <2>1. CASE finished /\ ReleaseFinished(o, m, buffer)  BY <2>1, ReleaseEffect
  <2>2. CASE /\ ~finished
             /\ buffer_jobs' = [buffer_jobs EXCEPT ![m] = buffer]
             /\ UNCHANGED buffered_tasks
    BY <1>2, <2>2
  <2> QED  BY <1>1, <2>1, <2>2
<1>4. /\ status'[o] = IF finished THEN "FINISHED" ELSE "PROCESSING"
      /\ \A q \in Ops \ {o} : status'[q] = status[q]
  BY <1>1, <1>2
<1>5. /\ current_op'[m] = IF left THEN None ELSE o
      /\ ~left => elapsed'[m] = before + 1
      /\ \A n \in Machines \ {m} : /\ current_op'[n] = current_op[n]
                                   /\ elapsed'[n] = elapsed[n]
  BY <1>1, <1>2
<1> QED  BY <1>3, <1>4, <1>5

\* What is on the machine is in none of its queues, nor in its buffer.
LEMMA CurrentAlone ==
  ASSUME TypeInv, FlowInv, NEW m \in Machines, current_op[m] # None
  PROVE  LET o == current_op[m] IN
         /\ o \in Ops /\ o \notin Queued(m) /\ o \notin Suspended(m)
         /\ buffer_jobs[m] \ {o[1]} = buffer_jobs[m]
         /\ (buffer_jobs[m] \ {o[1]}) \cup {o[1]} = buffer_jobs[m] \cup {o[1]}
         /\ Distinct(input_queue[m]) /\ Distinct(suspended_ops[m])
<1> DEFINE o == current_op[m]
<1>1. o \in Ops /\ o[1] \in Jobs  BY TaskFacts DEF TypeInv, TypeOK
<1>2. status[o] \in {"PROCESSING", "FINISHED"}  BY DEF FlowInv, Servicing
<1>3. o \notin Queued(m) /\ o \notin Suspended(m)
  BY <1>2 DEF FlowInv, Servicing, QueuedWorkIsThere
<1>4. o[1] \notin buffer_jobs[m]
  BY <1>1 DEF FlowInv, WorkpieceConservation, Waits, InService
<1>5. Distinct(input_queue[m]) /\ Distinct(suspended_ops[m])
  BY DEF FlowInv, Servicing, QueuedWorkIsThere, Distinct
<1> QED  BY <1>1, <1>3, <1>4, <1>5

LEMMA RetryReleaseTreats ==
  ASSUME TypeInv, FlowInv, NEW m \in Machines, RetryRelease(m)
  PROVE  Treats(m)
<1> DEFINE o == current_op[m]
           left == HasRoom(m, buffer_jobs[m])
<1>1. /\ o # None /\ status[o] = "FINISHED"
      /\ ReleaseFinished(o, m, buffer_jobs[m])
      /\ current_op' = [current_op EXCEPT ![m] = IF left THEN None ELSE o]
      /\ elapsed' = [elapsed EXCEPT ![m] = IF left THEN 0 ELSE @]
      /\ UNCHANGED <<status, transfer_requested, assigned_machine, arrived,
                     proc_time, material_location, carrier_id, transport_task,
                     delivered, input_queue, suspended_ops, agv_task, loaded,
                     source, transfers_to_assign, active_transfers>>
  BY DEF RetryRelease
<1>2. /\ o \in Ops /\ o \notin Queued(m) /\ o \notin Suspended(m)
      /\ buffer_jobs[m] \ {o[1]} = buffer_jobs[m]
      /\ (buffer_jobs[m] \ {o[1]}) \cup {o[1]} = buffer_jobs[m] \cup {o[1]}
      /\ Distinct(input_queue[m]) /\ Distinct(suspended_ops[m])
  BY <1>1, CurrentAlone
<1>3. elapsed[m] >= proc_time[o]  BY <1>1 DEF FlowInv, Servicing
<1>4. /\ buffer_jobs'[m] = IF left THEN buffer_jobs[m] \cup {o[1]} ELSE buffer_jobs[m]
      /\ \A n \in Machines \ {m} : buffer_jobs'[n] = buffer_jobs[n]
      /\ buffered_tasks' = IF left /\ o = LastOp(o[1])
                           THEN buffered_tasks \cup {ShippingTask(o[1])}
                           ELSE buffered_tasks
  <2>1. buffer_jobs[m] \in SUBSET Jobs  BY DEF TypeInv, TypeOK
  <2> QED  BY <1>1, <1>2, <2>1, ReleaseEffect
<1> HIDE DEF left
<1>5. /\ current_op'[m] = IF left THEN None ELSE o
      /\ elapsed'[m] = IF left THEN 0 ELSE elapsed[m]
      /\ \A n \in Machines \ {m} : /\ current_op'[n] = current_op[n]
                                   /\ elapsed'[n] = elapsed[n]
  BY <1>1 DEF TypeInv, TypeOK
<1>6. /\ left \in BOOLEAN
      /\ left <=> status'[o] = "FINISHED" /\ HasRoom(m, buffer_jobs[m] \ {o[1]})
  BY <1>1, <1>2 DEF left, HasRoom
<1> HIDE DEF o
<1>7. Queued(m)' = Queued(m) \ {o} /\ Suspended(m)' = Suspended(m) \ {o}
  BY <1>1, <1>2 DEF Queued, Suspended
<1>8. Treated(o, m, left)
  BY <1>1, <1>2, <1>3, <1>4, <1>5, <1>6, <1>7 DEF Treated
<1>9. AtHand(o, m)  BY DEF AtHand, o
<1> QED  BY <1>2, <1>6, <1>8, <1>9 DEF Treats

LEMMA ContinueOperationTreats ==
  ASSUME TypeInv, FlowInv, NEW m \in Machines, ContinueOperation(m)
  PROVE  Treats(m)
<1> DEFINE o == current_op[m]
           finished == elapsed[m] + 1 >= proc_time[o]
           left == finished /\ HasRoom(m, buffer_jobs[m])
<1>1. /\ o # None /\ status[o] # "FINISHED"
      /\ Serve(o, m, proc_time[o], elapsed[m], buffer_jobs[m])
      /\ UNCHANGED <<transfer_requested, assigned_machine, arrived,
                     proc_time, material_location, carrier_id, transport_task,
                     delivered, input_queue, suspended_ops, agv_task, loaded,
                     source, transfers_to_assign, active_transfers>>
  BY DEF ContinueOperation
<1>2. /\ o \in Ops /\ o \notin Queued(m) /\ o \notin Suspended(m)
      /\ buffer_jobs[m] \ {o[1]} = buffer_jobs[m]
      /\ (buffer_jobs[m] \ {o[1]}) \cup {o[1]} = buffer_jobs[m] \cup {o[1]}
      /\ Distinct(input_queue[m]) /\ Distinct(suspended_ops[m])
  BY <1>1, CurrentAlone
<1>3. buffer_jobs[m] \in SUBSET Jobs /\ elapsed[m] \in Nat
  BY DEF TypeInv, TypeOK
<1>4. /\ status'[o] = IF finished THEN "FINISHED" ELSE "PROCESSING"
      /\ \A q \in Ops \ {o} : status'[q] = status[q]
      /\ current_op'[m] = IF left THEN None ELSE o
      /\ ~left => elapsed'[m] = elapsed[m] + 1
      /\ \A n \in Machines \ {m} : /\ current_op'[n] = current_op[n]
                                   /\ elapsed'[n] = elapsed[n]
                                   /\ buffer_jobs'[n] = buffer_jobs[n]
      /\ buffer_jobs'[m] = IF left THEN buffer_jobs[m] \cup {o[1]} ELSE buffer_jobs[m]
      /\ buffered_tasks' = IF left /\ o = LastOp(o[1])
                           THEN buffered_tasks \cup {ShippingTask(o[1])}
                           ELSE buffered_tasks
  BY <1>1, <1>2, <1>3, ServeEffect
<1>5. left \in BOOLEAN  OBVIOUS
<1>6. /\ left <=> status'[o] = "FINISHED" /\ HasRoom(m, buffer_jobs[m] \ {o[1]})
      /\ ~left /\ status'[o] = "FINISHED" => elapsed'[m] >= proc_time'[o]
  BY <1>1, <1>2, <1>4
<1> HIDE DEF left, finished, o
<1>7. Queued(m)' = Queued(m) \ {o} /\ Suspended(m)' = Suspended(m) \ {o}
  BY <1>1, <1>2 DEF Queued, Suspended
<1>8. Treated(o, m, left)
  BY <1>1, <1>2, <1>4, <1>6, <1>7 DEF Treated
<1>9. AtHand(o, m)  BY DEF AtHand, o
<1> QED  BY <1>2, <1>5, <1>8, <1>9 DEF Treats

\* An operation that is started, or started again, from one of the queues.
LEMMA BeginTreats ==
  ASSUME TypeInv, FlowInv, NEW m \in Machines, NEW o \in Ops, Begin(o, m),
         o \in Queued(m) \cup Suspended(m),
         Queued(m)' = Queued(m) \ {o} /\ Distinct(input_queue'[m]),
         Suspended(m)' = Suspended(m) \ {o} /\ Distinct(suspended_ops'[m]),
         \A n \in Machines \ {m} : /\ input_queue'[n] = input_queue[n]
                                   /\ suspended_ops'[n] = suspended_ops[n]
  PROVE  Treats(m)
<1> DEFINE buffer == buffer_jobs[m] \ {o[1]}
<1>1. PICK p \in ProcTimes \cup {remaining[o]} :
        /\ current_op[m] = None
        /\ proc_time' = [proc_time EXCEPT ![o] = p]
        /\ Serve(o, m, p, 0, buffer)
        /\ UNCHANGED <<transfer_requested, assigned_machine, arrived,
                       material_location, carrier_id, transport_task, delivered,
                       agv_task, loaded, source, transfers_to_assign,
                       active_transfers>>
  BY DEF Begin
<1> DEFINE finished == 0 + 1 >= p
           left == finished /\ HasRoom(m, buffer)
<1>2. /\ buffer \in SUBSET Jobs
      /\ proc_time'[o] = p /\ \A q \in Ops \ {o} : proc_time'[q] = proc_time[q]
  BY <1>1 DEF TypeInv, TypeOK
<1>3. /\ status'[o] = IF finished THEN "FINISHED" ELSE "PROCESSING"
      /\ \A q \in Ops \ {o} : status'[q] = status[q]
      /\ current_op'[m] = IF left THEN None ELSE o
      /\ ~left => elapsed'[m] = 0 + 1
      /\ \A n \in Machines \ {m} : /\ current_op'[n] = current_op[n]
                                   /\ elapsed'[n] = elapsed[n]
                                   /\ buffer_jobs'[n] = buffer_jobs[n]
      /\ buffer_jobs'[m] = IF left THEN buffer \cup {o[1]} ELSE buffer
      /\ buffered_tasks' = IF left /\ o = LastOp(o[1])
                           THEN buffered_tasks \cup {ShippingTask(o[1])}
                           ELSE buffered_tasks
  <2> HIDE DEF buffer
  <2>1. 0 \in Nat  OBVIOUS
  <2> QED  BY <1>1, <1>2, <2>1, ServeEffect
<1>4. left \in BOOLEAN  OBVIOUS
<1>5. /\ left <=> status'[o] = "FINISHED" /\ HasRoom(m, buffer)
      /\ ~left /\ status'[o] = "FINISHED" => elapsed'[m] >= proc_time'[o]
  BY <1>2, <1>3
<1>6. status[o] # "FINISHED"
  BY DEF FlowInv, Servicing, QueuedWorkIsThere
<1> HIDE DEF left, finished
<1>7. Treated(o, m, left)
  BY <1>1, <1>2, <1>3, <1>5, <1>6 DEF Treated
<1>8. AtHand(o, m)  BY <1>1 DEF AtHand
<1> QED  BY <1>4, <1>7, <1>8 DEF Treats

LEMMA StartQueuedTreats ==
  ASSUME TypeInv, FlowInv, NEW m \in Machines, StartQueued(m)
  PROVE  Treats(m)
<1> DEFINE s == input_queue[m]
<1>1. PICK i \in DOMAIN s :
        /\ input_queue' = [input_queue EXCEPT ![m] =
                             SubSeq(s, 1, i - 1) \o SubSeq(s, i + 1, Len(s))]
        /\ UNCHANGED suspended_ops
        /\ Begin(s[i], m)
  BY DEF StartQueued
<1>2. /\ s \in Seq(Ops) /\ input_queue \in [Machines -> Seq(Ops)]
      /\ suspended_ops \in [Machines -> Seq(Ops)]
  BY DEF TypeInv, TypeOK
<1>3. /\ Distinct(s) /\ Distinct(suspended_ops[m])
  BY DEF FlowInv, Servicing, QueuedWorkIsThere, Distinct
<1>4. s[i] \in Queued(m) /\ s[i] \in Ops
  BY <1>2, ElementOfSeq, LenProperties DEF Queued, Range
<1>5. s[i] \notin Suspended(m)
  BY <1>4 DEF FlowInv, Servicing, QueuedWorkIsThere
<1>6. /\ input_queue'[m] = SubSeq(s, 1, i - 1) \o SubSeq(s, i + 1, Len(s))
      /\ \A n \in Machines \ {m} : /\ input_queue'[n] = input_queue[n]
                                   /\ suspended_ops'[n] = suspended_ops[n]
  BY <1>1, <1>2
<1>7. Queued(m)' = Queued(m) \ {s[i]} /\ Distinct(input_queue'[m])
  BY <1>2, <1>3, <1>6, RangeRemove DEF Queued
<1>8. Suspended(m)' = Suspended(m) \ {s[i]} /\ Distinct(suspended_ops'[m])
  BY <1>1, <1>3, <1>5 DEF Suspended
<1> QED  BY <1>1, <1>4, <1>6, <1>7, <1>8, BeginTreats

LEMMA ResumeSuspendedTreats ==
  ASSUME TypeInv, FlowInv, NEW m \in Machines, ResumeSuspended(m)
  PROVE  Treats(m)
<1> DEFINE s == suspended_ops[m]
<1>1. /\ s # <<>> /\ suspended_ops' = [suspended_ops EXCEPT ![m] = Tail(s)]
      /\ UNCHANGED input_queue
      /\ Begin(Head(s), m)
  BY DEF ResumeSuspended
<1>2. /\ s \in Seq(Ops) /\ input_queue \in [Machines -> Seq(Ops)]
      /\ suspended_ops \in [Machines -> Seq(Ops)]
  BY DEF TypeInv, TypeOK
<1>3. /\ Distinct(s) /\ Distinct(input_queue[m])
  BY DEF FlowInv, Servicing, QueuedWorkIsThere, Distinct
<1>4. /\ Head(s) \in Suspended(m) /\ Range(Tail(s)) = Range(s) \ {Head(s)}
      /\ Distinct(Tail(s))
  BY <1>1, <1>2, <1>3, RangeTail DEF Suspended
<1>5. Head(s) \in Ops  BY <1>4, RangeInOps
<1>6. Head(s) \notin Queued(m)
  BY <1>4 DEF FlowInv, Servicing, QueuedWorkIsThere
<1>7. /\ suspended_ops'[m] = Tail(s)
      /\ \A n \in Machines \ {m} : /\ input_queue'[n] = input_queue[n]
                                   /\ suspended_ops'[n] = suspended_ops[n]
  BY <1>1, <1>2
<1>8. Suspended(m)' = Suspended(m) \ {Head(s)} /\ Distinct(suspended_ops'[m])
  BY <1>4, <1>7 DEF Suspended
<1>9. Queued(m)' = Queued(m) \ {Head(s)} /\ Distinct(input_queue'[m])
  BY <1>1, <1>3, <1>6 DEF Queued
<1> QED  BY <1>1, <1>4, <1>5, <1>7, <1>8, <1>9, BeginTreats

LEMMA MachineTreats ==
  ASSUME TypeInv, FlowInv, NEW m \in Machines, Machine(m)
  PROVE  Treats(m) \/ HoldForUrgent(m) \/ Deactivate(m)
BY RetryReleaseTreats, ContinueOperationTreats, StartQueuedTreats,
   ResumeSuspendedTreats DEF Machine

-----------------------------------------------------------------------------
(* The whole step, and the theorems.                                       *)

\* A vehicle that finishes a dropoff delivers its workpiece or waits.
LEMMA FinishDropoffFlow ==
  ASSUME TypeInv, FlowInv, NEW a \in AGVs, FinishDropoff(a),
         agv_phase[a] \in {"TO_DROPOFF", "DROPPING"}
  PROVE  FlowInv'
<1>1. agv_task[a] # None /\ loaded[a]  BY DEF TypeInv, VehiclePhase
<1>2. CASE Deliver(a)  BY <1>1, <1>2, DeliverFlow
<1>3. CASE UNCHANGED flowVars  BY <1>3, FlowQuiet
<1> QED  BY <1>2, <1>3 DEF FinishDropoff, flowVars

LEMMA VehicleFlow ==
  ASSUME TypeInv, FlowInv, NEW a \in AGVs, Vehicle(a)
  PROVE  FlowInv'
<1>1. CASE PickupAtOnce(a) \/ CompletePickup(a)
  <2>1. agv_phase[a] \in {"TO_PICKUP", "PICKING"} /\ FinishPickup(a)
    BY <1>1 DEF PickupAtOnce, CompletePickup, AtPickup
  <2>2. agv_task[a] # None /\ ~loaded[a]  BY <2>1 DEF TypeInv, VehiclePhase
  <2> QED  BY <2>1, <2>2, FinishPickupFlow
<1>2. CASE DropoffAtOnce(a) \/ CompleteDropoff(a)
  <2>1. agv_phase[a] \in {"TO_DROPOFF", "DROPPING"} /\ FinishDropoff(a)
    BY <1>2 DEF DropoffAtOnce, CompleteDropoff, AtDropoff
  <2> QED  BY <2>1, FinishDropoffFlow
<1>3. CASE SettleWaits(a) \/ StartPickup(a) \/ StartDropoff(a) \/ KeepHandling(a)
  <2>1. UNCHANGED flowVars
    BY <1>3 DEF SettleWaits, StartPickup, StartDropoff, KeepHandling, flowVars
  <2> QED  BY <2>1, FlowQuiet
<1> QED  BY <1>1, <1>2, <1>3 DEF Vehicle

LEMMA FlowNext == TypeInv /\ FlowInv /\ [Next]_vars => FlowInv'
<1> SUFFICES ASSUME TypeInv, FlowInv, [Next]_vars PROVE FlowInv'
  OBVIOUS
<1>1. CASE Plan
  <2>1. CASE Reschedule  BY <2>1, RescheduleFlow DEF Reschedule
  <2>2. CASE \/ \E m \in Machines : BreakMachine(m) \/ RepairMachine(m)
             \/ \E a \in AGVs : BreakAgv(a) \/ RepairAgv(a)
    <3>1. UNCHANGED flowVars
      BY <2>2 DEF BreakMachine, RepairMachine, BreakAgv, RepairAgv, flowVars
    <3> QED  BY <3>1, FlowQuiet
  <2>3. CASE \E o \in Ops, m \in Machines : RequestTransfer(o, m)
    BY <2>3, RequestTransferFlow
  <2> QED  BY <1>1, <2>1, <2>2, <2>3 DEF Plan
<1>2. CASE Dispatch
  <2>1. CASE BeginTaskStep \/ BeginAssign \/ \E t \in Tasks : KeepBuffered(t)
    <3>1. UNCHANGED flowVars
      BY <2>1 DEF BeginTaskStep, BeginAssign, KeepBuffered, flowVars
    <3> QED  BY <3>1, FlowQuiet
  <2> QED
    BY <1>2, <2>1, AdmitFlow, OfferTaskFlow, AssignTransferFlow DEF Dispatch
<1>3. CASE \E m \in Machines : Machine(m)
  <2>1. CASE \E m \in Machines : HoldForUrgent(m) \/ Deactivate(m)
    <3>1. UNCHANGED flowVars
      BY <2>1 DEF HoldForUrgent, Deactivate, flowVars
    <3> QED  BY <3>1, FlowQuiet
  <2> QED
    BY <1>3, <2>1, MachineTreats, TreatedFlow DEF Treats
<1>4. CASE Transport
  <2>1. CASE BeginSettle \/ EndStep \/ \E next \in [AGVs -> Cells] : Move(next)
    <3>1. UNCHANGED flowVars
      BY <2>1 DEF BeginSettle, EndStep, Move, flowVars
    <3> QED  BY <3>1, FlowQuiet
  <2> QED  BY <1>4, <2>1, VehicleFlow DEF Transport
<1>5. CASE BeginMachines \/ UNCHANGED vars
  <2>1. UNCHANGED flowVars  BY <1>5 DEF BeginMachines, vars, flowVars
  <2> QED  BY <2>1, FlowQuiet
<1> QED  BY <1>1, <1>2, <1>3, <1>4, <1>5 DEF Next

\* The invariant all of the theorems below come from.
LEMMA FlowHolds == Spec => [](TypeInv /\ FlowInv)
<1>1. Init => TypeInv /\ FlowInv  BY TypeInit, FlowInit
<1>2. TypeInv /\ FlowInv /\ [Next]_vars => (TypeInv /\ FlowInv)'
  BY TypeNext, FlowNext
<1> QED  BY <1>1, <1>2, PTL DEF Spec

\* "transport tasks, workpieces and AGVs must have a single owner"
\* (assign_env.py:628): what is asked to be moved is somewhere on its way, one
\* vehicle has it, and the operations of a job come one after the other.
THEOREM TransfersAreKept == Spec => []TransfersKept
<1>1. TypeInv /\ FlowInv => TransfersKept
  <2> SUFFICES ASSUME TypeInv, FlowInv PROVE TransfersKept  OBVIOUS
  <2> USE TaskFacts, FactoryNone
  <2>1. SingleOwner
    <3>1. /\ buffered_tasks \cap transfers_to_assign = {}
          /\ buffered_tasks \cap active_transfers = {}
          /\ transfers_to_assign \cap active_transfers = {}
      BY DEF FlowInv, Owners, Moving
    <3>2. active_transfers = {agv_task[a] : a \in AGVs} \ {None}
      <4>1. /\ active_transfers \subseteq Tasks
            /\ \A a \in AGVs : agv_task[a] \in Tasks \cup {None}
        BY DEF TypeInv, TypeOK
      <4>2. \A t \in Tasks : t \in active_transfers <=> \E a \in AGVs : agv_task[a] = t
        BY DEF FlowInv, Owners
      <4> QED  BY <4>1, <4>2
    <3>3. \A a, b \in AGVs : agv_task[a] # None /\ agv_task[b] # None
                              /\ agv_task[a][1] = agv_task[b][1] => a = b
      BY DEF FlowInv, Owners
    <3>4. \A j \in Jobs : transport_task[j] # None <=>
            \E a \in AGVs : agv_task[a] = transport_task[j] /\ agv_task[a] # None
      BY DEF FlowInv, Owners
    <3> QED  BY <3>1, <3>2, <3>3, <3>4 DEF SingleOwner
  <2>2. NoLostTransfer  BY DEF FlowInv
  <2>3. Precedence
    <3> SUFFICES ASSUME NEW t \in Tasks, t[2] > 0, status[Previous(t)] # "FINISHED"
                 PROVE  /\ t \notin Moving
                        /\ t \in Ops => status[t] = "PENDING" /\ ~arrived[t]
      BY DEF Precedence, Moving
    <3>1. ~Begun(t)  BY PreviousTask DEF FlowInv, InOrder
    <3> QED  BY <3>1 DEF Begun
  <2> QED  BY <2>1, <2>2, <2>3 DEF TransfersKept
<1> QED  BY <1>1, FlowHolds, PTL

\* A workpiece is in exactly one place, whatever is interrupted, called back,
\* broken or rescheduled in between.
THEOREM WorkpiecesAreInOnePlace == Spec => []WorkpieceConservation
<1>1. FlowInv => WorkpieceConservation  BY DEF FlowInv
<1> QED  BY <1>1, FlowHolds, PTL

\* "a loaded workpiece must remain on its current AGV" and the other checks of
\* apply_reschedule suffice: what a reschedule leaves in the queues, on offer
\* and on the vehicles is true of where the workpieces are.
THEOREM ReschedulesAreClean == Spec => []ReschedulesCleanly
<1>1. FlowInv => ReschedulesCleanly  BY DEF FlowInv, ReschedulesCleanly
<1> QED  BY <1>1, FlowHolds, PTL

-----------------------------------------------------------------------------
(* Urgent workpieces: what they are promised, and what they interrupt.     *)

\* How far the operations have come: work that waits is not measured yet, what
\* is suspended has something left, what is on a machine has what it needs
\* ahead of it, or exactly behind it.
Progress ==
  /\ \A o \in Ops : /\ status[o] = "PENDING" => remaining[o] = 0
                    /\ status[o] = "SUSPENDED" => remaining[o] > 0
  /\ \A m \in Machines : current_op[m] # None =>
       /\ status[current_op[m]] = "PROCESSING" =>
            elapsed[m] < proc_time[current_op[m]]
       /\ status[current_op[m]] = "FINISHED" =>
            elapsed[m] = proc_time[current_op[m]]

ServiceInv == Progress /\ ServiceConserved

LEMMA ServiceQuiet ==
  ASSUME ServiceInv, UNCHANGED <<serviceVars, workVars>>
  PROVE  ServiceInv'
BY DEF ServiceInv, Progress, ServiceConserved

\* An operation that comes to its machine is to be measured anew.
LEMMA ServiceEnqueue ==
  ASSUME TypeInv, FlowInv, ServiceInv, NEW t \in Ops, t \in Open,
         sampled' = [sampled EXCEPT ![t] = 0],
         UNCHANGED <<status, proc_time, remaining, processed, workVars>>
  PROVE  ServiceInv'
<1> USE DEF ServiceInv
<1>1. status[t] = "PENDING"  BY DEF FlowInv, OpenIsAhead
<1>2. \A m \in Machines : current_op[m] # t
  BY <1>1, FactoryNone, TaskFacts DEF FlowInv, Servicing
<1>3. \A q \in Ops : q # t => sampled'[q] = sampled[q]
  BY DEF TypeInv, TypeOK
<1>4. Progress'  BY DEF Progress
<1>5. ServiceConserved'
  <2>1. \A m \in Machines : current_op[m] \in Ops \cup {None}
    BY DEF TypeInv, TypeOK
  <2> QED  BY <1>1, <1>2, <1>3, <2>1 DEF ServiceConserved
<1> QED  BY <1>4, <1>5

LEMMA ServiceSuspend ==
  ASSUME TypeInv, FlowInv, ServiceInv, NEW m \in Machines,
         Preemptable(m), Suspend(m), UNCHANGED <<proc_time, sampled, processed>>
  PROVE  ServiceInv'
<1> DEFINE c == current_op[m]
<1> USE DEF ServiceInv
<1>1. /\ c \in Ops /\ c # None /\ elapsed[m] < proc_time[c]
      /\ elapsed[m] \in Nat /\ proc_time[c] \in Nat
  BY DEF Preemptable, TypeInv, TypeOK
<1>2. /\ remaining' = [remaining EXCEPT ![c] = proc_time[c] - elapsed[m]]
      /\ status' = [status EXCEPT ![c] = "SUSPENDED"]
      /\ current_op' = [current_op EXCEPT ![m] = None]
      /\ elapsed' = [elapsed EXCEPT ![m] = 0]
  BY DEF Suspend, Unserved
<1>3. \A n \in Machines : n # m => current_op[n] # c
  <2>1. c[1] \in Jobs /\ InService(c[1], m)  BY <1>1, TaskFacts DEF InService
  <2> QED  BY <1>1, <2>1, AtItsMachine DEF InService
<1>4. processed[c] + proc_time[c] = sampled[c] + elapsed[m]
  BY <1>1 DEF ServiceConserved
<1> HIDE DEF c
<1>5. /\ status'[c] = "SUSPENDED" /\ remaining'[c] = proc_time[c] - elapsed[m]
      /\ \A q \in Ops : q # c => status'[q] = status[q] /\ remaining'[q] = remaining[q]
      /\ current_op'[m] = None
      /\ \A n \in Machines : n # m => current_op'[n] = current_op[n]
                                      /\ elapsed'[n] = elapsed[n]
  BY <1>1, <1>2 DEF TypeInv, TypeOK
<1>6. \A n \in Machines : current_op[n] \in Ops \cup {None}
  BY DEF TypeInv, TypeOK
<1>7. Progress'
  <2>1. remaining'[c] > 0  BY <1>1, <1>5
  <2>2. \A n \in Machines : current_op'[n] # None =>
          n # m /\ current_op'[n] = current_op[n] /\ current_op[n] # c
    BY <1>3, <1>5
  <2> QED  BY <1>5, <1>6, <2>1, <2>2 DEF Progress
<1>8. ServiceConserved'
  <2>1. processed[c] \in Nat /\ sampled[c] \in Nat
    BY <1>1 DEF TypeInv, TypeOK
  <2>2. processed[c] + remaining'[c] = sampled[c]
    BY <1>1, <1>4, <1>5, <2>1
  <2>3. \A n \in Machines : current_op'[n] # None =>
          n # m /\ current_op'[n] = current_op[n] /\ current_op[n] # c
    BY <1>3, <1>5
  <2> QED  BY <1>5, <1>6, <2>2, <2>3 DEF ServiceConserved
<1> QED  BY <1>7, <1>8

\* One unit of service for an operation that has `before` units of the `total`
\* it was given, and whose book is in order.
LEMMA ServiceServe ==
  ASSUME TypeInv, FlowInv, ServiceInv, NEW m \in Machines, NEW o \in Ops,
         NEW buffer \in SUBSET Jobs, NEW total \in Nat, NEW before \in Nat,
         AtHand(o, m), Serve(o, m, total, before, buffer),
         before < total, sampled'[o] \in Nat,
         processed[o] + total = sampled'[o] + before,
         proc_time'[o] = total,
         \A q \in Ops \ {o} : /\ proc_time'[q] = proc_time[q]
                              /\ sampled'[q] = sampled[q]
                              /\ remaining'[q] = remaining[q]
  PROVE  ServiceInv'
<1> DEFINE finished == before + 1 >= total
           left     == finished /\ HasRoom(m, buffer)
<1> USE DEF ServiceInv
<1>1. /\ status'[o] = IF finished THEN "FINISHED" ELSE "PROCESSING"
      /\ \A q \in Ops \ {o} : status'[q] = status[q]
      /\ current_op'[m] = IF left THEN None ELSE o
      /\ ~left => elapsed'[m] = before + 1
      /\ \A n \in Machines \ {m} : /\ current_op'[n] = current_op[n]
                                   /\ elapsed'[n] = elapsed[n]
  <2>1. /\ status' = [status EXCEPT ![o] = IF finished THEN "FINISHED" ELSE "PROCESSING"]
        /\ current_op' = [current_op EXCEPT ![m] = IF left THEN None ELSE o]
        /\ elapsed' = [elapsed EXCEPT ![m] = IF left THEN 0 ELSE before + 1]
    BY DEF Serve
  <2>2. DOMAIN status = Ops /\ DOMAIN current_op = Machines /\ DOMAIN elapsed = Machines
    BY DEF TypeInv, TypeOK
  <2> HIDE DEF finished, left
  <2> QED  BY <2>1, <2>2
<1>2. /\ processed'[o] = processed[o] + 1 /\ processed[o] \in Nat
      /\ \A q \in Ops \ {o} : processed'[q] = processed[q]
  BY DEF Serve, TypeInv, TypeOK
<1>3. \A n \in Machines \ {m} : current_op[n] # o /\ current_op[n] \in Ops \cup {None}
  <2>1. \A n \in Machines \ {m} : ~InService(o[1], n)  BY AtHandFacts
  <2>2. o # None  BY FactoryNone, TaskFacts
  <2>3. \A n \in Machines \ {m} : current_op[n] # o  BY <2>1, <2>2 DEF InService
  <2> QED  BY <2>3 DEF TypeInv, TypeOK
<1>4. /\ finished => processed'[o] = sampled'[o]
      /\ processed'[o] + total = sampled'[o] + (before + 1)
      /\ finished => before + 1 = total
      /\ ~finished => before + 1 < total
  BY <1>2
<1> HIDE DEF finished, left
<1>5. left => finished  BY DEF left
<1>6. Progress'
  <2>1. \A q \in Ops : /\ status'[q] = "PENDING" => remaining'[q] = 0
                       /\ status'[q] = "SUSPENDED" => remaining'[q] > 0
    BY <1>1 DEF Progress
  <2>2. ASSUME NEW n \in Machines, current_op'[n] # None
        PROVE  /\ status'[current_op'[n]] = "PROCESSING" =>
                    elapsed'[n] < proc_time'[current_op'[n]]
               /\ status'[current_op'[n]] = "FINISHED" =>
                    elapsed'[n] = proc_time'[current_op'[n]]
    <3>1. CASE n = m
      BY <1>1, <1>4, <2>2, <3>1
    <3>2. CASE n # m
      <4>1. current_op'[n] = current_op[n] /\ current_op[n] \in Ops \ {o}
        BY <1>1, <1>3, <2>2, <3>2
      <4> QED  BY <1>1, <2>2, <3>2, <4>1 DEF Progress
    <3> QED  BY <3>1, <3>2
  <2> QED  BY <2>1, <2>2 DEF Progress
<1>7. ServiceConserved'
  <2>1. \A q \in Ops :
          /\ status'[q] = "FINISHED" => processed'[q] = sampled'[q]
          /\ status'[q] = "SUSPENDED" => processed'[q] + remaining'[q] = sampled'[q]
          /\ status'[q] = "PENDING" => processed'[q] = 0
    BY <1>1, <1>2, <1>4 DEF ServiceConserved
  <2>2. ASSUME NEW n \in Machines, current_op'[n] # None
        PROVE  processed'[current_op'[n]] + proc_time'[current_op'[n]] =
                 sampled'[current_op'[n]] + elapsed'[n]
    <3>1. CASE n = m
      BY <1>1, <1>4, <2>2, <3>1
    <3>2. CASE n # m
      <4>1. current_op'[n] = current_op[n] /\ current_op[n] \in Ops \ {o}
        BY <1>1, <1>3, <2>2, <3>2
      <4> QED  BY <1>1, <1>2, <2>2, <3>2, <4>1 DEF ServiceConserved
    <3> QED  BY <3>1, <3>2
  <2> QED  BY <2>1, <2>2 DEF ServiceConserved
<1> QED  BY <1>6, <1>7

LEMMA ServiceContinue ==
  ASSUME TypeInv, FlowInv, ServiceInv, NEW m \in Machines, ContinueOperation(m)
  PROVE  ServiceInv'
<1> DEFINE o == current_op[m]
<1> USE DEF ServiceInv
<1>1. /\ o # None /\ status[o] # "FINISHED"
      /\ Serve(o, m, proc_time[o], elapsed[m], buffer_jobs[m])
      /\ UNCHANGED <<proc_time, sampled, remaining>>
  BY DEF ContinueOperation
<1>2. /\ o \in Ops /\ proc_time[o] \in Nat /\ elapsed[m] \in Nat
      /\ sampled[o] \in Nat /\ buffer_jobs[m] \in SUBSET Jobs
  BY <1>1 DEF TypeInv, TypeOK
<1>3. status[o] = "PROCESSING"  BY <1>1 DEF FlowInv, Servicing
<1>4. elapsed[m] < proc_time[o]  BY <1>1, <1>3 DEF Progress
<1>5. processed[o] + proc_time[o] = sampled[o] + elapsed[m]
  BY <1>1 DEF ServiceConserved
<1>6. AtHand(o, m)  BY DEF AtHand
<1> HIDE DEF o
<1> QED  BY <1>1, <1>2, <1>4, <1>5, <1>6, ServiceServe

LEMMA ServiceBegin ==
  ASSUME TypeInv, FlowInv, ServiceInv, NEW m \in Machines, NEW o \in Ops,
         Begin(o, m), o \in Queued(m) \cup Suspended(m)
  PROVE  ServiceInv'
<1> DEFINE buffer == buffer_jobs[m] \ {o[1]}
<1> USE DEF ServiceInv
<1>1. PICK p \in ProcTimes \cup {remaining[o]} :
        /\ current_op[m] = None
        /\ proc_time' = [proc_time EXCEPT ![o] = p]
        /\ \/ /\ remaining[o] = 0 /\ p # 0
              /\ sampled' = [sampled EXCEPT ![o] = p]
              /\ UNCHANGED remaining
           \/ /\ remaining[o] # 0 /\ p = remaining[o]
              /\ remaining' = [remaining EXCEPT ![o] = 0]
              /\ UNCHANGED sampled
        /\ Serve(o, m, p, 0, buffer)
  BY DEF Begin
<1>2. /\ p \in Nat /\ remaining[o] \in Nat /\ processed[o] \in Nat
      /\ sampled[o] \in Nat /\ buffer \in SUBSET Jobs
  BY FactoryConstants DEF TypeInv, TypeOK
<1>3. /\ proc_time'[o] = p
      /\ \A q \in Ops \ {o} : /\ proc_time'[q] = proc_time[q]
                              /\ sampled'[q] = sampled[q]
                              /\ remaining'[q] = remaining[q]
  BY <1>1 DEF TypeInv, TypeOK
<1>4. /\ 0 < p /\ sampled'[o] \in Nat
      /\ processed[o] + p = sampled'[o] + 0
  <2>1. \/ status[o] = "PENDING" /\ remaining[o] = 0 /\ processed[o] = 0
        \/ /\ status[o] = "SUSPENDED" /\ remaining[o] > 0
           /\ processed[o] + remaining[o] = sampled[o]
    BY DEF FlowInv, Servicing, QueuedWorkIsThere, Progress, ServiceConserved
  <2>2. CASE remaining[o] = 0
    <3>1. p # 0 /\ sampled' = [sampled EXCEPT ![o] = p]  BY <1>1, <2>2
    <3>2. sampled'[o] = p  BY <3>1 DEF TypeInv, TypeOK
    <3> QED  BY <1>2, <2>1, <2>2, <3>1, <3>2
  <2>3. CASE remaining[o] # 0
    <3>1. p = remaining[o] /\ sampled' = sampled  BY <1>1, <2>3
    <3> QED  BY <1>2, <2>1, <2>3, <3>1
  <2> QED  BY <2>2, <2>3
<1>5. AtHand(o, m)  BY <1>1 DEF AtHand
<1> HIDE DEF buffer
<1>6. 0 \in Nat  OBVIOUS
<1> QED  BY <1>1, <1>2, <1>3, <1>4, <1>5, <1>6, ServiceServe

\* What leaves its machine has nothing to be served any more.
LEMMA ServiceRelease ==
  ASSUME TypeInv, FlowInv, ServiceInv, NEW m \in Machines, RetryRelease(m)
  PROVE  ServiceInv'
<1> USE DEF ServiceInv
<1>1. /\ UNCHANGED serviceVars
      /\ \A n \in Machines : \/ current_op'[n] = None
                             \/ /\ current_op'[n] = current_op[n]
                                /\ elapsed'[n] = elapsed[n]
  BY DEF RetryRelease, TypeInv, TypeOK
<1>2. Progress'  BY <1>1 DEF Progress
<1>3. ServiceConserved'  BY <1>1 DEF ServiceConserved
<1> QED  BY <1>2, <1>3

\* No reservation is made, and those that remain are for work still coming.
LEMMA ReservationsKept ==
  ASSUME ReservationsLive,
         \A m \in Machines : urgent_reservations'[m] \subseteq urgent_reservations[m],
         \A m \in Machines : \A q \in urgent_reservations'[m] :
            q \in Open => assigned_machine'[q] = assigned_machine[q] /\ q \in Open'
  PROVE  ReservationsLive'
BY DEF ReservationsLive, Open, Moving, IsUrgent

LEMMA ReservationsQuiet ==
  ASSUME ReservationsLive, UNCHANGED <<urgent_reservations, assigned_machine>>,
         Open \subseteq Open'
  PROVE  ReservationsLive'
BY ReservationsKept

\* An operation that comes to its machine needs no reservation any more.
LEMMA ReservationsEnqueue ==
  ASSUME TypeInv, FlowInv, ReservationsLive, NEW t \in Ops, NEW m \in Machines,
         assigned_machine[t] = m, Enqueue(t, m),
         Open' = Open \ {t}, UNCHANGED assigned_machine
  PROVE  ReservationsLive'
<1>1. /\ urgent_reservations'[m] = urgent_reservations[m] \ {t}
      /\ \A n \in Machines : n # m => urgent_reservations'[n] = urgent_reservations[n]
  BY DEF Enqueue, TypeInv, TypeOK
<1>2. \A n \in Machines : urgent_reservations'[n] \subseteq urgent_reservations[n] \ {t}
  BY <1>1 DEF ReservationsLive
<1> QED  BY <1>2, ReservationsKept

LEMMA ReservationsRequest ==
  ASSUME TypeInv, FlowInv, ReservationsLive, NEW o \in Ops, NEW m \in Machines,
         RequestTransfer(o, m)
  PROVE  ReservationsLive'
<1>1. /\ ~transfer_requested[o]
      /\ assigned_machine' = [assigned_machine EXCEPT ![o] = m]
      /\ buffered_tasks' = buffered_tasks \cup {o}
      /\ UNCHANGED <<transfers_to_assign, active_transfers>>
  BY DEF RequestTransfer
<1>2. \A n \in Machines : \A q \in urgent_reservations'[n] :
        q \in urgent_reservations[n] \/ (q = o /\ n = m /\ IsUrgent(o))
  <2>1. CASE IsUrgent(o)
    <3>1. urgent_reservations' = [urgent_reservations EXCEPT ![m] = @ \cup {o}]
      BY <2>1 DEF RequestTransfer, ReserveForUrgentTransfer
    <3> QED  BY <2>1, <3>1 DEF TypeInv, TypeOK
  <2>2. CASE ~IsUrgent(o)
    BY <2>2 DEF RequestTransfer, ReserveForUrgentTransfer
  <2> QED  BY <2>1, <2>2
<1>3. o \notin Open  BY <1>1 DEF FlowInv, OpenIsAhead
<1>4. /\ assigned_machine'[o] = m
      /\ \A q \in Ops : q # o => assigned_machine'[q] = assigned_machine[q]
  BY <1>1 DEF TypeInv, TypeOK
<1>5. \A n \in Machines : urgent_reservations[n] \subseteq Ops
  BY DEF TypeInv, TypeOK
<1> SUFFICES ASSUME NEW n \in Machines, NEW q \in urgent_reservations'[n]
             PROVE  /\ IsUrgent(q) /\ assigned_machine'[q] = n
                    /\ q \in buffered_tasks' \cup transfers_to_assign' \cup active_transfers'
  BY DEF ReservationsLive, IsUrgent
<1>6. CASE q = o /\ n = m /\ IsUrgent(o)  BY <1>1, <1>4, <1>6
<1>7. CASE q \in urgent_reservations[n]
  <2>1. IsUrgent(q) /\ assigned_machine[q] = n /\ q \in Open /\ q \in Ops
    BY <1>5, <1>7 DEF ReservationsLive, Open, Moving
  <2> QED  BY <1>1, <1>3, <1>4, <2>1 DEF Open, Moving
<1> QED  BY <1>2, <1>6, <1>7

LEMMA ReservationsReschedule ==
  ASSUME TypeInv, FlowInv, ReservationsLive, Reschedule
  PROVE  ReservationsLive'
<1>1. PICK C \in SUBSET {o \in Ops : status[o] = "PENDING"},
           R \in SUBSET {a \in AGVs : agv_task[a] # None} :
             \E queues \in NewQueues(C) : ApplyReschedule(C, R, queues)
  BY DEF Reschedule
<1> DEFINE freed == R \cup {a \in AGVs : agv_task[a] \in C}
           back  == {agv_task[a] : a \in freed}
<1>2. /\ active_transfers' = active_transfers \ back
      /\ transfers_to_assign' = (transfers_to_assign \cup back) \ C
      /\ buffered_tasks' = buffered_tasks \ C
      /\ urgent_reservations' = [m \in Machines |-> urgent_reservations[m] \ C]
      /\ assigned_machine' =
           [o \in Ops |-> IF o \in C THEN None ELSE assigned_machine[o]]
  BY <1>1 DEF ApplyReschedule
<1> HIDE DEF back
<1>3. \A m \in Machines : urgent_reservations'[m] = urgent_reservations[m] \ C
  BY <1>2
<1>4. \A q \in Open : q \notin C => q \in Open'  BY <1>2 DEF Open, Moving
<1>5. \A m \in Machines : urgent_reservations[m] \subseteq Ops
  BY DEF TypeInv, TypeOK
<1>6. \A q \in Ops : q \notin C => assigned_machine'[q] = assigned_machine[q]
  BY <1>2
<1> QED  BY <1>3, <1>4, <1>5, <1>6, ReservationsKept

\* A delivery, for the services and the reservations.
LEMMA FairDeliver ==
  ASSUME TypeInv, FlowInv, ServiceInv, ReservationsLive,
         NEW a \in AGVs, agv_task[a] # None, Deliver(a)
  PROVE  ServiceInv' /\ ReservationsLive'
<1> DEFINE t == agv_task[a]
           m == assigned_machine[t]
<1>1. /\ t \in Tasks /\ t \in active_transfers /\ t \in Open
      /\ Open' = Open \ {t}
  <2>1. t \in Tasks /\ t \in active_transfers  BY OwnTask
  <2>2. /\ active_transfers' = active_transfers \ {t}
        /\ UNCHANGED <<buffered_tasks, transfers_to_assign>>
    BY DEF Deliver
  <2>3. t \notin buffered_tasks /\ t \notin transfers_to_assign
    BY <2>1 DEF FlowInv, Owners, Moving
  <2> QED  BY <2>1, <2>2, <2>3 DEF Open, Moving
<1>2. UNCHANGED <<status, proc_time, remaining, processed, workVars, assigned_machine>>
  BY DEF Deliver
<1>3. CASE IsShipping(t)
  <2>1. UNCHANGED <<sampled, urgent_reservations>>  BY <1>3 DEF Deliver
  <2>2. ServiceInv'  BY <1>2, <2>1, ServiceQuiet
  <2>3. \A n \in Machines : t \notin urgent_reservations[n]
    BY <1>1, <1>3, TaskFacts DEF TypeInv, TypeOK
  <2> QED  BY <1>1, <1>2, <2>1, <2>2, <2>3, ReservationsKept
<1>4. CASE ~IsShipping(t)
  <2>1. Enqueue(t, m)  BY <1>4 DEF Deliver
  <2>2. t \in Ops /\ m \in Machines
    BY <1>1, <1>4, TaskFacts DEF TypeInv, Committed
  <2>3. sampled' = [sampled EXCEPT ![t] = 0]  BY <2>1 DEF Enqueue
  <2> QED  BY <1>1, <1>2, <2>1, <2>2, <2>3, ServiceEnqueue, ReservationsEnqueue
<1> QED  BY <1>3, <1>4

LEMMA FairAdmit ==
  ASSUME TypeInv, FlowInv, ServiceInv, ReservationsLive,
         NEW t \in Tasks, AdmitWithoutTransport(t)
  PROVE  ServiceInv' /\ ReservationsLive'
<1> DEFINE m == assigned_machine[t]
<1>1. /\ t \in buffered_tasks /\ t \in Ops /\ Enqueue(t, m)
      /\ buffered_tasks' = buffered_tasks \ {t}
      /\ UNCHANGED <<status, proc_time, remaining, processed, workVars,
                     assigned_machine, transfers_to_assign, active_transfers>>
  BY TaskFacts DEF AdmitWithoutTransport, AtDestination, TypeInv, Committed
<1>2. m \in Machines  BY <1>1 DEF TypeInv, Committed
<1>3. t \in Open /\ Open' = Open \ {t}
  BY <1>1 DEF Open, Moving, FlowInv, Owners
<1>4. sampled' = [sampled EXCEPT ![t] = 0]  BY <1>1 DEF Enqueue
<1> QED  BY <1>1, <1>2, <1>3, <1>4, ServiceEnqueue, ReservationsEnqueue

\* A machine's turn: service goes on, and what is coming keeps coming.
LEMMA FairMachine ==
  ASSUME TypeInv, FlowInv, ServiceInv, ReservationsLive, NEW m \in Machines, Machine(m)
  PROVE  ServiceInv' /\ ReservationsLive'
<1>1. ServiceInv'
  <2>1. CASE HoldForUrgent(m) \/ Deactivate(m)
    BY <2>1, ServiceQuiet DEF HoldForUrgent, Deactivate
  <2>2. CASE StartQueued(m)
    <3>1. PICK i \in DOMAIN input_queue[m] : Begin(input_queue[m][i], m)
      BY <2>2 DEF StartQueued
    <3>2. input_queue[m][i] \in Queued(m)  BY DEF Queued, Range
    <3>3. input_queue[m][i] \in Ops  BY <3>2, RangeInOps
    <3> QED  BY <3>1, <3>2, <3>3, ServiceBegin
  <2>3. CASE ResumeSuspended(m)
    <3>1. suspended_ops[m] # <<>> /\ Begin(Head(suspended_ops[m]), m)
      BY <2>3 DEF ResumeSuspended
    <3>2. /\ suspended_ops[m] \in Seq(Ops)
          /\ Distinct(suspended_ops[m])
      BY DEF TypeInv, TypeOK, FlowInv, Servicing, Distinct
    <3>3. Head(suspended_ops[m]) \in Suspended(m)
      BY <3>1, <3>2, RangeTail DEF Suspended
    <3>4. Head(suspended_ops[m]) \in Ops  BY <3>3, RangeInOps
    <3> QED  BY <3>1, <3>3, <3>4, ServiceBegin
  <2> QED  BY <2>1, <2>2, <2>3, ServiceContinue, ServiceRelease DEF Machine
<1>2. /\ UNCHANGED <<urgent_reservations, assigned_machine, transfers_to_assign,
                     active_transfers>>
      /\ buffered_tasks \subseteq buffered_tasks'
  <2>1. CASE RetryRelease(m)
    BY <2>1 DEF RetryRelease, ReleaseFinished
  <2>2. CASE ContinueOperation(m)
    BY <2>2 DEF ContinueOperation, Serve, ReleaseFinished
  <2>3. CASE StartQueued(m)
    BY <2>3 DEF StartQueued, Begin, Serve, ReleaseFinished
  <2>4. CASE ResumeSuspended(m)
    BY <2>4 DEF ResumeSuspended, Begin, Serve, ReleaseFinished
  <2>5. CASE HoldForUrgent(m) \/ Deactivate(m)
    BY <2>5 DEF HoldForUrgent, Deactivate
  <2> QED  BY <2>1, <2>2, <2>3, <2>4, <2>5 DEF Machine
<1>3. ReservationsLive'  BY <1>2, ReservationsQuiet DEF Open, Moving
<1> QED  BY <1>1, <1>3

LEMMA FairNext ==
  TypeInv /\ FlowInv /\ ServiceInv /\ ReservationsLive /\ [Next]_vars
    => ServiceInv' /\ ReservationsLive'
<1> SUFFICES ASSUME TypeInv, FlowInv, ServiceInv, ReservationsLive, [Next]_vars
             PROVE  ServiceInv' /\ ReservationsLive'
  OBVIOUS
<1>0. ASSUME UNCHANGED <<serviceVars, workVars, urgent_reservations,
                         assigned_machine>>,
             Open \subseteq Open'
      PROVE  ServiceInv' /\ ReservationsLive'
  BY <1>0, ServiceQuiet, ReservationsQuiet
<1>1. CASE Plan
  <2>1. CASE Reschedule
    <3>1. UNCHANGED <<serviceVars, workVars>>
      BY <2>1 DEF Reschedule, ApplyReschedule
    <3> QED  BY <2>1, <3>1, ServiceQuiet, ReservationsReschedule
  <2>2. CASE \/ \E m \in Machines : BreakMachine(m) \/ RepairMachine(m)
             \/ \E a \in AGVs : BreakAgv(a) \/ RepairAgv(a)
    BY <1>0, <2>2
    DEF BreakMachine, RepairMachine, BreakAgv, RepairAgv, Open, Moving
  <2>3. ASSUME NEW o \in Ops, NEW m \in Machines, RequestTransfer(o, m)
        PROVE  ServiceInv' /\ ReservationsLive'
    <3>1. UNCHANGED <<proc_time, sampled, processed>>
      BY <2>3 DEF RequestTransfer
    <3>2. CASE Preemptable(m) /\ Suspend(m)
      BY <2>3, <3>1, <3>2, ServiceSuspend, ReservationsRequest
    <3>3. CASE UNCHANGED <<status, remaining, workVars>>
      BY <2>3, <3>1, <3>3, ServiceQuiet, ReservationsRequest
    <3> QED  BY <2>3, <3>2, <3>3 DEF RequestTransfer, ReserveForUrgentTransfer
  <2> QED  BY <1>1, <2>1, <2>2, <2>3 DEF Plan
<1>2. CASE Dispatch
  <2>1. CASE BeginTaskStep \/ BeginAssign \/ \E t \in Tasks : KeepBuffered(t)
    BY <1>0, <2>1 DEF BeginTaskStep, BeginAssign, KeepBuffered, Open, Moving
  <2>2. ASSUME NEW t \in Tasks, OfferTask(t)
        PROVE  ServiceInv' /\ ReservationsLive'
    BY <1>0, <2>2 DEF OfferTask, Open, Moving
  <2>3. ASSUME NEW a \in AGVs, NEW t \in Tasks, AssignTransfer(a, t)
        PROVE  ServiceInv' /\ ReservationsLive'
    BY <1>0, <2>3 DEF AssignTransfer, Activate, Open, Moving
  <2> QED  BY <1>2, <2>1, <2>2, <2>3, FairAdmit DEF Dispatch
<1>3. CASE \E m \in Machines : Machine(m)  BY <1>3, FairMachine
<1>4. CASE Transport
  <2>1. CASE BeginSettle \/ EndStep \/ \E next \in [AGVs -> Cells] : Move(next)
    BY <1>0, <2>1 DEF BeginSettle, EndStep, Move, Open, Moving
  <2>2. ASSUME NEW a \in AGVs, Vehicle(a)
        PROVE  ServiceInv' /\ ReservationsLive'
    <3>1. CASE SettleWaits(a) \/ StartPickup(a) \/ StartDropoff(a) \/ KeepHandling(a)
      BY <1>0, <3>1
      DEF SettleWaits, StartPickup, StartDropoff, KeepHandling, Open, Moving
    <3>2. CASE PickupAtOnce(a) \/ CompletePickup(a)
      BY <1>0, <3>2 DEF PickupAtOnce, CompletePickup, FinishPickup, Open, Moving
    <3>3. CASE DropoffAtOnce(a) \/ CompleteDropoff(a)
      <4>1. FinishDropoff(a) /\ agv_task[a] # None
        BY <3>3
        DEF DropoffAtOnce, CompleteDropoff, AtDropoff, TypeInv, VehiclePhase
      <4>2. CASE Deliver(a)  BY <4>1, <4>2, FairDeliver
      <4>3. CASE ~Deliver(a)
        BY <1>0, <4>1, <4>3 DEF FinishDropoff, Open, Moving
      <4> QED  BY <4>2, <4>3
    <3> QED  BY <2>2, <3>1, <3>2, <3>3 DEF Vehicle
  <2> QED  BY <1>4, <2>1, <2>2 DEF Transport
<1>5. CASE BeginMachines \/ UNCHANGED vars
  BY <1>0, <1>5 DEF BeginMachines, vars, Open, Moving
<1> QED  BY <1>1, <1>2, <1>3, <1>4, <1>5 DEF Next

\* An interrupted operation gets all of the time sampled for it when it first
\* started and no more, over any number of interruptions; and a machine is
\* kept free only for an urgent workpiece that is really on its way to it.
THEOREM PreemptionKeepsItsWord == Spec => []PreemptionIsFair
<1>1. Init => ServiceInv /\ ReservationsLive
  BY DEF Init, ServiceInv, Progress, ServiceConserved, ReservationsLive
<1>2. TypeInv /\ FlowInv /\ (ServiceInv /\ ReservationsLive) /\ [Next]_vars
        => (ServiceInv /\ ReservationsLive)'
  BY FairNext
<1>3. ServiceInv /\ ReservationsLive => PreemptionIsFair
  BY DEF ServiceInv, PreemptionIsFair
<1> QED  BY <1>1, <1>2, <1>3, FlowHolds, PTL DEF Spec
=============================================================================
