---------------------------- MODULE FloorProofs ----------------------------
(* What holds of the shop floors whatever comes from outside: that the     *)
(* packet factory keeps every operation in one place, for any number of    *)
(* AGVs, machines, jobs and commands; and that in the grid factory no      *)
(* obstacle closes a way and every event takes effect, on any floor.       *)
EXTENDS MCFloors, Integers, FiniteSetTheorems, SequenceTheorems,
        WellFoundedInduction, TLAPS

Here(o) == operations[o].current_machine
Status(o) == operations[o].status

\* The kinds of events and what they are for.
Commanded ==
  ({"restart", "pause", "run"} \X {Nothing}) \cup ({"fail agv", "recover agv"} \X Carts)
    \cup ({"fail machine", "recover machine"} \X Stations) \cup ({"add job"} \X Templates)

CartStatus == {"READY", "ASSIGNED", "LOADED", "EXCEPTION"}
MachineStatus == {"READY", "WORKING", "FAILED"}
OpStatus == {"WAITING", "READY", "MOVING", "WORKING", "FINISHED"}

Named == {Nothing} \cup Carts \cup Stations \cup Templates

CommandsTyped ==
  /\ ready_events \in Seq(Commanded) /\ lag \in {0, 1}
  /\ buffered \in [ToSet(AllKinds) -> Seq(Named)]
  /\ \A kind \in ToSet(AllKinds) : \A i \in DOMAIN buffered[kind] :
       <<kind, buffered[kind][i]>> \in Commanded

Passages == CartStatus \X (DOMAIN Travel) \X Int
OperationType ==
  [status : OpStatus, process_time : Nat, current_machine : Stations \cup {Nothing}]
MachineType ==
  [status : MachineStatus, input_queue : Seq(Ops), output_queue : SUBSET Ops,
   history : Seq(MachineStatus)]
CartType ==
  [status : CartStatus, point : DOMAIN Travel, gone : Int, operation : Ops \cup {Nothing},
   todo : Seq(Ops \X Stations),
   running : Seq(({"load"} \X Ops) \cup ({"unload"} \X Stations)),
   time_left : Int, history : Seq(Passages)]

WorkTyped ==
  /\ job_list \in Seq(Templates)
  /\ operations \in [Ops -> OperationType]
  /\ machines \in [Stations -> MachineType]
  /\ agvs \in [Carts -> CartType]

At(o, queues, places, carts, fetching) ==
  Queued(o) = queues /\ SetDown(o) = places /\ Aboard(o) = carts /\ Fetching(o) = fetching

\* An operation waits as long as its predecessor is not finished.
InTurn(o) == Status(o) = "WAITING" <=> (o[2] > 1 /\ Status(Predecessor(o)) # "FINISHED")

\* Where an operation is, by its status, and what has been processed of it.
InPlace(o) ==
  /\ Status(o) \in {"WAITING", "FINISHED"} => At(o, {}, {}, {}, {}) /\ Here(o) = Nothing
  /\ Status(o) = "READY" =>
       /\ At(o, {}, IF Here(o) = Nothing THEN {} ELSE {Here(o)}, {}, {})
       /\ Here(o) = Nothing <=> o[2] = 1
  /\ Status(o) = "MOVING" =>
       \E a \in Carts :
         \/ At(o, {}, {}, {a}, {}) /\ Here(o) = Nothing /\ Doing(a, "unload")
         \/ At(o, {}, {Here(o)}, {}, {a}) /\ Here(o) # Nothing
  /\ Status(o) = "WORKING" =>
       Here(o) # Nothing /\ At(o, {Here(o)}, {}, {}, {})
         /\ operations[o].process_time < Duration(o, Here(o))
  /\ Status(o) \in {"WAITING", "READY", "MOVING"} => operations[o].process_time = 0

\* No queue has an operation twice.
NoneTwice(m) ==
  \A i, j \in DOMAIN machines[m].input_queue :
    machines[m].input_queue[i] = machines[m].input_queue[j] => i = j

\* What an AGV is about.
Charged(a) ==
  \/ agvs[a].running = <<>> /\ agvs[a].operation = Nothing
  \/ \E m \in Stations :
       /\ agvs[a].running = <<<<"unload", m>>>>
       /\ agvs[a].operation \in Ops /\ Duration(agvs[a].operation, m) > 0
  \/ \E m \in Stations, o \in Ops :
       /\ agvs[a].running = <<<<"load", o>>, <<"unload", m>>>>
       /\ agvs[a].operation = Nothing /\ Duration(o, m) > 0

\* What it has been told to do: what nobody else was told, nobody has begun, and the
\* machine can process.
Told(a) ==
  \A i \in DOMAIN agvs[a].todo :
    LET o == agvs[a].todo[i][1] IN
    /\ Unstarted(o) /\ Duration(o, agvs[a].todo[i][2]) > 0
    /\ \A b \in Carts : \A j \in DOMAIN agvs[b].todo :
         agvs[b].todo[j][1] = o => a = b /\ i = j

OperationsHold == \A o \in Ops : InTurn(o) /\ InPlace(o)
PlacesHold == (\A m \in Stations : NoneTwice(m)) /\ (\A a \in Carts : Charged(a) /\ Told(a))

WorkInv == WorkTyped /\ OperationsHold /\ PlacesHold
PacketInv == CommandsTyped /\ WorkInv

-----------------------------------------------------------------------------
(* Numbers, and sums along a sequence.                                     *)

\* Induction, as the least number of a set.
LEMMA LeastNumber ==
  ASSUME NEW T, T \subseteq Nat, T # {}
  PROVE  \E x \in T : \A y \in T : x <= y
<1>1. PICK x \in T : \A y \in T : ~(<<y, x>> \in OpToRel(<, Nat))
  BY NatLessThanWellFounded, WFMin
<1>2. x \in Nat /\ \A y \in T : y \in Nat /\ ~(y < x)
  BY <1>1 DEF OpToRel
<1>3. \A y \in T : x <= y
  BY <1>2
<1> QED BY <1>1, <1>3

\* A set that goes on from 1 as far as it goes.
LEMMA Initial ==
  ASSUME NEW n \in Nat, NEW C, C \subseteq 1..n,
         \A i \in C, j \in 1..n : j < i => j \in C
  PROVE  Cardinality(C) \in 0..n /\ C = 1..Cardinality(C)
<1> DEFINE T == {i \in Nat : i >= 1 /\ i \notin C}
<1>1. T # {} /\ T \subseteq Nat
  <2>1. n + 1 \in T
    OBVIOUS
  <2> QED BY <2>1
<1>2. PICK i \in T : \A j \in T : i <= j
  <2> HIDE DEF T
  <2> QED BY <1>1, LeastNumber
<1>3. i \in Nat /\ i >= 1 /\ i \notin C
  BY <1>2
<1>4. \A j \in C : j < i
  BY <1>3
<1>5. \A j \in 1..(i - 1) : j \in C
  BY <1>2, <1>3
<1>6. C = 1..(i - 1)
  <2>1. \A j \in C : j \in 1..(i - 1)
    BY <1>3, <1>4
  <2> QED BY <1>5, <2>1
<1>7. Cardinality(C) = i - 1
  BY <1>3, <1>6, FS_Interval
<1>8. i - 1 <= n
  BY <1>3, <1>5
<1> QED BY <1>3, <1>6, <1>7, <1>8

\* A sum defined by recursion is there, and is one.
LEMMA SumExists ==
  ASSUME NEW n \in Nat, NEW d, \A i \in 1..n : d[i] \in Nat
  PROVE  \E f : f = [i \in 0..n |-> IF i = 0 THEN 0 ELSE f[i - 1] + d[i]]
<1> DEFINE Sums(k, f) ==
      /\ \A i \in 0..k : f[i] \in Nat
      /\ f[0] = 0 /\ \A i \in 1..k : f[i] = f[i - 1] + d[i]
<1> DEFINE T == {k \in 0..n : ~\E f : f = [i \in 0..k |-> f[i]] /\ Sums(k, f)}
<1>1. T = {}
  <2> SUFFICES ASSUME T # {} PROVE FALSE
    OBVIOUS
  <2>1. PICK k \in T : \A y \in T : k <= y
    <3>1. T \subseteq Nat
      OBVIOUS
    <3> HIDE DEF T
    <3> QED BY <3>1, LeastNumber
  <2>2. k \in 0..n /\ ~\E f : f = [i \in 0..k |-> f[i]] /\ Sums(k, f)
    BY <2>1
  <2>3. k # 0
    <3> DEFINE f == [i \in 0..0 |-> 0]
    <3>1. f = [i \in 0..0 |-> f[i]] /\ Sums(0, f)
      OBVIOUS
    <3> QED BY <2>2, <3>1
  <2>4. k - 1 \in 0..n /\ k - 1 \notin T
    BY <2>1, <2>2, <2>3
  <2>5. PICK f : f = [i \in 0..(k - 1) |-> f[i]] /\ Sums(k - 1, f)
    BY <2>4
  <2> DEFINE g == [i \in 0..k |-> IF i = k THEN f[k - 1] + d[k] ELSE f[i]]
  <2>6. Sums(k, g)
    <3>0. /\ \A i \in 0..(k - 1) : f[i] \in Nat
          /\ f[0] = 0 /\ \A i \in 1..(k - 1) : f[i] = f[i - 1] + d[i]
      BY <2>5
    <3>a. \A i \in 0..(k - 1) : g[i] = f[i]
      BY <2>2, <2>3
    <3>b. g[k] = f[k - 1] + d[k]
      BY <2>2
    <3>1. /\ \A i \in 0..(k - 1) : g[i] = f[i] /\ f[i] \in Nat
          /\ f[0] = 0 /\ \A i \in 1..(k - 1) : f[i] = f[i - 1] + d[i]
          /\ g[k] = f[k - 1] + d[k]
      BY <3>0, <3>a, <3>b
    <3> HIDE DEF g
    <3>2. \A i \in 0..k : i \in 0..(k - 1) \/ i = k
      BY <2>2, <2>3
    <3>3. k \in 1..n /\ d[k] \in Nat /\ k - 1 \in 0..(k - 1) /\ 0 \in 0..(k - 1)
      BY <2>2, <2>3
    <3>4. \A i \in 0..k : g[i] \in Nat
      BY <3>1, <3>2, <3>3
    <3>5. \A i \in 1..k : g[i] = g[i - 1] + d[i]
      <4> TAKE i \in 1..k
      <4>1. CASE i = k
        BY <3>1, <3>3, <4>1
      <4>2. CASE i \in 1..(k - 1)
        <5>1. i - 1 \in 0..(k - 1) /\ i \in 0..(k - 1)
          BY <3>3, <4>2
        <5> QED BY <3>1, <4>2, <5>1
      <4> QED BY <3>3, <4>1, <4>2
    <3>6. g[0] = 0
      BY <3>1, <3>3
    <3> QED BY <3>4, <3>5, <3>6
  <2>7. g = [i \in 0..k |-> g[i]]
    OBVIOUS
  <2> HIDE DEF g, Sums
  <2> QED BY <2>2, <2>6, <2>7
<1>2. n \notin T
  BY <1>1
<1>3. PICK f : f = [i \in 0..n |-> f[i]] /\ Sums(n, f)
  BY <1>2
<1>4. f = [i \in 0..n |-> IF i = 0 THEN 0 ELSE f[i - 1] + d[i]]
  <2>0. f[0] = 0 /\ \A i \in 1..n : f[i] = f[i - 1] + d[i]
    BY <1>3
  <2>1. \A i \in 0..n : f[i] = IF i = 0 THEN 0 ELSE f[i - 1] + d[i]
    <3> TAKE i \in 0..n
    <3>1. i = 0 \/ (i \in 1..n /\ i # 0)
      OBVIOUS
    <3> QED BY <2>0, <3>1
  <2>2. [i \in 0..n |-> f[i]] = [i \in 0..n |-> IF i = 0 THEN 0 ELSE f[i - 1] + d[i]]
    BY <2>1
  <2> QED BY <1>3, <2>2
<1> QED BY <1>4

LEMMA SumIs ==
  ASSUME NEW n \in Nat, NEW d, \A i \in 1..n : d[i] \in Nat,
         NEW s, \A i \in 0..n : s[i] = IF i = 0 THEN 0 ELSE s[i - 1] + d[i]
  PROVE  /\ \A i \in 0..n : s[i] \in Nat
         /\ s[0] = 0 /\ \A i \in 1..n : s[i] = s[i - 1] + d[i]
<1>1. s[0] = 0 /\ \A i \in 1..n : s[i] = s[i - 1] + d[i]
  OBVIOUS
<1> DEFINE N == {i \in 0..n : s[i] \notin Nat}
<1>2. N = {}
  <2> SUFFICES ASSUME N # {} PROVE FALSE
    OBVIOUS
  <2>1. PICK k \in N : \A y \in N : k <= y
    <3>1. N \subseteq Nat
      OBVIOUS
    <3> HIDE DEF N
    <3> QED BY <3>1, LeastNumber
  <2>2. k \in 1..n
    BY <1>1, <2>1
  <2>3. k - 1 \in 0..n /\ k - 1 \notin N
    BY <2>1, <2>2
  <2> QED BY <1>1, <2>1, <2>2, <2>3
<1> QED BY <1>1, <1>2

-----------------------------------------------------------------------------
(* The operations of the jobs.                                             *)

LEMMA OpsAre ==
  ASSUME job_list \in Seq(Templates), NEW o \in Ops
  PROVE  /\ o[1] \in 1..Len(job_list) /\ o[2] \in 1..NumOf(job_list[o[1]])
         /\ o[2] \in Nat /\ o[2] >= 1 /\ o = <<o[1], o[2]>> /\ o # Nothing
         /\ o[2] > 1 => Predecessor(o) \in Ops /\ Successor(Predecessor(o)) = o
         /\ \A m \in Stations : Duration(o, m) \in Nat
<1>1. PICK k \in 1..Len(job_list) : \E i \in 1..NumOf(job_list[k]) : o = <<k, i>>
  BY DEF Ops, OpsIn
<1>2. PICK i \in 1..NumOf(job_list[k]) : o = <<k, i>>
  BY <1>1
<1>3. job_list[k] \in Templates /\ Operations[job_list[k]] \in Seq([Stations -> Nat])
  BY PacketConstants
<1>4. NumOf(job_list[k]) \in Nat /\ k \in Nat /\ i \in Nat /\ i >= 1
  BY <1>3, <1>2 DEF NumOf
<1>5. o # Nothing
  BY <1>2, <1>4, PacketConstants
<1>6. ASSUME i > 1 PROVE Predecessor(o) \in Ops /\ Successor(Predecessor(o)) = o
  <2>1. i - 1 \in 1..NumOf(job_list[k]) /\ i - 1 + 1 = i
    BY <1>2, <1>4, <1>6
  <2> QED BY <1>2, <2>1 DEF Ops, OpsIn, Predecessor, Successor
<1>7. \A m \in Stations : Duration(o, m) \in Nat
  BY <1>2, <1>3 DEF Duration, NumOf
<1> QED BY <1>1, <1>2, <1>4, <1>5, <1>6, <1>7

LEMMA SuccessorIs ==
  ASSUME job_list \in Seq(Templates), NEW o \in Ops, NEW p \in Ops
  PROVE  Successor(p) = o <=> o[2] > 1 /\ p = Predecessor(o)
<1>1. /\ o[2] \in Nat /\ o = <<o[1], o[2]>>
      /\ p[2] \in Nat /\ p[2] >= 1 /\ p = <<p[1], p[2]>>
  BY OpsAre
<1>2. ASSUME Successor(p) = o PROVE o[2] > 1 /\ p = Predecessor(o)
  <2>1. o[1] = p[1] /\ o[2] = p[2] + 1
    BY <1>2 DEF Successor
  <2>2. o[2] - 1 = p[2]
    BY <1>1, <2>1
  <2> QED BY <1>1, <2>1, <2>2 DEF Predecessor
<1>3. ASSUME o[2] > 1, p = Predecessor(o) PROVE Successor(p) = o
  BY <1>3, OpsAre
<1> QED BY <1>2, <1>3

-----------------------------------------------------------------------------
(* A slice of time of the machines.                                        *)

\* What is in a queue is at work there and there alone.
LEMMA QueueIs ==
  ASSUME WorkInv, NEW m \in Stations, NEW q, q = machines[m].input_queue
  PROVE  /\ q \in Seq(Ops) /\ Len(q) \in Nat /\ DOMAIN q = 1..Len(q)
         /\ \A i \in 1..Len(q) :
              /\ q[i] \in Ops /\ Status(q[i]) = "WORKING" /\ Here(q[i]) = m
              /\ At(q[i], {m}, {}, {}, {})
              /\ operations[q[i]].process_time \in Nat /\ Duration(q[i], m) \in Nat
              /\ operations[q[i]].process_time < Duration(q[i], m)
         /\ \A i, j \in 1..Len(q) : q[i] = q[j] => i = j
<1>1. q \in Seq(Ops) /\ Len(q) \in Nat /\ DOMAIN q = 1..Len(q)
  BY DEF WorkInv, WorkTyped, CartType, MachineType
<1>2. \A i, j \in 1..Len(q) : q[i] = q[j] => i = j
  BY <1>1 DEF WorkInv, PlacesHold, NoneTwice
<1>3. ASSUME NEW i \in 1..Len(q)
      PROVE  /\ q[i] \in Ops /\ Status(q[i]) = "WORKING" /\ Here(q[i]) = m
             /\ At(q[i], {m}, {}, {}, {})
             /\ operations[q[i]].process_time \in Nat /\ Duration(q[i], m) \in Nat
             /\ operations[q[i]].process_time < Duration(q[i], m)
  <2> DEFINE o == q[i]
  <2>1. o \in Ops
    BY <1>1, <1>3
  <2>2. m \in Queued(o)
    BY <1>1, <1>3 DEF Queued, ToSet
  <2>3. InPlace(o) /\ Status(o) \in OpStatus
    BY <2>1 DEF WorkInv, WorkTyped, OperationType, OperationsHold, Status
  <2>4. Queued(o) # {}
    BY <2>2
  <2>5. Status(o) = "WORKING"
    BY <2>3, <2>4 DEF InPlace, At, OpStatus
  <2>6. Here(o) = m
    BY <2>2, <2>3, <2>5 DEF InPlace, At
  <2>7. operations[o].process_time \in Nat
    BY <2>1 DEF WorkInv, WorkTyped, OperationType
  <2>8. Duration(o, m) \in Nat
    BY <2>1, OpsAre DEF WorkInv, WorkTyped
  <2> QED BY <2>1, <2>3, <2>5, <2>6, <2>7, <2>8 DEF InPlace
<1> QED BY <1>1, <1>2, <1>3

\* After adds up what is left of each.
LEMMA AfterIs ==
  ASSUME WorkInv, NEW m \in Stations, NEW q, q = machines[m].input_queue
  PROVE  /\ \A i \in 0..Len(q) : After(m)[i] \in Nat
         /\ After(m)[0] = 0
         /\ \A i \in 1..Len(q) :
              After(m)[i] = After(m)[i - 1] + (Duration(q[i], m) - operations[q[i]].process_time)
<1> DEFINE n == Len(q)
           left(i) == Duration(q[i], m) - operations[q[i]].process_time
           d == [i \in 1..n |-> left(i)]
<1>1. n \in Nat /\ \A i \in 1..n : left(i) \in Nat
  <2>1. n \in Nat
    BY QueueIs
  <2>2. ASSUME NEW i \in 1..n PROVE left(i) \in Nat
    <3>1. /\ operations[q[i]].process_time \in Nat /\ Duration(q[i], m) \in Nat
          /\ operations[q[i]].process_time < Duration(q[i], m)
      BY QueueIs
    <3> QED BY <3>1
  <2> QED BY <2>1, <2>2
<1>2. \A i \in 1..n : d[i] = left(i)
  OBVIOUS
<1>3. After(m) = CHOOSE f : f = [i \in 0..n |-> IF i = 0 THEN 0 ELSE f[i - 1] + left(i)]
  BY DEF After
<1> HIDE DEF n, d, left
<1>4. PICK f : f = [i \in 0..n |-> IF i = 0 THEN 0 ELSE f[i - 1] + d[i]]
  BY <1>1, <1>2, SumExists
<1>5. ASSUME NEW g
      PROVE  [i \in 0..n |-> IF i = 0 THEN 0 ELSE g[i - 1] + d[i]]
               = [i \in 0..n |-> IF i = 0 THEN 0 ELSE g[i - 1] + left(i)]
  <2>1. \A i \in 0..n : i = 0 \/ (i # 0 /\ d[i] = left(i))
    BY <1>1, <1>2
  <2> QED BY <2>1
<1>6. f = [i \in 0..n |-> IF i = 0 THEN 0 ELSE f[i - 1] + left(i)]
  BY <1>4, <1>5
<1>7. After(m) = [i \in 0..n |-> IF i = 0 THEN 0 ELSE After(m)[i - 1] + left(i)]
  BY <1>3, <1>6
<1>8. After(m) = [i \in 0..n |-> IF i = 0 THEN 0 ELSE After(m)[i - 1] + d[i]]
  BY <1>5, <1>7
<1>9. /\ \A i \in 0..n : After(m)[i] \in Nat
      /\ After(m)[0] = 0 /\ \A i \in 1..n : After(m)[i] = After(m)[i - 1] + d[i]
  <2> DEFINE s == After(m)
  <2>1. \A i \in 1..n : d[i] \in Nat
    BY <1>1, <1>2
  <2> DEFINE g == [i \in 0..n |-> IF i = 0 THEN 0 ELSE s[i - 1] + d[i]]
  <2>2. s = g /\ \A i \in 0..n : g[i] = IF i = 0 THEN 0 ELSE s[i - 1] + d[i]
    BY <1>8
  <2> HIDE DEF s, g
  <2>3. /\ \A i \in 0..n : s[i] \in Nat
        /\ s[0] = 0 /\ \A i \in 1..n : s[i] = s[i - 1] + d[i]
    BY <1>1, <2>1, <2>2, SumIs
  <2> QED BY <2>3 DEF s
<1> QED BY <1>2, <1>9 DEF n, left

\* A slice completes the first operations of the queue, and begins at most the next.
LEMMA SliceIs ==
  ASSUME WorkInv, NEW m \in Stations, NEW q, q = machines[m].input_queue,
         NEW k, k = Cardinality(Completed(m))
  PROVE  /\ k \in 0..Len(q) /\ Completed(m) = 1..k
         /\ Served(m) = {q[i] : i \in 1..k}
         /\ \A o \in Begun(m) :
              k < Len(q) /\ o = q[k + 1] /\ Processed(m) \in Nat /\ Processed(m) < Duration(o, m)
<1>1. q \in Seq(Ops) /\ Len(q) \in Nat /\ DOMAIN q = 1..Len(q)
  BY QueueIs
<1>2. /\ \A i \in 0..Len(q) : After(m)[i] \in Nat
      /\ After(m)[0] = 0
      /\ \A i \in 1..Len(q) :
           After(m)[i] = After(m)[i - 1] + (Duration(q[i], m) - operations[q[i]].process_time)
  BY AfterIs
<1>3. \A i \in 1..Len(q) :
        /\ operations[q[i]].process_time \in Nat /\ Duration(q[i], m) \in Nat
        /\ operations[q[i]].process_time < Duration(q[i], m)
  BY QueueIs
<1>4. \A i \in 1..Len(q) : i - 1 \in 0..Len(q) /\ After(m)[i - 1] <= After(m)[i]
  <2> TAKE i \in 1..Len(q)
  <2>1. i - 1 \in 0..Len(q) /\ i \in 0..Len(q)
    BY <1>1
  <2>2. /\ After(m)[i - 1] \in Nat /\ After(m)[i] \in Nat
        /\ After(m)[i] = After(m)[i - 1] + (Duration(q[i], m) - operations[q[i]].process_time)
    BY <1>2, <2>1
  <2>3. /\ operations[q[i]].process_time \in Nat /\ Duration(q[i], m) \in Nat
        /\ operations[q[i]].process_time < Duration(q[i], m)
    BY <1>3
  <2> QED BY <2>1, <2>2, <2>3
\* What comes sooner is done sooner.
<1>5. ASSUME NEW i \in 1..Len(q), NEW j \in 1..Len(q), j < i PROVE After(m)[j] <= After(m)[i]
  <2> DEFINE T == {x \in j..Len(q) : ~(After(m)[j] <= After(m)[x])}
  <2>1. T = {}
    <3> SUFFICES ASSUME T # {} PROVE FALSE
      OBVIOUS
    <3>1. PICK x \in T : \A y \in T : x <= y
      <4>1. T \subseteq Nat
        BY <1>1
      <4> HIDE DEF T
      <4> QED BY <4>1, LeastNumber
    <3>2. x \in 1..Len(q) /\ x >= j /\ ~(After(m)[j] <= After(m)[x])
      BY <1>1, <3>1
    <3>3. x # j
      <4>1. After(m)[j] \in Nat
        BY <1>1, <1>2
      <4> QED BY <3>2, <4>1
    <3>4. x - 1 \in j..Len(q) /\ ~(x <= x - 1)
      BY <1>1, <3>2, <3>3
    <3>5. After(m)[j] <= After(m)[x - 1]
      BY <3>1, <3>4
    <3>6. After(m)[j] \in Nat /\ After(m)[x - 1] \in Nat /\ After(m)[x] \in Nat
      BY <1>1, <1>2, <3>2, <3>4
    <3> QED BY <1>4, <3>2, <3>5, <3>6
  <2>2. i \in j..Len(q)
    BY <1>5
  <2> QED BY <2>1, <2>2
<1>6. k \in 0..Len(q) /\ Completed(m) = 1..k
  <2>1. Completed(m) \subseteq 1..Len(q)
    BY <1>1 DEF Completed
  <2>2. ASSUME NEW i \in Completed(m), NEW j \in 1..Len(q), j < i PROVE j \in Completed(m)
    <3>1. i \in 1..Len(q) /\ After(m)[i] <= Slice /\ Available(m)
      BY <1>1, <2>2 DEF Completed
    <3>2. After(m)[j] <= After(m)[i]
      BY <1>5, <2>2, <3>1
    <3>3. After(m)[j] \in Nat /\ After(m)[i] \in Nat /\ Slice \in Nat
      BY <1>1, <1>2, <3>1, PacketConstants
    <3>4. After(m)[j] <= Slice
      BY <3>1, <3>2, <3>3
    <3> QED BY <1>1, <3>1, <3>4 DEF Completed
  <2> QED BY <1>1, <2>1, <2>2, Initial
<1>7. Served(m) = {q[i] : i \in 1..k}
  BY <1>6 DEF Served
<1>8. ASSUME NEW o \in Begun(m)
      PROVE  k < Len(q) /\ o = q[k + 1] /\ Processed(m) \in Nat /\ Processed(m) < Duration(o, m)
  <2>1. Available(m) /\ k < Len(q) /\ o = q[k + 1]
    BY <1>8 DEF Begun
  <2>2. k + 1 \in 1..Len(q) /\ k + 1 \notin 1..k /\ k \in 0..Len(q) /\ k + 1 - 1 = k
    BY <1>1, <1>6, <2>1
  <2>3. ~(After(m)[k + 1] <= Slice)
    BY <1>1, <1>6, <2>1, <2>2 DEF Completed
  <2>4. After(m)[k] <= Slice
    <3>1. CASE k = 0
      BY <1>2, <3>1, PacketConstants
    <3>2. CASE k # 0
      <4>1. k \in 1..k
        BY <1>1, <1>6, <3>2
      <4>2. k \in Completed(m)
        BY <1>6, <4>1
      <4> QED BY <4>2 DEF Completed
    <3> QED BY <3>1, <3>2
  <2>5. /\ After(m)[k + 1] = After(m)[k] + (Duration(o, m) - operations[o].process_time)
        /\ After(m)[k] \in Nat /\ After(m)[k + 1] \in Nat /\ Slice \in Nat
        /\ operations[o].process_time \in Nat /\ Duration(o, m) \in Nat
    <3>1. k + 1 \in 0..Len(q) /\ Slice \in Nat
      BY <1>1, <2>2, PacketConstants
    <3>2. After(m)[k + 1] = After(m)[k] + (Duration(o, m) - operations[o].process_time)
      BY <1>2, <2>1, <2>2
    <3>3. After(m)[k] \in Nat /\ After(m)[k + 1] \in Nat
      BY <1>2, <2>2, <3>1
    <3>4. operations[o].process_time \in Nat /\ Duration(o, m) \in Nat
      BY <1>3, <2>1, <2>2
    <3> QED BY <3>1, <3>2, <3>3, <3>4
  <2>6. Processed(m) = operations[o].process_time + Slice - After(m)[k]
    BY <2>1 DEF Processed
  <2>7. Processed(m) \in Nat /\ Processed(m) < Duration(o, m)
    <3>1. \A p, x, y, d, l \in Nat :
            x <= l /\ ~(y <= l) /\ y = x + (d - p) => p + l - x \in Nat /\ p + l - x < d
      OBVIOUS
    <3> QED BY <2>3, <2>4, <2>5, <2>6, <3>1
  <2> QED BY <2>1, <2>7
<1> QED BY <1>6, <1>7, <1>8

LEMMA ServedIs ==
  ASSUME WorkInv, NEW m \in Stations, NEW o, o \in Served(m) \cup Begun(m)
  PROVE  /\ o \in Ops /\ Status(o) = "WORKING" /\ Here(o) = m
         /\ At(o, {m}, {}, {}, {})
         /\ o \in Begun(m) => o \notin Served(m)
<1> DEFINE q == machines[m].input_queue  k == Cardinality(Completed(m))
<1>1. k \in 0..Len(q) /\ Served(m) = {q[i] : i \in 1..k}
  BY SliceIs
<1>2. /\ Len(q) \in Nat
      /\ \A i \in 1..Len(q) : q[i] \in Ops /\ Status(q[i]) = "WORKING" /\ Here(q[i]) = m
                                /\ At(q[i], {m}, {}, {}, {})
      /\ \A i, j \in 1..Len(q) : q[i] = q[j] => i = j
  BY QueueIs
<1>3. o \in Begun(m) => k < Len(q) /\ o = q[k + 1]
  BY SliceIs
<1> HIDE DEF q, k
<1>4. CASE o \in Served(m) /\ o \notin Begun(m)
  <2>1. PICK i \in 1..k : o = q[i]
    BY <1>1, <1>4
  <2>2. i \in 1..Len(q)
    BY <1>1, <1>2
  <2> QED BY <1>2, <1>4, <2>1, <2>2
<1>5. CASE o \in Begun(m)
  <2>1. k + 1 \in 1..Len(q) /\ \A i \in 1..k : i \in 1..Len(q) /\ i # k + 1
    BY <1>1, <1>2, <1>3, <1>5
  <2>2. o \notin Served(m)
    BY <1>1, <1>2, <1>3, <1>5, <2>1
  <2> QED BY <1>2, <1>3, <1>5, <2>1, <2>2
<1> QED BY <1>4, <1>5

\* What a slice leaves in a queue.
LEMMA RestIs ==
  ASSUME WorkInv, MachinesWork, job_list' = job_list, NEW m \in Stations
  PROVE  /\ machines'[m].input_queue \in Seq(Ops)
         /\ \A o : o \in ToSet(machines'[m].input_queue)
                     <=> o \in ToSet(machines[m].input_queue) /\ o \notin Served(m)
         /\ NoneTwice(m)'
<1> DEFINE q == machines[m].input_queue  k == Cardinality(Completed(m))
           r == machines'[m].input_queue
<1>1. k \in 0..Len(q) /\ Served(m) = {q[i] : i \in 1..k}
  BY SliceIs
<1>2. /\ q \in Seq(Ops) /\ Len(q) \in Nat /\ DOMAIN q = 1..Len(q)
      /\ \A i, j \in 1..Len(q) : q[i] = q[j] => i = j
  BY QueueIs
<1>3. r = SubSeq(q, k + 1, Len(q))
  BY DEF MachinesWork, WorkInv, WorkTyped, CartType, MachineType
<1> HIDE DEF q, k, r
<1>4. /\ r \in Seq(Ops) /\ Len(r) = Len(q) - k /\ DOMAIN r = 1..(Len(q) - k)
      /\ \A i \in 1..(Len(q) - k) : r[i] = q[k + i]
  <2>1. k + 1 \in 1..(Len(q) + 1) /\ Len(q) \in ((k + 1) - 1)..Len(q)
    BY <1>1, <1>2
  <2>2. /\ r \in Seq(Ops) /\ Len(r) = Len(q) - (k + 1) + 1
        /\ \A i \in 1..(Len(q) - (k + 1) + 1) : r[i] = q[(k + 1) + i - 1]
    BY <1>2, <1>3, <2>1, SubSeqProperties
  <2>3. Len(q) - (k + 1) + 1 = Len(q) - k /\ \A i \in 1..(Len(q) - k) : (k + 1) + i - 1 = k + i
    BY <1>1, <1>2
  <2> QED BY <1>1, <1>2, <2>2, <2>3
<1>5. ASSUME NEW o PROVE o \in ToSet(r) <=> o \in ToSet(q) /\ o \notin Served(m)
  <2>1. ASSUME o \in ToSet(r) PROVE o \in ToSet(q) /\ o \notin Served(m)
    <3>1. PICK i \in 1..(Len(q) - k) : o = q[k + i]
      BY <1>4, <2>1 DEF ToSet
    <3>2. k + i \in 1..Len(q) /\ \A j \in 1..k : j \in 1..Len(q) /\ j # k + i
      BY <1>1, <1>2
    <3> QED BY <1>1, <1>2, <3>1, <3>2 DEF ToSet
  <2>2. ASSUME o \in ToSet(q), o \notin Served(m) PROVE o \in ToSet(r)
    <3>1. PICK i \in 1..Len(q) : o = q[i]
      BY <1>2, <2>2 DEF ToSet
    <3>2. i - k \in 1..(Len(q) - k) /\ k + (i - k) = i
      BY <1>1, <1>2, <2>2, <3>1
    <3> QED BY <1>4, <3>1, <3>2 DEF ToSet
  <2> QED BY <2>1, <2>2
<1>6. \A i, j \in DOMAIN r : r[i] = r[j] => i = j
  <2> TAKE i, j \in DOMAIN r
  <2>1. k + i \in 1..Len(q) /\ k + j \in 1..Len(q) /\ (k + i = k + j => i = j)
    BY <1>1, <1>2, <1>4
  <2> QED BY <1>2, <1>4, <2>1
<1> QED BY <1>4, <1>5, <1>6 DEF q, r, NoneTwice

\* What a slice does to an operation.
LEMMA WorkDone ==
  ASSUME WorkInv, MachinesWork, job_list' = job_list, NEW o \in Ops
  PROVE  /\ operations'[o] \in OperationType
         /\ \/ \E n \in Stations :
                 /\ o \in Served(n) /\ Status(o)' = "FINISHED" /\ Here(o)' = Nothing
                 /\ Queued(o)' = {} /\ SetDown(o)' = {} /\ operations'[o].process_time \in Nat
            \/ \E n \in Stations :
                 /\ o[2] > 1 /\ Predecessor(o) \in Served(n) /\ Status(o) = "WAITING"
                 /\ Status(o)' = "READY" /\ Here(o)' = n
                 /\ Queued(o)' = {} /\ SetDown(o)' = {n}
                 /\ operations'[o].process_time = operations[o].process_time
            \/ /\ \A n \in Stations : o \notin Served(n)
               /\ \A n \in Stations : o[2] > 1 => Predecessor(o) \notin Served(n)
               /\ Status(o)' = Status(o) /\ Here(o)' = Here(o)
               /\ Queued(o)' = Queued(o) /\ SetDown(o)' = SetDown(o)
               /\ \/ operations'[o].process_time = operations[o].process_time
                  \/ /\ Status(o) = "WORKING" /\ operations'[o].process_time \in Nat
                     /\ operations'[o].process_time < Duration(o, Here(o))
<1> DEFINE P == Predecessor(o)
<1>1. /\ o[2] \in Nat /\ o[2] >= 1 /\ o # Nothing
      /\ o[2] > 1 => P \in Ops
      /\ P = <<o[1], o[2] - 1>>
  BY OpsAre DEF WorkInv, WorkTyped, Predecessor
<1>2. \A n \in Stations : P \in Served(n) => o[2] > 1 /\ Status(o) = "WAITING"
  <2> SUFFICES ASSUME NEW n \in Stations, P \in Served(n) PROVE o[2] > 1 /\ Status(o) = "WAITING"
    OBVIOUS
  <2>1. P \in Ops /\ Status(P) = "WORKING"
    BY ServedIs
  <2>2. o[2] - 1 >= 1
    BY <1>1, <2>1, OpsAre DEF WorkInv, WorkTyped
  <2> QED BY <1>1, <2>1, <2>2 DEF WorkInv, OperationsHold, InTurn
<1>3. \A n \in Stations : n \in Queued(o)' <=> n \in Queued(o) /\ o \notin Served(n)
  BY RestIs DEF Queued
<1>4. \A n \in Stations : n \in SetDown(o)' <=> n \in SetDown(o) \/ P \in Served(n)
  <2> TAKE n \in Stations
  <2>1. machines'[n].output_queue = Outputs(n)
    BY DEF MachinesWork, WorkInv, WorkTyped, CartType, MachineType
  <2>2. (\E p \in Served(n) : o = Successor(p)) <=> P \in Served(n)
    <3>1. ASSUME NEW p \in Served(n), o = Successor(p) PROVE P \in Served(n)
      <4>1. p \in Ops
        BY ServedIs
      <4> QED BY <3>1, <4>1, SuccessorIs DEF WorkInv, WorkTyped
    <3>2. ASSUME P \in Served(n) PROVE o = Successor(P)
      BY <1>2, <3>2, OpsAre DEF WorkInv, WorkTyped
    <3> QED BY <3>1, <3>2
  <2>3. o \in Outputs(n) <=> o \in machines[n].output_queue \/ \E p \in Served(n) : o = Successor(p)
    BY DEF Outputs
  <2> QED BY <2>1, <2>2, <2>3 DEF SetDown
<1>5. Queued(o) \subseteq Stations /\ SetDown(o) \subseteq Stations
      /\ Queued(o)' \subseteq Stations /\ SetDown(o)' \subseteq Stations
  BY DEF Queued, SetDown
<1>6. /\ InPlace(o) /\ operations[o] \in OperationType
      /\ \A m \in Stations : Duration(o, m) \in Nat
  BY OpsAre DEF WorkInv, WorkTyped, OperationsHold
<1> HIDE DEF P
<1>7. CASE \E n \in Stations : o \in Served(n)
  <2>1. PICK n \in Stations : o \in Served(n)
    BY <1>7
  <2>2. Status(o) = "WORKING" /\ Here(o) = n /\ At(o, {n}, {}, {}, {})
    BY <2>1, ServedIs
  <2>3. operations'[o] = [status |-> "FINISHED", process_time |-> Duration(o, n), current_machine |-> Nothing]
    BY <2>1, <2>2 DEF MachinesWork, Here
  <2>4. Queued(o)' = {}
    BY <1>3, <1>5, <2>1, <2>2 DEF At
  <2>5. SetDown(o)' = {}
    BY <1>2, <1>4, <1>5, <2>2 DEF At
  <2>6. operations'[o] \in OperationType
    BY <1>6, <2>1, <2>3 DEF OperationType, OpStatus
  <2> QED BY <1>6, <2>1, <2>3, <2>4, <2>5, <2>6 DEF Status, Here, OperationType
<1>8. CASE (\A n \in Stations : o \notin Served(n)) /\ \E n \in Stations : P \in Served(n)
  <2>1. PICK n \in Stations : P \in Served(n)
    BY <1>8
  <2>2. o[2] > 1 /\ Status(o) = "WAITING" /\ At(o, {}, {}, {}, {})
    BY <1>2, <1>6, <2>1 DEF InPlace
  <2>3. \A x \in Stations : P \in Served(x) => x = n
    BY <2>1, ServedIs
  <2>4. operations'[o] = [operations[o] EXCEPT !.status = "READY", !.current_machine = n]
    <3>1. {x \in Stations : o \in Served(x)} = {}
      BY <1>8
    <3>2. {x \in Stations : P \in Served(x)} = {n}
      BY <2>1, <2>3
    <3>3. {x \in Stations : <<o[1], o[2] - 1>> \in Served(x)} = {n}
      BY <1>1, <3>2
    <3>4. (CHOOSE x \in {n} : TRUE) = n
      OBVIOUS
    <3> QED BY <3>1, <3>3, <3>4 DEF MachinesWork
  <2>5. Queued(o)' = {} /\ SetDown(o)' = {n}
    BY <1>3, <1>4, <1>5, <2>1, <2>2, <2>3 DEF At
  <2>6. Status(o)' = "READY" /\ Here(o)' = n /\ operations'[o].process_time = operations[o].process_time
    BY <1>6, <2>4 DEF Status, Here, OperationType
  <2>7. operations'[o] \in OperationType
    BY <1>6, <2>1, <2>4 DEF OperationType, OpStatus
  <2> QED BY <2>1, <2>2, <2>5, <2>6, <2>7 DEF P
<1>9. CASE (\A n \in Stations : o \notin Served(n)) /\ \A n \in Stations : P \notin Served(n)
  <2>1. Queued(o)' = Queued(o) /\ SetDown(o)' = SetDown(o)
    BY <1>3, <1>4, <1>5, <1>9
  <2>2. {x \in Stations : o \in Served(x)} = {} /\ {x \in Stations : <<o[1], o[2] - 1>> \in Served(x)} = {}
    BY <1>1, <1>9
  <2>3. CASE \E n \in Stations : o \in Begun(n)
    <3>1. PICK n \in Stations : o \in Begun(n)
      BY <2>3
    <3>2. Status(o) = "WORKING" /\ Here(o) = n
      BY <3>1, ServedIs
    <3>3. operations'[o] = [operations[o] EXCEPT !.process_time = Processed(n)]
      BY <2>2, <3>1, <3>2 DEF MachinesWork, Here
    <3>4. Processed(n) \in Nat /\ Processed(n) < Duration(o, n)
      BY <3>1, SliceIs
    <3>5. /\ Status(o)' = Status(o) /\ Here(o)' = Here(o)
          /\ operations'[o].process_time = Processed(n)
      BY <1>6, <3>3 DEF Status, Here, OperationType
    <3>6. operations'[o] \in OperationType
      BY <1>6, <3>3, <3>4 DEF OperationType
    <3> QED BY <1>9, <2>1, <3>2, <3>4, <3>5, <3>6 DEF P
  <2>4. CASE ~\E n \in Stations : o \in Begun(n)
    <3>1. operations'[o] = operations[o]
      BY <2>2, <2>4 DEF MachinesWork
    <3> QED BY <1>6, <1>9, <2>1, <3>1 DEF P, Status, Here
  <2> QED BY <2>3, <2>4
<1> QED BY <1>7, <1>8, <1>9

-----------------------------------------------------------------------------
(* Decisions, in the order of the jobs.                                    *)

LEMMA OpsAreFinite ==
  ASSUME job_list \in Seq(Templates) PROVE IsFiniteSet(Ops)
<1> DEFINE n == Len(job_list)
           of(k) == {<<k, i>> : i \in 1..NumOf(job_list[k])}
           f == [k \in 1..n |-> of(k)]
           T == {of(k) : k \in 1..n}
<1>1. n \in Nat /\ DOMAIN job_list = 1..n
  OBVIOUS
<1>2. IsFiniteSet(1..n)
  BY <1>1, FS_Interval
<1>3. f \in Surjection(1..n, T)
  BY DEF Surjection
<1>4. IsFiniteSet(T)
  BY <1>2, <1>3, FS_Surjection
<1>5. ASSUME NEW k \in 1..n PROVE IsFiniteSet(of(k))
  <2> DEFINE l == NumOf(job_list[k])  g == [i \in 1..l |-> <<k, i>>]
  <2>1. job_list[k] \in Templates /\ Operations[job_list[k]] \in Seq([Stations -> Nat])
    BY <1>5, PacketConstants
  <2>2. l \in Nat
    BY <2>1 DEF NumOf
  <2>3. g \in Surjection(1..l, of(k))
    BY DEF Surjection
  <2> QED BY <2>2, <2>3, FS_Interval, FS_Surjection
<1>6. Ops = UNION T
  BY <1>1 DEF Ops, OpsIn
<1> HIDE DEF T, of
<1>7. \A X \in T : IsFiniteSet(X)
  BY <1>5 DEF T
<1> QED BY <1>4, <1>6, <1>7, FS_UNION

\* InOrder lists a set of operations without repetition.
LEMMA InOrderIs ==
  ASSUME NEW S, S \subseteq Nat \X Nat, IsFiniteSet(S), NEW t, t = InOrder(S)
  PROVE  t \in Seq(S) /\ \A i, j \in DOMAIN t : t[i] = t[j] => i = j
<1> DEFINE n == Cardinality(S)
           sooner(o) == {p \in S : Sooner(p, o)}
           rank(o) == Cardinality(sooner(o))
           f == [o \in S |-> rank(o)]
<1>1. n \in Nat
  BY FS_CardinalityType
<1>2. ASSUME NEW o \in S
      PROVE  IsFiniteSet(sooner(o)) /\ rank(o) \in 0..(n - 1)
  <2>1. IsFiniteSet(sooner(o)) /\ rank(o) \in Nat
    BY FS_Subset, FS_CardinalityType
  <2>2. o \notin sooner(o) /\ sooner(o) \subseteq S \ {o}
    BY <1>2 DEF Sooner
  <2>3. IsFiniteSet(S \ {o}) /\ Cardinality(S \ {o}) = n - 1
    BY <1>2, FS_RemoveElement
  <2>4. rank(o) <= n - 1
    <3> HIDE DEF sooner
    <3> QED BY <2>2, <2>3, FS_Subset
  <2> QED BY <1>1, <2>1, <2>4
<1>3. ASSUME NEW o \in S, NEW p \in S, Sooner(o, p) PROVE rank(o) # rank(p)
  <2>1. sooner(o) \subseteq sooner(p) /\ o \in sooner(p) /\ o \notin sooner(o)
    BY <1>3 DEF Sooner
  <2> HIDE DEF sooner
  <2> QED BY <1>2, <2>1, FS_Subset
<1>4. ASSUME NEW o \in S, NEW p \in S, o # p PROVE rank(o) # rank(p)
  <2>1. Sooner(o, p) \/ Sooner(p, o)
    BY <1>4 DEF Sooner
  <2> HIDE DEF rank
  <2> QED BY <1>3, <2>1
<1>5. f \in Injection(S, 0..(n - 1))
  <2> HIDE DEF rank
  <2> QED BY <1>2, <1>4 DEF Injection, IsInjective
<1>6. IsFiniteSet(0..(n - 1)) /\ Cardinality(0..(n - 1)) = n
  <2> HIDE DEF n
  <2>1. /\ IsFiniteSet(0..(n - 1))
        /\ Cardinality(0..(n - 1)) = IF 0 > n - 1 THEN 0 ELSE n - 1 - 0 + 1
    BY <1>1, FS_Interval
  <2> QED BY <1>1, <2>1
<1>7. f \in Surjection(S, 0..(n - 1))
  BY <1>5, <1>6, FS_Injection
<1>8. \A i \in 1..n : \E o \in S : rank(o) = i - 1
  <2> HIDE DEF rank
  <2>1. \A x \in 0..(n - 1) : \E o \in S : rank(o) = x
    BY <1>7 DEF Surjection
  <2> QED BY <1>1, <2>1
<1>9. t = [i \in 1..n |-> CHOOSE o \in S : rank(o) = i - 1]
  BY DEF InOrder
<1> HIDE DEF n, rank
<1>10. \A i \in 1..n : t[i] \in S /\ rank(t[i]) = i - 1
  BY <1>8, <1>9
<1>11. t \in Seq(S)
  BY <1>1, <1>9, <1>10
<1>12. \A i, j \in DOMAIN t : t[i] = t[j] => i = j
  BY <1>1, <1>9, <1>10
<1> QED BY <1>11, <1>12

-----------------------------------------------------------------------------
(* Steps that move no operation.                                           *)

SameWork ==
  /\ job_list' = job_list /\ operations' = operations
  /\ \A m \in Stations : /\ machines'[m].input_queue = machines[m].input_queue
                         /\ machines'[m].output_queue = machines[m].output_queue
  /\ \A a \in Carts : /\ agvs'[a].operation = agvs[a].operation
                      /\ agvs'[a].todo = agvs[a].todo /\ agvs'[a].running = agvs[a].running

LEMMA SameWorkKeeps == WorkInv /\ SameWork /\ WorkTyped' => WorkInv'
<1> SUFFICES ASSUME WorkInv, SameWork, WorkTyped' PROVE WorkInv'
  OBVIOUS
<1>1. /\ Ops' = Ops /\ job_list' = job_list /\ operations' = operations
      /\ \A o, m : Duration(o, m)' = Duration(o, m)
      /\ \A w : \A a \in Carts : Doing(a, w)' = Doing(a, w)
  BY DEF SameWork, Ops, Duration, Doing
<1>2. \A o : /\ Queued(o)' = Queued(o) /\ SetDown(o)' = SetDown(o)
             /\ Aboard(o)' = Aboard(o) /\ Fetching(o)' = Fetching(o)
  BY DEF SameWork, Queued, SetDown, Aboard, Fetching, Doing, Target
<1>3. \A o, q, p, c, f : At(o, q, p, c, f)' = At(o, q, p, c, f)
  BY <1>2 DEF At
<1>4. \A o : Status(o)' = Status(o) /\ Here(o)' = Here(o) /\ Unstarted(o)' = Unstarted(o)
  BY <1>1 DEF Status, Here, Unstarted
<1>5. OperationsHold'
  <2> SUFFICES ASSUME NEW o \in Ops PROVE InTurn(o)' /\ InPlace(o)'
    BY <1>1 DEF OperationsHold
  <2>1. InTurn(o) /\ InPlace(o)
    BY DEF WorkInv, OperationsHold
  <2>2. InTurn(o)'
    BY <1>1, <1>4, <2>1 DEF InTurn, Predecessor
  <2>3. InPlace(o)'
    BY <1>1, <1>3, <1>4, <2>1 DEF InPlace
  <2> QED BY <2>2, <2>3
<1>6. PlacesHold'
  <2>1. ASSUME NEW m \in Stations PROVE NoneTwice(m)'
    BY DEF WorkInv, PlacesHold, SameWork, NoneTwice
  <2>2. ASSUME NEW a \in Carts PROVE Charged(a)'
    BY <1>1 DEF WorkInv, PlacesHold, SameWork, Charged
  <2>3. ASSUME NEW a \in Carts PROVE Told(a)'
    BY <1>1, <1>4 DEF WorkInv, PlacesHold, SameWork, Told
  <2> QED BY <2>1, <2>2, <2>3 DEF PlacesHold
<1> QED BY <1>5, <1>6 DEF WorkInv

LEMMA QuietKeeps == WorkInv /\ UNCHANGED <<job_list, workVars>> => WorkInv'
<1> SUFFICES ASSUME WorkInv, UNCHANGED <<job_list, workVars>> PROVE WorkInv'
  OBVIOUS
<1>1. Ops' = Ops
  BY DEF Ops
<1>2. WorkTyped' /\ SameWork
  BY <1>1 DEF WorkInv, WorkTyped, CartType, MachineType, SameWork, workVars
<1> QED BY <1>2, SameWorkKeeps

LEMMA CollectKeeps == PacketInv /\ Collect => WorkInv'
<1> SUFFICES ASSUME WorkInv, Collect PROVE WorkInv'
  BY DEF PacketInv
<1>1. Ops' = Ops /\ UNCHANGED <<job_list, operations, machines>>
  BY DEF Ops, Collect
<1>2. WorkTyped' /\ SameWork
  <2>1. \A a \in Carts : agvs[a] \in CartType /\ agvs'[a] = [agvs[a] EXCEPT !.time_left = 0]
    BY DEF Collect, WorkInv, WorkTyped
  <2>2. ASSUME NEW a \in Carts
        PROVE  /\ agvs'[a] \in CartType /\ agvs'[a].operation = agvs[a].operation
               /\ agvs'[a].todo = agvs[a].todo /\ agvs'[a].running = agvs[a].running
    <3>1. agvs[a] \in CartType /\ agvs'[a] = [agvs[a] EXCEPT !.time_left = 0] /\ 0 \in Int
      BY <2>1
    <3>2. agvs'[a] \in CartType
      BY <3>1 DEF CartType
    <3> QED BY <3>1, <3>2 DEF CartType
  <2>3. agvs' = [a \in Carts |-> agvs'[a]] /\ MachineType' = MachineType /\ CartType' = CartType
    BY <1>1 DEF Collect, MachineType, CartType
  <2> QED BY <1>1, <2>2, <2>3 DEF WorkInv, WorkTyped, SameWork
<1> QED BY <1>2, SameWorkKeeps

\* Faults and what is recorded of them.
LEMMA CartFaultKeeps ==
  ASSUME WorkInv, NEW a \in Carts, FailCart(a) \/ RecoverCart(a),
         UNCHANGED <<job_list, operations, machines>>
  PROVE  WorkInv'
<1>1. Ops' = Ops
  BY DEF Ops
<1>2. WorkTyped' /\ SameWork
  <2>1. /\ agvs[a] \in CartType
    BY DEF WorkInv, WorkTyped
  <2> DEFINE h == agvs[a].history
  <2>2. h # <<>> => /\ Len(h) \in 1..Len(h)
                    /\ h[Len(h)] \in Passages
                    /\ Front(h) \in Seq(Passages)
    BY <2>1 DEF Front, CartType
  <2>3. agvs'[a] \in CartType
        /\ agvs'[a].operation = agvs[a].operation
        /\ agvs'[a].todo = agvs[a].todo /\ agvs'[a].running = agvs[a].running
    <3>1. CASE FailCart(a)
      <4> DEFINE x == <<agvs[a].status, agvs[a].point, agvs[a].gone>>
      <4>1. x \in Passages /\ h \in Seq(Passages)
        BY <2>1 DEF CartType, Passages
      <4>2. Append(h, x) \in Seq(Passages)
        BY <4>1
      <4>3. agvs'[a] = [agvs[a] EXCEPT !.status = "EXCEPTION", !.history = Append(h, x)]
        BY <3>1 DEF FailCart, WorkInv, WorkTyped
      <4> HIDE DEF x, h
      <4> QED BY <2>1, <4>2, <4>3 DEF CartType, CartStatus
    <3>2. CASE RecoverCart(a)
      BY <2>1, <2>2, <3>2 DEF RecoverCart, CartStatus, Passages, WorkInv, WorkTyped, CartType, MachineType
    <3> QED BY <3>1, <3>2
  <2>4. agvs' \in [Carts -> {agvs'[b] : b \in Carts}] /\ \A b \in Carts \ {a} : agvs'[b] = agvs[b]
    BY DEF FailCart, RecoverCart, WorkInv, WorkTyped, CartType, MachineType
  <2> QED BY <1>1, <2>3, <2>4 DEF WorkInv, WorkTyped, CartType, MachineType, SameWork
<1> QED BY <1>2, SameWorkKeeps

LEMMA MachineFaultKeeps ==
  ASSUME WorkInv, NEW m \in Stations, FailMachine(m) \/ RecoverMachine(m),
         UNCHANGED <<job_list, operations, agvs>>
  PROVE  WorkInv'
<1>1. Ops' = Ops
  BY DEF Ops
<1>2. WorkTyped' /\ SameWork
  <2>1. /\ machines[m] \in MachineType
    BY DEF WorkInv, WorkTyped
  <2> DEFINE h == machines[m].history
  <2>2. h # <<>> => /\ h[Len(h)] \in MachineStatus /\ Front(h) \in Seq(MachineStatus)
    BY <2>1 DEF Front, MachineType
  <2>3. machines'[m] \in MachineType
        /\ machines'[m].input_queue = machines[m].input_queue
        /\ machines'[m].output_queue = machines[m].output_queue
    <3>1. CASE FailMachine(m)
      <4>1. Append(h, machines[m].status) \in Seq(MachineStatus)
        BY <2>1 DEF MachineType
      <4>2. machines'[m] = [machines[m] EXCEPT !.status = "FAILED",
                                               !.history = Append(h, machines[m].status)]
        BY <3>1 DEF FailMachine, WorkInv, WorkTyped
      <4> HIDE DEF h
      <4> QED BY <2>1, <4>1, <4>2 DEF MachineType, MachineStatus
    <3>2. CASE RecoverMachine(m)
      BY <2>1, <2>2, <3>2 DEF RecoverMachine, MachineStatus, WorkInv, WorkTyped, CartType, MachineType
    <3> QED BY <3>1, <3>2
  <2>4. machines' \in [Stations -> {machines'[n] : n \in Stations}]
        /\ \A n \in Stations \ {m} : machines'[n] = machines[n]
    BY DEF FailMachine, RecoverMachine, WorkInv, WorkTyped, CartType, MachineType
  <2> QED BY <1>1, <2>3, <2>4 DEF WorkInv, WorkTyped, CartType, MachineType, SameWork
<1> QED BY <1>2, SameWorkKeeps

-----------------------------------------------------------------------------
(* Fresh and more work.                                                    *)

\* Everything as it is built.
Fresh ==
  /\ job_list = Order
  /\ operations = [o \in OpsIn(Order) |-> NewOperation(o)]
  /\ machines = [m \in Stations |-> NewMachine]
  /\ agvs = [a \in Carts |-> NewCart(a)]

LEMMA NewOperationIs ==
  ASSUME NEW o
  PROVE  /\ NewOperation(o) \in OperationType
         /\ NewOperation(o).status = (IF o[2] = 1 THEN "READY" ELSE "WAITING")
         /\ NewOperation(o).process_time = 0 /\ NewOperation(o).current_machine = Nothing
BY DEF NewOperation, OperationType, OpStatus

LEMMA NewMachineIs ==
  /\ NewMachine \in MachineType
  /\ NewMachine.input_queue = <<>> /\ NewMachine.output_queue = {}
BY DEF NewMachine, MachineType, MachineStatus

LEMMA NewCartIs ==
  ASSUME NEW a \in Carts
  PROVE  /\ NewCart(a) \in CartType
         /\ NewCart(a).operation = Nothing /\ NewCart(a).todo = <<>> /\ NewCart(a).running = <<>>
BY PacketConstants DEF NewCart, CartType, CartStatus

LEMMA FreshHolds == Fresh => WorkInv
<1> SUFFICES ASSUME Fresh PROVE WorkInv
  OBVIOUS
<1>1. /\ job_list \in Seq(Templates) /\ Ops = OpsIn(Order)
      /\ \A o \in Ops : operations[o] = NewOperation(o)
      /\ \A m \in Stations : machines[m] = NewMachine
      /\ \A a \in Carts : agvs[a] = NewCart(a)
  BY PacketConstants DEF Fresh, Ops
<1>2. WorkTyped
  <2>1. \A o \in Ops : operations[o] \in OperationType
    BY <1>1, NewOperationIs
  <2>2. \A m \in Stations : machines[m] \in MachineType
    BY <1>1, NewMachineIs
  <2>3. \A a \in Carts : agvs[a] \in CartType
    BY <1>1, NewCartIs
  <2> QED BY <1>1, <2>1, <2>2, <2>3 DEF WorkTyped, Fresh
<1>3. ASSUME NEW o \in Ops PROVE InTurn(o) /\ InPlace(o)
  <2>1. o # Nothing /\ o[2] \in Nat /\ o[2] >= 1 /\ (o[2] > 1 => Predecessor(o) \in Ops)
    BY <1>1, <1>3, OpsAre
  <2>2. At(o, {}, {}, {}, {})
    BY <1>1, <2>1, NewMachineIs, NewCartIs
       DEF At, Queued, SetDown, Aboard, Fetching, Doing, ToSet
  <2>3. /\ Status(o) = (IF o[2] = 1 THEN "READY" ELSE "WAITING") /\ Here(o) = Nothing
        /\ operations[o].process_time = 0
    BY <1>1, NewOperationIs DEF Status, Here
  <2>4. o[2] > 1 => Status(Predecessor(o)) # "FINISHED"
    BY <1>1, <2>1, NewOperationIs DEF Status
  <2>5. InTurn(o)
    BY <2>1, <2>3, <2>4 DEF InTurn
  <2>6. InPlace(o)
    BY <2>1, <2>2, <2>3 DEF InPlace
  <2> QED BY <2>5, <2>6
<1>4. PlacesHold
  BY <1>1, NewMachineIs, NewCartIs DEF PlacesHold, NoneTwice, Charged, Told
<1> QED BY <1>2, <1>3, <1>4 DEF WorkInv, OperationsHold

LEMMA AddKeeps ==
  ASSUME WorkInv, NEW id \in Templates, AddJob(id), UNCHANGED <<machines, agvs>>
  PROVE  WorkInv'
<1>1. /\ job_list \in Seq(Templates) /\ Len(job_list) \in Nat
      /\ job_list' \in Seq(Templates) /\ Len(job_list') = Len(job_list) + 1
      /\ \A k \in 1..Len(job_list) : job_list'[k] = job_list[k]
  BY DEF AddJob, WorkInv, WorkTyped
<1>2. Ops \subseteq Ops'
  BY <1>1 DEF Ops, OpsIn
<1>3. \A m : \A o \in Ops : Duration(o, m)' = Duration(o, m)
  BY <1>1, OpsAre DEF Duration
<1>4. /\ \A o \in Ops : operations'[o] = operations[o]
      /\ \A o \in Ops' \ Ops : operations'[o] = NewOperation(o)
  BY <1>2 DEF AddJob, Ops
<1>5. \A o \in Ops' \ Ops : o[1] = Len(job_list) + 1
  <2> SUFFICES ASSUME NEW o \in Ops' \ Ops PROVE o[1] = Len(job_list) + 1
    OBVIOUS
  <2>1. PICK k \in 1..Len(job_list') : \E i \in 1..NumOf(job_list'[k]) : o = <<k, i>>
    BY <1>1 DEF Ops, OpsIn
  <2>2. k \notin 1..Len(job_list)
    BY <1>1, <2>1 DEF Ops, OpsIn
  <2>3. k = Len(job_list) + 1
    BY <1>1, <2>1, <2>2
  <2> QED BY <2>1, <2>3
<1>6. WorkTyped'
  <2>1. \A o \in Ops' : operations'[o] \in OperationType
    BY <1>4, NewOperationIs DEF WorkInv, WorkTyped
  <2>2. operations' = [o \in Ops' |-> operations'[o]]
    BY DEF AddJob, Ops
  <2>3. ASSUME NEW m \in Stations PROVE machines[m] \in MachineType'
    <3>1. machines[m] \in MachineType
      BY DEF WorkInv, WorkTyped
    <3>2. machines[m].input_queue \in Seq(Ops')
      BY <1>2, <3>1 DEF MachineType
    <3> QED BY <1>2, <3>1, <3>2 DEF MachineType
  <2>4. ASSUME NEW a \in Carts PROVE agvs[a] \in CartType'
    <3>1. agvs[a] \in CartType
      BY DEF WorkInv, WorkTyped
    <3>2. agvs[a].todo \in Seq(Ops' \X Stations)
      BY <1>2, <3>1 DEF CartType
    <3>3. agvs[a].running \in Seq(({"load"} \X Ops') \cup ({"unload"} \X Stations))
      BY <1>2, <3>1 DEF CartType
    <3> QED BY <1>2, <3>1, <3>2, <3>3 DEF CartType
  <2>5. /\ machines' \in [Stations -> MachineType'] /\ agvs' \in [Carts -> CartType']
        /\ operations' \in [Ops' -> OperationType]
    BY <2>1, <2>2, <2>3, <2>4 DEF WorkInv, WorkTyped
  <2> QED BY <1>1, <2>5 DEF WorkTyped
<1>7. \A o : /\ Queued(o)' = Queued(o) /\ SetDown(o)' = SetDown(o)
             /\ Aboard(o)' = Aboard(o) /\ Fetching(o)' = Fetching(o)
  BY DEF Queued, SetDown, Aboard, Fetching, Doing, Target
<1>8. \A w : \A a \in Carts : Doing(a, w)' = Doing(a, w)
  BY DEF Doing
<1>9. \A o \in Ops : Status(o)' = Status(o) /\ Here(o)' = Here(o) /\ Unstarted(o)' = Unstarted(o)
  BY <1>4 DEF Status, Here, Unstarted
<1>10. \A o, q, p, c, f : At(o, q, p, c, f)' = At(o, q, p, c, f)
  BY <1>7 DEF At
<1>11. ASSUME NEW o \in Ops PROVE InTurn(o)' /\ InPlace(o)'
  <2>1. InTurn(o) /\ InPlace(o) /\ (o[2] > 1 => Predecessor(o) \in Ops)
    BY OpsAre DEF WorkInv, WorkTyped, OperationsHold
  <2>2. InTurn(o)'
    BY <1>9, <2>1 DEF InTurn, Predecessor
  <2>3. \A x : Predecessor(x)' = Predecessor(x)
    BY DEF Predecessor
  <2>4. operations'[o] = operations[o] /\ Duration(o, Here(o))' = Duration(o, Here(o))
    BY <1>3, <1>4, <1>9
  <2>5. InPlace(o)'
    <3>1. CASE Status(o) = "MOVING"
      BY <1>8, <1>9, <1>10, <2>1, <2>4, <3>1 DEF InPlace
    <3>2. CASE Status(o) # "MOVING"
      BY <1>9, <1>10, <2>1, <2>4, <3>2 DEF InPlace
    <3> QED BY <3>1, <3>2
  <2> QED BY <2>2, <2>5
\* Of the added job, nothing has been touched.
<1>12. ASSUME NEW o \in Ops' \ Ops PROVE InTurn(o)' /\ InPlace(o)'
  <2>1. /\ o # Nothing /\ o[2] \in Nat /\ o[2] >= 1 /\ o[1] = Len(job_list) + 1
        /\ o[2] > 1 => Predecessor(o) \in Ops' /\ Predecessor(o)[1] = o[1]
    <3>1. PICK k \in 1..Len(job_list') : \E i \in 1..NumOf(job_list'[k]) : o = <<k, i>>
      BY <1>1 DEF Ops, OpsIn
    <3>2. PICK i \in 1..NumOf(job_list'[k]) : o = <<k, i>>
      BY <3>1
    <3>3. NumOf(job_list'[k]) \in Nat /\ k \in Nat /\ i \in Nat /\ i >= 1
      <4>1. Operations[job_list'[k]] \in Seq([Stations -> Nat])
        BY <1>1, PacketConstants
      <4> QED BY <1>1, <3>2, <4>1 DEF NumOf
    <3>4. o # Nothing
      BY <3>2, <3>3, PacketConstants
    <3>5. ASSUME i > 1 PROVE <<k, i - 1>> \in Ops'
      <4>1. i - 1 \in 1..NumOf(job_list'[k])
        BY <3>2, <3>3, <3>5
      <4> QED BY <1>1, <4>1 DEF Ops, OpsIn
    <3> QED BY <1>5, <3>2, <3>3, <3>4, <3>5 DEF Predecessor
  <2>2. o[2] > 1 => Predecessor(o) \notin Ops
    <3>1. ASSUME NEW p \in Ops PROVE p[1] # Len(job_list) + 1
      BY <1>1, OpsAre
    <3> QED BY <2>1, <3>1
  <2>3. At(o, {}, {}, {}, {})
    <3>1. \A m \in Stations : machines[m] \in MachineType
      BY DEF WorkInv, WorkTyped
    <3>2. Queued(o) = {} /\ SetDown(o) = {}
      BY <3>1 DEF MachineType, Queued, SetDown, ToSet
    <3>3. \A a \in Carts : agvs[a] \in CartType /\ Charged(a)
      BY DEF WorkInv, WorkTyped, PlacesHold
    <3>4. Aboard(o) = {} /\ Fetching(o) = {}
      <4>1. \A a \in Carts : agvs[a].operation # o
        BY <2>1, <3>3 DEF CartType
      <4>2. \A a \in Carts : Doing(a, "load") => Target(a) \in Ops
        BY <3>3 DEF Charged, Doing, Target
      <4> QED BY <4>1, <4>2 DEF Aboard, Fetching
    <3> QED BY <3>2, <3>4 DEF At
  <2>4. /\ Status(o)' = (IF o[2] = 1 THEN "READY" ELSE "WAITING") /\ Here(o)' = Nothing
        /\ operations'[o].process_time = 0
    BY <1>4, NewOperationIs DEF Status, Here
  <2>5. o[2] > 1 => Status(Predecessor(o))' # "FINISHED"
    BY <1>4, <2>1, <2>2, NewOperationIs DEF Status
  <2>6. InTurn(o)'
    BY <2>1, <2>4, <2>5 DEF InTurn
  <2>7. InPlace(o)'
    BY <1>10, <2>1, <2>3, <2>4 DEF InPlace
  <2> QED BY <2>6, <2>7
<1>13. PlacesHold'
  <2>1. \A m \in Stations : NoneTwice(m)'
    BY DEF WorkInv, PlacesHold, NoneTwice
  <2>2. ASSUME NEW a \in Carts PROVE Charged(a)'
    <3>1. Charged(a)
      BY DEF WorkInv, PlacesHold
    <3> QED BY <1>2, <1>3, <3>1 DEF Charged
  <2>3. ASSUME NEW a \in Carts PROVE Told(a)'
    <3>1. Told(a) /\ agvs[a] \in CartType
      BY DEF WorkInv, WorkTyped, PlacesHold
    <3>2. \A i \in DOMAIN agvs[a].todo : agvs[a].todo[i][1] \in Ops
      BY <3>1 DEF CartType
    <3> QED BY <1>3, <1>9, <3>1, <3>2 DEF Told
  <2> QED BY <2>1, <2>2, <2>3 DEF PlacesHold
<1> QED BY <1>6, <1>11, <1>12, <1>13 DEF WorkInv, OperationsHold

-----------------------------------------------------------------------------
(* The beginning of a slice.                                               *)

\* An operation is finished when it was, or has just been served.
LEMMA FinishedIs ==
  ASSUME WorkInv, MachinesWork, job_list' = job_list, NEW o \in Ops
  PROVE  Status(o)' = "FINISHED" <=>
           Status(o) = "FINISHED" \/ \E n \in Stations : o \in Served(n)
<1>1. \A n \in Stations : o \in Served(n) => Status(o) = "WORKING"
  BY ServedIs
<1> QED BY <1>1, WorkDone

LEMMA SliceKeepsOperations ==
  ASSUME WorkInv, MachinesWork, job_list' = job_list, NEW o \in Ops,
         Aboard(o)' = Aboard(o), Fetching(o)' = Fetching(o),
         \A a \in Carts : Doing(a, "unload")' = Doing(a, "unload")
  PROVE  InTurn(o)' /\ InPlace(o)'
<1> DEFINE P == Predecessor(o)
<1>1. /\ o[2] \in Nat /\ o[2] >= 1 /\ (o[2] > 1 => P \in Ops) /\ InTurn(o) /\ InPlace(o)
      /\ operations[o] \in OperationType /\ Status(o) \in OpStatus
  BY OpsAre DEF WorkInv, WorkTyped, OperationsHold, OperationType, Status
<1>2. \A m : Duration(o, m)' = Duration(o, m)
  BY DEF Duration
<1>3. o[2] > 1 => (Status(P)' = "FINISHED" <=>
                     Status(P) = "FINISHED" \/ \E n \in Stations : P \in Served(n))
  BY <1>1, FinishedIs
<1>4. InTurn(o)' <=> (Status(o)' = "WAITING" <=> (o[2] > 1 /\ Status(P)' # "FINISHED"))
  BY DEF InTurn, Predecessor
<1> HIDE DEF P
<1>5. ASSUME NEW n \in Stations, o \in Served(n), Status(o)' = "FINISHED", Here(o)' = Nothing,
             Queued(o)' = {}, SetDown(o)' = {}
      PROVE  InTurn(o)' /\ InPlace(o)'
  <2>1. Status(o) = "WORKING" /\ At(o, {n}, {}, {}, {})
    BY <1>5, ServedIs
  <2>2. InTurn(o)'
    BY <1>1, <1>3, <1>4, <1>5, <2>1 DEF InTurn, P
  <2>3. At(o, {}, {}, {}, {})'
    BY <1>5, <2>1 DEF At
  <2>4. InPlace(o)'
    BY <1>5, <2>3 DEF InPlace
  <2> QED BY <2>2, <2>4
<1>6. ASSUME NEW n \in Stations, o[2] > 1, P \in Served(n), Status(o) = "WAITING",
             Status(o)' = "READY", Here(o)' = n, Queued(o)' = {}, SetDown(o)' = {n},
             operations'[o].process_time = operations[o].process_time
      PROVE  InTurn(o)' /\ InPlace(o)'
  <2>1. InTurn(o)'
    BY <1>3, <1>4, <1>6
  <2>2. At(o, {}, {n}, {}, {})'
    BY <1>1, <1>6 DEF At, InPlace
  <2>3. n # Nothing /\ operations'[o].process_time = 0
    BY <1>1, <1>6, PacketConstants DEF InPlace
  <2>4. InPlace(o)'
    BY <1>6, <2>2, <2>3 DEF InPlace
  <2> QED BY <2>1, <2>4
<1>7. ASSUME \A n \in Stations : o[2] > 1 => P \notin Served(n),
             Status(o)' = Status(o), Here(o)' = Here(o),
             Queued(o)' = Queued(o), SetDown(o)' = SetDown(o),
             \/ operations'[o].process_time = operations[o].process_time
             \/ /\ Status(o) = "WORKING" /\ operations'[o].process_time < Duration(o, Here(o))
      PROVE  InTurn(o)' /\ InPlace(o)'
  <2>1. InTurn(o)'
    BY <1>1, <1>3, <1>4, <1>7 DEF InTurn, P
  <2>2. \A q, p, c, f : At(o, q, p, c, f)' = At(o, q, p, c, f)
    BY <1>7 DEF At
  <2>3. InPlace(o)'
    <3>1. Duration(o, Here(o))' = Duration(o, Here(o))
      BY <1>7 DEF Duration
    <3>2. \A a \in Carts : Doing(a, "unload")' = Doing(a, "unload")
      OBVIOUS
    <3>3. CASE Status(o) = "WORKING"
      BY <1>1, <1>7, <2>2, <3>1, <3>3 DEF InPlace
    <3>4. CASE Status(o) # "WORKING"
      <4>1. CASE Status(o) = "MOVING"
        <5>1. PICK a \in Carts : \/ At(o, {}, {}, {a}, {}) /\ Here(o) = Nothing /\ Doing(a, "unload")
                                 \/ At(o, {}, {Here(o)}, {}, {a}) /\ Here(o) # Nothing
          BY <1>1, <4>1 DEF InPlace
        <5>2. \/ At(o, {}, {}, {a}, {})' /\ Here(o)' = Nothing /\ Doing(a, "unload")'
              \/ At(o, {}, {Here(o)}, {}, {a})' /\ Here(o)' # Nothing
          BY <1>7, <2>2, <3>2, <5>1
        <5>3. operations'[o].process_time = 0
          BY <1>1, <1>7, <4>1 DEF InPlace
        <5> QED BY <1>7, <4>1, <5>2, <5>3 DEF InPlace
      <4>2. CASE Status(o) # "MOVING"
        BY <1>1, <1>7, <2>2, <3>4, <4>2 DEF InPlace
      <4> QED BY <4>1, <4>2
    <3> QED BY <3>3, <3>4
  <2> QED BY <2>1, <2>3
<1> QED BY <1>5, <1>6, <1>7, WorkDone DEF P

\* The operations that an AGV is told.
Todos(decided, cart, machine, a) ==
  LET mine == InOrder({o \in decided : cart[o] = a}) IN
  IF decided = {} THEN agvs[a].todo
  ELSE NewTodo(a, [i \in DOMAIN mine |-> <<mine[i], machine[mine[i]]>>])

\* What the agent decided is fresh, in one list, and for a machine that can do it.
LEMMA SliceTells ==
  ASSUME WorkInv, MachinesWork, job_list' = job_list, NEW decided,
         decided = {} \/ decided = Decided,
         NEW cart \in [decided -> Carts], NEW machine \in [decided -> Stations],
         \A o \in decided : machine[o] \in Capable(o),
         \A a \in Carts : agvs'[a].todo = Todos(decided, cart, machine, a),
         NEW a \in Carts
  PROVE  agvs'[a].todo \in Seq(Ops \X Stations) /\ Told(a)'
<1>1. \A o \in Ops : Unstarted(o) => Unstarted(o)'
  <2> SUFFICES ASSUME NEW o \in Ops, Unstarted(o) PROVE Unstarted(o)'
    OBVIOUS
  <2>1. Status(o) # "WORKING"
    BY DEF Unstarted, Status
  <2>2. \A n \in Stations : o \notin Served(n)
    BY <2>1, ServedIs
  <2> QED BY <2>2, WorkDone DEF Unstarted, Status
<1>2. \A o, m : Duration(o, m)' = Duration(o, m)
  BY DEF Duration
<1>3. CASE decided = {}
  <2>1. \A b \in Carts : agvs'[b].todo = agvs[b].todo
    BY <1>3 DEF Todos
  <2>2. Told(a) /\ agvs[a].todo \in Seq(Ops \X Stations)
    BY DEF WorkInv, WorkTyped, PlacesHold, CartType
  <2>3. \A i \in DOMAIN agvs[a].todo : agvs[a].todo[i][1] \in Ops
    BY <2>2
  <2> QED BY <1>1, <1>2, <2>1, <2>2, <2>3 DEF Told
<1>4. CASE decided # {}
  <2> DEFINE of(b) == {o \in decided : cart[o] = b}
             mine(b) == InOrder(of(b))
             todo(b) == [i \in DOMAIN mine(b) |-> <<mine(b)[i], machine[mine(b)[i]]>>]
  <2>1. decided = Decided /\ decided \subseteq Ops
    BY <1>4 DEF Decided
  <2>2. ASSUME NEW b \in Carts
        PROVE  mine(b) \in Seq(of(b)) /\ \A i, j \in DOMAIN mine(b) : mine(b)[i] = mine(b)[j] => i = j
    <3>1. IsFiniteSet(Ops) /\ \A o \in Ops : o \in Nat \X Nat
      <4>1. job_list \in Seq(Templates)
        BY DEF WorkInv, WorkTyped
      <4>2. \A o \in Ops : o[1] \in 1..Len(job_list) /\ o[2] \in Nat /\ o = <<o[1], o[2]>>
        BY <4>1, OpsAre
      <4> QED BY <4>1, <4>2, OpsAreFinite
    <3>2. of(b) \subseteq Ops
      BY <2>1
    <3>3. IsFiniteSet(of(b)) /\ of(b) \subseteq Nat \X Nat
      BY <3>1, <3>2, FS_Subset
    <3> HIDE DEF of
    <3> QED BY <3>3, InOrderIs
  <2>3. \A b \in Carts : agvs'[b].todo = todo(b)
    BY <1>4 DEF NewTodo, Todos
  <2> HIDE DEF mine
  <2>4. ASSUME NEW b \in Carts
        PROVE  /\ DOMAIN agvs'[b].todo = DOMAIN mine(b)
               /\ agvs'[b].todo \in Seq(Ops \X Stations)
               /\ \A i \in DOMAIN mine(b) :
                    /\ agvs'[b].todo[i] = <<mine(b)[i], machine[mine(b)[i]]>>
                    /\ mine(b)[i] \in decided /\ cart[mine(b)[i]] = b
    <3>2. DOMAIN mine(b) = 1..Len(mine(b)) /\ Len(mine(b)) \in Nat
          /\ \A i \in DOMAIN mine(b) : mine(b)[i] \in of(b)
      <4>1. mine(b) \in Seq(of(b))
        BY <2>2
      <4> HIDE DEF of
      <4> QED BY ONLY <4>1
    <3>1. \A i \in DOMAIN mine(b) : mine(b)[i] \in decided /\ cart[mine(b)[i]] = b
      BY <3>2
    <3>3. \A i \in DOMAIN mine(b) : todo(b)[i] \in Ops \X Stations
      BY <2>1, <3>1
    <3>4. todo(b) \in Seq(Ops \X Stations)
      BY <3>2, <3>3
    <3> QED BY <2>3, <3>1, <3>4
  <2> HIDE DEF todo
  <2>5. ASSUME NEW i \in DOMAIN mine(a)
        PROVE  /\ Unstarted(mine(a)[i])' /\ Duration(mine(a)[i], machine[mine(a)[i]])' > 0
               /\ \A b \in Carts : \A j \in DOMAIN mine(b) : mine(b)[j] = mine(a)[i] => a = b /\ i = j
    <3>1. mine(a)[i] \in Decided /\ mine(a)[i] \in Ops /\ machine[mine(a)[i]] \in Capable(mine(a)[i])
      BY <2>1, <2>4
    <3>2. Unstarted(mine(a)[i])'
      BY <1>1, <3>1 DEF Decided
    <3>3. Duration(mine(a)[i], machine[mine(a)[i]])' > 0
      BY <1>2, <3>1 DEF Capable
    <3>4. \A b \in Carts : \A j \in DOMAIN mine(b) : mine(b)[j] = mine(a)[i] => a = b /\ i = j
      <4> TAKE b \in Carts
      <4> TAKE j \in DOMAIN mine(b)
      <4> HAVE mine(b)[j] = mine(a)[i]
      <4>1. a = b
        BY <2>4
      <4>2. \A x, y \in DOMAIN mine(a) : mine(a)[x] = mine(a)[y] => x = y
        BY <2>2
      <4> QED BY <4>1, <4>2
    <3> QED BY <3>2, <3>3, <3>4
  <2> QED BY <2>4, <2>5 DEF Told
<1> QED BY <1>3, <1>4

LEMMA SliceKeeps ==
  ASSUME PacketInv, NEW decided, decided = {} \/ decided = Decided, BeginSlice(decided)
  PROVE  WorkInv'
<1> USE DEF PacketInv
<1>1. /\ MachinesWork /\ job_list' = job_list /\ Ops' = Ops
      /\ MachineType' = MachineType /\ CartType' = CartType
  BY DEF BeginSlice, Ops, MachineType, CartType
<1>2. PICK cart \in [decided -> Carts], machine \in [decided -> Stations] :
        /\ \A o \in decided : machine[o] \in Capable(o)
        /\ agvs' = [a \in Carts |-> [agvs[a] EXCEPT
                      !.time_left = (1 + lag) * Slice, !.todo = Todos(decided, cart, machine, a)]]
  BY DEF BeginSlice, Todos
<1>3. (1 + lag) * Slice \in Int
  BY PacketConstants DEF CommandsTyped
<1>4. ASSUME NEW a \in Carts
      PROVE  /\ agvs[a] \in CartType
             /\ agvs'[a] = [agvs[a] EXCEPT !.time_left = (1 + lag) * Slice,
                                           !.todo = Todos(decided, cart, machine, a)]
             /\ agvs'[a].operation = agvs[a].operation /\ agvs'[a].running = agvs[a].running
             /\ agvs'[a].todo = Todos(decided, cart, machine, a)
  <2>1. agvs[a] \in CartType
    BY DEF WorkInv, WorkTyped
  <2>2. agvs'[a] = [agvs[a] EXCEPT !.time_left = (1 + lag) * Slice,
                                   !.todo = Todos(decided, cart, machine, a)]
    BY <1>2
  <2> QED BY <2>1, <2>2 DEF CartType
<1>5. ASSUME NEW a \in Carts PROVE agvs'[a].todo \in Seq(Ops \X Stations) /\ Told(a)'
  <2>1. \A o \in decided : machine[o] \in Capable(o)
    BY <1>2
  <2>2. \A b \in Carts : agvs'[b].todo = Todos(decided, cart, machine, b)
    BY <1>4
  <2>3. WorkInv /\ (decided = {} \/ decided = Decided)
    OBVIOUS
  <2> QED BY ONLY <1>1, <1>5, <2>1, <2>2, <2>3, SliceTells,
             cart \in [decided -> Carts], machine \in [decided -> Stations]
<1>6. ASSUME NEW a \in Carts PROVE agvs'[a] \in CartType
  <2>1. PICK t, todo : t = (1 + lag) * Slice /\ todo = Todos(decided, cart, machine, a)
    OBVIOUS
  <2>2. /\ agvs[a] \in CartType /\ agvs'[a] = [agvs[a] EXCEPT !.time_left = t, !.todo = todo]
        /\ t \in Int /\ todo \in Seq(Ops \X Stations)
    BY <1>3, <1>4, <1>5, <2>1
  <2> QED BY ONLY <2>2 DEF CartType
<1>7. ASSUME NEW m \in Stations PROVE machines'[m] \in MachineType
  <2>1. machines[m] \in MachineType
    BY DEF WorkInv, WorkTyped
  <2>2. machines'[m].input_queue \in Seq(Ops)
    BY <1>1, RestIs
  <2>3. Outputs(m) \in SUBSET Ops
    BY <2>1 DEF Outputs, MachineType
  <2>a. PICK st \in MachineStatus : \E q :
          machines'[m] = [machines[m] EXCEPT !.input_queue = q, !.output_queue = Outputs(m),
                                             !.status = st]
    <3> DEFINE q == machines[m].input_queue
               st == IF q = <<>> \/ ~Available(m) THEN machines[m].status
                     ELSE IF Begun(m) = {} THEN "READY" ELSE "WORKING"
    <3>1. machines'[m] = [machines[m] EXCEPT
                            !.input_queue = SubSeq(q, Cardinality(Completed(m)) + 1, Len(q)),
                            !.output_queue = Outputs(m), !.status = st]
      BY <1>1 DEF MachinesWork
    <3>2. st \in MachineStatus
      BY <2>1 DEF MachineType, MachineStatus
    <3> HIDE DEF st
    <3> QED BY <3>1, <3>2
  <2>4. PICK q :
          machines'[m] = [machines[m] EXCEPT !.input_queue = q, !.output_queue = Outputs(m),
                                             !.status = st]
    BY <2>a
  <2>5. machines'[m].input_queue = q
    BY <2>1, <2>4 DEF MachineType
  <2> QED BY <2>1, <2>2, <2>3, <2>4, <2>5 DEF MachineType
<1>8. WorkTyped'
  <2>1. \A o \in Ops : operations'[o] \in OperationType
    BY <1>1, WorkDone
  <2>2. /\ operations' = [o \in Ops |-> operations'[o]] /\ machines' = [m \in Stations |-> machines'[m]]
        /\ agvs' = [a \in Carts |-> agvs'[a]]
    BY <1>1, <1>2 DEF MachinesWork
  <2>3. job_list \in Seq(Templates)
    BY DEF WorkInv, WorkTyped
  <2> QED BY <1>1, <1>6, <1>7, <2>1, <2>2, <2>3 DEF WorkTyped
<1>9. \A o : Aboard(o)' = Aboard(o) /\ Fetching(o)' = Fetching(o)
  BY <1>4 DEF Aboard, Fetching, Doing, Target
<1>10. \A a \in Carts : Doing(a, "unload")' = Doing(a, "unload")
  BY <1>4 DEF Doing
<1>11. OperationsHold'
  BY <1>1, <1>9, <1>10, SliceKeepsOperations DEF OperationsHold
<1>12. ASSUME NEW a \in Carts PROVE Charged(a)'
  <2>1. Charged(a)
    BY DEF WorkInv, PlacesHold
  <2>2. \A o, m : Duration(o, m)' = Duration(o, m)
    BY <1>1 DEF Duration
  <2> QED BY <1>1, <1>4, <2>1, <2>2 DEF Charged
<1>13. PlacesHold'
  BY <1>1, <1>5, <1>12, RestIs DEF PlacesHold
<1> QED BY <1>8, <1>11, <1>13 DEF WorkInv

-----------------------------------------------------------------------------
(* The steps of an AGV.                                                    *)

\* AGV a moves operation o on, from ready or working to another such status.
Moves(a, o) ==
  /\ job_list' = job_list /\ machines' \in [Stations -> MachineType]
  /\ agvs' \in [Carts -> CartType] /\ operations' \in [Ops -> OperationType]
  /\ \A p \in Ops \ {o} : operations'[p] = operations[p]
  /\ Status(o) \notin {"WAITING", "FINISHED"} /\ Status(o)' \in {"MOVING", "WORKING"}
  /\ \A p \in Ops \ {o} : /\ Queued(p)' = Queued(p) /\ SetDown(p)' = SetDown(p)
                          /\ Aboard(p)' = Aboard(p) /\ Fetching(p)' = Fetching(p)
  /\ \A b \in Carts \ {a} : agvs'[b] = agvs[b]
  /\ agvs[a].operation \in {o, Nothing}

LEMMA MovesKeep ==
  ASSUME WorkInv, NEW a \in Carts, NEW o \in Ops, Moves(a, o), InPlace(o)'
  PROVE  WorkTyped' /\ OperationsHold'
<1>1. Ops' = Ops /\ MachineType' = MachineType /\ CartType' = CartType
  BY DEF Moves, Ops, MachineType, CartType
<1>2. WorkTyped'
  BY <1>1 DEF Moves, WorkInv, WorkTyped
<1>3. ASSUME NEW p \in Ops PROVE InTurn(p)'
  <2>1. InTurn(p) /\ (p[2] > 1 => Predecessor(p) \in Ops)
    BY OpsAre DEF WorkInv, WorkTyped, OperationsHold
  <2>2. \A x \in Ops : /\ Status(x)' = "WAITING" <=> Status(x) = "WAITING"
                       /\ Status(x)' = "FINISHED" <=> Status(x) = "FINISHED"
    BY DEF Moves, Status
  <2>3. Predecessor(p)' = Predecessor(p)
    BY DEF Predecessor
  <2> QED BY <2>1, <2>2, <2>3 DEF InTurn
<1>4. ASSUME NEW p \in Ops \ {o} PROVE InPlace(p)'
  <2>1. InPlace(p) /\ p # Nothing
    BY OpsAre DEF WorkInv, WorkTyped, OperationsHold
  <2>2. operations'[p] = operations[p] /\ Status(p)' = Status(p) /\ Here(p)' = Here(p)
    BY DEF Moves, Status, Here
  <2>3. Duration(p, Here(p))' = Duration(p, Here(p))
    BY <2>2 DEF Duration, Moves
  <2>4. \A q, l, c, f : At(p, q, l, c, f)' = At(p, q, l, c, f)
    BY DEF At, Moves
  <2>5. \A b \in Carts : At(p, {}, {}, {b}, {}) /\ Doing(b, "unload") => Doing(b, "unload")'
    <3> SUFFICES ASSUME NEW b \in Carts, At(p, {}, {}, {b}, {}), Doing(b, "unload")
                 PROVE  Doing(b, "unload")'
      OBVIOUS
    <3>1. agvs[b].operation = p
      BY DEF At, Aboard
    <3>2. b # a
      BY <2>1, <3>1 DEF Moves
    <3>3. agvs'[b] = agvs[b]
      BY <3>2 DEF Moves
    <3> QED BY <3>3 DEF Doing
  <2>6. CASE Status(p) = "MOVING"
    <3>1. PICK b \in Carts : \/ At(p, {}, {}, {b}, {}) /\ Here(p) = Nothing /\ Doing(b, "unload")
                             \/ At(p, {}, {Here(p)}, {}, {b}) /\ Here(p) # Nothing
      BY <2>1, <2>6 DEF InPlace
    <3>2. \/ At(p, {}, {}, {b}, {})' /\ Here(p)' = Nothing /\ Doing(b, "unload")'
          \/ At(p, {}, {Here(p)}, {}, {b})' /\ Here(p)' # Nothing
      BY <2>2, <2>4, <2>5, <3>1
    <3>3. operations'[p].process_time = 0
      BY <2>1, <2>2, <2>6 DEF InPlace
    <3> QED BY <2>2, <2>6, <3>2, <3>3 DEF InPlace
  <2>7. CASE Status(p) = "WORKING"
    BY <2>1, <2>2, <2>3, <2>4, <2>7 DEF InPlace
  <2>8. CASE Status(p) \notin {"MOVING", "WORKING"}
    BY <2>1, <2>2, <2>4, <2>8 DEF InPlace
  <2> QED BY <2>6, <2>7, <2>8
<1> QED BY <1>1, <1>2, <1>3, <1>4 DEF OperationsHold

\* Lists of things to do from which at most the first is taken.
LEMMA ToldStays ==
  ASSUME WorkInv, NEW a \in Carts, NEW o \in Ops, Moves(a, o),
         \/ Status(o) = "MOVING" /\ agvs'[a].todo = agvs[a].todo
         \/ /\ agvs[a].todo # <<>> /\ Head(agvs[a].todo)[1] = o
            /\ agvs'[a].todo = Tail(agvs[a].todo),
         NEW b \in Carts
  PROVE  Told(b)'
<1>1. \A m : \A p \in Ops : Duration(p, m)' = Duration(p, m)
  BY DEF Moves, Duration
<1>2. \A p \in Ops \ {o} : Unstarted(p)' = Unstarted(p)
  BY DEF Moves, Unstarted
<1>3. \A c \in Carts : /\ Told(c) /\ agvs[c].todo \in Seq(Ops \X Stations)
                       /\ Len(agvs[c].todo) \in Nat /\ DOMAIN agvs[c].todo = 1..Len(agvs[c].todo)
                       /\ \A i \in DOMAIN agvs[c].todo : agvs[c].todo[i][1] \in Ops
  <2> TAKE c \in Carts
  <2>1. Told(c) /\ agvs[c].todo \in Seq(Ops \X Stations)
    BY DEF WorkInv, WorkTyped, PlacesHold, CartType
  <2>2. \A q \in Seq(Ops \X Stations) : /\ Len(q) \in Nat /\ DOMAIN q = 1..Len(q)
                                         /\ \A i \in DOMAIN q : q[i][1] \in Ops
    OBVIOUS
  <2> QED BY <2>1, <2>2
<1>4. \A c \in Carts \ {a} : agvs'[c].todo = agvs[c].todo
  BY DEF Moves
\* Nobody else has the operation to do.
<1>5. CASE Status(o) = "MOVING" /\ agvs'[a].todo = agvs[a].todo
  <2>1. \A c \in Carts : \A i \in DOMAIN agvs[c].todo : agvs[c].todo[i][1] # o
    BY <1>3, <1>5 DEF Told, Unstarted, Status
  <2>2. \A c \in Carts : agvs'[c].todo = agvs[c].todo
    BY <1>4, <1>5
  <2>3. ASSUME NEW i \in DOMAIN agvs[b].todo, NEW p, p = agvs[b].todo[i][1],
               NEW m, m = agvs[b].todo[i][2]
        PROVE  /\ Unstarted(p)' /\ Duration(p, m)' > 0
               /\ \A c \in Carts : \A j \in DOMAIN agvs[c].todo :
                    agvs[c].todo[j][1] = p => b = c /\ i = j
    <3>1. p \in Ops \ {o}
      BY <1>3, <2>1, <2>3
    <3>2. /\ Unstarted(p) /\ Duration(p, m) > 0
          /\ \A c \in Carts : \A j \in DOMAIN agvs[c].todo :
               agvs[c].todo[j][1] = p => b = c /\ i = j
      BY <1>3, <2>3 DEF Told
    <3> QED BY <1>1, <1>2, <3>1, <3>2
  <2> QED BY <2>2, <2>3 DEF Told
<1>6. CASE /\ agvs[a].todo # <<>> /\ Head(agvs[a].todo)[1] = o
           /\ agvs'[a].todo = Tail(agvs[a].todo)
  <2> DEFINE at(c, i) == IF c = a THEN i + 1 ELSE i
  <2>1. 1 \in DOMAIN agvs[a].todo /\ agvs[a].todo[1][1] = o
    BY <1>3, <1>6
  <2>2. ASSUME NEW c \in Carts, NEW i \in DOMAIN agvs'[c].todo
        PROVE  /\ i \in Nat /\ i >= 1 /\ at(c, i) \in DOMAIN agvs[c].todo
               /\ agvs'[c].todo[i] = agvs[c].todo[at(c, i)]
               /\ c # a \/ at(c, i) # 1
    <3>1. CASE c = a
      <4>1. /\ DOMAIN Tail(agvs[a].todo) = 1..(Len(agvs[a].todo) - 1)
            /\ \A j \in 1..(Len(agvs[a].todo) - 1) : Tail(agvs[a].todo)[j] = agvs[a].todo[j + 1]
        BY <1>3, <1>6
      <4>2. agvs'[c].todo = Tail(agvs[a].todo) /\ i \in 1..(Len(agvs[a].todo) - 1)
        BY <1>6, <2>2, <3>1, <4>1
      <4>3. i \in Nat /\ i >= 1 /\ i + 1 \in 1..Len(agvs[a].todo) /\ i + 1 # 1
        BY <1>3, <4>2
      <4> QED BY <1>3, <3>1, <4>1, <4>2, <4>3
    <3>2. CASE c # a
      BY <1>3, <1>4, <2>2, <3>2
    <3> QED BY <3>1, <3>2
  <2>3. ASSUME NEW c \in Carts, NEW i \in DOMAIN agvs'[c].todo
        PROVE  agvs'[c].todo[i][1] # o
    <3>1. /\ at(c, i) \in DOMAIN agvs[c].todo /\ agvs'[c].todo[i] = agvs[c].todo[at(c, i)]
          /\ c # a \/ at(c, i) # 1
      BY <2>2
    <3> HIDE DEF at
    <3> QED BY <1>3, <2>1, <3>1 DEF Told
  <2>4. ASSUME NEW i \in DOMAIN agvs'[b].todo, NEW p, p = agvs'[b].todo[i][1],
               NEW m, m = agvs'[b].todo[i][2]
        PROVE  /\ Unstarted(p)' /\ Duration(p, m)' > 0
               /\ \A c \in Carts : \A j \in DOMAIN agvs'[c].todo :
                    agvs'[c].todo[j][1] = p => b = c /\ i = j
    <3>1. /\ at(b, i) \in DOMAIN agvs[b].todo /\ agvs'[b].todo[i] = agvs[b].todo[at(b, i)]
          /\ p \in Ops /\ p # o
      BY <1>3, <2>2, <2>3, <2>4
    <3>2. Unstarted(p) /\ Duration(p, m) > 0
      <4> HIDE DEF at
      <4> QED BY <1>3, <2>4, <3>1 DEF Told
    <3>3. ASSUME NEW c \in Carts, NEW j \in DOMAIN agvs'[c].todo, agvs'[c].todo[j][1] = p
          PROVE  b = c /\ i = j
      <4>1. /\ at(c, j) \in DOMAIN agvs[c].todo /\ agvs'[c].todo[j] = agvs[c].todo[at(c, j)]
            /\ i \in Nat /\ j \in Nat
        BY <2>2
      <4>2. b = c /\ at(b, i) = at(c, j)
        <5> HIDE DEF at
        <5> QED BY <1>3, <2>4, <3>1, <3>3, <4>1 DEF Told
      <4> QED BY <4>1, <4>2
    <3> QED BY <1>1, <1>2, <3>1, <3>2, <3>3
  <2> QED BY <2>4 DEF Told
<1> QED BY <1>5, <1>6

LEMMA MovesKeepWork ==
  ASSUME WorkInv, NEW a \in Carts, NEW o \in Ops, Moves(a, o), InPlace(o)', Charged(a)',
         \/ Status(o) = "MOVING" /\ agvs'[a].todo = agvs[a].todo
         \/ /\ agvs[a].todo # <<>> /\ Head(agvs[a].todo)[1] = o
            /\ agvs'[a].todo = Tail(agvs[a].todo),
         \A m \in Stations : NoneTwice(m)'
  PROVE  WorkInv'
<1>1. ASSUME NEW b \in Carts \ {a} PROVE Charged(b)'
  <2>1. Charged(b)
    BY DEF WorkInv, PlacesHold
  <2>2. /\ agvs'[b] = agvs[b] /\ Ops' = Ops
        /\ \A p, m : Duration(p, m)' = Duration(p, m)
    BY DEF Moves, Ops, Duration
  <2> QED BY <2>1, <2>2 DEF Charged
<1>2. \A b \in Carts : Told(b)'
  BY ToldStays
<1> QED BY <1>1, <1>2, MovesKeep DEF WorkInv, PlacesHold

\* An AGV that fetches has the operation to itself, and so has one that carries it.
LEMMA FetchingIs ==
  ASSUME WorkInv, NEW a \in Carts, Doing(a, "load"), NEW o, o = Target(a)
  PROVE  /\ o \in Ops /\ agvs[a].operation = Nothing
         /\ Status(o) = "MOVING" /\ At(o, {}, {Here(o)}, {}, {a}) /\ Here(o) \in Stations
         /\ operations[o].process_time = 0
         /\ \E m \in Stations :
              /\ agvs[a].running = <<<<"load", o>>, <<"unload", m>>>> /\ Duration(o, m) > 0
<1>1. Charged(a)
  BY DEF WorkInv, PlacesHold
<1>2. PICK m \in Stations, p \in Ops :
        /\ agvs[a].running = <<<<"load", p>>, <<"unload", m>>>>
        /\ agvs[a].operation = Nothing /\ Duration(p, m) > 0
  BY <1>1 DEF Charged, Doing
<1>3. p = o
  BY <1>2 DEF Target
<1>4. a \in Fetching(o)
  BY DEF Fetching
<1>5. InPlace(o) /\ operations[o] \in OperationType
  BY <1>3 DEF WorkInv, WorkTyped, OperationsHold
<1>6. Status(o) = "MOVING"
  BY <1>4, <1>5 DEF InPlace, At, OperationType, OpStatus, Status
<1>7. At(o, {}, {Here(o)}, {}, {a}) /\ Here(o) # Nothing
  BY <1>4, <1>5, <1>6 DEF InPlace, At
<1>8. Here(o) \in Stations
  BY <1>5, <1>7 DEF OperationType, Here
<1> QED BY <1>2, <1>3, <1>5, <1>6, <1>7, <1>8 DEF InPlace

LEMMA CarryingIs ==
  ASSUME WorkInv, NEW a \in Carts, Doing(a, "unload"), NEW o, o = agvs[a].operation,
         NEW m, m = Target(a)
  PROVE  /\ o \in Ops /\ m \in Stations /\ agvs[a].running = <<<<"unload", m>>>>
         /\ Duration(o, m) > 0
         /\ Status(o) = "MOVING" /\ At(o, {}, {}, {a}, {}) /\ Here(o) = Nothing
         /\ operations[o].process_time = 0
<1>1. Charged(a)
  BY DEF WorkInv, PlacesHold
<1>2. PICK n \in Stations :
        /\ agvs[a].running = <<<<"unload", n>>>>
        /\ agvs[a].operation \in Ops /\ Duration(agvs[a].operation, n) > 0
  BY <1>1 DEF Charged, Doing
<1>3. n = m
  BY <1>2 DEF Target
<1>4. a \in Aboard(o)
  BY DEF Aboard
<1>5. InPlace(o) /\ operations[o] \in OperationType
  BY <1>2 DEF WorkInv, WorkTyped, OperationsHold
<1>6. Status(o) = "MOVING"
  BY <1>4, <1>5 DEF InPlace, At, OperationType, OpStatus, Status
<1>7. At(o, {}, {}, {a}, {}) /\ Here(o) = Nothing
  BY <1>4, <1>5, <1>6 DEF InPlace, At
<1> QED BY <1>2, <1>3, <1>5, <1>6, <1>7 DEF InPlace

\* The lists of an AGV, which few steps look into.
TodoLists == Seq(Ops \X Stations)
RunningLists == Seq(({"load"} \X Ops) \cup ({"unload"} \X Stations))
Histories == Seq(Passages)

LEMMA CartIs ==
  CartType = [status : CartStatus, point : DOMAIN Travel, gone : Int,
              operation : Ops \cup {Nothing}, todo : TodoLists, running : RunningLists,
              time_left : Int, history : Histories]
BY DEF CartType, TodoLists, RunningLists, Histories

LEMMA TakeKeeps ==
  ASSUME WorkInv, NEW a \in Carts, TakeTask(a), job_list' = job_list
  PROVE  WorkInv'
<1> DEFINE todo == agvs[a].todo
<1>0. PICK o, m : o = Head(todo)[1] /\ m = Head(todo)[2]
  OBVIOUS
<1>1. /\ agvs[a] \in CartType /\ todo \in Seq(Ops \X Stations) /\ todo # <<>>
      /\ Tail(todo) \in Seq(Ops \X Stations) /\ Head(todo) \in Ops \X Stations
      /\ todo[1] = Head(todo) /\ 1 \in DOMAIN todo
      /\ agvs[a].running = <<>> /\ agvs[a].operation = Nothing
  <2>1. agvs[a] \in CartType /\ Charged(a)
    BY DEF WorkInv, WorkTyped, PlacesHold
  <2>2. todo \in Seq(Ops \X Stations) /\ todo # <<>> /\ agvs[a].running = <<>>
    BY <2>1 DEF CartType, TakeTask, MayTake
  <2>3. agvs[a].operation = Nothing
    BY <2>1, <2>2 DEF Charged
  <2> HIDE DEF todo
  <2>4. /\ Tail(todo) \in Seq(Ops \X Stations) /\ Head(todo) \in Ops \X Stations
        /\ todo[1] = Head(todo) /\ 1 \in DOMAIN todo
    BY <2>2
  <2> QED BY <2>1, <2>2, <2>3, <2>4
<1>2. /\ o \in Ops /\ m \in Stations /\ Status(o) = "READY" /\ Duration(o, m) > 0
      /\ InPlace(o) /\ operations[o] \in OperationType /\ o # Nothing
      /\ operations' = [operations EXCEPT ![o].status = "MOVING"] /\ machines' = machines
  <2>1. Told(a)
    BY DEF WorkInv, PlacesHold
  <2>2. o \in Ops /\ m \in Stations
    BY <1>0, <1>1
  <2> QED BY <1>0, <1>1, <2>1, <2>2, OpsAre
          DEF Told, TakeTask, MayTake, Status, WorkInv, WorkTyped, OperationsHold
<1>3. agvs' = IF Here(o) = Nothing
              THEN [agvs EXCEPT ![a].operation = o, ![a].status = "LOADED",
                      ![a].todo = Tail(@), ![a].running = <<<<"unload", m>>>>]
              ELSE [agvs EXCEPT ![a].todo = Tail(@),
                      ![a].running = <<<<"load", o>>, <<"unload", m>>>>]
  BY <1>0 DEF TakeTask, Here
<1>4. /\ operations' \in [Ops -> OperationType]
      /\ \A p \in Ops \ {o} : operations'[p] = operations[p]
      /\ Status(o)' = "MOVING" /\ Here(o)' = Here(o) /\ operations'[o].process_time = 0
  <2>1. operations'[o] = [operations[o] EXCEPT !.status = "MOVING"]
    BY <1>2 DEF WorkInv, WorkTyped
  <2>2. operations'[o] \in OperationType
    BY <1>2, <2>1 DEF OperationType, OpStatus
  <2>3. operations[o].process_time = 0
    BY <1>2 DEF InPlace
  <2>4. Status(o)' = "MOVING" /\ Here(o)' = Here(o) /\ operations'[o].process_time = 0
    BY <1>2, <2>1, <2>3 DEF OperationType, Status, Here
  <2>5. /\ operations' = [p \in Ops |-> operations'[p]]
        /\ \A p \in Ops \ {o} : operations'[p] = operations[p]
    BY <1>2 DEF WorkInv, WorkTyped
  <2>6. \A p \in Ops : operations'[p] \in OperationType
    BY <2>2, <2>5 DEF WorkInv, WorkTyped
  <2> QED BY <2>4, <2>5, <2>6
<1>5. \A b \in Carts \ {a} : agvs'[b] = agvs[b]
  BY <1>3 DEF WorkInv, WorkTyped
<1>6. /\ agvs'[a] \in CartType /\ agvs'[a].todo = Tail(todo)
      /\ IF Here(o) = Nothing
         THEN agvs'[a].operation = o /\ agvs'[a].running = <<<<"unload", m>>>>
         ELSE /\ agvs'[a].operation = Nothing
              /\ agvs'[a].running = <<<<"load", o>>, <<"unload", m>>>>
  <2>1. CASE Here(o) = Nothing
    <3>1. agvs'[a] = [agvs[a] EXCEPT !.operation = o, !.status = "LOADED",
                        !.todo = Tail(todo), !.running = <<<<"unload", m>>>>]
      BY <1>3, <2>1 DEF WorkInv, WorkTyped
    <3>2. <<<<"unload", m>>>> \in Seq(({"load"} \X Ops) \cup ({"unload"} \X Stations))
      BY <1>2
    <3>3. PICK t, r : t = Tail(todo) /\ r = <<<<"unload", m>>>>
      OBVIOUS
    <3>4. /\ agvs[a] \in CartType /\ o \in Ops /\ t \in TodoLists /\ r \in RunningLists
          /\ agvs'[a] = [agvs[a] EXCEPT !.operation = o, !.status = "LOADED",
                           !.todo = t, !.running = r]
      BY <1>1, <1>2, <3>1, <3>2, <3>3 DEF TodoLists, RunningLists
    <3>5. agvs'[a] \in CartType /\ agvs'[a].todo = t
          /\ agvs'[a].operation = o /\ agvs'[a].running = r
      BY ONLY <3>4, CartIs DEF CartStatus
    <3> QED BY <2>1, <3>3, <3>5
  <2>2. CASE Here(o) # Nothing
    <3>1. agvs'[a] = [agvs[a] EXCEPT !.todo = Tail(todo),
                        !.running = <<<<"load", o>>, <<"unload", m>>>>]
      BY <1>3, <2>2 DEF WorkInv, WorkTyped
    <3>2. <<<<"load", o>>, <<"unload", m>>>>
            \in Seq(({"load"} \X Ops) \cup ({"unload"} \X Stations))
      BY <1>2
    <3> HIDE DEF todo
    <3> QED BY <1>1, <1>2, <2>2, <3>1, <3>2 DEF CartType
  <2> QED BY <2>1, <2>2
<1>7. agvs' \in [Carts -> CartType]
  <2>1. agvs' = [b \in Carts |-> agvs'[b]]
    BY <1>3 DEF WorkInv, WorkTyped
  <2>2. \A b \in Carts : agvs'[b] \in CartType
    BY <1>5, <1>6 DEF WorkInv, WorkTyped
  <2> QED BY <2>1, <2>2
<1>8. ASSUME NEW p \in Ops
      PROVE  /\ Queued(p)' = Queued(p) /\ SetDown(p)' = SetDown(p)
             /\ \A b \in Carts \ {a} : /\ b \in Aboard(p)' <=> b \in Aboard(p)
                                       /\ b \in Fetching(p)' <=> b \in Fetching(p)
             /\ a \notin Aboard(p) /\ a \notin Fetching(p)
             /\ a \in Aboard(p)' <=> Here(o) = Nothing /\ p = o
             /\ a \in Fetching(p)' <=> Here(o) # Nothing /\ p = o
  <2>1. p # Nothing
    BY OpsAre DEF WorkInv, WorkTyped
  <2>2. Queued(p)' = Queued(p) /\ SetDown(p)' = SetDown(p)
    BY <1>2 DEF Queued, SetDown
  <2>3. \A b \in Carts \ {a} : /\ b \in Aboard(p)' <=> b \in Aboard(p)
                               /\ b \in Fetching(p)' <=> b \in Fetching(p)
    BY <1>5 DEF Aboard, Fetching, Doing, Target
  <2>4. a \notin Aboard(p) /\ a \notin Fetching(p)
    BY <1>1, <2>1 DEF Aboard, Fetching, Doing
  <2>5. a \in Aboard(p)' <=> Here(o) = Nothing /\ p = o
    BY <1>6, <2>1 DEF Aboard
  <2>6. a \in Fetching(p)' <=> Here(o) # Nothing /\ p = o
    BY <1>6, <2>1 DEF Fetching, Doing, Target
  <2> QED BY <2>2, <2>3, <2>4, <2>5, <2>6
<1>9. \A p \in Ops : Aboard(p) \subseteq Carts /\ Fetching(p) \subseteq Carts
                     /\ Aboard(p)' \subseteq Carts /\ Fetching(p)' \subseteq Carts
  BY DEF Aboard, Fetching
<1>10. Moves(a, o)
  <2>1. \A p \in Ops \ {o} : /\ Queued(p)' = Queued(p) /\ SetDown(p)' = SetDown(p)
                             /\ Aboard(p)' = Aboard(p) /\ Fetching(p)' = Fetching(p)
    BY <1>8, <1>9
  <2>2. machines' \in [Stations -> MachineType]
    BY <1>2 DEF WorkInv, WorkTyped
  <2> QED BY <1>1, <1>2, <1>4, <1>5, <1>7, <2>1, <2>2 DEF Moves
<1>11. InPlace(o)'
  <2>1. At(o, {}, IF Here(o) = Nothing THEN {} ELSE {Here(o)}, {}, {})
    BY <1>2 DEF InPlace
  <2>2. CASE Here(o) = Nothing
    <3>1. At(o, {}, {}, {a}, {})'
      BY <1>2, <1>8, <1>9, <2>1, <2>2 DEF At
    <3>2. Doing(a, "unload")'
      <4>1. agvs'[a].running = <<<<"unload", m>>>>
        BY <1>6, <2>2
      <4> QED BY ONLY <4>1 DEF Doing
    <3> QED BY <1>4, <2>2, <3>1, <3>2 DEF InPlace
  <2>3. CASE Here(o) # Nothing
    <3>1. At(o, {}, {Here(o)}, {}, {a})'
      BY <1>2, <1>4, <1>8, <1>9, <2>1, <2>3 DEF At
    <3> QED BY <1>4, <2>3, <3>1 DEF InPlace
  <2> QED BY <2>2, <2>3
<1>12. Charged(a)'
  <2>1. Ops' = Ops /\ Duration(o, m)' = Duration(o, m)
    BY DEF Ops, Duration
  <2> QED BY <1>2, <1>6, <2>1 DEF Charged
<1>13. \A n \in Stations : NoneTwice(n)'
  BY <1>2 DEF WorkInv, PlacesHold, NoneTwice
<1> QED BY <1>0, <1>1, <1>2, <1>6, <1>10, <1>11, <1>12, <1>13, MovesKeepWork

LEMMA ApproachKeeps ==
  ASSUME WorkInv, NEW a \in Carts, NEW status \in CartStatus, Approach(a, status),
         UNCHANGED <<job_list, operations, machines>>
  PROVE  WorkInv'
<1>1. Ops' = Ops /\ MachineType' = MachineType /\ CartType' = CartType
  BY DEF Ops, MachineType, CartType
<1>2. /\ agvs[a] \in CartType
      /\ agvs'[a] = [agvs[a] EXCEPT !.gone = @ + agvs[a].time_left, !.time_left = 0,
                                    !.status = status]
      /\ agvs' = [b \in Carts |-> agvs'[b]] /\ \A b \in Carts \ {a} : agvs'[b] = agvs[b]
  BY DEF Approach, WorkInv, WorkTyped
<1>3. agvs[a].gone + agvs[a].time_left \in Int /\ 0 \in Int
  BY <1>2 DEF CartType
<1>4. /\ agvs'[a] \in CartType /\ agvs'[a].operation = agvs[a].operation
      /\ agvs'[a].todo = agvs[a].todo /\ agvs'[a].running = agvs[a].running
  BY <1>2, <1>3 DEF CartType
<1>5. agvs' \in [Carts -> CartType]
  <2>1. \A b \in Carts : agvs'[b] \in CartType
    BY <1>2, <1>4 DEF WorkInv, WorkTyped
  <2> QED BY <1>2, <2>1
<1>6. WorkTyped'
  BY <1>1, <1>5 DEF WorkInv, WorkTyped
<1>7. SameWork
  BY <1>2, <1>4 DEF SameWork
<1> QED BY <1>6, <1>7, SameWorkKeeps

LEMMA LoadKeeps ==
  ASSUME WorkInv, NEW a \in Carts, Load(a), job_list' = job_list
  PROVE  WorkInv'
<1>0. PICK o, m : o = Target(a) /\ m = Here(o)
  OBVIOUS
<1>1. Doing(a, "load")
  BY DEF Load, MayLoad
<1>2. /\ o \in Ops /\ agvs[a].operation = Nothing
      /\ Status(o) = "MOVING" /\ At(o, {}, {m}, {}, {a}) /\ m \in Stations
      /\ operations[o].process_time = 0
  BY <1>0, <1>1, FetchingIs
<1>3. PICK n \in Stations :
        agvs[a].running = <<<<"load", o>>, <<"unload", n>>>> /\ Duration(o, n) > 0
  BY <1>0, <1>1, FetchingIs
<1>4. CASE ~Reaches(a, m)
  BY <1>0, <1>4, ApproachKeeps DEF Load, Here, CartStatus
<1>5. CASE Reaches(a, m)
  <2>1. /\ agvs' = [agvs EXCEPT ![a].status = "LOADED", ![a].operation = o,
                      ![a].point = StationPoint[m], ![a].gone = 0, ![a].time_left = 0,
                      ![a].running = Tail(@)]
        /\ operations' = [operations EXCEPT ![o].current_machine = Nothing]
        /\ machines' = [machines EXCEPT ![m].output_queue = @ \ {o}]
    BY <1>0, <1>5 DEF Load, Here
  <2>2. /\ agvs[a] \in CartType /\ operations[o] \in OperationType /\ machines[m] \in MachineType
        /\ o # Nothing
    BY <1>2, OpsAre DEF WorkInv, WorkTyped
  <2>3. /\ operations' \in [Ops -> OperationType]
        /\ \A p \in Ops \ {o} : operations'[p] = operations[p]
        /\ Status(o)' = "MOVING" /\ Here(o)' = Nothing /\ operations'[o].process_time = 0
    <3>1. operations'[o] = [operations[o] EXCEPT !.current_machine = Nothing]
      BY <1>2, <2>1 DEF WorkInv, WorkTyped
    <3>2. operations'[o] \in OperationType
      BY <2>2, <3>1 DEF OperationType
    <3>3. Status(o)' = "MOVING" /\ Here(o)' = Nothing /\ operations'[o].process_time = 0
      BY <1>2, <2>2, <3>1 DEF OperationType, Status, Here
    <3>4. /\ operations' = [p \in Ops |-> operations'[p]]
          /\ \A p \in Ops \ {o} : operations'[p] = operations[p]
      BY <2>1 DEF WorkInv, WorkTyped
    <3>5. \A p \in Ops : operations'[p] \in OperationType
      BY <3>2, <3>4 DEF WorkInv, WorkTyped
    <3> QED BY <3>3, <3>4, <3>5
  <2>4. /\ machines' \in [Stations -> MachineType]
        /\ \A x \in Stations : machines'[x].input_queue = machines[x].input_queue
        /\ \A x \in Stations \ {m} : machines'[x].output_queue = machines[x].output_queue
        /\ machines'[m].output_queue = machines[m].output_queue \ {o}
    <3>1. machines'[m] = [machines[m] EXCEPT !.output_queue = @ \ {o}]
      BY <1>2, <2>1 DEF WorkInv, WorkTyped
    <3>2. /\ machines'[m] \in MachineType
          /\ machines'[m].output_queue = machines[m].output_queue \ {o}
          /\ machines'[m].input_queue = machines[m].input_queue
      BY <2>2, <3>1 DEF MachineType
    <3>3. /\ machines' = [x \in Stations |-> machines'[x]]
          /\ \A x \in Stations \ {m} : machines'[x] = machines[x]
      BY <2>1 DEF WorkInv, WorkTyped
    <3>4. \A x \in Stations : machines'[x] \in MachineType
      BY <3>2, <3>3 DEF WorkInv, WorkTyped
    <3> QED BY <3>2, <3>3, <3>4
  <2>5. \A b \in Carts \ {a} : agvs'[b] = agvs[b]
    BY <2>1 DEF WorkInv, WorkTyped
  <2>6. /\ agvs'[a] \in CartType /\ agvs'[a].todo = agvs[a].todo
        /\ agvs'[a].operation = o /\ agvs'[a].running = <<<<"unload", n>>>>
    <3>1. agvs'[a] = [agvs[a] EXCEPT !.status = "LOADED", !.operation = o,
                        !.point = StationPoint[m], !.gone = 0, !.time_left = 0,
                        !.running = Tail(@)]
      BY <2>1 DEF WorkInv, WorkTyped
    <3>2. Tail(agvs[a].running) = <<<<"unload", n>>>>
      BY <1>3
    <3>3. <<<<"unload", n>>>> \in Seq(({"load"} \X Ops) \cup ({"unload"} \X Stations))
      OBVIOUS
    <3>4. StationPoint[m] \in DOMAIN Travel /\ 0 \in Int
      BY <1>2, PacketConstants
    <3>5. agvs'[a] = [agvs[a] EXCEPT !.status = "LOADED", !.operation = o,
                        !.point = StationPoint[m], !.gone = 0, !.time_left = 0,
                        !.running = <<<<"unload", n>>>>]
      BY <2>2, <3>1, <3>2
    <3> QED BY <1>2, <2>2, <3>3, <3>4, <3>5 DEF CartType, CartStatus
  <2>7. agvs' \in [Carts -> CartType]
    <3>1. agvs' = [b \in Carts |-> agvs'[b]]
      BY <2>1 DEF WorkInv, WorkTyped
    <3>2. \A b \in Carts : agvs'[b] \in CartType
      BY <2>5, <2>6 DEF WorkInv, WorkTyped
    <3> QED BY <3>1, <3>2
  <2>8. ASSUME NEW p \in Ops
        PROVE  /\ Queued(p)' = Queued(p)
               /\ \A x \in Stations : x \in SetDown(p)' <=> x \in SetDown(p) /\ (x # m \/ p # o)
               /\ \A b \in Carts \ {a} : /\ b \in Aboard(p)' <=> b \in Aboard(p)
                                         /\ b \in Fetching(p)' <=> b \in Fetching(p)
               /\ a \notin Aboard(p) /\ a \notin Fetching(p)'
               /\ a \in Fetching(p) <=> p = o
               /\ a \in Aboard(p)' <=> p = o
    <3>1. p # Nothing
      BY OpsAre DEF WorkInv, WorkTyped
    <3>2. Queued(p)' = Queued(p)
      BY <2>4 DEF Queued
    <3>3. \A x \in Stations : x \in SetDown(p)' <=> x \in SetDown(p) /\ (x # m \/ p # o)
      BY <2>4 DEF SetDown
    <3>4. \A b \in Carts \ {a} : /\ b \in Aboard(p)' <=> b \in Aboard(p)
                                 /\ b \in Fetching(p)' <=> b \in Fetching(p)
      BY <2>5 DEF Aboard, Fetching, Doing, Target
    <3>5. a \notin Aboard(p) /\ (a \in Fetching(p) <=> p = o)
      BY <1>0, <1>1, <1>2, <3>1 DEF Aboard, Fetching
    <3>6. a \in Aboard(p)' <=> p = o
      BY <2>6 DEF Aboard
    <3>7. a \notin Fetching(p)'
      BY <2>6 DEF Fetching, Doing
    <3> QED BY <3>2, <3>3, <3>4, <3>5, <3>6, <3>7
  <2>9. \A p \in Ops : /\ Aboard(p) \subseteq Carts /\ Fetching(p) \subseteq Carts
                       /\ Aboard(p)' \subseteq Carts /\ Fetching(p)' \subseteq Carts
                       /\ SetDown(p) \subseteq Stations /\ SetDown(p)' \subseteq Stations
    BY DEF Aboard, Fetching, SetDown
  <2>10. Moves(a, o)
    <3>1. ASSUME NEW p \in Ops \ {o}
          PROVE  /\ Queued(p)' = Queued(p) /\ SetDown(p)' = SetDown(p)
                 /\ Aboard(p)' = Aboard(p) /\ Fetching(p)' = Fetching(p)
      <4>1. Queued(p)' = Queued(p) /\ SetDown(p)' = SetDown(p)
        BY <2>8, <2>9
      <4>2. Aboard(p)' = Aboard(p)
        BY <2>8, <2>9
      <4>3. Fetching(p)' = Fetching(p)
        <5>1. \A b \in Carts : b \in Fetching(p)' <=> b \in Fetching(p)
          BY <2>8
        <5>2. Fetching(p) \subseteq Carts /\ Fetching(p)' \subseteq Carts
          BY <2>9
        <5> QED BY <5>1, <5>2
      <4> QED BY <4>1, <4>2, <4>3
    <3> QED BY <1>2, <2>3, <2>4, <2>5, <2>7, <3>1 DEF Moves
  <2>11. InPlace(o)'
    <3>1. At(o, {}, {}, {a}, {})'
      BY <1>2, <2>8, <2>9 DEF At
    <3>2. Doing(a, "unload")'
      BY ONLY <2>6 DEF Doing
    <3> QED BY <2>3, <3>1, <3>2 DEF InPlace
  <2>12. Charged(a)'
    <3>1. Ops' = Ops /\ Duration(o, n)' = Duration(o, n)
      BY DEF Ops, Duration
    <3> QED BY <1>2, <1>3, <2>6, <3>1 DEF Charged
  <2>13. \A x \in Stations : NoneTwice(x)'
    BY <2>4 DEF WorkInv, PlacesHold, NoneTwice
  <2> QED BY <1>2, <2>6, <2>10, <2>11, <2>12, <2>13, MovesKeepWork
<1> QED BY <1>4, <1>5

LEMMA AppendIs ==
  ASSUME NEW S, NEW q \in Seq(S), NEW o \in S, o \notin ToSet(q),
         \A i, j \in DOMAIN q : q[i] = q[j] => i = j
  PROVE  /\ \A p : p \in ToSet(Append(q, o)) <=> p \in ToSet(q) \/ p = o
         /\ \A i, j \in DOMAIN Append(q, o) : Append(q, o)[i] = Append(q, o)[j] => i = j
<1> DEFINE r == Append(q, o)
<1>1. /\ Len(q) \in Nat /\ DOMAIN q = 1..Len(q) /\ DOMAIN r = 1..(Len(q) + 1)
      /\ \A i \in 1..Len(q) : r[i] = q[i]
      /\ r[Len(q) + 1] = o
  BY AppendProperties
<1> HIDE DEF r
<1>2. \A i \in 1..(Len(q) + 1) : i \in 1..Len(q) \/ i = Len(q) + 1
  BY <1>1
<1>3. \A i \in 1..Len(q) : i \in 1..(Len(q) + 1)
  BY <1>1
<1>4. Len(q) + 1 \in 1..(Len(q) + 1)
  BY <1>1
<1>5. \A p : p \in ToSet(r) <=> p \in ToSet(q) \/ p = o
  BY <1>1, <1>2, <1>3, <1>4 DEF ToSet
<1>6. ASSUME NEW i \in DOMAIN r, NEW j \in DOMAIN r, r[i] = r[j]
      PROVE  i = j
  <2>1. \A x \in 1..Len(q) : r[x] # o
    BY <1>1, <1>6 DEF ToSet
  <2> QED BY <1>1, <1>2, <1>6, <2>1
<1> QED BY <1>5, <1>6 DEF r

LEMMA UnloadKeeps ==
  ASSUME WorkInv, NEW a \in Carts, Unload(a), job_list' = job_list
  PROVE  WorkInv'
<1>0. PICK o, m : o = agvs[a].operation /\ m = Target(a)
  OBVIOUS
<1>1. Doing(a, "unload")
  BY DEF Unload, MayUnload
<1>2. /\ o \in Ops /\ m \in Stations /\ agvs[a].running = <<<<"unload", m>>>>
      /\ Duration(o, m) > 0
      /\ Status(o) = "MOVING" /\ At(o, {}, {}, {a}, {}) /\ Here(o) = Nothing
      /\ operations[o].process_time = 0
  BY <1>0, <1>1, CarryingIs
<1>3. CASE ~Reaches(a, m)
  BY <1>0, <1>3, ApproachKeeps DEF Unload, CartStatus
<1>4. CASE Reaches(a, m)
  <2>1. /\ agvs' = [agvs EXCEPT ![a].status = "READY", ![a].operation = Nothing,
                      ![a].point = StationPoint[m], ![a].gone = 0,
                      ![a].time_left = @ - TimeTo(a, m), ![a].running = Tail(@)]
        /\ operations' = [operations EXCEPT ![o].status = "WORKING", ![o].current_machine = m]
        /\ machines' = [machines EXCEPT ![m].input_queue = Append(@, o),
                          ![m].status = IF Available(m) THEN "WORKING" ELSE @]
    BY <1>0, <1>4 DEF Unload
  <2>2. /\ agvs[a] \in CartType /\ operations[o] \in OperationType /\ machines[m] \in MachineType
        /\ o # Nothing
    BY <1>2, OpsAre DEF WorkInv, WorkTyped
  <2>3. /\ operations' \in [Ops -> OperationType]
        /\ \A p \in Ops \ {o} : operations'[p] = operations[p]
        /\ Status(o)' = "WORKING" /\ Here(o)' = m /\ operations'[o].process_time = 0
    <3>1. operations'[o] = [operations[o] EXCEPT !.status = "WORKING", !.current_machine = m]
      BY <1>2, <2>1 DEF WorkInv, WorkTyped
    <3>2. operations'[o] \in OperationType
      BY <1>2, <2>2, <3>1 DEF OperationType, OpStatus
    <3>3. Status(o)' = "WORKING" /\ Here(o)' = m /\ operations'[o].process_time = 0
      BY <1>2, <2>2, <3>1 DEF OperationType, Status, Here
    <3>4. /\ operations' = [p \in Ops |-> operations'[p]]
          /\ \A p \in Ops \ {o} : operations'[p] = operations[p]
      BY <2>1 DEF WorkInv, WorkTyped
    <3>5. \A p \in Ops : operations'[p] \in OperationType
      BY <3>2, <3>4 DEF WorkInv, WorkTyped
    <3> QED BY <3>3, <3>4, <3>5
  <2>4. /\ machines' \in [Stations -> MachineType]
        /\ \A x \in Stations : machines'[x].output_queue = machines[x].output_queue
        /\ \A x \in Stations \ {m} : machines'[x].input_queue = machines[x].input_queue
        /\ machines'[m].input_queue = Append(machines[m].input_queue, o)
    <3>1. PICK st \in MachineStatus :
            machines'[m] = [machines[m] EXCEPT !.input_queue = Append(machines[m].input_queue, o),
                                               !.status = st]
      <4> DEFINE st == IF Available(m) THEN "WORKING" ELSE machines[m].status
      <4>1. machines'[m] = [machines[m] EXCEPT !.input_queue = Append(machines[m].input_queue, o),
                                               !.status = st]
        BY <1>2, <2>1 DEF WorkInv, WorkTyped
      <4>2. st \in MachineStatus
        BY <2>2 DEF MachineType, MachineStatus
      <4> HIDE DEF st
      <4> QED BY <4>1, <4>2
    <3>2. Append(machines[m].input_queue, o) \in Seq(Ops)
      BY <1>2, <2>2 DEF MachineType
    <3>3. /\ machines'[m] \in MachineType
          /\ machines'[m].output_queue = machines[m].output_queue
          /\ machines'[m].input_queue = Append(machines[m].input_queue, o)
      BY <2>2, <3>1, <3>2 DEF MachineType
    <3>4. /\ machines' = [x \in Stations |-> machines'[x]]
          /\ \A x \in Stations \ {m} : machines'[x] = machines[x]
      BY <2>1 DEF WorkInv, WorkTyped
    <3>5. \A x \in Stations : machines'[x] \in MachineType
      BY <3>3, <3>4 DEF WorkInv, WorkTyped
    <3> QED BY <3>3, <3>4, <3>5
  <2>5. \A b \in Carts \ {a} : agvs'[b] = agvs[b]
    BY <2>1 DEF WorkInv, WorkTyped
  <2>6. /\ agvs'[a] \in CartType /\ agvs'[a].todo = agvs[a].todo
        /\ agvs'[a].operation = Nothing /\ agvs'[a].running = <<>>
    <3>1. PICK t, p : /\ t = agvs[a].time_left - TimeTo(a, m) /\ p = StationPoint[m]
                      /\ agvs'[a] = [agvs[a] EXCEPT !.status = "READY", !.operation = Nothing,
                                       !.point = p, !.gone = 0, !.time_left = t, !.running = <<>>]
      <4>1. Tail(agvs[a].running) = <<>>
        BY <1>2
      <4>2. agvs'[a] = [agvs[a] EXCEPT !.status = "READY", !.operation = Nothing,
                          !.point = StationPoint[m], !.gone = 0,
                          !.time_left = agvs[a].time_left - TimeTo(a, m),
                          !.running = Tail(agvs[a].running)]
        BY <2>1 DEF WorkInv, WorkTyped
      <4> QED BY <4>1, <4>2
    <3>2. p \in DOMAIN Travel /\ 0 \in Int
      BY <1>2, <3>1, PacketConstants
    <3>3. t \in Int
      <4>1. agvs[a].point \in DOMAIN Travel /\ agvs[a].gone \in Int /\ agvs[a].time_left \in Int
        BY <2>2 DEF CartType
      <4>2. Travel[agvs[a].point][StationPoint[m]] \in Nat
        <5>1. StationPoint[m] \in DOMAIN Travel
          BY <1>2, PacketConstants
        <5>2. \A p1, p2 \in DOMAIN Travel : Travel[p1][p2] \in Nat
          BY PacketConstants
        <5> QED BY <4>1, <5>1, <5>2
      <4> QED BY <3>1, <4>1, <4>2 DEF TimeTo
    <3>4. <<>> \in RunningLists
      BY DEF RunningLists
    <3>5. agvs'[a] = [agvs[a] EXCEPT !.status = "READY", !.operation = Nothing,
                        !.point = p, !.gone = 0, !.time_left = t, !.running = <<>>]
      BY <3>1
    <3>6. agvs[a] \in CartType
      BY <2>2
    <3> QED BY ONLY <3>2, <3>3, <3>4, <3>5, <3>6, CartIs DEF CartStatus
  <2>7. agvs' \in [Carts -> CartType]
    <3>1. agvs' = [b \in Carts |-> agvs'[b]]
      BY <2>1 DEF WorkInv, WorkTyped
    <3>2. \A b \in Carts : agvs'[b] \in CartType
      BY <2>5, <2>6 DEF WorkInv, WorkTyped
    <3> QED BY <3>1, <3>2
  <2>8. /\ \A p : p \in ToSet(machines'[m].input_queue)
                    <=> p \in ToSet(machines[m].input_queue) \/ p = o
        /\ NoneTwice(m)'
    <3>1. o \notin ToSet(machines[m].input_queue)
      BY <1>2 DEF At, Queued
    <3>2. NoneTwice(m) /\ machines[m].input_queue \in Seq(Ops)
      BY <1>2, <2>2 DEF WorkInv, PlacesHold, MachineType
    <3>3. \A i, j \in DOMAIN machines[m].input_queue :
            machines[m].input_queue[i] = machines[m].input_queue[j] => i = j
      BY <3>2 DEF NoneTwice
    <3>4. machines'[m].input_queue = Append(machines[m].input_queue, o)
      BY <2>4
    <3>5. /\ \A p : p \in ToSet(machines'[m].input_queue)
                      <=> p \in ToSet(machines[m].input_queue) \/ p = o
          /\ \A i, j \in DOMAIN machines'[m].input_queue :
               machines'[m].input_queue[i] = machines'[m].input_queue[j] => i = j
      <4>1. PICK q, r : q = machines[m].input_queue /\ r = machines'[m].input_queue
        OBVIOUS
      <4>2. /\ q \in Seq(Ops) /\ o \in Ops /\ r = Append(q, o) /\ o \notin ToSet(q)
            /\ \A i, j \in DOMAIN q : q[i] = q[j] => i = j
        BY <1>2, <3>1, <3>2, <3>3, <3>4, <4>1
      <4>3. /\ \A p : p \in ToSet(r) <=> p \in ToSet(q) \/ p = o
            /\ \A i, j \in DOMAIN r : r[i] = r[j] => i = j
        <5>1. /\ \A p : p \in ToSet(Append(q, o)) <=> p \in ToSet(q) \/ p = o
              /\ \A i, j \in DOMAIN Append(q, o) :
                   Append(q, o)[i] = Append(q, o)[j] => i = j
          BY <4>2, AppendIs
        <5> QED BY ONLY <4>2, <5>1
      <4> QED BY ONLY <4>1, <4>3
    <3> QED BY <3>5 DEF NoneTwice
  <2>9. ASSUME NEW p \in Ops
        PROVE  /\ SetDown(p)' = SetDown(p)
               /\ \A x \in Stations : x \in Queued(p)' <=> x \in Queued(p) \/ (x = m /\ p = o)
               /\ \A b \in Carts \ {a} : /\ b \in Aboard(p)' <=> b \in Aboard(p)
                                         /\ b \in Fetching(p)' <=> b \in Fetching(p)
               /\ a \notin Aboard(p)' /\ a \notin Fetching(p)' /\ a \notin Fetching(p)
               /\ a \in Aboard(p) <=> p = o
    <3>1. p # Nothing
      BY OpsAre DEF WorkInv, WorkTyped
    <3>2. SetDown(p)' = SetDown(p)
      BY <2>4 DEF SetDown
    <3>3. \A x \in Stations : x \in Queued(p)' <=> x \in Queued(p) \/ (x = m /\ p = o)
      BY <2>4, <2>8 DEF Queued
    <3>4. \A b \in Carts \ {a} : /\ b \in Aboard(p)' <=> b \in Aboard(p)
                                 /\ b \in Fetching(p)' <=> b \in Fetching(p)
      BY <2>5 DEF Aboard, Fetching, Doing, Target
    <3>5. a \notin Fetching(p) /\ (a \in Aboard(p) <=> p = o)
      BY <1>0, <1>2 DEF Aboard, Fetching, Doing
    <3>6. a \notin Aboard(p)' /\ a \notin Fetching(p)'
      BY <2>6, <3>1 DEF Aboard, Fetching, Doing
    <3> QED BY <3>2, <3>3, <3>4, <3>5, <3>6
  <2>10. \A p \in Ops : /\ Aboard(p) \subseteq Carts /\ Fetching(p) \subseteq Carts
                        /\ Aboard(p)' \subseteq Carts /\ Fetching(p)' \subseteq Carts
                        /\ Queued(p) \subseteq Stations /\ Queued(p)' \subseteq Stations
    BY DEF Aboard, Fetching, Queued
  <2>11. Moves(a, o)
    <3>1. ASSUME NEW p \in Ops \ {o}
          PROVE  /\ Queued(p)' = Queued(p) /\ SetDown(p)' = SetDown(p)
                 /\ Aboard(p)' = Aboard(p) /\ Fetching(p)' = Fetching(p)
      <4>1. /\ \A x \in Stations : x \in Queued(p)' <=> x \in Queued(p)
            /\ \A b \in Carts : b \in Aboard(p)' <=> b \in Aboard(p)
            /\ \A b \in Carts : b \in Fetching(p)' <=> b \in Fetching(p)
            /\ SetDown(p)' = SetDown(p)
        BY <2>9
      <4>2. Aboard(p)' = Aboard(p)
        BY <2>10, <4>1
      <4>3. Fetching(p)' = Fetching(p)
        BY <2>10, <4>1
      <4>4. Queued(p)' = Queued(p)
        BY <2>10, <4>1
      <4> QED BY <4>1, <4>2, <4>3, <4>4
    <3>2. agvs[a].operation = o
      BY <1>0
    <3> QED BY <1>2, <2>3, <2>4, <2>5, <2>7, <3>1, <3>2 DEF Moves
  <2>12. InPlace(o)'
    <3>1. At(o, {m}, {}, {}, {})'
      BY <1>2, <2>9, <2>10 DEF At
    <3>2. m # Nothing /\ Duration(o, m)' > 0
      BY <1>2, PacketConstants DEF Duration
    <3> QED BY <1>2, <2>3, <3>1, <3>2 DEF InPlace
  <2>13. Charged(a)'
    BY <2>6 DEF Charged
  <2>14. \A x \in Stations : NoneTwice(x)'
    BY <2>4, <2>8 DEF WorkInv, PlacesHold, NoneTwice
  <2> QED BY <1>2, <2>6, <2>11, <2>12, <2>13, <2>14, MovesKeepWork
<1> QED BY <1>3, <1>4

-----------------------------------------------------------------------------
(* The commands.                                                           *)

LEMMA KindsAre ==
  /\ ToSet(AllKinds) = {"restart", "pause", "run", "fail agv", "recover agv",
                        "fail machine", "recover machine", "add job"}
  /\ Kinds \subseteq ToSet(AllKinds)
<1>1. /\ DOMAIN AllKinds = {1, 2, 3, 4, 5, 6, 7, 8}
      /\ AllKinds[1] = "restart" /\ AllKinds[2] = "pause" /\ AllKinds[3] = "run"
      /\ AllKinds[4] = "fail agv" /\ AllKinds[5] = "recover agv"
      /\ AllKinds[6] = "fail machine" /\ AllKinds[7] = "recover machine"
      /\ AllKinds[8] = "add job"
  BY DEF AllKinds
<1>2. ToSet(AllKinds) = {AllKinds[k] : k \in DOMAIN AllKinds}
  BY DEF ToSet
<1>3. Kinds \subseteq ToSet(AllKinds)
  BY <1>2, PacketConstants
<1>4. ASSUME NEW k PROVE k \in ToSet(AllKinds) <=> \E i \in {1, 2, 3, 4, 5, 6, 7, 8} : k = AllKinds[i]
  BY <1>1, <1>2
<1>5. \A k : k \in ToSet(AllKinds) <=>
             k \in {"restart", "pause", "run", "fail agv", "recover agv",
                    "fail machine", "recover machine", "add job"}
  <2> TAKE k
  <2>1. (\E i \in {1, 2, 3, 4, 5, 6, 7, 8} : k = AllKinds[i]) <=>
          \/ k = AllKinds[1] \/ k = AllKinds[2] \/ k = AllKinds[3] \/ k = AllKinds[4]
          \/ k = AllKinds[5] \/ k = AllKinds[6] \/ k = AllKinds[7] \/ k = AllKinds[8]
    OBVIOUS
  <2> QED BY <1>1, <1>4, <2>1
<1> QED BY <1>3, <1>5

\* Without a command, there is nothing to be typed.
LEMMA NoneBuffered ==
  /\ NoCommands \in [ToSet(AllKinds) -> Seq(Named)]
  /\ \A kind \in ToSet(AllKinds) : DOMAIN NoCommands[kind] = {}
<1>1. \A kind \in ToSet(AllKinds) : NoCommands[kind] = <<>>
  BY DEF NoCommands
<1>2. <<>> \in Seq(Named) /\ DOMAIN <<>> = {}
  OBVIOUS
<1> QED BY <1>1, <1>2 DEF NoCommands

\* What a request asks for exists.
LEMMA AcceptableIs ==
  ASSUME WorkInv, NEW kind \in ToSet(AllKinds), NEW x \in Acceptable(kind)
  PROVE  <<kind, x>> \in Commanded /\ x \in Named
<1>1. ToSet(job_list) \subseteq Templates
  BY DEF WorkInv, WorkTyped, ToSet
<1>2. CASE kind \in {"restart", "pause", "run"}
  BY <1>2 DEF Acceptable, Commanded, Named
<1>3. CASE kind = "fail agv"
  BY <1>3 DEF Acceptable, Commanded, Named
<1>4. CASE kind = "recover agv"
  BY <1>4 DEF Acceptable, Commanded, Named
<1>5. CASE kind = "fail machine"
  BY <1>5 DEF Acceptable, Commanded, Named
<1>6. CASE kind = "recover machine"
  BY <1>6 DEF Acceptable, Commanded, Named
<1>7. CASE kind = "add job"
  BY <1>1, <1>7 DEF Acceptable, Commanded, Named
<1> QED BY <1>2, <1>3, <1>4, <1>5, <1>6, <1>7, KindsAre

LEMMA RequestKeeps == PacketInv /\ Request => CommandsTyped'
<1> SUFFICES ASSUME PacketInv, Request PROVE CommandsTyped'
  OBVIOUS
<1>1. PICK kind \in Kinds :
        \E x \in Acceptable(kind) : buffered' = [buffered EXCEPT ![kind] = Append(@, x)]
  BY DEF Request
<1>a. PICK x \in Acceptable(kind) : buffered' = [buffered EXCEPT ![kind] = Append(@, x)]
  BY <1>1
<1>2. kind \in ToSet(AllKinds) /\ <<kind, x>> \in Commanded /\ x \in Named
  BY KindsAre, AcceptableIs DEF PacketInv
<1>3. PICK q : q = buffered[kind]
  OBVIOUS
<1>4. /\ q \in Seq(Named) /\ Len(q) \in Nat /\ DOMAIN q = 1..Len(q)
      /\ Append(q, x) \in Seq(Named)
      /\ DOMAIN Append(q, x) = 1..(Len(q) + 1) /\ Append(q, x)[Len(q) + 1] = x
      /\ \A i \in 1..Len(q) : Append(q, x)[i] = q[i]
  BY <1>2, <1>3, AppendProperties DEF PacketInv, CommandsTyped
<1>5. ASSUME NEW k \in ToSet(AllKinds)
      PROVE  /\ buffered'[k] \in Seq(Named)
             /\ \A i \in DOMAIN buffered'[k] : <<k, buffered'[k][i]>> \in Commanded
  <2>1. CASE k # kind
    BY <1>a, <1>2, <2>1 DEF PacketInv, CommandsTyped
  <2>2. CASE k = kind
    <3>1. buffered'[k] = Append(q, x)
      BY <1>a, <1>2, <1>3, <2>2 DEF PacketInv, CommandsTyped
    <3>2. \A i \in 1..Len(q) : <<kind, q[i]>> \in Commanded
      BY <1>2, <1>3, <1>4 DEF PacketInv, CommandsTyped
    <3>3. ASSUME NEW i \in 1..(Len(q) + 1) PROVE <<kind, Append(q, x)[i]>> \in Commanded
      <4>1. i \in 1..Len(q) \/ i = Len(q) + 1
        BY <1>4
      <4> QED BY <1>2, <1>4, <3>2, <4>1
    <3> QED BY <1>4, <2>2, <3>1, <3>3
  <2> QED BY <2>1, <2>2
<1>6. buffered' \in [ToSet(AllKinds) -> Seq(Named)]
  <2>1. buffered' = [k \in ToSet(AllKinds) |-> buffered'[k]]
    BY <1>a DEF PacketInv, CommandsTyped
  <2> QED BY <1>5, <2>1
<1> QED BY <1>5, <1>6 DEF PacketInv, CommandsTyped, Request

LEMMA CollectKeepsCommands == PacketInv /\ Collect => CommandsTyped'
<1> SUFFICES ASSUME PacketInv, Collect PROVE CommandsTyped'
  OBVIOUS
<1>1. \A kind \in ToSet(AllKinds) : Of(kind) \in Seq(Commanded)
  BY DEF Of, PacketInv, CommandsTyped
<1>2. \A q, r \in Seq(Commanded) : q \o r \in Seq(Commanded)
  OBVIOUS
<1>3. ready_events' \in Seq(Commanded)
  BY <1>1, <1>2, KindsAre DEF Collect
<1>4. buffered' = NoCommands /\ lag' = lag
  BY DEF Collect
<1> QED BY <1>3, <1>4, NoneBuffered DEF PacketInv, CommandsTyped

-----------------------------------------------------------------------------
(* The steps of the thread.                                                *)

LEMMA FreshWorkHolds == FreshWork => WorkInv'
<1>1. FreshWork => Fresh'
  BY DEF FreshWork, Fresh
<1>2. Fresh' => WorkInv'
  BY FreshHolds, PTL
<1> QED BY <1>1, <1>2

LEMMA EventKeeps == PacketInv /\ DealEvent => PacketInv'
<1> SUFFICES ASSUME PacketInv, DealEvent PROVE PacketInv'
  OBVIOUS
<1>0. PICK kind, x : kind = Head(ready_events)[1] /\ x = Head(ready_events)[2]
  OBVIOUS
<1>1. <<kind, x>> \in Commanded /\ Tail(ready_events) \in Seq(Commanded)
  <2>1. ready_events \in Seq(Commanded) /\ ready_events # <<>>
    BY DEF PacketInv, CommandsTyped, DealEvent
  <2>2. Head(ready_events) \in Commanded /\ Tail(ready_events) \in Seq(Commanded)
    BY <2>1
  <2>3. \A e \in Commanded : e = <<e[1], e[2]>>
    <3>1. \A A, B : \A e \in A \X B : e = <<e[1], e[2]>>
      OBVIOUS
    <3> QED BY <3>1 DEF Commanded
  <2> QED BY <1>0, <2>2, <2>3
<1>2. \/ kind = "restart" /\ FreshWork
      \/ kind \in {"pause", "run"} /\ UNCHANGED <<job_list, workVars>>
      \/ kind = "fail agv" /\ FailCart(x) /\ UNCHANGED <<job_list, operations, machines>>
      \/ kind = "recover agv" /\ RecoverCart(x) /\ UNCHANGED <<job_list, operations, machines>>
      \/ kind = "fail machine" /\ FailMachine(x) /\ UNCHANGED <<job_list, operations, agvs>>
      \/ kind = "recover machine" /\ RecoverMachine(x) /\ UNCHANGED <<job_list, operations, agvs>>
      \/ kind = "add job" /\ AddJob(x) /\ UNCHANGED <<machines, agvs>>
  BY <1>0 DEF DealEvent
<1>3. /\ kind \in {"fail agv", "recover agv"} => x \in Carts
      /\ kind \in {"fail machine", "recover machine"} => x \in Stations
      /\ kind = "add job" => x \in Templates
  BY <1>1 DEF Commanded
<1>4. WorkInv'
  <2>1. CASE kind = "restart" /\ FreshWork
    BY <2>1, FreshWorkHolds
  <2>2. CASE kind \in {"pause", "run"} /\ UNCHANGED <<job_list, workVars>>
    BY <2>2, QuietKeeps DEF PacketInv
  <2>3. CASE /\ kind \in {"fail agv", "recover agv"}
             /\ FailCart(x) \/ RecoverCart(x)
             /\ UNCHANGED <<job_list, operations, machines>>
    BY <1>3, <2>3, CartFaultKeeps DEF PacketInv
  <2>4. CASE /\ kind \in {"fail machine", "recover machine"}
             /\ FailMachine(x) \/ RecoverMachine(x)
             /\ UNCHANGED <<job_list, operations, agvs>>
    BY <1>3, <2>4, MachineFaultKeeps DEF PacketInv
  <2>5. CASE kind = "add job" /\ AddJob(x) /\ UNCHANGED <<machines, agvs>>
    BY <1>3, <2>5, AddKeeps DEF PacketInv
  <2> QED BY <1>2, <2>1, <2>2, <2>3, <2>4, <2>5
<1>5. CommandsTyped'
  BY <1>1 DEF DealEvent, PacketInv, CommandsTyped
<1> QED BY <1>4, <1>5 DEF PacketInv

LEMMA PacketStarts == PacketInit => PacketInv
<1> SUFFICES ASSUME PacketInit PROVE PacketInv
  OBVIOUS
<1>1. WorkInv
  BY FreshHolds DEF PacketInit, Fresh
<1>2. CommandsTyped
  BY NoneBuffered DEF PacketInit, CommandsTyped
<1> QED BY <1>1, <1>2 DEF PacketInv

LEMMA PacketKeeps == PacketInv /\ [PacketNext]_packetVars => PacketInv'
<1> SUFFICES ASSUME PacketInv, [PacketNext]_packetVars PROVE PacketInv'
  OBVIOUS
<1>1. CASE UNCHANGED packetVars
  <2>1. WorkInv'
    BY <1>1, QuietKeeps DEF packetVars, PacketInv
  <2> QED BY <1>1, <2>1 DEF packetVars, eventVars, PacketInv, CommandsTyped
<1>2. CASE EnvStep
  <2>1. WorkInv'
    <3>1. CASE env_status = "RUNNING"
      BY <1>2, <3>1, SliceKeeps DEF EnvStep
    <3>2. CASE env_status # "RUNNING"
      BY <1>2, <3>2, QuietKeeps DEF EnvStep, PacketInv
    <3> QED BY <3>1, <3>2
  <2>2. CommandsTyped'
    BY <1>2 DEF EnvStep, BeginSlice, eventVars, PacketInv, CommandsTyped
  <2> QED BY <2>1, <2>2 DEF PacketInv
<1>3. CASE Finish \/ NoEvent
  <2>1. UNCHANGED <<job_list, workVars, lag, eventVars>>
    BY <1>3 DEF Finish, NoEvent
  <2>2. WorkInv'
    BY <2>1, QuietKeeps DEF PacketInv
  <2> QED BY <2>1, <2>2 DEF eventVars, PacketInv, CommandsTyped
<1>4. CASE Collect
  BY <1>4, CollectKeeps, CollectKeepsCommands DEF PacketInv
<1>5. CASE DealEvent
  BY <1>5, EventKeeps
<1>6. ASSUME NEW a \in Carts, CartWorks(a) PROVE PacketInv'
  <2>1. WorkInv'
    BY <1>6, TakeKeeps, LoadKeeps, UnloadKeeps DEF CartWorks, PacketInv
  <2>2. CommandsTyped'
    BY <1>6 DEF CartWorks, eventVars, PacketInv, CommandsTyped
  <2> QED BY <2>1, <2>2 DEF PacketInv
<1>7. CASE Request
  <2>1. WorkInv'
    BY <1>7, QuietKeeps DEF Request, PacketInv
  <2> QED BY <1>7, <2>1, RequestKeeps DEF PacketInv
<1>8. CASE RenderMap
  <2>1. WorkInv'
    BY <1>8, FreshWorkHolds DEF RenderMap
  <2>2. CommandsTyped'
    BY <1>8, NoneBuffered DEF RenderMap, CommandsTyped
  <2> QED BY <2>1, <2>2 DEF PacketInv
<1> QED BY <1>1, <1>2, <1>3, <1>4, <1>5, <1>6, <1>7, <1>8 DEF PacketNext, ThreadStep

LEMMA PacketInvIsEnough == PacketInv => OperationsAreKept
<1> SUFFICES ASSUME PacketInv, NEW o \in Ops
             PROVE  LET here == operations[o].current_machine
                        Where(queues, places, carts, fetching) ==
                          /\ Queued(o) = queues /\ SetDown(o) = places
                          /\ Aboard(o) = carts /\ Fetching(o) = fetching
                        there == IF here = Nothing THEN {} ELSE {here} IN
      /\ (operations[o].status = "WAITING") <=>
           (o[2] > 1 /\ operations[Predecessor(o)].status # "FINISHED")
      /\ CASE operations[o].status = "WAITING" -> Where({}, {}, {}, {}) /\ here = Nothing
           [] operations[o].status = "READY" ->
                Where({}, there, {}, {}) /\ (here = Nothing <=> o[2] = 1)
           [] operations[o].status = "MOVING" ->
                \E a \in Carts : \/ Where({}, {}, {a}, {}) /\ here = Nothing /\ Doing(a, "unload")
                                 \/ Where({}, there, {}, {a}) /\ here # Nothing
           [] operations[o].status = "WORKING" ->
                Where({here}, {}, {}, {}) /\ operations[o].process_time < Duration(o, here)
           [] operations[o].status = "FINISHED" -> Where({}, {}, {}, {}) /\ here = Nothing
      /\ Cardinality(Planned(o)) <= 1
      /\ Planned(o) # {} => Unstarted(o)
  BY DEF OperationsAreKept
<1>1. InTurn(o) /\ InPlace(o) /\ Status(o) \in OpStatus
  BY DEF PacketInv, WorkInv, WorkTyped, OperationsHold, OperationType, Status
<1>2. \A a \in Carts : Told(a)
  BY DEF PacketInv, WorkInv, PlacesHold
<1>3. Planned(o) # {} => Unstarted(o)
  BY <1>2 DEF Planned, Told
<1>4. \A a, b \in Planned(o) : a = b
  BY <1>2 DEF Planned, Told
<1>5. Cardinality(Planned(o)) <= 1
  <2>1. CASE Planned(o) = {}
    BY <2>1, FS_EmptySet
  <2>2. CASE Planned(o) # {}
    <3>1. PICK a \in Planned(o) : TRUE
      BY <2>2
    <3>2. Planned(o) = {a}
      BY <1>4, <3>1
    <3>3. Cardinality({a}) = 1
      BY FS_Singleton
    <3> QED BY <3>2, <3>3
  <2> QED BY <2>1, <2>2
<1>6. CASE Status(o) = "WAITING"
  BY <1>1, <1>3, <1>5, <1>6 DEF InTurn, InPlace, At, Status, Here
<1>7. CASE Status(o) = "READY"
  BY <1>1, <1>3, <1>5, <1>7 DEF InTurn, InPlace, At, Status, Here
<1>8. CASE Status(o) = "MOVING"
  BY <1>1, <1>3, <1>5, <1>8 DEF InTurn, InPlace, At, Status, Here
<1>9. CASE Status(o) = "WORKING"
  BY <1>1, <1>3, <1>5, <1>9 DEF InTurn, InPlace, At, Status, Here
<1>10. CASE Status(o) = "FINISHED"
  BY <1>1, <1>3, <1>5, <1>10 DEF InTurn, InPlace, At, Status, Here
<1> QED BY <1>1, <1>6, <1>7, <1>8, <1>9, <1>10 DEF OpStatus

\* However long the factory runs, and whatever is paused, failed, recovered,
\* added or set back in between: each operation is in the one place that its
\* status says, no two AGVs are to take it, and no AGV is to take one that was
\* begun (AGV.push_process, Machine.work, deal_event).
THEOREM OperationsKept == PacketSpec => []OperationsAreKept
<1>1. PacketInit => PacketInv
  BY PacketStarts
<1>2. PacketInv /\ [PacketNext]_packetVars => PacketInv'
  BY PacketKeeps
<1>3. PacketInv => OperationsAreKept
  BY PacketInvIsEnough
<1> QED BY <1>1, <1>2, <1>3, PTL DEF PacketSpec

-----------------------------------------------------------------------------
(* The ways over the floor of the grid factory: regions are equivalence     *)
(* classes, and a cell that is blocked splits none of them.                *)

\* The region of a cell.
Reach(free, c) == Component[free][c]

LEMMA ReachIs ==
  ASSUME NEW free \in SUBSET Floor, NEW c \in free
  PROVE  Reach(free, c) =
           {d \in free : \A S \in SUBSET (free \ {d}) : c \in S => ~Closed(S, free)}
BY DEF Reach, Component

\* The region of a cell is the least closed set with the cell.
LEMMA ReachIsLeast ==
  ASSUME NEW free \in SUBSET Floor, NEW c \in free
  PROVE  /\ c \in Reach(free, c) /\ Reach(free, c) \subseteq free
         /\ Closed(Reach(free, c), free)
         /\ \A S \in SUBSET free : c \in S /\ Closed(S, free) => Reach(free, c) \subseteq S
<1>1. c \in Reach(free, c) /\ Reach(free, c) \subseteq free
  BY ReachIs
<1>2. ASSUME NEW S \in SUBSET free, c \in S, Closed(S, free) PROVE Reach(free, c) \subseteq S
  <2> SUFFICES ASSUME NEW d \in Reach(free, c), d \notin S PROVE FALSE
    OBVIOUS
  <2>1. S \in SUBSET (free \ {d})
    OBVIOUS
  <2> QED BY <1>2, <2>1, ReachIs
<1>3. ASSUME NEW d \in free \ Reach(free, c), NEW e \in NextTo[d] \cap Reach(free, c)
      PROVE  FALSE
  <2>1. PICK S \in SUBSET (free \ {d}) : c \in S /\ Closed(S, free)
    BY ReachIs
  <2>2. e \in S
    BY <1>2, <2>1
  <2> QED BY <2>1, <2>2 DEF Closed
<1>4. Closed(Reach(free, c), free)
  BY <1>3 DEF Closed
<1> QED BY <1>1, <1>2, <1>4

\* Ways lead back: the cells of a region have it in common.
LEMMA ReachIsShared ==
  ASSUME NEW free \in SUBSET Floor, NEW c \in free, NEW d \in Reach(free, c)
  PROVE  Reach(free, d) = Reach(free, c)
<1> DEFINE C == Reach(free, c)
           D == Reach(free, d)
<1>1. d \in free /\ C \subseteq free /\ c \in C /\ Closed(C, free)
  BY ReachIsLeast
<1>2. D \subseteq free /\ d \in D /\ Closed(D, free)
  BY <1>1, ReachIsLeast
<1>3. D \subseteq C
  BY <1>1, ReachIsLeast
<1>4. c \in D
  <2> SUFFICES ASSUME c \notin D PROVE FALSE
    OBVIOUS
  <2>1. Closed(C \ D, free)
    <3> SUFFICES ASSUME NEW x \in free, x \notin C \ D, NEW y \in NextTo[x], y \in C \ D
                 PROVE  FALSE
      BY DEF Closed
    <3>1. x \in C
      BY <1>1 DEF Closed
    <3>2. x \in D /\ y \in free \ D
      BY <1>1, <3>1
    <3>3. x \in NextTo[y]
      BY <3>2, DisruptionConstants
    <3> QED BY <1>2, <3>2, <3>3 DEF Closed
  <2>2. C \subseteq C \ D
    BY <1>1, <2>1, ReachIsLeast
  <2> QED BY <1>2, <1>3, <2>2
<1>5. C \subseteq D
  BY <1>2, <1>4, ReachIsLeast
<1> QED BY <1>3, <1>5

\* More free cells, more ways.
LEMMA ReachGrows ==
  ASSUME NEW more \in SUBSET Floor, NEW free \in SUBSET more, NEW c \in free
  PROVE  Reach(free, c) \subseteq Reach(more, c)
<1> DEFINE S == Reach(more, c) \cap free
<1>1. Closed(Reach(more, c), more) /\ c \in Reach(more, c)
  BY ReachIsLeast
<1>2. Closed(S, free)
  BY <1>1 DEF Closed
<1>3. S \in SUBSET free /\ c \in S /\ free \in SUBSET Floor
  BY <1>1
<1>4. Reach(free, c) \subseteq S
  BY <1>2, <1>3, ReachIsLeast
<1> QED BY <1>4

\* A cell whose blocking makes no more regions cuts nobody off.
LEMMA NobodyIsCutOff ==
  ASSUME NEW free \in SUBSET Floor, NEW cell \in free,
         WalkableComponentCount[free] >= WalkableComponentCount[free \ {cell}],
         NEW a \in free \ {cell}, NEW b \in free \ {cell}, b \in Reach(free, a)
  PROVE  b \in Reach(free \ {cell}, a)
<1> DEFINE rest == free \ {cell}
           P == {Reach(free, c) : c \in free}
           Q == {Reach(rest, c) : c \in rest}
<1> SUFFICES ASSUME b \notin Reach(rest, a) PROVE FALSE
  OBVIOUS
<1>1. rest \in SUBSET free /\ rest \in SUBSET Floor /\ a \in rest /\ b \in rest
  OBVIOUS
<1>2. Cardinality(P) >= Cardinality(Q)
  BY <1>1 DEF WalkableComponentCount, Reach
<1> HIDE DEF rest
<1>3. cell \in Reach(free, a)
  <2> SUFFICES ASSUME cell \notin Reach(free, a) PROVE FALSE
    OBVIOUS
  <2>1. Reach(rest, a) \subseteq Reach(free, a)
    BY <1>1, ReachGrows
  <2>2. Closed(Reach(rest, a), free)
    <3> SUFFICES ASSUME NEW x \in free \ Reach(rest, a), NEW y \in NextTo[x] \cap Reach(rest, a)
                 PROVE  FALSE
      BY DEF Closed
    <3>1. x \in Reach(free, a)
      BY <2>1, ReachIsLeast DEF Closed
    <3>2. x \in rest
      BY <3>1 DEF rest
    <3> QED BY <1>1, <3>2, ReachIsLeast DEF Closed
  <2>3. a \in Reach(rest, a) /\ Reach(rest, a) \subseteq free
    BY <1>1, ReachIsLeast
  <2>4. Reach(free, a) \subseteq Reach(rest, a)
    BY <2>2, <2>3, ReachIsLeast
  <2> QED BY <2>4
<1>4. \A U \in P : \A u \in U : u \in free /\ Reach(free, u) = U
  BY ReachIsLeast, ReachIsShared
<1>5. \A U \in P : \E u \in U : u \in rest
  <2> SUFFICES ASSUME NEW c \in free PROVE \E u \in Reach(free, c) : u \in rest
    OBVIOUS
  <2>1. CASE c \in rest
    BY <2>1, ReachIsLeast
  <2>2. CASE c = cell
    BY <1>1, <1>3, <2>2, ReachIsShared, ReachIsLeast
  <2> QED BY <2>1, <2>2 DEF rest
<1> DEFINE home == Reach(free, a)
           pick(U) == IF U = home THEN a ELSE CHOOSE u \in U : u \in rest
           f == [U \in P |-> Reach(rest, pick(U))]
<1>6. home \in P /\ a \in home /\ b \in home
  BY ReachIsLeast
<1>7. \A U \in P : pick(U) \in U /\ pick(U) \in rest
  BY <1>1, <1>5, <1>6
<1>8. pick(home) = a
  OBVIOUS
<1> HIDE DEF home, pick, P
<1>9. \A U \in P : \A u \in Reach(rest, pick(U)) : u \in U
  <2> SUFFICES ASSUME NEW U \in P, NEW u \in Reach(rest, pick(U)) PROVE u \in U
    OBVIOUS
  <2>1. pick(U) \in rest /\ Reach(free, pick(U)) = U
    BY <1>4, <1>7
  <2> QED BY <1>1, <2>1, ReachGrows
<1>10. \A U \in P : pick(U) \in Reach(rest, pick(U))
  BY <1>1, <1>7, ReachIsLeast
<1>11. \A U, V \in P : f[U] = f[V] => U = V
  <2> SUFFICES ASSUME NEW U \in P, NEW V \in P, f[U] = f[V] PROVE U = V
    OBVIOUS
  <2>1. pick(U) \in Reach(rest, pick(V))
    BY <1>10
  <2>2. pick(U) \in V
    BY <1>9, <2>1
  <2> QED BY <1>4, <1>7, <2>2
<1>12. \A U \in P : f[U] # Reach(rest, b)
  <2> SUFFICES ASSUME NEW U \in P, Reach(rest, pick(U)) = Reach(rest, b) PROVE FALSE
    OBVIOUS
  <2>1. b \in Reach(rest, pick(U))
    BY <1>1, ReachIsLeast
  <2>2. b \in U
    BY <1>9, <2>1
  <2>3. U = home
    BY <1>4, <1>6, <2>2
  <2> QED BY <1>8, <2>1, <2>3
<1>13. f \in Injection(P, Q \ {Reach(rest, b)})
  <2>1. \A U \in P : f[U] \in Q \ {Reach(rest, b)}
    BY <1>7, <1>12
  <2>2. f \in [P -> Q \ {Reach(rest, b)}]
    BY <2>1
  <2> HIDE DEF f
  <2> QED BY <1>11, <2>2 DEF Injection, IsInjective
<1>14. IsFiniteSet(Q) /\ Reach(rest, b) \in Q
  <2>1. Q \subseteq SUBSET Floor
    BY <1>1, ReachIsLeast
  <2>2. IsFiniteSet(SUBSET Floor)
    BY DisruptionConstants, FS_SUBSET
  <2> QED BY <1>1, <2>1, <2>2, FS_Subset
<1> HIDE DEF Q, f
<1>15. /\ IsFiniteSet(Q \ {Reach(rest, b)})
       /\ Cardinality(Q \ {Reach(rest, b)}) = Cardinality(Q) - 1
  BY <1>14, FS_RemoveElement
<1>16. IsFiniteSet(P) /\ Cardinality(P) <= Cardinality(Q) - 1
  BY <1>13, <1>15, FS_Injection
<1> QED BY <1>2, <1>14, <1>16, FS_CardinalityType

\* The types of the disruptions.
FloorTyped ==
  /\ step_phase \in {"between", "scheduled", "moving", "ticking"}
  /\ step_phase # "between" => env_timeline < MaxTimeline
  /\ env_timeline \in 0..MaxTimeline /\ manual \in 0..MaxManual /\ enabled \in BOOLEAN
  /\ repair_remaining \in [Breakable -> Nat] /\ active_obstacles \in [Floor -> Nat]
  /\ map_epoch \in Nat /\ positions_xy \in [Movers -> Floor]

\* The cells that ways must lead to.
Meet == MachineCells \cup Positions

\* The epoch moves whenever the obstacles do.
EpochTells ==
  /\ active_obstacles' \in [Floor -> Nat] /\ map_epoch' \in Nat /\ map_epoch' >= map_epoch
  /\ map_epoch' = map_epoch => Obstructed' = Obstructed

\* What ApplyEvent is given.
IsEvent(e) ==
  /\ e.step \in Nat /\ e.duration \in Nat
  /\ \/ e.type = "breakdown" /\ e.target \in Breakable
     \/ e.type = "obstacle" /\ e.target \in Floor

\* What an event may do to the floor.
Disturbed ==
  \/ Obstructed' = Obstructed
  \/ \E cell \in Floor : MayBeBlocked(cell) /\ Obstructed' = Obstructed \cup {cell}

\* WaysStayOpen in terms of regions, in this state and in the next.
LEMMA WaysAre ==
  ASSUME FloorTyped
  PROVE  WaysStayOpen <=>
           /\ Meet \subseteq FreeCells
           /\ \A c \in Meet : Meet \subseteq Reach(FreeCells, c)
BY DEF WaysStayOpen, Meet, Reach

LEMMA MeetIs == FloorTyped => Meet \subseteq Floor /\ FreeCells \in SUBSET Floor
BY DisruptionConstants DEF FloorTyped, Meet, Positions, FreeCells

WaysTold ==
  /\ WaysStayOpen <=> /\ Meet \subseteq FreeCells
                      /\ \A c \in Meet : Meet \subseteq Reach(FreeCells, c)
  /\ Meet \subseteq Floor /\ FreeCells \in SUBSET Floor

LEMMA WaysAreTold == FloorTyped => WaysTold
<1> SUFFICES ASSUME FloorTyped PROVE WaysTold
  OBVIOUS
<1> QED BY WaysAre, MeetIs DEF WaysTold

LEMMA WaysToldNext == FloorTyped' => WaysTold'
BY WaysAreTold, PTL

LEMMA WaysAreNext ==
  ASSUME FloorTyped'
  PROVE  /\ WaysStayOpen' <=> /\ Meet' \subseteq FreeCells'
                              /\ \A c \in Meet' : Meet' \subseteq Reach(FreeCells', c)
         /\ Meet' \subseteq Floor /\ FreeCells' \in SUBSET Floor
<1>3. WaysTold'
  BY WaysToldNext
<1> QED BY <1>3 DEF WaysTold, Reach

LEMMA EffectOfEvent ==
  ASSUME FloorTyped, NEW e, IsEvent(e), ApplyEvent(e)
  PROVE  repair_remaining' \in [Breakable -> Nat] /\ EpochTells /\ Disturbed
<1>1. Remaining(e.duration) \in Nat /\ Remaining(e.duration) > 0
  BY DEF IsEvent, Remaining
<1>2. CASE e.type = "breakdown"
  <2>1. BreakDown(e.target, e.duration)
    BY <1>2 DEF ApplyEvent
  <2>2. UNCHANGED <<active_obstacles, map_epoch>>
    BY <2>1 DEF BreakDown
  <2>3. repair_remaining' \in [Breakable -> Nat]
    BY <1>1, <2>1 DEF BreakDown, FloorTyped
  <2>4. Obstructed' = Obstructed
    BY <2>2 DEF Obstructed
  <2> QED BY <2>2, <2>3, <2>4 DEF FloorTyped, EpochTells, Disturbed
<1>3. CASE e.type = "obstacle" /\ e.target \in Floor
  <2>1. Block(e.target, e.duration)
    BY <1>3 DEF ApplyEvent
  <2>2. CASE ~MayBeBlocked(e.target)
    BY <2>1, <2>2 DEF Block, FloorTyped, EpochTells, Disturbed, Obstructed
  <2>3. CASE MayBeBlocked(e.target)
    <3>1. /\ active_obstacles' = [active_obstacles EXCEPT ![e.target] = Remaining(e.duration)]
          /\ map_epoch' = map_epoch + 1 /\ repair_remaining' = repair_remaining
      BY <2>1, <2>3 DEF Block
    <3>2. /\ active_obstacles' \in [Floor -> Nat] /\ active_obstacles'[e.target] > 0
          /\ \A c \in Floor \ {e.target} : active_obstacles'[c] = active_obstacles[c]
      BY <1>1, <1>3, <3>1 DEF FloorTyped
    <3>3. Obstructed' = Obstructed \cup {e.target}
      BY <1>3, <3>2 DEF Obstructed
    <3>4. map_epoch' \in Nat /\ map_epoch' > map_epoch
      BY <3>1 DEF FloorTyped
    <3> QED BY <1>3, <2>3, <3>1, <3>2, <3>3, <3>4 DEF FloorTyped, EpochTells, Disturbed
  <2> QED BY <2>2, <2>3
<1> QED BY <1>2, <1>3 DEF IsEvent

\* An obstacle where it is allowed leaves the ways open.
LEMMA WaysWhenDisturbed ==
  ASSUME FloorTyped, FloorTyped', WaysStayOpen, Disturbed, UNCHANGED positions_xy
  PROVE  WaysStayOpen'
<1>1. Meet' = Meet
  BY DEF Meet, Positions
<1>2. Meet \subseteq FreeCells /\ \A c \in Meet : Meet \subseteq Reach(FreeCells, c)
  BY WaysAre
<1>3. CASE Obstructed' = Obstructed
  BY <1>1, <1>2, <1>3, WaysAreNext DEF FreeCells
<1>4. ASSUME NEW cell \in Floor, MayBeBlocked(cell), Obstructed' = Obstructed \cup {cell}
      PROVE  WaysStayOpen'
  <2>1. FreeCells' = FreeCells \ {cell}
    BY <1>4 DEF FreeCells
  <2>2. cell \in FreeCells \ Meet /\ PreservesConnectivity(cell)
    BY <1>4 DEF MayBeBlocked, Meet
  <2>3. Meet \subseteq FreeCells \ {cell}
    BY <1>2, <2>2
  <2>4. ASSUME NEW c \in Meet, NEW d \in Meet PROVE d \in Reach(FreeCells \ {cell}, c)
    <3>1. c \in FreeCells \ {cell} /\ d \in FreeCells \ {cell} /\ d \in Reach(FreeCells, c)
      BY <1>2, <2>3
    <3> QED BY <2>2, <3>1, MeetIs, NobodyIsCutOff DEF PreservesConnectivity
  <2> QED BY <1>1, <2>1, <2>3, <2>4, WaysAreNext
<1> QED BY <1>3, <1>4 DEF Disturbed

\* Nor does a place that comes free close one.
LEMMA WaysWhenCleared ==
  ASSUME FloorTyped, FloorTyped', WaysStayOpen, Obstructed' \subseteq Obstructed,
         UNCHANGED positions_xy
  PROVE  WaysStayOpen'
<1>1. Meet' = Meet
  BY DEF Meet, Positions
<1>2. Meet \subseteq FreeCells /\ \A c \in Meet : Meet \subseteq Reach(FreeCells, c)
  BY WaysAre
<1>3. FreeCells \subseteq FreeCells' /\ FreeCells' \subseteq Floor
  BY DEF FreeCells
<1>4. \A c \in Meet : Reach(FreeCells, c) \subseteq Reach(FreeCells', c)
  BY <1>2, <1>3, ReachGrows
<1> QED BY <1>1, <1>2, <1>3, <1>4, WaysAreNext

\* A vehicle moves within its region.
LEMMA WaysWhenMoving ==
  ASSUME FloorTyped, FloorTyped', WaysStayOpen, Move
  PROVE  WaysStayOpen'
<1>1. Meet \subseteq FreeCells /\ \A c \in Meet : Meet \subseteq Reach(FreeCells, c)
  BY WaysAre
<1>2. FreeCells' = FreeCells /\ FreeCells \in SUBSET Floor
  BY DEF Move, floorVars, FreeCells, Obstructed
<1>3. ASSUME NEW d \in Meet' PROVE d \in FreeCells /\ \E c \in Meet : d \in Reach(FreeCells, c)
  <2>1. CASE d \in MachineCells
    BY <1>1, <2>1 DEF Meet
  <2>2. CASE d \in Positions'
    <3>1. PICK v \in Movers : d = positions_xy'[v]
      BY <2>2 DEF Positions
    <3>2. positions_xy[v] \in Meet
      BY DEF Meet, Positions
    <3>3. d \in FreeCells /\ (d = positions_xy[v] \/ d \in NextTo[positions_xy[v]])
      BY <3>1 DEF Move
    <3>4. positions_xy[v] \in Reach(FreeCells, positions_xy[v])
      BY <1>1, <3>2
    <3>5. CASE d \in NextTo[positions_xy[v]]
      <4>1. positions_xy[v] \in NextTo[d]
        BY <1>1, <1>2, <3>2, <3>3, <3>5, DisruptionConstants
      <4>2. Closed(Reach(FreeCells, positions_xy[v]), FreeCells)
        BY <1>1, <1>2, <3>2, ReachIsLeast
      <4>3. d \in Reach(FreeCells, positions_xy[v])
        BY <3>3, <3>4, <4>1, <4>2 DEF Closed
      <4> QED BY <3>2, <3>3, <4>3
    <3> QED BY <3>2, <3>3, <3>4, <3>5
  <2> QED BY <2>1, <2>2 DEF Meet
<1>4. \A c, d \in Meet : Reach(FreeCells, c) = Reach(FreeCells, d)
  BY <1>1, <1>2, ReachIsShared
<1>5. ASSUME NEW c \in Meet', NEW d \in Meet' PROVE d \in Reach(FreeCells, c)
  <2>1. PICK a \in Meet : c \in Reach(FreeCells, a)
    BY <1>3
  <2>2. PICK b \in Meet : d \in Reach(FreeCells, b)
    BY <1>3
  <2>3. Reach(FreeCells, c) = Reach(FreeCells, a)
    BY <1>1, <1>2, <2>1, ReachIsShared
  <2> QED BY <1>4, <2>2, <2>3
<1> QED BY <1>2, <1>3, <1>5, WaysAreNext

-----------------------------------------------------------------------------
(* Sorting by step.                                                        *)

\* A finite set's subsets have a smallest one of each kind.
LEMMA SmallestOf ==
  ASSUME NEW S, IsFiniteSet(S), NEW T, T \subseteq SUBSET S, T # {}
  PROVE  \E U \in T : \A V \in T : V \subseteq U => V = U
<1>1. FiniteSubsetsOf(S) = SUBSET S
  BY FS_FiniteSubsetsOfFinite
<1>2. PICK U \in T : \A V \in T : ~(<<V, U>> \in StrictSubsetOrdering(S))
  BY <1>1, FS_StrictSubsetOrderingWellFounded, WFMin
<1> QED BY <1>2 DEF StrictSubsetOrdering

\* One of a set of events is the first.
LEMMA EarliestOf ==
  ASSUME NEW U, U # {}, \A e \in U : e.step \in Nat
  PROVE  \E e \in U : \A f \in U : e.step <= f.step
<1> DEFINE T == {e.step : e \in U}
<1>1. T \subseteq Nat /\ T # {}
  OBVIOUS
<1>2. \E x \in T : \A y \in T : x <= y
  <2> HIDE DEF T
  <2> QED BY <1>1, LeastNumber
<1> QED BY <1>2

\* s lists U by step.
Lists(U, n, s) ==
  /\ s \in [1..n -> U] /\ {s[i] : i \in 1..n} = U
  /\ \A i, k \in 1..n : i <= k => s[i].step <= s[k].step

\* Every finite set of events can be listed so, and ByStep does.
LEMMA ListExists ==
  ASSUME NEW S, IsFiniteSet(S), \A e \in S : e.step \in Nat
  PROVE  \E s : Lists(S, Cardinality(S), s)
<1> DEFINE Listed(U) == \E s : Lists(U, Cardinality(U), s)
           T == {U \in SUBSET S : ~Listed(U)}
<1> SUFFICES ASSUME T # {} PROVE FALSE
  <2>1. S \in SUBSET S
    OBVIOUS
  <2> QED BY <2>1
<1>1. PICK U \in T : \A V \in T : V \subseteq U => V = U
  <2>1. T \subseteq SUBSET S
    OBVIOUS
  <2> HIDE DEF T
  <2> QED BY <2>1, SmallestOf
<1>2. U \in SUBSET S /\ ~Listed(U) /\ IsFiniteSet(U)
  BY <1>1, FS_Subset
<1>3. U # {}
  <2> DEFINE s == [i \in 1..0 |-> 0]
  <2>1. Lists({}, 0, s)
    BY DEF Lists
  <2>2. Cardinality({}) = 0
    BY FS_EmptySet
  <2> HIDE DEF s
  <2> QED BY <1>2, <2>1, <2>2
<1>4. PICK e \in U : \A f \in U : e.step <= f.step
  BY <1>2, <1>3, EarliestOf
<1>5. PICK s : Lists(U \ {e}, Cardinality(U \ {e}), s)
  <2>1. U \ {e} \in SUBSET S /\ U \ {e} # U /\ U \ {e} \subseteq U
    BY <1>2
  <2> HIDE DEF Listed
  <2>2. U \ {e} \notin T
    BY <1>1, <2>1
  <2>3. Listed(U \ {e})
    BY <2>1, <2>2
  <2> QED BY <2>3 DEF Listed
<1> DEFINE n == Cardinality(U \ {e})
           t == [i \in 1..(n + 1) |-> IF i = 1 THEN e ELSE s[i - 1]]
<1>6. n \in Nat /\ Cardinality(U) = n + 1
  <2>1. IsFiniteSet(U \ {e}) /\ n = Cardinality(U) - 1
    BY <1>2, FS_RemoveElement
  <2>2. n \in Nat /\ Cardinality(U) \in Nat
    BY <1>2, <2>1, FS_CardinalityType
  <2> QED BY <2>1, <2>2
<1> HIDE DEF n
<1>7. s \in [1..n -> U \ {e}] /\ {s[i] : i \in 1..n} = U \ {e}
  BY <1>5 DEF Lists, n
<1>8. \A i, k \in 1..n : i <= k => s[i].step <= s[k].step
  BY <1>5 DEF Lists, n
<1>9. t[1] = e /\ \A i \in 2..(n + 1) : i - 1 \in 1..n /\ t[i] = s[i - 1]
  BY <1>6
<1>10. t \in [1..(n + 1) -> U]
  BY <1>6, <1>7
<1>11. {t[i] : i \in 1..(n + 1)} = U
  <2>1. ASSUME NEW f \in U PROVE \E i \in 1..(n + 1) : t[i] = f
    <3>1. CASE f = e
      BY <1>6, <3>1
    <3>2. CASE f # e
      <4>1. PICK i \in 1..n : s[i] = f
        BY <1>7, <3>2
      <4>2. i + 1 \in 1..(n + 1) /\ t[i + 1] = s[i]
        BY <1>6
      <4> QED BY <4>1, <4>2
    <3> QED BY <3>1, <3>2
  <2> QED BY <1>10, <2>1
<1>12. ASSUME NEW i \in 1..(n + 1), NEW k \in 1..(n + 1), i <= k
       PROVE  t[i].step <= t[k].step
  <2>1. t[k] \in U
    BY <1>10
  <2>2. CASE i = 1
    BY <1>4, <1>9, <2>1, <2>2
  <2>3. CASE i # 1
    <3> HIDE DEF t
    <3>1. k \in 2..(n + 1) /\ i \in 2..(n + 1) /\ i - 1 <= k - 1
      BY <1>6, <1>12, <2>3
    <3>2. t[i] = s[i - 1] /\ i - 1 \in 1..n
      BY <1>9, <3>1
    <3>3. t[k] = s[k - 1] /\ k - 1 \in 1..n
      BY <1>9, <3>1
    <3> QED BY <1>8, <3>1, <3>2, <3>3
  <2> QED BY <2>2, <2>3
<1> HIDE DEF t
<1>13. Lists(U, n + 1, t)
  BY <1>10, <1>11, <1>12 DEF Lists
<1> QED BY <1>2, <1>6, <1>13

LEMMA ByStepIs ==
  ASSUME NEW S, IsFiniteSet(S), \A e \in S : e.step \in Nat
  PROVE  /\ Lists(S, Cardinality(S), ByStep(S)) /\ Cardinality(S) \in Nat
         /\ \A i, k \in 1..Cardinality(S) : ByStep(S)[i] = ByStep(S)[k] => i = k
<1> DEFINE n == Cardinality(S)
           Good(s) == /\ {s[i] : i \in DOMAIN s} = S
                      /\ \A i, k \in DOMAIN s : i <= k => s[i].step <= s[k].step
<1>1. PICK s : Lists(S, n, s)
  BY ListExists
<1>2. s \in [1..n -> S] /\ Good(s)
  BY <1>1 DEF Lists
<1>3. ByStep(S) = CHOOSE t \in [1..n -> S] : Good(t)
  BY DEF ByStep
<1>4. ByStep(S) \in [1..n -> S] /\ Good(ByStep(S))
  <2> HIDE DEF Good, n
  <2> QED BY <1>2, <1>3
<1>5. n \in Nat
  BY FS_CardinalityType
<1>6. Cardinality(1..n) = n /\ IsFiniteSet(1..n)
  BY <1>5, FS_Interval
<1>7. ByStep(S) \in Surjection(1..n, S)
  BY <1>4 DEF Surjection
<1>8. ByStep(S) \in Injection(1..n, S)
  BY <1>6, <1>7, FS_Surjection
<1> QED BY <1>4, <1>5, <1>8 DEF Lists, Injection, IsInjective

LEMMA UpTo ==
  ASSUME NEW j \in Nat, NEW k \in Nat, j < k
  PROVE  Cardinality(1..j) = j /\ Cardinality((1..j) \cup {k}) = j + 1
<1>1. Cardinality(1..j) = IF 1 > j THEN 0 ELSE j - 1 + 1
  BY FS_Interval
<1>2. IsFiniteSet(1..j)
  BY FS_Interval
<1>3. k \notin 1..j /\ Cardinality(1..j) = j
  BY <1>1
<1> QED BY <1>2, <1>3, FS_AddElement

\* An event is sorted in after those of its step and before those that follow.
LEMMA SortedInIs ==
  ASSUME NEW E, schedule \in Seq(E), \A x \in E : x.step \in Nat, NEW e, e.step \in Nat,
         \A i, k \in 1..Len(schedule) : i <= k => schedule[i].step <= schedule[k].step
  PROVE  \E m \in 0..Len(schedule) :
           /\ \A i \in 1..m : schedule[i].step <= e.step
           /\ \A i \in (m + 1)..Len(schedule) : schedule[i].step > e.step
           /\ SortedIn(e) = [i \in 1..(Len(schedule) + 1) |->
                IF i <= m THEN schedule[i] ELSE IF i = m + 1 THEN e ELSE schedule[i - 1]]
<1> DEFINE n == Len(schedule)
           t == Append(schedule, e)
           C == {i \in 1..n : schedule[i].step <= e.step}
           m == Cardinality(C)
           Rank(k) == Cardinality({i \in 1..(n + 1) : Before(t, i, k)})
<1>1. n \in Nat /\ DOMAIN t = 1..(n + 1) /\ \A i \in 1..n : schedule[i].step \in Nat
  OBVIOUS
<1>2. t[n + 1] = e /\ \A i \in 1..n : t[i] = schedule[i]
  OBVIOUS
<1>3. \A i, k \in 1..n : i <= k => schedule[i].step <= schedule[k].step
  OBVIOUS
<1>4. SortedIn(e) = [p \in 1..(n + 1) |-> t[CHOOSE k \in 1..(n + 1) : Rank(k) = p]]
  BY <1>1 DEF SortedIn, SortedByStep
<1> HIDE DEF n, t
<1>5. m \in 0..n /\ C = 1..m
  <2>1. ASSUME NEW i \in C, NEW j \in 1..n, j < i PROVE j \in C
    <3>1. i \in 1..n /\ schedule[i].step <= e.step
      OBVIOUS
    <3>2. schedule[j].step <= schedule[i].step
      BY <1>1, <1>3, <2>1, <3>1
    <3>3. schedule[j].step \in Nat /\ schedule[i].step \in Nat
      BY <1>1, <3>1
    <3>4. schedule[j].step <= e.step
      BY <3>1, <3>2, <3>3
    <3> QED BY <3>4
  <2> HIDE DEF C
  <2>2. C \subseteq 1..n
    BY DEF C
  <2> QED BY <1>1, <2>1, <2>2, Initial
<1>6. /\ \A i \in 1..m : i \in 1..n /\ schedule[i].step <= e.step
      /\ \A i \in (m + 1)..n : i \in 1..n /\ schedule[i].step > e.step
  <2>1. \A i \in 1..n : i \in C <=> schedule[i].step <= e.step
    OBVIOUS
  <2> HIDE DEF C, m
  <2>2. \A i \in 1..m : i \in C /\ i \in 1..n
    BY <1>1, <1>5
  <2>3. \A i \in (m + 1)..n : i \notin C /\ i \in 1..n
    BY <1>1, <1>5
  <2> QED BY <1>1, <2>1, <2>2, <2>3
<1> HIDE DEF C, m
<1>8a. \A i, k \in 1..n : Before(t, i, k) <=> i <= k
  BY <1>1, <1>2, <1>3 DEF Before
<1>8b. \A k \in 1..n : Before(t, n + 1, k) <=> e.step < schedule[k].step
  BY <1>1, <1>2 DEF Before
<1>8c. \A i \in 1..n : Before(t, i, n + 1) <=> schedule[i].step <= e.step
  BY <1>1, <1>2 DEF Before
<1>8d. Before(t, n + 1, n + 1)
  BY <1>1, <1>2 DEF Before
<1>8e. \A i \in 1..(n + 1) : i \in 1..n \/ i = n + 1
  BY <1>1
<1>8. ASSUME NEW k \in 1..m PROVE Rank(k) = k
  <2>1. k \in 1..n /\ ~(e.step < schedule[k].step)
    BY <1>1, <1>5, <1>6
  <2>2. \A i \in 1..(n + 1) : Before(t, i, k) <=> i \in 1..k
    <3>1. \A i \in 1..n : Before(t, i, k) <=> i \in 1..k
      BY <1>1, <1>8a, <2>1
    <3>2. Before(t, n + 1, k) <=> n + 1 \in 1..k
      BY <1>1, <1>8b, <2>1
    <3> QED BY <1>8e, <3>1, <3>2
  <2>3. {i \in 1..(n + 1) : Before(t, i, k)} = 1..k
    <3>1. 1..k \subseteq 1..(n + 1)
      BY <1>1, <2>1
    <3> QED BY <2>2, <3>1
  <2>4. k \in Nat /\ n + 1 \in Nat /\ k < n + 1
    BY <1>1, <2>1
  <2>5. Cardinality(1..k) = k
    BY <2>4, UpTo
  <2> QED BY <2>3, <2>5
<1>9. ASSUME NEW k \in (m + 1)..n PROVE Rank(k) = k + 1
  <2>1. k \in 1..n /\ e.step < schedule[k].step
    BY <1>1, <1>5, <1>6
  <2>2. \A i \in 1..(n + 1) : Before(t, i, k) <=> i \in (1..k) \cup {n + 1}
    <3>1. \A i \in 1..n : Before(t, i, k) <=> i \in (1..k) \cup {n + 1}
      BY <1>1, <1>8a, <2>1
    <3>2. Before(t, n + 1, k) <=> n + 1 \in (1..k) \cup {n + 1}
      BY <1>1, <1>8b, <2>1
    <3> QED BY <1>8e, <3>1, <3>2
  <2>3. {i \in 1..(n + 1) : Before(t, i, k)} = (1..k) \cup {n + 1}
    BY <1>1, <2>1, <2>2
  <2> QED BY <1>1, <2>1, <2>3, UpTo
<1>10. Rank(n + 1) = m + 1
  <2>1. \A i \in 1..n : schedule[i].step <= e.step <=> i \in 1..m
    BY <1>1, <1>5, <1>6
  <2>2. \A i \in 1..(n + 1) : Before(t, i, n + 1) <=> i \in (1..m) \cup {n + 1}
    BY <1>1, <1>5, <1>8c, <1>8d, <1>8e, <2>1
  <2>3. {i \in 1..(n + 1) : Before(t, i, n + 1)} = (1..m) \cup {n + 1}
    BY <1>1, <1>5, <2>2
  <2> QED BY <1>1, <1>5, <2>3, UpTo
<1> HIDE DEF Rank
<1> DEFINE pos(p) == IF p <= m THEN p ELSE IF p = m + 1 THEN n + 1 ELSE p - 1
<1>11. ASSUME NEW p \in 1..(n + 1)
       PROVE  (CHOOSE k \in 1..(n + 1) : Rank(k) = p) = pos(p)
  <2>1. pos(p) \in 1..(n + 1) /\ Rank(pos(p)) = p
    BY <1>1, <1>5, <1>8, <1>9, <1>10
  <2>2. ASSUME NEW k \in 1..(n + 1), Rank(k) = p PROVE k = pos(p)
    <3>1. k \in 1..m \/ k \in (m + 1)..n \/ k = n + 1
      BY <1>1, <1>5
    <3>2. CASE k \in 1..m
      BY <1>1, <1>5, <1>8, <2>2, <3>2
    <3>3. CASE k \in (m + 1)..n
      BY <1>1, <1>5, <1>9, <2>2, <3>3
    <3>4. CASE k = n + 1
      BY <1>1, <1>5, <1>10, <2>2, <3>4
    <3> QED BY <3>1, <3>2, <3>3, <3>4
  <2> HIDE DEF pos
  <2> QED BY <2>1, <2>2
<1>12. SortedIn(e) = [p \in 1..(n + 1) |-> t[pos(p)]]
  BY <1>4, <1>11
<1>13. \A p \in 1..(n + 1) : t[pos(p)] =
         IF p <= m THEN schedule[p] ELSE IF p = m + 1 THEN e ELSE schedule[p - 1]
  BY <1>1, <1>2, <1>5
<1>14. SortedIn(e) = [p \in 1..(n + 1) |->
         IF p <= m THEN schedule[p] ELSE IF p = m + 1 THEN e ELSE schedule[p - 1]]
  <2> HIDE DEF pos
  <2> QED BY <1>12, <1>13
<1> QED BY <1>5, <1>6, <1>14 DEF n

-----------------------------------------------------------------------------
(* What holds of the injector between its actions.                         *)

\* The events there may ever be.
AllEvents == Configured \cup UNION {EventsOf(<<"manual", n>>, s) : n \in Nat, s \in Nat}

\* What the history tells of event e, which was taken or is still to come.
Taken(e) == e.step <= env_timeline /\ (e.id \in DOMAIN tried => tried[e.id] = <<e.step>>)
ToCome(e) == e.id \in DOMAIN tried =>
  /\ tried[e.id] = <<>> /\ e.step >= env_timeline
  /\ step_phase \in {"moving", "ticking"} => e.step > env_timeline

\* The schedule is one of events, by step.
ScheduleTyped ==
  /\ schedule \in Seq(AllEvents) /\ schedule_idx \in 0..Len(schedule)
  /\ \A i, k \in 1..Len(schedule) : i <= k => schedule[i].step <= schedule[k].step

\* No event is in it twice, and none that is yet to be given by hand.
OneOfEach ==
  /\ \A i, k \in 1..Len(schedule) : schedule[i].id = schedule[k].id => i = k
  /\ \A i \in 1..Len(schedule), n \in manual..MaxManual : schedule[i].id # <<"manual", n>>

\* schedule_idx parts what was tried from what is to come.
InPlaceOfSchedule ==
  /\ \A i \in 1..schedule_idx : Taken(schedule[i])
  /\ \A i \in (schedule_idx + 1)..Len(schedule) : ToCome(schedule[i])
  /\ step_phase = "scheduled" => enabled
  /\ ~enabled => DOMAIN tried = {}

ScheduleInv == ScheduleTyped /\ OneOfEach /\ InPlaceOfSchedule

\* What was measured at an epoch was measured with the obstacles of that epoch.
CacheInv ==
  /\ observed.epoch \in Nat /\ observed.epoch <= map_epoch
  /\ observed.epoch = map_epoch => observed.grid = Obstructed
  /\ observed.epoch = 0 => observed.grid = {}
  /\ map_epoch = 0 => Obstructed = {}
  /\ cache.epoch = observed.epoch => cache.grids \subseteq {observed.grid}
  /\ cache.epoch = 0 => cache.grids \subseteq {{}}
  /\ step_phase # "between" => cache.epoch = observed.epoch

\* The inductive invariant of the disruptions.
DisruptionsInv == FloorTyped /\ WaysStayOpen /\ ScheduleInv /\ CacheInv

LEMMA EventsAre ==
  ASSUME NEW id, NEW s \in Nat, NEW e \in EventsOf(id, s)
  PROVE  IsEvent(e) /\ e.id = id /\ e.step = s
BY DisruptionConstants DEF EventsOf, IsEvent, Breakable

LEMMA AllAreEvents == \A e \in AllEvents : IsEvent(e) /\ e.step \in Nat
<1> SUFFICES ASSUME NEW e \in AllEvents PROVE IsEvent(e)
  BY DEF IsEvent
<1>1. CASE e \in Configured
  BY <1>1, ScheduleConstants DEF IsEvent, Breakable
<1>2. CASE e \in UNION {EventsOf(<<"manual", n>>, s) : n \in Nat, s \in Nat}
  <2>1. PICK n \in Nat, s \in Nat : e \in EventsOf(<<"manual", n>>, s)
    BY <1>2
  <2> QED BY <2>1, EventsAre
<1> QED BY <1>1, <1>2 DEF AllEvents

\* The cache, when nothing is observed or measured.
LEMMA CacheStays ==
  ASSUME FloorTyped, CacheInv, EpochTells, UNCHANGED <<observed, cache>>,
         step_phase' # "between" => step_phase # "between"
  PROVE  CacheInv'
<1>1. map_epoch \in Nat /\ map_epoch' \in Nat /\ map_epoch' >= map_epoch
  BY DEF FloorTyped, EpochTells
<1>2. map_epoch' = map_epoch => Obstructed' = Obstructed
  BY DEF EpochTells
<1> QED BY <1>1, <1>2 DEF CacheInv

\* The schedule, when no event is tried.
LEMMA ScheduleStays ==
  ASSUME ScheduleInv, UNCHANGED <<schedule, schedule_idx, tried, env_timeline, manual>>,
         step_phase' \in {"moving", "ticking"} =>
           \/ step_phase \in {"moving", "ticking"}
           \/ DOMAIN tried = {}
           \/ \A i \in (schedule_idx + 1)..Len(schedule) : schedule[i].step > env_timeline,
         step_phase' = "scheduled" => enabled', enabled => enabled'
  PROVE  ScheduleInv'
<1>1. ScheduleTyped' /\ OneOfEach'
  BY DEF ScheduleInv, ScheduleTyped, OneOfEach
<1>2. \A i \in 1..schedule_idx : Taken(schedule[i])'
  BY DEF ScheduleInv, InPlaceOfSchedule, Taken
<1>3. \A i \in (schedule_idx + 1)..Len(schedule) : ToCome(schedule[i])'
  BY DEF ScheduleInv, InPlaceOfSchedule, ToCome
<1> QED BY <1>1, <1>2, <1>3 DEF ScheduleInv, InPlaceOfSchedule

LEMMA EnterStepKeeps ==
  ASSUME DisruptionsInv, EnterStep PROVE DisruptionsInv'
<1> USE DEF DisruptionsInv
<1>1. FloorTyped'
  BY DEF EnterStep, FloorTyped, injectorVars, floorVars
<1>2. WaysStayOpen'
  <2>1. Disturbed
    BY DEF EnterStep, floorVars, Disturbed, Obstructed
  <2> QED BY <1>1, <2>1, WaysWhenDisturbed DEF EnterStep
<1>3. ScheduleInv'
  <2>1. step_phase' = IF enabled THEN "scheduled" ELSE "moving"
    BY DEF EnterStep
  <2>2. ~enabled => DOMAIN tried = {}
    BY DEF ScheduleInv, InPlaceOfSchedule
  <2> QED BY <2>1, <2>2, ScheduleStays DEF EnterStep, injectorVars, FloorTyped
<1>4. CacheInv'
  <2>1. /\ cache' = [epoch |-> observed.epoch, grids |->
              (IF cache.epoch = observed.epoch THEN cache.grids ELSE {}) \cup {observed.grid}]
        /\ UNCHANGED <<observed, map_epoch, active_obstacles>>
    BY DEF EnterStep, Encode, floorVars
  <2> QED BY <2>1 DEF CacheInv, Obstructed
<1> QED BY <1>1, <1>2, <1>3, <1>4

LEMMA TakeScheduledKeeps ==
  ASSUME DisruptionsInv, TakeScheduled PROVE DisruptionsInv'
<1> USE DEF DisruptionsInv
<1> DEFINE n == schedule_idx + 1
           e == schedule[n]
<1>1. /\ n \in 1..Len(schedule) /\ schedule_idx \in Nat /\ Len(schedule) \in Nat
      /\ e \in AllEvents /\ e.step <= env_timeline /\ schedule_idx' = n
      /\ env_timeline \in Nat /\ e.step \in Nat
  <2>1. schedule \in Seq(AllEvents) /\ schedule_idx \in 0..Len(schedule) /\ env_timeline \in Nat
    BY DisruptionConstants DEF ScheduleInv, ScheduleTyped, FloorTyped
  <2>2. n \in 1..Len(schedule) /\ Len(schedule) \in Nat /\ schedule_idx \in Nat
    BY <2>1 DEF TakeScheduled, NextIsDue
  <2>3. e \in AllEvents
    BY <2>1, <2>2
  <2> QED BY <2>1, <2>2, <2>3, AllAreEvents DEF TakeScheduled, NextIsDue
<1>2. /\ UNCHANGED <<step_phase, env_timeline, enabled, schedule, positions_xy, observed,
                     cache, manual>>
      /\ step_phase = "scheduled"
  BY DEF TakeScheduled
<1>3. \/ e.step < env_timeline /\ UNCHANGED <<floorVars, tried>>
      \/ /\ ~(e.step < env_timeline) /\ ApplyEvent(e)
         /\ tried' = [id \in DOMAIN tried |->
                         IF id = e.id THEN Append(tried[id], env_timeline) ELSE tried[id]]
  BY DEF TakeScheduled
<1>4. repair_remaining' \in [Breakable -> Nat] /\ EpochTells /\ Disturbed
  <2>1. CASE UNCHANGED floorVars
    BY <2>1 DEF floorVars, EpochTells, Disturbed, FloorTyped, Obstructed
  <2>2. CASE ApplyEvent(e)
    BY <1>1, <2>2, AllAreEvents, EffectOfEvent
  <2> QED BY <1>3, <2>1, <2>2
<1>5. FloorTyped'
  BY <1>2, <1>4 DEF FloorTyped, EpochTells
<1>6. WaysStayOpen' /\ CacheInv'
  BY <1>2, <1>4, <1>5, WaysWhenDisturbed, CacheStays
<1>7. ScheduleTyped' /\ OneOfEach'
  BY <1>1, <1>2 DEF ScheduleInv, ScheduleTyped, OneOfEach
<1>8. DOMAIN tried' = DOMAIN tried
  BY <1>3
<1>9. \A i \in 1..Len(schedule) : i # n => schedule[i].id # e.id
  BY <1>1 DEF ScheduleInv, OneOfEach
<1>10. \A i \in 1..Len(schedule) : i # n /\ schedule[i].id \in DOMAIN tried =>
         tried'[schedule[i].id] = tried[schedule[i].id]
  BY <1>3, <1>9
<1>11. e.id \in DOMAIN tried => tried'[e.id] = <<e.step>>
  <2> SUFFICES ASSUME e.id \in DOMAIN tried PROVE tried'[e.id] = <<e.step>>
    OBVIOUS
  <2>1. ToCome(e)
    BY <1>1 DEF ScheduleInv, InPlaceOfSchedule
  <2>2. tried[e.id] = <<>> /\ e.step = env_timeline
    BY <1>1, <2>1 DEF ToCome
  <2> QED BY <1>1, <1>3, <2>2
<1> HIDE DEF n, e
<1>12. InPlaceOfSchedule'
  <2>1. ASSUME NEW i \in 1..n PROVE Taken(schedule[i])'
    <3>1. CASE i = n
      BY <1>1, <1>2, <1>8, <1>11, <3>1 DEF Taken, e
    <3>2. CASE i # n
      <4>1. i \in 1..schedule_idx /\ i \in 1..Len(schedule)
        BY <1>1, <3>2 DEF n
      <4>2. Taken(schedule[i])
        BY <4>1 DEF ScheduleInv, InPlaceOfSchedule
      <4> QED BY <1>2, <1>8, <1>10, <3>2, <4>1, <4>2 DEF Taken
    <3> QED BY <3>1, <3>2
  <2>2. ASSUME NEW i \in (n + 1)..Len(schedule) PROVE ToCome(schedule[i])'
    <3>1. i \in (schedule_idx + 1)..Len(schedule) /\ i \in 1..Len(schedule) /\ i # n
      BY <1>1 DEF n
    <3>2. ToCome(schedule[i])
      BY <3>1 DEF ScheduleInv, InPlaceOfSchedule
    <3> QED BY <1>2, <1>8, <1>10, <3>1, <3>2 DEF ToCome
  <2> QED BY <1>1, <1>2, <1>8, <2>1, <2>2 DEF ScheduleInv, InPlaceOfSchedule
<1> QED BY <1>5, <1>6, <1>7, <1>12 DEF ScheduleInv

LEMMA HappenByChanceKeeps ==
  ASSUME DisruptionsInv, HappenByChance PROVE DisruptionsInv'
<1> USE DEF DisruptionsInv
<1>0. env_timeline \in Nat
  BY DisruptionConstants DEF FloorTyped
<1>1. /\ UNCHANGED <<env_timeline, injectorVars, positions_xy, observed, cache, manual>>
      /\ step_phase = "scheduled" /\ ~NextIsDue /\ step_phase' \in {"scheduled", "moving"}
  BY DEF HappenByChance
<1>2. repair_remaining' \in [Breakable -> Nat] /\ EpochTells /\ Disturbed
  <2>1. CASE UNCHANGED floorVars
    BY <2>1 DEF floorVars, EpochTells, Disturbed, FloorTyped, Obstructed
  <2>2. ASSUME NEW e \in EventsOf("by chance", env_timeline), ApplyEvent(e)
        PROVE  repair_remaining' \in [Breakable -> Nat] /\ EpochTells /\ Disturbed
    BY <1>0, <2>2, EventsAre, EffectOfEvent
  <2> QED BY <2>1, <2>2 DEF HappenByChance
<1>3. FloorTyped'
  BY <1>1, <1>2 DEF FloorTyped, EpochTells, injectorVars
<1>4. WaysStayOpen' /\ CacheInv'
  BY <1>1, <1>2, <1>3, WaysWhenDisturbed, CacheStays
<1>5. ASSUME NEW i \in (schedule_idx + 1)..Len(schedule) PROVE schedule[i].step > env_timeline
  <2>1. /\ schedule \in Seq(AllEvents) /\ schedule_idx \in 0..Len(schedule)
        /\ \A j, k \in 1..Len(schedule) : j <= k => schedule[j].step <= schedule[k].step
    BY DEF ScheduleInv, ScheduleTyped
  <2>2. /\ schedule_idx + 1 \in 1..Len(schedule) /\ i \in 1..Len(schedule)
        /\ schedule_idx + 1 <= i /\ schedule_idx < Len(schedule)
    BY <2>1
  <2>3. /\ schedule[schedule_idx + 1].step \in Nat /\ schedule[i].step \in Nat
        /\ schedule[schedule_idx + 1].step <= schedule[i].step
    BY <2>1, <2>2, AllAreEvents
  <2>4. ~(schedule[schedule_idx + 1].step <= env_timeline)
    BY <1>1, <2>2 DEF NextIsDue
  <2> QED BY <1>0, <2>3, <2>4
<1>6. ScheduleInv'
  <2>1. enabled
    BY <1>1 DEF ScheduleInv, InPlaceOfSchedule
  <2> QED BY <1>1, <1>5, <2>1, ScheduleStays DEF injectorVars
<1> QED BY <1>3, <1>4, <1>6

LEMMA MoveKeeps ==
  ASSUME DisruptionsInv, Move PROVE DisruptionsInv'
<1> USE DEF DisruptionsInv
<1>1. /\ UNCHANGED <<env_timeline, injectorVars, floorVars, observed, cache, manual>>
      /\ step_phase = "moving" /\ step_phase' = "ticking"
      /\ positions_xy' \in [Movers -> FreeCells]
  BY DEF Move
<1>2. FloorTyped'
  BY <1>1 DEF FloorTyped, injectorVars, floorVars, FreeCells
<1>3. WaysStayOpen'
  BY <1>2, WaysWhenMoving
<1>4. EpochTells
  BY <1>1 DEF FloorTyped, EpochTells, floorVars, Obstructed
<1>5. CacheInv'
  BY <1>1, <1>4, CacheStays
<1>6. ScheduleInv'
  BY <1>1, ScheduleStays DEF injectorVars
<1> QED BY <1>2, <1>3, <1>5, <1>6

\* Whoever removes obstacles counts them.
LEMMA CountedAway ==
  ASSUME FloorTyped, active_obstacles' \in [Floor -> Nat], Obstructed' \subseteq Obstructed,
         NEW S \in SUBSET Floor, map_epoch' = map_epoch + Cardinality(S),
         Obstructed \ Obstructed' \subseteq S
  PROVE  EpochTells
<1>1. IsFiniteSet(S) /\ Cardinality(S) \in Nat
  BY DisruptionConstants, FS_Subset, FS_CardinalityType
<1>2. map_epoch \in Nat
  BY DEF FloorTyped
<1>3. map_epoch' = map_epoch => Obstructed' = Obstructed
  <2> SUFFICES ASSUME map_epoch' = map_epoch PROVE Obstructed' = Obstructed
    OBVIOUS
  <2>1. Cardinality(S) = 0
    BY <1>1, <1>2
  <2>2. S = {}
    BY <1>1, <2>1, FS_EmptySet
  <2> QED BY <2>2
<1> QED BY <1>1, <1>2, <1>3 DEF EpochTells

LEMMA TickKeeps ==
  ASSUME DisruptionsInv, Tick PROVE DisruptionsInv'
<1> USE DEF DisruptionsInv
<1>1. /\ UNCHANGED <<injectorVars, positions_xy, cache, manual>>
      /\ step_phase = "ticking" /\ step_phase' = "between" /\ env_timeline' = env_timeline + 1
      /\ observed' = [epoch |-> map_epoch', grid |-> Obstructed']
  BY DEF Tick
<1>2. \A x \in Nat : Ticked(x) \in Nat /\ (Ticked(x) > 0 => x > 0) /\ (Ticked(x) = 0 /\ x > 0 => x = 1)
  BY DEF Ticked
<1>3. repair_remaining' \in [Breakable -> Nat] /\ EpochTells /\ Obstructed' \subseteq Obstructed
  <2>1. CASE enabled
    <3>1. /\ repair_remaining' = [t \in Breakable |-> Ticked(repair_remaining[t])]
          /\ active_obstacles' = [c \in Floor |-> Ticked(active_obstacles[c])]
          /\ map_epoch' = map_epoch + Cardinality(Expiring)
      BY <2>1 DEF Tick
    <3>2. repair_remaining' \in [Breakable -> Nat] /\ active_obstacles' \in [Floor -> Nat]
      BY <1>2, <3>1 DEF FloorTyped
    <3>3. Obstructed' \subseteq Obstructed /\ Obstructed \ Obstructed' \subseteq Expiring
      BY <1>2, <3>1, <3>2 DEF FloorTyped, Obstructed, Expiring
    <3>4. Expiring \in SUBSET Floor
      BY DEF Expiring
    <3> QED BY <3>1, <3>2, <3>3, <3>4, CountedAway
  <2>2. CASE ~enabled
    BY <2>2 DEF Tick, floorVars, EpochTells, Obstructed, FloorTyped
  <2> QED BY <2>1, <2>2 DEF FloorTyped
<1>4. env_timeline \in Nat /\ MaxTimeline \in Nat
  BY DisruptionConstants DEF FloorTyped
<1>5. FloorTyped'
  BY <1>1, <1>3, <1>4 DEF FloorTyped, EpochTells, injectorVars
<1>6. WaysStayOpen'
  BY <1>1, <1>3, <1>5, WaysWhenCleared
<1>7. CacheInv'
  <2>1. cache.epoch = observed.epoch /\ observed.epoch \in Nat /\ observed.epoch <= map_epoch
    BY <1>1 DEF CacheInv
  <2>2. map_epoch \in Nat /\ map_epoch' \in Nat /\ map_epoch' >= map_epoch
    BY <1>3 DEF EpochTells, FloorTyped
  <2>3. map_epoch' = map_epoch => Obstructed' = Obstructed
    BY <1>3 DEF EpochTells
  <2>4. map_epoch' = 0 => Obstructed' = {}
    BY <2>2, <2>3 DEF CacheInv
  <2>5. cache.epoch = map_epoch' => cache.grids \subseteq {Obstructed'}
    BY <2>1, <2>2, <2>3 DEF CacheInv
  <2> QED BY <1>1, <2>2, <2>4, <2>5 DEF CacheInv
<1>8. ScheduleInv'
  <2>1. UNCHANGED <<schedule, schedule_idx, tried, manual, enabled>>
    BY <1>1 DEF injectorVars
  <2>2. ScheduleTyped' /\ OneOfEach'
    BY <2>1 DEF ScheduleInv, ScheduleTyped, OneOfEach
  <2>3. schedule \in Seq(AllEvents) /\ schedule_idx \in 0..Len(schedule)
    BY DEF ScheduleInv, ScheduleTyped
  <2>4. \A i \in 1..Len(schedule) : schedule[i].step \in Nat
    BY <2>3, AllAreEvents
  <2>5. ASSUME NEW i \in 1..schedule_idx PROVE Taken(schedule[i])'
    <3>1. Taken(schedule[i]) /\ i \in 1..Len(schedule)
      BY <2>3 DEF ScheduleInv, InPlaceOfSchedule
    <3> QED BY <1>1, <1>4, <2>1, <2>4, <3>1 DEF Taken
  <2>6. ASSUME NEW i \in (schedule_idx + 1)..Len(schedule) PROVE ToCome(schedule[i])'
    <3>1. ToCome(schedule[i]) /\ i \in 1..Len(schedule)
      BY <2>3 DEF ScheduleInv, InPlaceOfSchedule
    <3> QED BY <1>1, <1>4, <2>1, <2>4, <3>1 DEF ToCome
  <2> QED BY <1>1, <2>1, <2>2, <2>5, <2>6 DEF ScheduleInv, InPlaceOfSchedule
<1> QED BY <1>5, <1>6, <1>7, <1>8

\* By hand: obstacles that are put or removed, and events that are sorted in.
LEMMA FloorByHand ==
  ASSUME DisruptionsInv, ByHand, EpochTells, repair_remaining' \in [Breakable -> Nat],
         Disturbed \/ Obstructed' \subseteq Obstructed
  PROVE  FloorTyped' /\ WaysStayOpen' /\ CacheInv'
<1> USE DEF DisruptionsInv
<1>1. /\ step_phase = "between" /\ manual' = manual + 1 /\ manual < MaxManual /\ enabled'
      /\ UNCHANGED <<step_phase, env_timeline, positions_xy, observed, cache>>
  BY DEF ByHand
<1>2. manual' \in 0..MaxManual
  BY <1>1, DisruptionConstants DEF FloorTyped
<1>3. FloorTyped'
  BY <1>1, <1>2 DEF FloorTyped, EpochTells
<1>4. WaysStayOpen'
  BY <1>1, <1>3, WaysWhenDisturbed, WaysWhenCleared
<1>5. CacheInv'
  BY <1>1, CacheStays
<1> QED BY <1>3, <1>4, <1>5

LEMMA ScheduleByHand ==
  ASSUME DisruptionsInv, ByHand, UNCHANGED <<schedule, schedule_idx, tried>>
  PROVE  ScheduleInv'
<1> USE DEF DisruptionsInv
<1>1. /\ step_phase = "between" /\ manual' = manual + 1 /\ manual < MaxManual /\ enabled'
      /\ UNCHANGED <<step_phase, env_timeline>>
  BY DEF ByHand
<1>2. manual \in Nat /\ manual'..MaxManual \subseteq manual..MaxManual
  BY <1>1, DisruptionConstants DEF FloorTyped
<1>3. ScheduleTyped' /\ OneOfEach'
  BY <1>2 DEF ScheduleInv, ScheduleTyped, OneOfEach
<1>4. InPlaceOfSchedule'
  BY <1>1 DEF ScheduleInv, InPlaceOfSchedule, Taken, ToCome
<1> QED BY <1>3, <1>4 DEF ScheduleInv

LEMMA ClearManualKeeps ==
  ASSUME DisruptionsInv, ClearManual PROVE DisruptionsInv'
<1> USE DEF DisruptionsInv
<1>1. ByHand /\ UNCHANGED <<schedule, schedule_idx, tried>>
  BY DEF ClearManual
<1>2. PICK machines_ \in Picked(MachineCells), vehicles \in Picked(Movers),
           cells \in Picked(Floor) :
       /\ repair_remaining' = [t \in Breakable |->
            IF t \in machines_ \cup vehicles THEN 0 ELSE repair_remaining[t]]
       /\ active_obstacles' = [c \in Floor |-> IF c \in cells THEN 0 ELSE active_obstacles[c]]
       /\ map_epoch' = EpochAfter(Cardinality(cells \cap Obstructed))
  BY DEF ClearManual
<1>3. repair_remaining' \in [Breakable -> Nat] /\ active_obstacles' \in [Floor -> Nat]
  BY <1>2 DEF FloorTyped
<1>4. Obstructed' \subseteq Obstructed /\ Obstructed \ Obstructed' \subseteq cells \cap Obstructed
  BY <1>2, <1>3 DEF FloorTyped, Obstructed
<1>5. cells \cap Obstructed \in SUBSET Floor
  BY DEF Obstructed
<1>6. EpochTells
  BY <1>2, <1>3, <1>4, <1>5, CountedAway DEF EpochAfter
<1> QED BY <1>1, <1>3, <1>4, <1>6, FloorByHand, ScheduleByHand

LEMMA InjectManualKeeps ==
  ASSUME DisruptionsInv, InjectManual PROVE DisruptionsInv'
<1> USE DEF DisruptionsInv
<1>1. /\ ByHand /\ step_phase = "between" /\ manual' = manual + 1 /\ manual < MaxManual
      /\ enabled' /\ UNCHANGED <<step_phase, env_timeline, positions_xy, observed, cache>>
  BY DEF InjectManual, ByHand
<1>2. /\ env_timeline \in Nat /\ manual \in Nat /\ manual \in manual..MaxManual
      /\ manual'..MaxManual \subseteq manual..MaxManual /\ manual \notin manual'..MaxManual
  <2>1. MaxTimeline \in Nat /\ MaxManual \in Nat
    BY DisruptionConstants
  <2>2. env_timeline \in Nat /\ manual \in Nat
    BY <2>1 DEF FloorTyped
  <2>3. manual' \in Nat /\ manual <= MaxManual /\ manual < manual'
    BY <1>1, <2>1, <2>2
  <2>4. manual'..MaxManual \subseteq manual..MaxManual
    BY <2>1, <2>2, <2>3
  <2>5. manual \in manual..MaxManual /\ manual \notin manual'..MaxManual
    BY <1>1, <2>1, <2>2, <2>3
  <2> QED BY <2>1, <2>2, <2>4, <2>5
<1>3. PICK step \in env_timeline..MaxTimeline :
      \E e \in EventsOf(<<"manual", manual>>, step) :
       IF step > env_timeline
       THEN /\ schedule' = SortedIn(e)
            /\ tried' = [id \in DOMAIN tried \cup {e.id} |->
                           IF id = e.id THEN <<>> ELSE tried[id]]
            /\ UNCHANGED <<schedule_idx, floorVars>>
       ELSE ApplyEvent(e) /\ UNCHANGED <<schedule, schedule_idx, tried>>
  BY DEF InjectManual
<1>3a. PICK e \in EventsOf(<<"manual", manual>>, step) :
       IF step > env_timeline
       THEN /\ schedule' = SortedIn(e)
            /\ tried' = [id \in DOMAIN tried \cup {e.id} |->
                           IF id = e.id THEN <<>> ELSE tried[id]]
            /\ UNCHANGED <<schedule_idx, floorVars>>
       ELSE ApplyEvent(e) /\ UNCHANGED <<schedule, schedule_idx, tried>>
  BY <1>3
<1>4. step \in Nat
  BY <1>2
<1>5. IsEvent(e) /\ e.id = <<"manual", manual>> /\ e.step = step
  BY <1>3a, <1>4, EventsAre
<1>6. CASE ~(step > env_timeline)
  <2>1. ApplyEvent(e) /\ UNCHANGED <<schedule, schedule_idx, tried>>
    BY <1>3a, <1>6
  <2>2. repair_remaining' \in [Breakable -> Nat] /\ EpochTells /\ Disturbed
    BY <1>5, <2>1, EffectOfEvent
  <2> QED BY <1>1, <2>1, <2>2, FloorByHand, ScheduleByHand
<1>7. CASE step > env_timeline
  <2>1. /\ schedule' = SortedIn(e) /\ UNCHANGED <<schedule_idx, floorVars>>
        /\ tried' = [id \in DOMAIN tried \cup {e.id} |->
                           IF id = e.id THEN <<>> ELSE tried[id]]
    BY <1>3a, <1>7
  <2>2. FloorTyped' /\ WaysStayOpen' /\ CacheInv'
    <3>1. repair_remaining' \in [Breakable -> Nat] /\ EpochTells /\ Disturbed
      BY <2>1 DEF floorVars, EpochTells, Disturbed, FloorTyped, Obstructed
    <3> QED BY <1>1, <3>1, FloorByHand
  <2> DEFINE n == Len(schedule)
  <2>3. /\ schedule \in Seq(AllEvents) /\ schedule_idx \in 0..n /\ n \in Nat
        /\ \A i, k \in 1..n : i <= k => schedule[i].step <= schedule[k].step
    BY DEF ScheduleInv, ScheduleTyped
  <2>4. e \in AllEvents
    BY <1>2, <1>4 DEF AllEvents
  <2>5. PICK m \in 0..n :
           /\ \A i \in 1..m : schedule[i].step <= e.step
           /\ \A i \in (m + 1)..n : schedule[i].step > e.step
           /\ SortedIn(e) = [i \in 1..(n + 1) |->
                IF i <= m THEN schedule[i] ELSE IF i = m + 1 THEN e ELSE schedule[i - 1]]
    BY <1>4, <1>5, <2>3, AllAreEvents, SortedInIs
  <2>6. \A i \in 1..n : schedule[i] \in AllEvents /\ schedule[i].step \in Nat
    BY <2>3, AllAreEvents
  <2>7. \A i \in 1..schedule_idx : Taken(schedule[i]) /\ i \in 1..n
    BY <2>3 DEF ScheduleInv, InPlaceOfSchedule
  <2>8. \A i \in (schedule_idx + 1)..n : ToCome(schedule[i]) /\ i \in 1..n
    BY <2>3 DEF ScheduleInv, InPlaceOfSchedule
  <2>9. \A i \in 1..n : schedule[i].id # e.id
    BY <1>2, <1>5 DEF ScheduleInv, OneOfEach
  <2> HIDE DEF n
  <2>10. schedule_idx <= m
    <3> SUFFICES ASSUME m < schedule_idx PROVE FALSE
      BY <2>3, <2>5
    <3>1. schedule_idx \in (m + 1)..n /\ schedule_idx \in 1..schedule_idx /\ schedule_idx \in 1..n
      BY <2>3, <2>5
    <3>2. schedule[schedule_idx].step > e.step /\ schedule[schedule_idx].step <= env_timeline
      BY <2>5, <2>7, <3>1 DEF Taken
    <3> QED BY <1>2, <1>4, <1>5, <1>7, <2>6, <3>1, <3>2
  <2>11. /\ Len(schedule') = n + 1 /\ schedule' \in Seq(AllEvents)
         /\ \A i \in 1..m : i \in 1..n /\ schedule'[i] = schedule[i]
         /\ schedule'[m + 1] = e
         /\ \A i \in (m + 2)..(n + 1) : i - 1 \in 1..n /\ schedule'[i] = schedule[i - 1]
    <3>1. schedule' = [i \in 1..(n + 1) |->
                IF i <= m THEN schedule[i] ELSE IF i = m + 1 THEN e ELSE schedule[i - 1]]
      BY <2>1, <2>5
    <3>2. \A i \in 1..(n + 1) : schedule'[i] \in AllEvents
      BY <2>3, <2>4, <2>5, <2>6, <3>1
    <3>3. n + 1 \in Nat
      BY <2>3
    <3>4. schedule' \in [1..(n + 1) -> AllEvents]
      BY <3>1, <3>2
    <3>5. schedule' \in Seq(AllEvents) /\ Len(schedule') = n + 1
      BY <3>3, <3>4
    <3> QED BY <2>3, <2>5, <3>1, <3>5
  <2>12. \A i \in 1..(n + 1) : i \in 1..m \/ i = m + 1 \/ i \in (m + 2)..(n + 1)
    BY <2>3, <2>5
  <2>13. \A i \in (m + 2)..(n + 1) : i - 1 \in (m + 1)..n
    BY <2>3, <2>5
  <2>14. ScheduleTyped'
    <3>1. ASSUME NEW i \in 1..(n + 1), NEW k \in 1..(n + 1), i <= k
          PROVE  schedule'[i].step <= schedule'[k].step
      <4>1. CASE i \in 1..m /\ k \in 1..m
        BY <2>3, <2>11, <3>1, <4>1
      <4>2. CASE i \in 1..m /\ k = m + 1
        BY <2>5, <2>11, <4>2
      <4>3. CASE i \in 1..m /\ k \in (m + 2)..(n + 1)
        <5>1. i <= k - 1 /\ i \in 1..n /\ k - 1 \in 1..n
          BY <2>5, <2>11, <4>3
        <5> QED BY <2>3, <2>11, <4>3, <5>1
      <4>4. CASE i = m + 1 /\ k = m + 1
        BY <1>4, <1>5, <2>11, <4>4
      <4>5. CASE i = m + 1 /\ k \in (m + 2)..(n + 1)
        <5>1. schedule[k - 1].step > e.step /\ schedule[k - 1].step \in Nat
          BY <2>5, <2>6, <2>11, <2>13, <4>5
        <5> QED BY <1>4, <1>5, <2>11, <4>5, <5>1
      <4>6. CASE i \in (m + 2)..(n + 1) /\ k \in (m + 2)..(n + 1)
        <5>1. i - 1 <= k - 1 /\ i - 1 \in 1..n /\ k - 1 \in 1..n
          BY <2>11, <3>1, <4>6
        <5> QED BY <2>3, <2>11, <4>6, <5>1
      <4>7. \/ i \in 1..m
            \/ i = m + 1 /\ k \notin 1..m
            \/ i \in (m + 2)..(n + 1) /\ k \in (m + 2)..(n + 1)
        BY <2>5, <2>12, <3>1
      <4> QED BY <2>12, <4>1, <4>2, <4>3, <4>4, <4>5, <4>6, <4>7
    <3>2. schedule_idx' \in 0..Len(schedule')
      BY <2>1, <2>3, <2>11
    <3> QED BY <2>11, <3>1, <3>2 DEF ScheduleTyped
  <2>15. \A i \in 1..(n + 1) : i # m + 1 => schedule'[i].id # e.id
    BY <2>9, <2>11, <2>12
  <2>16. OneOfEach'
    <3>0. \A i, k \in 1..n : schedule[i].id = schedule[k].id => i = k
      BY DEF ScheduleInv, OneOfEach, n
    <3>1. ASSUME NEW i \in 1..(n + 1), NEW k \in 1..(n + 1), schedule'[i].id = schedule'[k].id
          PROVE  i = k
      <4>1. CASE i = m + 1 \/ k = m + 1
        BY <2>11, <2>15, <3>1, <4>1
      <4>2. CASE i \in 1..m /\ k \in 1..m
        BY <2>11, <3>0, <3>1, <4>2
      <4>3. CASE i \in 1..m /\ k \in (m + 2)..(n + 1)
        <5>1. i = k - 1
          BY <2>11, <3>0, <3>1, <4>3
        <5> QED BY <2>5, <4>3, <5>1
      <4>4. CASE i \in (m + 2)..(n + 1) /\ k \in 1..m
        <5>1. k = i - 1
          BY <2>11, <3>0, <3>1, <4>4
        <5> QED BY <2>5, <4>4, <5>1
      <4>5. CASE i \in (m + 2)..(n + 1) /\ k \in (m + 2)..(n + 1)
        <5>1. i - 1 = k - 1
          BY <2>11, <3>0, <3>1, <4>5
        <5> QED BY <5>1
      <4> QED BY <2>12, <4>1, <4>2, <4>3, <4>4, <4>5
    <3>2. ASSUME NEW i \in 1..(n + 1), NEW q \in manual'..MaxManual
          PROVE  schedule'[i].id # <<"manual", q>>
      <4>0. q \in manual..MaxManual /\ q # manual
        BY <1>2
      <4>1. \A k \in 1..n : schedule[k].id # <<"manual", q>>
        BY <4>0 DEF ScheduleInv, OneOfEach, n
      <4>2. e.id # <<"manual", q>>
        BY <1>5, <4>0
      <4> QED BY <2>11, <2>12, <4>1, <4>2
    <3> QED BY <2>11, <3>1, <3>2 DEF OneOfEach
  <2>17. InPlaceOfSchedule'
    <3>1. ASSUME NEW i \in 1..schedule_idx PROVE Taken(schedule[i])' /\ schedule'[i] = schedule[i]
      <4>1. i \in 1..m /\ Taken(schedule[i]) /\ schedule'[i] = schedule[i]
        BY <2>3, <2>7, <2>10, <2>11
      <4>2. schedule[i].id # e.id
        BY <2>9, <2>11, <4>1
      <4> QED BY <1>1, <2>1, <4>1, <4>2 DEF Taken
    <3>2. ASSUME NEW i \in (schedule_idx + 1)..(n + 1) PROVE ToCome(schedule[i])'
      <4>0. i \in 1..(n + 1)
        BY <2>3
      <4>1. CASE i = m + 1
        BY <1>1, <1>2, <1>4, <1>5, <1>7, <2>1, <2>11, <4>1 DEF ToCome
      <4>2. CASE i # m + 1
        <5>1. PICK k \in (schedule_idx + 1)..n : schedule'[i] = schedule[k]
          <6>1. CASE i \in 1..m
            BY <2>3, <2>11, <6>1
          <6>2. CASE i \in (m + 2)..(n + 1)
            <7>1. i - 1 \in (schedule_idx + 1)..n
              BY <2>3, <2>5, <2>10, <2>13, <6>2
            <7> QED BY <2>11, <6>2, <7>1
          <6> QED BY <2>12, <4>0, <4>2, <6>1, <6>2
        <5>2. ToCome(schedule[k]) /\ schedule[k].id # e.id
          BY <2>8, <2>9, <5>1
        <5> QED BY <1>1, <2>1, <5>1, <5>2 DEF ToCome
      <4> QED BY <4>1, <4>2
    <3> QED BY <1>1, <2>1, <2>11, <3>1, <3>2 DEF InPlaceOfSchedule
  <2> QED BY <2>2, <2>14, <2>16, <2>17 DEF ScheduleInv
<1> QED BY <1>6, <1>7

\* A new episode, the first one included.
LEMMA PlacedIsOpen ==
  ASSUME FloorTyped, Obstructed = {}, Placed(positions_xy) PROVE WaysStayOpen
<1>1. FreeCells = Floor /\ Meet \subseteq Floor
  BY MeetIs DEF FreeCells
<1>2. \A c \in Meet : Meet \subseteq Reach(Floor, c)
  BY DEF Placed, Meet, Positions, Reach
<1> QED BY <1>1, <1>2, WaysAre

LEMMA PlacedStaysOpen ==
  FloorTyped /\ Obstructed = {} /\ Placed(positions_xy) => WaysStayOpen
BY PlacedIsOpen

LEMMA PlacedIsOpenNext ==
  FloorTyped' /\ Obstructed' = {} /\ Placed(positions_xy') => WaysStayOpen'
<1>1. (FloorTyped /\ Obstructed = {} /\ Placed(positions_xy) => WaysStayOpen)'
  BY PlacedStaysOpen, PTL
<1> QED BY <1>1 DEF Placed, Reach

\* What the configured schedule is, once it is sorted.
LEMMA ConfiguredIs ==
  /\ ByStep(Configured) \in Seq(AllEvents) /\ Len(ByStep(Configured)) \in Nat
  /\ LET s == ByStep(Configured)  n == Len(s) IN
     /\ \A i, k \in 1..n : i <= k => s[i].step <= s[k].step
     /\ \A i, k \in 1..n : s[i].id = s[k].id => i = k
     /\ \A i \in 1..n : s[i].step \in Nat /\ \A q \in 0..MaxManual : s[i].id # <<"manual", q>>
<1> DEFINE s == ByStep(Configured)
           n == Cardinality(Configured)
<1>1. /\ Lists(Configured, n, s) /\ n \in Nat /\ \A i, k \in 1..n : s[i] = s[k] => i = k
  BY ScheduleConstants, ByStepIs
<1> HIDE DEF s, n
<1>2. s \in [1..n -> Configured] /\ \A i, k \in 1..n : i <= k => s[i].step <= s[k].step
  BY <1>1 DEF Lists
<1>3. s \in [1..n -> AllEvents]
  BY <1>2 DEF AllEvents
<1>4. s \in Seq(AllEvents) /\ Len(s) = n
  BY <1>1, <1>3
<1>5. \A i, k \in 1..n : s[i].id = s[k].id => i = k
  BY <1>1, <1>2, ScheduleConstants
<1>6. \A i \in 1..n : s[i].step \in Nat /\ \A q \in 0..MaxManual : s[i].id # <<"manual", q>>
  BY <1>2, ScheduleConstants
<1> QED BY <1>1, <1>2, <1>4, <1>5, <1>6 DEF s

LEMMA DisruptionsStart == DisruptionsInit => DisruptionsInv
<1> SUFFICES ASSUME DisruptionsInit PROVE DisruptionsInv
  OBVIOUS
<1> USE DEF DisruptionsInit
<1>1. 0 \in 0..MaxTimeline /\ 0 \in 0..MaxManual
  BY DisruptionConstants
<1>2. FloorTyped
  BY <1>1 DEF FloorTyped, Placed
<1>3. Obstructed = {}
  BY DEF Obstructed
<1>4. WaysStayOpen
  BY <1>2, <1>3, PlacedIsOpen
<1>5. CacheInv
  BY <1>3 DEF CacheInv
<1>6. ScheduleTyped /\ OneOfEach
  BY ConfiguredIs DEF ScheduleTyped, OneOfEach
<1>7. InPlaceOfSchedule
  <2>1. ~enabled => DOMAIN tried = {}
    BY DEF AcceptedBy
  <2>2. \A id \in DOMAIN tried : tried[id] = <<>>
    BY DEF AcceptedBy
  <2>3. \A i \in 1..Len(schedule) : schedule[i].step \in Nat
    BY ConfiguredIs
  <2> QED BY <2>1, <2>2, <2>3 DEF InPlaceOfSchedule, Taken, ToCome
<1> QED BY <1>2, <1>4, <1>5, <1>6, <1>7 DEF DisruptionsInv, ScheduleInv

LEMMA ResetKeeps ==
  ASSUME DisruptionsInv, Reset PROVE DisruptionsInv'
<1> USE DEF DisruptionsInv
<1>1. /\ step_phase' = "between" /\ env_timeline' = 0 /\ enabled' = enabled
      /\ schedule' = ByStep(Configured) /\ schedule_idx' = 0 /\ tried' = AcceptedBy(enabled)
      /\ repair_remaining' = [t \in Breakable |-> 0]
      /\ active_obstacles' = [c \in Floor |-> 0] /\ map_epoch' = 0
      /\ Placed(positions_xy') /\ observed' = [epoch |-> 0, grid |-> {}]
      /\ cache' = cache /\ manual' = manual + 1 /\ manual < MaxManual
  BY DEF Reset, NewEpisode
<1>2. /\ 0 \in 0..MaxTimeline /\ manual' \in 0..MaxManual
      /\ manual'..MaxManual \subseteq 0..MaxManual
  <2>1. MaxTimeline \in Nat /\ MaxManual \in Nat
    BY DisruptionConstants
  <2>2. manual \in Nat
    BY <2>1 DEF FloorTyped
  <2> QED BY <1>1, <2>1, <2>2
<1>3. FloorTyped'
  BY <1>1, <1>2 DEF FloorTyped, Placed
<1>4. Obstructed' = {}
  BY <1>1 DEF Obstructed
<1>5. WaysStayOpen'
  BY <1>1, <1>3, <1>4, PlacedIsOpenNext
<1>6. CacheInv'
  BY <1>1, <1>4 DEF CacheInv
<1>7. ScheduleTyped' /\ OneOfEach'
  <2> DEFINE s == ByStep(Configured)
  <2>1. /\ s \in Seq(AllEvents) /\ Len(s) \in Nat
        /\ \A i, k \in 1..Len(s) : i <= k => s[i].step <= s[k].step
        /\ \A i, k \in 1..Len(s) : s[i].id = s[k].id => i = k
        /\ \A i \in 1..Len(s) : \A q \in 0..MaxManual : s[i].id # <<"manual", q>>
    BY ConfiguredIs
  <2> HIDE DEF s
  <2>2. schedule' = s
    BY <1>1 DEF s
  <2>3. 0 \in 0..Len(s)
    BY <2>1
  <2>4. \A i \in 1..Len(s) : \A q \in manual'..MaxManual : s[i].id # <<"manual", q>>
    BY <1>2, <2>1
  <2> QED BY <1>1, <2>1, <2>2, <2>3, <2>4 DEF ScheduleTyped, OneOfEach
<1>8. InPlaceOfSchedule'
  <2>1. ~enabled' => DOMAIN tried' = {}
    BY <1>1 DEF AcceptedBy
  <2>2. \A id \in DOMAIN tried' : tried'[id] = <<>>
    BY <1>1 DEF AcceptedBy
  <2>3. \A i \in 1..Len(schedule') : schedule'[i].step \in Nat
    BY <1>1, ConfiguredIs
  <2> QED BY <1>1, <2>1, <2>2, <2>3 DEF InPlaceOfSchedule, Taken, ToCome
<1> QED BY <1>3, <1>5, <1>6, <1>7, <1>8 DEF ScheduleInv

LEMMA DisruptionsKeep ==
  DisruptionsInv /\ [DisruptionsNext]_disruptionVars => DisruptionsInv'
<1> SUFFICES ASSUME DisruptionsInv, [DisruptionsNext]_disruptionVars PROVE DisruptionsInv'
  OBVIOUS
<1>1. CASE UNCHANGED disruptionVars
  <2>1. FloorTyped' /\ WaysStayOpen'
    BY <1>1 DEF disruptionVars, injectorVars, floorVars, DisruptionsInv, FloorTyped,
       WaysStayOpen, Positions, FreeCells, Obstructed
  <2>2. CacheInv'
    BY <1>1 DEF disruptionVars, injectorVars, floorVars, DisruptionsInv, CacheInv, Obstructed
  <2>3. ScheduleInv'
    BY <1>1 DEF disruptionVars, injectorVars, floorVars, DisruptionsInv, ScheduleInv,
       ScheduleTyped, OneOfEach, InPlaceOfSchedule, Taken, ToCome
  <2> QED BY <2>1, <2>2, <2>3 DEF DisruptionsInv
<1> QED
  BY <1>1, EnterStepKeeps, TakeScheduledKeeps, HappenByChanceKeeps, MoveKeeps, TickKeeps,
     InjectManualKeeps, ClearManualKeeps, ResetKeeps DEF DisruptionsNext

LEMMA EventsTakeTheirEffect == DisruptionsInv => EventsTakeEffect
<1> SUFFICES ASSUME DisruptionsInv PROVE EventsTakeEffect
  OBVIOUS
<1>1. DistancesAreCurrent
  BY DEF DisruptionsInv, CacheInv, DistancesAreCurrent
<1>2. ScheduleIsKept
  <2> SUFFICES ASSUME NEW e \in Scheduled, e.id \in DOMAIN tried
               PROVE  /\ tried[e.id] \in {<<>>, <<e.step>>}
                      /\ env_timeline > e.step => tried[e.id] # <<>>
    BY DEF ScheduleIsKept
  <2>1. PICK i \in 1..Len(schedule) : e = schedule[i]
    BY DEF Scheduled
  <2>2. /\ schedule \in Seq(AllEvents) /\ schedule_idx \in 0..Len(schedule)
        /\ env_timeline \in 0..MaxTimeline
    BY DEF DisruptionsInv, ScheduleInv, ScheduleTyped, FloorTyped
  <2>3. e.step \in Nat /\ env_timeline \in Nat
    BY <2>1, <2>2, AllAreEvents, DisruptionConstants
  <2>4. i \in 1..schedule_idx \/ i \in (schedule_idx + 1)..Len(schedule)
    BY <2>2
  <2>5. Taken(e) \/ ToCome(e)
    BY <2>1, <2>4 DEF DisruptionsInv, ScheduleInv, InPlaceOfSchedule
  <2>6. CASE Taken(e)
    <3>1. tried[e.id] = <<e.step>>
      BY <2>6 DEF Taken
    <3>2. <<e.step>> # << >>
      OBVIOUS
    <3> QED BY <3>1, <3>2
  <2>7. CASE ToCome(e)
    <3>1. tried[e.id] = << >> /\ e.step >= env_timeline
      BY <2>7 DEF ToCome
    <3> QED BY <2>3, <3>1
  <2> QED BY <2>5, <2>6, <2>7
<1> QED BY <1>1, <1>2 DEF EventsTakeEffect

\* Whatever obstacles are scheduled, drawn by chance, put and removed by hand or
\* expire, on any floor and with any number of machines and vehicles, each of
\* them can still be reached from every other: _preserves_connectivity, which
\* looks at one cell at a time, is enough.
THEOREM WaysAreKeptOpen == DisruptionsSpec => []WaysStayOpen
<1>1. DisruptionsInv => WaysStayOpen
  BY DEF DisruptionsInv
<1> QED BY <1>1, DisruptionsStart, DisruptionsKeep, PTL DEF DisruptionsSpec

\* For any schedule and any number of events by hand that inject_manual sorts
\* into it while it is worked off: each is tried once, in its own step
\* (_apply_scheduled_events); and no step decides by distances that were
\* measured with other obstacles than those it observes, because map_epoch moves
\* whenever they change and is 0 only when there are none (RaceStateEncoder).
THEOREM DisruptionsTakeEffect == DisruptionsSpec => []EventsTakeEffect
BY DisruptionsStart, DisruptionsKeep, EventsTakeTheirEffect, PTL DEF DisruptionsSpec

-----------------------------------------------------------------------------
(* How far an AGV has come, and how many jobs there will be.               *)

\* How far it is to where an AGV goes, from its point.
Ahead(a) ==
  IF agvs[a].running = << >> THEN 0
  ELSE Travel[agvs[a].point][StationPoint[
         IF Doing(a, "load") THEN Here(Target(a)) ELSE Target(a)]]

\* It never goes too far, whatever it is set back to: what was recorded on the
\* way is where it stands, until all that was recorded since is recovered.
OnTheWay(a) ==
  /\ agvs[a].gone \in Nat /\ agvs[a].gone <= Ahead(a)
  /\ agvs[a].time_left \in 0..2 * Slice
  /\ LET h == agvs[a].history IN
     \A i \in DOMAIN h : h[i][3] # 0 =>
       /\ agvs[a].status = "EXCEPTION" /\ h[i][2] = agvs[a].point /\ h[i][3] = agvs[a].gone
       /\ \A j \in DOMAIN h : j > i => h[j] = <<"EXCEPTION", agvs[a].point, agvs[a].gone>>

ToAdd == "add job"
AddsIn(q) == Cardinality({i \in DOMAIN q : q[i][1] = ToAdd})
JobsBounded ==
  /\ Len(Order) <= Len(job_list)
  /\ Len(job_list) + Len(buffered[ToAdd]) + AddsIn(ready_events) <= MaxJobs

ControlTyped ==
  /\ stage \in {"top", "again", "idle", "driving", "events", "last", "last events"}
  /\ timed \in BOOLEAN /\ commands \in 0..MaxCommands
  /\ env_status \in {"PAUSED", "RUNNING", "WAITING"}

WaysInv == \A a \in Carts : OnTheWay(a)
TypedInv == PacketInv /\ WaysInv /\ JobsBounded /\ ControlTyped

LEMMA RunsAre ==
  ASSUME WorkInv, NEW a \in Carts
  PROVE  /\ \/ agvs[a].running = << >> /\ Ahead(a) = 0
            \/ /\ agvs[a].running # << >> /\ Doing(a, "load") /\ ~Doing(a, "unload")
               /\ Here(Target(a)) \in Stations /\ Target(a) \in Ops
               /\ Ahead(a) = Travel[agvs[a].point][StationPoint[Here(Target(a))]]
            \/ /\ agvs[a].running # << >> /\ Doing(a, "unload") /\ ~Doing(a, "load")
               /\ Target(a) \in Stations
               /\ Ahead(a) = Travel[agvs[a].point][StationPoint[Target(a)]]
         /\ Ahead(a) \in Nat
<1>1. Charged(a) /\ agvs[a] \in CartType
  BY DEF WorkInv, WorkTyped, PlacesHold
<1>2. CASE agvs[a].running = << >>
  BY <1>2 DEF Ahead
<1>3. ASSUME NEW m \in Stations, agvs[a].running = <<<<"unload", m>>>>
      PROVE  /\ agvs[a].running # << >> /\ Doing(a, "unload") /\ ~Doing(a, "load")
             /\ Target(a) = m
  BY <1>3 DEF Doing, Target
<1>4. ASSUME NEW m \in Stations, NEW o \in Ops,
             agvs[a].running = <<<<"load", o>>, <<"unload", m>>>>
      PROVE  /\ agvs[a].running # << >> /\ Doing(a, "load") /\ ~Doing(a, "unload")
             /\ Target(a) = o /\ Here(o) \in Stations
  <2>1. /\ agvs[a].running # << >> /\ Doing(a, "load") /\ ~Doing(a, "unload")
        /\ Target(a) = o
    BY <1>4 DEF Doing, Target
  <2> QED BY <2>1, FetchingIs
<1>5. \A m \in Stations : Travel[agvs[a].point][StationPoint[m]] \in Nat
  <2>1. agvs[a].point \in DOMAIN Travel
    BY <1>1 DEF CartType
  <2> QED BY <2>1, PacketConstants
<1>6. \/ agvs[a].running = << >> /\ Ahead(a) = 0
      \/ /\ agvs[a].running # << >> /\ Doing(a, "load") /\ ~Doing(a, "unload")
         /\ Here(Target(a)) \in Stations /\ Target(a) \in Ops
         /\ Ahead(a) = Travel[agvs[a].point][StationPoint[Here(Target(a))]]
      \/ /\ agvs[a].running # << >> /\ Doing(a, "unload") /\ ~Doing(a, "load")
         /\ Target(a) \in Stations
         /\ Ahead(a) = Travel[agvs[a].point][StationPoint[Target(a)]]
  BY <1>1, <1>2, <1>3, <1>4 DEF Charged, Ahead
<1> QED BY <1>5, <1>6

LEMMA WayToLoad ==
  ASSUME WorkInv, NEW a \in Carts, Doing(a, "load")
  PROVE  Ahead(a) = Travel[agvs[a].point][StationPoint[Here(Target(a))]]
<1>1. agvs[a].running # << >>
  BY DEF Doing
<1> QED BY <1>1 DEF Ahead

LEMMA WayToUnload ==
  ASSUME WorkInv, NEW a \in Carts, Doing(a, "unload")
  PROVE  Ahead(a) = Travel[agvs[a].point][StationPoint[Target(a)]]
<1>1. agvs[a].running # << >> /\ ~Doing(a, "load")
  BY DEF Doing
<1> QED BY <1>1 DEF Ahead

AheadTyped == \A a \in Carts : Ahead(a) \in Nat
LEMMA AheadIs == WorkInv => AheadTyped
BY RunsAre DEF AheadTyped
LEMMA AheadIsNext == WorkInv' => AheadTyped'
BY AheadIs, PTL

\* Nothing is recorded of the way of an AGV that is not in trouble, or stands.
LEMMA RecordsAre ==
  ASSUME WorkInv, NEW a \in Carts, OnTheWay(a),
         agvs[a].status # "EXCEPTION" \/ agvs[a].running = << >>
  PROVE  \A i \in DOMAIN agvs[a].history : agvs[a].history[i][3] = 0
BY RunsAre DEF OnTheWay

\* An AGV that stays where it is.
LEMMA StandsStill ==
  ASSUME WorkInv, NEW a \in Carts, OnTheWay(a),
         agvs'[a].running = agvs[a].running, agvs'[a].point = agvs[a].point,
         agvs'[a].gone = agvs[a].gone, agvs'[a].status = agvs[a].status,
         agvs'[a].history = agvs[a].history, agvs'[a].time_left \in 0..2 * Slice,
         Doing(a, "load") => Here(Target(a))' = Here(Target(a))
  PROVE  OnTheWay(a)'
<1>1. Ahead(a)' = Ahead(a)
  BY DEF Ahead, Doing, Target
<1> QED BY <1>1 DEF OnTheWay

\* One that stands still while all others do.
LEMMA QuietWays ==
  ASSUME WorkInv, WaysInv, UNCHANGED <<agvs, operations>>
  PROVE  WaysInv'
<1> SUFFICES ASSUME NEW a \in Carts PROVE OnTheWay(a)'
  BY DEF WaysInv
<1> QED BY StandsStill DEF WaysInv, OnTheWay, Here, Target

LEMMA FreshWays == Fresh /\ WorkInv => WaysInv
<1> SUFFICES ASSUME Fresh, WorkInv, NEW a \in Carts PROVE OnTheWay(a)
  BY DEF WaysInv
<1>1. agvs[a] = NewCart(a)
  BY DEF Fresh
<1>2. /\ agvs[a].gone = 0 /\ agvs[a].time_left = 0 /\ agvs[a].history = << >>
  BY <1>1 DEF NewCart
<1>3. Ahead(a) \in Nat
  BY RunsAre
<1>4. 0 \in 0..2 * Slice
  BY PacketConstants
<1> QED BY <1>2, <1>3, <1>4 DEF OnTheWay

LEMMA FreshWaysNext == FreshWork => WaysInv'
<1>1. FreshWork => Fresh'
  BY DEF FreshWork, Fresh
<1>2. (Fresh /\ WorkInv => WaysInv)'
  BY FreshWays, PTL
<1> QED BY <1>1, <1>2, FreshWorkHolds

LEMMA FailWays ==
  ASSUME WorkInv, WaysInv, NEW a \in Carts, FailCart(a), UNCHANGED operations
  PROVE  WaysInv'
<1> SUFFICES ASSUME NEW b \in Carts PROVE OnTheWay(b)'
  BY DEF WaysInv
<1>1. OnTheWay(b) /\ agvs[b] \in CartType
  BY DEF WaysInv, WorkInv, WorkTyped
<1>2. CASE b # a
  <2>1. agvs'[b] = agvs[b]
    BY <1>2 DEF FailCart, WorkInv, WorkTyped
  <2> QED BY <1>1, <2>1, StandsStill DEF OnTheWay, Here, Target
<1>3. CASE b = a
  <2> DEFINE h == agvs[b].history
             x == <<agvs[b].status, agvs[b].point, agvs[b].gone>>
             g == Append(h, x)
  <2>1. h \in Seq(Passages) /\ x \in Passages
    BY <1>1 DEF CartType, Passages
  <2>2. /\ Len(h) \in Nat /\ DOMAIN h = 1..Len(h) /\ DOMAIN g = 1..(Len(h) + 1)
        /\ g[Len(h) + 1] = x /\ \A i \in 1..Len(h) : g[i] = h[i]
    BY <2>1, AppendProperties
  <2>3. agvs'[b] = [agvs[b] EXCEPT !.status = "EXCEPTION", !.history = g]
    BY <1>3 DEF FailCart, WorkInv, WorkTyped
  <2>4. /\ agvs'[b].status = "EXCEPTION" /\ agvs'[b].history = g
        /\ agvs'[b].point = agvs[b].point /\ agvs'[b].gone = agvs[b].gone
        /\ agvs'[b].running = agvs[b].running /\ agvs'[b].time_left = agvs[b].time_left
    BY <1>1, <2>3 DEF CartType
  <2>5. Ahead(b)' = Ahead(b)
    BY <2>4 DEF Ahead, Doing, Target, Here
  <2>6. \A i \in DOMAIN h : h[i][3] # 0 =>
          /\ agvs[b].status = "EXCEPTION" /\ h[i][2] = agvs[b].point /\ h[i][3] = agvs[b].gone
          /\ \A j \in DOMAIN h : j > i => h[j] = <<"EXCEPTION", agvs[b].point, agvs[b].gone>>
    BY <1>1 DEF OnTheWay
  <2>7. x[2] = agvs[b].point /\ x[3] = agvs[b].gone
        /\ (agvs[b].status = "EXCEPTION" => x = <<"EXCEPTION", agvs[b].point, agvs[b].gone>>)
    OBVIOUS
  <2> HIDE DEF h, g, x
  <2>8. ASSUME NEW i \in DOMAIN g, g[i][3] # 0
        PROVE  /\ g[i][2] = agvs[b].point /\ g[i][3] = agvs[b].gone
               /\ \A j \in DOMAIN g : j > i => g[j] = <<"EXCEPTION", agvs[b].point, agvs[b].gone>>
    <3>1. i \in 1..Len(h) \/ i = Len(h) + 1
      BY <2>2
    <3>2. CASE i = Len(h) + 1
      <4>1. \A j \in DOMAIN g : ~(j > i)
        BY <2>2, <3>2
      <4> QED BY <2>2, <2>7, <3>2, <4>1
    <3>3. CASE i \in 1..Len(h)
      <4>1. g[i] = h[i] /\ h[i][3] # 0 /\ i \in DOMAIN h
        BY <2>2, <2>8, <3>3
      <4>2. \A j \in DOMAIN g : j \in DOMAIN h \/ j = Len(h) + 1
        BY <2>2
      <4> QED BY <2>2, <2>6, <2>7, <4>1, <4>2
    <3> QED BY <3>1, <3>2, <3>3
  <2> QED BY <1>1, <2>4, <2>5, <2>8 DEF OnTheWay
<1> QED BY <1>2, <1>3

LEMMA RecoverWays ==
  ASSUME WorkInv, WorkInv', WaysInv, NEW a \in Carts, RecoverCart(a), UNCHANGED operations
  PROVE  WaysInv'
<1> SUFFICES ASSUME NEW b \in Carts PROVE OnTheWay(b)'
  BY DEF WaysInv
<1>1. OnTheWay(b) /\ agvs[b] \in CartType
  BY DEF WaysInv, WorkInv, WorkTyped
<1>2. CASE b # a
  <2>1. agvs'[b] = agvs[b]
    BY <1>2 DEF RecoverCart, WorkInv, WorkTyped
  <2> QED BY <1>1, <2>1, StandsStill DEF OnTheWay, Here, Target
<1>3. CASE b = a
  <2> DEFINE h == agvs[b].history
             n == Len(h)
  <2>1. h \in Seq(Passages)
    BY <1>1 DEF CartType
  <2>2. n \in Nat /\ DOMAIN h = 1..n
    BY <2>1
  <2>3. \A i \in DOMAIN h : h[i][3] # 0 =>
          /\ agvs[b].status = "EXCEPTION" /\ h[i][2] = agvs[b].point /\ h[i][3] = agvs[b].gone
          /\ \A j \in DOMAIN h : j > i => h[j] = <<"EXCEPTION", agvs[b].point, agvs[b].gone>>
    BY <1>1 DEF OnTheWay
  <2>4. CASE h = << >>
    <3>1. agvs'[b] = [agvs[b] EXCEPT !.status = "READY"]
      BY <1>3, <2>4 DEF RecoverCart, WorkInv, WorkTyped
    <3>2. /\ agvs'[b].history = << >> /\ agvs'[b].point = agvs[b].point
          /\ agvs'[b].gone = agvs[b].gone /\ agvs'[b].running = agvs[b].running
          /\ agvs'[b].time_left = agvs[b].time_left
      BY <1>1, <2>4, <3>1 DEF CartType
    <3>3. Ahead(b)' = Ahead(b)
      BY <3>2 DEF Ahead, Doing, Target, Here
    <3> QED BY <1>1, <3>2, <3>3 DEF OnTheWay
  <2>5. CASE h # << >>
    <3>1. n \in DOMAIN h /\ h[n] \in Passages /\ n >= 1
      BY <2>1, <2>2, <2>5
    <3>2. agvs'[b] = [agvs[b] EXCEPT !.status = h[n][1], !.point = h[n][2],
                                     !.gone = h[n][3], !.history = Front(h)]
      BY <1>3, <2>5 DEF RecoverCart, WorkInv, WorkTyped
    <3>3. /\ agvs'[b].status = h[n][1] /\ agvs'[b].point = h[n][2] /\ agvs'[b].gone = h[n][3]
          /\ agvs'[b].history = Front(h) /\ agvs'[b].running = agvs[b].running
          /\ agvs'[b].time_left = agvs[b].time_left
      BY <1>1, <3>2 DEF CartType
    <3>4. DOMAIN Front(h) = 1..(n - 1) /\ \A i \in 1..(n - 1) : Front(h)[i] = h[i]
      BY <2>1, <2>2, <2>5 DEF Front
    <3>5. \A i \in 1..(n - 1) : i \in DOMAIN h /\ n > i
      BY <2>2
    <3>6. Ahead(b)' \in Nat
      BY AheadIsNext DEF AheadTyped
    <3> HIDE DEF h, n
    <3>7. CASE h[n][3] = 0
      <4>1. \A i \in 1..(n - 1) : h[i][3] = 0
        <5> SUFFICES ASSUME NEW i \in 1..(n - 1), h[i][3] # 0 PROVE FALSE
          OBVIOUS
        <5>1. h[n] = <<"EXCEPTION", agvs[b].point, agvs[b].gone>> /\ h[i][3] = agvs[b].gone
          BY <2>3, <3>1, <3>5
        <5> QED BY <3>7, <5>1
      <4> QED BY <1>1, <3>3, <3>4, <3>6, <3>7, <4>1 DEF OnTheWay
    <3>8. CASE h[n][3] # 0
      <4>1. h[n][2] = agvs[b].point /\ h[n][3] = agvs[b].gone
        BY <2>3, <3>1, <3>8
      <4>2. Ahead(b)' = Ahead(b)
        BY <3>3, <4>1 DEF Ahead, Doing, Target, Here
      <4>3. ASSUME NEW i \in 1..(n - 1), h[i][3] # 0
            PROVE  /\ h[n][1] = "EXCEPTION" /\ h[i][2] = h[n][2] /\ h[i][3] = h[n][3]
                   /\ \A j \in 1..(n - 1) : j > i => h[j] = <<"EXCEPTION", h[n][2], h[n][3]>>
        <5>1. h[n] = <<"EXCEPTION", agvs[b].point, agvs[b].gone>>
          BY <2>3, <3>1, <3>5, <4>3
        <5>2. h[n][1] = "EXCEPTION"
          BY <5>1
        <5> QED BY <2>3, <3>5, <4>1, <4>3, <5>2
      <4> QED BY <1>1, <3>3, <3>4, <4>1, <4>2, <4>3 DEF OnTheWay
    <3> QED BY <3>7, <3>8
  <2> QED BY <2>4, <2>5
<1> QED BY <1>2, <1>3

LEMMA CollectWays ==
  ASSUME WorkInv, WaysInv, Collect PROVE WaysInv'
<1> SUFFICES ASSUME NEW a \in Carts PROVE OnTheWay(a)'
  BY DEF WaysInv
<1>1. agvs[a] \in CartType /\ agvs'[a] = [agvs[a] EXCEPT !.time_left = 0]
      /\ operations' = operations
  BY DEF WorkInv, WorkTyped, Collect
<1>2. 0 \in 0..2 * Slice
  BY PacketConstants
<1>3. /\ agvs'[a].running = agvs[a].running /\ agvs'[a].point = agvs[a].point
      /\ agvs'[a].gone = agvs[a].gone /\ agvs'[a].status = agvs[a].status
      /\ agvs'[a].history = agvs[a].history /\ agvs'[a].time_left = 0
  BY <1>1 DEF CartType
<1> QED BY <1>1, <1>2, <1>3, StandsStill DEF WaysInv, Here, Target

LEMMA AddWays ==
  ASSUME WorkInv, WaysInv, NEW id \in Templates, AddJob(id), UNCHANGED agvs
  PROVE  WaysInv'
<1> SUFFICES ASSUME NEW a \in Carts PROVE OnTheWay(a)'
  BY DEF WaysInv
<1>1. Doing(a, "load") => Here(Target(a))' = Here(Target(a))
  <2> SUFFICES ASSUME Doing(a, "load") PROVE Here(Target(a))' = Here(Target(a))
    OBVIOUS
  <2>1. Target(a) \in Ops /\ Target(a)' = Target(a)
    BY FetchingIs DEF Target
  <2>2. job_list \in Seq(Templates)
    BY DEF WorkInv, WorkTyped
  <2>3. Target(a) \in OpsIn(job_list')
    <3>1. /\ job_list' = Append(job_list, id) /\ Len(job_list) \in Nat
          /\ \A k \in 1..Len(job_list) : job_list'[k] = job_list[k]
          /\ DOMAIN job_list = 1..Len(job_list) /\ DOMAIN job_list' = 1..(Len(job_list) + 1)
      BY <2>2 DEF AddJob
    <3>2. \A k \in 1..Len(job_list) : k \in 1..(Len(job_list) + 1)
      BY <3>1
    <3>3. PICK k \in DOMAIN job_list : Target(a) \in {<<k, i>> : i \in 1..NumOf(job_list[k])}
      BY <2>1 DEF Ops, OpsIn
    <3>4. k \in DOMAIN job_list' /\ job_list'[k] = job_list[k]
      BY <3>1, <3>2, <3>3
    <3> QED BY <3>3, <3>4 DEF OpsIn
  <2>4. operations'[Target(a)] = operations[Target(a)]
    BY <2>1, <2>3 DEF AddJob
  <2> QED BY <2>1, <2>4 DEF Here
<1> QED BY <1>1, StandsStill DEF WaysInv, OnTheWay

LEMMA SliceWays ==
  ASSUME PacketInv, WaysInv, NEW decided, BeginSlice(decided)
  PROVE  WaysInv'
<1> SUFFICES ASSUME NEW a \in Carts PROVE OnTheWay(a)'
  BY DEF WaysInv
<1>1. WorkInv /\ MachinesWork /\ job_list' = job_list
  BY DEF PacketInv, BeginSlice
<1>2. PICK t, todo : /\ t = (1 + lag) * Slice
                     /\ agvs'[a] = [agvs[a] EXCEPT !.time_left = t, !.todo = todo]
  <2>1. PICK cart \in [decided -> Carts], machine \in [decided -> Stations] :
        agvs' = [c \in Carts |-> [agvs[c] EXCEPT
                      !.time_left = (1 + lag) * Slice, !.todo = Todos(decided, cart, machine, c)]]
    BY DEF BeginSlice, Todos
  <2> QED BY <2>1
<1>3. t \in 0..2 * Slice
  <2>1. lag \in {0, 1} /\ Slice \in Nat
    BY PacketConstants DEF PacketInv, CommandsTyped
  <2>2. CASE lag = 0
    BY <1>2, <2>1, <2>2
  <2>3. CASE lag = 1
    BY <1>2, <2>1, <2>3
  <2> QED BY <2>1, <2>2, <2>3
<1>4. agvs[a] \in CartType
  BY <1>1 DEF WorkInv, WorkTyped
<1>5. /\ agvs'[a].running = agvs[a].running /\ agvs'[a].point = agvs[a].point
      /\ agvs'[a].gone = agvs[a].gone /\ agvs'[a].status = agvs[a].status
      /\ agvs'[a].history = agvs[a].history /\ agvs'[a].time_left = t
  BY <1>2, <1>4 DEF CartType
<1>6. Doing(a, "load") => Here(Target(a))' = Here(Target(a))
  <2> SUFFICES ASSUME Doing(a, "load") PROVE Here(Target(a))' = Here(Target(a))
    OBVIOUS
  <2> DEFINE o == Target(a)
  <2>1. o \in Ops /\ Status(o) = "MOVING" /\ o' = o
    BY <1>1, <1>5, FetchingIs DEF Target
  <2> HIDE DEF o
  <2>2. \A n \in Stations : o \notin Served(n)
    BY <1>1, <2>1, ServedIs
  <2>3. Here(o)' = operations'[o].current_machine /\ Here(o) = operations[o].current_machine
    BY <2>1 DEF Here
  <2>4. operations'[o].current_machine = operations[o].current_machine
    BY <1>1, <2>1, <2>2, WorkDone DEF Here
  <2> QED BY <2>1, <2>3, <2>4 DEF o, Here
<1> QED BY <1>1, <1>3, <1>5, <1>6, StandsStill DEF WaysInv

\* An AGV of which nothing is changed, when no operation that it fetches is.
LEMMA OthersWay ==
  ASSUME WorkInv, WaysInv, NEW b \in Carts, agvs'[b] = agvs[b],
         Doing(b, "load") => operations'[Target(b)].current_machine = Here(Target(b))
  PROVE  OnTheWay(b)'
<1>1. Target(b)' = Target(b)
  BY DEF Target
<1> QED BY <1>1, StandsStill DEF WaysInv, OnTheWay, Here

LEMMA TakeWays ==
  ASSUME WorkInv, WorkInv', WaysInv, NEW a \in Carts, TakeTask(a)
  PROVE  WaysInv'
<1> SUFFICES ASSUME NEW b \in Carts PROVE OnTheWay(b)'
  BY DEF WaysInv
<1> DEFINE o == Head(agvs[a].todo)[1]
           m == Head(agvs[a].todo)[2]
<1>1. /\ operations' = [operations EXCEPT ![o].status = "MOVING"]
      /\ agvs[a].running = << >>
      /\ agvs' = IF operations[o].current_machine = Nothing
                 THEN [agvs EXCEPT ![a].operation = o, ![a].status = "LOADED",
                         ![a].todo = Tail(@), ![a].running = <<<<"unload", m>>>>]
                 ELSE [agvs EXCEPT ![a].todo = Tail(@),
                         ![a].running = <<<<"load", o>>, <<"unload", m>>>>]
  BY DEF TakeTask, MayTake
<1> HIDE DEF o, m
<1>2. \A p \in Ops : operations'[p].current_machine = Here(p)
  <2> TAKE p \in Ops
  <2>1. operations[p] \in OperationType /\ operations \in [Ops -> OperationType]
    BY DEF WorkInv, WorkTyped
  <2> QED BY <1>1, <2>1 DEF OperationType, Here
<1>3. CASE b # a
  <2>1. agvs'[b] = agvs[b]
    BY <1>1, <1>3 DEF WorkInv, WorkTyped
  <2> QED BY <1>2, <2>1, FetchingIs, OthersWay
<1>4. CASE b = a
  <2>1. agvs[b] \in CartType /\ OnTheWay(b)
    BY DEF WaysInv, WorkInv, WorkTyped
  <2>2. /\ agvs'[b].gone = agvs[b].gone /\ agvs'[b].time_left = agvs[b].time_left
        /\ agvs'[b].history = agvs[b].history
    <3>1. CASE operations[o].current_machine = Nothing
      <4>1. agvs'[b] = [agvs[b] EXCEPT !.operation = o, !.status = "LOADED",
                          !.todo = Tail(@), !.running = <<<<"unload", m>>>>]
        BY <1>1, <1>4, <3>1 DEF WorkInv, WorkTyped
      <4> QED BY <2>1, <4>1 DEF CartType
    <3>2. CASE operations[o].current_machine # Nothing
      <4>1. agvs'[b] = [agvs[b] EXCEPT !.todo = Tail(@),
                          !.running = <<<<"load", o>>, <<"unload", m>>>>]
        BY <1>1, <1>4, <3>2 DEF WorkInv, WorkTyped
      <4> QED BY <2>1, <4>1 DEF CartType
    <3> QED BY <3>1, <3>2
  <2>3. Ahead(b) = 0 /\ Ahead(b)' \in Nat
    BY <1>1, <1>4, AheadIsNext DEF AheadTyped, Ahead
  <2>4. agvs[b].gone = 0
    BY <2>1, <2>3 DEF OnTheWay
  <2>5. \A i \in DOMAIN agvs[b].history : agvs[b].history[i][3] = 0
    BY <1>1, <1>4, <2>1, RecordsAre
  <2> QED BY <2>1, <2>2, <2>3, <2>4, <2>5 DEF OnTheWay
<1> QED BY <1>3, <1>4

\* As far as the time allows is not too far.
LEMMA ApproachWays ==
  ASSUME WorkInv, WaysInv, NEW a \in Carts, NEW m \in Stations, ~Reaches(a, m),
         NEW status, Approach(a, status), UNCHANGED operations,
         Ahead(a) = Travel[agvs[a].point][StationPoint[m]], agvs[a].status # "EXCEPTION"
  PROVE  WaysInv'
<1> SUFFICES ASSUME NEW b \in Carts PROVE OnTheWay(b)'
  BY DEF WaysInv
<1>1. CASE b # a
  <2>1. agvs'[b] = agvs[b]
    BY <1>1 DEF Approach, WorkInv, WorkTyped
  <2> QED BY <2>1, OthersWay DEF Here
<1>2. CASE b = a
  <2>1. agvs[b] \in CartType /\ OnTheWay(b)
    BY DEF WaysInv, WorkInv, WorkTyped
  <2>2. agvs'[b] = [agvs[b] EXCEPT !.gone = @ + agvs[b].time_left, !.time_left = 0,
                                   !.status = status]
    BY <1>2 DEF Approach, WorkInv, WorkTyped
  <2>3. /\ agvs'[b].gone = agvs[b].gone + agvs[b].time_left /\ agvs'[b].time_left = 0
        /\ agvs'[b].history = agvs[b].history /\ agvs'[b].point = agvs[b].point
        /\ agvs'[b].running = agvs[b].running
    BY <2>1, <2>2 DEF CartType
  <2>4. Ahead(b)' = Ahead(b) /\ Ahead(b) \in Nat
    BY <2>3, RunsAre DEF Ahead, Doing, Target, Here
  <2>5. /\ agvs[b].gone \in Nat /\ agvs[b].time_left \in Nat
        /\ ~(Ahead(b) - agvs[b].gone <= agvs[b].time_left)
    <3>1. agvs[b].gone \in Nat /\ agvs[b].time_left \in Nat
      <4>1. agvs[b].gone \in Nat /\ agvs[b].time_left \in 0..2 * Slice
        BY <2>1 DEF OnTheWay
      <4>2. Slice \in Nat
        BY PacketConstants
      <4> QED BY <4>1, <4>2
    <3>2. TimeTo(b, m) = Ahead(b) - agvs[b].gone /\ ~(TimeTo(b, m) <= agvs[b].time_left)
      BY <1>2 DEF Reaches, TimeTo
    <3> QED BY <3>1, <3>2
  <2>6. agvs'[b].gone \in Nat /\ agvs'[b].gone <= Ahead(b)
    BY <2>3, <2>4, <2>5
  <2>7. 0 \in 0..2 * Slice
    BY PacketConstants
  <2>8. \A i \in DOMAIN agvs[b].history : agvs[b].history[i][3] = 0
    BY <1>2, <2>1, RecordsAre
  <2> QED BY <2>3, <2>4, <2>6, <2>7, <2>8 DEF OnTheWay
<1> QED BY <1>1, <1>2

LEMMA LoadWays ==
  ASSUME WorkInv, WorkInv', WaysInv, NEW a \in Carts, Load(a)
  PROVE  WaysInv'
<1> DEFINE o == Target(a)
           m == operations[o].current_machine
<1>1. Doing(a, "load") /\ agvs[a].status \in {"READY", "ASSIGNED"}
  BY DEF Load, MayLoad
<1>2. o \in Ops /\ At(o, {}, {Here(o)}, {}, {a}) /\ m \in Stations
      /\ Ahead(a) = Travel[agvs[a].point][StationPoint[m]]
  <2>1. o \in Ops /\ At(o, {}, {Here(o)}, {}, {a}) /\ Here(o) \in Stations
    BY <1>1, FetchingIs
  <2>2. Here(o) = m
    BY DEF Here
  <2>3. Ahead(a) = Travel[agvs[a].point][StationPoint[Here(o)]]
    BY <1>1, WayToLoad
  <2> QED BY <2>1, <2>2, <2>3
<1>3. \/ /\ Reaches(a, m)
         /\ agvs' = [agvs EXCEPT ![a].status = "LOADED", ![a].operation = o,
                        ![a].point = StationPoint[m], ![a].gone = 0, ![a].time_left = 0,
                        ![a].running = Tail(@)]
         /\ operations' = [operations EXCEPT ![o].current_machine = Nothing]
      \/ ~Reaches(a, m) /\ Approach(a, "ASSIGNED") /\ UNCHANGED operations
  BY DEF Load
<1> HIDE DEF o, m
<1>4. CASE ~Reaches(a, m)
  BY <1>1, <1>2, <1>3, <1>4, ApproachWays
<1>5. CASE Reaches(a, m)
  <2> SUFFICES ASSUME NEW b \in Carts PROVE OnTheWay(b)'
    BY DEF WaysInv
  <2>1. CASE b # a
    <3>1. agvs'[b] = agvs[b]
      BY <1>3, <1>5, <2>1 DEF WorkInv, WorkTyped
    <3>2. Doing(b, "load") => operations'[Target(b)].current_machine = Here(Target(b))
      <4> SUFFICES ASSUME Doing(b, "load")
                   PROVE  operations'[Target(b)].current_machine = Here(Target(b))
        OBVIOUS
      <4>1. Target(b) \in Ops /\ Fetching(Target(b)) = {b}
        BY FetchingIs DEF At
      <4>2. Target(b) # o
        BY <1>2, <2>1, <4>1 DEF At
      <4>3. operations'[Target(b)] = operations[Target(b)]
        BY <1>3, <1>5, <4>1, <4>2 DEF WorkInv, WorkTyped
      <4> QED BY <4>3 DEF Here
    <3> QED BY <3>1, <3>2, OthersWay
  <2>2. CASE b = a
    <3>1. agvs[b] \in CartType /\ OnTheWay(b)
      BY DEF WaysInv, WorkInv, WorkTyped
    <3>2. agvs'[b] = [agvs[b] EXCEPT !.status = "LOADED", !.operation = o,
                        !.point = StationPoint[m], !.gone = 0, !.time_left = 0,
                        !.running = Tail(@)]
      BY <1>3, <1>5, <2>2 DEF WorkInv, WorkTyped
    <3>3. /\ agvs'[b].gone = 0 /\ agvs'[b].time_left = 0
          /\ agvs'[b].history = agvs[b].history
      BY <3>1, <3>2 DEF CartType
    <3>4. Ahead(b)' \in Nat /\ 0 \in 0..2 * Slice
      BY AheadIsNext, PacketConstants DEF AheadTyped
    <3>5. \A i \in DOMAIN agvs[b].history : agvs[b].history[i][3] = 0
      BY <1>1, <2>2, <3>1, RecordsAre
    <3> QED BY <3>3, <3>4, <3>5 DEF OnTheWay
  <2> QED BY <2>1, <2>2
<1> QED BY <1>4, <1>5

LEMMA UnloadWays ==
  ASSUME WorkInv, WorkInv', WaysInv, NEW a \in Carts, Unload(a)
  PROVE  WaysInv'
<1> DEFINE o == agvs[a].operation
           m == Target(a)
<1>1. Doing(a, "unload") /\ agvs[a].status = "LOADED"
  BY DEF Unload, MayUnload
<1>2. o \in Ops /\ At(o, {}, {}, {a}, {}) /\ m \in Stations
      /\ Ahead(a) = Travel[agvs[a].point][StationPoint[m]]
  <2>1. o \in Ops /\ At(o, {}, {}, {a}, {}) /\ m \in Stations
    BY <1>1, CarryingIs
  <2>2. Ahead(a) = Travel[agvs[a].point][StationPoint[m]]
    BY <1>1, WayToUnload
  <2> QED BY <2>1, <2>2
<1>3. \/ /\ Reaches(a, m)
         /\ agvs' = [agvs EXCEPT ![a].status = "READY", ![a].operation = Nothing,
                        ![a].point = StationPoint[m], ![a].gone = 0,
                        ![a].time_left = @ - TimeTo(a, m), ![a].running = Tail(@)]
         /\ operations' = [operations EXCEPT ![o].status = "WORKING",
                                             ![o].current_machine = m]
      \/ ~Reaches(a, m) /\ Approach(a, "LOADED") /\ UNCHANGED operations
  BY DEF Unload
<1> HIDE DEF o, m
<1>4. CASE ~Reaches(a, m)
  BY <1>1, <1>2, <1>3, <1>4, ApproachWays
<1>5. CASE Reaches(a, m)
  <2> SUFFICES ASSUME NEW b \in Carts PROVE OnTheWay(b)'
    BY DEF WaysInv
  <2>1. CASE b # a
    <3>1. agvs'[b] = agvs[b]
      BY <1>3, <1>5, <2>1 DEF WorkInv, WorkTyped
    <3>2. Doing(b, "load") => operations'[Target(b)].current_machine = Here(Target(b))
      <4> SUFFICES ASSUME Doing(b, "load")
                   PROVE  operations'[Target(b)].current_machine = Here(Target(b))
        OBVIOUS
      <4>1. Target(b) \in Ops /\ Fetching(Target(b)) = {b}
        BY FetchingIs DEF At
      <4>2. Target(b) # o
        BY <1>2, <4>1 DEF At
      <4>3. operations'[Target(b)] = operations[Target(b)]
        BY <1>3, <1>5, <4>1, <4>2 DEF WorkInv, WorkTyped
      <4> QED BY <4>3 DEF Here
    <3> QED BY <3>1, <3>2, OthersWay
  <2>2. CASE b = a
    <3>1. agvs[b] \in CartType /\ OnTheWay(b)
      BY DEF WaysInv, WorkInv, WorkTyped
    <3>2. agvs'[b] = [agvs[b] EXCEPT !.status = "READY", !.operation = Nothing,
                        !.point = StationPoint[m], !.gone = 0,
                        !.time_left = agvs[b].time_left - TimeTo(b, m), !.running = Tail(@)]
      BY <1>3, <1>5, <2>2 DEF WorkInv, WorkTyped
    <3>3. /\ agvs'[b].gone = 0 /\ agvs'[b].time_left = agvs[b].time_left - TimeTo(b, m)
          /\ agvs'[b].history = agvs[b].history
      BY <3>1, <3>2 DEF CartType
    <3>4. Ahead(b)' \in Nat /\ Ahead(b) \in Nat
      BY AheadIsNext, AheadIs DEF AheadTyped
    <3>5. TimeTo(b, m) \in Nat /\ TimeTo(b, m) <= agvs[b].time_left
      <4>1. TimeTo(b, m) = Ahead(b) - agvs[b].gone
        BY <1>2, <2>2 DEF TimeTo
      <4>2. agvs[b].gone \in Nat /\ agvs[b].gone <= Ahead(b)
        BY <3>1 DEF OnTheWay
      <4> QED BY <1>5, <2>2, <3>4, <4>1, <4>2 DEF Reaches
    <3>6. agvs'[b].time_left \in 0..2 * Slice
      BY <3>1, <3>3, <3>5, PacketConstants DEF OnTheWay
    <3>7. \A i \in DOMAIN agvs[b].history : agvs[b].history[i][3] = 0
      BY <1>1, <2>2, <3>1, RecordsAre
    <3> QED BY <3>3, <3>4, <3>6, <3>7 DEF OnTheWay
  <2> QED BY <2>1, <2>2
<1> QED BY <1>4, <1>5

-----------------------------------------------------------------------------
(* The number of jobs.                                                     *)

LEMMA AddsAre ==
  ASSUME NEW q \in Seq(Commanded)
  PROVE  AddsIn(q) \in Nat /\ IsFiniteSet({i \in DOMAIN q : q[i][1] = ToAdd})
<1>1. IsFiniteSet(1..Len(q)) /\ DOMAIN q = 1..Len(q)
  BY FS_Interval
<1>2. IsFiniteSet({i \in DOMAIN q : q[i][1] = ToAdd})
  BY <1>1, FS_Subset
<1> QED BY <1>2, FS_CardinalityType DEF AddsIn

LEMMA AddIsKind ==
  /\ ToAdd \in ToSet(AllKinds)
  /\ \A kind \in {"restart", "pause", "run", "fail agv", "recover agv",
                   "fail machine", "recover machine"} : kind \in ToSet(AllKinds) /\ kind # ToAdd
BY KindsAre DEF ToAdd

LEMMA BuffersAre ==
  ASSUME PacketInv
  PROVE  /\ buffered[ToAdd] \in Seq(Named) /\ buffered \in [ToSet(AllKinds) -> Seq(Named)]
         /\ \A i \in DOMAIN buffered[ToAdd] : <<ToAdd, buffered[ToAdd][i]>> \in Commanded
BY AddIsKind DEF PacketInv, CommandsTyped

LEMMA NothingToAdd == Len(NoCommands[ToAdd]) = 0
<1>1. NoCommands[ToAdd] = << >>
  BY AddIsKind DEF NoCommands
<1> QED BY <1>1

\* An event that is dealt with is one less to come.
LEMMA AddsInTail ==
  ASSUME NEW q \in Seq(Commanded), q # << >>
  PROVE  AddsIn(q) = IF Head(q)[1] = ToAdd THEN AddsIn(Tail(q)) + 1 ELSE AddsIn(Tail(q))
<1> DEFINE S == {i \in DOMAIN q : q[i][1] = ToAdd}
           T == {i \in DOMAIN Tail(q) : Tail(q)[i][1] = ToAdd}
           R == S \ {1}
           f == [i \in T |-> i + 1]
<1>1. /\ Len(q) \in Nat /\ DOMAIN q = 1..Len(q) /\ 1 \in DOMAIN q /\ Head(q) = q[1]
      /\ Tail(q) \in Seq(Commanded) /\ DOMAIN Tail(q) = 1..(Len(q) - 1)
      /\ \A i \in 1..(Len(q) - 1) : Tail(q)[i] = q[i + 1]
  OBVIOUS
<1>2. IsFiniteSet(S) /\ IsFiniteSet(T) /\ Cardinality(S) \in Nat /\ Cardinality(T) \in Nat
  BY <1>1, AddsAre, FS_CardinalityType
<1>3. \A i \in T : i \in 1..(Len(q) - 1) /\ i + 1 \in R
  BY <1>1
<1>4. \A k \in R : k - 1 \in T /\ k - 1 + 1 = k
  <2> TAKE k \in R
  <2>1. k \in 1..Len(q) /\ k # 1 /\ q[k][1] = ToAdd
    BY <1>1
  <2>2. k - 1 \in 1..(Len(q) - 1) /\ k - 1 + 1 = k
    BY <1>1, <2>1
  <2>3. Tail(q)[k - 1] = q[k]
    BY <1>1, <2>2
  <2> QED BY <1>1, <2>1, <2>2, <2>3
<1> HIDE DEF S, T, R
<1>5. f \in Bijection(T, R)
  <2>1. f \in [T -> R] /\ \A i \in T : f[i] = i + 1
    BY <1>3
  <2> HIDE DEF f
  <2>2. \A i, j \in T : f[i] = f[j] => i = j
    BY <1>1, <1>3, <2>1
  <2>3. \A k \in R : \E i \in T : f[i] = k
    BY <1>4, <2>1
  <2> QED BY <2>1, <2>2, <2>3 DEF Bijection, Injection, Surjection, IsInjective
<1>6. IsFiniteSet(R) /\ Cardinality(R) = Cardinality(T)
  <2>1. ExistsBijection(T, R)
    BY <1>5 DEF ExistsBijection
  <2> QED BY <1>2, <2>1, FS_Bijection
<1>9. AddsIn(q) = Cardinality(S) /\ AddsIn(Tail(q)) = Cardinality(T)
  BY DEF AddsIn, S, T
<1>7. CASE 1 \in S
  <2>1. Cardinality(R) = Cardinality(S) - 1
    BY <1>2, <1>7, FS_RemoveElement DEF R
  <2>2. Head(q)[1] = ToAdd
    BY <1>1, <1>7 DEF S
  <2> QED BY <1>2, <1>6, <1>9, <2>1, <2>2
<1>8. CASE 1 \notin S
  <2>1. R = S
    BY <1>8 DEF R
  <2>2. Head(q)[1] # ToAdd
    BY <1>1, <1>8 DEF S
  <2> QED BY <1>2, <1>6, <1>9, <2>1, <2>2
<1> QED BY <1>7, <1>8

\* Commands of other kinds, then those to add a job.
LEMMA AddsAtTheEnd ==
  ASSUME NEW q \in Seq(Commanded), NEW r \in Seq(Commanded),
         \A i \in DOMAIN q : q[i][1] # ToAdd, \A i \in DOMAIN r : r[i][1] = ToAdd
  PROVE  AddsIn(q \o r) = Len(r)
<1> DEFINE m == Len(q)
           n == Len(r)
           S == {i \in DOMAIN (q \o r) : (q \o r)[i][1] = ToAdd}
<1>1. /\ m \in Nat /\ n \in Nat /\ DOMAIN q = 1..m /\ DOMAIN r = 1..n
      /\ DOMAIN (q \o r) = 1..(m + n)
      /\ \A i \in 1..m : (q \o r)[i] = q[i]
      /\ \A i \in (m + 1)..(m + n) : (q \o r)[i] = r[i - m]
  OBVIOUS
<1>2. \A i \in (m + 1)..(m + n) : i - m \in 1..n
  BY <1>1
<1>3. \A i \in 1..(m + n) : i \in S <=> i \in (m + 1)..(m + n)
  <2> TAKE i \in 1..(m + n)
  <2>1. i \in 1..m \/ i \in (m + 1)..(m + n)
    BY <1>1
  <2>2. CASE i \in 1..m
    <3>1. i \notin (m + 1)..(m + n)
      BY <1>1, <2>2
    <3> QED BY <1>1, <2>2, <3>1
  <2>3. CASE i \in (m + 1)..(m + n)
    BY <1>1, <1>2, <2>3
  <2> QED BY <2>1, <2>2, <2>3
<1>4. S \subseteq 1..(m + n)
  BY <1>1
<1> HIDE DEF S, m, n
<1>5. S = (m + 1)..(m + n)
  <2>1. (m + 1)..(m + n) \subseteq 1..(m + n)
    BY <1>1
  <2> QED BY <1>3, <1>4, <2>1
<1>6. m + 1 \in Int /\ m + n \in Int
  BY <1>1
<1>7. Cardinality(S) = IF m + 1 > m + n THEN 0 ELSE (m + n) - (m + 1) + 1
  BY <1>5, <1>6, FS_Interval
<1>8. Cardinality(S) = n
  BY <1>1, <1>7
<1> QED BY <1>8 DEF AddsIn, S, n

LEMMA NoneToAdd == AddsIn(<< >>) = 0
<1>1. {i \in DOMAIN << >> : << >>[i][1] = ToAdd} = {}
  OBVIOUS
<1> QED BY <1>1, FS_EmptySet DEF AddsIn

\* Numbers.
LEMMA JobsAre ==
  ASSUME PacketInv
  PROVE  /\ Len(job_list) \in Nat /\ Len(buffered[ToAdd]) \in Nat
         /\ AddsIn(ready_events) \in Nat /\ Len(Order) \in Nat /\ MaxJobs \in Nat
         /\ ToAdd \in ToSet(AllKinds) /\ JobsToBe = Len(job_list)
              + Len(buffered[ToAdd]) + AddsIn(ready_events)
<1>1. job_list \in Seq(Templates) /\ Order \in Seq(Templates) /\ MaxJobs \in Nat
  BY PacketConstants DEF PacketInv, WorkInv, WorkTyped
<1>2. ToAdd \in ToSet(AllKinds) /\ buffered[ToAdd] \in Seq(Named)
  BY AddIsKind, BuffersAre
<1>3. AddsIn(ready_events) \in Nat
  BY AddsAre DEF PacketInv, CommandsTyped
<1>4. JobsToBe = Len(job_list) + Len(buffered[ToAdd]) + AddsIn(ready_events)
  BY DEF JobsToBe, AddsIn, ToAdd
<1> QED BY <1>1, <1>2, <1>3, <1>4

LEMMA FreshJobs ==
  ASSUME Fresh, buffered = NoCommands, ready_events = << >> PROVE JobsBounded
<1>1. Len(Order) \in Nat /\ Len(Order) <= MaxJobs /\ MaxJobs \in Nat
  BY PacketConstants
<1>2. Len(buffered[ToAdd]) = 0
  BY NothingToAdd
<1> QED BY <1>1, <1>2, NoneToAdd DEF Fresh, JobsBounded

LEMMA CollectJobs ==
  ASSUME PacketInv, JobsBounded, Collect PROVE JobsBounded'
<1> DEFINE others == Of("restart") \o Of("pause") \o Of("run") \o Of("fail agv")
                       \o Of("recover agv") \o Of("fail machine") \o Of("recover machine")
           Others == {c \in Commanded : c[1] # ToAdd}
<1>1. /\ job_list' = job_list /\ buffered' = NoCommands
      /\ ready_events' = others \o Of(ToAdd)
  BY DEF Collect, ToAdd
<1>2. /\ Of("restart") \in Seq(Others) /\ Of("pause") \in Seq(Others)
      /\ Of("run") \in Seq(Others) /\ Of("fail agv") \in Seq(Others)
      /\ Of("recover agv") \in Seq(Others) /\ Of("fail machine") \in Seq(Others)
      /\ Of("recover machine") \in Seq(Others)
  <2>1. ASSUME NEW kind \in ToSet(AllKinds), kind # ToAdd PROVE Of(kind) \in Seq(Others)
    <3>1. \A i \in DOMAIN buffered[kind] : <<kind, buffered[kind][i]>> \in Others
      BY <2>1 DEF PacketInv, CommandsTyped
    <3>2. buffered[kind] \in Seq(Named)
      BY DEF PacketInv, CommandsTyped
    <3>3. Len(buffered[kind]) \in Nat /\ DOMAIN buffered[kind] = 1..Len(buffered[kind])
      BY <3>2
    <3> HIDE DEF Others
    <3> QED BY <3>1, <3>3 DEF Of
  <2> HIDE DEF Others
  <2> QED BY <2>1, AddIsKind
<1>3. others \in Seq(Others)
  <2> HIDE DEF Others
  <2>1. \A q, r \in Seq(Others) : q \o r \in Seq(Others)
    OBVIOUS
  <2> QED BY <1>2, <2>1
<1>4. others \in Seq(Commanded) /\ \A i \in DOMAIN others : others[i][1] # ToAdd
  <2> HIDE DEF others
  <2>1. \A i \in DOMAIN others : others[i] \in Others
    <3> HIDE DEF Others
    <3> QED BY <1>3
  <2>2. Others \subseteq Commanded
    OBVIOUS
  <2>3. others \in Seq(Commanded)
    <3> HIDE DEF Others
    <3> QED BY <1>3, <2>2
  <2> QED BY <2>1, <2>3
<1> HIDE DEF others, Others
<1> DEFINE b == buffered[ToAdd]
<1>5. /\ b \in Seq(Named) /\ Of(ToAdd) = [i \in 1..Len(b) |-> <<ToAdd, b[i]>>]
      /\ \A i \in 1..Len(b) : <<ToAdd, b[i]>> \in Commanded
  <2>1. b \in Seq(Named)
    BY BuffersAre
  <2>2. DOMAIN b = 1..Len(b)
    BY <2>1
  <2>3. \A i \in DOMAIN b : <<ToAdd, b[i]>> \in Commanded
    BY BuffersAre
  <2> QED BY <2>1, <2>2, <2>3 DEF Of
<1> HIDE DEF b
<1>6. /\ Of(ToAdd) \in Seq(Commanded) /\ Len(Of(ToAdd)) = Len(b)
      /\ \A i \in DOMAIN Of(ToAdd) : Of(ToAdd)[i][1] = ToAdd
  <2>1. Len(b) \in Nat
    BY <1>5
  <2> QED BY <1>5, <2>1
<1>7. AddsIn(ready_events') = Len(b)
  BY <1>1, <1>4, <1>6, AddsAtTheEnd
<1>8. Len(buffered'[ToAdd]) = 0
  BY <1>1, NothingToAdd
<1>9. Len(job_list) + Len(b) + AddsIn(ready_events) <= MaxJobs /\ Len(Order) <= Len(job_list)
  BY DEF JobsBounded, b
<1>10. /\ Len(job_list) \in Nat /\ Len(b) \in Nat /\ AddsIn(ready_events) \in Nat
       /\ MaxJobs \in Nat
  BY JobsAre DEF b
<1>11. Len(job_list) + 0 + Len(b) <= MaxJobs
  BY <1>9, <1>10
<1> QED BY <1>1, <1>7, <1>8, <1>9, <1>11 DEF JobsBounded, AddsIn

LEMMA RequestJobs ==
  ASSUME PacketInv, JobsBounded, Request PROVE JobsBounded'
<1>1. PICK kind \in Kinds :
        \E x \in Acceptable(kind) : buffered' = [buffered EXCEPT ![kind] = Append(@, x)]
  BY DEF Request
<1>2. PICK x \in Acceptable(kind) : buffered' = [buffered EXCEPT ![kind] = Append(@, x)]
  BY <1>1
<1>3. UNCHANGED <<job_list, ready_events>>
  BY DEF Request
<1>4. buffered[ToAdd] \in Seq(Named) /\ buffered \in [ToSet(AllKinds) -> Seq(Named)]
  BY BuffersAre
<1>5. CASE kind # ToAdd
  <2>1. buffered'[ToAdd] = buffered[ToAdd]
    BY <1>2, <1>4, <1>5, AddIsKind
  <2> QED BY <1>3, <2>1 DEF JobsBounded, AddsIn
<1>6. CASE kind = ToAdd
  <2>1. buffered'[ToAdd] = Append(buffered[ToAdd], x)
    BY <1>2, <1>4, <1>6, AddIsKind
  <2>2. x \in Named
    BY <1>6, AcceptableIs, AddIsKind DEF PacketInv
  <2>3. Len(buffered'[ToAdd]) = Len(buffered[ToAdd]) + 1
    BY <1>4, <2>1, <2>2
  <2>4. JobsToBe < MaxJobs
    <3>1. x \in Acceptable("add job")
      BY <1>2, <1>6 DEF ToAdd
    <3>2. Acceptable("add job") = IF JobsToBe < MaxJobs THEN ToSet(job_list) ELSE {}
      BY DEF Acceptable
    <3> QED BY <3>1, <3>2
  <2>5. /\ Len(job_list) \in Nat /\ Len(buffered[ToAdd]) \in Nat
        /\ AddsIn(ready_events) \in Nat /\ MaxJobs \in Nat
        /\ JobsToBe = Len(job_list) + Len(buffered[ToAdd]) + AddsIn(ready_events)
    BY JobsAre
  <2>6. Len(job_list) + (Len(buffered[ToAdd]) + 1) + AddsIn(ready_events) <= MaxJobs
    BY <2>4, <2>5
  <2> QED BY <1>3, <2>3, <2>6 DEF JobsBounded, AddsIn
<1> QED BY <1>5, <1>6

LEMMA EventJobs ==
  ASSUME PacketInv, JobsBounded, DealEvent PROVE JobsBounded'
<1> DEFINE adds == AddsIn(ready_events)
           kind == Head(ready_events)[1]
<1>1. /\ kind = ToAdd => adds = AddsIn(Tail(ready_events)) + 1
      /\ kind # ToAdd => adds = AddsIn(Tail(ready_events))
      /\ AddsIn(Tail(ready_events)) \in Nat
  <2>1. ready_events \in Seq(Commanded) /\ ready_events # << >>
    BY DEF PacketInv, CommandsTyped, DealEvent
  <2>2. Tail(ready_events) \in Seq(Commanded)
    BY <2>1
  <2> QED BY <2>1, <2>2, AddsInTail, AddsAre
<1>2. ready_events' = Tail(ready_events) /\ UNCHANGED buffered
  BY DEF DealEvent
<1>3. \/ kind = "restart" /\ job_list' = Order
      \/ kind # ToAdd /\ job_list' = job_list
      \/ kind = ToAdd /\ \E x : job_list' = Append(job_list, x)
  BY DEF DealEvent, FreshWork, AddJob, ToAdd
<1> HIDE DEF kind
<1>4. /\ Len(Order) <= Len(job_list)
      /\ Len(job_list) + Len(buffered[ToAdd]) + adds <= MaxJobs
  BY DEF JobsBounded
<1>5. /\ Len(job_list) \in Nat /\ Len(buffered[ToAdd]) \in Nat
      /\ adds \in Nat /\ MaxJobs \in Nat /\ Len(Order) \in Nat
  BY JobsAre
<1>6. AddsIn(ready_events') = AddsIn(Tail(ready_events))
  BY <1>2
<1> HIDE DEF adds
<1>7. CASE kind = "restart" /\ job_list' = Order
  <2>1. Len(Order) + Len(buffered[ToAdd]) + AddsIn(Tail(ready_events)) <= MaxJobs
    <3>1. adds >= AddsIn(Tail(ready_events))
      BY <1>1
    <3> QED BY <1>1, <1>4, <1>5, <3>1
  <2>2. job_list' = Order /\ UNCHANGED buffered
    BY <1>2, <1>7
  <2>3. Len(Order) <= Len(Order)
    BY <1>5
  <2> QED BY <1>6, <2>1, <2>2, <2>3 DEF JobsBounded, AddsIn
<1>8. CASE kind # ToAdd /\ job_list' = job_list
  <2>1. Len(job_list) + Len(buffered[ToAdd]) + AddsIn(Tail(ready_events)) <= MaxJobs
    BY <1>1, <1>4, <1>5, <1>8
  <2> QED BY <1>2, <1>4, <1>6, <1>8, <2>1 DEF JobsBounded, AddsIn
<1>9. CASE kind = ToAdd /\ \E x : job_list' = Append(job_list, x)
  <2>1. Len(job_list') = Len(job_list) + 1
    <3>1. job_list \in Seq(Templates)
      BY DEF PacketInv, WorkInv, WorkTyped
    <3>2. PICK x : job_list' = Append(job_list, x)
      BY <1>9
    <3> QED BY <3>1, <3>2
  <2>2. Len(job_list) + 1 + Len(buffered[ToAdd]) + AddsIn(Tail(ready_events)) <= MaxJobs
    <3>1. adds = AddsIn(Tail(ready_events)) + 1
      <4>1. kind = ToAdd
        BY <1>9
      <4> QED BY <1>1, <4>1
    <3>2. AddsIn(Tail(ready_events)) \in Nat
      BY <1>1
    <3> DEFINE rest == AddsIn(Tail(ready_events))
               jobs == Len(job_list)
               asked == Len(buffered[ToAdd])
    <3>3. jobs \in Nat /\ asked \in Nat /\ rest \in Nat /\ MaxJobs \in Nat /\ adds = rest + 1
          /\ jobs + asked + adds <= MaxJobs
      BY <1>4, <1>5, <3>1, <3>2
    <3> HIDE DEF rest, jobs, asked
    <3>4. jobs + 1 + asked + rest <= MaxJobs
      BY <3>3
    <3> QED BY <3>4 DEF rest, jobs, asked
  <2>3. Len(Order) <= Len(job_list) + 1
    BY <1>4, <1>5
  <2> QED BY <1>2, <1>6, <2>1, <2>2, <2>3 DEF JobsBounded, AddsIn
<1> QED BY <1>3, <1>7, <1>8, <1>9

-----------------------------------------------------------------------------
(* The types, from where AGVs are on their way and how many jobs there are. *)

LEMMA TypedStarts == PacketInit => TypedInv
<1> SUFFICES ASSUME PacketInit PROVE TypedInv
  OBVIOUS
<1>1. PacketInv
  BY PacketStarts
<1>2. Fresh /\ buffered = NoCommands /\ ready_events = << >>
  BY DEF PacketInit, Fresh
<1>3. WaysInv /\ JobsBounded
  BY <1>1, <1>2, FreshWays, FreshJobs DEF PacketInv
<1>4. ControlTyped
  <2>1. 0 \in 0..MaxCommands
    BY PacketConstants
  <2> QED BY <2>1 DEF ControlTyped, PacketInit
<1> QED BY <1>1, <1>3, <1>4 DEF TypedInv

\* The control points of the thread.
LEMMA ControlKeeps == ControlTyped /\ PacketNext => ControlTyped'
<1> SUFFICES ASSUME ControlTyped, PacketNext PROVE ControlTyped'
  OBVIOUS
<1>1. CASE EnvStep
  BY <1>1 DEF EnvStep, BeginSlice, eventVars, ControlTyped
<1>2. CASE Finish
  BY <1>2 DEF Finish, eventVars, ControlTyped
<1>3. CASE Collect
  BY <1>3 DEF Collect, ControlTyped
<1>4. CASE DealEvent
  <2>1. stage' \in {stage, "again", "top"} /\ UNCHANGED <<timed, commands>>
    BY <1>4 DEF DealEvent
  <2>2. env_status' \in {"PAUSED", "RUNNING", env_status}
    BY <1>4 DEF DealEvent
  <2> QED BY <2>1, <2>2 DEF ControlTyped
<1>5. CASE NoEvent
  BY <1>5 DEF NoEvent, eventVars, ControlTyped
<1>6. ASSUME NEW a \in Carts, CartWorks(a) PROVE ControlTyped'
  BY <1>6 DEF CartWorks, eventVars, ControlTyped
<1>7. CASE Request \/ RenderMap
  <2>1. commands < MaxCommands /\ commands' = commands + 1
    BY <1>7 DEF Request, RenderMap
  <2>2. MaxCommands \in Nat /\ commands \in 0..MaxCommands
    BY PacketConstants DEF ControlTyped
  <2>3. commands' \in 0..MaxCommands
    BY <2>1, <2>2
  <2>4. stage' = stage /\ timed' = timed /\ env_status' \in {"PAUSED", env_status}
    BY <1>7 DEF Request, RenderMap
  <2> QED BY <2>3, <2>4 DEF ControlTyped
<1> QED BY <1>1, <1>2, <1>3, <1>4, <1>5, <1>6, <1>7 DEF PacketNext, ThreadStep

LEMMA EventWays ==
  ASSUME PacketInv, PacketInv', WaysInv, DealEvent PROVE WaysInv'
<1>0. PICK kind, x : kind = Head(ready_events)[1] /\ x = Head(ready_events)[2]
  OBVIOUS
<1>1. <<kind, x>> \in Commanded
  <2>1. ready_events \in Seq(Commanded) /\ ready_events # << >>
    BY DEF PacketInv, CommandsTyped, DealEvent
  <2>2. Head(ready_events) \in Commanded
    BY <2>1
  <2>3. \A e \in Commanded : e = <<e[1], e[2]>>
    <3>1. \A A, B : \A e \in A \X B : e = <<e[1], e[2]>>
      OBVIOUS
    <3> QED BY <3>1 DEF Commanded
  <2> QED BY <1>0, <2>2, <2>3
<1>2. \/ FreshWork
      \/ UNCHANGED <<agvs, operations>>
      \/ kind \in {"fail agv", "recover agv"} /\ (FailCart(x) \/ RecoverCart(x))
           /\ UNCHANGED operations
      \/ kind = "add job" /\ AddJob(x) /\ UNCHANGED agvs
  BY <1>0 DEF DealEvent, workVars
<1>3. /\ kind \in {"fail agv", "recover agv"} => x \in Carts
      /\ kind = "add job" => x \in Templates
  BY <1>1 DEF Commanded
<1>4. WorkInv /\ WorkInv'
  BY DEF PacketInv
<1>5. CASE FreshWork
  BY <1>5, FreshWaysNext
<1>6. CASE UNCHANGED <<agvs, operations>>
  BY <1>4, <1>6, QuietWays
<1>7. CASE kind \in {"fail agv", "recover agv"} /\ (FailCart(x) \/ RecoverCart(x))
             /\ UNCHANGED operations
  BY <1>3, <1>4, <1>7, FailWays, RecoverWays
<1>8. CASE kind = "add job" /\ AddJob(x) /\ UNCHANGED agvs
  BY <1>3, <1>4, <1>8, AddWays
<1> QED BY <1>2, <1>5, <1>6, <1>7, <1>8

LEMMA WaysKeep ==
  ASSUME PacketInv, PacketInv', WaysInv, PacketNext PROVE WaysInv'
<1>0. WorkInv /\ WorkInv'
  BY DEF PacketInv
<1>1. CASE EnvStep
  <2>1. CASE env_status = "RUNNING"
    <3>1. PICK decided : BeginSlice(decided)
      BY <1>1, <2>1 DEF EnvStep
    <3> QED BY <3>1, SliceWays
  <2>2. CASE env_status # "RUNNING"
    BY <1>0, <1>1, <2>2, QuietWays DEF EnvStep, workVars
  <2> QED BY <2>1, <2>2
<1>2. CASE Finish \/ NoEvent \/ Request
  BY <1>0, <1>2, QuietWays DEF Finish, NoEvent, Request, workVars
<1>3. CASE Collect
  BY <1>0, <1>3, CollectWays
<1>4. CASE DealEvent
  BY <1>4, EventWays
<1>5. ASSUME NEW a \in Carts, CartWorks(a) PROVE WaysInv'
  BY <1>0, <1>5, TakeWays, LoadWays, UnloadWays DEF CartWorks
<1>6. CASE RenderMap
  BY <1>6, FreshWaysNext DEF RenderMap
<1> QED BY <1>1, <1>2, <1>3, <1>4, <1>5, <1>6 DEF PacketNext, ThreadStep

LEMMA QuietJobs ==
  ASSUME JobsBounded, UNCHANGED <<job_list, buffered, ready_events>> PROVE JobsBounded'
BY DEF JobsBounded, AddsIn

LEMMA JobsKeep ==
  ASSUME PacketInv, JobsBounded, PacketNext PROVE JobsBounded'
<1>1. CASE EnvStep
  BY <1>1, QuietJobs DEF EnvStep, BeginSlice, eventVars
<1>2. CASE Finish \/ NoEvent
  BY <1>2, QuietJobs DEF Finish, NoEvent, eventVars
<1>3. CASE Collect
  BY <1>3, CollectJobs
<1>4. CASE DealEvent
  BY <1>4, EventJobs
<1>5. ASSUME NEW a \in Carts, CartWorks(a) PROVE JobsBounded'
  BY <1>5, QuietJobs DEF CartWorks, eventVars
<1>6. CASE Request
  BY <1>6, RequestJobs
<1>7. CASE RenderMap
  <2>1. job_list' = Order /\ buffered' = NoCommands /\ ready_events' = << >>
    BY <1>7 DEF RenderMap, FreshWork
  <2>2. Len(Order) \in Nat /\ Len(Order) <= MaxJobs /\ MaxJobs \in Nat
    BY PacketConstants
  <2>3. Len(buffered'[ToAdd]) = 0 /\ AddsIn(ready_events') = 0
    BY <2>1, NothingToAdd, NoneToAdd
  <2>4. Len(Order) <= Len(Order) /\ Len(Order) + 0 + 0 <= MaxJobs
    BY <2>2
  <2> QED BY <2>1, <2>3, <2>4 DEF JobsBounded, AddsIn
<1> QED BY <1>1, <1>2, <1>3, <1>4, <1>5, <1>6, <1>7 DEF PacketNext, ThreadStep

LEMMA TypedKeeps == TypedInv /\ [PacketNext]_packetVars => TypedInv'
<1> SUFFICES ASSUME TypedInv, [PacketNext]_packetVars PROVE TypedInv'
  OBVIOUS
<1>1. PacketInv /\ PacketInv'
  BY PacketKeeps DEF TypedInv
<1>2. CASE PacketNext
  BY <1>1, <1>2, WaysKeep, JobsKeep, ControlKeeps DEF TypedInv
<1>3. CASE UNCHANGED packetVars
  <2>1. UNCHANGED <<agvs, operations>> /\ UNCHANGED <<job_list, buffered, ready_events>>
    BY <1>3 DEF packetVars, workVars, eventVars
  <2>2. ControlTyped'
    BY <1>3 DEF TypedInv, ControlTyped, packetVars, workVars, eventVars
  <2> QED BY <1>1, <2>1, <2>2, QuietWays, QuietJobs DEF TypedInv, PacketInv
<1> QED BY <1>2, <1>3

LEMMA TypedInvIsEnough == TypedInv => PacketTypeOK
<1> SUFFICES ASSUME TypedInv PROVE PacketTypeOK
  OBVIOUS
<1>1. PacketInv /\ WorkTyped /\ CommandsTyped /\ JobsBounded /\ ControlTyped /\ WaysInv
  BY DEF TypedInv, PacketInv, WorkInv
<1>2. Len(job_list) <= MaxJobs
  <2>1. /\ Len(job_list) \in Nat /\ Len(buffered[ToAdd]) \in Nat
        /\ AddsIn(ready_events) \in Nat /\ MaxJobs \in Nat
    BY <1>1, JobsAre, BuffersAre
  <2> QED BY <1>1, <2>1 DEF JobsBounded
<1>3. /\ stage \in {"top", "again", "idle", "driving", "events", "last", "last events"}
      /\ timed \in BOOLEAN /\ lag \in {0, 1} /\ commands \in 0..MaxCommands
      /\ env_status \in {"PAUSED", "RUNNING", "WAITING"}
      /\ job_list \in Seq(Templates)
  BY <1>1 DEF ControlTyped, CommandsTyped, WorkTyped
<1>4. operations \in [Ops ->
        [status : {"WAITING", "READY", "MOVING", "WORKING", "FINISHED"},
         process_time : Nat, current_machine : Stations \cup {Nothing}]]
  BY <1>1 DEF WorkTyped, OperationType, OpStatus
<1>5. \A m \in Stations : /\ machines[m].status \in {"READY", "WORKING", "FAILED"}
                          /\ machines[m].input_queue \in Seq(Ops)
                          /\ machines[m].output_queue \subseteq Ops
  BY <1>1 DEF WorkTyped, MachineType, MachineStatus
<1>6. \A a \in Carts : /\ agvs[a].status \in {"READY", "ASSIGNED", "LOADED", "EXCEPTION"}
                       /\ agvs[a].operation \in Ops \cup {Nothing}
                       /\ agvs[a].gone \in Nat /\ agvs[a].time_left \in 0..2 * Slice
  BY <1>1 DEF WorkTyped, CartType, CartStatus, WaysInv, OnTheWay
<1> QED BY <1>2, <1>3, <1>4, <1>5, <1>6 DEF PacketTypeOK

LEMMA DisruptionsAreTyped == DisruptionsInv => DisruptionsTypeOK
<1> SUFFICES ASSUME DisruptionsInv PROVE DisruptionsTypeOK
  OBVIOUS
<1>1. Obstructed \cap (Positions \cup MachineCells) = {}
  BY DEF DisruptionsInv, WaysStayOpen, FreeCells
<1>2. {repair_remaining[t] : t \in Breakable} \cup {active_obstacles[c] : c \in Floor}
        \cup {map_epoch} \subseteq Nat
  BY DEF DisruptionsInv, FloorTyped
<1>3. DOMAIN repair_remaining = Breakable /\ DOMAIN active_obstacles = Floor
  BY DEF DisruptionsInv, FloorTyped
<1> QED
  BY <1>1, <1>2, <1>3 DEF DisruptionsTypeOK, DisruptionsInv, FloorTyped, ScheduleInv, ScheduleTyped

\* However many vehicles, machines, jobs and commands there are, the state of both
\* floors is of its type.  For the packet factory that says more than it seems: no
\* AGV goes further than to where it goes or has time left of less than nothing
\* (push_process), although a fault records where it stands and a recovery, of
\* whatever fault, sets it back there (event_set_restart).
THEOREM FloorsAreTyped == PartsSpec => []PartsTypeOK
<1> DEFINE Inv == DisruptionsInv /\ TypedInv
<1>1. PartsInit => Inv
  BY DisruptionsStart, TypedStarts DEF PartsInit
<1>2. Inv /\ [PartsNext]_<<part, disruptionVars, packetVars>> => Inv'
  <2> SUFFICES ASSUME Inv, [PartsNext]_<<part, disruptionVars, packetVars>> PROVE Inv'
    OBVIOUS
  <2>1. [DisruptionsNext]_disruptionVars /\ [PacketNext]_packetVars
    BY DEF PartsNext
  <2> QED BY <2>1, DisruptionsKeep, TypedKeeps
<1>3. Inv => PartsTypeOK
  BY DisruptionsAreTyped, TypedInvIsEnough DEF PartsTypeOK
<1> QED BY <1>1, <1>2, <1>3, PTL DEF PartsSpec
=============================================================================
