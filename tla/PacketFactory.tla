---------------------------- MODULE PacketFactory ----------------------------
(***************************************************************************)
(* The packet factory (executor/packet_factory): its thread advances       *)
(* machines and AGVs by one slice of time after the other, as the random   *)
(* agent decides, and carries out the commands that requests have put into *)
(* the buffers of its visualizer.                                          *)
(*                                                                         *)
(* Requests touch nothing but these buffers and look at nothing but the    *)
(* status of an AGV or a machine, and an AGV that moves leaves its         *)
(* EXCEPTION once at most; so they come in at any time but while AGVs      *)
(* move.  The loops over AGVs are one action per AGV, in every order.      *)
(***************************************************************************)
EXTENDS Naturals, Sequences, FiniteSets, SequencesExt

CONSTANTS
  Nothing,               \* Python's None
  Carts,                 \* the AGVs
  Stations,              \* the machines
  Templates,             \* the ids of the jobs of the configuration
  Operations,            \* Operations[id]: per operation, its duration on each
                         \* machine, 0 where it cannot be processed
  Order,                 \* Order: the ids in the order of the configuration
  CartPoint, StationPoint,
  Travel,                \* Travel[p][q]: time along get_path(p, q)
  Slice,                 \* step_time
  Kinds,                 \* the kinds of commands in use
  MaxCommands, MaxJobs   \* bounds

AllKinds == <<"restart", "pause", "run", "fail agv", "recover agv",
              "fail machine", "recover machine", "add job">>

ASSUME PacketConstants ==
  /\ Operations \in [Templates -> Seq([Stations -> Nat])]
  /\ Order \in Seq(Templates) /\ Len(Order) <= MaxJobs
  /\ Slice \in Nat \ {0} /\ {MaxCommands, MaxJobs} \subseteq Nat
  /\ Kinds \subseteq {AllKinds[k] : k \in DOMAIN AllKinds}
  /\ CartPoint \in [Carts -> DOMAIN Travel] /\ StationPoint \in [Stations -> DOMAIN Travel]
  /\ Travel \in [DOMAIN Travel -> [DOMAIN Travel -> Nat]]
  /\ Nothing \notin Stations \cup (Nat \X Nat)

VARIABLES
  stage,                 \* control point of the thread, in its loop of steps
  timed,                 \* the slice counts: env_step began as RUNNING
  env_status,
  job_list,              \* ids of the jobs, added ones at the end
  operations,            \* the operations of these, named <<place, index>>
  machines, agvs,
  lag,                   \* slices that AGVs are behind: 1 after a restart
  buffered,              \* per kind of command, what it is for: the buffers of
                         \* the visualizer
  ready_events,          \* events that deal_event is about to carry out
  commands               \* how many there were

workVars == <<operations, machines, agvs>>
eventVars == <<buffered, ready_events, commands>>
packetVars == <<stage, timed, env_status, job_list, workVars, lag, eventVars>>

NumOf(id) == Len(Operations[id])
OpsIn(list) == UNION {{<<k, i>> : i \in 1..NumOf(list[k])} : k \in DOMAIN list}
Ops == OpsIn(job_list)
Duration(o, m) == Operations[job_list[o[1]]][o[2]][m]
Successor(o) == <<o[1], o[2] + 1>>
JobFinished(k) == operations[<<k, NumOf(job_list[k])>>].status = "FINISHED"
AllFinished == \A k \in DOMAIN job_list : JobFinished(k)

\* Job.__init__ makes the first operation ready.
NewOperation(o) ==
  [status |-> IF o[2] = 1 THEN "READY" ELSE "WAITING", process_time |-> 0,
   current_machine |-> Nothing]
NewMachine == [status |-> "READY", input_queue |-> <<>>, output_queue |-> {}, history |-> <<>>]
NewCart(a) ==
  [status |-> "READY", point |-> CartPoint[a], gone |-> 0, operation |-> Nothing,
   todo |-> <<>>, running |-> <<>>, time_left |-> 0, history |-> <<>>]

-----------------------------------------------------------------------------
(* Machines: work() for one slice.                                         *)

Available(m) == machines[m].status \in {"READY", "WORKING"}

\* After[i]: when the first i operations of the queue are done.
After(m) ==
  LET q == machines[m].input_queue
      sum[i \in 0..Len(q)] == IF i = 0 THEN 0 ELSE
        sum[i - 1] + (Duration(q[i], m) - operations[q[i]].process_time)
  IN sum
Completed(m) ==
  IF Available(m) THEN {i \in DOMAIN machines[m].input_queue : After(m)[i] <= Slice} ELSE {}
Served(m) == {machines[m].input_queue[i] : i \in Completed(m)}
Begun(m) == LET q == machines[m].input_queue  k == Cardinality(Completed(m)) IN
            IF Available(m) /\ k < Len(q) THEN {q[k + 1]} ELSE {}

\* The rest of the slice goes into the first operation that is not completed.
\* Mutant: what was processed in a slice that did not complete it is not counted.
ProcessedLost(m) == operations[machines[m].input_queue[Cardinality(Completed(m)) + 1]].process_time
Processed(m) ==
  LET k == Cardinality(Completed(m)) IN
  operations[machines[m].input_queue[k + 1]].process_time + Slice - After(m)[k]

\* Mutant: the successor of an operation is not set down for an AGV.
OutputsLost(m) == machines[m].output_queue
Outputs(m) == machines[m].output_queue \cup ({Successor(o) : o \in Served(m)} \cap Ops)

MachinesWork ==
  /\ operations' = [o \in Ops |->
       LET m == operations[o].current_machine
           at == {n \in Stations : o \in Served(n)}
           before == {n \in Stations : <<o[1], o[2] - 1>> \in Served(n)} IN
       IF at # {} THEN
         [status |-> "FINISHED", process_time |-> Duration(o, m), current_machine |-> Nothing]
       ELSE IF before # {} THEN
         [operations[o] EXCEPT !.status = "READY",
                               !.current_machine = CHOOSE n \in before : TRUE]
       ELSE IF \E n \in Stations : o \in Begun(n) THEN
         [operations[o] EXCEPT !.process_time = Processed(m)]
       ELSE operations[o]]
  /\ machines' = [m \in Stations |->
       LET q == machines[m].input_queue IN
       [machines[m] EXCEPT
          !.input_queue = SubSeq(q, Cardinality(Completed(m)) + 1, Len(q)),
          !.output_queue = Outputs(m),
          !.status = IF q = <<>> \/ ~Available(m) THEN @
                     ELSE IF Begun(m) = {} THEN "READY" ELSE "WORKING"]]

-----------------------------------------------------------------------------
(* The thread: bootstrap's loop, step and env_step.                        *)

Unstarted(o) == operations[o].status \in {"READY", "WAITING"}
Capable(o) == {m \in Stations : Duration(o, m) > 0 /\ Available(m)}

\* RandomAgent.sample: any AGV and any available machine for each operation
\* that nobody has begun, in the order of the jobs; without a machine, none.
Decided == {o \in Ops : Unstarted(o) /\ Capable(o) # {} /\ ~JobFinished(o[1])}
Sooner(o, p) == o[1] < p[1] \/ (o[1] = p[1] /\ o[2] < p[2])
InOrder(S) ==
  [i \in 1..Cardinality(S) |->
     CHOOSE o \in S : Cardinality({p \in S : Sooner(p, o)}) = i - 1]

\* Mutant: what was not begun stays with the AGV it was given to before.
TodoKept(a, new) == agvs[a].todo \o new
NewTodo(a, new) == new

\* The machines work, the decisions replace the ones not begun, if there are
\* any, and the AGVs have a slice of time.
BeginSlice(decided) ==
  /\ MachinesWork
  /\ \E cart \in [decided -> Carts], machine \in [decided -> Stations] :
       /\ \A o \in decided : machine[o] \in Capable(o)
       /\ agvs' = [a \in Carts |->
            LET mine == InOrder({o \in decided : cart[o] = a}) IN
            [agvs[a] EXCEPT
               !.time_left = (1 + lag) * Slice,
               !.todo = IF decided = {} THEN @ ELSE
                        NewTodo(a, [i \in DOMAIN mine |-> <<mine[i], machine[mine[i]]>>])]]
  /\ stage' = "driving" /\ timed' = TRUE /\ lag' = 0
  /\ UNCHANGED <<env_status, job_list, eventVars>>

\* The loop of step: after an event without new decisions.
EnvStep ==
  /\ stage \in {"top", "again"} /\ ~AllFinished
  /\ IF env_status = "RUNNING" THEN BeginSlice(IF stage = "top" THEN Decided ELSE {})
     ELSE /\ stage' = "idle" /\ timed' = FALSE
          /\ UNCHANGED <<env_status, job_list, workVars, lag, eventVars>>

\* check_job_finished
Finish ==
  /\ stage \in {"top", "again"} /\ AllFinished
  /\ env_status' = "WAITING" /\ stage' = "last"
  /\ UNCHANGED <<timed, job_list, workVars, lag, eventVars>>

-----------------------------------------------------------------------------
(* An AGV: the loop of push_process.                                       *)

Doing(a, what) == agvs[a].running # <<>> /\ Head(agvs[a].running)[1] = what
Target(a) == Head(agvs[a].running)[2]
TimeTo(a, m) == Travel[agvs[a].point][StationPoint[m]] - agvs[a].gone
Reaches(a, m) == TimeTo(a, m) <= agvs[a].time_left

MayTake(a) ==
  /\ agvs[a].running = <<>> /\ agvs[a].todo # <<>>
  /\ operations[Head(agvs[a].todo)[1]].status = "READY"

\* A task is begun and cannot be taken back; the first operation of a job is
\* in the warehouse, that is everywhere.
TakeTask(a) ==
  /\ MayTake(a)
  /\ LET o == Head(agvs[a].todo)[1]  m == Head(agvs[a].todo)[2] IN
     /\ operations' = [operations EXCEPT ![o].status = "MOVING"]
     /\ agvs' = IF operations[o].current_machine = Nothing
                THEN [agvs EXCEPT ![a].operation = o, ![a].status = "LOADED",
                        ![a].todo = Tail(@), ![a].running = <<<<"unload", m>>>>]
                ELSE [agvs EXCEPT ![a].todo = Tail(@),
                        ![a].running = <<<<"load", o>>, <<"unload", m>>>>]
  /\ UNCHANGED machines

\* heading, as far as the time allows.
Approach(a, status) ==
  agvs' = [agvs EXCEPT ![a].gone = @ + agvs[a].time_left, ![a].time_left = 0, ![a].status = status]

MayLoad(a) == Doing(a, "load") /\ agvs[a].status \in {"READY", "ASSIGNED"}

Load(a) ==
  /\ MayLoad(a)
  /\ LET o == Target(a)  m == operations[o].current_machine IN
     IF Reaches(a, m)
     THEN /\ agvs' = [agvs EXCEPT ![a].status = "LOADED", ![a].operation = o,
                        ![a].point = StationPoint[m], ![a].gone = 0, ![a].time_left = 0,
                        ![a].running = Tail(@)]
          /\ operations' = [operations EXCEPT ![o].current_machine = Nothing]
          /\ machines' = [machines EXCEPT ![m].output_queue = @ \ {o}]
     ELSE /\ agvs[a].time_left > 0 \/ agvs[a].status = "READY"
          /\ Approach(a, "ASSIGNED") /\ UNCHANGED <<operations, machines>>

MayUnload(a) ==
  Doing(a, "unload") /\ agvs[a].status = "LOADED" /\ agvs[a].operation # Nothing

\* The machine's own time is over for this slice; it only begins.
Unload(a) ==
  /\ MayUnload(a)
  /\ LET m == Target(a)  o == agvs[a].operation IN
     IF Reaches(a, m)
     THEN /\ agvs' = [agvs EXCEPT ![a].status = "READY", ![a].operation = Nothing,
                        ![a].point = StationPoint[m], ![a].gone = 0,
                        ![a].time_left = @ - TimeTo(a, m), ![a].running = Tail(@)]
          /\ operations' = [operations EXCEPT ![o].status = "WORKING",
                                              ![o].current_machine = m]
          /\ machines' = [machines EXCEPT ![m].input_queue = Append(@, o),
                            ![m].status = IF Available(m) THEN "WORKING" ELSE @]
     ELSE /\ agvs[a].time_left > 0
          /\ Approach(a, "LOADED") /\ UNCHANGED <<operations, machines>>

CartWorks(a) ==
  /\ stage = "driving"
  /\ TakeTask(a) \/ Load(a) \/ Unload(a)
  /\ UNCHANGED <<stage, timed, env_status, job_list, lag, eventVars>>

CanGoOn(a) ==
  \/ MayTake(a)
  \/ MayLoad(a) /\ (\/ Reaches(a, operations[Target(a)].current_machine)
                    \/ agvs[a].time_left > 0 \/ agvs[a].status = "READY")
  \/ MayUnload(a) /\ (Reaches(a, Target(a)) \/ agvs[a].time_left > 0)

Arrived == \A a \in Carts : ~CanGoOn(a)

-----------------------------------------------------------------------------
(* deal_event: the commands that are buffered become events, all at once.  *)

Of(kind) == [i \in DOMAIN buffered[kind] |-> <<kind, buffered[kind][i]>>]
NoCommands == [kind \in ToSet(AllKinds) |-> <<>>]

\* getBuffered: by kind.
Collect ==
  /\ \/ stage = "driving" /\ Arrived
     \/ stage \in {"idle", "last"}
  /\ stage' = IF stage = "last" THEN "last events" ELSE "events"
  /\ agvs' = [a \in Carts |-> [agvs[a] EXCEPT !.time_left = 0]]
  /\ ready_events' = Of("restart") \o Of("pause") \o Of("run") \o Of("fail agv")
       \o Of("recover agv") \o Of("fail machine") \o Of("recover machine") \o Of("add job")
  /\ buffered' = NoCommands
  /\ UNCHANGED <<timed, env_status, job_list, operations, machines, lag, commands>>

FreshWork ==
  /\ job_list' = Order
  /\ operations' = [o \in OpsIn(Order) |-> NewOperation(o)]
  /\ machines' = [m \in Stations |-> NewMachine]
  /\ agvs' = [a \in Carts |-> NewCart(a)]

\* record, then event_set_fail
FailCart(a) ==
  agvs' = [agvs EXCEPT ![a].status = "EXCEPTION",
             ![a].history = Append(@, <<agvs[a].status, agvs[a].point, agvs[a].gone>>)]
FailMachine(m) ==
  machines' = [machines EXCEPT ![m].status = "FAILED",
                               ![m].history = Append(@, machines[m].status)]

\* event_set_restart: what was recorded last, or READY.
RecoverCart(a) ==
  LET h == agvs[a].history IN
  agvs' = IF h = <<>> THEN [agvs EXCEPT ![a].status = "READY"]
          ELSE [agvs EXCEPT ![a].status = h[Len(h)][1], ![a].point = h[Len(h)][2],
                            ![a].gone = h[Len(h)][3], ![a].history = Front(h)]
RecoverMachine(m) ==
  LET h == machines[m].history IN
  machines' = IF h = <<>> THEN [machines EXCEPT ![m].status = "READY"]
              ELSE [machines EXCEPT ![m].status = h[Len(h)], ![m].history = Front(h)]

AddJob(id) ==
  /\ job_list' = Append(job_list, id)
  /\ operations' = [o \in OpsIn(job_list') |->
                      IF o \in Ops THEN operations[o] ELSE NewOperation(o)]

InEvents == stage \in {"events", "last events"}

\* One event of the list.  A restart sets the timeline back, which the slice
\* that is under way then advances, but the new AGVs begin at 0.
DealEvent ==
  /\ InEvents /\ ready_events # <<>>
  /\ LET kind == Head(ready_events)[1]  x == Head(ready_events)[2] IN
     /\ env_status' = CASE kind = "pause" -> "PAUSED" [] kind = "run" -> "RUNNING"
                        [] OTHER -> env_status
     /\ \/ kind = "restart" /\ FreshWork
        \/ kind \in {"pause", "run"} /\ UNCHANGED <<job_list, workVars>>
        \/ kind = "fail agv" /\ FailCart(x) /\ UNCHANGED <<job_list, operations, machines>>
        \/ kind = "recover agv" /\ RecoverCart(x) /\ UNCHANGED <<job_list, operations, machines>>
        \/ kind = "fail machine" /\ FailMachine(x) /\ UNCHANGED <<job_list, operations, agvs>>
        \/ kind = "recover machine" /\ RecoverMachine(x) /\ UNCHANGED <<job_list, operations, agvs>>
        \/ kind = "add job" /\ AddJob(x) /\ UNCHANGED <<machines, agvs>>
     /\ lag' = IF kind = "restart" THEN (IF stage = "events" /\ timed THEN 1 ELSE 0) ELSE lag
  /\ ready_events' = Tail(ready_events)
  /\ stage' = IF ready_events' # <<>> THEN stage
              ELSE IF stage = "events" THEN "again" ELSE "top"
  /\ UNCHANGED <<timed, buffered, commands>>

\* Without an event the step is over.
NoEvent ==
  /\ InEvents /\ ready_events = <<>>
  /\ stage' = IF stage = "events" THEN "last" ELSE "top"
  /\ UNCHANGED <<timed, env_status, job_list, workVars, lag, eventVars>>

-----------------------------------------------------------------------------
(* Requests.                                                               *)

Asked(kind) == ToSet(buffered[kind])
\* Jobs that will be there when the commands are carried out.
JobsToBe == Len(job_list) + Len(buffered["add job"]) +
              Cardinality({i \in DOMAIN ready_events : ready_events[i][1] = "add job"})

\* What a request may ask for, and what it ignores (pause_agv, pause_machine,
\* add_job).
Acceptable(kind) ==
  CASE kind \in {"restart", "pause", "run"} -> {Nothing} \ Asked(kind)
    [] kind = "fail agv" -> {a \in Carts : agvs[a].status # "EXCEPTION"} \ Asked(kind)
    [] kind = "recover agv" -> Carts
    [] kind = "fail machine" -> {m \in Stations : machines[m].status # "FAILED"} \ Asked(kind)
    [] kind = "recover machine" -> Stations
    [] kind = "add job" -> IF JobsToBe < MaxJobs THEN ToSet(job_list) ELSE {}

Request ==
  /\ stage = "driving" => Arrived
  /\ commands < MaxCommands
  /\ commands' = commands + 1
  /\ \E kind \in Kinds : \E x \in Acceptable(kind) :
       buffered' = [buffered EXCEPT ![kind] = Append(@, x)]
  /\ UNCHANGED <<stage, timed, env_status, job_list, workVars, lag, ready_events>>

\* render_map: the thread is told to stop and joined, a new one builds a new
\* environment.
RenderMap ==
  /\ stage = "top" /\ commands < MaxCommands /\ commands' = commands + 1
  /\ FreshWork /\ env_status' = "PAUSED" /\ lag' = 0
  /\ buffered' = NoCommands /\ ready_events' = <<>>
  /\ UNCHANGED <<stage, timed>>

PacketInit ==
  /\ stage = "top" /\ timed = FALSE /\ env_status = "PAUSED" /\ lag = 0
  /\ job_list = Order
  /\ operations = [o \in OpsIn(Order) |-> NewOperation(o)]
  /\ machines = [m \in Stations |-> NewMachine]
  /\ agvs = [a \in Carts |-> NewCart(a)]
  /\ buffered = NoCommands /\ ready_events = <<>> /\ commands = 0

ThreadStep == \/ EnvStep \/ Finish \/ Collect \/ DealEvent \/ NoEvent
              \/ \E a \in Carts : CartWorks(a)

PacketNext == ThreadStep \/ Request \/ RenderMap

PacketSpec == PacketInit /\ [][PacketNext]_packetVars

-----------------------------------------------------------------------------
(* Properties.                                                             *)

\* The types of the environment, its machines and AGVs.
PacketTypeOK ==
  /\ stage \in {"top", "again", "idle", "driving", "events", "last", "last events"}
  /\ timed \in BOOLEAN /\ lag \in {0, 1} /\ commands \in 0..MaxCommands
  /\ env_status \in {"PAUSED", "RUNNING", "WAITING"}
  /\ job_list \in Seq(Templates) /\ Len(job_list) <= MaxJobs
  /\ operations \in [Ops ->
       [status : {"WAITING", "READY", "MOVING", "WORKING", "FINISHED"},
        process_time : Nat, current_machine : Stations \cup {Nothing}]]
  /\ \A m \in Stations : /\ machines[m].status \in {"READY", "WORKING", "FAILED"}
                         /\ machines[m].input_queue \in Seq(Ops)
                         /\ machines[m].output_queue \subseteq Ops
  /\ \A a \in Carts : /\ agvs[a].status \in {"READY", "ASSIGNED", "LOADED", "EXCEPTION"}
                      /\ agvs[a].operation \in Ops \cup {Nothing}
                      /\ agvs[a].gone \in Nat /\ agvs[a].time_left \in 0..2 * Slice

Queued(o) == {m \in Stations : o \in ToSet(machines[m].input_queue)}
SetDown(o) == {m \in Stations : o \in machines[m].output_queue}
Aboard(o) == {a \in Carts : agvs[a].operation = o}
Fetching(o) == {a \in Carts : Doing(a, "load") /\ Target(a) = o}
Planned(o) == {a \in Carts : \E i \in DOMAIN agvs[a].todo : agvs[a].todo[i][1] = o}
Predecessor(o) == <<o[1], o[2] - 1>>

\* Whatever is paused, resumed, added or set back, and whatever the agent
\* decides anew, every operation is in the one place that its status says: it
\* waits for its predecessor, is ready where that was finished, on its way
\* with one AGV, in the queue of one machine that can process it, or done.
\* No two AGVs are to take it, and none is to take one that was begun (the
\* assertion of AGV.push_process, the index of Machine.output_pop_operation).
OperationsAreKept == \A o \in Ops :
  LET here == operations[o].current_machine
      Where(queues, places, carts, fetching) ==
        /\ Queued(o) = queues /\ SetDown(o) = places
        /\ Aboard(o) = carts /\ Fetching(o) = fetching
      there == IF here = Nothing THEN {} ELSE {here} IN
  /\ (operations[o].status = "WAITING") <=>
       (o[2] > 1 /\ operations[Predecessor(o)].status # "FINISHED")
  /\ CASE operations[o].status = "WAITING" -> Where({}, {}, {}, {}) /\ here = Nothing
       [] operations[o].status = "READY" ->
            Where({}, there, {}, {}) /\ (here = Nothing <=> o[2] = 1)
       [] operations[o].status = "MOVING" ->
            \E a \in Carts : \/ Where({}, {}, {a}, {}) /\ here = Nothing /\ Doing(a, "unload")
                             \/ Where({}, there, {}, {a}) /\ here # Nothing
       [] operations[o].status = "WORKING" ->
            Where({here}, {}, {}, {}) /\ operations[o].process_time < Duration(o, here)
       [] operations[o].status = "FINISHED" -> Where({}, {}, {}, {}) /\ here = Nothing
  /\ Cardinality(Planned(o)) <= 1
  /\ Planned(o) # {} => Unstarted(o)

\* The thread goes on.
PacketFairness == WF_packetVars(ThreadStep)

OutOfService(a) ==
  agvs[a].status = "EXCEPTION" \/ (agvs[a].status = "READY" /\ agvs[a].operation # Nothing)

\* A factory that keeps running ends its jobs, as random as the decisions
\* are, unless a machine is down or an AGV out of service.
RunsComeToAnEnd ==
  []<>(\/ env_status # "RUNNING"
       \/ \E m \in Stations : machines[m].status = "FAILED"
       \/ \E a \in Carts : OutOfService(a))
=============================================================================
