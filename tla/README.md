# A TLA+ model of SkyEngine

SkyEngine simulates digital factories: workpieces move between machines with
finite buffers on automated guided vehicles (AGVs), while schedulers and routers
decide what goes where.  Around the simulator stand an online server, an
experiment platform for algorithms, a platform for reinforcement learning, and
the backend of a web application.

This directory holds TLA+ modules for the parts whose correctness rests on the
order of many small steps, the TLC runs that check them on small instances, and
TLAPS proofs of what matters most for every instance.

## 1. The system

| Component | Source (below `src/`) | State | Operations | Module |
|---|---|---|---|---|
| Material flow and rescheduling | `sky_executor/grid_factory/factory/assign_env.py`, `rescheduling.py`, `Utils/structure.py` | operations and their service; where each workpiece is; buffers, queues, reservations, current and suspended operations of machines; tasks and phases of vehicles; three lists of transport tasks | `job_step`, `task_step`, `step`, `apply_reschedule` and the methods they call | `Factory`, `FactoryWorkpieces`, `Workpiece` |
| Step driver | `grid_factory_env.py` | timeline, `_in_step` | `step`: reschedule, inject, `job_step`, `task_step`, `step` | control of `Factory` |
| Exception injector | `Events/exception_injector.py` | breakdowns and temporary obstacles with what remains of them, the schedule and the place in it, `map_epoch` | before and after each step; by hand between steps; the test of connectivity | `Disruptions`; what a breakdown does to the work in `Factory` |
| Baseline policy | `experiment/algorithm_platform_plugins/dfjsp_t/{buffer_safety,research_baseline,pibt}.py` | none between steps | `decide`, `safe_to_admit`, `PIBTRouter.plan` | `BufferSafety`, `BaselineFactory`, `Pibt` |
| dfjsp_t plugin | `dfjsp_t/ppo.py` | the policy and its version, jobs trained, pending and in batches, checkpoints | `fit` with a sampling and an evaluating thread; resumption | `TrainingPipeline` |
| Execution lifecycle | `application/backend/algorithm_platform_routes.py`, `experiment/algorithm_platform/{executions,orchestrator}.py` | durable record; registered threads and cancel events | create, background execution, cancel, delete, recovery after a restart | `Executions` |
| Runtimes, replay, artifacts | `experiment/algorithm_platform/{runtimes,orchestrator,replay_orchestrator,artifacts,events}.py` | event logs, content-addressed objects, manifests | runs of the online driver, snapshots, branches, reproductions | `Runs` |
| Event monitor | `experiment/algorithm_platform/event_monitor.py` | index of append-only files, its generation | page by cursor or backwards, summary, refresh, eviction | `EventMonitor` |
| Simulation server: runs | `sim_server.py` | run generation, thread, stop and pause events, environment lock, status, pending insertions | create, play, pause, stop, reset, insert, run loop | `SimServer` |
| Simulation server: streams | `sim_server.py`, `sky_executor/session.py` | event history, subscribers and their queues; latest frame, metrics and summary; requests to insert jobs | publish, subscribe, inject, insert, survey | `EventStream`, `Snapshots`, `Insertions` |
| Backend | `application/backend/server.py`, `core/{Docker,Static}Proxy.py` | the proxy, its status and stream, containers; the batch, its task, queue and status | play, pause, reset, switch, disconnect, state stream; start, cancel, worker, readers | `FactoryControl`, `Batches` |
| RL platform | `experiment/rl_platform/parallel_rollout.py` | jobs, worker processes, pipes, events | collect by rounds with a barrier, close | `Rollout` |
| Packet factory | `executor/packet_factory/` | jobs, machines, AGVs, buffered commands | the thread's loop of slices, the random agent, pause, resume, failures, added jobs, restart | `PacketFactory` |
| Solvers, RACE-FMS, experiments, tuning, metrics, history | see `PROJECT.json` | numerical, validating or read-only | | inputs of `Factory`, or not modelled |

**How they interact.**  One thread calls `GridFactoryEnv.step` again and again.
Within a step everything is sequential, so the factory has no data races; its
difficulty is the long sequences of legal steps in which requests, offers,
assignments, pickups, breakdowns, preemptions and reschedules overlap, several
per workpiece and per machine, and in which one method relies on what another
checked many steps ago.  A policy sees an observation, and answers with
requests, assignments and moves; `BufferSafety` is the part of the baseline
policy that restricts requests so that finite buffers cannot lock up, `Pibt` the
part that moves vehicles.  The injector changes the floor under both.

The simulation server carries out one command at a time on its event loop, and
each run in a thread; they share flags without a lock, the session under one, and
a stop waits for the thread at most ten seconds, so that an old run may live
beside a new one.  Both threads publish frames, metrics, events and the phases of
inserted jobs, and the event loop subscribes clients meanwhile.  The backend
drives this server from another process: its routes share a proxy without a lock
and overlap at every `await`, and a batch is a task that the routes start and
cancel.

The algorithm platform runs each execution in a thread of its own; requests to
cancel or delete it come from the server's thread pool and share with it the
record on disk, one dictionary of threads and one event.  Executions share the
store of artifacts, and replays begin at what others have left there.  Event
files are written by runs and read by a monitor that keeps an index of them.
Training collects episodes from worker processes over pipes and events, in a
thread beside the one that trains.

**What makes the components correct.**

* *Material flow*: a workpiece is in one place; a buffer is never overfull; a
  task has one owner and is never lost; operations keep their order; an
  interrupted service is neither lost nor repeated; what is checked when a task
  is offered holds when it is assigned; a loaded workpiece stays aboard.
* *Floor*: obstacles, put down one at a time, never cut machines and vehicles off
  from each other; what is scheduled happens once, in its step; no distance of an
  older map is used; vehicles neither meet nor swap, and the first is served.
* *Admission*: the factory never blocks and every workpiece is delivered; the
  greedy test is as good as a search.
* *Executions*: an accepted cancellation is binding and ends; success means all
  runs succeeded; deletion leaves nothing running; every record settles; logs,
  objects and manifests agree whatever fails, and a replay finds its state.
* *Server*: an old run never steps a new session; a reset leaves nothing of the
  old run behind; every command returns; clients miss no event and see the newest
  frame; an inserted job is planned, announced and counted once.
* *Backend*: the status agrees with the engine; containers have an owner; one
  batch at a time, and its results, events and end are its own.
* *Training*: an episode counts once, in the round that collected it and in the
  training on it, whatever is late, discarded or resumed.
* *Packet factory*: every operation is in the one place its status says.

`PROJECT.json` lists the hazards behind these, each at its line, with the
properties that would catch it, or a note where none does.

## 2. Modules

| Module | What it is |
|---|---|
| `Factory` | the detailed state machine of the factory |
| `Workpiece` | what the factory promises: the life of a workpiece among machines with bounded buffers |
| `FactoryWorkpieces` | refinement mapping from `Factory` to `Workpiece` |
| `BufferSafety` | `safe_to_admit` as operators on claims and needs |
| `DrainOrder` | its loop step by step, from any claims; the order it is to find |
| `BaselineFactory` | `Factory` restricted by the baseline policy; composes `Factory` and `BufferSafety`; fairness |
| `Pibt` | one planning after another of `PIBTRouter.plan` |
| `Disruptions` | the exception injector, the vehicles on the floor, the encoder's cache |
| `PacketFactory` | the packet factory and its commands |
| `Executions` | record, thread, cancel and delete requests, restart |
| `Runs` | logs, objects and manifests of executions and replays |
| `EventMonitor` | the index of event files and its pages |
| `SimServer` | commands and run threads of the simulation server |
| `EventStream`, `Snapshots`, `Insertions` | its events, its frames and metrics, its inserted jobs |
| `FactoryControl`, `Batches` | the backend's routes over proxy and containers; its batches |
| `Rollout`, `TrainingPipeline` | collection of episodes; training on them |
| `FactoryProofs`, `FlowProofs`, `RefinementProofs`, `GridProofs`, `ExecutionsProofs`, `SimServerProofs`, `RequestProofs`, `FloorProofs` | theorems and proofs |
| `MCFactory`, `MCBaseline`, `MCBufferSafety`, `MCExecutions`, `MCFloors`, `MCRequests`, `MCReturns`, `MCServerStreams`, `MCSimServer`, `MCThreads` | instances for TLC |

A definition marked `mutant` in its comment is a plausible wrong version of the
one that follows it, and plays no part in any specification; substituting it
shows that the property named beside it in `PROJECT.json` can fail.

**Side by side.**  Components that share no variable are checked in one run: the
MC module extends them all, `part` says which of them moves in a behaviour, and
the others keep their initial state.  A property of one component reads only its
own variables; in a behaviour in which its part moves it sees exactly the
behaviours of its own specification, in the others an initial state.  Fairness is
that of the part that moves.  Where components do interact they are composed:
`BaselineFactory` of `Factory` and `BufferSafety`, `FactoryWorkpieces` of
`Factory` and `Workpiece`.

### Factory

Every variable is named after the field it models (`buffer_jobs`,
`transfers_to_assign`, `agv_task`, ...).  `pc` is the place inside one call of
`GridFactoryEnv.step`:

    reschedule -> inject -> request -> buffer -> assign -> machine -> settle -> handle

and the code's loops over tasks, machines and vehicles are one action per
element, in any order (`scan`, `running`, `advancing`, `settling` hold the
elements still to come).  Each action is the whole of one turn: `StartQueued` is
the pop from the queue, the sampling, one unit of service and, if that finishes
the operation, its release; `CompleteDropoff` is the end of a dwell, the second
look at the buffer and the delivery with its enqueueing.

* `RequestTransfer` is `job_step` for one request, with
  `_reserve_for_urgent_transfer` and its preemption.
* `KeepBuffered`, `AdmitWithoutTransport`, `OfferTask`, `AssignTransfer` are the
  two halves of `task_step`; `Enqueue` is the common end of a delivery and of an
  admission without transport.
* `RetryRelease`, `ContinueOperation`, `HoldForUrgent`, `StartQueued`,
  `ResumeSuspended`, `Deactivate` are the branches of `machine_process`.
* `SettleWaits`, `StartPickup`, `StartDropoff`, `PickupAtOnce`, `DropoffAtOnce`
  are one iteration of the loop of `_settle_arrival`; `Move`, `KeepHandling`,
  `CompletePickup`, `CompleteDropoff` belong to `step` and `_advance_handling`.
* `ApplyReschedule` is the transaction `apply_reschedule`, with all its checks.
* `BreakMachine`, `BreakAgv`, `RepairMachine`, `RepairAgv` are the injector.

The schedulers' choices are unconstrained: any eligible machine, any idle
healthy vehicle, any legal joint move (one vehicle per cell and no swap, the
collision rule `soft` of pogema, which is external), any valid reschedule.
Hence every property of `Factory` holds whichever solver drives it.

*Abstracted.*  Time: there is no step counter, so release times, due dates,
`ready_time` and durations of failures are gone; all jobs are present, requests
are ready when made and repairs come when they like.  Processing times are
whole numbers of steps.  Temporary obstacles are in `Disruptions`; observations,
events and metrics are left out.  Invalid actions, for which the code raises
`ValueError`, are not inputs.

### Workpiece and FactoryWorkpieces

`Workpiece` knows only where each workpiece is kept (`stored`, `carried`,
`served`, `held`, `suspended`, `shipped`), at which machine and how many of its
operations are finished.  `FactoryWorkpieces` computes these three from eight
variables of `Factory` and states `ImplementsWorkpiece == W!Spec`.

### BufferSafety, BaselineFactory, Pibt

`Rest` is the while loop of `safe_to_admit` as a recursive function: of the
jobs that hold claims (`Admitted`), one of those that can find a slot for each of
their unfinished operations (`Possible`) is drained and gives its claims back, until
none is left that can; the claims `Drains` if nothing remains.  `DrainOrder` takes
the same loop one job a step, and says with `CanAllDrain` what it decides: whether
there is an order at all, for the code tries a single one.  `Claims` is `buffer_claims`
read from the state of the factory.  `RequestAdmitted` is the request that
`decide` may make: its readiness test and `SafeToAdmit`.  Among several
admissible requests the memetic search ranks; here any is taken.

In `Pibt` the recursion of `inherit` is an explicit stack: `running` is the
vehicle whose loop goes on, `caller[a]` the one that asked `a` to make way.  The
order in which vehicles are asked and the order of candidates are any.
`RoadsReturn` says that every road is part of a circuit: whatever set of cells one
leaves by a road, there is a way back into it.

### Disruptions

`Component` is the region of a cell by free cells.  The code finds it by a
breadth-first search; here it is what the search ends with, the cells that no closed
set with the cell leaves out.  `PreservesConnectivity` compares the numbers of regions
before and after.  A schedule is sorted by step, events of one step as they were.
`EnterStep`, `TakeScheduled`, `HappenByChance`, `Move` and
`Tick` are a step of the session; `InjectManual`, `ClearManual` and `Reset` come
between steps.  The encoder's cache is an epoch and the grids distances were
measured on.  What a broken machine or vehicle does to the work is `Factory`'s.

### PacketFactory

The thread advances machines and AGVs by slices of time as the random agent
decides; commands are buffered by requests and carried out after a slice.  The
road network is a table of travel times in which every point is reachable (the
code has an empty path for one that is not, which is left out), and an AGV object
that a request has kept from before a restart is not modelled.

### Executions and Runs

`Executions` is one execution.  `creator`, `worker` and `caller[c]` are the
control points of `create_execution`, `_execute_in_background` and each cancel
request; a transition of the record is atomic, since the repository writes it
under its lock and replaces the file at once, but the statuses read before it are
not.  `RunRaises` stands for any error inside the orchestrator.  `Restart` ends
every thread and applies `recover_interrupted`.  `delete` is one action because it
holds the lock of the thread dictionary throughout.

`Runs` follows several executions and replays through driver, orchestrator and
store.  An object is named by its content; one that several executions may write
is written in two steps, with the process ending in between, one that only one can
write in one.  Statuses are collapsed to ended, CANCELLED and FAILED, of which
the record is `Executions`' matter.  Of the drivers only the online one takes
snapshots and is modelled; comparison reports and the diff of traces are left out.

### EventMonitor

A line is its level and place.  A request lists the files first and refreshes the
index later, under a lock; in between files grow, go away, or are replaced by
their archived copies, and the index may be evicted.  New lines come in any order,
since they are sorted by a clock that may have been set back.

### SimServer, EventStream, Snapshots, Insertions

The handlers of the server are coroutines that never await, so commands exclude
each other: `command` is the one in progress and `place` how far it is.  A `play` that
goes on, `pause` and an insertion are one action each; a `play` that starts a thread
puts it into `_thread` (`Play`) and reads that again to start it (`StartThread`,
`StartRaises`); `stop`, `reset` and `create` begin with `_stop_internal` (`BeginStop`,
`LookAtThread`, `Join`, `Halt`), which reads `_thread` twice as well, hence
`JoinRaises`.  `JoinTimesOut` is possible where a thread
can really spend ten seconds: in a call of a solver, behind the lock of such a
thread, or paused.  `ResetSession` happens wholly under the environment lock;
`NewSession`, `StartSchedule` and `ClearManager` are the three parts of `create`
of which only the first does.  `ReplaceFails` is a configuration that is refused
or a service that does not answer.

`pc[t]` is the place of a run thread in `_run_loop`, and each look at the flags,
each assignment to them and each call of a service is a step of its own.
`session_gen` and `stale` remember when the session was last replaced and which
insertions were accepted before; no action reads them.  A session has been
created before the model begins.  `step` stops counting at `MaxSteps`.  A session is
`done` when all jobs are, which ends the run (`Publish`), or by a limit of its own,
which the run finds out when its next step raises.

The three modules beside it look at one run in more detail, and at nothing else
of the server: `EventStream` at the history and the bounded queues of readers,
which is brought up to date without the lock that subscribing holds; `Snapshots`
at frames and metrics, built under one lock and broadcast under another;
`Insertions` at the requests to insert jobs, whose phases both threads bring up
to date, only one of them under the lock.  There the actors are at a point of
their code (`at`) in a task (`task`) about a request (`about`), with the phases
they still have to set (`ladder`).

### FactoryControl and Batches

Everything runs on one event loop, so an action goes from one `await` to the next.
`call[h]` is a route under way: its operation, its point, the proxy it works on.
The containers are one compose project, the engine is the simulation server seen
from outside.  In `Batches`, a batch is a task; cancelling one raises in its
present await, which `_run_batch_episode` swallows.  It may fail of itself before the
first episode (`RaiseAtStart`: settings that are not a dictionary), or in any of them
(`RaiseInEpisode`: an experiment that is none, found only after `idx` is set and
`batch_progress` sent).  `mixed` and `doubtful` remember that routes have met in a
way for which the code has no answer; what is claimed then is in the properties'
comments.

A `docker compose down` may fail with anything left up.  `cleanup` lets that end the
route; `initialize` passes it over (`InitDown`), and `up -d` then leaves the engine and
its simulation as they are.  A proxy that is IDLE over a simulation that runs is
the result, after a switch to static and back for instance.  So the state is in doubt
from then on.  A call clears the doubt when it returns, if it is `sure` of what it
leaves: no other call has met it, and, for a switch to docker, its own `down` has worked.
A `play` needs no such thing, since `/sim/create` stops what it finds.

### Rollout and TrainingPipeline

`Rollout` has the parent with its pipes and two events, and each worker as a
process of its own that may die at any point.  `TrainingPipeline` has the main,
the sampling and the evaluating thread, and runs that end by an exception, a
cancellation or the death of the process and are resumed from a checkpoint.
Networks are represented by the number of updates and by what each job has
contributed (`learned`).

## 3. Runs

| Run | Instance | What it shows |
|---|---|---|
| `flow` | 2 jobs of 2 operations in crossing order, 2 machines with one slot, 2 AGVs on a 2 x 3 grid, no dwell | `TypeOK`; `TransfersKept`: `SingleOwner`, `NoLostTransfer`, `Precedence` |
| `urgent` | an ordinary and an urgent job (1 and 2 operations), 1 machine with one slot, 1 AGV, service of 1 or 2 steps, dwells 1 and 2, one breakdown, one reschedule | `BufferBound`; `PreemptionIsFair`: `ServiceConserved`, `ReservationsLive`; `NoLostWakeup`; `WorkpieceConservation`; `ImplementsWorkpiece` |
| `replan` | 2 jobs, 2 machines to choose from, 2 AGVs, dwells 1 and 2, one reschedule | `ReschedulesCleanly`: `QueuedWorkIsThere`, `OfferedIsReady`, `PickupIsFresh`; `LoadedStaysAboard` |
| `baseline` | `flow` on a 2 x 2 grid under the baseline policy; crossing jobs, one urgent, one AGV, a dwell and a breakdown, fair; the packet factory with its random agent | `AdmissionSuffices`: `NothingBlocks`, `StaysSafe`; `AllJobsEnd` |
| `drain_order` | all claims of 3 jobs that fit 2 machines with 1 and 2 slots, all needs; the lives of 3 workpieces there; 5 vehicles on 6 cells, any of them frozen, one cell a machine's | `DrainOrderIsExact`: `GreedyFindsIt`, `SomeMayAdvance`; `ServesInTurn`; `PlanIsSafe`; `FirstGetsItsWay` |
| `shop_floors` | 5 cells, 3 configured events and one by hand; 2 AGVs, 2 machines, 3 commands of the packet factory | `PartsTypeOK`; `WaysStayOpen`; `EventsTakeEffect`: `ScheduleIsKept`, `DistancesAreCurrent`; `OperationsAreKept` |
| `execution_races` | 2 cancel requests, 2 runs, 1 restart; 2 batches of 2 episodes with a queue of 2 and 2 readers; 2 worker processes, 2 rounds, 1 failure; training on 3 episodes in 2 runs; all fair | `TypeOK`, `PartsTypeOK`; `AcceptedCancelIsBinding`, `SuccessIsComplete`, `ArchivedIsQuiet`, `NoRunAfterCancel`; `BatchIsOwn`; `EpisodesCountOnce`: `RoundsAreExact`, `TrainingIsExact`; `ExecutionsEnd`, `BackgroundEnds` |
| `streams` | queues of 2 for 3 events; 2 viewers of 3 frames; 2 inserted jobs, one clashing; 2 overlapping routes over one proxy at a time; 2 event files of 2 lines, 2 generations of the index | `PartsTypeOK`; `ClientsKeepUp`: `EventsArrive`, `ViewsAreCurrent`; `RequestsAreKept`; `ControlAgrees`; `PagesAreTrue` |
| `run_threads` | 2 threads, 1 insertion, 1 step, 2 stops or resets; a plan of 2 runs and 2 replays with one fault | `TypeOK`, `RunsTypeOK`; `FreshStepsOnly`, `SessionStartsAfresh`; `RecordsAreTrue`: `SnapshotsAreThere`, `ManifestsAgree`, `ReplaysFindTheirState` |
| `commands_return` | 2 threads, a replay of 1 step, 2 stops or creates; one inserted job; fair | `RequestsEnd`: `CommandsEnd`, `InsertionsEnd` |
| `cancel_stranded` | 2 cancel requests, 2 runs, no restart, fair | **violated**: `CancelEnds` |
| `status_stale` | 2 threads, stop | **violated**: `StatusIsCurrent` |

**Bounds.**  `MaxOps`, `MaxFailures`, `MaxReschedules` bound the operations of a
job and the disturbances of a behaviour; `ProcTimes` and the dwells bound the
counters.  Two jobs and a machine with a single slot are enough for every
conflict the code resolves: two workpieces that want one slot, one vehicle
leaving as another arrives, a queue of two to be ordered, an operation suspended
by another.  One-slot buffers are the smallest the code accepts and the hardest.
A dwell of 2 separates its beginning, middle and end; 0 takes the code's
immediate path.  One breakdown and one reschedule may fall anywhere in a
behaviour.  Crossing routes make the circular wait reachable.  What a bound hides
in `Factory`, the proofs show to be harmless: they have none of these.

Five cells are the fewest on which two obstacles, each harmless by itself, can
cut off a third cell; five vehicles on six cells leave PIBT one free cell, the
tightest it can be asked to solve.  Three configured events and one by hand are
an event before its step, one in it, and one on a cell another has taken.

For executions one request races with the worker and a second with the first; two
runs give a place between runs; one restart may fall anywhere.  A second batch
meets what the first left; a queue of two overflows.  Two worker processes are one
that finishes and one that does not.  `MaxGenerations` allows two stops: one may
give up a thread, and the second meets that thread, its successor and what the
first left behind.  In `commands_return` a replay takes the place of insertions
into `SimServer`, which do not block anybody longer than a step.  Queues of two
for three events lose one.  Two routes overlap in every pair of operations, and a
third would meet the same shared proxy, status and containers; no more than one
proxy is in use at a time here, while the proof has any number of both.  Two generations of
an index are what a cursor can be behind.

Threads, calls, event files, vehicles, jobs and viewers of which the module does
not tell one from another are permuted by the symmetry of `run_threads`, `streams`
and `drain_order`; no run with a liveness property uses symmetry.

`MCBufferSafety`, `MCExecutions`, `MCRequests`, `MCServerStreams` and `MCReturns`
turn the deadlock check off: shipping everything, draining everything, ending an
execution, having answered the last request are ends.  In `Factory`,
`Disruptions`, `PacketFactory` and `SimServer` a loop goes on for ever or the next
command is always possible, so there the check is on.

**Fairness.**  `Factory` has none: it is a safety specification.
`BaselineFairSpec` assumes that the driver calls `step` again and a call runs to
its end (weak fairness of `Work`), that a repair comes (durations are finite),
and, with strong fairness, that a request which is admissible again and again on
a machine that is up is eventually made and a task on offer is eventually given
to an idle vehicle: `decide` and `_assign` look at all of them in every step,
while the model lets a step pass before they do.  `Executions` assumes that
threads go on and each run ends, which a solver's time limit provides; errors,
deletions and restarts need not occur.  `SimServer` assumes that the event loop
and the threads go on, that a thread gets the lock (the one that releases it
sleeps half a second before it asks again) and that `Event.wait` returns once the
event has been set.  No command has to come.

Of batches, the containers, the worker, readers that have connected and a cancel
under way go on; nothing has to be started, cancelled or read.  In `Rollout` the
parent and living worker processes go on, and a failure need not come.  Of training,
each of its three threads goes on as long as its run lives; no run has to be
resumed.  The thread of the packet factory goes on, and so do steps and the loop of
the server for `Insertions`.

**The violated runs.**  `cancel_stranded`: the `except` clause of
`_execute_in_background` reads the status, finds RUNNING and calls `failed`.  If a
cancel request is accepted in between, the record is CANCEL_REQUESTED, from which
FAILED is not allowed: `failed` raises out of the clause, the thread ends, and
nobody is left to write CANCELLED.  `docs/QUICKSTART.md:112` promises that status.
The record stays so, and cannot be deleted, until the process restarts.  A thread
that cannot be started after a cancellation was accepted has the same effect.
`CancelEndsCleanly`, a part of `ExecutionsEnd`, shows that these are the only two
ways.

`status_stale`: the `except` clause of `_run_loop` sets the status without a
look at the generation.  A run given up in a call that fails later overwrites the
status of its successor, which a late subscriber then gets with the latest frame,
against the docstring at `sim_server.py:69`.

**Known not to hold**, without a run of its own:

* `SessionStartsAfresh` with `create` among the commands.  `create` installs the
  new session, resets it over HTTP (`sim_server.py:775`) and then clears the
  pending insertions.  If the service does not answer, the new session stays with
  the old queue, and the next run installs in it an insertion accepted for the old
  one.  Without a failure the same happens when a thread given up by the stop
  waits for the lock that `create` releases too early.  `run_threads` shows that
  `reset`, which does all of it under the lock, is right.
* That a set `running` is going to be reset, as the comment at `sim_server.py:1021`
  requires.  The ending run clears `running` and then `_thread`; a `play` in
  between that reads `_thread` again before it starts the thread calls `start` on
  None, with `running` set.  Or it starts a run of the same generation, and a `stop`
  that has just found `_thread` set calls `join` on None.  It fails after it has raised the
  generation, so the new run leaves the flags alone when it ends, and `running`
  stays set with no thread until another stop.
* That status and containers agree after a `docker compose down` has failed: a switch
  to docker passes the failure over (`DockerProxy.py:316`) and reports IDLE over the
  simulation that runs on, until the next play, or the next such switch that succeeds.
* That a log has one end: `session.close()` may raise after RUN_FINISHED was
  written (`runtimes.py:602`), and the orchestrator then writes another
  (`orchestrator.py:493`); such a log cannot be replayed.  When the driver raises
  after snapshots, its log names snapshots that the manifest of the run does not
  list; a branch from one can be reproduced only since the branch's own manifest
  lists where it came from.
* That a material station stays reachable: obstacles are tested against machines
  and vehicles, so a station may be built in until they go.
* `FirstGetsItsWay` without `RoadsReturn`: a vehicle at a dead end has nowhere to
  make way.
* That an AGV of the packet factory serves again after a resume.  While paused and
  idle it still takes an operation from the warehouse; the resume restores READY and
  where it was, and an AGV that is READY does not unload.  A resume of an AGV that
  was not paused strands what it carries in the same way, and two pauses need two
  resumes.

Observed while modelling, outside any property: an event injected by hand reaches
subscribers twice (`sim_server.py:672`, and through the infos of the next step at
`:951`); the injector announces `obstacle_clear`, while `recovery.py:118` and
`state.py:89` wait for `temporary_obstacle_cleared`.

## 4. Proofs

`tlapm` checks every theorem from nothing but the named assumptions on the
constants (`FactoryConstants`, `FactoryNone`, `FactoryLayout`, `FactoryFinite`,
`WorkpieceConstants`, `WorkpieceFinite`, `RoadConstants`, `ExecutionConstants`,
`RunConstants`, `BatchConstants`, `InsertionConstants`, `ControlConstants`,
`ServerConstants`, `ServerNone`, `StreamConstants`, `SnapshotConstants`,
`PacketConstants`, `MonitorConstants`, `RolloutConstants`, `PipelineConstants`,
`PipelineNone`, `DistanceIsNatural`, `DisruptionConstants`, `ScheduleConstants`),
which TLC evaluates for each instance.
`FactoryLayout` is what the dataset generator and the documents require of a layout
(machines on cells of their own, apart from the stations; vehicles starting apart).

**FactoryProofs.**  Types alone are not inductive: `Enqueue` files an operation
under its `assigned_machine`, so that must be known for every open task, although
a reschedule resets it.  The inductive invariant is
`TypeInv == TypeOK /\ Committed /\ VehiclePhase`: the machine of every buffered,
offered or carried operation is known and `task_step` only looks at buffered
tasks; and a vehicle's phase agrees with its task, its load and, while it drops,
its position.  One lemma per action shows that it is kept (`TypeNext`).  On it
rest

* `TypeCorrect`: `TypeOK`;
* `BufferNeverOverflows`: `BufferBound`.  The four places where a workpiece
  enters a buffer each have a lemma; the dwell is the interesting one, since its
  check is repeated at the end;
* `LoadedWorkpieceStaysAboard`: the action property `LoadedStaysAboard`; it needs
  the vehicle's position during the dwell, hence `VehiclePhase`;
* `WorkIsNeverForgotten`: `NoLostWakeup`.

**FlowProofs.**  That no transfer is lost, that a workpiece is in one place and
that a reschedule leaves nothing stale are inductive only together, for each action
relies on what the others keep: a pickup finds its workpiece because the vehicle is
sent where it is, the vehicle is sent there because what is on offer may be
moved, and it may still be moved since no machine can have begun it meanwhile.
`FlowInv` is their conjunction with

* `InOrder`: of the operations of a job the finished come first, then the one in
  hand, then those not begun;
* `OpenIsAhead`: a task is open only for the next operation of its job, or to
  bring it out when there is none;
* `Owners`: which list or vehicle has a task, with what status, and that a vehicle
  and a list never share one;
* `Servicing`: what a machine serves, holds or suspends is in its buffer and has
  what its status says of service left.

One lemma per action again.  From it follow `TransfersAreKept`,
`WorkpiecesAreInOnePlace` and `ReschedulesAreClean`.  `PreemptionKeepsItsWord`
adds `Progress`, which says of each status of an operation how much of its service
has been given.

**RefinementProofs.**  `FactoryImplementsWorkpiece` is the refinement: under the
mapping of `FactoryWorkpieces` the initial states are initial states of
`Workpiece`, and every step is one of its steps or leaves the three variables as
they are.  The mapping reads an operation's machine from `assigned_machine`, which
a reschedule may change, and counts what a job has finished; `RefinementInv` adds
what that needs (`Assigned`, `Over`) to `FlowInv` and `BufferBound`.  There is one
lemma for each kind of step: arrivals, the beginning and end of a service, its
suspension, resumption and hold, and the many that move no workpiece.

`AdmissionTestIsExact` is about the test of the baseline.  Call a set of jobs stuck if
none of them finds a slot for each operation left, even with all others gone.
The union of all stuck sets is stuck (`Core`), a job outside it can always be drained,
and one inside never; so whatever job the loop takes next, what remains in the end
is `Core` (`RestIsCore`), and the test succeeds exactly if there is any order.

`AdmissionIsEnough` says that what the test found lasts.  No step but an admission
makes a claim or commits an operation, and a state with fewer claims and fewer needs
is no harder to drain (`FewerDrain`).  A claim keeps its slot (`SlotForClaim`): since
claims are within capacity, a carried workpiece always has room where it goes, so no
vehicle waits at a full buffer and no finished workpiece is kept on its machine.
`BaselineIsFactory` gives the baseline every theorem of the factory.

**GridProofs.**  `MachinesServeInTurn` proves of the abstract specification what
it is for; with the refinement it holds of the factory.

Of the plans of PIBT: the stack of callers is described by sets, not by induction:
who is running, who has asked whom, and which cells are reserved for whom.
`PlansAreSafe` follows from the reservations being exclusive.  `FirstIsServed` is
the theorem of PIBT: `FirstInv` says that every vehicle asked so far was asked
because it stands where its caller wants to go, that a vehicle that gave up found
all its neighbours reserved, and that the cells of those are among the cells of
the asked.  If the first gave up, these cells would be a set without a road
back, against `RoadsReturn`.

**ExecutionsProofs.**  `IInv` adds to the types what each control point may rely
on: `Life` (a record in creation has not been touched, a living thread is
registered), `Told` (a request past the repository has seen or made the record
cancelled), `Heard` (after the reply the event is set, or there is no thread and
will be none) and `Complete` (what the results are when success is about to be
written).  From it follow `TypeCorrect`, `CancelIsBinding`,
`SuccessMeansComplete`, `CancelStopsRuns` and `DeletionIsQuiet`, for any number
of requests, runs and restarts.

`RecordsCanBeTrusted`: `RecordInv` says of each execution what it can rely on
(`Sound`: in a run that has not failed it keeps what the log names; a snapshot that
is about to be named is in the store; the runs before have their manifests), and of
each manifest what a reader can (`Tells`: the run is left for good, so that what the
manifest tells stays true; `Covers`: that of an execution lists what the execution
began with).  Executions touch the store and the manifests only by adding, so one
lemma, `OthersStay`, lets each action speak of its own execution alone.
`RunsAreTyped` comes with it.

**SimServerProofs.**  `TypeOK` says besides the types that `env_lock` names the
thread inside the block; `IInv == TypeOK /\ FreshStepsOnly` is then inductive: a
session is replaced only while no thread is in the block, and a thread steps only
after it has found its generation current inside it.  `TypeCorrect` and
`StepsAreFresh` follow for any number of threads.  `ResetStartsAfresh` holds where
`create` is not used; its invariant `Swept` follows
an insertion from the queue through a thread's hand into the session.

`ClientsAreServed` is about what the server sends.  For the events
(`EventsReachReaders`) `StreamInv` adds up, for each reader and event, what has come
or waits in the queue, what a publisher may still give (`Pending`) and what the replay
will (`ToReplay`): never more than one, or two for an event that was under way when
the reader joined (`NotTooOften`), and never less than one unless the queue was full
(`StillToCome`).  `StreamInOrder` compares what has come with what is to come, and
`GetsIn` bounds the queue by the events and those counted twice, so that `put_nowait`
only raises when it must.  Streams are sequences; that a count grows by one at an append
and shrinks at a drop is proved with bijections and not by induction.  For frames and
metrics (`ScreensKeepUp`) `SnapInv` says that, as long as frames do not overtake each
other, at most one builder is at work, on the newest state (`FramesInOrder`); that the
metrics have a single writer (`MetricsInOrder`); and what a viewer has read but not
yet put on its screen (`ReadIsCurrent`).

`PagesTellTheTruth` is about the files of events.  `MonitorInv` is inductive on its
own: every entry of an index is a line some file has been read past, no two are the
same line, and unless a file went away in the middle of a refresh every line read past
has an entry (`IndexInv`); and what a reader has seen is a stretch of the entries of
its level (`PagesInv`).  Stretches are described by ranks: the i-th place of a level is
the one with i places up to it (`AscendingUnique`), so that a page, as the first or the
last places of a stretch, is itself a stretch (`PageOnIs`, `PageBeforeIs`), two that
meet are one (`OfMeets`), and none changes as the index grows (`OfAgrees`).

`RequestsKept`: the two threads that survey the inserted jobs each work through a
copy of the phases.  `UncrossedHold` says of a request at which they have not met
that either nobody works on it, and it has been told and counted as its phase
says, or exactly one does, with the rest of its way on the `ladder`.  `PlansHold`
keeps the session and the scheduling service agreeing on what is in hand,
`QueueIsRight` keeps the queue free of repetition and in order, and
`SurveysAreRight` says what a survey has still to look at.

`ControlIsInStep`: the routes share the proxy and take no lock, so what holds at
an await is what no other route can have changed.  `AloneHolds` says what a call that
has met no other finds at each of its points: its proxy is the current one, and the
containers are as its last request left them.  `ProxyHolds` is what no overlap can
break: the current proxy has an address.  A switch cannot vouch for the simulation when
its own `down` failed; it is then no longer `sure`, and its end clears no doubt
(`UnsureCall`, `DownFailsKeeps`).  `Undoubted` collects the rest, which holds
while nothing is in doubt: the call under way is the only one, what it was answered
is still so, the type is that of the proxy unless a switch is waiting for the
containers, and a running factory is followed.  One lemma for each way in which a
call moves (it begins, takes a step, fails, ends) serves all its routes.

`StreamsAreTyped` follows from the invariants above but for two parts.  `InsertTyped`
adds to `InsertInv` what only the types say (`MoreTypes`): an envelope is in the hands of
those who publish and of nobody else, and what an actor is about is no later than the
next request.  The types of the other parts are conjuncts of their invariants.

**RequestProofs.**  `BatchesAreOwn`: `BatchInv` adds to the property that whoever
waits for a task waits for the current one and that only a cancel that waits
interrupts a task.  There is one result for each episode the batch has gone through,
but for the one under way or the one whose experiment could not be read (`Unfinished`);
that an error is the last thing a batch does (`ErrorIsLast`) keeps the two cases apart.  That the end of a batch is its last event, and the only one of
its kind, is a fact about the queue at each of its three changes: filled,
overflowing, read.

`EpisodesAreCountedOnce` joins two invariants.  That of a round, `RolloutInv`, is
about the two ends of a pipe.  `Protocol` says for each worker that has a job at which
of four stations it is (`Ordered`, `Sampling`, `Replied`, `Fallen`) with the very
messages its pipe may hold there, and for the others that their pipes are empty or
hold the error of a worker that is gone; so what the parent reads next is the progress
or the answer of the job it has in mind (`Reading`), and what a step of one worker
does is nothing to the others (`OthersStay`).  `Accounts` says of each job that was
given out that it is collected, discarded or with the one worker that has it, that the
jobs complete before the cutoff are never dropped, and that without a barrier nobody
is idle while jobs are left.  A pass serves all workers at once: the new jobs go to the
free workers by their places, and `FirstOnes` shows that these are the numbers up to
how many are served.  The invariant of the training, `PipelineInv`, says that an episode
is learned, in the batch in hand, in the next one or pending, and in one of them alone
(`JobsInv`), that what is learned was learned once (`LearnInv`), what each stage of `fit`
may rely on (`StageInv`), and that whatever is saved or waits to be validated is a
snapshot of the very episodes it names (`EvalInv`).

`BackgroundIsTyped` needs one count: the results of a batch are at most the episodes all
batches have behind them.  They are counted as a set of pairs, `EpisodesBehind`, which
gains one pair with each result and fits into batches times episodes.

**FloorProofs.**  `OperationsKept`: `PacketInv` says of each status where an operation
is (`InPlace`): in the queue of one machine, set down at one, aboard one AGV or fetched
by one, and nowhere else.  That needs three things the property does not mention: what
an AGV is about (`Charged`: nothing, unloading what is aboard, or loading first), what
it has been told (`Told`: what nobody has begun and nobody else was told, for a machine
that can process it), and that no queue has an operation twice (`NoneTwice`).  A slice
of the machines is the hard step: `After` is a recursive function, and that a slice
serves the first operations of a queue and those alone follows from its sums being
monotone (`SliceIs`).  `InOrder` sorts the decisions by rank; that it lists each once is
a matter of counting (`InOrderIs`).  The steps of an AGV share `MovesKeepWork`: one
operation moves on, every other stays where it is.

`WaysAreKeptOpen`: the injector counts regions, the property speaks of ways.  Each old
region with a free cell left keeps one that a new region begins with, and different old
regions keep different ones; so the count can only stay equal if no region is split
(`CellKeepsWays`), and whoever could meet still can.  Vehicles move within their
region, and clearing an obstacle only joins regions.

`DisruptionsTakeEffect`: that the next scheduled event is neither lost nor taken twice
needs the schedule in order, with what was taken before the cursor and what is to come
behind it.  A manual event is sorted in behind the cursor, since its step is not in the
past.  `CacheInv` keeps the encoder's distances apart from the floor of the day: they
are of the epoch they name, and whatever changes the obstacles moves the epoch.

`FloorsAreTyped`: the type of the packet factory says that no AGV goes further than its
destination.  That is not obvious, since a fault records where an AGV is and the
recovery puts it back there, with others in between.  `OnTheWay` keeps what has been gone
and what is still ahead together: what an event recorded on the way is where the AGV
stands until all that was recorded since is recovered too.  `JobsBounded` counts the jobs
present, buffered and in events that are due together, since a job goes from the buffer
through an event to the list.  Both are parts of `TypedInv`, as is `PacketInv`.

Induction over numbers is used in one form, `LeastNumber`: a set of numbers that is not
empty has a least one.  It is a fact of first order and follows from the theorems about
well-founded relations, where the schema of induction itself cannot be used.

**Only model-checked.**  All liveness, since it needs ENABLED: `AllJobsEnd`,
`ExecutionsEnd`, `BackgroundEnds`, `RequestsEnd`.  Every other property the passing runs
check is the statement of a theorem.

## 5. What is not modelled, and the plan

The modules map about a ninth of the repository's lines, nearly all of those in
which steps of several actors, or long sequences of steps, must fit together.  The
rest computes, validates, formats or is copied from elsewhere:

* neural networks, search heuristics, schedulers' rankings and statistics: their
  decisions are inputs here, and every property holds whatever they decide;
* the vendored path-finding benchmarks and datasets below `src/dataset`, the
  frontend and the scripts;
* compilation and validation of experiments, the registry, run history, analysis
  and metrics, which only read or reject;
* the batch, iterative and trainable drivers, tuning and the comparison of
  traces, whose runs follow the life cycle `Executions` and `Runs` model for the
  online driver;
* a call that raises inside a step of the grid factory
  (`grid_factory_env.py:201`): valid inputs raise none, and what an invalid one
  leaves behind depends on data left out here.

Next: a model of the step that raises, once the code says what should then hold.
