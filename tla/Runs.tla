-------------------------------- MODULE Runs --------------------------------
(***************************************************************************)
(* What an execution of the algorithm platform leaves behind: the event    *)
(* log of each of its runs, objects in the content-addressed store, and    *)
(* manifests that list them (orchestrator.py, artifacts.py, events.py, the *)
(* online driver of runtimes.py); and the replays that start from them,    *)
(* branches and reproductions (replay_orchestrator.py).  Executions run    *)
(* side by side in threads of one process, which may end at any time;      *)
(* every call of a plugin may raise.                                       *)
(*                                                                         *)
(* An object is named by its content.  Executions of one plan write the    *)
(* same plan, and those that took the same actions in the same scenario    *)
(* the same snapshot; an object that only one execution can write is put   *)
(* in one step.                                                            *)
(***************************************************************************)
EXTENDS Integers, Sequences, FiniteSets

CONSTANTS
  Plans, Replays,      \* ids of executions of the plan, and of replays
  PlannedRuns,         \* runs of the plan, each in a scenario of its own
  Algorithms,          \* the algorithms a branch may go on with
  Planned,             \* the algorithm of the plan
  MaxRunSteps,            \* bound on the steps of a run
  SnapshotInterval,    \* 25 in the code
  MaxFaults            \* bound on the faults

ASSUME RunConstants ==
  /\ PlannedRuns \in Nat \ {0} /\ MaxRunSteps \in Nat /\ MaxFaults \in Nat
  /\ SnapshotInterval \in Nat \ {0}
  /\ Planned \in Algorithms /\ Plans \cap Replays = {}

VARIABLES
  attempt,             \* attempt[x]: the thread of execution x and its variables
  logs,                \* logs[x]: events.jsonl of the runs it began
  store,               \* the objects, each with how much of it is there
  manifests,
  cancelled,           \* executions whose cancel_event is set
  faults               \* the calls that raised, and the ends of the process

runsVars == <<attempt, logs, store, manifests, cancelled, faults>>

Attempts == Plans \cup Replays
NoState == <<"no state">>
RunStatuses == {"ended", "CANCELLED", "FAILED"}  \* ended: of itself, whatever came out

\* at: the control point; anchor: the state a replay begins with; history: the
\* actions so far; steps, saved: step_count, last_snapshot_step; kept: the
\* snapshots of the result; file: the temporary file.
NotBegun == [at |-> "idle", scenario |-> 1, algorithm |-> Planned,
             anchor |-> NoState, history |-> <<>>, steps |-> 0, saved |-> -1,
             kept |-> {}, outcome |-> "none", file |-> "none"]

\* What a log tells: ENVIRONMENT_RESET, a decision whose events are not complete,
\* the snapshots that are named, the RUN_FINISHED events.
EmptyLog == [reset |-> FALSE, asked |-> FALSE, snapshots |-> {}, finished |-> <<>>]

\* Where the driver is, inside the try of _execute_run.
InDriver == {"begin", "snapshot", "name", "loop", "decide", "finalize", "close"}
Outside == {"next", "plan", "log", "manifest", "report", "publish"}
Over == {"idle", "done", "over", "lost"}

IsAt(x, place) == attempt[x].at = place
Set(x, a) == attempt' = [attempt EXCEPT ![x] = a]
\* A call raises, or the process ends.
Fault == faults < MaxFaults /\ faults' = faults + 1
MoveTo(x, place) == Set(x, [attempt[x] EXCEPT !.at = place])

\* The thread ends: what is left of it is what the artifacts tell.
Ended(x, place) == [NotBegun EXCEPT !.at = place, !.scenario = attempt[x].scenario,
                      !.anchor = attempt[x].anchor, !.algorithm = attempt[x].algorithm]
EndAttempt(x, place) == Set(x, Ended(x, place))

\* The log of the present run, and an entry of it.
Log(x) == logs[x][Len(logs[x])]
Emit(x, log) == logs' = [logs EXCEPT ![x][Len(logs[x])] = log]

RunsInit ==
  /\ attempt = [x \in Attempts |-> NotBegun]
  /\ logs = [x \in Attempts |-> <<>>]
  /\ store = <<>> /\ manifests = {} /\ cancelled = {} /\ faults = 0

-----------------------------------------------------------------------------
(* put_bytes: a temporary file, written, and then put in its place.        *)

\* The objects have their names, with so much of them.
Put(objects, how) ==
  store' = [o \in objects \cup DOMAIN store |-> IF o \in objects THEN how ELSE store[o]]

StateObject(scenario, history) == <<"snapshot", scenario, history>>
ThePlan == <<"plan">>
Own(x, what) == <<what, x, Len(logs[x])>>

\* What x puts, where another may put the same; and where it goes on.
Content(x) == IF IsAt(x, "plan") THEN ThePlan
              ELSE StateObject(attempt[x].scenario, attempt[x].history)
AfterPut(x) == IF IsAt(x, "plan") THEN "next" ELSE "name"

OpenTemporary(x) ==
  /\ attempt[x].at \in {"plan", "snapshot"} /\ attempt[x].file = "none"
  /\ Content(x) \notin DOMAIN store
  /\ Set(x, [attempt[x] EXCEPT !.file = "part"])
  /\ UNCHANGED <<logs, store, manifests, cancelled, faults>>

WriteTemporary(x) ==
  /\ attempt[x].file = "part"
  /\ Set(x, [attempt[x] EXCEPT !.file = "whole"])
  /\ UNCHANGED <<logs, store, manifests, cancelled, faults>>

PutInPlaceEarly(x) ==                                \* mutant: not written yet
  /\ attempt[x].file # "none"
  /\ Put({Content(x)}, attempt[x].file)
  /\ Set(x, [attempt[x] EXCEPT !.file = "none", !.at = AfterPut(x)])
  /\ UNCHANGED <<logs, manifests, cancelled, faults>>

PutInPlace(x) ==
  /\ attempt[x].file = "whole"
  /\ Put({Content(x)}, attempt[x].file)
  /\ Set(x, [attempt[x] EXCEPT !.file = "none", !.at = AfterPut(x)])
  /\ UNCHANGED <<logs, manifests, cancelled, faults>>

\* It is there: no file is written, and _assert_object reads the one there is.
FindInPlace(x) ==
  /\ attempt[x].at \in {"plan", "snapshot"} /\ attempt[x].file = "none"
  /\ Content(x) \in DOMAIN store /\ store[Content(x)] = "whole"
  /\ MoveTo(x, AfterPut(x))
  /\ UNCHANGED <<logs, store, manifests, cancelled, faults>>

PutObject(x) == OpenTemporary(x) \/ WriteTemporary(x) \/ PutInPlace(x) \/ FindInPlace(x)

-----------------------------------------------------------------------------
(* LocalOrchestrator.execute, LocalReplayOrchestrator.branch and           *)
(* reproduce.                                                              *)

StartPlan(x) ==
  /\ x \in Plans /\ IsAt(x, "idle")
  /\ MoveTo(x, "plan")
  /\ UNCHANGED <<logs, store, manifests, cancelled, faults>>

ExecutionManifest(x) == {m \in manifests : m.attempt = x /\ m.run = 0}

\* record_replay_ready, and the plan it is read from is in a manifest.
Replayable(y, r) ==
  /\ r \in DOMAIN logs[y] /\ ExecutionManifest(y) # {}
  /\ ~logs[y][r].asked /\ Len(logs[y][r].finished) = 1

ScenarioOf(y, r) == IF y \in Plans THEN r ELSE attempt[y].scenario

Branch(x, y, r, state, g) ==
  /\ x \in Replays /\ IsAt(x, "idle") /\ Replayable(y, r)
  /\ state \in logs[y][r].snapshots
  /\ LET s == StateObject(ScenarioOf(y, r), state)
     IN s \in DOMAIN store /\ store[s] = "whole"
  /\ Set(x, [attempt[x] EXCEPT !.at = "next", !.scenario = ScenarioOf(y, r),
                               !.anchor = state, !.algorithm = g])
  /\ UNCHANGED <<logs, store, manifests, cancelled, faults>>

Listed(object) == \E m \in manifests : object \in m.objects

\* A run that began at a snapshot is reproduced from it: it is looked for in
\* all manifests.
Reproduce(x, y, r) ==
  LET state == attempt[y].anchor
      s == StateObject(ScenarioOf(y, r), state)
  IN
  /\ x \in Replays /\ IsAt(x, "idle") /\ Replayable(y, r)
  /\ state # NoState => logs[y][r].reset
  /\ Set(x, [attempt[x] EXCEPT !.at = IF state = NoState \/ Listed(s) THEN "next" ELSE "lost",
                               !.scenario = ScenarioOf(y, r), !.anchor = state,
                               !.algorithm = attempt[y].algorithm])
  /\ UNCHANGED <<logs, store, manifests, cancelled, faults>>

RunsOf(x) == IF x \in Plans THEN PlannedRuns ELSE 1

\* Before each run and after it: a cancelled execution ends, without a report.
NextRun(x) ==
  /\ IsAt(x, "next")
  /\ \/ /\ x \in cancelled \/ attempt[x].outcome = "CANCELLED"
        /\ EndAttempt(x, "over")
        /\ UNCHANGED logs
     \/ /\ x \notin cancelled /\ attempt[x].outcome # "CANCELLED"
        /\ IF Len(logs[x]) = RunsOf(x)
             THEN MoveTo(x, "report") /\ UNCHANGED logs
             ELSE /\ Set(x, [attempt[x] EXCEPT
                               !.at = "begin", !.outcome = "none", !.kept = {}, !.steps = 0,
                               !.saved = -1, !.history = <<>>,
                               !.scenario = IF x \in Plans THEN Len(logs[x]) + 1 ELSE @])
                  /\ logs' = [logs EXCEPT ![x] = Append(@, EmptyLog)]
  /\ UNCHANGED <<store, manifests, cancelled, faults>>

-----------------------------------------------------------------------------
(* OnlineRuntimeDriver.execute.                                            *)

\* A run from the beginning takes a snapshot of it; a restored one goes on.
EnterRun(x) ==
  /\ IsAt(x, "begin")
  /\ \/ /\ x \in cancelled
        /\ Set(x, [attempt[x] EXCEPT !.at = "log", !.outcome = "CANCELLED"])
        /\ Emit(x, [Log(x) EXCEPT !.finished = <<"CANCELLED">>])
     \/ /\ x \notin cancelled
        /\ IF attempt[x].anchor = NoState THEN MoveTo(x, "snapshot")
           ELSE Set(x, [attempt[x] EXCEPT !.at = "loop", !.history = attempt[x].anchor])
        /\ Emit(x, [Log(x) EXCEPT !.reset = TRUE])
  /\ UNCHANGED <<store, manifests, cancelled, faults>>

\* SNAPSHOT_CREATED
NameSnapshot(x) ==
  LET a == attempt[x] IN
  /\ IsAt(x, "name")
  /\ Set(x, [a EXCEPT !.at = IF a.outcome = "none" THEN "loop" ELSE "finalize",
                      !.kept = @ \cup {a.history}, !.saved = a.steps])
  /\ Emit(x, [Log(x) EXCEPT !.snapshots = @ \cup {a.history}])
  /\ UNCHANGED <<store, manifests, cancelled, faults>>

\* Out of the loop: what the last snapshot does not show is put in another.
LeaveLoop(x, status) ==
  LET a == attempt[x]
  IN  Set(x, [a EXCEPT !.outcome = status,
                       !.at = IF a.steps # a.saved THEN "snapshot" ELSE "finalize"])

\* The loop ends, by the session, a limit or the cancel event, or asks for a decision.
Loop(x) ==
  /\ IsAt(x, "loop")
  /\ \/ /\ LeaveLoop(x, "ended") /\ UNCHANGED logs
     \/ /\ x \in cancelled
        /\ LeaveLoop(x, "CANCELLED") /\ UNCHANGED logs
     \/ /\ x \notin cancelled /\ attempt[x].steps < MaxRunSteps
        /\ MoveTo(x, "decide") /\ Emit(x, [Log(x) EXCEPT !.asked = TRUE])
  /\ UNCHANGED <<store, manifests, cancelled, faults>>

\* A cancelled run does not note the answer; an answer may end the run, or is carried out.
Decide(x) ==
  LET a == attempt[x] IN
  /\ IsAt(x, "decide")
  /\ \/ /\ x \in cancelled
        /\ LeaveLoop(x, "CANCELLED") /\ UNCHANGED logs
     \/ /\ x \notin cancelled
        /\ Emit(x, [Log(x) EXCEPT !.asked = FALSE])
        /\ \/ LeaveLoop(x, "ended")
           \/ Set(x, [a EXCEPT !.at = IF (a.steps + 1) % SnapshotInterval = 0
                                      THEN "snapshot" ELSE "loop",
                               !.steps = @ + 1, !.history = Append(@, a.algorithm)])
  /\ UNCHANGED <<store, manifests, cancelled, faults>>

\* RUN_FINISHED, and then session.close.
Finalize(x) ==
  /\ IsAt(x, "finalize")
  /\ MoveTo(x, "close") /\ Emit(x, [Log(x) EXCEPT !.finished = <<attempt[x].outcome>>])
  /\ UNCHANGED <<store, manifests, cancelled, faults>>

CloseSession(x) ==
  /\ IsAt(x, "close")
  /\ MoveTo(x, "log")
  /\ UNCHANGED <<logs, store, manifests, cancelled, faults>>

\* The driver raises: the run has failed or was cancelled, and keeps no artifact.
RunFails(x) ==
  LET status == IF x \in cancelled THEN "CANCELLED" ELSE "FAILED" IN
  /\ attempt[x].at \in InDriver
  /\ Set(x, [attempt[x] EXCEPT !.at = "log", !.outcome = status, !.kept = {}, !.file = "none"])
  /\ Emit(x, [Log(x) EXCEPT !.finished = Append(@, status)])
  /\ Fault /\ UNCHANGED <<store, manifests, cancelled>>

Drive(x) == \/ EnterRun(x) \/ NameSnapshot(x) \/ Loop(x) \/ Decide(x)
            \/ Finalize(x) \/ CloseSession(x) \/ RunFails(x)

-----------------------------------------------------------------------------
(* The end of a run and of an execution.                                   *)

\* The log, which is closed now, and the result; at the end of the execution its
\* report, and the plan of a replay.
Outputs(x) == CASE IsAt(x, "log") -> {Own(x, "log"), Own(x, "result")}
                [] x \in Plans -> {Own(x, "report")}
                [] OTHER -> {Own(x, "report"), Own(x, "plan")}

PutOutputs(x) ==
  /\ attempt[x].at \in {"log", "report"}
  /\ Put(Outputs(x), "whole")
  /\ MoveTo(x, IF IsAt(x, "log") THEN "manifest" ELSE "publish")
  /\ UNCHANGED <<logs, manifests, cancelled, faults>>

\* write_manifest, which verifies every artifact; a link makes it appear at once.
Write(m) ==
  /\ \A o \in m.objects : o \in DOMAIN store /\ store[o] = "whole"
  /\ manifests' = manifests \cup {m}

WriteRunManifestOfNext(x) ==
  /\ IsAt(x, "manifest")
  /\ Write([attempt |-> x, run |-> Len(logs[x]) + 1, status |-> attempt[x].outcome,
            objects |-> {StateObject(attempt[x].scenario, h) : h \in attempt[x].kept}
                          \cup {Own(x, "log"), Own(x, "result")}])
  /\ MoveTo(x, "next")
  /\ UNCHANGED <<logs, store, cancelled, faults>>

WriteRunManifest(x) ==
  /\ IsAt(x, "manifest")
  /\ Write([attempt |-> x, run |-> Len(logs[x]), status |-> attempt[x].outcome,
            objects |-> {StateObject(attempt[x].scenario, h) : h \in attempt[x].kept}
                          \cup {Own(x, "log"), Own(x, "result")}])
  /\ MoveTo(x, "next")
  /\ UNCHANGED <<logs, store, cancelled, faults>>

\* The snapshot a replay began with is among its artifacts.
Provenance(x) ==
  IF attempt[x].anchor = NoState THEN {}
  ELSE {StateObject(attempt[x].scenario, attempt[x].anchor)}

PublishExecution(x) ==
  /\ IsAt(x, "publish")
  /\ Write([attempt |-> x, run |-> 0, status |-> "ended",
            objects |-> {Own(x, "report"), IF x \in Plans THEN ThePlan ELSE Own(x, "plan")}
                          \cup Provenance(x)
                          \cup UNION {m.objects : m \in {n \in manifests : n.attempt = x}}])
  /\ EndAttempt(x, "done")
  /\ UNCHANGED <<logs, store, cancelled, faults>>

\* Elsewhere what raises ends the execution.
ExecutionFails(x) ==
  /\ attempt[x].at \in Outside
  /\ EndAttempt(x, "over")
  /\ Fault /\ UNCHANGED <<logs, store, manifests, cancelled>>

\* The cancel request; a replay has an event that nobody sets.
SetCancelEvent(x) ==
  /\ x \in Plans \ cancelled /\ attempt[x].at \notin Over
  /\ cancelled' = cancelled \cup {x}
  /\ UNCHANGED <<attempt, logs, store, manifests, faults>>

\* The process ends, with all its threads; temporary files stay behind.
ProcessEnds ==
  /\ \E x \in Attempts : attempt[x].at \notin Over
  /\ Fault
  /\ attempt' = [x \in Attempts |->
                   IF attempt[x].at \in Over THEN attempt[x]
                   ELSE Ended(x, "over")]
  /\ UNCHANGED <<logs, store, manifests, cancelled>>

RunsNext ==
  \/ \E x \in Attempts :
       \/ StartPlan(x) \/ NextRun(x) \/ PutObject(x) \/ Drive(x) \/ PutOutputs(x)
       \/ WriteRunManifest(x) \/ PublishExecution(x) \/ ExecutionFails(x) \/ SetCancelEvent(x)
       \/ \E y \in Attempts : \E r \in DOMAIN logs[y] :
            \/ \E state \in logs[y][r].snapshots, g \in Algorithms : Branch(x, y, r, state, g)
            \/ Reproduce(x, y, r)
  \/ ProcessEnds

RunsSpec == RunsInit /\ [][RunsNext]_runsVars

-----------------------------------------------------------------------------
\* Types.
RunsTypeOK ==
  /\ \A x \in Attempts :
       /\ attempt[x].at \in InDriver \cup Outside \cup Over
       /\ attempt[x].outcome \in RunStatuses \cup {"none"}
       /\ attempt[x].file \in {"none", "part", "whole"}
       /\ attempt[x].steps \in 0..MaxRunSteps
       /\ logs[x] \in Seq([reset : BOOLEAN, asked : BOOLEAN,
                           snapshots : SUBSET Seq(Algorithms), finished : Seq(RunStatuses)])
  /\ \A m \in manifests : m.attempt \in Attempts /\ m.run \in 0..RunsOf(m.attempt)
  /\ cancelled \subseteq Plans /\ faults \in 0..MaxFaults

\* No crash and no other execution leaves half an object under its name, and
\* every snapshot that a log speaks of is in the store: those of runs that
\* failed, were cancelled or were cut off, too.
SnapshotsAreThere ==
  /\ \A o \in DOMAIN store : store[o] = "whole"
  /\ \A x \in Attempts : \A r \in DOMAIN logs[x] : \A h \in logs[x][r].snapshots :
       StateObject(ScenarioOf(x, r), h) \in DOMAIN store

\* A manifest tells what the log tells: the status is the last one of the log,
\* and a run that came to its own end lists the snapshots the log speaks of.
\* A manifest of an execution is there only after those of all its runs, of
\* which none was cancelled.
ManifestsAgree ==
  \A m \in manifests :
    IF m.run > 0
      THEN LET log == logs[m.attempt][m.run] IN
           /\ log.finished # <<>> /\ log.finished[Len(log.finished)] = m.status
           /\ m.status = "ended" =>
                {o \in m.objects : o[1] = "snapshot"}
                  = {StateObject(ScenarioOf(m.attempt, m.run), h) : h \in log.snapshots}
      ELSE \A r \in 1..RunsOf(m.attempt) : \E n \in manifests :
             /\ n.attempt = m.attempt /\ n.run = r /\ n.status # "CANCELLED"
             /\ n.objects \subseteq m.objects

\* Every run that began at a snapshot can be reproduced: the snapshot is in a
\* manifest, though the run it was taken in may have failed and lists none.
ReplaysFindTheirState == \A x \in Attempts : ~IsAt(x, "lost")

\* What is kept of the executions can be relied on.
RecordsAreTrue == SnapshotsAreThere /\ ManifestsAgree /\ ReplaysFindTheirState
=============================================================================
