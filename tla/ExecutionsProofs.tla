-------------------------- MODULE ExecutionsProofs --------------------------
(***************************************************************************)
(* What a reply to a cancel or delete request promises, for every number   *)
(* of cancel requests, runs and restarts; and what the executions leave    *)
(* behind, for every number of executions, replays, runs and faults.       *)
(***************************************************************************)
EXTENDS Executions, Runs, SequenceTheorems, TLAPS

\* The record a creation works on has not been touched by a worker, and a
\* thread that is alive is registered.
Life ==
  /\ creator = "idle" => status = "absent"
  /\ creator = "drafted" => status = "DRAFT"
  /\ creator = "compiled" => status = "COMPILED"
  /\ creator \in {"registered", "failing"}
       => status \in {"COMPILED", "CANCEL_REQUESTED"}
  /\ creator = "registered" => registered
  /\ creator \notin {"registered", "done"} => ~registered
  /\ creator # "done" => worker = "none"
  /\ worker # "none" => registered

\* A request that found the id registered comes after the record was compiled;
\* past the repository it has found, or made, the record cancelled.
Told ==
  /\ \A c \in Cancellers : caller[c] = "request"
       => creator \in {"registered", "failing", "done"}
  /\ \A c \in Cancellers : caller[c] \in {"set", "again", "accepted"}
       => status \in {"CANCEL_REQUESTED", "CANCELLED", "archived"}

\* After the reply the event is set, or there is no thread and will be none.
Heard ==
  \A c \in Cancellers : caller[c] = "accepted"
    => cancel_event \/ (worker = "none" /\ creator \in {"failing", "done"})

AllSucceeded ==
  Len(results) = NumRuns /\ \A i \in DOMAIN results : results[i] = "succeeded"

\* A worker in a run still lacks its result; one about to write SUCCEEDED has
\* all results, and none comes later.
Complete ==
  /\ worker = "solving" => Len(results) < NumRuns
  /\ worker = "runs_succeeded" => AllSucceeded
  /\ status = "SUCCEEDED" =>
       AllSucceeded /\ creator = "done" /\ worker \in {"finally", "none"}

IInv == TypeOK /\ Life /\ Told /\ Heard /\ Complete /\ ArchivedIsQuiet

LEMMA InitHolds == Init => IInv
<1> SUFFICES ASSUME Init PROVE IInv
  OBVIOUS
<1>1. TypeOK
  <2>1. results \in Seq(RunResults) /\ Len(results) <= NumRuns
    BY ExecutionConstants DEF Init
  <2>2. caller \in [Cancellers -> {"idle", "lookup", "request", "set", "again",
                                 "accepted", "conflict", "lost"}]
    BY DEF Init
  <2>3. restarts \in 0..MaxRestarts
    BY ExecutionConstants DEF Init
  <2> QED
    BY <2>1, <2>2, <2>3 DEF Init, TypeOK, Statuses
<1>2. Life /\ Told /\ Heard
  BY DEF Init, Life, Told, Heard
<1>3. Complete /\ ArchivedIsQuiet
  BY DEF Init, Complete, ArchivedIsQuiet
<1> QED
  BY <1>1, <1>2, <1>3 DEF IInv

\* A step of create_execution.
LEMMA CreateKeeps == IInv /\ Create => IInv'
<1> SUFFICES ASSUME IInv, Create PROVE IInv'
  OBVIOUS
<1> USE ExecutionConstants
    DEF IInv, TypeOK, Life, Told, Heard, Complete, AllSucceeded, ArchivedIsQuiet,
        Statuses, Terminal, workerVars, recordVars, Allowed, Transitions
<1>1. CASE CreateRecord
  BY <1>1 DEF CreateRecord
<1>2. CASE CompileRecord
  BY <1>2 DEF CompileRecord
<1>3. CASE Register
  BY <1>3 DEF Register
<1>4. CASE StartThread
  BY <1>4 DEF StartThread
<1>5. CASE StartFails
  BY <1>5 DEF StartFails
<1>6. CASE FailCreation
  BY <1>6 DEF FailCreation
<1> QED
  BY <1>1, <1>2, <1>3, <1>4, <1>5, <1>6 DEF Create

\* A step of the background thread.
LEMMA WorkKeeps == IInv /\ (Work \/ RunRaises) => IInv'
<1> SUFFICES ASSUME IInv, Work \/ RunRaises PROVE IInv'
  OBVIOUS
<1> USE ExecutionConstants
    DEF IInv, TypeOK, Life, Told, Heard, Complete, AllSucceeded, ArchivedIsQuiet,
        Statuses, Terminal, recordVars, Goto, Transition, Allowed, Transitions
<1>1. CASE WorkerStart
  BY <1>1 DEF WorkerStart
<1>2. CASE MarkStarted
  BY <1>2 DEF MarkStarted
<1>3. CASE BeginRun
  BY <1>3 DEF BeginRun
<1>4. ASSUME NEW result \in RunResults, EndRun(result) PROVE IInv'
  BY <1>4 DEF EndRun
<1>5. CASE RunRaises
  BY <1>5 DEF RunRaises
<1>6. CASE DecideOutcome
  BY <1>6 DEF DecideOutcome, FailedRuns, RunResults
<1>7. CASE MarkSucceeded
  BY <1>7 DEF MarkSucceeded
<1>8. CASE MarkRunsFailed
  BY <1>8 DEF MarkRunsFailed
<1>9. CASE Except
  BY <1>9 DEF Except
<1>10. CASE MarkError
  BY <1>10 DEF MarkError
<1>11. CASE CancelRecord
  BY <1>11 DEF CancelRecord
<1>12. CASE Deregister
  BY <1>12 DEF Deregister
<1> QED
  BY <1>1, <1>2, <1>3, <1>4, <1>5, <1>6, <1>7, <1>8, <1>9, <1>10, <1>11, <1>12
  DEF Work

\* A step of cancel_execution.
LEMMA CancelKeeps ==
  ASSUME IInv, NEW c \in Cancellers, Cancel(c)
  PROVE  IInv'
<1> USE ExecutionConstants
    DEF IInv, TypeOK, Life, Told, Heard, Complete, AllSucceeded, ArchivedIsQuiet,
        Statuses, Terminal, recordVars, workerVars, CallerGoto, Allowed, Transitions
<1>1. CASE ReadRecord(c)
  BY <1>1 DEF ReadRecord
<1>2. CASE LookupEvent(c)
  BY <1>2 DEF LookupEvent
<1>3. CASE RequestCancel(c)
  <2>1. CASE Allowed("CANCEL_REQUESTED")
    <3>1. /\ status' = "CANCEL_REQUESTED"
          /\ caller' = [caller EXCEPT ![c] = "set"]
          /\ UNCHANGED <<registered, cancel_event, creator, worker, results,
                         restarts>>
      BY <1>3, <2>1 DEF RequestCancel
    <3>2. status \in {"COMPILED", "RUNNING"}
      BY <2>1
    <3>3. TypeOK'
      BY <3>1
    <3>4. Life' /\ Complete' /\ ArchivedIsQuiet'
      BY <1>3, <3>1, <3>2 DEF RequestCancel
    <3>5. Told' /\ Heard'
      BY <1>3, <3>1, <3>2 DEF RequestCancel
    <3> QED
      BY <3>3, <3>4, <3>5
  <2>2. CASE ~Allowed("CANCEL_REQUESTED")
    <3>1. /\ UNCHANGED <<status, registered, cancel_event, creator, worker,
                         results, restarts>>
          /\ \/ /\ caller' = [caller EXCEPT ![c] = "set"]
                /\ status \in {"CANCEL_REQUESTED", "CANCELLED"}
             \/ caller' = [caller EXCEPT ![c] = "conflict"]
      BY <1>3, <2>2 DEF RequestCancel
    <3> QED
      BY <3>1
  <2> QED
    BY <2>1, <2>2
<1>4. CASE SetEvent(c)
  BY <1>4 DEF SetEvent
<1>5. CASE SetEventAgain(c)
  BY <1>5 DEF SetEventAgain
<1> QED
  BY <1>1, <1>2, <1>3, <1>4, <1>5 DEF Cancel

LEMMA NextKeeps == IInv /\ [Next]_vars => IInv'
<1> SUFFICES ASSUME IInv, [Next]_vars PROVE IInv'
  OBVIOUS
<1>1. CASE Delete
  BY <1>1 DEF Delete, IInv, TypeOK, Life, Told, Heard, Complete, AllSucceeded,
              ArchivedIsQuiet, Statuses, Terminal, workerVars
<1>2. CASE Restart
  <2>1. TypeOK'
    <3>1. /\ caller' \in [Cancellers -> {"idle", "lookup", "request", "set",
                              "again", "accepted", "conflict", "lost"}]
          /\ restarts' \in 0..MaxRestarts
      BY <1>2, ExecutionConstants DEF Restart, IInv, TypeOK
    <3> QED
      BY <1>2, <3>1 DEF Restart, IInv, TypeOK, Statuses, Terminal
  <2>2. Told' /\ Heard'
    BY <1>2 DEF Restart, IInv, TypeOK, Told, Heard
  <2>3. Life' /\ Complete' /\ ArchivedIsQuiet'
    BY <1>2 DEF Restart, IInv, TypeOK, Life, Complete, AllSucceeded,
                ArchivedIsQuiet
  <2> QED
    BY <2>1, <2>2, <2>3 DEF IInv
<1>3. CASE UNCHANGED vars
  BY <1>3 DEF vars, recordVars, workerVars, IInv, TypeOK, Life, Told, Heard,
              Complete, AllSucceeded, ArchivedIsQuiet
<1> QED
  BY <1>1, <1>2, <1>3, CreateKeeps, WorkKeeps, CancelKeeps DEF Next

\* The invariant of this module holds in every state of every execution.
LEMMA Invariance == Spec => []IInv
  BY InitHolds, NextKeeps, PTL DEF Spec

\* Every variable of the execution keeps its type, for any number of requests.
THEOREM TypeCorrect == Spec => []TypeOK
<1>1. IInv => TypeOK
  BY DEF IInv
<1> QED
  BY <1>1, Invariance, PTL

\* A cancellation answered with 202 is never followed by success or failure.
THEOREM CancelIsBinding == Spec => []AcceptedCancelIsBinding
<1>1. IInv => AcceptedCancelIsBinding
  BY DEF IInv, Told, AcceptedCancelIsBinding
<1> QED
  BY <1>1, Invariance, PTL

\* SUCCEEDED is written only when every run of the plan has succeeded.
THEOREM SuccessMeansComplete == Spec => []SuccessIsComplete
<1>1. IInv => SuccessIsComplete
  BY DEF IInv, Complete, AllSucceeded, SuccessIsComplete
<1> QED
  BY <1>1, Invariance, PTL

\* After a cancellation is answered, _execute_in_background begins no run.
THEOREM CancelStopsRuns == Spec => NoRunAfterCancel
<1> DEFINE A == (\E c \in Cancellers : caller[c] = "accepted")
                  /\ worker' = "solving" => worker = "solving"
<1>1. IInv /\ [Next]_vars => [A]_vars
  <2> SUFFICES ASSUME IInv, Next, NEW c \in Cancellers, caller[c] = "accepted",
                      worker' = "solving"
               PROVE  worker = "solving"
    OBVIOUS
  <2>1. CASE BeginRun
    BY <2>1 DEF BeginRun, Goto, IInv, Heard
  <2>2. CASE Work \/ RunRaises
    BY <2>1, <2>2
    DEF Work, RunRaises, WorkerStart, MarkStarted, EndRun, DecideOutcome,
        MarkSucceeded, MarkRunsFailed, Except, MarkError, CancelRecord,
        Deregister, Goto, Transition
  <2>3. CASE ~(Work \/ RunRaises)
    BY <2>3
    DEF Next, Create, CreateRecord, CompileRecord, Register, StartThread,
        StartFails, FailCreation, Cancel, ReadRecord, LookupEvent,
        RequestCancel, SetEvent, SetEventAgain, CallerGoto, Delete, Restart,
        workerVars
  <2> QED
    BY <2>2, <2>3
<1> QED
  BY <1>1, Invariance, PTL DEF Spec, NoRunAfterCancel

\* A record is moved to the trash only when no thread and no request that made
\* it can still write to it.
THEOREM DeletionIsQuiet == Spec => []ArchivedIsQuiet
<1>1. IInv => ArchivedIsQuiet
  BY DEF IInv
<1> QED
  BY <1>1, Invariance, PTL

-----------------------------------------------------------------------------
(* What an execution leaves behind.                                        *)

\* Where the log of the last run of an execution is not the last word on it.
InRun == InDriver \cup {"log", "manifest"}

\* A state is the actions that were taken to it.
Taken == Seq(Algorithms)
AttemptRecord ==
  [at : InDriver \cup Outside \cup Over, scenario : Nat, algorithm : Algorithms,
   anchor : Taken \cup {NoState}, history : Taken, steps : 0..MaxRunSteps, saved : Int,
   kept : SUBSET Taken, outcome : RunStatuses \cup {"none"}, file : {"none", "part", "whole"}]
LogRecord == [reset : BOOLEAN, asked : BOOLEAN, snapshots : SUBSET Taken,
              finished : Seq(RunStatuses)]

RecordTypes ==
  /\ attempt \in [Attempts -> AttemptRecord]
  /\ logs \in [Attempts -> Seq(LogRecord)]
  /\ cancelled \subseteq Plans /\ faults \in 0..MaxFaults

\* Run r of x came to an end, was not cancelled, and has its manifest.
RunListed(x, r) == \E n \in manifests : n.attempt = x /\ n.run = r /\ n.status # "CANCELLED"

\* What the thread of x can rely on, wherever it is.
Sound(x) ==
  LET a == attempt[x]
      n == Len(logs[x]) IN
  /\ a.at # "lost"
  /\ a.at = "idle" => ~\E m \in manifests : m.attempt = x
  /\ a.at \in {"idle", "plan"} => n = 0
  /\ a.at \in {"begin", "loop", "decide"} => a.outcome = "none"
  /\ x \in Plans => a.anchor = NoState
  /\ a.file # "none" => a.at \in {"plan", "snapshot"}
  /\ a.at = "name" => StateObject(a.scenario, a.history) \in DOMAIN store
  /\ a.at = "decide" => a.steps < MaxRunSteps
  /\ a.at = "finalize" => a.outcome # "none"
  /\ n <= RunsOf(x) /\ (a.at \in {"report", "publish"} => n = RunsOf(x))
  /\ a.at \in InRun =>
       /\ n # 0 /\ (x \in Plans => a.scenario = n)
       /\ a.outcome \in {"none", "ended"} => a.kept = logs[x][n].snapshots
  /\ a.at \in {"close", "log", "manifest"} =>
       LET ends == logs[x][n].finished IN ends # <<>> /\ ends[Len(ends)] = a.outcome
  /\ \A r \in 1..n : \A h \in logs[x][r].snapshots :
       StateObject(ScenarioOf(x, r), h) \in DOMAIN store
  /\ \A r \in 1..n :
       /\ a.at \in InRun \cup {"next"} /\ r < n => RunListed(x, r)
       /\ a.at = "next" /\ a.outcome # "CANCELLED" => RunListed(x, r)
       /\ a.at \in {"report", "publish"} => RunListed(x, r)

\* A manifest of a run of x tells what the log tells, which is closed.
Tells(m, x) ==
  LET log == logs[x][m.run] IN
  m.run > 0 =>
    /\ m.run = Len(logs[x]) => attempt[x].at \notin InRun
    /\ log.finished # <<>> /\ log.finished[Len(log.finished)] = m.status
    /\ m.status = "ended" =>
         {o \in m.objects : o[1] = "snapshot"}
           = {StateObject(ScenarioOf(x, m.run), h) : h \in log.snapshots}

\* A manifest of the execution x is there for all its runs, and for what it began with.
Covers(m, x) ==
  m.run = 0 =>
    /\ attempt[x].at = "done"
    /\ attempt[x].anchor # NoState =>
         StateObject(attempt[x].scenario, attempt[x].anchor) \in m.objects
    /\ \A r \in 1..RunsOf(x) : \E n \in manifests :
         n.attempt = x /\ n.run = r /\ n.status # "CANCELLED" /\ n.objects \subseteq m.objects

\* What a manifest can be relied on for.
Reliable(m) == /\ m.attempt \in Attempts /\ m.run \in 0..Len(logs[m.attempt])
               /\ Tells(m, m.attempt) /\ Covers(m, m.attempt)

\* Every object is whole, every thread and every manifest can rely on its own.
RecordInv ==
  /\ RecordTypes
  /\ \A o \in DOMAIN store : store[o] = "whole"
  /\ \A x \in Attempts : Sound(x)
  /\ \A m \in manifests : Reliable(m)
-----------------------------------------------------------------------------
LEMMA ControlPoints ==
  /\ InRun = {"begin", "snapshot", "name", "loop", "decide", "finalize", "close", "log", "manifest"}
  /\ Outside = {"next", "plan", "log", "manifest", "report", "publish"}
  /\ Over = {"idle", "done", "over", "lost"}
BY DEF InRun, InDriver, Outside, Over

LEMMA InitRecords == RunsInit => RecordInv
<1> SUFFICES ASSUME RunsInit PROVE RecordInv
  OBVIOUS
<1>1. NotBegun \in AttemptRecord
  BY RunConstants DEF NotBegun, AttemptRecord, Taken, Over, NoState
<1>2. RecordTypes
  BY <1>1, RunConstants DEF RunsInit, RecordTypes
<1>3. ASSUME NEW x \in Attempts PROVE Sound(x)
  <2>1. attempt[x] = NotBegun /\ logs[x] = <<>> /\ manifests = {}
    BY DEF RunsInit
  <2>2. RunsOf(x) \in Nat
    BY RunConstants DEF RunsOf
  <2> QED BY <2>1, <2>2 DEF Sound, NotBegun, InRun, InDriver
<1> QED BY <1>2, <1>3 DEF RecordInv, RunsInit

\* x moves, and may add to the store and the manifests: the others do not notice.
LEMMA OthersStay ==
  ASSUME RecordInv, NEW x \in Attempts, NEW a \in AttemptRecord, NEW l \in Seq(LogRecord),
         Set(x, a), logs' = [logs EXCEPT ![x] = l],
         DOMAIN store \subseteq DOMAIN store', \A o \in DOMAIN store' : store'[o] = "whole",
         manifests \subseteq manifests',
         \A m \in manifests' \ manifests : m.attempt = x /\ Reliable(m)',
         \A m \in manifests : m.attempt = x => Reliable(m)',
         Sound(x)', cancelled' \subseteq Plans, faults' \in 0..MaxFaults
  PROVE  RecordInv'
<1>1. RecordTypes'
  BY DEF RecordInv, RecordTypes, Set
<1>2. \A y \in Attempts \ {x} : attempt'[y] = attempt[y] /\ logs'[y] = logs[y]
  BY DEF RecordInv, RecordTypes, Set
<1>3. \A y, r : RunListed(y, r) => RunListed(y, r)'
  BY DEF RunListed
<1>4. ASSUME NEW y \in Attempts \ {x} PROVE Sound(y)'
  <2>1. Sound(y) /\ attempt'[y] = attempt[y] /\ logs'[y] = logs[y]
    BY <1>2 DEF RecordInv
  <2>2. (\E m \in manifests' : m.attempt = y) => \E m \in manifests : m.attempt = y
    OBVIOUS
  <2>3. \A r : ScenarioOf(y, r)' = ScenarioOf(y, r)
    BY <2>1 DEF ScenarioOf
  <2> QED BY <1>3, <2>1, <2>2, <2>3 DEF Sound, StateObject, RunsOf
<1>5. ASSUME NEW m \in manifests, m.attempt # x PROVE Reliable(m)'
  <2>1. Reliable(m) /\ m.attempt \in Attempts \ {x}
    BY <1>5 DEF RecordInv, Reliable
  <2>2. ASSUME NEW y \in Attempts \ {x}, Tells(m, y), Covers(m, y)
        PROVE  Tells(m, y)' /\ Covers(m, y)'
    <3>1. attempt'[y] = attempt[y] /\ logs'[y] = logs[y]
      BY <1>2
    <3>2. ScenarioOf(y, m.run)' = ScenarioOf(y, m.run)
      BY <3>1 DEF ScenarioOf
    <3>3. Tells(m, y)'
      BY <2>2, <3>1, <3>2 DEF Tells, StateObject
    <3>4. Covers(m, y)'
      BY <2>2, <3>1 DEF Covers, StateObject, RunsOf
    <3> QED BY <3>3, <3>4
  <2>3. logs'[m.attempt] = logs[m.attempt]
    BY <1>2, <2>1
  <2> QED BY <2>1, <2>2, <2>3 DEF Reliable
<1> QED BY <1>1, <1>4, <1>5 DEF RecordInv

\* The manifests of x are of runs that it has left, and tell the same as before.
LEMMA StillReliable ==
  ASSUME RecordInv, manifests \subseteq manifests',
         NEW x \in Attempts, NEW a \in AttemptRecord, NEW l \in Seq(LogRecord),
         Set(x, a), logs' = [logs EXCEPT ![x] = l],
         attempt[x].at # "done", x \in Replays => a.scenario = attempt[x].scenario,
         Len(logs[x]) <= Len(l),
         \A r \in 1..Len(logs[x]) :
            attempt[x].at \notin InRun \/ r < Len(logs[x]) => l[r] = logs[x][r],
         a.at \in InRun => Len(logs[x]) < Len(l) \/ attempt[x].at \in InRun
  PROVE  \A m \in manifests : m.attempt = x => Reliable(m)'
<1> SUFFICES ASSUME NEW m \in manifests, m.attempt = x PROVE Reliable(m)'
  OBVIOUS
<1>1. attempt'[x] = a /\ logs'[x] = l /\ Len(l) \in Nat /\ Len(logs[x]) \in Nat
  BY DEF RecordInv, RecordTypes, Set
<1>2. /\ Reliable(m) /\ m.run \in 1..Len(logs[x])
      /\ m.run = Len(logs[x]) => attempt[x].at \notin InRun
  <2>1. Reliable(m)
    BY DEF RecordInv
  <2>2. m.run \in 0..Len(logs[x]) /\ (m.run = 0 => attempt[x].at = "done")
    BY <2>1 DEF Reliable, Tells, Covers
  <2>3. m.run \in 1..Len(logs[x])
    BY <1>1, <2>2
  <2> QED BY <2>1, <2>3 DEF Reliable, Tells, Covers
<1>3. l[m.run] = logs[x][m.run]
  BY <1>1, <1>2
<1>4. ScenarioOf(x, m.run)' = ScenarioOf(x, m.run)
  BY <1>1 DEF ScenarioOf, Attempts
<1> QED BY <1>1, <1>2, <1>3, <1>4 DEF Reliable, Tells, Covers, StateObject

\* x moves and its log stays.
LEMMA Moves ==
  ASSUME RecordInv, NEW x \in Attempts, NEW a \in AttemptRecord, Set(x, a), UNCHANGED logs,
         attempt[x].at # "done", x \in Replays => a.scenario = attempt[x].scenario,
         a.at \in InRun => attempt[x].at \in InRun,
         DOMAIN store \subseteq DOMAIN store', \A o \in DOMAIN store' : store'[o] = "whole",
         UNCHANGED manifests, Sound(x)', cancelled' \subseteq Plans, faults' \in 0..MaxFaults
  PROVE  RecordInv'
<1>1. /\ logs' = [logs EXCEPT ![x] = logs[x]] /\ logs[x] \in Seq(LogRecord)
      /\ Len(logs[x]) \in Nat
  BY DEF RecordInv, RecordTypes
<1>2. \A m \in manifests : m.attempt = x => Reliable(m)'
  <2> DEFINE l == logs[x]
  <2>1. logs' = [logs EXCEPT ![x] = l]
    BY <1>1
  <2>3. l \in Seq(LogRecord)
    BY <1>1
  <2>4. Len(logs[x]) <= Len(l)
    BY <1>1
  <2>5. \A r \in 1..Len(logs[x]) :
             attempt[x].at \notin InRun \/ r < Len(logs[x]) => l[r] = logs[x][r]
    OBVIOUS
  <2>2. a.at \in InRun => Len(logs[x]) < Len(l) \/ attempt[x].at \in InRun
    OBVIOUS
  <2> HIDE DEF l
  <2> QED BY <2>1, <2>2, <2>3, <2>4, <2>5, StillReliable
<1> QED BY <1>1, <1>2, OthersStay

\* x moves and writes into the log of the present run.
LEMMA Writes ==
  ASSUME RecordInv, NEW x \in Attempts, NEW a \in AttemptRecord, NEW log \in LogRecord,
         Set(x, a), Emit(x, log), attempt[x].at \in InRun, a.scenario = attempt[x].scenario,
         UNCHANGED <<store, manifests>>,
         Sound(x)', cancelled' \subseteq Plans, faults' \in 0..MaxFaults
  PROVE  RecordInv'
<1> DEFINE n == Len(logs[x])
           l == [logs[x] EXCEPT ![n] = log]
<1>1. n \in Nat \ {0} /\ logs[x] \in Seq(LogRecord)
  BY DEF RecordInv, RecordTypes, Sound
<1>2. /\ l \in Seq(LogRecord) /\ Len(l) = n /\ \A r \in 1..n : r < n => l[r] = logs[x][r]
  BY <1>1
<1>3. logs' = [logs EXCEPT ![x] = l]
  BY <1>1 DEF Emit, RecordInv, RecordTypes
<1>4. attempt[x].at # "done"
  BY ControlPoints
<1> HIDE DEF l
<1>5. \A m \in manifests : m.attempt = x => Reliable(m)'
  <2>1. Len(logs[x]) <= Len(l)
    BY <1>1, <1>2
  <2>2. \A r \in 1..Len(logs[x]) :
             attempt[x].at \notin InRun \/ r < Len(logs[x]) => l[r] = logs[x][r]
    BY <1>2
  <2>3. a.at \in InRun => Len(logs[x]) < Len(l) \/ attempt[x].at \in InRun
    OBVIOUS
  <2>4. x \in Replays => a.scenario = attempt[x].scenario
    OBVIOUS
  <2> QED BY <1>2, <1>3, <1>4, <2>1, <2>2, <2>3, <2>4, StillReliable
<1> QED BY <1>2, <1>3, <1>5, OthersStay DEF RecordInv

\* What is there after a log was written.
LEMMA Written ==
  ASSUME RecordInv, NEW x \in Attempts, NEW log \in LogRecord, Emit(x, log), attempt[x].at \in InRun
  PROVE  LET n == Len(logs[x]) IN
         /\ n \in Nat \ {0} /\ Len(logs'[x]) = n /\ logs[x][n] \in LogRecord /\ logs'[x][n] = log
         /\ \A r \in 1..n : r # n => logs'[x][r] = logs[x][r]
<1> DEFINE n == Len(logs[x])
           l == [logs[x] EXCEPT ![n] = log]
<1>1. n \in Nat \ {0} /\ logs[x] \in Seq(LogRecord)
  BY DEF RecordInv, RecordTypes, Sound
<1>2. /\ l \in Seq(LogRecord) /\ Len(l) = n /\ l[n] = log
      /\ \A r \in 1..n : r # n => l[r] = logs[x][r]
  BY <1>1
<1>3. logs'[x] = l
  BY <1>1 DEF Emit, RecordInv, RecordTypes
<1> QED BY <1>1, <1>2, <1>3

\* x is where it was, or at the next point, of which it knows what it has to.
LEMMA SoundMove ==
  ASSUME RecordInv, NEW x \in Attempts, NEW a \in AttemptRecord, Set(x, a),
         UNCHANGED <<logs, manifests>>, DOMAIN store \subseteq DOMAIN store',
         a.anchor = attempt[x].anchor, a.scenario = attempt[x].scenario,
         a.at \notin {"lost", "idle", "begin", "decide"},
         a.file # "none" => a.at \in {"plan", "snapshot"},
         a.at = "plan" => attempt[x].at = "plan",
         a.at = "loop" => a.outcome = "none",
         a.at = "name" => StateObject(a.scenario, a.history) \in DOMAIN store',
         a.at = "finalize" => a.outcome # "none",
         a.at \in {"report", "publish"} =>
           Len(logs[x]) = RunsOf(x) /\ \A r \in 1..Len(logs[x]) : RunListed(x, r),
         a.at \in InRun =>
           /\ attempt[x].at \in InRun /\ a.kept = attempt[x].kept
           /\ a.outcome \in {"none", "ended"} => attempt[x].outcome \in {"none", "ended"},
         a.at \in {"close", "log", "manifest"} =>
           attempt[x].at \in {"close", "log", "manifest"} /\ a.outcome = attempt[x].outcome,
         a.at = "next" => attempt[x].at = "plan"
  PROVE  Sound(x)'
<1>1. attempt'[x] = a /\ logs'[x] = logs[x] /\ Len(logs[x]) \in Nat
  BY DEF RecordInv, RecordTypes, Set
<1>2. /\ \A r : RunListed(x, r)' <=> RunListed(x, r)
      /\ \A r : ScenarioOf(x, r)' = ScenarioOf(x, r)
  BY <1>1 DEF RunListed, ScenarioOf
<1>3. Sound(x)
  BY DEF RecordInv
<1>4. a.at \in {"next", "plan"} => Len(logs[x]) = 0
  BY <1>3 DEF Sound
<1>5. a.at \in InRun => attempt[x].at \in InRun
  OBVIOUS
<1> QED BY <1>1, <1>2, <1>3, <1>4, <1>5 DEF Sound, StateObject, RunsOf

\* The actions of one execution, and the end of the process.
LEMMA PutsKeep == ASSUME RecordInv, NEW x \in Attempts, PutObject(x) PROVE RecordInv'
<1> DEFINE r == attempt[x]
<1>1. r \in AttemptRecord /\ r.at # "done" /\ r.at \in {"plan", "snapshot"}
      /\ r.file \in {"none", "part", "whole"} /\ Sound(x)
      /\ UNCHANGED <<logs, manifests, cancelled, faults>>
      /\ cancelled' \subseteq Plans /\ faults' \in 0..MaxFaults
  BY DEF RecordInv, RecordTypes, Sound, AttemptRecord, PutObject, OpenTemporary, WriteTemporary,
         PutInPlace, FindInPlace
<1>2. ASSUME NEW a \in AttemptRecord, Set(x, a), a.at \in {r.at, AfterPut(x)},
             a.scenario = r.scenario, a.anchor = r.anchor, a.history = r.history,
             a.outcome = r.outcome, a.kept = r.kept,
             a.file # "none" => a.at = r.at,
             DOMAIN store \subseteq DOMAIN store', \A o \in DOMAIN store' : store'[o] = "whole",
             a.at = "name" => Content(x) \in DOMAIN store'
      PROVE  RecordInv'
  <2>1. /\ a.at \in {"plan", "snapshot", "next", "name"}
        /\ a.at = "next" => r.at = "plan"
        /\ a.at \in {"name", "snapshot"} => r.at = "snapshot"
        /\ a.at = "plan" => r.at = "plan"
    BY <1>1, <1>2 DEF AfterPut, IsAt
  <2>2. a.at = "name" => StateObject(a.scenario, a.history) \in DOMAIN store'
    BY <1>1, <1>2, <2>1 DEF Content, IsAt
  <2>3. Sound(x)'
    BY <1>1, <1>2, <2>1, <2>2, ControlPoints, SoundMove
  <2> QED BY <1>1, <1>2, <2>1, <2>3, ControlPoints, Moves
<1>3. \A o \in DOMAIN store : store[o] = "whole"
  BY DEF RecordInv
<1>4. ASSUME NEW how \in {"part", "whole"}, Set(x, [r EXCEPT !.file = how]), UNCHANGED store
      PROVE  RecordInv'
  <2> DEFINE a == [r EXCEPT !.file = how]
  <2>1. /\ a \in AttemptRecord /\ a.at = r.at /\ a.file = how /\ a.scenario = r.scenario
        /\ a.anchor = r.anchor /\ a.history = r.history /\ a.outcome = r.outcome /\ a.kept = r.kept
    BY <1>1 DEF AttemptRecord
  <2>2. Set(x, a)
    BY <1>4
  <2> HIDE DEF a
  <2> QED BY <1>1, <1>2, <1>3, <1>4, <2>1, <2>2
<1>5. CASE OpenTemporary(x)
  BY <1>4, <1>5 DEF OpenTemporary
<1>6. CASE WriteTemporary(x)
  BY <1>4, <1>6 DEF WriteTemporary
<1>7. AfterPut(x) \in {"next", "name"}
  BY DEF AfterPut
<1>8. CASE PutInPlace(x)
  <2> DEFINE a == [r EXCEPT !.file = "none", !.at = AfterPut(x)]
  <2>1. /\ a \in AttemptRecord /\ a.at = AfterPut(x) /\ a.file = "none" /\ a.scenario = r.scenario
        /\ a.anchor = r.anchor /\ a.history = r.history /\ a.outcome = r.outcome /\ a.kept = r.kept
    BY <1>1, <1>7, ControlPoints DEF AttemptRecord, InDriver
  <2>2. Set(x, a)
    BY <1>8 DEF PutInPlace
  <2>3. store' = [o \in {Content(x)} \cup DOMAIN store |->
                    IF o \in {Content(x)} THEN "whole" ELSE store[o]]
    BY <1>8 DEF PutInPlace, Put
  <2>4. /\ DOMAIN store \subseteq DOMAIN store' /\ Content(x) \in DOMAIN store'
        /\ \A o \in DOMAIN store' : store'[o] = "whole"
    BY <1>3, <2>3
  <2> HIDE DEF a
  <2> QED BY <1>2, <2>1, <2>2, <2>4
<1>9. CASE FindInPlace(x)
  <2> DEFINE a == [r EXCEPT !.at = AfterPut(x)]
  <2>1. /\ a \in AttemptRecord /\ a.at = AfterPut(x) /\ a.file = r.file /\ a.scenario = r.scenario
        /\ a.anchor = r.anchor /\ a.history = r.history /\ a.outcome = r.outcome /\ a.kept = r.kept
    BY <1>1, <1>7, ControlPoints DEF AttemptRecord, InDriver
  <2>2. /\ Set(x, a) /\ UNCHANGED store /\ Content(x) \in DOMAIN store /\ r.file = "none"
    BY <1>9 DEF FindInPlace, MoveTo
  <2> HIDE DEF a
  <2> QED BY <1>2, <1>3, <2>1, <2>2
<1> QED BY <1>5, <1>6, <1>8, <1>9 DEF PutObject

\* An end, however it comes, keeps what a replay of it needs.
LEMMA EndedIs ==
  ASSUME RecordInv, NEW x \in Attempts, NEW place \in {"over", "done"}
  PROVE  LET a == Ended(x, place) IN
         /\ a \in AttemptRecord /\ a.at = place /\ a.file = "none" /\ a.outcome = "none"
         /\ a.anchor = attempt[x].anchor /\ a.scenario = attempt[x].scenario
<1>1. attempt[x] \in AttemptRecord
  BY DEF RecordInv, RecordTypes
<1>2. NotBegun \in AttemptRecord /\ NotBegun.file = "none" /\ NotBegun.outcome = "none"
  BY RunConstants DEF NotBegun, AttemptRecord, Taken, Over, NoState
<1> QED BY <1>1, <1>2, ControlPoints DEF Ended, AttemptRecord

LEMMA EndsKeepRecords ==
  ASSUME RecordInv, NEW x \in Attempts, EndAttempt(x, "over"), attempt[x].at # "done",
         UNCHANGED <<logs, store, manifests>>, cancelled' \subseteq Plans, faults' \in 0..MaxFaults
  PROVE  RecordInv'
<1> DEFINE a == Ended(x, "over")
<1>1. /\ a \in AttemptRecord /\ a.at = "over" /\ a.file = "none" /\ a.outcome = "none"
      /\ a.anchor = attempt[x].anchor /\ a.scenario = attempt[x].scenario
  BY EndedIs
<1>2. Set(x, a)
  BY DEF EndAttempt
<1> HIDE DEF a
<1>3. Sound(x)'
  BY <1>1, <1>2, ControlPoints, SoundMove
<1> QED BY <1>1, <1>2, <1>3, ControlPoints, Moves DEF RecordInv

LEMMA NothingMoves ==
  ASSUME RecordInv, UNCHANGED <<attempt, logs, store, manifests>>, cancelled' \subseteq Plans,
         faults' \in 0..MaxFaults
  PROVE  RecordInv'
<1>1. /\ \A x, i : RunListed(x, i)' <=> RunListed(x, i)
      /\ \A x, i : ScenarioOf(x, i)' = ScenarioOf(x, i)
  BY DEF RunListed, ScenarioOf
<1>2. \A x \in Attempts : Sound(x)'
  BY <1>1 DEF RecordInv, Sound
<1>3. ASSUME NEW m \in manifests PROVE Reliable(m)'
  <2>1. Reliable(m)
    BY DEF RecordInv
  <2>2. Tells(m, m.attempt)'
    BY <1>1, <2>1 DEF Reliable, Tells
  <2>3. Covers(m, m.attempt)'
    BY <2>1 DEF Reliable, Covers
  <2> QED BY <2>1, <2>2, <2>3 DEF Reliable
<1> QED BY <1>2, <1>3 DEF RecordInv, RecordTypes

LEMMA OutsideKeeps ==
  ASSUME RecordInv, NEW x \in Attempts,
         CloseSession(x) \/ PutOutputs(x) \/ ExecutionFails(x) \/ SetCancelEvent(x)
  PROVE  RecordInv'
<1> DEFINE r == attempt[x]
<1>1. r \in AttemptRecord /\ Sound(x) /\ cancelled \subseteq Plans /\ faults \in 0..MaxFaults
      /\ \A o \in DOMAIN store : store[o] = "whole"
  BY DEF RecordInv, RecordTypes
<1>2. ASSUME NEW place, MoveTo(x, place), UNCHANGED <<logs, manifests, cancelled, faults>>,
             \/ r.at = "close" /\ place = "log"
             \/ r.at = "log" /\ place = "manifest"
             \/ r.at = "report" /\ place = "publish",
             DOMAIN store \subseteq DOMAIN store', \A o \in DOMAIN store' : store'[o] = "whole"
      PROVE  RecordInv'
  <2> DEFINE a == [r EXCEPT !.at = place]
  <2>1. /\ a \in AttemptRecord /\ a.at = place /\ a.file = r.file /\ a.scenario = r.scenario
        /\ a.anchor = r.anchor /\ a.outcome = r.outcome /\ a.kept = r.kept
    BY <1>1, <1>2, ControlPoints DEF AttemptRecord
  <2>2. Set(x, a)
    BY <1>2 DEF MoveTo
  <2> HIDE DEF a
  <2>3. a.at = "publish" => Len(logs[x]) = RunsOf(x) /\ \A i \in 1..Len(logs[x]) : RunListed(x, i)
    BY <1>1, <1>2, <2>1 DEF Sound
  <2>4. r.file = "none"
    BY <1>1, <1>2 DEF Sound
  <2>5. Sound(x)'
    BY <1>2, <2>1, <2>2, <2>3, <2>4, ControlPoints, SoundMove
  <2> QED BY <1>1, <1>2, <2>1, <2>2, <2>5, ControlPoints, Moves
<1>3. CASE CloseSession(x)
  BY <1>1, <1>2, <1>3 DEF CloseSession, IsAt
<1>4. CASE PutOutputs(x)
  <2>1. /\ DOMAIN store' = Outputs(x) \cup DOMAIN store
        /\ \A o \in DOMAIN store' : store'[o] = IF o \in Outputs(x) THEN "whole" ELSE store[o]
    BY <1>4 DEF PutOutputs, Put
  <2> QED BY <1>1, <1>2, <1>4, <2>1 DEF PutOutputs, IsAt
<1>5. CASE ExecutionFails(x)
  BY <1>1, <1>5, ControlPoints, RunConstants, EndsKeepRecords DEF ExecutionFails, Fault
<1>6. CASE SetCancelEvent(x)
  <2>1. UNCHANGED <<attempt, logs, store, manifests, faults>> /\ cancelled' \subseteq Plans
    BY <1>1, <1>6 DEF SetCancelEvent
  <2> QED BY <2>1, NothingMoves, <1>1 DEF RecordInv, RecordTypes
<1> QED BY <1>3, <1>4, <1>5, <1>6

\* x is in its run, and has written what it knows.
LEMMA DriverWrites ==
  ASSUME RecordInv, NEW x \in Attempts, NEW a \in AttemptRecord, NEW log \in LogRecord,
         Set(x, a), Emit(x, log), attempt[x].at \in InRun, a.at \in InRun,
         UNCHANGED <<store, manifests>>, cancelled' \subseteq Plans, faults' \in 0..MaxFaults,
         a.scenario = attempt[x].scenario, a.anchor = attempt[x].anchor,
         a.file # "none" => a.at = "snapshot", a.at # "name",
         a.at \in {"begin", "loop", "decide"} => a.outcome = "none",
         a.at = "decide" => a.steps < MaxRunSteps,
         a.at = "finalize" => a.outcome # "none",
         a.outcome \in {"none", "ended"} => a.kept = log.snapshots,
         a.at \in {"close", "log", "manifest"} =>
           log.finished # <<>> /\ log.finished[Len(log.finished)] = a.outcome,
         \A h \in log.snapshots : StateObject(a.scenario, h) \in DOMAIN store
  PROVE  RecordInv'
<1> DEFINE n == Len(logs[x])
<1>1. /\ n \in Nat \ {0} /\ Len(logs'[x]) = n /\ logs'[x][n] = log
      /\ \A r \in 1..n : r # n => logs'[x][r] = logs[x][r]
  BY Written
<1>2. Sound(x) /\ attempt'[x] = a
  BY DEF RecordInv, RecordTypes, Set
<1>3. /\ \A r : RunListed(x, r)' <=> RunListed(x, r)
      /\ \A r : ScenarioOf(x, r)' = ScenarioOf(x, r)
  BY <1>2 DEF RunListed, ScenarioOf
<1>4. ScenarioOf(x, n) = a.scenario
  BY <1>2 DEF Sound, ScenarioOf
<1>5. \A r \in 1..n : r < n => RunListed(x, r)
  BY <1>2 DEF Sound
<1>6. \A r \in 1..n : \A h \in logs'[x][r].snapshots :
        StateObject(ScenarioOf(x, r), h) \in DOMAIN store
  BY <1>1, <1>2, <1>4 DEF Sound
<1>7. n <= RunsOf(x) /\ (x \in Plans => a.anchor = NoState /\ a.scenario = n)
  BY <1>2 DEF Sound
<1>8. a.at \notin {"lost", "idle", "plan", "next", "report", "publish"}
  BY ControlPoints
<1> HIDE DEF n
<1>9. Sound(x)'
  <2>1. Len(logs[x])' = n /\ logs'[x][n] = log
    BY <1>1 DEF n
  <2> QED BY <1>1, <1>2, <1>3, <1>5, <1>6, <1>7, <1>8, <2>1 DEF Sound, StateObject, RunsOf
<1> QED BY <1>9, Writes

LEMMA LeavesLoop ==
  ASSUME RecordInv, NEW x \in Attempts, NEW how \in RunStatuses, LeaveLoop(x, how),
         attempt[x].at \in {"loop", "decide"}, UNCHANGED <<store, manifests, cancelled, faults>>,
         \/ UNCHANGED logs
         \/ \E b \in BOOLEAN : Emit(x, [Log(x) EXCEPT !.asked = b])
  PROVE  RecordInv'
<1> DEFINE r == attempt[x]
           place == IF r.steps # r.saved THEN "snapshot" ELSE "finalize"
           a == [r EXCEPT !.outcome = how, !.at = place]
<1>1. /\ r \in AttemptRecord /\ Sound(x) /\ cancelled' \subseteq Plans /\ faults' \in 0..MaxFaults
      /\ \A o \in DOMAIN store : store[o] = "whole"
  BY DEF RecordInv, RecordTypes
<1>2. /\ a \in AttemptRecord /\ a.at \in {"snapshot", "finalize"} /\ a.file = r.file
      /\ a.scenario = r.scenario /\ a.anchor = r.anchor /\ a.outcome = how /\ a.kept = r.kept
  <2>1. place \in {"snapshot", "finalize"}
    OBVIOUS
  <2> HIDE DEF place
  <2> QED BY <1>1, <2>1, ControlPoints DEF AttemptRecord, InDriver
<1>3. Set(x, a)
  BY DEF LeaveLoop
<1> HIDE DEF a
<1>4. r.outcome = "none" /\ how # "none" /\ r.file = "none" /\ r.at \in InRun
  BY <1>1, ControlPoints DEF Sound, RunStatuses
<1>5. CASE UNCHANGED logs
  <2>1. Sound(x)'
    BY <1>1, <1>2, <1>3, <1>4, <1>5, ControlPoints, SoundMove
  <2> QED BY <1>1, <1>2, <1>3, <1>4, <1>5, <2>1, ControlPoints, Moves
<1>6. ASSUME NEW b \in BOOLEAN, Emit(x, [Log(x) EXCEPT !.asked = b]) PROVE RecordInv'
  <2> DEFINE log == [Log(x) EXCEPT !.asked = b]
  <2>1. /\ Log(x) \in LogRecord
        /\ \A h \in Log(x).snapshots : StateObject(r.scenario, h) \in DOMAIN store
        /\ r.kept = Log(x).snapshots
    BY <1>4 DEF RecordInv, RecordTypes, Sound, Log, ScenarioOf
  <2>2. log \in LogRecord /\ log.snapshots = Log(x).snapshots
    BY <2>1 DEF LogRecord
  <2>3. Emit(x, log)
    BY <1>6
  <2> HIDE DEF log
  <2> QED BY <1>1, <1>2, <1>3, <1>4, <2>1, <2>2, <2>3, ControlPoints, DriverWrites
<1> QED BY <1>5, <1>6

\* What a driver has in hand.
LEMMA PresentRun ==
  ASSUME RecordInv, NEW x \in Attempts, attempt[x].at \in InRun
  PROVE  LET r == attempt[x] IN
         /\ r \in AttemptRecord /\ Log(x) \in LogRecord
         /\ \A h \in Log(x).snapshots : StateObject(r.scenario, h) \in DOMAIN store
         /\ r.outcome \in {"none", "ended"} => r.kept = Log(x).snapshots
         /\ r.file # "none" => r.at = "snapshot"
         /\ r.at \in {"begin", "loop", "decide"} => r.outcome = "none"
         /\ cancelled \subseteq Plans /\ faults \in 0..MaxFaults
BY ControlPoints DEF RecordInv, RecordTypes, Sound, Log, ScenarioOf

LEMMA DriveKeeps == ASSUME RecordInv, NEW x \in Attempts, Drive(x) PROVE RecordInv'
<1> DEFINE r == attempt[x]
<1>1. r.at \in InRun
  BY DEF Drive, EnterRun, NameSnapshot, Loop, Decide, Finalize, CloseSession, RunFails, InRun,
         InDriver, IsAt
<1>2. /\ r \in AttemptRecord /\ Log(x) \in LogRecord /\ Sound(x)
      /\ \A h \in Log(x).snapshots : StateObject(r.scenario, h) \in DOMAIN store
      /\ r.outcome \in {"none", "ended"} => r.kept = Log(x).snapshots
      /\ r.file # "none" => r.at = "snapshot"
      /\ r.at \in {"begin", "loop", "decide"} => r.outcome = "none"
      /\ cancelled \subseteq Plans /\ faults \in 0..MaxFaults
  BY <1>1, PresentRun DEF RecordInv
<1>3. CASE EnterRun(x)
  <2>0. r.at = "begin" /\ UNCHANGED <<store, manifests, cancelled, faults>>
    BY <1>3 DEF EnterRun, IsAt
  <2>1. ASSUME Set(x, [r EXCEPT !.at = "log", !.outcome = "CANCELLED"]),
               Emit(x, [Log(x) EXCEPT !.finished = <<"CANCELLED">>])
        PROVE  RecordInv'
    <3> DEFINE a == [r EXCEPT !.at = "log", !.outcome = "CANCELLED"]
               log == [Log(x) EXCEPT !.finished = <<"CANCELLED">>]
    <3>1. /\ a \in AttemptRecord /\ a.at = "log" /\ a.outcome = "CANCELLED" /\ a.file = r.file
          /\ a.scenario = r.scenario /\ a.anchor = r.anchor
      BY <1>2, ControlPoints DEF AttemptRecord, RunStatuses
    <3>2. <<"CANCELLED">> \in Seq(RunStatuses) /\ Len(<<"CANCELLED">>) = 1
      BY DEF RunStatuses
    <3>3. log \in LogRecord /\ log.snapshots = Log(x).snapshots /\ log.finished = <<"CANCELLED">>
      BY <1>2, <3>2 DEF LogRecord
    <3>4. Set(x, a) /\ Emit(x, log)
      BY <2>1
    <3>5. log.finished # <<>> /\ log.finished[Len(log.finished)] = a.outcome
      BY <3>1, <3>2, <3>3
    <3> HIDE DEF a, log
    <3> QED BY <1>1, <1>2, <2>0, <3>1, <3>3, <3>4, <3>5, ControlPoints, DriverWrites
  <2>2. ASSUME NEW a \in AttemptRecord, Set(x, a), a.at \in {"snapshot", "loop"},
               a.file = r.file, a.scenario = r.scenario, a.anchor = r.anchor, a.outcome = r.outcome,
               a.kept = r.kept, Emit(x, [Log(x) EXCEPT !.reset = TRUE])
        PROVE  RecordInv'
    <3> DEFINE log == [Log(x) EXCEPT !.reset = TRUE]
    <3>1. log \in LogRecord /\ log.snapshots = Log(x).snapshots
      BY <1>2 DEF LogRecord
    <3>2. Emit(x, log)
      BY <2>2
    <3> HIDE DEF log
    <3> QED BY <1>1, <1>2, <2>0, <2>2, <3>1, <3>2, ControlPoints, DriverWrites
  <2>3. ASSUME MoveTo(x, "snapshot"), Emit(x, [Log(x) EXCEPT !.reset = TRUE]) PROVE RecordInv'
    <3> DEFINE a == [r EXCEPT !.at = "snapshot"]
    <3>1. /\ a \in AttemptRecord /\ a.at = "snapshot" /\ a.file = r.file /\ a.scenario = r.scenario
          /\ a.anchor = r.anchor /\ a.outcome = r.outcome /\ a.kept = r.kept
      BY <1>2, ControlPoints DEF AttemptRecord, InDriver
    <3>2. Set(x, a)
      BY <2>3 DEF MoveTo
    <3> HIDE DEF a
    <3> QED BY <2>2, <2>3, <3>1, <3>2
  <2>4. ASSUME r.anchor # NoState, Set(x, [r EXCEPT !.at = "loop", !.history = r.anchor]),
               Emit(x, [Log(x) EXCEPT !.reset = TRUE])
        PROVE  RecordInv'
    <3> DEFINE a == [r EXCEPT !.at = "loop", !.history = r.anchor]
    <3>1. /\ a \in AttemptRecord /\ a.at = "loop" /\ a.file = r.file /\ a.scenario = r.scenario
          /\ a.anchor = r.anchor /\ a.outcome = r.outcome /\ a.kept = r.kept
      BY <1>2, <2>4, ControlPoints DEF AttemptRecord, InDriver
    <3>2. Set(x, a)
      BY <2>4
    <3> HIDE DEF a
    <3> QED BY <2>2, <2>4, <3>1, <3>2
  <2> QED BY <1>3, <2>1, <2>3, <2>4 DEF EnterRun
<1>4. CASE NameSnapshot(x)
  <2> DEFINE place == IF r.outcome = "none" THEN "loop" ELSE "finalize"
             taken == r.kept \cup {r.history}
             a == [r EXCEPT !.at = place, !.kept = taken, !.saved = r.steps]
             log == [Log(x) EXCEPT !.snapshots = Log(x).snapshots \cup {r.history}]
  <2>1. /\ Set(x, a) /\ Emit(x, log) /\ UNCHANGED <<store, manifests, cancelled, faults>>
        /\ r.at = "name"
    BY <1>4 DEF NameSnapshot, IsAt
  <2>2. /\ place \in {"loop", "finalize"} /\ (place = "loop" <=> r.outcome = "none")
        /\ taken \in SUBSET Taken /\ r.steps \in Int
    BY <1>2, RunConstants DEF AttemptRecord
  <2> HIDE DEF place, taken
  <2>3. /\ a \in AttemptRecord /\ a.at = place /\ a.file = r.file /\ a.scenario = r.scenario
        /\ a.anchor = r.anchor /\ a.outcome = r.outcome /\ a.kept = taken
    BY <1>2, <2>2, ControlPoints DEF AttemptRecord, InDriver
  <2>4. log \in LogRecord /\ log.snapshots = Log(x).snapshots \cup {r.history}
    BY <1>2 DEF LogRecord, AttemptRecord
  <2> HIDE DEF a, log
  <2>5. \A h \in log.snapshots : StateObject(a.scenario, h) \in DOMAIN store
    BY <1>2, <2>1, <2>3, <2>4 DEF Sound
  <2>6. a.outcome \in {"none", "ended"} => a.kept = log.snapshots
    BY <1>2, <2>3, <2>4 DEF taken
  <2>7. a.at \in InRun /\ r.file = "none"
    BY <1>2, <2>1, <2>2, <2>3, ControlPoints
  <2> QED BY <1>1, <1>2, <2>1, <2>2, <2>3, <2>4, <2>5, <2>6, <2>7, DriverWrites
<1>5. CASE Loop(x)
  <2>0. r.at = "loop" /\ UNCHANGED <<store, manifests, cancelled, faults>>
    BY <1>5 DEF Loop, IsAt
  <2>1. CASE \E how \in RunStatuses : LeaveLoop(x, how) /\ UNCHANGED logs
    BY <2>0, <2>1, LeavesLoop
  <2>2. ASSUME r.steps < MaxRunSteps, MoveTo(x, "decide"), Emit(x, [Log(x) EXCEPT !.asked = TRUE])
        PROVE  RecordInv'
    <3> DEFINE a == [r EXCEPT !.at = "decide"]
               log == [Log(x) EXCEPT !.asked = TRUE]
    <3>1. /\ a \in AttemptRecord /\ a.at = "decide" /\ a.file = r.file /\ a.scenario = r.scenario
          /\ a.anchor = r.anchor /\ a.outcome = r.outcome /\ a.kept = r.kept /\ a.steps = r.steps
      BY <1>2, ControlPoints DEF AttemptRecord, InDriver
    <3>2. log \in LogRecord /\ log.snapshots = Log(x).snapshots
      BY <1>2 DEF LogRecord
    <3>3. Set(x, a) /\ Emit(x, log)
      BY <2>2 DEF MoveTo
    <3> HIDE DEF a, log
    <3> QED BY <1>1, <1>2, <2>0, <2>2, <3>1, <3>2, <3>3, ControlPoints, DriverWrites
  <2> QED BY <1>5, <2>1, <2>2 DEF Loop, RunStatuses
<1>6. CASE Decide(x)
  <2>0. /\ r.at = "decide" /\ r.steps < MaxRunSteps
        /\ UNCHANGED <<store, manifests, cancelled, faults>>
    BY <1>2, <1>6 DEF Decide, IsAt, Sound
  <2>1. CASE LeaveLoop(x, "CANCELLED") /\ UNCHANGED logs
    BY <2>0, <2>1, LeavesLoop DEF RunStatuses
  <2>2. CASE LeaveLoop(x, "ended") /\ Emit(x, [Log(x) EXCEPT !.asked = FALSE])
    BY <2>0, <2>2, LeavesLoop DEF RunStatuses
  <2>3. ASSUME NEW place \in {"snapshot", "loop"}, Emit(x, [Log(x) EXCEPT !.asked = FALSE]),
               Set(x, [r EXCEPT !.at = place, !.steps = r.steps + 1,
                                !.history = Append(r.history, r.algorithm)])
        PROVE  RecordInv'
    <3> DEFINE later == Append(r.history, r.algorithm)
               a == [r EXCEPT !.at = place, !.steps = r.steps + 1, !.history = later]
               log == [Log(x) EXCEPT !.asked = FALSE]
    <3>1. later \in Taken /\ r.steps + 1 \in 0..MaxRunSteps
      BY <1>2, <2>0, RunConstants DEF AttemptRecord, Taken
    <3>2. Set(x, a) /\ Emit(x, log)
      BY <2>3
    <3> HIDE DEF later
    <3>3. /\ a \in AttemptRecord /\ a.at = place /\ a.file = r.file /\ a.scenario = r.scenario
          /\ a.anchor = r.anchor /\ a.outcome = r.outcome /\ a.kept = r.kept
      BY <1>2, <3>1, ControlPoints DEF AttemptRecord, InDriver
    <3>4. log \in LogRecord /\ log.snapshots = Log(x).snapshots
      BY <1>2 DEF LogRecord
    <3> HIDE DEF a, log
    <3>5. r.file = "none" /\ r.outcome = "none" /\ a.at \in InRun
      BY <1>2, <2>0, <3>3, ControlPoints
    <3> QED BY <1>1, <1>2, <2>0, <3>2, <3>3, <3>4, <3>5, DriverWrites
  <2> QED BY <1>6, <2>1, <2>2, <2>3 DEF Decide
<1>7. CASE Finalize(x)
  <2> DEFINE a == [r EXCEPT !.at = "close"]
             log == [Log(x) EXCEPT !.finished = <<r.outcome>>]
  <2>1. /\ r.at = "finalize" /\ UNCHANGED <<store, manifests, cancelled, faults>>
        /\ Set(x, a) /\ Emit(x, log) /\ r.outcome \in RunStatuses
    BY <1>2, <1>7 DEF Finalize, IsAt, MoveTo, Sound, AttemptRecord
  <2>2. /\ a \in AttemptRecord /\ a.at = "close" /\ a.file = r.file /\ a.scenario = r.scenario
        /\ a.anchor = r.anchor /\ a.outcome = r.outcome /\ a.kept = r.kept
    BY <1>2, ControlPoints DEF AttemptRecord, InDriver
  <2>3. <<r.outcome>> \in Seq(RunStatuses) /\ Len(<<r.outcome>>) = 1 /\ <<r.outcome>>[1] = r.outcome
    BY <2>1
  <2>4. log \in LogRecord /\ log.snapshots = Log(x).snapshots /\ log.finished = <<r.outcome>>
    BY <1>2, <2>3 DEF LogRecord
  <2>5. log.finished # <<>> /\ log.finished[Len(log.finished)] = a.outcome
    BY <2>2, <2>3, <2>4
  <2> HIDE DEF a, log
  <2> QED BY <1>1, <1>2, <2>1, <2>2, <2>4, <2>5, ControlPoints, DriverWrites
<1>8. CASE CloseSession(x)
  BY <1>8, OutsideKeeps
<1>9. CASE RunFails(x)
  <2> DEFINE how == IF x \in cancelled THEN "CANCELLED" ELSE "FAILED"
             ends == Append(Log(x).finished, how)
             a == [r EXCEPT !.at = "log", !.outcome = how, !.kept = {}, !.file = "none"]
             log == [Log(x) EXCEPT !.finished = ends]
  <2>1. /\ UNCHANGED <<store, manifests, cancelled>> /\ Set(x, a) /\ Emit(x, log)
        /\ faults < MaxFaults /\ faults' = faults + 1
    BY <1>9 DEF RunFails, Fault
  <2>2. how \in RunStatuses \ {"ended"} /\ how # "none"
    BY DEF RunStatuses
  <2> HIDE DEF how
  <2>3. ends \in Seq(RunStatuses) /\ ends # <<>> /\ ends[Len(ends)] = how
    BY <1>2, <2>2 DEF LogRecord
  <2> HIDE DEF ends
  <2>4. /\ a \in AttemptRecord /\ a.at = "log" /\ a.file = "none" /\ a.scenario = r.scenario
        /\ a.anchor = r.anchor /\ a.outcome = how
    BY <1>2, <2>2, ControlPoints DEF AttemptRecord
  <2>5. log \in LogRecord /\ log.snapshots = Log(x).snapshots /\ log.finished = ends
    BY <1>2, <2>3 DEF LogRecord
  <2> HIDE DEF a, log
  <2>6. faults' \in 0..MaxFaults
    BY <1>2, <2>1, RunConstants
  <2> QED BY <1>1, <1>2, <2>1, <2>2, <2>3, <2>4, <2>5, <2>6, ControlPoints, DriverWrites
<1> QED BY <1>3, <1>4, <1>5, <1>6, <1>7, <1>8, <1>9 DEF Drive

\* x sets out.
LEMMA SetsOut ==
  ASSUME RecordInv, NEW x \in Attempts, NEW a \in AttemptRecord, Set(x, a), attempt[x].at = "idle",
         a.at \in {"plan", "next"}, a.file = "none", x \in Plans => a.anchor = NoState,
         UNCHANGED <<logs, store, manifests, cancelled, faults>>
  PROVE  RecordInv'
<1>1. /\ Sound(x) /\ attempt'[x] = a /\ logs'[x] = logs[x] /\ logs[x] \in Seq(LogRecord)
      /\ logs' = [logs EXCEPT ![x] = logs[x]]
      /\ cancelled' \subseteq Plans /\ faults' \in 0..MaxFaults
      /\ \A o \in DOMAIN store' : store'[o] = "whole"
  BY DEF RecordInv, RecordTypes, Set
<1>2. Len(logs[x]) = 0 /\ ~\E m \in manifests : m.attempt = x
  BY <1>1 DEF Sound
<1>3. RunsOf(x) \in Nat
  BY RunConstants DEF RunsOf
<1>4. Sound(x)'
  BY <1>1, <1>2, <1>3, ControlPoints DEF Sound, RunsOf
<1> QED BY <1>1, <1>2, <1>4, OthersStay

LEMMA BeginningsKeepRecords ==
  ASSUME RecordInv, NEW x \in Attempts,
         \/ StartPlan(x)
         \/ \E y \in Attempts : \E r \in DOMAIN logs[y] :
              \/ \E state \in logs[y][r].snapshots, g \in Algorithms : Branch(x, y, r, state, g)
              \/ Reproduce(x, y, r)
  PROVE  RecordInv'
<1>1. /\ attempt[x] \in AttemptRecord /\ Sound(x)
      /\ attempt[x].at = "idle" => attempt[x].file = "none"
  BY DEF RecordInv, RecordTypes, Sound
<1>2. CASE StartPlan(x)
  <2> DEFINE a == [attempt[x] EXCEPT !.at = "plan"]
  <2>1. /\ a \in AttemptRecord /\ a.at = "plan" /\ a.file = attempt[x].file
        /\ a.anchor = attempt[x].anchor
    BY <1>1, ControlPoints DEF AttemptRecord
  <2>2. /\ Set(x, a) /\ attempt[x].at = "idle"
        /\ UNCHANGED <<logs, store, manifests, cancelled, faults>>
    BY <1>2 DEF StartPlan, MoveTo, IsAt
  <2> HIDE DEF a
  <2> QED BY <1>1, <2>1, <2>2, SetsOut DEF Sound
<1>3. ASSUME NEW y \in Attempts, NEW r \in DOMAIN logs[y]
      PROVE  /\ ScenarioOf(y, r) \in Nat /\ logs[y][r] \in LogRecord /\ attempt[y] \in AttemptRecord
             /\ r \in 1..Len(logs[y])
  BY DEF RecordInv, RecordTypes, ScenarioOf, AttemptRecord
<1>4. ASSUME x \in Replays, attempt[x].at = "idle", NEW scenario \in Nat,
             NEW state \in Taken \cup {NoState}, NEW g \in Algorithms,
             UNCHANGED <<logs, store, manifests, cancelled, faults>>,
             Set(x, [attempt[x] EXCEPT !.at = "next", !.scenario = scenario, !.anchor = state,
                                       !.algorithm = g])
      PROVE  RecordInv'
  <2> DEFINE a == [attempt[x] EXCEPT !.at = "next", !.scenario = scenario, !.anchor = state,
                                     !.algorithm = g]
  <2>1. a \in AttemptRecord /\ a.at = "next" /\ a.file = attempt[x].file
    BY <1>1, <1>4, ControlPoints DEF AttemptRecord
  <2>2. Set(x, a) /\ x \notin Plans
    BY <1>4, RunConstants
  <2> HIDE DEF a
  <2> QED BY <1>1, <1>4, <2>1, <2>2, SetsOut
<1>5. ASSUME NEW y \in Attempts, NEW r \in DOMAIN logs[y], NEW state \in logs[y][r].snapshots,
             NEW g \in Algorithms, Branch(x, y, r, state, g)
      PROVE  RecordInv'
  <2>1. state \in Taken /\ ScenarioOf(y, r) \in Nat
    BY <1>3 DEF LogRecord
  <2> QED BY <1>4, <1>5, <2>1 DEF Branch, IsAt
<1>6. ASSUME NEW y \in Attempts, NEW r \in DOMAIN logs[y], Reproduce(x, y, r) PROVE RecordInv'
  <2> DEFINE state == attempt[y].anchor
  <2>1. /\ state \in Taken \cup {NoState} /\ ScenarioOf(y, r) \in Nat
        /\ attempt[y].algorithm \in Algorithms
    BY <1>3 DEF AttemptRecord
  <2>2. state = NoState \/ Listed(StateObject(ScenarioOf(y, r), state))
    <3>1. PICK m \in manifests : m.attempt = y /\ m.run = 0
      BY <1>6 DEF Reproduce, Replayable, ExecutionManifest
    <3>2. state # NoState => StateObject(attempt[y].scenario, state) \in m.objects
      BY <3>1 DEF RecordInv, Reliable, Tells, Covers
    <3>3. state # NoState => ScenarioOf(y, r) = attempt[y].scenario
      BY DEF RecordInv, Sound, ScenarioOf
    <3> QED BY <3>2, <3>3 DEF Listed
  <2> QED BY <1>4, <1>6, <2>1, <2>2 DEF Reproduce, IsAt
<1> QED BY <1>2, <1>5, <1>6

LEMMA NextRunKeeps == ASSUME RecordInv, NEW x \in Attempts, NextRun(x) PROVE RecordInv'
<1> DEFINE r == attempt[x]
           n == Len(logs[x])
<1>1. /\ r \in AttemptRecord /\ Sound(x) /\ logs[x] \in Seq(LogRecord) /\ n \in Nat
      /\ r.at = "next" /\ UNCHANGED <<store, manifests, cancelled, faults>>
      /\ cancelled' \subseteq Plans /\ faults' \in 0..MaxFaults
      /\ \A o \in DOMAIN store' : store'[o] = "whole"
  BY DEF RecordInv, RecordTypes, NextRun, IsAt
<1>2. CASE EndAttempt(x, "over") /\ UNCHANGED logs
  BY <1>1, <1>2, EndsKeepRecords
<1>3. ASSUME r.outcome # "CANCELLED", n = RunsOf(x), MoveTo(x, "report"), UNCHANGED logs
      PROVE  RecordInv'
  <2> DEFINE a == [r EXCEPT !.at = "report"]
  <2>1. /\ a \in AttemptRecord /\ a.at = "report" /\ a.file = r.file /\ a.scenario = r.scenario
        /\ a.anchor = r.anchor
    BY <1>1, ControlPoints DEF AttemptRecord
  <2>2. Set(x, a)
    BY <1>3 DEF MoveTo
  <2> HIDE DEF a
  <2>3. r.file = "none" /\ \A i \in 1..n : RunListed(x, i)
    BY <1>1, <1>3 DEF Sound
  <2>4. Sound(x)'
    BY <1>1, <1>3, <2>1, <2>2, <2>3, ControlPoints, SoundMove
  <2> QED BY <1>1, <1>3, <2>1, <2>2, <2>4, ControlPoints, Moves
<1>4. ASSUME NEW scenario, scenario = IF x \in Plans THEN n + 1 ELSE r.scenario,
             r.outcome # "CANCELLED", n # RunsOf(x),
             logs' = [logs EXCEPT ![x] = Append(@, EmptyLog)],
             Set(x, [r EXCEPT !.at = "begin", !.outcome = "none", !.kept = {}, !.steps = 0,
                              !.saved = -1, !.history = <<>>, !.scenario = scenario])
      PROVE  RecordInv'
  <2> DEFINE a == [r EXCEPT !.at = "begin", !.outcome = "none", !.kept = {}, !.steps = 0,
                            !.saved = -1, !.history = <<>>, !.scenario = scenario]
             l == Append(logs[x], EmptyLog)
  <2>1. scenario \in Nat /\ <<>> \in Taken /\ {} \in SUBSET Taken /\ 0 \in 0..MaxRunSteps
    BY <1>1, <1>4, RunConstants DEF AttemptRecord, Taken
  <2>2. /\ a \in AttemptRecord /\ a.at = "begin" /\ a.file = r.file /\ a.scenario = scenario
        /\ a.anchor = r.anchor /\ a.outcome = "none" /\ a.kept = {}
    <3> DEFINE none == {}
               nothing == <<>>
               never == -1
               b == [r EXCEPT !.at = "begin", !.outcome = "none", !.kept = none, !.steps = 0,
                              !.saved = never, !.history = nothing, !.scenario = scenario]
    <3>1. none \in SUBSET Taken /\ nothing \in Taken /\ never \in Int
      BY <2>1
    <3> HIDE DEF none, nothing, never
    <3>2. b \in AttemptRecord
      BY <1>1, <2>1, <3>1, ControlPoints DEF AttemptRecord, InDriver
    <3>3. /\ b.at = "begin" /\ b.file = r.file /\ b.scenario = scenario
          /\ b.anchor = r.anchor /\ b.outcome = "none" /\ b.kept = none
      BY <1>1, <2>1, <3>1 DEF AttemptRecord
    <3> QED BY <3>2, <3>3 DEF none, nothing, never
  <2>3. EmptyLog \in LogRecord /\ EmptyLog.snapshots = {}
    BY DEF EmptyLog, LogRecord
  <2>4. /\ l \in Seq(LogRecord) /\ Len(l) = n + 1 /\ l[n + 1] = EmptyLog
        /\ \A i \in 1..n : l[i] = logs[x][i]
    BY <1>1, <2>3
  <2>5. Set(x, a) /\ logs' = [logs EXCEPT ![x] = l]
    BY <1>4
  <2> HIDE DEF a, l
  <2>6. attempt'[x] = a /\ logs'[x] = l
    BY <2>5 DEF RecordInv, RecordTypes, Set
  <2>7. /\ \A i : RunListed(x, i)' <=> RunListed(x, i)
        /\ r.file = "none" /\ n + 1 <= RunsOf(x) /\ (\A i \in 1..n : RunListed(x, i))
        /\ x \in Plans => r.anchor = NoState
    <3>1. RunsOf(x) \in Nat
      BY RunConstants DEF RunsOf
    <3> QED BY <1>1, <1>4, <3>1 DEF Sound, RunListed
  <2>8. \A i \in 1..n : ScenarioOf(x, i)' = ScenarioOf(x, i)
    BY <1>4, <2>2, <2>6 DEF ScenarioOf
  <2>9. \A i \in 1..n + 1 : \A h \in l[i].snapshots :
          StateObject(ScenarioOf(x, i)', h) \in DOMAIN store
    <3>1. \A i \in 1..n + 1 : i \in 1..n \/ i = n + 1
      BY <1>1
    <3>2. \A i \in 1..n : \A h \in logs[x][i].snapshots :
            StateObject(ScenarioOf(x, i), h) \in DOMAIN store
      BY <1>1 DEF Sound
    <3> QED BY <2>3, <2>4, <2>8, <3>1, <3>2
  <2>10. Sound(x)'
    <3>1. Len(logs'[x]) = n + 1 /\ logs'[x][n + 1] = EmptyLog /\ n + 1 # 0
      BY <1>1, <2>4, <2>6
    <3>2. \A i \in 1..n + 1 : i < n + 1 => RunListed(x, i)'
      BY <1>1, <2>7
    <3>3. \A i \in 1..n + 1 : \A h \in logs'[x][i].snapshots :
            StateObject(ScenarioOf(x, i)', h) \in DOMAIN store'
      BY <1>1, <2>6, <2>9
    <3>4. x \in Plans => a.scenario = n + 1 /\ a.anchor = NoState
      BY <1>4, <2>2, <2>7
    <3>5. /\ a.at \in InRun
          /\ a.at \notin {"lost", "idle", "plan", "next", "snapshot", "name", "decide", "finalize",
                          "report", "publish", "close", "log", "manifest"}
      BY <2>2, ControlPoints
    <3>6. a.kept = logs'[x][n + 1].snapshots
      BY <2>2, <2>3, <3>1
    <3> QED BY <2>2, <2>6, <2>7, <3>1, <3>2, <3>3, <3>4, <3>5, <3>6 DEF Sound, StateObject, RunsOf
  <2>11. \A m \in manifests : m.attempt = x => Reliable(m)'
    <3>1. Len(logs[x]) <= Len(l) /\ Len(logs[x]) < Len(l)
      BY <1>1, <2>4
    <3>2. \A i \in 1..Len(logs[x]) :
             attempt[x].at \notin InRun \/ i < Len(logs[x]) => l[i] = logs[x][i]
      BY <2>4
    <3>3. x \in Replays => a.scenario = attempt[x].scenario
      BY <1>4, <2>2, RunConstants
    <3> QED BY <1>1, <2>2, <2>4, <2>5, <3>1, <3>2, <3>3, StillReliable
  <2> QED BY <1>1, <2>2, <2>4, <2>5, <2>10, <2>11, OthersStay
<1> QED BY <1>1, <1>2, <1>3, <1>4 DEF NextRun

LEMMA ManifestKeeps == ASSUME RecordInv, NEW x \in Attempts, WriteRunManifest(x) PROVE RecordInv'
<1> DEFINE r == attempt[x]
           n == Len(logs[x])
           objects == {StateObject(r.scenario, h) : h \in r.kept}
                        \cup {Own(x, "log"), Own(x, "result")}
           new == [attempt |-> x, run |-> n, status |-> r.outcome, objects |-> objects]
           a == [r EXCEPT !.at = "next"]
<1>1. /\ r \in AttemptRecord /\ Sound(x) /\ logs[x] \in Seq(LogRecord) /\ n \in Nat
      /\ logs' = [logs EXCEPT ![x] = logs[x]]
      /\ r.at = "manifest" /\ UNCHANGED <<logs, store, cancelled, faults>>
      /\ cancelled' \subseteq Plans /\ faults' \in 0..MaxFaults
      /\ \A o \in DOMAIN store' : store'[o] = "whole"
  BY DEF RecordInv, RecordTypes, WriteRunManifest, IsAt
<1>2. manifests' = manifests \cup {new} /\ Set(x, a)
  BY DEF WriteRunManifest, Write, MoveTo
<1>3. /\ a \in AttemptRecord /\ a.at = "next" /\ a.file = r.file /\ a.scenario = r.scenario
      /\ a.anchor = r.anchor /\ a.outcome = r.outcome
  BY <1>1, ControlPoints DEF AttemptRecord
<1>4. new.attempt = x /\ new.run = n /\ new.status = r.outcome /\ new.objects = objects
  OBVIOUS
<1> HIDE DEF a, new
<1>5. attempt'[x] = a /\ logs'[x] = logs[x]
  BY <1>1, <1>2 DEF RecordInv, RecordTypes, Set
<1>6. /\ n # 0 /\ n <= RunsOf(x) /\ (x \in Plans => r.scenario = n /\ r.anchor = NoState)
      /\ r.outcome \in {"none", "ended"} => r.kept = logs[x][n].snapshots
      /\ logs[x][n].finished # <<>> /\ logs[x][n].finished[Len(logs[x][n].finished)] = r.outcome
      /\ \A i \in 1..n : i < n => RunListed(x, i)
      /\ \A i \in 1..n : \A h \in logs[x][i].snapshots :
           StateObject(ScenarioOf(x, i), h) \in DOMAIN store
      /\ r.file = "none"
  BY <1>1, ControlPoints DEF Sound
<1>7. \A i : ScenarioOf(x, i)' = ScenarioOf(x, i)
  BY <1>3, <1>5 DEF ScenarioOf
<1>8. ScenarioOf(x, n) = r.scenario
  BY <1>6 DEF ScenarioOf
<1>9. /\ \A i : RunListed(x, i) => RunListed(x, i)'
      /\ r.outcome # "CANCELLED" => RunListed(x, n)'
  <2>1. new \in manifests'
    BY <1>2
  <2>2. r.outcome # "CANCELLED" =>
          \E m \in manifests' : m.attempt = x /\ m.run = n /\ m.status # "CANCELLED"
    BY <1>4, <2>1
  <2>3. n' = n
    BY <1>1
  <2> QED BY <1>2, <2>2, <2>3 DEF RunListed
<1>10. Sound(x)'
  <2>1. \A i \in 1..n : i < n \/ i = n
    BY <1>1
  <2> QED BY <1>1, <1>3, <1>5, <1>6, <1>7, <1>9, <2>1, ControlPoints DEF Sound, StateObject, RunsOf
<1>11. \A m \in manifests : m.attempt = x => Reliable(m)'
  <2>1. Len(logs[x]) <= Len(logs[x])
    BY <1>1
  <2>2. \A i \in 1..Len(logs[x]) :
             attempt[x].at \notin InRun \/ i < Len(logs[x]) => logs[x][i] = logs[x][i]
    OBVIOUS
  <2>3. x \in Replays => a.scenario = attempt[x].scenario
    BY <1>3
  <2>4. r.at # "done" /\ a.at \notin InRun
    BY <1>1, <1>3, ControlPoints
  <2> QED BY <1>1, <1>2, <1>3, <2>1, <2>2, <2>3, <2>4, StillReliable
<1>12. ASSUME NEW m, m = new PROVE Reliable(m)'
  <2>1. /\ Own(x, "log")[1] # "snapshot" /\ Own(x, "result")[1] # "snapshot"
        /\ \A h : StateObject(r.scenario, h)[1] = "snapshot"
    BY DEF Own, StateObject
  <2>2. {o \in objects : o[1] = "snapshot"} = {StateObject(r.scenario, h) : h \in r.kept}
    BY <2>1
  <2> HIDE DEF objects
  <2>3. r.outcome = "ended" =>
          {o \in m.objects : o[1] = "snapshot"}
            = {StateObject(ScenarioOf(x, n)', h) : h \in logs'[x][n].snapshots}
    BY <1>4, <1>5, <1>6, <1>7, <1>8, <1>12, <2>2
  <2>4. n \in 0..n /\ n > 0
    BY <1>1, <1>6
  <2>5. m.attempt = x /\ m.run = n /\ m.status = r.outcome
    BY <1>4, <1>12
  <2>6. a.at \notin InRun
    BY <1>3, ControlPoints
  <2> QED BY <1>3, <1>5, <1>6, <2>3, <2>4, <2>5, <2>6 DEF Reliable, Tells, Covers, StateObject
<1>13. \A m \in manifests' \ manifests : m.attempt = x /\ Reliable(m)'
  BY <1>2, <1>4, <1>12
<1> QED BY <1>1, <1>2, <1>3, <1>10, <1>11, <1>13, OthersStay

LEMMA PublishKeeps == ASSUME RecordInv, NEW x \in Attempts, PublishExecution(x) PROVE RecordInv'
<1> DEFINE r == attempt[x]
           n == Len(logs[x])
           runs == UNION {m.objects : m \in {k \in manifests : k.attempt = x}}
           objects == {Own(x, "report"), IF x \in Plans THEN ThePlan ELSE Own(x, "plan")}
                        \cup Provenance(x) \cup runs
           new == [attempt |-> x, run |-> 0, status |-> "ended", objects |-> objects]
           a == Ended(x, "done")
<1>1. /\ Sound(x) /\ logs[x] \in Seq(LogRecord) /\ n \in Nat
      /\ logs' = [logs EXCEPT ![x] = logs[x]]
      /\ r.at = "publish" /\ UNCHANGED <<logs, store, cancelled, faults>>
      /\ cancelled' \subseteq Plans /\ faults' \in 0..MaxFaults
      /\ \A o \in DOMAIN store' : store'[o] = "whole"
  BY DEF RecordInv, RecordTypes, PublishExecution, IsAt
<1>2. manifests' = manifests \cup {new} /\ Set(x, a)
  BY DEF PublishExecution, Write, EndAttempt
<1>3. /\ a \in AttemptRecord /\ a.at = "done" /\ a.file = "none" /\ a.scenario = r.scenario
      /\ a.anchor = r.anchor /\ a.outcome = "none"
  BY EndedIs
<1>4. new.attempt = x /\ new.run = 0 /\ new.objects = objects
  OBVIOUS
<1> HIDE DEF a, new
<1>5. attempt'[x] = a /\ logs'[x] = logs[x]
  BY <1>1, <1>2 DEF RecordInv, RecordTypes, Set
<1>6. /\ n = RunsOf(x) /\ (x \in Plans => r.anchor = NoState)
      /\ \A i \in 1..n : RunListed(x, i)
      /\ \A i \in 1..n : \A h \in logs[x][i].snapshots :
           StateObject(ScenarioOf(x, i), h) \in DOMAIN store
  BY <1>1, ControlPoints DEF Sound
<1>7. \A i : ScenarioOf(x, i)' = ScenarioOf(x, i)
  BY <1>3, <1>5 DEF ScenarioOf
<1>8. Sound(x)'
  BY <1>1, <1>3, <1>5, <1>6, <1>7, ControlPoints DEF Sound, StateObject, RunsOf
<1>9. \A m \in manifests : m.attempt = x => Reliable(m)'
  <2>1. Len(logs[x]) <= Len(logs[x])
    BY <1>1
  <2>2. \A i \in 1..Len(logs[x]) :
             attempt[x].at \notin InRun \/ i < Len(logs[x]) => logs[x][i] = logs[x][i]
    OBVIOUS
  <2>3. x \in Replays => a.scenario = attempt[x].scenario
    BY <1>3
  <2>4. r.at # "done" /\ a.at \notin InRun
    BY <1>1, <1>3, ControlPoints
  <2> QED BY <1>1, <1>2, <1>3, <2>1, <2>2, <2>3, <2>4, StillReliable
<1>10. ASSUME NEW m, m = new PROVE Reliable(m)'
  <2>1. a.anchor # NoState => StateObject(a.scenario, a.anchor) \in objects
    BY <1>3 DEF Provenance
  <2>2. \A i \in 1..n : \E k \in manifests' :
          k.attempt = x /\ k.run = i /\ k.status # "CANCELLED" /\ k.objects \subseteq objects
    BY <1>2, <1>6 DEF RunListed
  <2> HIDE DEF objects
  <2>3. m.attempt = x /\ m.run = 0 /\ m.objects = objects /\ 0 \in 0..n
    BY <1>1, <1>4, <1>10
  <2>4. /\ attempt'[x].at = "done" /\ Len(logs[x])' = n /\ RunsOf(x) = n
        /\ attempt'[x].anchor # NoState =>
             StateObject(attempt'[x].scenario, attempt'[x].anchor) \in m.objects
    BY <1>3, <1>5, <1>6, <2>1, <2>3
  <2> QED BY <2>2, <2>3, <2>4 DEF Reliable, Tells, Covers, StateObject, RunsOf
<1>11. \A m \in manifests' \ manifests : m.attempt = x /\ Reliable(m)'
  BY <1>2, <1>4, <1>10
<1> QED BY <1>1, <1>2, <1>3, <1>8, <1>9, <1>11, OthersStay

LEMMA ProcessEndKeeps == ASSUME RecordInv, ProcessEnds PROVE RecordInv'
<1>1. /\ UNCHANGED <<logs, store, manifests, cancelled>>
      /\ faults' = faults + 1 /\ faults < MaxFaults
      /\ attempt' = [x \in Attempts |->
                       IF attempt[x].at \in Over THEN attempt[x] ELSE Ended(x, "over")]
  BY DEF ProcessEnds, Fault
<1>2. ASSUME NEW x \in Attempts
      PROVE  /\ attempt'[x] \in AttemptRecord /\ attempt'[x].scenario = attempt[x].scenario
             /\ attempt'[x].anchor = attempt[x].anchor
             /\ \/ attempt'[x] = attempt[x]
                \/ /\ attempt'[x].at = "over" /\ attempt'[x].file = "none"
                   /\ attempt[x].at # "done"
  BY <1>1, EndedIs, ControlPoints DEF RecordInv, RecordTypes
<1>3. RecordTypes'
  <2>1. attempt' \in [Attempts -> AttemptRecord]
    BY <1>1, <1>2
  <2> QED BY <1>1, <2>1, RunConstants DEF RecordInv, RecordTypes
<1>4. /\ \A x, i : RunListed(x, i)' <=> RunListed(x, i)
      /\ \A x \in Attempts : \A i : ScenarioOf(x, i)' = ScenarioOf(x, i)
  BY <1>1, <1>2 DEF RunListed, ScenarioOf
<1>5. ASSUME NEW x \in Attempts PROVE Sound(x)'
  <2>1. Sound(x)
    BY DEF RecordInv
  <2>2. CASE attempt'[x] = attempt[x]
    BY <1>1, <1>4, <2>1, <2>2 DEF Sound, StateObject, RunsOf
  <2>3. CASE attempt'[x].at = "over" /\ attempt'[x].file = "none"
    BY <1>1, <1>2, <1>4, <2>1, <2>3, ControlPoints DEF Sound, StateObject, RunsOf
  <2> QED BY <1>2, <2>2, <2>3
<1>6. ASSUME NEW m \in manifests PROVE Reliable(m)'
  <2> DEFINE x == m.attempt
  <2>1. Reliable(m) /\ x \in Attempts
    BY DEF RecordInv, Reliable
  <2>2. attempt'[x].at \in InRun => attempt[x].at \in InRun
    BY <1>2, <2>1, ControlPoints
  <2>3. attempt[x].at = "done" => attempt'[x].at = "done"
    BY <1>2, <2>1
  <2>4. attempt'[x].scenario = attempt[x].scenario /\ attempt'[x].anchor = attempt[x].anchor
        /\ ScenarioOf(x, m.run)' = ScenarioOf(x, m.run)
    BY <1>2, <1>4, <2>1
  <2>5. Tells(m, x)'
    BY <1>1, <2>1, <2>2, <2>4 DEF Reliable, Tells, StateObject
  <2>6. Covers(m, x)'
    BY <1>1, <2>1, <2>3, <2>4 DEF Reliable, Covers, StateObject, RunsOf
  <2> QED BY <1>1, <2>1, <2>5, <2>6 DEF Reliable
<1> QED BY <1>1, <1>3, <1>5, <1>6 DEF RecordInv

LEMMA NextRecords == RecordInv /\ [RunsNext]_runsVars => RecordInv'
<1> SUFFICES ASSUME RecordInv, [RunsNext]_runsVars PROVE RecordInv'
  OBVIOUS
<1>1. CASE UNCHANGED runsVars
  BY <1>1, NothingMoves DEF runsVars, RecordInv, RecordTypes
<1>2. CASE RunsNext
  BY <1>2, BeginningsKeepRecords, NextRunKeeps, PutsKeep, DriveKeeps, OutsideKeeps, ManifestKeeps,
     PublishKeeps, ProcessEndKeeps DEF RunsNext
<1> QED BY <1>1, <1>2

LEMMA RecordsHold == RunsSpec => []RecordInv
BY InitRecords, NextRecords, PTL DEF RunsSpec

\* For any number of executions, replays, runs, steps and faults: each variable of Runs keeps
\* its type, and a manifest is of a run that the plan has (orchestrator.py, runtimes.py).
THEOREM RunsAreTyped == RunsSpec => []RunsTypeOK
<1>1. RecordInv => RunsTypeOK
  <2> SUFFICES ASSUME RecordInv PROVE RunsTypeOK
    OBVIOUS
  <2>1. ASSUME NEW x \in Attempts
        PROVE  /\ attempt[x].at \in InDriver \cup Outside \cup Over
               /\ attempt[x].outcome \in RunStatuses \cup {"none"}
               /\ attempt[x].file \in {"none", "part", "whole"}
               /\ attempt[x].steps \in 0..MaxRunSteps
               /\ logs[x] \in Seq([reset : BOOLEAN, asked : BOOLEAN,
                                   snapshots : SUBSET Seq(Algorithms), finished : Seq(RunStatuses)])
    BY DEF RecordInv, RecordTypes, AttemptRecord, LogRecord, Taken
  <2>2. ASSUME NEW m \in manifests PROVE m.attempt \in Attempts /\ m.run \in 0..RunsOf(m.attempt)
    <3>1. /\ m.attempt \in Attempts /\ m.run \in 0..Len(logs[m.attempt])
          /\ Len(logs[m.attempt]) \in Nat
      BY DEF RecordInv, RecordTypes, Reliable
    <3>2. Len(logs[m.attempt]) <= RunsOf(m.attempt) /\ RunsOf(m.attempt) \in Nat
      BY <3>1, RunConstants DEF RecordInv, Sound, RunsOf
    <3> QED BY <3>1, <3>2
  <2> QED BY <2>1, <2>2 DEF RunsTypeOK, RecordInv, RecordTypes
<1> QED BY <1>1, RecordsHold, PTL

\* For any number of executions side by side, crashes and calls that raise: an object of the
\* store is whole and each snapshot a log names is there, a manifest tells what the log of its
\* run tells, that of an execution comes after those of all its runs, and a replay finds the
\* snapshot it starts from (artifacts.py, orchestrator.py, replay_orchestrator.py).
THEOREM RecordsCanBeTrusted == RunsSpec => []RecordsAreTrue
<1>1. RecordInv => RecordsAreTrue
  <2> SUFFICES ASSUME RecordInv PROVE RecordsAreTrue
    OBVIOUS
  <2>1. SnapshotsAreThere
    <3>1. \A x \in Attempts : DOMAIN logs[x] = 1..Len(logs[x])
      BY DEF RecordInv, RecordTypes
    <3> QED BY <3>1 DEF RecordInv, Sound, SnapshotsAreThere
  <2>2. ASSUME NEW m \in manifests
        PROVE  IF m.run > 0
               THEN LET log == logs[m.attempt][m.run] IN
                    /\ log.finished # <<>> /\ log.finished[Len(log.finished)] = m.status
                    /\ m.status = "ended" =>
                         {o \in m.objects : o[1] = "snapshot"}
                           = {StateObject(ScenarioOf(m.attempt, m.run), h) : h \in log.snapshots}
               ELSE \A r \in 1..RunsOf(m.attempt) : \E n \in manifests :
                      /\ n.attempt = m.attempt /\ n.run = r /\ n.status # "CANCELLED"
                      /\ n.objects \subseteq m.objects
    <3>1. Reliable(m)
      BY DEF RecordInv
    <3>2. m.run > 0 \/ m.run = 0
      BY <3>1 DEF Reliable, RecordInv, RecordTypes
    <3> QED BY <3>1, <3>2 DEF Reliable, Tells, Covers
  <2>3. ManifestsAgree
    BY <2>2 DEF ManifestsAgree
  <2>4. ReplaysFindTheirState
    BY DEF RecordInv, Sound, ReplaysFindTheirState, IsAt
  <2> QED BY <2>1, <2>3, <2>4 DEF RecordsAreTrue
<1> QED BY <1>1, RecordsHold, PTL
=============================================================================
