----------------------------- MODULE Executions -----------------------------
(***************************************************************************)
(* The life of one execution of the algorithm platform: its durable record *)
(* (executions.py), the request that creates it, the background thread     *)
(* that carries it out (_execute_in_background, LocalOrchestrator.execute),*)
(* the cancel and delete requests that race with it, each in a thread of   *)
(* the server's pool (algorithm_platform_routes.py), and the restart of    *)
(* the platform's process.                                                 *)
(*                                                                         *)
(* The record is written under the repository's lock, so that a transition *)
(* is atomic; a status read earlier may be stale by the time it is used.   *)
(* cancel_event is set only when the status is CANCEL_REQUESTED or later,  *)
(* hence reading the status and then the event is modelled in one step.    *)
(***************************************************************************)
EXTENDS Naturals, Sequences

CONSTANTS
  Cancellers,          \* the cancel requests
  NumRuns,             \* the runs of the execution's plan
  MaxRestarts          \* bound on the restarts of the process

ASSUME ExecutionConstants == NumRuns \in Nat /\ MaxRestarts \in Nat

VARIABLES
  status,              \* status of the record on disk
  registered,          \* the id is in _execution_threads, _execution_cancel_events
  cancel_event,        \* the event is set
  creator,             \* control point of create_execution
  worker,              \* control point of _execute_in_background
  results,             \* results of the runs of the plan so far
  caller,              \* caller[c]: control point of cancel request c
  restarts

recordVars  == <<status, registered>>
workerVars  == <<worker, results>>
vars == <<recordVars, cancel_event, creator, workerVars, caller, restarts>>

Terminal == {"SUCCEEDED", "FAILED", "CANCELLED"}
Statuses == Terminal \cup {"absent", "DRAFT", "COMPILED", "RUNNING",
                           "CANCEL_REQUESTED", "archived"}

RunResults == {"succeeded", "failed"}

\* _TRANSITIONS
Transitions ==
  {<<"DRAFT", "COMPILED">>, <<"DRAFT", "FAILED">>,
   <<"COMPILED", "RUNNING">>, <<"COMPILED", "CANCEL_REQUESTED">>,
   <<"COMPILED", "FAILED">>,
   <<"RUNNING", "SUCCEEDED">>, <<"RUNNING", "FAILED">>,
   <<"RUNNING", "CANCEL_REQUESTED">>,
   <<"CANCEL_REQUESTED", "CANCELLED">>}

\* The repository accepts the transition; otherwise it raises ValueError.
Allowed(s) == <<status, s>> \in Transitions

Init ==
  /\ status = "absent" /\ registered = FALSE /\ cancel_event = FALSE
  /\ creator = "idle"
  /\ worker = "none" /\ results = <<>>
  /\ caller = [c \in Cancellers |-> "idle"]
  /\ restarts = 0

-----------------------------------------------------------------------------
(* create_execution: a record, its compiled plan, and a thread.            *)

CreateRecord ==
  /\ creator = "idle"
  /\ status' = "DRAFT"
  /\ creator' = "drafted"
  /\ UNCHANGED <<registered, cancel_event, workerVars, caller, restarts>>

CompileRecord ==
  /\ creator = "drafted"
  /\ status' = "COMPILED"
  /\ creator' = "compiled"
  /\ UNCHANGED <<registered, cancel_event, workerVars, caller, restarts>>

Register ==
  /\ creator = "compiled"
  /\ registered' = TRUE
  /\ creator' = "registered"
  /\ UNCHANGED <<status, cancel_event, workerVars, caller, restarts>>

StartThread ==
  /\ creator = "registered"
  /\ worker' = "start"
  /\ creator' = "done"
  /\ UNCHANGED <<recordVars, cancel_event, results, caller, restarts>>

\* thread.start raises: the id is taken back, then the record is failed.
StartFails ==
  /\ creator = "registered"
  /\ registered' = FALSE
  /\ creator' = "failing"
  /\ UNCHANGED <<status, cancel_event, workerVars, caller, restarts>>

FailCreation ==
  /\ creator = "failing"
  /\ status' = IF Allowed("FAILED") THEN "FAILED" ELSE status
  /\ creator' = "done"
  /\ UNCHANGED <<registered, cancel_event, workerVars, caller, restarts>>

Create == \/ CreateRecord \/ CompileRecord \/ Register
          \/ StartThread \/ StartFails \/ FailCreation

-----------------------------------------------------------------------------
(* _execute_in_background.                                                 *)

\* The next control point of the worker, and nothing else.
Goto(place) ==
  /\ worker' = place
  /\ UNCHANGED <<recordVars, cancel_event, creator, results, caller, restarts>>

\* A transition the worker asks for; ValueError takes it to otherwise.
Transition(s, otherwise) ==
  /\ status' = IF Allowed(s) THEN s ELSE status
  /\ worker' = IF Allowed(s) THEN "finally" ELSE otherwise
  /\ UNCHANGED <<registered, cancel_event, creator, results, caller, restarts>>

WorkerStart ==
  /\ worker = "start"
  /\ Goto(IF cancel_event THEN "cancel" ELSE "begin")

MarkStarted ==
  /\ worker = "begin"
  /\ status' = IF Allowed("RUNNING") THEN "RUNNING" ELSE status
  /\ worker' = IF Allowed("RUNNING") THEN "next" ELSE "except"
  /\ UNCHANGED <<registered, cancel_event, creator, results, caller, restarts>>

\* LocalOrchestrator.execute: _raise_if_cancelled, then one run of the plan.
BeginRun ==
  /\ worker = "next" /\ Len(results) < NumRuns
  /\ Goto(IF cancel_event THEN "cancel" ELSE "solving")

\* Mutant: the run whose cancellation is seen is counted and left open.
EndRunTwice(result) ==
  /\ worker = "solving"
  /\ results' = Append(results, result)
  /\ worker' = IF cancel_event THEN "solving" ELSE "next"
  /\ UNCHANGED <<recordVars, cancel_event, creator, caller, restarts>>

\* A run that is CANCELLED by the event, or ends when the event is set, raises
\* AlgorithmExecutionCancelled; "failed" stands for TIMED_OUT as well.
EndRun(result) ==
  /\ worker = "solving"
  /\ IF cancel_event
     THEN worker' = "cancel" /\ UNCHANGED results
     ELSE worker' = "next" /\ results' = Append(results, result)
  /\ UNCHANGED <<recordVars, cancel_event, creator, caller, restarts>>

\* Any other error of the orchestrator: artifacts, files, plugins.
RunRaises == worker \in {"next", "solving"} /\ Goto("except")

\* Mutant: only the last run's result counts.
FailedRunsLastOnly == Len(results) > 0 /\ results[Len(results)] = "failed"

FailedRuns == \E i \in DOMAIN results : results[i] = "failed"

\* After the last run the worker reads the record, and decides the outcome.
DecideOutcome ==
  /\ worker = "next" /\ Len(results) = NumRuns
  /\ Goto(IF cancel_event \/ status = "CANCEL_REQUESTED" THEN "cancel"
          ELSE IF FailedRuns THEN "runs_failed" ELSE "runs_succeeded")

\* Mutant: the outcome is written whatever the record has become.
MarkSucceededUnchecked ==
  /\ worker = "runs_succeeded"
  /\ status' = "SUCCEEDED"
  /\ worker' = "finally"
  /\ UNCHANGED <<registered, cancel_event, creator, results, caller, restarts>>

MarkSucceeded == worker = "runs_succeeded" /\ Transition("SUCCEEDED", "except")

MarkRunsFailed == worker = "runs_failed" /\ Transition("FAILED", "except")

\* Mutant: an error is not recorded.
ExceptUnrecorded ==
  /\ worker = "except"
  /\ Goto(IF cancel_event \/ status = "CANCEL_REQUESTED" THEN "cancel"
          ELSE "finally")

\* except Exception: reads the record again, and decides what to write.
Except ==
  /\ worker = "except"
  /\ Goto(IF cancel_event \/ status = "CANCEL_REQUESTED" THEN "cancel"
          ELSE IF status \in {"DRAFT", "COMPILED", "RUNNING"} THEN "error"
          ELSE "finally")

\* A ValueError raised here, in the except clause itself, ends the thread.
MarkError == worker = "error" /\ Transition("FAILED", "finally")

\* _cancel_execution_record
CancelRecord ==
  /\ worker = "cancel"
  /\ status' = IF status \in {"COMPILED", "RUNNING", "CANCEL_REQUESTED"}
               THEN "CANCELLED" ELSE status
  /\ worker' = "finally"
  /\ UNCHANGED <<registered, cancel_event, creator, results, caller, restarts>>

Deregister ==
  /\ worker = "finally"
  /\ registered' = FALSE
  /\ worker' = "none"
  /\ UNCHANGED <<status, cancel_event, creator, results, caller, restarts>>

Work == \/ WorkerStart \/ MarkStarted \/ BeginRun \/ DecideOutcome
        \/ \E result \in RunResults : EndRun(result)
        \/ MarkSucceeded \/ MarkRunsFailed \/ Except \/ MarkError
        \/ CancelRecord \/ Deregister

-----------------------------------------------------------------------------
(* cancel_execution.  "set" stands before cancel_event.set(), "accepted"   *)
(* and "conflict" are the replies 202 and 409.                             *)

CallerGoto(c, place) ==
  /\ caller' = [caller EXCEPT ![c] = place]
  /\ UNCHANGED <<recordVars, creator, workerVars, restarts>>

ReadRecord(c) ==
  /\ caller[c] = "idle" /\ status \notin {"absent", "archived"}
  /\ CallerGoto(c, CASE status \in {"CANCEL_REQUESTED", "CANCELLED"} -> "again"
                     [] status \in {"COMPILED", "RUNNING"} -> "lookup"
                     [] OTHER -> "conflict")
  /\ UNCHANGED cancel_event

LookupEvent(c) ==
  /\ caller[c] = "lookup"
  /\ CallerGoto(c, IF registered THEN "request" ELSE "conflict")
  /\ UNCHANGED cancel_event

\* Mutant: the reply is sent before the event is set.
RequestCancelReplied(c) ==
  /\ caller[c] = "request"
  /\ status' = IF Allowed("CANCEL_REQUESTED") THEN "CANCEL_REQUESTED" ELSE status
  /\ caller' = [caller EXCEPT ![c] =
       IF status' \in {"CANCEL_REQUESTED", "CANCELLED"} THEN "accepted"
       ELSE "conflict"]
  /\ UNCHANGED <<registered, cancel_event, creator, workerVars, restarts>>

RequestCancel(c) ==
  /\ caller[c] = "request"
  /\ status' = IF Allowed("CANCEL_REQUESTED") THEN "CANCEL_REQUESTED" ELSE status
  /\ caller' = [caller EXCEPT ![c] =
       IF status' \in {"CANCEL_REQUESTED", "CANCELLED"} THEN "set"
       ELSE "conflict"]
  /\ UNCHANGED <<registered, cancel_event, creator, workerVars, restarts>>

SetEvent(c) ==
  /\ caller[c] = "set"
  /\ cancel_event' = TRUE
  /\ CallerGoto(c, "accepted")

\* The execution was cancelled before: set its event if it is still there.
SetEventAgain(c) ==
  /\ caller[c] = "again"
  /\ cancel_event' = (cancel_event \/ registered)
  /\ CallerGoto(c, "accepted")

Cancel(c) == \/ ReadRecord(c) \/ LookupEvent(c) \/ RequestCancel(c)
             \/ SetEvent(c) \/ SetEventAgain(c)

-----------------------------------------------------------------------------
\* Mutant: a thread that has yet to end is no obstacle.
DeleteWhileWorking ==
  /\ status \in Terminal
  /\ status' = "archived"
  /\ UNCHANGED <<registered, cancel_event, creator, workerVars, caller, restarts>>

\* delete_execution, of a training record.
Delete ==
  /\ status \in Terminal /\ ~registered
  /\ status' = "archived"
  /\ UNCHANGED <<registered, cancel_event, creator, workerVars, caller, restarts>>

\* The process ends with all its threads, and recover_interrupted closes the
\* record before the next one serves requests.
Restart ==
  /\ restarts < MaxRestarts /\ status # "absent"
  /\ restarts' = restarts + 1
  /\ status' = IF status = "CANCEL_REQUESTED" THEN "CANCELLED"
               ELSE IF status \in {"DRAFT", "COMPILED", "RUNNING"} THEN "FAILED"
               ELSE status
  /\ registered' = FALSE /\ cancel_event' = FALSE
  /\ creator' = "done" /\ worker' = "none"
  /\ caller' = [c \in Cancellers |->
       IF caller[c] \in {"accepted", "conflict", "idle"} THEN caller[c] ELSE "lost"]
  /\ UNCHANGED results

Next == \/ Create \/ Work \/ RunRaises
        \/ \E c \in Cancellers : Cancel(c)
        \/ Delete \/ Restart

Spec == Init /\ [][Next]_vars

\* Threads go on, and every run ends; errors, deletions and restarts may or
\* may not come, and a request for cancellation is free not to be made.
Fairness ==
  /\ WF_vars(Create)
  /\ WF_vars(Work)
  /\ \A c \in Cancellers : WF_vars(caller[c] # "idle" /\ Cancel(c))

FairSpec == Spec /\ Fairness

-----------------------------------------------------------------------------
TypeOK ==
  /\ status \in Statuses
  /\ registered \in BOOLEAN /\ cancel_event \in BOOLEAN
  /\ creator \in {"idle", "drafted", "compiled", "registered", "failing", "done"}
  /\ worker \in {"none", "start", "begin", "next", "solving", "runs_succeeded",
                 "runs_failed", "except", "error", "cancel", "finally"}
  /\ results \in Seq(RunResults) /\ Len(results) <= NumRuns
  /\ caller \in [Cancellers -> {"idle", "lookup", "request", "set", "again",
                                "accepted", "conflict", "lost"}]
  /\ restarts \in 0..MaxRestarts

\* A cancellation answered with 202 is binding: the execution never succeeds
\* or fails afterwards, although the worker decides its outcome from a status
\* it read before (algorithm_platform_routes.py:1143-1176).
AcceptedCancelIsBinding ==
  (\E c \in Cancellers : caller[c] = "accepted")
    => status \notin {"COMPILED", "RUNNING", "SUCCEEDED", "FAILED"}

\* Once a cancellation is answered no further run of the plan is begun.
NoRunAfterCancel ==
  [][(\E c \in Cancellers : caller[c] = "accepted") /\ worker' = "solving"
       => worker = "solving"]_vars

\* SUCCEEDED says that every run of the plan was carried out and none failed.
SuccessIsComplete ==
  status = "SUCCEEDED" =>
    Len(results) = NumRuns /\ \A i \in DOMAIN results : results[i] = "succeeded"

\* A record is deleted only when nothing is left that could still write to it
\* or to the data of its execution.
ArchivedIsQuiet == status = "archived" => worker = "none" /\ creator = "done"

\* Whatever fails, in the thread, in its creation or in the process, the record
\* does not stay RUNNING (or DRAFT, or COMPILED).
RecordSettles ==
  status \in {"DRAFT", "COMPILED", "RUNNING"}
    ~> status \in Terminal \cup {"CANCEL_REQUESTED", "archived"}

\* "the status first becomes cancel_requested, and cancelled once the algorithm
\* has reached a place where it can stop" (docs/QUICKSTART.md:112).
CancelEnds == status = "CANCEL_REQUESTED" ~> status = "CANCELLED"

\* It does when the orchestrator raises no error of its own and the thread of
\* the execution can be started.
CancelEndsCleanly ==
  [](worker # "error" /\ creator # "failing") => CancelEnds

\* Whatever happens, the record comes to an end.
ExecutionsEnd == RecordSettles /\ CancelEndsCleanly
=============================================================================
