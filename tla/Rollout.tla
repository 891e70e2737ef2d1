------------------------------ MODULE Rollout ------------------------------
(***************************************************************************)
(* The collection of episodes by worker processes (parallel_rollout.py).   *)
(* The parent calls collect once per round, with the weights of a policy:  *)
(* each worker it uses gets one job, and another whenever it has answered. *)
(* With stop_after_each_worker a barrier ends the round when every worker  *)
(* has completed an episode: what is not complete by then is discarded, by *)
(* the worker when it looks, or else by the parent when it gets the result.*)
(* The parent and a worker share two events and a pipe; the weights are    *)
(* represented by the number of the round.                                 *)
(***************************************************************************)
EXTENDS Naturals, Sequences, FiniteSets

CONSTANTS
  NumEnvs,             \* num_envs
  JobCounts,           \* the numbers of jobs of a round that are tried
  MaxRounds,           \* bound on the calls of collect
  MaxFailures          \* bound on the workers that fail

ASSUME RolloutConstants ==
  /\ {NumEnvs, MaxRounds} \cup JobCounts \subseteq Nat \ {0} /\ MaxFailures \in Nat
  /\ IsFiniteSet(JobCounts) /\ JobCounts # {}

MaxJobs == CHOOSE n \in JobCounts : \A k \in JobCounts : k <= n

EnvWorkers == 1..NumEnvs
Busy == {"collecting", "reported"}

VARIABLES
  parent,              \* what the parent does
  ready,               \* the workers whose message ready it has read
  round,               \* the number of calls of collect
  dynamic, total,      \* stop_after_each_worker, len(jobs)
  active,              \* active[w]: the job of worker w, 0 if it has none
  dispatched,          \* next_job: the jobs given out
  trajectories,        \* jobs and the weights their trajectory was made with
  discarded,           \* discarded_episode_ids
  completed,           \* completed_per_worker is not 0
  stopping,            \* the barrier is passed: cutoff is set
  round_finished, stop_event,
  to_worker, from_worker,   \* the pipe
  process, job, weights,    \* of a worker process
  failed,              \* how many failed
  punctual             \* history: jobs of the round complete before the cutoff

roundVars  == <<round, dynamic, total, dispatched, trajectories, discarded, completed,
                stopping, round_finished>>
samplingVars == <<process, job, weights, punctual>>
rolloutVars == <<parent, ready, active, roundVars, stop_event, to_worker, from_worker,
                 samplingVars, failed>>

RolloutInit ==
  /\ parent = "starting" /\ ready = {}
  /\ round = 0 /\ dynamic = FALSE /\ total = 0
  /\ active = [w \in EnvWorkers |-> 0] /\ dispatched = 0
  /\ trajectories = {} /\ discarded = {} /\ completed = {} /\ stopping = FALSE
  /\ round_finished = FALSE /\ stop_event = FALSE
  /\ to_worker = [w \in EnvWorkers |-> <<>>] /\ from_worker = [w \in EnvWorkers |-> <<>>]
  /\ process = [w \in EnvWorkers |-> "starting"]
  /\ job = [w \in EnvWorkers |-> 0] /\ weights = [w \in EnvWorkers |-> 0]
  /\ failed = 0 /\ punctual = {}

-----------------------------------------------------------------------------
(* _sampling_worker.                                                       *)

Tell(w, message) == from_worker' = [from_worker EXCEPT ![w] = Append(@, message)]
Becomes(w, state) == process' = [process EXCEPT ![w] = state]

WorkerReady(w) ==
  /\ process[w] = "starting"
  /\ Becomes(w, "waiting") /\ Tell(w, <<"ready">>)
  /\ UNCHANGED <<parent, ready, active, roundVars, stop_event, to_worker, job, weights,
                 punctual, failed>>

IsTold(w, command) == to_worker[w] # <<>> /\ Head(to_worker[w])[1] = command

ReceiveJob(w) ==
  /\ process[w] = "waiting" /\ IsTold(w, "collect")
  /\ LET command == Head(to_worker[w]) IN
       /\ job' = [job EXCEPT ![w] = command[2]]
       /\ weights' = IF command[3] = 0 THEN weights ELSE [weights EXCEPT ![w] = command[3]]
  /\ to_worker' = [to_worker EXCEPT ![w] = Tail(@)]
  /\ Becomes(w, "collecting")
  /\ UNCHANGED <<parent, ready, active, roundVars, stop_event, from_worker,
                 punctual, failed>>

\* Once for each job here, every 100 steps in the code.
ReportProgress(w) ==
  /\ process[w] = "collecting" /\ ~stop_event /\ ~round_finished
  /\ Becomes(w, "reported") /\ Tell(w, <<"progress", job[w]>>)
  /\ UNCHANGED <<parent, ready, active, roundVars, stop_event, to_worker, job, weights,
                 punctual, failed>>

\* The last step of the episode is made: collected_at is now.
CompleteEpisode(w) ==
  /\ process[w] \in Busy
  /\ Becomes(w, IF stopping THEN "late" ELSE "complete")
  /\ punctual' = IF stopping THEN punctual ELSE punctual \cup {job[w]}
  /\ UNCHANGED <<parent, ready, active, roundVars, stop_event, to_worker, from_worker,
                 job, weights, failed>>

SendResultTimed(w) ==                                \* mutant: late when it is sent
  /\ process[w] \in {"complete", "late"}
  /\ Becomes(w, "waiting") /\ job' = [job EXCEPT ![w] = 0]
  /\ Tell(w, <<"result", job[w], weights[w], stopping>>)
  /\ UNCHANGED <<parent, ready, active, roundVars, stop_event, to_worker, weights, punctual,
                 failed>>
SendResult(w) ==
  /\ process[w] \in {"complete", "late"}
  /\ Becomes(w, "waiting") /\ job' = [job EXCEPT ![w] = 0]
  /\ Tell(w, <<"result", job[w], weights[w], process[w] = "late">>)
  /\ UNCHANGED <<parent, ready, active, roundVars, stop_event, to_worker, weights, punctual,
                 failed>>

\* check_cancelled finds round_finished.
DiscardEpisode(w) ==
  /\ process[w] \in Busy /\ round_finished /\ ~stop_event
  /\ Becomes(w, "waiting") /\ Tell(w, <<"discarded", job[w]>>)
  /\ job' = [job EXCEPT ![w] = 0]
  /\ UNCHANGED <<parent, ready, active, roundVars, stop_event, to_worker, weights, punctual,
                 failed>>

\* The worker is told to close, or finds stop_event between or within episodes.
LeaveWorker(w) ==
  /\ \/ process[w] = "waiting" /\ (stop_event \/ IsTold(w, "close"))
     \/ process[w] \in Busy /\ stop_event
  /\ Becomes(w, "exited")
  /\ IF process[w] = "waiting" THEN UNCHANGED from_worker ELSE Tell(w, <<"error">>)
  /\ UNCHANGED <<parent, ready, active, roundVars, stop_event, to_worker, job, weights,
                 punctual, failed>>

\* An exception, which is reported, or the death of the process.
FailWorker(w) ==
  /\ process[w] # "exited" /\ failed < MaxFailures /\ failed' = failed + 1
  /\ Becomes(w, "exited")
  /\ Tell(w, <<"error">>) \/ UNCHANGED from_worker
  /\ UNCHANGED <<parent, ready, active, roundVars, stop_event, to_worker, job, weights,
                 punctual>>

-----------------------------------------------------------------------------
(* The parent.                                                             *)

Readable(w) == from_worker[w] # <<>> \/ process[w] = "exited"
\* An error, or the end of the pipe.
Broken(w) == from_worker[w] = <<>> \/ Head(from_worker[w])[1] = "error"

Raise == parent' = "raised"

\* _wait_ready.
ReadReady(w) ==
  /\ parent = "starting" /\ w \notin ready /\ Readable(w)
  /\ IF Broken(w)
     THEN Raise /\ UNCHANGED <<ready, from_worker>>
     ELSE /\ ready' = ready \cup {w}
          /\ from_worker' = [from_worker EXCEPT ![w] = Tail(@)]
          /\ UNCHANGED parent
  /\ UNCHANGED <<active, roundVars, stop_event, to_worker, samplingVars, failed>>

Used(n) == {w \in EnvWorkers : w <= n}   \* workers: the first of them

\* collect(jobs), up to its loop.  A worker that is gone makes dispatch raise.
StartRound(n, dyn) ==
  /\ parent = "starting" /\ ready = EnvWorkers /\ round < MaxRounds
  /\ round' = round + 1 /\ dynamic' = dyn /\ total' = n
  /\ round_finished' = FALSE /\ discarded' = {} /\ trajectories' = {} /\ completed' = {}
  /\ stopping' = FALSE /\ punctual' = {}
  /\ dispatched' = Cardinality(Used(n))
  /\ active' = [w \in EnvWorkers |-> IF w \in Used(n) THEN w ELSE 0]
  /\ to_worker' = [w \in EnvWorkers |->
                     IF w \in Used(n) THEN Append(to_worker[w], <<"collect", w, round'>>)
                     ELSE to_worker[w]]
  /\ IF \E w \in Used(n) : process[w] = "exited" THEN Raise ELSE parent' = "collecting"
  /\ UNCHANGED <<ready, stop_event, from_worker, process, job, weights, failed>>

Answered == {w \in EnvWorkers : active[w] # 0 /\ Readable(w)}

\* The trajectories and what is dropped among the messages that are read.
Message(w) == Head(from_worker[w])
Answers(kind) == {w \in Answered : ~Broken(w) /\ Message(w)[1] = kind}
KeptBy == {w \in Answers("result") : ~Message(w)[4]}
DroppedBy == Answers("discarded") \cup (Answers("result") \ KeptBy)

\* One pass of the loop: a message of each connection that has one, the barrier, and
\* the next jobs, without weights, to the workers that are free, in their order.
Pass ==
  /\ parent = "collecting" /\ Answered # {}
  /\ IF \E w \in Answered : Broken(w)
     THEN Raise /\ UNCHANGED <<active, roundVars, to_worker, from_worker>>
     ELSE LET idle == KeptBy \cup DroppedBy
              barrier == dynamic /\ completed' = Used(total)
              free == {w \in Used(total) : w \in idle \/ active[w] = 0}
              rank(w) == Cardinality({v \in free : v <= w})
              given == IF stopping' THEN {}
                       ELSE {w \in free : dispatched + rank(w) <= total}
          IN /\ from_worker' = [w \in EnvWorkers |->
                  IF w \in Answered THEN Tail(from_worker[w]) ELSE from_worker[w]]
             /\ trajectories' = trajectories \cup {<<active[w], Message(w)[3]>> : w \in KeptBy}
             /\ completed' = completed \cup KeptBy
             /\ discarded' = discarded \cup {active[w] : w \in DroppedBy}
             /\ stopping' = (stopping \/ barrier)
             /\ round_finished' = (round_finished \/ barrier)
             /\ dispatched' = dispatched + Cardinality(given)
             /\ active' = [w \in EnvWorkers |->
                  IF w \in given THEN dispatched + rank(w)
                  ELSE IF w \in idle THEN 0 ELSE active[w]]
             /\ to_worker' = [w \in EnvWorkers |->
                  IF w \in given
                  THEN Append(to_worker[w], <<"collect", dispatched + rank(w), 0>>)
                  ELSE to_worker[w]]
             /\ IF \E w \in given : process[w] = "exited" THEN Raise ELSE UNCHANGED parent
             /\ UNCHANGED <<round, dynamic, total>>
  /\ UNCHANGED <<ready, stop_event, samplingVars, failed>>

\* No job is active.  The caller may call collect again.
ReturnBatch ==
  /\ parent = "collecting" /\ \A w \in EnvWorkers : active[w] = 0
  /\ parent' = "returned"
  /\ UNCHANGED <<ready, active, roundVars, stop_event, to_worker, from_worker,
                 samplingVars, failed>>

CollectAgain ==
  /\ parent = "returned" /\ round < MaxRounds /\ parent' = "starting"
  /\ UNCHANGED <<ready, active, roundVars, stop_event, to_worker, from_worker,
                 samplingVars, failed>>

\* cancel_check raises.
CancelCollect ==
  /\ parent \in {"starting", "collecting"} /\ Raise
  /\ UNCHANGED <<ready, active, roundVars, stop_event, to_worker, from_worker,
                 samplingVars, failed>>

\* The with statement of the caller ends, by an exception or not.
CloseCollector ==
  /\ parent \in {"returned", "raised"} /\ parent' = "closing"
  /\ stop_event' = TRUE
  /\ to_worker' = [w \in EnvWorkers |-> Append(to_worker[w], <<"close">>)]
  /\ UNCHANGED <<ready, active, roundVars, from_worker, samplingVars, failed>>

\* Five seconds later.
TerminateWorker(w) ==
  /\ parent = "closing" /\ process[w] # "exited" /\ Becomes(w, "exited")
  /\ UNCHANGED <<parent, ready, active, roundVars, stop_event, to_worker, from_worker, job,
                 weights, punctual, failed>>

EndClose ==
  /\ parent = "closing" /\ \A w \in EnvWorkers : process[w] = "exited"
  /\ parent' = "closed"
  /\ UNCHANGED <<ready, active, roundVars, stop_event, to_worker, from_worker,
                 samplingVars, failed>>

WorkerStep(w) ==
  \/ WorkerReady(w) \/ ReceiveJob(w) \/ ReportProgress(w) \/ CompleteEpisode(w)
  \/ SendResult(w) \/ DiscardEpisode(w) \/ LeaveWorker(w)
ParentStep ==
  \/ \E w \in EnvWorkers : ReadReady(w) \/ TerminateWorker(w)
  \/ \E n \in JobCounts, dyn \in BOOLEAN : StartRound(n, dyn)
  \/ Pass \/ ReturnBatch \/ CloseCollector \/ EndClose

RolloutNext ==
  \/ \E w \in EnvWorkers : WorkerStep(w) \/ FailWorker(w)
  \/ ParentStep \/ CollectAgain \/ CancelCollect

\* Episodes are bounded by max_steps; the parent polls every quarter of a second.
RolloutFairness == /\ \A w \in EnvWorkers : WF_rolloutVars(WorkerStep(w))
                   /\ WF_rolloutVars(ParentStep)
RolloutSpec == RolloutInit /\ [][RolloutNext]_rolloutVars /\ RolloutFairness

-----------------------------------------------------------------------------
RolloutTypeOK ==
  /\ parent \in {"starting", "collecting", "returned", "raised", "closing", "closed"}
  /\ ready \subseteq EnvWorkers /\ completed \subseteq EnvWorkers
  /\ round \in 0..MaxRounds /\ total \in 0..MaxJobs /\ dispatched \in 0..total
  /\ active \in [EnvWorkers -> 0..MaxJobs]
  /\ trajectories \subseteq (1..MaxJobs) \X (1..MaxRounds) /\ discarded \subseteq 1..MaxJobs
  /\ {dynamic, stopping, round_finished, stop_event} \subseteq BOOLEAN
  /\ process \in [EnvWorkers -> {"starting", "waiting", "complete", "late", "exited"} \cup Busy]
  /\ job \in [EnvWorkers -> 0..MaxJobs] /\ weights \in [EnvWorkers -> 0..MaxRounds]

Collected == {r[1] : r \in trajectories}

\* A batch accounts for each job that was given out once: it is collected, with the
\* weights of this very round although most jobs were sent without, or it is
\* discarded; and every episode that was complete before the barrier is in it,
\* however late its result came.  Each worker contributes; without a barrier nothing
\* is discarded.
BatchIsExact ==
  parent = "returned" =>
    /\ Collected \cup discarded = 1..dispatched /\ Collected \cap discarded = {}
    /\ \A r \in trajectories : r[2] = round
    /\ punctual = Collected
    /\ completed = Used(total)
    /\ ~dynamic => Collected = 1..total

\* Between rounds no worker is at work, nothing is in a pipe, and so nothing of one
\* round is taken for an answer of the next.
NoStaleMessages ==
  parent = "returned" =>
    \A w \in EnvWorkers : process[w] # "exited" =>
      process[w] = "waiting" /\ to_worker[w] = <<>> /\ from_worker[w] = <<>>

\* A progress message that is read is about the job the parent thinks w is at.
AnswersAreCurrent ==
  parent = "collecting" => \A w \in Answered :
    ~Broken(w) => Message(w)[1] # "ready" /\ Message(w)[2] = active[w]

RoundsAreExact == BatchIsExact /\ NoStaleMessages /\ AnswersAreCurrent

\* A round that has begun returns or raises, and a collector that is closed ends, with
\* all its processes, whatever the workers are doing.
CollectEnds == parent \in {"collecting", "closing"} ~> parent \in {"returned", "closed"}
=============================================================================
