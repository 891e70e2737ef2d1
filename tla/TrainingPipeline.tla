-------------------------- MODULE TrainingPipeline --------------------------
(***************************************************************************)
(* The training of PPO (DFJSPTPPOTrainable.fit, ppo.py): the main thread   *)
(* trains on a batch of episodes while a sampling thread collects the next *)
(* one with the weights frozen before the update, and a thread evaluates   *)
(* snapshots, one after another, to select the best.  What one collection  *)
(* does is in Rollout; here it is its result: the jobs that are collected  *)
(* and those discarded, which are sampled again later.                     *)
(*                                                                         *)
(* A run may end by an exception, a cancellation or the death of its       *)
(* process, and another resume from one of the checkpoints it has left.    *)
(***************************************************************************)
EXTENDS Naturals, Sequences, FiniteSets

CONSTANTS
  TrainingEpisodes,    \* episodes, the jobs to train on
  PipelineEnvs,        \* num_envs
  ValidationInterval,
  Scores,              \* what an evaluation may give
  MaxRuns,             \* bound on the runs
  NoBatch

ASSUME PipelineConstants ==
  /\ {TrainingEpisodes, PipelineEnvs, ValidationInterval, MaxRuns} \subseteq Nat \ {0}
  /\ Scores \subseteq Nat

SamplingJobs == 1..TrainingEpisodes
Batch == [jobs : SUBSET SamplingJobs, version : Nat]
Snapshots == [completed : Nat, version : Nat, jobs : SUBSET SamplingJobs,
              policy : [SamplingJobs -> Nat]]
Results == [snapshot : Snapshots, score : Nat]

ASSUME PipelineNone == NoBatch \notin Batch /\ NoBatch \notin Results

Jobs(b) == IF b = NoBatch THEN {} ELSE b.jobs

VARIABLES
  stage,               \* where the main thread is
  dynamic_sampling,    \* a parameter of the run
  policy_version,
  trained,             \* _trained_sampling_jobs
  completed_episodes,
  current,             \* _pending_batch: the batch to train on
  pending_jobs,        \* pending_job_ids, as a set: it orders the retries first
  sampler,             \* the sampling thread
  sampler_version,     \* the version of the weights it was given
  next_batch,          \* what it has collected
  time_up,             \* the budget wall_time_seconds is used up
  evaluations,         \* pending_evaluations: the snapshots, first the oldest
  evaluated_until,     \* last_evaluation_episode, 0 for -1
  evaluation_failed,   \* the future of one that is over holds an exception
  validated,           \* validation_history: snapshots and their scores
  best,                \* best.ckpt of this run
  checkpoints,         \* the snapshots of all runs that are on disk
  first_episode,       \* of the batch that is trained on
  trained_here,        \* stats_history is not empty
  runs,                \* how many runs there were
  learned              \* history: how often the policy was trained on a job

diskVars == <<checkpoints, runs>>
evaluationVars == <<evaluations, evaluated_until, evaluation_failed, validated, best>>
samplerVars == <<sampler, sampler_version, next_batch, pending_jobs>>
learnerVars == <<policy_version, trained, completed_episodes, current, first_episode,
                 trained_here, learned, dynamic_sampling>>
pipelineVars == <<stage, learnerVars, samplerVars, evaluationVars, diskVars, time_up>>

\* _checkpoint_snapshot.  The policy is represented by what it has learned.
Snapshot(done, version, jobs, policy) ==
  [completed |-> done, version |-> version, jobs |-> jobs, policy |-> policy]
Fresh == Snapshot(0, 0, {}, [j \in SamplingJobs |-> 0])

JobsLeftInOrder(s) == {j \in SamplingJobs : j > s.completed}   \* mutant: as of full batches
\* As many as are missing, the first that s was not trained on.
JobsLeft(s) ==
  {j \in SamplingJobs \ s.jobs :
     Cardinality({k \in SamplingJobs \ s.jobs : k <= j}) <= TrainingEpisodes - s.completed}

\* fit begins with a policy of its own or a checkpoint's.
StartFit(s) ==
  /\ policy_version' = s.version /\ trained' = s.jobs
  /\ completed_episodes' = s.completed /\ learned' = s.policy
  /\ pending_jobs' = JobsLeft(s)
  /\ current' = NoBatch /\ next_batch' = NoBatch
  /\ sampler' = "sampling" /\ sampler_version' = s.version   \* the first batch
  /\ time_up' = FALSE /\ trained_here' = FALSE /\ first_episode' = s.completed
  /\ evaluations' = IF s.completed > 0 THEN <<s>> ELSE <<>>
  /\ evaluated_until' = s.completed /\ evaluation_failed' = FALSE
  /\ validated' = {} /\ best' = NoBatch
  /\ stage' = "warmup" /\ dynamic_sampling' \in BOOLEAN

PipelineInit ==
  /\ stage = "warmup" /\ dynamic_sampling \in BOOLEAN
  /\ policy_version = 0 /\ trained = {} /\ completed_episodes = 0
  /\ learned = [j \in SamplingJobs |-> 0] /\ pending_jobs = SamplingJobs
  /\ current = NoBatch /\ next_batch = NoBatch /\ sampler = "sampling" /\ sampler_version = 0
  /\ time_up = FALSE /\ trained_here = FALSE /\ first_episode = 0
  /\ evaluations = <<>> /\ evaluated_until = 0 /\ evaluation_failed = FALSE
  /\ validated = {} /\ best = NoBatch /\ checkpoints = {} /\ runs = 1

-----------------------------------------------------------------------------
(* collect_batch, on the sampling thread or, the first time, on the main   *)
(* thread.                                                                 *)

Fewest(a, b) == IF a <= b THEN a ELSE b
Envs == Fewest(PipelineEnvs, TrainingEpisodes)
\* The jobs offered: all that are left, or a batch that does not pass the next
\* validation.
BatchSize(first) == Fewest(Cardinality(pending_jobs),
                           Fewest(Envs, ValidationInterval - (first % ValidationInterval)))

Sampled == completed_episodes + Cardinality(Jobs(current))

CollectBatch ==
  /\ sampler = "sampling"
  /\ \E jobs \in SUBSET pending_jobs :
       /\ IF dynamic_sampling THEN Cardinality(jobs) >= Fewest(Envs, Cardinality(pending_jobs))
          ELSE Cardinality(jobs) = BatchSize(Sampled)
       /\ next_batch' = [jobs |-> jobs, version |-> sampler_version]
       /\ pending_jobs' = pending_jobs \ jobs   \* the discarded ones stay
  /\ sampler' = "idle"
  /\ UNCHANGED <<stage, learnerVars, sampler_version, evaluationVars, diskVars, time_up>>

-----------------------------------------------------------------------------
(* The main thread.                                                        *)

\* The first batch is there.
EndWarmup ==
  /\ stage = "warmup" /\ sampler = "idle"
  /\ current' = next_batch /\ next_batch' = NoBatch /\ stage' = "round"
  /\ UNCHANGED <<policy_version, trained, completed_episodes, first_episode, trained_here,
                 learned, dynamic_sampling, sampler, sampler_version, pending_jobs,
                 evaluationVars, diskVars, time_up>>

TimePasses ==
  /\ ~time_up /\ time_up' = TRUE
  /\ UNCHANGED <<stage, learnerVars, samplerVars, evaluationVars, diskVars>>

LagIsAllowed == policy_version - current.version \in {0, 1}

\* The head of the loop: the sampling of the next batch begins.
BeginRound ==
  /\ stage = "round" /\ current # NoBatch /\ ~evaluation_failed
  /\ ~(trained_here /\ time_up) /\ LagIsAllowed
  /\ first_episode' = completed_episodes
  /\ IF Sampled < TrainingEpisodes /\ ~time_up
     THEN sampler' = "sampling" /\ sampler_version' = policy_version
     ELSE UNCHANGED <<sampler, sampler_version>>
  /\ stage' = "updating"
  /\ UNCHANGED <<policy_version, trained, completed_episodes, current, trained_here, learned,
                 dynamic_sampling, next_batch, pending_jobs, evaluationVars, diskVars, time_up>>

\* The update, which may leave the policy as it is, and the records of it.
TrainOnBatch ==
  /\ stage = "updating"
  /\ policy_version' \in {policy_version, policy_version + 1}
  /\ learned' = [j \in SamplingJobs |-> learned[j] + IF j \in Jobs(current) THEN 1 ELSE 0]
  /\ trained' = trained \cup Jobs(current)
  /\ completed_episodes' = completed_episodes + Cardinality(Jobs(current))
  /\ trained_here' = TRUE /\ current' = NoBatch
  /\ stage' = "awaiting"
  /\ UNCHANGED <<first_episode, dynamic_sampling, samplerVars, evaluationVars, diskVars, time_up>>

Here == Snapshot(completed_episodes, policy_version, trained, learned)

ScheduleEvaluation ==
  /\ evaluations' = Append(evaluations, Here)
  /\ evaluated_until' = completed_episodes

IntervalPassed ==
  completed_episodes \div ValidationInterval > first_episode \div ValidationInterval

\* The rest of the loop, once the next batch is there or none is to come.
EndRound ==
  /\ stage = "awaiting" /\ sampler = "idle" /\ ~evaluation_failed
  /\ current' = next_batch /\ next_batch' = NoBatch
  /\ checkpoints' \in {checkpoints, checkpoints \cup {Here}}   \* checkpoint_interval
  /\ IF evaluated_until = 0 \/ IntervalPassed \/ time_up \/ next_batch = NoBatch
     THEN ScheduleEvaluation ELSE UNCHANGED <<evaluations, evaluated_until>>
  /\ stage' = "round"
  /\ UNCHANGED <<policy_version, trained, completed_episodes, first_episode, trained_here,
                 learned, dynamic_sampling, sampler, sampler_version, pending_jobs,
                 evaluation_failed, validated, best, runs, time_up>>

LeaveLoop ==
  /\ stage = "round" /\ (current = NoBatch \/ (trained_here /\ time_up)) /\ ~evaluation_failed
  /\ IF completed_episodes # evaluated_until
     THEN ScheduleEvaluation ELSE UNCHANGED <<evaluations, evaluated_until>>
  /\ stage' = "draining"
  /\ UNCHANGED <<learnerVars, samplerVars, evaluation_failed, validated, best, diskVars, time_up>>

\* All snapshots are evaluated: best.ckpt is read again and published.
FinishFit ==
  /\ stage = "draining" /\ evaluations = <<>> /\ ~evaluation_failed
  /\ stage' = "finished"
  /\ UNCHANGED <<learnerVars, samplerVars, evaluationVars, diskVars, time_up>>

-----------------------------------------------------------------------------
(* The evaluation thread.                                                  *)

\* A better score than that of the best replaces best.ckpt.
Improves(score) == best = NoBatch \/ score > best.score

EvaluateSnapshot ==
  /\ evaluations # <<>>
  /\ \E score \in Scores :
       LET result == [snapshot |-> Head(evaluations), score |-> score] IN
         /\ validated' = validated \cup {result}
         /\ IF Improves(score)
            THEN best' = result /\ checkpoints' = checkpoints \cup {Head(evaluations)}
            ELSE UNCHANGED <<best, checkpoints>>
  /\ evaluations' = Tail(evaluations)
  /\ UNCHANGED <<stage, learnerVars, samplerVars, evaluated_until, evaluation_failed, runs,
                 time_up>>

\* Its future holds the exception; the executor goes on to the next snapshot.
EvaluationFails ==
  /\ evaluations # <<>> /\ evaluations' = Tail(evaluations)
  /\ evaluation_failed' = TRUE
  /\ UNCHANGED <<stage, learnerVars, samplerVars, evaluated_until, validated, best, diskVars,
                 time_up>>

-----------------------------------------------------------------------------
(* The end of a run, and the next.                                         *)

Working == {"warmup", "round", "updating", "awaiting", "draining"}

\* A cancellation, or an exception of one of the threads: background_stop is set.
FitRaises ==
  /\ stage \in Working /\ stage' = "stopping"
  /\ UNCHANGED <<learnerVars, samplerVars, evaluationVars, diskVars, time_up>>

\* The failed future is found.
FindFailure ==
  /\ stage \in Working /\ evaluation_failed /\ stage' = "stopping"
  /\ UNCHANGED <<learnerVars, samplerVars, evaluationVars, diskVars, time_up>>

\* The threads find background_stop, or their workers closed.
StopSampler ==
  /\ stage = "stopping" /\ sampler = "sampling" /\ sampler' = "idle"
  /\ UNCHANGED <<stage, learnerVars, sampler_version, next_batch, pending_jobs, evaluationVars,
                 diskVars, time_up>>

StopEvaluations ==
  /\ stage = "stopping" /\ evaluations # <<>> /\ evaluations' = <<>>
  /\ UNCHANGED <<stage, learnerVars, samplerVars, evaluated_until, evaluation_failed, validated,
                 best, diskVars, time_up>>

EndFit ==
  /\ stage = "stopping" /\ sampler = "idle" /\ evaluations = <<>> /\ stage' = "failed"
  /\ UNCHANGED <<learnerVars, samplerVars, evaluationVars, diskVars, time_up>>

ProcessDies ==
  /\ stage \in Working \cup {"stopping"} /\ stage' = "dead"
  /\ evaluations' = <<>> /\ sampler' = "idle"
  /\ UNCHANGED <<learnerVars, sampler_version, next_batch, pending_jobs, evaluated_until,
                 evaluation_failed, validated, best, diskVars, time_up>>

ResumeTraining(s) ==
  /\ stage \in {"finished", "failed", "dead"} /\ runs < MaxRuns /\ s.completed < TrainingEpisodes
  /\ StartFit(s)
  /\ runs' = runs + 1
  /\ UNCHANGED checkpoints

MainStep == EndWarmup \/ BeginRound \/ TrainOnBatch \/ EndRound \/ LeaveLoop \/ FinishFit
              \/ FindFailure \/ EndFit
SamplerStep == CollectBatch \/ StopSampler
EvaluatorStep == EvaluateSnapshot \/ EvaluationFails \/ StopEvaluations

PipelineNext ==
  \/ MainStep \/ SamplerStep \/ EvaluatorStep \/ TimePasses \/ FitRaises \/ ProcessDies
  \/ \E s \in checkpoints : ResumeTraining(s)

\* No thread waits for more than the end of what another does: episodes are bounded.
PipelineFairness == /\ WF_pipelineVars(MainStep)
                    /\ WF_pipelineVars(SamplerStep) /\ WF_pipelineVars(EvaluatorStep)
PipelineSpec == PipelineInit /\ [][PipelineNext]_pipelineVars /\ PipelineFairness

-----------------------------------------------------------------------------
PipelineTypeOK ==
  /\ stage \in Working \cup {"stopping", "finished", "failed", "dead"}
  /\ {policy_version, sampler_version} \subseteq 0..TrainingEpisodes
  /\ completed_episodes \in 0..TrainingEpisodes /\ first_episode \in 0..completed_episodes
  /\ trained \subseteq SamplingJobs /\ pending_jobs \subseteq SamplingJobs
  /\ sampler \in {"idle", "sampling"}
  /\ {time_up, trained_here, evaluation_failed} \subseteq BOOLEAN
  /\ learned \in [SamplingJobs -> Nat]

\* What a policy has learned is what its record of trained jobs says, each once.
IsExact(s) == /\ \A j \in SamplingJobs : s.policy[j] = IF j \in s.jobs THEN 1 ELSE 0
              /\ s.completed = Cardinality(s.jobs)

\* A policy is trained on no job twice, whatever is discarded and sampled again, and
\* wherever a run ends and which checkpoint the next begins with; and what a run
\* resumes from says so of itself.
TrainedOnce == IsExact(Here) /\ \A s \in checkpoints : IsExact(s)

\* Until it is trained on, a job is in the batch in hand, in the one collected, or
\* waits to be sampled, in one of them.
JobsAreKept ==
  stage \in Working \ {"draining"} =>
    /\ trained \cup Jobs(current) \cup Jobs(next_batch) \cup pending_jobs = SamplingJobs
    /\ TrainingEpisodes = Cardinality(trained) + Cardinality(Jobs(current))
                            + Cardinality(Jobs(next_batch)) + Cardinality(pending_jobs)

\* A batch is at most one version behind the policy it is trained on: the exception
\* that fit would raise is never raised.
LagIsOne == stage = "round" /\ current # NoBatch => LagIsAllowed

\* The run publishes the best of the policies it has evaluated, among them the last;
\* unless its time was up it was trained on everything.
PublishesBest ==
  stage = "finished" =>
    /\ best \in validated /\ \A v \in validated : v.score <= best.score
    /\ \E v \in validated : v.snapshot = Here
    /\ time_up \/ trained = SamplingJobs

TrainingIsExact == TrainedOnce /\ JobsAreKept /\ LagIsOne /\ PublishesBest

\* fit ends, with all its threads, whichever of them fails.
TrainingEnds ==
  stage = "warmup" ~> stage \in {"finished", "failed", "dead"}
=============================================================================
