----------------------------- MODULE MCRequests -----------------------------
(***************************************************************************)
(* Work that is asked for at once and carried out in the background:       *)
(* executions of the algorithm platform, batches of the backend, and of a  *)
(* training run the collection of episodes and the pipeline around it;     *)
(* side by side.  They share no variable: only one of them moves in a      *)
(* behaviour here.                                                         *)
(***************************************************************************)
EXTENDS Executions, Batches, Rollout, TrainingPipeline

CONSTANTS c1, c2, r1, r2

VARIABLE part          \* the one that moves

Parts == {"executions", "batches", "rollout", "training"}

PartsInit == /\ part \in Parts
             /\ Init /\ BatchInit /\ RolloutInit
             /\ PipelineInit /\ (part = "training" \/ ~dynamic_sampling)

PartsNext ==
  /\ UNCHANGED part
  /\ \/ part = "executions" /\ Next
        /\ UNCHANGED <<batchVars, rolloutVars, pipelineVars>>
     \/ part = "batches" /\ BatchNext
        /\ UNCHANGED <<vars, rolloutVars, pipelineVars>>
     \/ part = "rollout" /\ RolloutNext
        /\ UNCHANGED <<vars, batchVars, pipelineVars>>
     \/ part = "training" /\ PipelineNext
        /\ UNCHANGED <<vars, batchVars, rolloutVars>>

\* The fairness of the modules, of the one that moves.
PartsFairness ==
  /\ WF_vars(part = "executions" /\ Create)
  /\ WF_vars(part = "executions" /\ Work)
  /\ \A c \in Cancellers : WF_vars(part = "executions" /\ caller[c] # "idle" /\ Cancel(c))
  /\ \A b \in BatchIds : WF_batchVars(part = "batches" /\ WorkerProceeds(b))
  /\ \A c \in CancelRequests :
       WF_batchVars(part = "batches" /\ (ContainersDown(c) \/ EndCancel(c)))
  /\ \A r \in BatchReaders : WF_batchVars(part = "batches" /\ ReaderProceeds(r))
  /\ \A w \in EnvWorkers : WF_rolloutVars(part = "rollout" /\ WorkerStep(w))
  /\ WF_rolloutVars(part = "rollout" /\ ParentStep)
  /\ WF_pipelineVars(part = "training" /\ MainStep)
  /\ WF_pipelineVars(part = "training" /\ SamplerStep)
  /\ WF_pipelineVars(part = "training" /\ EvaluatorStep)

PartsSpec ==
  /\ PartsInit
  /\ [][PartsNext]_<<part, vars, batchVars, rolloutVars, pipelineVars>>
  /\ PartsFairness

\* Types of the parts beside Executions.
PartsTypeOK == BatchTypeOK /\ RolloutTypeOK /\ PipelineTypeOK

\* What is begun ends: a batch and its cancellation, a round of episodes and the
\* processes of a collector, a training run.
BackgroundEnds ==
  BatchesEnd /\ CollectEnds /\ (part = "training" => TrainingEnds)

\* Episodes count once, in the rounds that collect them and in the training on them.
EpisodesCountOnce == RoundsAreExact /\ TrainingIsExact
=============================================================================
