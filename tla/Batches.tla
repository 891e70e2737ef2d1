------------------------------ MODULE Batches ------------------------------
(***************************************************************************)
(* Batch runs of the backend (DockerProxy.py: start_batch, cancel_batch,   *)
(* batch_stream, _batch_worker, _run_batch_episode).  All of it runs on    *)
(* one event loop: an action goes from one await to the next.  A batch is  *)
(* a task that runs its episodes one after another, each a docker compose  *)
(* up and down; cancel_batch takes the containers down, cancels whatever   *)
(* task is the current one by then, and waits for it.                      *)
(*                                                                         *)
(* A worker writes into the status and the queue that are current when it  *)
(* writes, which a new batch replaces.  Cancelling a task raises in its    *)
(* present await; _run_batch_episode catches that.                         *)
(***************************************************************************)
EXTENDS Naturals, Sequences, FiniteSets, SequencesExt

CONSTANTS
  MaxBatches,          \* bound on the batches of a behaviour
  Episodes,            \* the length of a batch
  CancelRequests,      \* calls of cancel_batch at a time
  BatchReaders,        \* connections to /batch/stream
  BatchQueueSize       \* maxsize of _batch_queue (500 in the code)

ASSUME BatchConstants == /\ {MaxBatches, Episodes, BatchQueueSize} \subseteq Nat \ {0}

BatchIds == 1..MaxBatches
Final == {"done", "error"}      \* batch_done, batch_error; every other event is "news"

VARIABLES
  batches,             \* the number of batches started; the last is current
  batch_running,       \* _batch_status["running"]
  batch_cancelled,     \* _batch_status["cancelled"]
  batch_idx, batch_results,  \* _batch_status["idx"], len(_batch_status["results"])
  batch_error,               \* "error" in _batch_status
  batch_cancel_event,        \* _batch_cancel_event
  batch_task,              \* batch_task[b]: where the task of batch b is
  episode,             \* episode[b]: its idx
  interrupted,         \* interrupted[b]: cancel() is to be raised in it
  batch_queue,         \* batch_queue[b]: the events of the queue made for b
  told,                \* told[b]: a reader has taken a final event from it
  canceller,           \* canceller[c]: out, downing, awaiting
  awaited,             \* awaited[c]: the task it waits for
  reader, reads,       \* reader[r]: out, waiting, ended; the queue it waits on
  mixed                \* a batch was started while a cancel was under way

statusVars == <<batch_running, batch_cancelled, batch_idx, batch_results, batch_error>>
taskVars == <<batch_task, episode, interrupted>>
cancelVars == <<canceller, awaited>>
batchReaderVars == <<reader, reads>>
batchVars == <<batches, statusVars, batch_cancel_event, taskVars, batch_queue, told,
               cancelVars, batchReaderVars, mixed>>

BatchInit ==
  /\ batches = 0
  /\ batch_running = FALSE /\ batch_cancelled = FALSE
  /\ batch_idx = 0 /\ batch_results = 0 /\ batch_error = FALSE /\ batch_cancel_event = FALSE
  /\ batch_task = [b \in BatchIds |-> "none"] /\ episode = [b \in BatchIds |-> 0]
  /\ interrupted = [b \in BatchIds |-> FALSE]
  /\ batch_queue = [b \in BatchIds |-> <<>>] /\ told = [b \in BatchIds |-> FALSE]
  /\ canceller = [c \in CancelRequests |-> "out"]
  /\ awaited = [c \in CancelRequests |-> 0]
  /\ reader = [r \in BatchReaders |-> "out"] /\ reads = [r \in BatchReaders |-> 0]
  /\ mixed = FALSE

Live(b) == b # 0 /\ batch_task[b] \in {"new", "clearing", "episode", "cleaning"}
Cancelling == \E c \in CancelRequests : canceller[c] # "out"

\* _batch_emit: a full queue loses its oldest event.  (The mutant has one
\* place more.)
EnteredLate(q, e) == Append(IF Len(q) > BatchQueueSize THEN Tail(q) ELSE q, e)
Entered(q, e) == Append(IF Len(q) >= BatchQueueSize THEN Tail(q) ELSE q, e)
Emit(e) == batch_queue' = [batch_queue EXCEPT ![batches] = Entered(@, e)]

-----------------------------------------------------------------------------
(* start_batch.                                                            *)

\* The mutant checks nothing.
StartUnchecked == batches < MaxBatches
StartAllowed   == batches < MaxBatches /\ ~batch_running

\* A new status, a new queue, a new task.
StartBatch ==
  /\ StartAllowed
  /\ batches' = batches + 1
  /\ batch_running' = TRUE /\ batch_cancelled' = FALSE
  /\ batch_idx' = 0 /\ batch_results' = 0 /\ batch_error' = FALSE
  /\ batch_cancel_event' = FALSE
  /\ batch_task' = [batch_task EXCEPT ![batches + 1] = "new"]
  /\ mixed' = (mixed \/ Cancelling)
  /\ UNCHANGED <<episode, interrupted, batch_queue, told, cancelVars, batchReaderVars>>

-----------------------------------------------------------------------------
(* _batch_worker.  What a step leaves alone:                               *)

WorkerOnly == UNCHANGED <<batches, batch_cancelled, batch_cancel_event, told, cancelVars,
                          batchReaderVars, mixed>>

Moves(b, place) == batch_task' = [batch_task EXCEPT ![b] = place]

\* The end, whichever: the status first, then the event, then the task is done.
Finish(b, event) ==
  /\ Moves(b, "over")
  /\ batch_running' = FALSE
  /\ batch_error' = (batch_error \/ event = "error")
  /\ Emit(event)
  /\ interrupted' = [interrupted EXCEPT ![b] = FALSE]
  /\ UNCHANGED <<episode, batch_idx, batch_results>>

\* A task that is cancelled before its first step never runs.
FirstStep(b) ==
  /\ batch_task[b] = "new"
  /\ IF interrupted[b] THEN Moves(b, "unborn") ELSE Moves(b, "clearing")
  /\ interrupted' = [interrupted EXCEPT ![b] = FALSE]
  /\ UNCHANGED <<episode, batch_queue, batch_running, batch_idx, batch_results, batch_error>>
  /\ WorkerOnly

\* At the head of the loop over the episodes.
AtHead(b) == batch_task[b] \in {"clearing", "cleaning"} /\ ~interrupted[b]

BeginEpisode(b) ==
  /\ AtHead(b) /\ episode[b] < Episodes /\ ~batch_cancel_event
  /\ episode' = [episode EXCEPT ![b] = @ + 1]
  /\ batch_idx' = episode[b] + 1
  /\ Emit("news")
  /\ Moves(b, "episode")
  /\ UNCHANGED <<interrupted, batch_running, batch_results, batch_error>>
  /\ WorkerOnly

FinishBatch(b) ==
  /\ AtHead(b) /\ (episode[b] = Episodes \/ batch_cancel_event)
  /\ Finish(b, "done")
  /\ WorkerOnly

\* Before the loop, settings that are not a dictionary raise.
RaiseAtStart(b) ==
  /\ batch_task[b] = "clearing" /\ ~interrupted[b]
  /\ Finish(b, "error")
  /\ WorkerOnly

\* An experiment that cannot be read raises when it has become the current one.
RaiseInEpisode(b) ==
  /\ AtHead(b) /\ episode[b] < Episodes /\ ~batch_cancel_event
  /\ episode' = [episode EXCEPT ![b] = @ + 1]
  /\ batch_idx' = episode[b] + 1
  /\ Moves(b, "over")
  /\ batch_running' = FALSE /\ batch_error' = TRUE
  /\ batch_queue' = [batch_queue EXCEPT ![batches] = Entered(Entered(@, "news"), "error")]
  /\ UNCHANGED <<interrupted, batch_results>>
  /\ WorkerOnly

EmitLog(b) ==
  /\ batch_task[b] = "episode" /\ ~interrupted[b]
  /\ Emit("news")
  /\ UNCHANGED <<taskVars, batch_running, batch_idx, batch_results, batch_error>>
  /\ WorkerOnly

\* The episode ends by itself, by the kill after batch_cancel_event, or by the
\* interruption, which ends here.
EndEpisode(b) ==
  /\ batch_task[b] = "episode"
  /\ batch_results' = batch_results + 1
  /\ Emit("news")
  /\ Moves(b, "cleaning")
  /\ interrupted' = [interrupted EXCEPT ![b] = FALSE]
  /\ UNCHANGED <<episode, batch_running, batch_idx, batch_error>>
  /\ WorkerOnly

\* Elsewhere it ends the batch.
Interrupt(b) ==
  /\ batch_task[b] \in {"clearing", "cleaning"} /\ interrupted[b]
  /\ Finish(b, "done")
  /\ WorkerOnly

-----------------------------------------------------------------------------
(* cancel_batch.                                                           *)

CancelBatch(c) ==
  /\ canceller[c] = "out"
  /\ batch_cancel_event' = TRUE
  /\ canceller' = [canceller EXCEPT ![c] = "downing"]
  /\ UNCHANGED <<batches, statusVars, taskVars, batch_queue, told, awaited,
                 batchReaderVars, mixed>>

CancelAnswered(c) ==
  /\ batch_running' = FALSE /\ batch_cancelled' = TRUE
  /\ canceller' = [canceller EXCEPT ![c] = "out"]
  /\ awaited' = [awaited EXCEPT ![c] = 0]
  /\ UNCHANGED interrupted

\* The containers are down: cancel the current task and wait for it.  (The mutant
\* only waits.)
DownAnd(c, interrupts) ==
  /\ canceller[c] = "downing"
  /\ IF Live(batches)
     THEN /\ interrupted' = [interrupted EXCEPT ![batches] = @ \/ interrupts]
          /\ canceller' = [canceller EXCEPT ![c] = "awaiting"]
          /\ awaited' = [awaited EXCEPT ![c] = batches]
          /\ UNCHANGED <<batch_running, batch_cancelled>>
     ELSE CancelAnswered(c)
  /\ UNCHANGED <<batches, batch_idx, batch_results, batch_error, batch_cancel_event, batch_task,
                 episode, batch_queue, told, batchReaderVars, mixed>>

ContainersDownOnly(c) == DownAnd(c, FALSE)
ContainersDown(c) == DownAnd(c, TRUE)

EndCancel(c) ==
  /\ canceller[c] = "awaiting" /\ ~Live(awaited[c])
  /\ CancelAnswered(c)
  /\ UNCHANGED <<batches, batch_idx, batch_results, batch_error, batch_cancel_event, batch_task,
                 episode, batch_queue, told, batchReaderVars, mixed>>

-----------------------------------------------------------------------------
(* batch_stream: between two events it looks which queue is current.       *)

ReaderOnly == UNCHANGED <<batches, statusVars, batch_cancel_event, taskVars, cancelVars,
                          mixed>>

OpenBatchStream(r) ==
  /\ reader[r] = "out" /\ batches > 0
  /\ reader' = [reader EXCEPT ![r] = "waiting"]
  /\ reads' = [reads EXCEPT ![r] = batches]
  /\ UNCHANGED <<batch_queue, told>>
  /\ ReaderOnly

TakeEvent(r) ==
  /\ reader[r] = "waiting" /\ batch_queue[reads[r]] # <<>>
  /\ LET b == reads[r]  e == Head(batch_queue[b]) IN
     /\ batch_queue' = [batch_queue EXCEPT ![b] = Tail(@)]
     /\ told' = [told EXCEPT ![b] = @ \/ e \in Final]
     /\ reader' = [reader EXCEPT ![r] = IF e \in Final THEN "ended" ELSE "waiting"]
  /\ reads' = [reads EXCEPT ![r] = batches]
  /\ ReaderOnly

\* A second without an event.
WaitTimesOut(r) ==
  /\ reader[r] = "waiting" /\ batch_queue[reads[r]] = <<>>
  /\ reads' = [reads EXCEPT ![r] = batches]
  /\ reader' = [reader EXCEPT ![r] = IF ~Live(batches) /\ batch_queue[batches] = <<>>
                                     THEN "ended" ELSE "waiting"]
  /\ UNCHANGED <<batch_queue, told>>
  /\ ReaderOnly

-----------------------------------------------------------------------------
\* What a worker does without the help of a container.
WorkerProceeds(b) == \/ FirstStep(b) \/ BeginEpisode(b) \/ FinishBatch(b)
                     \/ RaiseAtStart(b) \/ RaiseInEpisode(b) \/ Interrupt(b)
                     \/ interrupted[b] /\ EndEpisode(b)

ReaderProceeds(r) == TakeEvent(r) \/ WaitTimesOut(r)

BatchNext ==
  \/ StartBatch
  \/ \E b \in BatchIds : WorkerProceeds(b) \/ EmitLog(b) \/ EndEpisode(b)
  \/ \E c \in CancelRequests : CancelBatch(c) \/ ContainersDown(c) \/ EndCancel(c)
  \/ \E r \in BatchReaders : OpenBatchStream(r) \/ ReaderProceeds(r)

\* The loop serves every task; docker compose down returns.  How long an episode
\* lasts is not known.
BatchFairness ==
  /\ \A b \in BatchIds : WF_batchVars(WorkerProceeds(b))
  /\ \A c \in CancelRequests : WF_batchVars(ContainersDown(c) \/ EndCancel(c))
  /\ \A r \in BatchReaders : WF_batchVars(ReaderProceeds(r))

BatchSpec == BatchInit /\ [][BatchNext]_batchVars /\ BatchFairness

-----------------------------------------------------------------------------
\* The types, and which parts of the state go together.
BatchTypeOK ==
  /\ batches \in 0..MaxBatches
  /\ {batch_running, batch_cancelled, batch_error, batch_cancel_event, mixed} \subseteq BOOLEAN
  /\ batch_idx \in 0..Episodes /\ batch_results \in 0..MaxBatches * Episodes
  /\ batch_task \in [BatchIds -> {"none", "new", "clearing", "episode", "cleaning",
                              "over", "unborn"}]
  /\ \A b \in BatchIds : batch_task[b] = "none" <=> b > batches
  /\ episode \in [BatchIds -> 0..Episodes] /\ interrupted \in [BatchIds -> BOOLEAN]
  /\ \A b \in BatchIds : interrupted[b] => Live(b)
  /\ batch_queue \in [BatchIds -> Seq({"news"} \cup Final)]
  /\ \A b \in BatchIds : Len(batch_queue[b]) <= BatchQueueSize
  /\ told \in [BatchIds -> BOOLEAN]
  /\ canceller \in [CancelRequests -> {"out", "downing", "awaiting"}]
  /\ awaited \in [CancelRequests -> 0..batches]
  /\ \A c \in CancelRequests : awaited[c] # 0 <=> canceller[c] = "awaiting"
  /\ reader \in [BatchReaders -> {"out", "waiting", "ended"}]
  /\ reads \in [BatchReaders -> 0..batches]

\* Two batches never run at a time (they would share containers, status and
\* queue), unless one was started while a cancel was still waiting for the
\* containers: that cancel then declares the new batch over.
OneWorker ==
  ~mixed => Cardinality({b \in BatchIds : Live(b)}) <= 1

\* The status tells the truth: running until the task is over (or until the
\* answer of the cancel that killed it before its first step), and after a cancel
\* has been answered nothing of the batch is left.
StatusIsTrue ==
  ~mixed =>
    /\ \A b \in BatchIds : Live(b) => b = batches /\ batch_running
    /\ batch_running /\ ~Live(batches) => Cancelling /\ batch_task[batches] = "unborn"
    /\ batch_cancelled => \A b \in BatchIds : ~Live(b)

\* The current episode is under way, or was given up for an error.
Unfinished == batch_task[batches] = "episode" \/ (batch_error /\ batch_idx > 0)

\* The results are those of the episodes up to the current one, which has none
\* as long as it runs, nor when it could not be read.
ResultsAreOwn ==
  ~mixed /\ batches > 0 =>
    /\ batch_idx = episode[batches]
    /\ batch_results = batch_idx - (IF Unfinished THEN 1 ELSE 0)

\* A batch that has run tells its end, once and last, and a full queue does not
\* lose it.
EndIsTold ==
  ~mixed =>
    \A b \in BatchIds :
      LET ends == {i \in 1..Len(batch_queue[b]) : batch_queue[b][i] \in Final} IN
      IF batch_task[b] = "over"
      THEN \/ told[b] /\ batch_queue[b] = <<>>
           \/ ~told[b] /\ ends = {Len(batch_queue[b])}
      ELSE ends = {} /\ ~told[b]

\* Status, results and events are those of the one batch that runs.
BatchIsOwn == OneWorker /\ StatusIsTrue /\ ResultsAreOwn /\ EndIsTold

\* Every cancel is answered, however long the episode would have lasted (unless a
\* start has reset the signal meanwhile: then the task goes on with the next
\* episode, and the cancel waits for the end of the batch).
CancelsAnswered ==
  \A c \in CancelRequests : canceller[c] # "out" ~> canceller[c] = "out" \/ mixed

\* A stream ends when there is nothing more to come, though the final event may
\* have gone to another reader or never been sent (a worker that outlives its
\* batch, once mixed, can go on filling the queue).
ReadersLeave ==
  \A r \in BatchReaders : reader[r] = "waiting" ~> reader[r] = "ended" \/ Live(batches) \/ mixed

\* Nobody waits for a batch for ever.
BatchesEnd == CancelsAnswered /\ ReadersLeave
=============================================================================
