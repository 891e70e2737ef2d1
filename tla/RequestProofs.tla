---------------------------- MODULE RequestProofs ----------------------------
(***************************************************************************)
(* The batch runs of the backend, and the episodes of a training run.      *)
(*                                                                         *)
(* For any number of batches, episodes, cancel requests and readers: what  *)
(* a batch run of the backend reports is its own.  As long as no batch is  *)
(* started while a cancel is under way, only the current batch is alive,   *)
(* and a cancel that waits, waits for that one.                            *)
(*                                                                         *)
(* For any number of worker processes, rounds, episodes and resumptions: a *)
(* round of episodes accounts for each job it gave out, and training       *)
(* learns from each once.                                                  *)
(***************************************************************************)
EXTENDS MCRequests, FiniteSetTheorems, SequenceTheorems, TLAPS

Events == {"news"} \cup Final

BatchTypes ==
  /\ batches \in 0..MaxBatches
  /\ batch_running \in BOOLEAN /\ batch_cancelled \in BOOLEAN
  /\ batch_cancel_event \in BOOLEAN /\ batch_error \in BOOLEAN /\ mixed \in BOOLEAN
  /\ batch_idx \in Nat /\ batch_results \in Nat
  /\ batch_task \in [BatchIds -> {"none", "new", "clearing", "episode", "cleaning",
                                  "over", "unborn"}]
  /\ \A b \in BatchIds : batch_task[b] = "none" <=> b > batches
  /\ episode \in [BatchIds -> Nat] /\ \A b \in BatchIds : b > batches => episode[b] = 0
  /\ interrupted \in [BatchIds -> BOOLEAN]
  /\ batch_queue \in [BatchIds -> Seq(Events)]
  /\ told \in [BatchIds -> BOOLEAN]
  /\ canceller \in [CancelRequests -> {"out", "downing", "awaiting"}]
  /\ awaited \in [CancelRequests -> 0..batches]
  /\ reader \in [BatchReaders -> {"out", "waiting", "ended"}]
  /\ reads \in [BatchReaders -> 0..batches]
  /\ \A r \in BatchReaders : reader[r] = "waiting" => reads[r] # 0

\* Who waits for a task, waits for the current one; only the live are interrupted, by
\* a cancel that waits.
CancelsAreCurrent ==
  /\ batch_running => batches # 0
  /\ ~mixed => \A c \in CancelRequests : canceller[c] = "awaiting" => awaited[c] = batches
  /\ \A b \in BatchIds : interrupted[b] => Live(b) /\ (~mixed => Cancelling)

\* An error ends the batch; until the loop begins there is no episode.
ErrorIsLast ==
  /\ ~mixed /\ Live(batches) => ~batch_error
  /\ \A b \in BatchIds : batch_task[b] \in {"new", "clearing"} => episode[b] = 0

BatchInv == /\ BatchTypes /\ CancelsAreCurrent /\ ErrorIsLast
            /\ StatusIsTrue /\ ResultsAreOwn /\ EndIsTold

Ends(q) == {i \in 1..Len(q) : q[i] \in Final}

EndIsToldOf(b) == IF batch_task[b] = "over"
                  THEN \/ told[b] /\ batch_queue[b] = <<>>
                       \/ ~told[b] /\ Ends(batch_queue[b]) = {Len(batch_queue[b])}
                  ELSE Ends(batch_queue[b]) = {} /\ ~told[b]

-----------------------------------------------------------------------------
LEMMA EndIsToldOfAll == EndIsTold <=> (~mixed => \A d \in BatchIds : EndIsToldOf(d))
BY DEF EndIsTold, EndIsToldOf, Ends

LEMMA EndIsToldNext ==
  ASSUME ~mixed' => \A d \in BatchIds : EndIsToldOf(d)' PROVE EndIsTold'
BY DEF EndIsTold, EndIsToldOf, Ends

LEMMA EnteredIsTyped ==
  ASSUME NEW q \in Seq(Events), NEW e \in Events PROVE Entered(q, e) \in Seq(Events)
<1>1. CASE q = <<>>
  BY <1>1, BatchConstants DEF Entered
<1>2. CASE q # <<>>
  BY <1>2, BatchConstants DEF Entered
<1> QED BY <1>1, <1>2

\* A final event is the only one if none was there before.
LEMMA EnteredEnds ==
  ASSUME NEW q \in Seq(Events), NEW e \in Events, Ends(q) = {}
  PROVE  Ends(Entered(q, e)) = IF e \in Final THEN {Len(Entered(q, e))} ELSE {}
<1> DEFINE p == IF Len(q) >= BatchQueueSize THEN Tail(q) ELSE q
<1>1. p \in Seq(Events) /\ \A i \in 1..Len(p) : p[i] \notin Final
  <2>1. CASE Len(q) >= BatchQueueSize
    <3>1. q # <<>>
      BY <2>1, BatchConstants
    <3>2. Tail(q) \in Seq(Events) /\ Len(Tail(q)) = Len(q) - 1
      BY <3>1
    <3>3. \A i \in 1..Len(q) - 1 : Tail(q)[i] = q[i + 1] /\ i + 1 \in 1..Len(q)
      BY <3>1
    <3> QED BY <2>1, <3>2, <3>3 DEF Ends
  <2>2. CASE ~(Len(q) >= BatchQueueSize)
    BY <2>2 DEF Ends
  <2> QED BY <2>1, <2>2
<1> HIDE DEF p
<1>2. /\ Len(Append(p, e)) = Len(p) + 1 /\ Append(p, e)[Len(p) + 1] = e
      /\ \A i \in 1..Len(p) : Append(p, e)[i] = p[i]
      /\ Len(p) \in Nat
  BY <1>1
<1>3. Ends(Append(p, e)) = IF e \in Final THEN {Len(Append(p, e))} ELSE {}
  BY <1>1, <1>2 DEF Ends
<1> QED BY <1>3 DEF Entered, p

\* To take the head leaves the end where it is.
LEMMA TakenEnds ==
  ASSUME NEW q \in Seq(Events), q # <<>>
  PROVE  /\ Ends(q) = {} => Ends(Tail(q)) = {} /\ Head(q) \notin Final
         /\ Ends(q) = {Len(q)} =>
              IF Head(q) \in Final THEN Tail(q) = <<>> ELSE Ends(Tail(q)) = {Len(Tail(q))}
<1>1. /\ Len(q) \in Nat /\ Len(q) >= 1 /\ Tail(q) \in Seq(Events)
      /\ Len(Tail(q)) = Len(q) - 1 /\ Head(q) = q[1]
  OBVIOUS
<1>2. \A i \in 1..Len(q) - 1 : Tail(q)[i] = q[i + 1] /\ i + 1 \in 1..Len(q)
  OBVIOUS
<1>3. ASSUME Ends(q) = {} PROVE Ends(Tail(q)) = {} /\ Head(q) \notin Final
  BY <1>1, <1>2, <1>3 DEF Ends
<1>4. ASSUME Ends(q) = {Len(q)}, Head(q) \in Final PROVE Tail(q) = <<>>
  <2>1. Len(q) = 1
    BY <1>1, <1>4 DEF Ends
  <2>2. \A s \in Seq(Events) : Len(s) = 0 => s = <<>>
    OBVIOUS
  <2>3. Len(Tail(q)) = 0 /\ Tail(q) \in Seq(Events)
    BY <1>1, <2>1
  <2> QED BY <2>2, <2>3
<1>5. ASSUME Ends(q) = {Len(q)}, Head(q) \notin Final
      PROVE  Ends(Tail(q)) = {Len(Tail(q))}
  <2>1. Len(q) # 1
    BY <1>1, <1>5 DEF Ends
  <2> QED BY <1>1, <1>2, <1>5, <2>1 DEF Ends
<1> QED BY <1>3, <1>4, <1>5

LEMMA InitBatch == BatchInit => BatchInv
<1> SUFFICES ASSUME BatchInit PROVE BatchInv
  OBVIOUS
<1> USE BatchConstants DEF BatchInit
<1>1. BatchTypes
  <2>1. \A b \in BatchIds : b > batches /\ batch_task[b] = "none"
    BY DEF BatchIds
  <2>2. batch_task \in [BatchIds -> {"none"}] /\ batch_queue \in [BatchIds -> Seq(Events)]
    OBVIOUS
  <2>3. interrupted \in [BatchIds -> BOOLEAN] /\ told \in [BatchIds -> BOOLEAN]
    OBVIOUS
  <2>4. batches \in 0..MaxBatches /\ episode \in [BatchIds -> Nat]
    OBVIOUS
  <2>5. awaited \in [CancelRequests -> 0..batches] /\ reads \in [BatchReaders -> 0..batches]
    OBVIOUS
  <2>6. \A r \in BatchReaders : reader[r] = "waiting" => reads[r] # 0
    OBVIOUS
  <2>7. \A b \in BatchIds : b > batches => episode[b] = 0
    OBVIOUS
  <2> QED BY <2>1, <2>2, <2>3, <2>4, <2>5, <2>6, <2>7 DEF BatchTypes
<1>2. CancelsAreCurrent /\ ErrorIsLast /\ StatusIsTrue /\ ResultsAreOwn
  BY DEF CancelsAreCurrent, ErrorIsLast, StatusIsTrue, ResultsAreOwn, Live
<1>3. EndIsTold
  BY DEF EndIsTold
<1> QED BY <1>1, <1>2, <1>3 DEF BatchInv

LEMMA StartBatchKeeps == BatchInv /\ StartBatch => BatchInv'
<1> SUFFICES ASSUME BatchInv, StartBatch PROVE BatchInv'
  OBVIOUS
<1> USE BatchConstants DEF BatchInv
<1>1. /\ batches < MaxBatches /\ ~batch_running /\ batches' = batches + 1
      /\ batch_running' = TRUE /\ batch_cancelled' = FALSE
      /\ batch_idx' = 0 /\ batch_results' = 0 /\ batch_error' = FALSE
      /\ batch_cancel_event' = FALSE
      /\ batch_task' = [batch_task EXCEPT ![batches + 1] = "new"]
      /\ UNCHANGED <<episode, interrupted, batch_queue, told, canceller, awaited, reader, reads>>
  BY DEF StartBatch, StartAllowed, cancelVars, batchReaderVars
<1>2. mixed' \in BOOLEAN /\ (~mixed' => ~mixed /\ ~Cancelling)
  BY DEF StartBatch, BatchTypes
<1>3. /\ batches + 1 \in BatchIds /\ batch_task'[batches + 1] = "new"
      /\ \A b \in BatchIds : b # batches + 1 => batch_task'[b] = batch_task[b]
  BY <1>1 DEF BatchTypes, BatchIds
<1>4. BatchTypes'
  <2>1. batches' \in 0..MaxBatches /\ \A n \in 0..batches : n \in 0..batches'
    BY <1>1 DEF BatchTypes
  <2>2. \A b \in BatchIds : /\ batch_task'[b] = "none" <=> b > batches'
                            /\ b > batches' => episode'[b] = 0
    BY <1>1, <1>3 DEF BatchTypes, BatchIds
  <2>3. awaited' \in [CancelRequests -> 0..batches'] /\ reads' \in [BatchReaders -> 0..batches']
    BY <1>1, <2>1 DEF BatchTypes
  <2>4. batch_task' \in [BatchIds -> {"none", "new", "clearing", "episode", "cleaning",
                                     "over", "unborn"}]
    BY <1>1 DEF BatchTypes
  <2>5. /\ batch_running' \in BOOLEAN /\ batch_cancelled' \in BOOLEAN
        /\ batch_cancel_event' \in BOOLEAN /\ batch_error' \in BOOLEAN
        /\ batch_idx' \in Nat /\ batch_results' \in Nat
    BY <1>1
  <2>6. /\ episode' \in [BatchIds -> Nat] /\ interrupted' \in [BatchIds -> BOOLEAN]
        /\ batch_queue' \in [BatchIds -> Seq(Events)] /\ told' \in [BatchIds -> BOOLEAN]
        /\ canceller' \in [CancelRequests -> {"out", "downing", "awaiting"}]
        /\ reader' \in [BatchReaders -> {"out", "waiting", "ended"}]
        /\ \A r \in BatchReaders : reader'[r] = "waiting" => reads'[r] # 0
    BY <1>1 DEF BatchTypes
  <2> QED BY <1>2, <2>1, <2>2, <2>3, <2>4, <2>5, <2>6 DEF BatchTypes
<1>5. \A b \in BatchIds : Live(b)' <=> b = batches + 1 \/ Live(b)
  BY <1>3 DEF Live, BatchIds
<1>6. ASSUME ~mixed' PROVE ~mixed /\ ~Cancelling /\ \A b \in BatchIds : ~Live(b)
  BY <1>1, <1>2, <1>6 DEF StatusIsTrue
<1>7. CancelsAreCurrent'
  <2>1. ~mixed' => \A c \in CancelRequests : canceller'[c] = "out"
    BY <1>1, <1>6 DEF Cancelling
  <2>2. \A b \in BatchIds : interrupted'[b] => Live(b)' /\ mixed'
    BY <1>1, <1>5, <1>6 DEF CancelsAreCurrent
  <2>3. batches' # 0
    BY <1>1 DEF BatchTypes
  <2> QED BY <2>1, <2>2, <2>3 DEF CancelsAreCurrent
<1>8. StatusIsTrue'
  <2>1. Live(batches)'
    BY <1>1, <1>3, <1>5
  <2> QED BY <1>1, <1>5, <1>6, <2>1 DEF StatusIsTrue
<1>9. ResultsAreOwn'
  <2>1. episode'[batches'] = 0 /\ batch_task'[batches'] = "new"
    BY <1>1, <1>3 DEF BatchTypes
  <2>2. batch_results' = batch_idx' - 0
    BY <1>1
  <2> QED BY <1>1, <2>1, <2>2 DEF ResultsAreOwn, Unfinished
<1>10. EndIsTold'
  <2>1. ASSUME ~mixed', NEW b \in BatchIds PROVE EndIsToldOf(b)'
    <3>1. EndIsToldOf(b) /\ (b = batches + 1 => batch_task[b] = "none")
      BY <1>6, <2>1, EndIsToldOfAll DEF BatchTypes
    <3> QED BY <1>1, <1>3, <3>1 DEF EndIsToldOf
  <2> QED BY <2>1, EndIsToldNext
<1>11. ErrorIsLast'
  BY <1>1, <1>3 DEF ErrorIsLast, BatchTypes
<1> QED BY <1>4, <1>7, <1>8, <1>9, <1>10, <1>11

\* What a batch whose next experiment cannot be read tells.
EmitBoth == batch_queue' = [batch_queue EXCEPT ![batches] = Entered(Entered(@, "news"), "error")]

\* A step of the task of b: it takes it to place, and tells e, or both, if anything.
LEMMA WorkerStepKeeps ==
  ASSUME BatchInv, NEW b \in BatchIds, Live(b),
         NEW place \in {"clearing", "episode", "cleaning", "over", "unborn"},
         batch_task' = [batch_task EXCEPT ![b] = place],
         WorkerOnly,
         \/ interrupted' = interrupted /\ place \notin {"over", "unborn"}
         \/ interrupted' = [interrupted EXCEPT ![b] = FALSE],
         place = "unborn" => interrupted[b],
         batch_running' = IF place = "over" THEN FALSE ELSE batch_running,
         NEW n \in Nat, episode' = [episode EXCEPT ![b] = n],
         batch_idx' \in Nat, batch_results' \in Nat,
         ~mixed /\ b = batches =>
            /\ batch_idx' = n
            /\ batch_results' = batch_idx' - (IF \/ place = "episode"
                                                 \/ batch_error' /\ batch_idx' > 0
                                              THEN 1 ELSE 0),
         batch_error' \in BOOLEAN, place = "over" \/ batch_error' = batch_error,
         place = "clearing" => n = 0,
         \/ batch_queue' = batch_queue /\ place # "over"
         \/ \E e \in Events : Emit(e) /\ (e \in Final <=> place = "over")
         \/ place = "over" /\ EmitBoth
  PROVE  BatchInv'
<1> USE BatchConstants DEF BatchInv, WorkerOnly, cancelVars, batchReaderVars
<1>1. /\ b \in 1..batches /\ batches \in BatchIds
      /\ batch_task[b] \in {"new", "clearing", "episode", "cleaning"}
      /\ batch_task'[b] = place
      /\ \A d \in BatchIds : d # b => batch_task'[d] = batch_task[d]
  BY DEF Live, BatchIds, BatchTypes
<1>2. \A d \in BatchIds : d # b => (Live(d)' <=> Live(d))
  BY <1>1 DEF Live
<1>3. Live(b)' <=> place \notin {"over", "unborn"}
  BY <1>1 DEF Live, BatchIds
<1>4. ~mixed => b = batches /\ batch_running
  BY DEF StatusIsTrue
<1>5. BatchTypes'
  <2>1. batch_queue' \in [BatchIds -> Seq(Events)]
    <3>1. batch_queue \in [BatchIds -> Seq(Events)]
      BY DEF BatchTypes
    <3>2. ASSUME NEW e \in Events, Emit(e) PROVE batch_queue' \in [BatchIds -> Seq(Events)]
      <4>1. Entered(batch_queue[batches], e) \in Seq(Events)
        BY <1>1, <3>1, EnteredIsTyped
      <4> QED BY <1>1, <3>1, <3>2, <4>1 DEF Emit
    <3>3. ASSUME EmitBoth PROVE batch_queue' \in [BatchIds -> Seq(Events)]
      <4>1. Entered(batch_queue[batches], "news") \in Seq(Events)
        BY <1>1, <3>1, EnteredIsTyped DEF Events
      <4>2. Entered(Entered(batch_queue[batches], "news"), "error") \in Seq(Events)
        BY <4>1, EnteredIsTyped DEF Events, Final
      <4> QED BY <1>1, <3>1, <3>3, <4>2 DEF EmitBoth
    <3> QED BY <3>1, <3>2, <3>3
  <2>2. /\ batch_running' \in BOOLEAN /\ interrupted' \in [BatchIds -> BOOLEAN]
        /\ episode' \in [BatchIds -> Nat]
        /\ batch_task' \in [BatchIds -> {"none", "new", "clearing", "episode", "cleaning",
                                         "over", "unborn"}]
    BY DEF BatchTypes
  <2>3. \A d \in BatchIds : /\ batch_task'[d] = "none" <=> d > batches
                            /\ d > batches => episode'[d] = 0
    BY <1>1 DEF BatchTypes, BatchIds
  <2> QED BY <2>1, <2>2, <2>3 DEF BatchTypes
<1>6. CancelsAreCurrent'
  <2>1. \A d \in BatchIds : interrupted'[d] => interrupted[d] /\ Live(d)'
    BY <1>2, <1>3 DEF CancelsAreCurrent, BatchTypes
  <2> QED BY <2>1 DEF CancelsAreCurrent, Cancelling
<1>7. StatusIsTrue'
  <2> SUFFICES ASSUME ~mixed
               PROVE  /\ \A d \in BatchIds : Live(d)' => d = batches /\ batch_running'
                      /\ batch_running' /\ ~Live(batches)' =>
                           Cancelling' /\ batch_task'[batches] = "unborn"
                      /\ batch_cancelled' => \A d \in BatchIds : ~Live(d)'
    BY DEF StatusIsTrue
  <2>1. \A d \in BatchIds : Live(d)' => d = batches /\ batch_running'
    BY <1>2, <1>3, <1>4 DEF StatusIsTrue
  <2>2. batch_running' /\ ~Live(batches)' => Cancelling' /\ batch_task'[batches] = "unborn"
    BY <1>1, <1>3, <1>4 DEF CancelsAreCurrent, Cancelling
  <2>3. ~batch_cancelled'
    BY DEF StatusIsTrue
  <2> QED BY <2>1, <2>2, <2>3
<1>8. ResultsAreOwn'
  <2>1. ~mixed => b = batches /\ episode'[b] = n /\ batch_task'[b] = place
    BY <1>1, <1>4 DEF BatchTypes
  <2> QED BY <2>1 DEF ResultsAreOwn, Unfinished
<1>9. EndIsTold'
  <2>1. ASSUME ~mixed, NEW d \in BatchIds PROVE EndIsToldOf(d)'
    <3>1. EndIsToldOf(d) /\ EndIsToldOf(b)
      BY <2>1, EndIsToldOfAll
    <3>2. CASE d # b
      BY <1>1, <1>4, <2>1, <3>1, <3>2 DEF EndIsToldOf, Emit, EmitBoth, BatchTypes
    <3>3. CASE d = b
      <4>1. Ends(batch_queue[b]) = {} /\ ~told[b] /\ batch_queue[b] \in Seq(Events)
        BY <1>1, <3>1 DEF EndIsToldOf, BatchTypes
      <4>2. CASE batch_queue' = batch_queue /\ place # "over"
        BY <1>1, <3>3, <4>1, <4>2 DEF EndIsToldOf
      <4>3. ASSUME NEW e \in Events, Emit(e), e \in Final <=> place = "over"
            PROVE  EndIsToldOf(b)'
        <5>1. batch_queue'[b] = Entered(batch_queue[b], e)
          BY <1>4, <2>1, <4>3 DEF Emit, BatchTypes
        <5>2. Ends(batch_queue'[b]) = IF e \in Final THEN {Len(batch_queue'[b])} ELSE {}
          BY <4>1, <5>1, EnteredEnds
        <5> QED BY <1>1, <4>1, <4>3, <5>2 DEF EndIsToldOf
      <4>4. ASSUME EmitBoth, place = "over" PROVE EndIsToldOf(b)'
        <5> DEFINE q == Entered(batch_queue[b], "news")
        <5>1. batch_queue'[b] = Entered(q, "error")
          BY <1>4, <2>1, <4>4 DEF EmitBoth, BatchTypes
        <5>2. "news" \in Events /\ "news" \notin Final /\ "error" \in Events /\ "error" \in Final
          BY DEF Events, Final
        <5>3. q \in Seq(Events) /\ Ends(q) = {}
          BY <4>1, <5>2, EnteredIsTyped, EnteredEnds
        <5> HIDE DEF q
        <5>4. Ends(batch_queue'[b]) = {Len(batch_queue'[b])}
          BY <5>1, <5>2, <5>3, EnteredEnds
        <5> QED BY <1>1, <4>1, <4>4, <5>4 DEF EndIsToldOf
      <4> QED BY <3>3, <4>2, <4>3, <4>4
    <3> QED BY <3>2, <3>3
  <2> QED BY <2>1, EndIsToldNext
<1>10. ErrorIsLast'
  <2>1. \A d \in BatchIds : batch_task'[d] \in {"new", "clearing"} => episode'[d] = 0
    BY <1>1 DEF ErrorIsLast, BatchTypes
  <2>2. ~mixed /\ Live(batches)' => ~batch_error'
    BY <1>3, <1>4 DEF ErrorIsLast
  <2> QED BY <2>1, <2>2 DEF ErrorIsLast
<1> QED BY <1>5, <1>6, <1>7, <1>8, <1>9, <1>10

\* Ending, in whatever way; an error ends it before the loop.
LEMMA FinishKeeps ==
  ASSUME BatchInv, NEW b \in BatchIds, batch_task[b] \in {"clearing", "cleaning"},
         NEW e \in Final, Finish(b, e), WorkerOnly,
         e = "error" => batch_task[b] = "clearing"
  PROVE  BatchInv'
<1> DEFINE n == episode[b]
<1>0. episode \in [BatchIds -> Nat] /\ batch_idx \in Nat /\ batch_results \in Nat
  BY DEF BatchInv, BatchTypes
<1>1. /\ Live(b) /\ n \in Nat /\ episode' = [episode EXCEPT ![b] = n]
      /\ batch_idx' = batch_idx /\ batch_results' = batch_results
      /\ batch_idx \in Nat /\ batch_results \in Nat
  BY <1>0, BatchConstants DEF Live, BatchIds, Finish
<1>2. ~mixed /\ b = batches =>
         /\ batch_idx' = n /\ batch_results' = batch_idx' - 0
         /\ ~(batch_error' /\ batch_idx' > 0)
  <2>1. b > 0
    BY BatchConstants DEF BatchIds
  <2>2. batch_error' => batch_error \/ episode[b] = 0
    BY DEF Finish, BatchInv, ErrorIsLast
  <2> QED BY <1>1, <2>1, <2>2 DEF BatchInv, ResultsAreOwn, ErrorIsLast, Unfinished
<1>3. /\ batch_task' = [batch_task EXCEPT ![b] = "over"]
      /\ interrupted' = [interrupted EXCEPT ![b] = FALSE]
      /\ batch_running' = FALSE /\ Emit(e) /\ e \in Events /\ batch_error' \in BOOLEAN
  BY DEF Finish, Moves, Events, BatchInv, BatchTypes
<1> HIDE DEF n
<1> QED BY <1>1, <1>2, <1>3, WorkerStepKeeps

LEMMA WorkerKeeps ==
  ASSUME BatchInv, NEW b \in BatchIds, WorkerProceeds(b) \/ EmitLog(b) \/ EndEpisode(b)
  PROVE  BatchInv'
<1> USE BatchConstants
<1>0. /\ b > 0 /\ episode[b] \in Nat /\ batch_idx \in Nat /\ batch_results \in Nat
      /\ episode = [episode EXCEPT ![b] = episode[b]] /\ batch_error \in BOOLEAN
      /\ Live(b) /\ ~mixed /\ b = batches => ~batch_error
  <2>1. episode \in [BatchIds -> Nat] /\ batch_idx \in Nat /\ batch_results \in Nat
    BY DEF BatchInv, BatchTypes
  <2>2. batch_error \in BOOLEAN /\ (Live(b) /\ ~mixed /\ b = batches => ~batch_error)
    BY DEF BatchInv, BatchTypes, ErrorIsLast
  <2> QED BY <2>1, <2>2 DEF BatchIds
<1>1. CASE FirstStep(b)
  <2> DEFINE place == IF interrupted[b] THEN "unborn" ELSE "clearing"
  <2>1. /\ Live(b) /\ batch_task' = [batch_task EXCEPT ![b] = place]
        /\ WorkerOnly /\ interrupted' = [interrupted EXCEPT ![b] = FALSE]
        /\ batch_running' = batch_running /\ episode' = episode
        /\ batch_idx' = batch_idx /\ batch_results' = batch_results
        /\ batch_queue' = batch_queue /\ batch_task[b] = "new" /\ batch_error' = batch_error
    BY <1>0, <1>1 DEF FirstStep, Live, Moves
  <2>2. ~mixed /\ b = batches => batch_idx' = episode[b] /\ batch_results' = batch_idx' - 0
    BY <1>0, <2>1 DEF BatchInv, ResultsAreOwn, Unfinished
  <2>3. place \in {"unborn", "clearing"} /\ (place = "unborn" => interrupted[b])
    OBVIOUS
  <2>4. episode[b] = 0
    BY <2>1 DEF BatchInv, ErrorIsLast
  <2> HIDE DEF place
  <2> QED BY <1>0, <2>1, <2>2, <2>3, <2>4, WorkerStepKeeps
<1>2. CASE BeginEpisode(b)
  <2>1. /\ Live(b) /\ batch_task' = [batch_task EXCEPT ![b] = "episode"]
        /\ WorkerOnly /\ interrupted' = interrupted /\ batch_running' = batch_running
        /\ episode' = [episode EXCEPT ![b] = episode[b] + 1]
        /\ batch_idx' = episode[b] + 1 /\ batch_results' = batch_results
        /\ Emit("news") /\ batch_task[b] # "episode" /\ batch_error' = batch_error
    BY <1>0, <1>2 DEF BeginEpisode, AtHead, Live, Moves
  <2>2. ~mixed /\ b = batches => batch_results' = batch_idx' - 1
    BY <1>0, <2>1 DEF BatchInv, ResultsAreOwn, Unfinished
  <2>3. "news" \in Events \ Final
    BY DEF Events, Final
  <2>4. episode[b] + 1 \in Nat
    BY <1>0
  <2> QED BY <1>0, <2>1, <2>2, <2>3, <2>4, WorkerStepKeeps
<1>3. CASE FinishBatch(b) \/ RaiseAtStart(b) \/ Interrupt(b)
  BY <1>3, FinishKeeps DEF FinishBatch, RaiseAtStart, Interrupt, AtHead, Final
<1>6. CASE RaiseInEpisode(b)
  <2>1. /\ Live(b) /\ batch_task' = [batch_task EXCEPT ![b] = "over"]
        /\ WorkerOnly /\ batch_running' = FALSE
        /\ episode' = [episode EXCEPT ![b] = episode[b] + 1]
        /\ batch_idx' = episode[b] + 1 /\ batch_results' = batch_results
        /\ EmitBoth /\ batch_task[b] # "episode" /\ batch_error' = TRUE
    BY <1>0, <1>6 DEF RaiseInEpisode, AtHead, Live, Moves, EmitBoth
  <2>2. ~mixed /\ b = batches => batch_results' = batch_idx' - 1
    BY <1>0, <2>1 DEF BatchInv, ResultsAreOwn, Unfinished
  <2>3. interrupted' = [interrupted EXCEPT ![b] = FALSE]
    BY <1>6 DEF RaiseInEpisode, AtHead, BatchInv, BatchTypes
  <2>4. episode[b] + 1 \in Nat /\ episode[b] + 1 > 0
    BY <1>0
  <2> QED BY <1>0, <2>1, <2>2, <2>3, <2>4, WorkerStepKeeps
<1>4. CASE EmitLog(b)
  <2>1. /\ Live(b) /\ batch_task' = [batch_task EXCEPT ![b] = "episode"]
        /\ WorkerOnly /\ interrupted' = interrupted /\ batch_running' = batch_running
        /\ episode' = episode /\ batch_idx' = batch_idx /\ batch_results' = batch_results
        /\ Emit("news") /\ batch_task[b] = "episode" /\ batch_error' = batch_error
    BY <1>0, <1>4 DEF EmitLog, Live, taskVars, BatchInv, BatchTypes
  <2>2. ~mixed /\ b = batches => batch_idx' = episode[b] /\ batch_results' = batch_idx' - 1
    BY <1>0, <2>1 DEF BatchInv, ResultsAreOwn, Unfinished
  <2>3. "news" \in Events \ Final
    BY DEF Events, Final
  <2> QED BY <1>0, <2>1, <2>2, <2>3, WorkerStepKeeps
<1>5. CASE EndEpisode(b)
  <2>1. /\ Live(b) /\ batch_task' = [batch_task EXCEPT ![b] = "cleaning"]
        /\ WorkerOnly /\ interrupted' = [interrupted EXCEPT ![b] = FALSE]
        /\ batch_running' = batch_running /\ episode' = episode
        /\ batch_idx' = batch_idx /\ batch_results' = batch_results + 1
        /\ Emit("news") /\ batch_task[b] = "episode" /\ batch_error' = batch_error
    BY <1>0, <1>5 DEF EndEpisode, Live, Moves
  <2>2. ~mixed /\ b = batches => batch_idx' = episode[b] /\ batch_results' = batch_idx' - 0
    BY <1>0, <2>1 DEF BatchInv, ResultsAreOwn, Unfinished
  <2>3. "news" \in Events \ Final /\ batch_results + 1 \in Nat
    BY <1>0 DEF Events, Final
  <2> QED BY <1>0, <2>1, <2>2, <2>3, WorkerStepKeeps
<1> QED BY <1>1, <1>2, <1>3, <1>4, <1>5, <1>6 DEF WorkerProceeds

\* A cancel is answered when nobody is alive any more.
LEMMA CancelAnsweredKeeps ==
  ASSUME BatchInv, NEW c \in CancelRequests, CancelAnswered(c),
         ~mixed => ~Live(batches),
         UNCHANGED <<batches, batch_idx, batch_results, batch_error, batch_cancel_event,
                     batch_task, episode, batch_queue, told, batchReaderVars, mixed>>
  PROVE  BatchInv'
<1> USE BatchConstants DEF BatchInv, batchReaderVars
<1>1. /\ batch_running' = FALSE /\ batch_cancelled' = TRUE
      /\ canceller' = [canceller EXCEPT ![c] = "out"]
      /\ awaited' = [awaited EXCEPT ![c] = 0] /\ interrupted' = interrupted
  BY DEF CancelAnswered
<1>2. \A b \in BatchIds : Live(b)' <=> Live(b)
  BY DEF Live
<1>3. ~mixed => \A b \in BatchIds : ~Live(b)
  BY DEF StatusIsTrue
<1>4. BatchTypes'
  <2>1. /\ canceller' \in [CancelRequests -> {"out", "downing", "awaiting"}]
        /\ awaited' \in [CancelRequests -> 0..batches]
    BY <1>1 DEF BatchTypes
  <2> QED BY <1>1, <2>1 DEF BatchTypes
<1>5. CancelsAreCurrent'
  <2>1. \A d \in CancelRequests : canceller'[d] = "awaiting" =>
          canceller[d] = "awaiting" /\ awaited'[d] = awaited[d]
    BY <1>1 DEF BatchTypes
  <2> QED BY <1>1, <1>2, <1>3, <2>1 DEF CancelsAreCurrent
<1>6. StatusIsTrue' /\ ResultsAreOwn' /\ EndIsTold' /\ ErrorIsLast'
  BY <1>1, <1>2, <1>3 DEF StatusIsTrue, ResultsAreOwn, Unfinished, EndIsTold, ErrorIsLast, Live
<1> QED BY <1>4, <1>5, <1>6

LEMMA CancellerKeeps ==
  ASSUME BatchInv, NEW c \in CancelRequests,
         CancelBatch(c) \/ ContainersDown(c) \/ EndCancel(c)
  PROVE  BatchInv'
<1> USE BatchConstants DEF batchReaderVars
<1>1. CASE CancelBatch(c)
  <2> USE DEF BatchInv, CancelBatch, statusVars, taskVars
  <2>1. \A b \in BatchIds : Live(b)' <=> Live(b)
    BY <1>1 DEF Live
  <2>2. \A d \in CancelRequests : canceller'[d] = "awaiting" => canceller[d] = "awaiting"
    BY <1>1 DEF BatchTypes
  <2>3. Cancelling'
    BY <1>1 DEF Cancelling, BatchTypes
  <2>4. BatchTypes'
    BY <1>1 DEF BatchTypes
  <2>5. CancelsAreCurrent'
    BY <1>1, <2>1, <2>2, <2>3 DEF CancelsAreCurrent
  <2>6. StatusIsTrue'
    <3>1. Live(batches)' <=> Live(batches)
      BY <1>1 DEF Live
    <3> QED BY <1>1, <2>1, <2>3, <3>1 DEF StatusIsTrue
  <2>7. ResultsAreOwn' /\ EndIsTold' /\ ErrorIsLast'
    BY <1>1 DEF ResultsAreOwn, Unfinished, EndIsTold, ErrorIsLast, Live
  <2> QED BY <2>4, <2>5, <2>6, <2>7
<1>2. CASE ContainersDown(c) /\ Live(batches)
  <2> USE DEF BatchInv
  <2>1. /\ interrupted' = [interrupted EXCEPT ![batches] = TRUE]
        /\ canceller' = [canceller EXCEPT ![c] = "awaiting"]
        /\ awaited' = [awaited EXCEPT ![c] = batches]
        /\ UNCHANGED <<batches, batch_running, batch_cancelled, batch_idx, batch_results,
                       batch_error, batch_cancel_event, batch_task, episode, batch_queue,
                       told, reader, reads, mixed>>
    BY <1>2 DEF ContainersDown, DownAnd
  <2>2. /\ batches \in BatchIds /\ interrupted' \in [BatchIds -> BOOLEAN]
        /\ \A b \in BatchIds : interrupted'[b] => interrupted[b] \/ b = batches
    <3>1. batches \in BatchIds /\ interrupted \in [BatchIds -> BOOLEAN]
      BY <1>2 DEF BatchTypes, BatchIds, Live
    <3> QED BY <2>1, <3>1
  <2>3. \A b \in BatchIds : Live(b)' <=> Live(b)
    BY <2>1 DEF Live
  <2>4. Cancelling'
    BY <2>1 DEF Cancelling, BatchTypes
  <2>5. BatchTypes'
    <3>1. /\ canceller' \in [CancelRequests -> {"out", "downing", "awaiting"}]
          /\ awaited' \in [CancelRequests -> 0..batches]
      BY <2>1, <2>2 DEF BatchTypes
    <3> QED BY <2>1, <2>2, <3>1 DEF BatchTypes
  <2>6. CancelsAreCurrent'
    <3>1. \A d \in CancelRequests : canceller'[d] = "awaiting" /\ ~mixed => awaited'[d] = batches
      BY <2>1 DEF CancelsAreCurrent, BatchTypes
    <3>2. \A b \in BatchIds : interrupted'[b] => Live(b)'
      BY <1>2, <2>2, <2>3 DEF CancelsAreCurrent
    <3> QED BY <2>1, <2>4, <3>1, <3>2 DEF CancelsAreCurrent
  <2>7. StatusIsTrue'
    <3>1. Live(batches)' <=> Live(batches)
      BY <2>1 DEF Live
    <3> QED BY <2>1, <2>3, <2>4, <3>1 DEF StatusIsTrue
  <2>8. ResultsAreOwn' /\ EndIsTold' /\ ErrorIsLast'
    BY <2>1 DEF ResultsAreOwn, Unfinished, EndIsTold, ErrorIsLast, Live
  <2> QED BY <2>5, <2>6, <2>7, <2>8
<1>3. CASE ContainersDown(c) /\ ~Live(batches)
  BY <1>3, CancelAnsweredKeeps DEF ContainersDown, DownAnd
<1>4. CASE EndCancel(c)
  <2>1. ~mixed => ~Live(batches)
    BY <1>4 DEF EndCancel, BatchInv, CancelsAreCurrent
  <2> QED BY <1>4, <2>1, CancelAnsweredKeeps DEF EndCancel
<1> QED BY <1>1, <1>2, <1>3, <1>4

LEMMA ReaderKeeps ==
  ASSUME BatchInv, NEW r \in BatchReaders, OpenBatchStream(r) \/ ReaderProceeds(r)
  PROVE  BatchInv'
<1> USE BatchConstants DEF BatchInv
<1>1. UNCHANGED <<batches, batch_running, batch_cancelled, batch_idx, batch_results,
                  batch_error, batch_cancel_event, batch_task, episode, interrupted,
                  canceller, awaited, mixed>>
  BY DEF OpenBatchStream, ReaderProceeds, TakeEvent, WaitTimesOut, ReaderOnly, statusVars,
     taskVars, cancelVars
<1>2. CancelsAreCurrent' /\ StatusIsTrue' /\ ResultsAreOwn' /\ ErrorIsLast'
  BY <1>1 DEF CancelsAreCurrent, StatusIsTrue, ResultsAreOwn, Unfinished, ErrorIsLast, Live,
              Cancelling
<1>3. reads' = [reads EXCEPT ![r] = batches] /\ batches \in 0..batches
  BY DEF OpenBatchStream, ReaderProceeds, TakeEvent, WaitTimesOut, BatchTypes
<1>4. /\ reader' \in [BatchReaders -> {"out", "waiting", "ended"}]
      /\ reads' \in [BatchReaders -> 0..batches]
  BY <1>3 DEF OpenBatchStream, ReaderProceeds, TakeEvent, WaitTimesOut, BatchTypes
<1>5. batches # 0
  BY DEF OpenBatchStream, ReaderProceeds, TakeEvent, WaitTimesOut, BatchTypes
<1>6. \A d \in BatchReaders : reader'[d] = "waiting" => reads'[d] # 0
  BY <1>3, <1>5 DEF OpenBatchStream, ReaderProceeds, TakeEvent, WaitTimesOut, BatchTypes
<1>7. CASE TakeEvent(r)
  <2> DEFINE b == reads[r]
  <2> DEFINE q == batch_queue[b]
  <2>1. b \in BatchIds /\ q \in Seq(Events) /\ q # <<>>
    BY <1>7 DEF TakeEvent, BatchTypes, BatchIds
  <2>2. /\ batch_queue' = [batch_queue EXCEPT ![b] = Tail(q)]
        /\ told' = [told EXCEPT ![b] = told[b] \/ Head(q) \in Final]
    BY <1>7 DEF TakeEvent
  <2>3. Tail(q) \in Seq(Events)
    BY <2>1
  <2>4. BatchTypes'
    <3>1. batch_queue' \in [BatchIds -> Seq(Events)] /\ told' \in [BatchIds -> BOOLEAN]
      BY <2>1, <2>2, <2>3 DEF BatchTypes
    <3> QED BY <1>1, <1>4, <1>6, <3>1 DEF BatchTypes
  <2>5. ASSUME ~mixed, NEW d \in BatchIds PROVE EndIsToldOf(d)'
    <3>1. EndIsToldOf(d)
      BY <2>5, EndIsToldOfAll
    <3>2. CASE d # b
      BY <1>1, <2>2, <3>1, <3>2 DEF EndIsToldOf, BatchTypes
    <3>3. CASE d = b
      <4>1. batch_queue'[d] = Tail(q) /\ told'[d] = (told[d] \/ Head(q) \in Final)
        BY <2>1, <2>2, <3>3 DEF BatchTypes
      <4>2. batch_task'[d] = batch_task[d] /\ batch_queue[d] = q
        BY <1>1, <3>3
      <4> HIDE DEF q
      <4>3. CASE batch_task[d] = "over"
        <5>1. ~told[d] /\ Ends(q) = {Len(q)}
          BY <2>1, <3>1, <4>2, <4>3 DEF EndIsToldOf
        <5>2. IF Head(q) \in Final THEN Tail(q) = <<>> ELSE Ends(Tail(q)) = {Len(Tail(q))}
          BY <2>1, <5>1, TakenEnds
        <5> QED BY <4>1, <4>2, <4>3, <5>1, <5>2 DEF EndIsToldOf
      <4>4. CASE batch_task[d] # "over"
        <5>1. ~told[d] /\ Ends(q) = {}
          BY <3>1, <4>2, <4>4 DEF EndIsToldOf
        <5>2. Ends(Tail(q)) = {} /\ Head(q) \notin Final
          BY <2>1, <5>1, TakenEnds
        <5> QED BY <4>1, <4>2, <4>4, <5>1, <5>2 DEF EndIsToldOf
      <4> QED BY <4>3, <4>4
    <3> QED BY <3>2, <3>3
  <2>6. EndIsTold'
    BY <1>1, <2>5, EndIsToldNext
  <2> QED BY <1>2, <2>4, <2>6
<1>8. CASE batch_queue' = batch_queue /\ told' = told
  <2>1. BatchTypes' /\ EndIsTold'
    BY <1>1, <1>4, <1>6, <1>8 DEF BatchTypes, EndIsTold
  <2> QED BY <1>2, <2>1
<1> QED BY <1>7, <1>8 DEF OpenBatchStream, ReaderProceeds, WaitTimesOut

LEMMA NextBatch == BatchInv /\ [BatchNext]_batchVars => BatchInv'
<1> SUFFICES ASSUME BatchInv, [BatchNext]_batchVars PROVE BatchInv'
  OBVIOUS
<1>1. CASE StartBatch
  BY <1>1, StartBatchKeeps
<1>2. ASSUME NEW b \in BatchIds, WorkerProceeds(b) \/ EmitLog(b) \/ EndEpisode(b)
      PROVE  BatchInv'
  BY <1>2, WorkerKeeps
<1>3. ASSUME NEW c \in CancelRequests, CancelBatch(c) \/ ContainersDown(c) \/ EndCancel(c)
      PROVE  BatchInv'
  BY <1>3, CancellerKeeps
<1>4. ASSUME NEW r \in BatchReaders, OpenBatchStream(r) \/ ReaderProceeds(r) PROVE BatchInv'
  BY <1>4, ReaderKeeps
<1>5. CASE UNCHANGED batchVars
  BY <1>5 DEF BatchInv, batchVars, statusVars, taskVars, cancelVars, batchReaderVars,
     BatchTypes, CancelsAreCurrent, ErrorIsLast, StatusIsTrue, ResultsAreOwn, Unfinished,
     EndIsTold, Live, Cancelling
<1> QED BY <1>1, <1>2, <1>3, <1>4, <1>5 DEF BatchNext

LEMMA BatchInvIsOwn == BatchInv => BatchIsOwn
<1> SUFFICES ASSUME BatchInv PROVE OneWorker
  BY DEF BatchInv, BatchIsOwn
<1> SUFFICES ASSUME ~mixed PROVE Cardinality({b \in BatchIds : Live(b)}) <= 1
  BY DEF OneWorker
<1>1. {b \in BatchIds : Live(b)} = {} \/ {b \in BatchIds : Live(b)} = {batches}
  BY DEF BatchInv, StatusIsTrue
<1>2. Cardinality({}) = 0 /\ Cardinality({batches}) = 1
  BY FS_EmptySet, FS_Singleton
<1> QED BY <1>1, <1>2

-----------------------------------------------------------------------------
\* Unless a batch is started while a cancel is under way, the batches of the backend
\* run one at a time, and status, results and events are those of the current one:
\* the status says running exactly as long as it runs, the results are those of its
\* episodes, and its end is the last event and told once, for any number of batches,
\* cancels and readers and any length of the queue.
THEOREM BatchesAreOwn == BatchSpec => []BatchIsOwn
BY InitBatch, NextBatch, BatchInvIsOwn, PTL DEF BatchSpec

\* The episodes a batch has behind it.
Behind(b) == IF batch_task[b] = "episode" THEN episode[b] - 1 ELSE episode[b]
EpisodesBehind == {p \in BatchIds \X (1..Episodes) : p[2] <= Behind(p[1])}

BoundsInv ==
  /\ batch_idx <= Episodes /\ \A b \in BatchIds : episode[b] <= Episodes
  /\ \A b \in BatchIds : batch_task[b] = "episode" => episode[b] # 0
  /\ \A b \in BatchIds : Len(batch_queue[b]) <= BatchQueueSize
  /\ \A c \in CancelRequests : awaited[c] # 0 <=> canceller[c] = "awaiting"
  /\ batch_results <= Cardinality(EpisodesBehind)

LEMMA BatchTyped ==
  ASSUME BatchInv
  PROVE  /\ batches \in Nat /\ batch_idx \in Nat /\ batch_results \in Nat
         /\ \A b \in BatchIds : episode[b] \in Nat /\ batch_queue[b] \in Seq(Events)
         /\ DOMAIN episode = BatchIds /\ DOMAIN batch_task = BatchIds
         /\ DOMAIN batch_queue = BatchIds /\ DOMAIN canceller = CancelRequests
         /\ DOMAIN awaited = CancelRequests
BY DEF BatchInv, BatchTypes

LEMMA BehindIsFinite ==
  /\ \A P \in SUBSET (BatchIds \X (1..Episodes)) : IsFiniteSet(P) /\ Cardinality(P) \in Nat
                                                   /\ Cardinality(P) <= MaxBatches * Episodes
<1>1. /\ MaxBatches \in Nat /\ Episodes \in Nat /\ MaxBatches # 0 /\ Episodes # 0
  BY BatchConstants
<1>2. \A n \in Nat \ {0} : IsFiniteSet(1..n) /\ Cardinality(1..n) = n
  <2> SUFFICES ASSUME NEW n \in Nat \ {0} PROVE IsFiniteSet(1..n) /\ Cardinality(1..n) = n
    OBVIOUS
  <2>1. n \in Int /\ 1 \in Int /\ ~(1 > n) /\ n - 1 + 1 = n
    OBVIOUS
  <2>2. IsFiniteSet(1..n) /\ Cardinality(1..n) = IF 1 > n THEN 0 ELSE n - 1 + 1
    BY <2>1, FS_Interval
  <2> QED BY <2>1, <2>2
<1>3. /\ IsFiniteSet(BatchIds) /\ Cardinality(BatchIds) = MaxBatches
      /\ IsFiniteSet(1..Episodes) /\ Cardinality(1..Episodes) = Episodes
  BY <1>1, <1>2 DEF BatchIds
<1>4. /\ IsFiniteSet(BatchIds \X (1..Episodes))
      /\ Cardinality(BatchIds \X (1..Episodes)) = MaxBatches * Episodes
  BY <1>3, FS_Product
<1> QED BY <1>4, FS_Subset, FS_CardinalityType

\* What is behind stays behind.
LEMMA BehindGrows ==
  ASSUME BatchInv, BoundsInv, \A b \in BatchIds : episode'[b] \in Nat /\ Behind(b) <= Behind(b)'
  PROVE  Cardinality(EpisodesBehind) <= Cardinality(EpisodesBehind')
<1>1. EpisodesBehind \subseteq EpisodesBehind'
  <2> SUFFICES ASSUME NEW p \in EpisodesBehind PROVE p \in EpisodesBehind'
    OBVIOUS
  <2>1. p \in BatchIds \X (1..Episodes) /\ p[1] \in BatchIds /\ p[2] \in Nat /\ p[2] <= Behind(p[1])
    BY DEF EpisodesBehind
  <2>2. Behind(p[1]) <= Behind(p[1])' /\ Behind(p[1]) \in Int /\ Behind(p[1])' \in Int
    BY <2>1, BatchTyped DEF Behind
  <2>3. p[2] <= Behind(p[1])'
    <3> DEFINE x == Behind(p[1])
               y == Behind(p[1])'
    <3>1. x \in Int /\ y \in Int /\ x <= y /\ p[2] <= x
      BY <2>1, <2>2
    <3> HIDE DEF x, y
    <3>2. p[2] <= y
      BY <2>1, <3>1
    <3> QED BY <3>2 DEF y
  <2> QED BY <2>1, <2>3 DEF EpisodesBehind
<1>2. EpisodesBehind' \in SUBSET (BatchIds \X (1..Episodes))
  BY DEF EpisodesBehind
<1> QED BY <1>1, <1>2, BehindIsFinite, FS_Subset

LEMMA EnteredFits ==
  ASSUME NEW q \in Seq(Events), Len(q) <= BatchQueueSize, NEW e
  PROVE  Len(Entered(q, e)) <= BatchQueueSize
<1>1. BatchQueueSize \in Nat /\ BatchQueueSize # 0 /\ Len(q) \in Nat
  BY BatchConstants
<1>2. CASE Len(q) >= BatchQueueSize
  <2>1. q # <<>>
    BY <1>1, <1>2
  <2>2. Len(Tail(q)) = Len(q) - 1 /\ Len(Append(Tail(q), e)) = Len(Tail(q)) + 1
    BY <2>1
  <2> QED BY <1>1, <1>2, <2>2 DEF Entered
<1>3. CASE ~(Len(q) >= BatchQueueSize)
  <2>1. Len(Append(q, e)) = Len(q) + 1
    OBVIOUS
  <2> QED BY <1>1, <1>3, <2>1 DEF Entered
<1> QED BY <1>2, <1>3

LEMMA EmitFits ==
  ASSUME BatchInv, BoundsInv, NEW e, Emit(e)
  PROVE  \A b \in BatchIds : Len(batch_queue'[b]) <= BatchQueueSize
<1> SUFFICES ASSUME NEW b \in BatchIds PROVE Len(batch_queue'[b]) <= BatchQueueSize
  OBVIOUS
<1>1. batch_queue'[b] = batch_queue[b] \/ batch_queue'[b] = Entered(batch_queue[b], e)
  BY BatchTyped DEF Emit
<1>2. batch_queue[b] \in Seq(Events) /\ Len(batch_queue[b]) <= BatchQueueSize
  BY BatchTyped DEF BoundsInv
<1> QED BY <1>1, <1>2, EnteredFits

\* A step that leaves the episodes where they are.
LEMMA BoundsKeep ==
  ASSUME BatchInv, BatchInv', BoundsInv,
         batch_idx' <= Episodes, episode' = episode,
         \A b \in BatchIds : batch_task'[b] = "episode" <=> batch_task[b] = "episode",
         \A b \in BatchIds : Len(batch_queue'[b]) <= BatchQueueSize,
         \A c \in CancelRequests : awaited'[c] # 0 <=> canceller'[c] = "awaiting",
         batch_results' <= batch_results
  PROVE  BoundsInv'
<1>1. \A b \in BatchIds : episode'[b] \in Nat /\ Behind(b)' = Behind(b) /\ Behind(b) \in Int
  BY BatchTyped DEF Behind
<1>2. Cardinality(EpisodesBehind) <= Cardinality(EpisodesBehind')
  <2>1. \A b \in BatchIds : Behind(b) <= Behind(b)'
    <3> SUFFICES ASSUME NEW b \in BatchIds PROVE Behind(b) <= Behind(b)'
      OBVIOUS
    <3> DEFINE x == Behind(b)
    <3>1. x \in Int /\ Behind(b)' = x
      BY <1>1
    <3> HIDE DEF x
    <3>2. x <= x
      BY <3>1
    <3> QED BY <3>1, <3>2 DEF x
  <2> QED BY <1>1, <2>1, BehindGrows
<1>3. Cardinality(EpisodesBehind) \in Nat /\ Cardinality(EpisodesBehind') \in Nat
  BY BehindIsFinite DEF EpisodesBehind
<1>4. batch_results' \in Nat /\ batch_results \in Nat
  BY BatchTyped DEF BatchInv, BatchTypes
<1>5. batch_results' <= Cardinality(EpisodesBehind')
  BY <1>2, <1>3, <1>4 DEF BoundsInv
<1>6. Cardinality(EpisodesBehind)' = Cardinality(EpisodesBehind')
  OBVIOUS
<1> QED BY <1>5, <1>6 DEF BoundsInv

LEMMA BeginEpisodeBounds ==
  ASSUME BatchInv, BatchInv', BoundsInv, NEW b \in BatchIds, BeginEpisode(b) \/ RaiseInEpisode(b)
  PROVE  BoundsInv'
<1>0. Episodes \in Nat
  BY BatchConstants
<1>1. /\ episode[b] < Episodes /\ batch_task[b] \in {"clearing", "cleaning"}
      /\ episode'[b] = episode[b] + 1 /\ batch_task'[b] \in {"episode", "over"}
      /\ \A d \in BatchIds \ {b} : episode'[d] = episode[d] /\ batch_task'[d] = batch_task[d]
      /\ batch_idx' = episode[b] + 1 /\ batch_results' = batch_results
      /\ canceller' = canceller /\ awaited' = awaited
  BY BatchTyped DEF BeginEpisode, RaiseInEpisode, AtHead, Moves, WorkerOnly, cancelVars
<1>2. \A d \in BatchIds : Len(batch_queue'[d]) <= BatchQueueSize
  <2>1. CASE BeginEpisode(b)
    BY <2>1, EmitFits DEF BeginEpisode
  <2>2. ASSUME RaiseInEpisode(b), NEW d \in BatchIds PROVE Len(batch_queue'[d]) <= BatchQueueSize
    <3>1. \/ batch_queue'[d] = batch_queue[d]
          \/ batch_queue'[d] = Entered(Entered(batch_queue[d], "news"), "error")
      BY <2>2, BatchTyped DEF RaiseInEpisode
    <3>2. batch_queue[d] \in Seq(Events) /\ Len(batch_queue[d]) <= BatchQueueSize
      BY BatchTyped DEF BoundsInv
    <3>3. /\ Entered(batch_queue[d], "news") \in Seq(Events)
          /\ Len(Entered(batch_queue[d], "news")) <= BatchQueueSize
      BY <3>2, EnteredIsTyped, EnteredFits DEF Events
    <3>4. Len(Entered(Entered(batch_queue[d], "news"), "error")) <= BatchQueueSize
      BY <3>3, EnteredFits
    <3> QED BY <3>1, <3>2, <3>4
  <2> QED BY <2>1, <2>2
<1>3. /\ batch_idx' <= Episodes /\ \A d \in BatchIds : episode'[d] <= Episodes
      /\ \A d \in BatchIds : batch_task'[d] = "episode" => episode'[d] # 0
  BY <1>0, <1>1, BatchTyped DEF BoundsInv
<1>4. \A d \in BatchIds : episode'[d] \in Nat /\ Behind(d) <= Behind(d)'
  <2> SUFFICES ASSUME NEW d \in BatchIds PROVE episode'[d] \in Nat /\ Behind(d) <= Behind(d)'
    OBVIOUS
  <2>1. CASE d = b
    BY <1>1, <2>1, BatchTyped DEF Behind
  <2>2. CASE d # b
    BY <1>1, <2>2, BatchTyped DEF Behind
  <2> QED BY <2>1, <2>2
<1>5. Cardinality(EpisodesBehind) <= Cardinality(EpisodesBehind')
  BY <1>4, BehindGrows
<1>6. Cardinality(EpisodesBehind) \in Nat /\ Cardinality(EpisodesBehind') \in Nat
  BY BehindIsFinite DEF EpisodesBehind
<1>7. batch_results' <= Cardinality(EpisodesBehind')
  BY <1>1, <1>5, <1>6, BatchTyped DEF BoundsInv
<1>8. Cardinality(EpisodesBehind)' = Cardinality(EpisodesBehind')
  OBVIOUS
<1> QED BY <1>1, <1>2, <1>3, <1>7, <1>8 DEF BoundsInv

\* The episode that ends is behind from now on, and it was not before.
LEMMA EndEpisodeBounds ==
  ASSUME BatchInv, BatchInv', BoundsInv, NEW b \in BatchIds, EndEpisode(b)
  PROVE  BoundsInv'
<1>0. Episodes \in Nat
  BY BatchConstants
<1>1. /\ batch_task[b] = "episode" /\ batch_task'[b] = "cleaning" /\ episode' = episode
      /\ \A d \in BatchIds \ {b} : batch_task'[d] = batch_task[d]
      /\ batch_idx' = batch_idx /\ batch_results' = batch_results + 1
      /\ canceller' = canceller /\ awaited' = awaited
  BY BatchTyped DEF EndEpisode, Moves, WorkerOnly, cancelVars
<1>2. \A d \in BatchIds : Len(batch_queue'[d]) <= BatchQueueSize
  BY EmitFits DEF EndEpisode
<1>3. episode[b] \in 1..Episodes
  BY <1>0, <1>1, BatchTyped DEF BoundsInv
<1> DEFINE last == <<b, episode[b]>>
<1>4. last \in EpisodesBehind' /\ last \notin EpisodesBehind
  <2>1. last \in BatchIds \X (1..Episodes) /\ last[1] = b /\ last[2] = episode[b]
    BY <1>3
  <2>2. Behind(b) = episode[b] - 1 /\ Behind(b)' = episode[b]
    BY <1>1 DEF Behind
  <2>3. ~(episode[b] <= episode[b] - 1) /\ episode[b] <= episode[b]
    BY <1>3
  <2> HIDE DEF last
  <2> QED BY <2>1, <2>2, <2>3 DEF EpisodesBehind
<1>5. EpisodesBehind \subseteq EpisodesBehind'
  <2> SUFFICES ASSUME NEW p \in EpisodesBehind PROVE p \in EpisodesBehind'
    OBVIOUS
  <2>1. p \in BatchIds \X (1..Episodes) /\ p[1] \in BatchIds /\ p[2] \in Nat /\ p[2] <= Behind(p[1])
    BY DEF EpisodesBehind
  <2>2. CASE p[1] = b
    <3>1. Behind(b) = episode[b] - 1 /\ Behind(b)' = episode[b]
      BY <1>1 DEF Behind
    <3>2. p[2] <= episode[b]
      BY <1>3, <2>1, <2>2, <3>1
    <3> QED BY <2>1, <2>2, <3>1, <3>2 DEF EpisodesBehind
  <2>3. CASE p[1] # b
    <3>1. Behind(p[1])' = Behind(p[1])
      BY <1>1, <2>1, <2>3 DEF Behind
    <3> QED BY <2>1, <3>1 DEF EpisodesBehind
  <2> QED BY <2>2, <2>3
<1>6. Cardinality(EpisodesBehind) + 1 <= Cardinality(EpisodesBehind')
  <2> HIDE DEF last
  <2>1. IsFiniteSet(EpisodesBehind) /\ IsFiniteSet(EpisodesBehind')
    BY BehindIsFinite DEF EpisodesBehind
  <2> DEFINE grown == EpisodesBehind \cup {last}
  <2>2. grown \subseteq EpisodesBehind'
    BY <1>4, <1>5
  <2>3. Cardinality(grown) = Cardinality(EpisodesBehind) + 1
    BY <1>4, <2>1, FS_AddElement
  <2> HIDE DEF grown
  <2>4. Cardinality(grown) <= Cardinality(EpisodesBehind')
    BY <2>1, <2>2, FS_Subset
  <2> QED BY <2>3, <2>4
<1>7. Cardinality(EpisodesBehind) \in Nat /\ Cardinality(EpisodesBehind') \in Nat
  BY BehindIsFinite DEF EpisodesBehind
<1>8. batch_results' <= Cardinality(EpisodesBehind')
  BY <1>1, <1>6, <1>7, BatchTyped DEF BoundsInv
<1>9. Cardinality(EpisodesBehind)' = Cardinality(EpisodesBehind')
  OBVIOUS
<1>10. \A d \in BatchIds : batch_task'[d] = "episode" => batch_task[d] = "episode"
  BY <1>1
<1> QED BY <1>1, <1>2, <1>8, <1>9, <1>10 DEF BoundsInv

LEMMA BoundsStep == BatchInv /\ BoundsInv /\ [BatchNext]_batchVars => BoundsInv'
<1> SUFFICES ASSUME BatchInv, BoundsInv, [BatchNext]_batchVars PROVE BoundsInv'
  OBVIOUS
<1>1. BatchInv'
  BY NextBatch
<1>2. /\ batch_idx <= Episodes /\ \A c \in CancelRequests : awaited[c] # 0 <=> canceller[c] = "awaiting"
      /\ \A b \in BatchIds : Len(batch_queue[b]) <= BatchQueueSize
      /\ batch_results \in Nat /\ batch_results <= batch_results /\ 0 <= batch_results /\ 0 <= Episodes
  BY BatchTyped, BatchConstants DEF BoundsInv
<1>3. CASE StartBatch
  <2>1. \A b \in BatchIds : \/ batch_task'[b] = batch_task[b]
                            \/ batch_task'[b] = "new" /\ batch_task[b] = "none"
    <3>1. batches \in Nat
      BY BatchTyped
    <3>2. batch_task' = [batch_task EXCEPT ![batches + 1] = "new"]
      BY <1>3 DEF StartBatch
    <3>3. ASSUME NEW b \in BatchIds, b = batches + 1 PROVE batch_task[b] = "none"
      <4>1. b > batches
        BY <3>1, <3>3
      <4> QED BY <4>1 DEF BatchInv, BatchTypes
    <3> SUFFICES ASSUME NEW b \in BatchIds
                 PROVE  \/ batch_task'[b] = batch_task[b]
                        \/ batch_task'[b] = "new" /\ batch_task[b] = "none"
      OBVIOUS
    <3>4. b \in DOMAIN batch_task
      BY BatchTyped
    <3>5. batch_task'[b] = IF b = batches + 1 THEN "new" ELSE batch_task[b]
      BY <3>2, <3>4
    <3> QED BY <3>3, <3>5
  <2>2. \A b \in BatchIds : batch_task'[b] = "episode" <=> batch_task[b] = "episode"
    BY <2>1
  <2>3. /\ batch_idx' = 0 /\ batch_results' = 0 /\ episode' = episode /\ batch_queue' = batch_queue
        /\ awaited' = awaited /\ canceller' = canceller
    BY <1>3 DEF StartBatch, cancelVars
  <2> QED BY <1>1, <1>2, <2>2, <2>3, BoundsKeep
<1>4. ASSUME NEW b \in BatchIds, FirstStep(b) PROVE BoundsInv'
  <2>1. \A d \in BatchIds : batch_task'[d] = "episode" <=> batch_task[d] = "episode"
    BY <1>4, BatchTyped DEF FirstStep, Moves
  <2>2. /\ batch_idx' = batch_idx /\ batch_results' = batch_results /\ episode' = episode
        /\ batch_queue' = batch_queue /\ awaited' = awaited /\ canceller' = canceller
    BY <1>4 DEF FirstStep, WorkerOnly, cancelVars
  <2> QED BY <1>1, <1>2, <2>1, <2>2, BoundsKeep
<1>5. ASSUME NEW b \in BatchIds, NEW event, Finish(b, event), WorkerOnly, batch_task[b] # "episode"
      PROVE  BoundsInv'
  <2>1. \A d \in BatchIds : batch_task'[d] = "episode" <=> batch_task[d] = "episode"
    BY <1>5, BatchTyped DEF Finish, Moves
  <2>2. /\ batch_idx' = batch_idx /\ batch_results' = batch_results /\ episode' = episode
        /\ awaited' = awaited /\ canceller' = canceller
    BY <1>5 DEF Finish, WorkerOnly, cancelVars
  <2>3. \A d \in BatchIds : Len(batch_queue'[d]) <= BatchQueueSize
    BY <1>5, EmitFits DEF Finish
  <2> QED BY <1>1, <1>2, <2>1, <2>2, <2>3, BoundsKeep
<1>6. ASSUME NEW b \in BatchIds, FinishBatch(b) \/ RaiseAtStart(b) \/ Interrupt(b) PROVE BoundsInv'
  <2>1. batch_task[b] # "episode" /\ WorkerOnly /\ (Finish(b, "done") \/ Finish(b, "error"))
    BY <1>6 DEF FinishBatch, RaiseAtStart, Interrupt, AtHead
  <2> QED BY <1>5, <2>1
<1>7. ASSUME NEW b \in BatchIds, EmitLog(b) PROVE BoundsInv'
  <2>1. /\ batch_idx' = batch_idx /\ batch_results' = batch_results /\ episode' = episode
        /\ awaited' = awaited /\ canceller' = canceller /\ batch_task' = batch_task
    BY <1>7 DEF EmitLog, WorkerOnly, cancelVars, taskVars
  <2>2. \A d \in BatchIds : Len(batch_queue'[d]) <= BatchQueueSize
    BY <1>7, EmitFits DEF EmitLog
  <2> QED BY <1>1, <1>2, <2>1, <2>2, BoundsKeep
<1>8. ASSUME NEW b \in BatchIds, WorkerProceeds(b) \/ EmitLog(b) \/ EndEpisode(b) PROVE BoundsInv'
  BY <1>1, <1>4, <1>6, <1>7, <1>8, BeginEpisodeBounds, EndEpisodeBounds DEF WorkerProceeds
<1>9. ASSUME NEW c \in CancelRequests, CancelBatch(c) \/ ContainersDown(c) \/ EndCancel(c)
      PROVE  BoundsInv'
  <2>1. /\ batch_idx' = batch_idx /\ batch_results' = batch_results /\ episode' = episode
        /\ batch_task' = batch_task /\ batch_queue' = batch_queue
    BY <1>9 DEF CancelBatch, ContainersDown, DownAnd, EndCancel, statusVars, taskVars
  <2>2. \A d \in CancelRequests \ {c} : awaited'[d] = awaited[d] /\ canceller'[d] = canceller[d]
    BY <1>9, BatchTyped DEF CancelBatch, ContainersDown, DownAnd, EndCancel, CancelAnswered
  <2>3. awaited'[c] # 0 <=> canceller'[c] = "awaiting"
    <3>1. CASE CancelBatch(c)
      BY <1>2, <3>1, BatchTyped DEF CancelBatch
    <3>2. CASE CancelAnswered(c)
      BY <3>2, BatchTyped DEF CancelAnswered
    <3>3. CASE ContainersDown(c) /\ Live(batches)
      BY <3>3, BatchTyped DEF ContainersDown, DownAnd, Live
    <3> QED BY <1>9, <3>1, <3>2, <3>3 DEF ContainersDown, DownAnd, EndCancel
  <2> QED BY <1>1, <1>2, <2>1, <2>2, <2>3, BoundsKeep
<1>10. ASSUME NEW r \in BatchReaders, OpenBatchStream(r) \/ ReaderProceeds(r) PROVE BoundsInv'
  <2>1. /\ batch_idx' = batch_idx /\ batch_results' = batch_results /\ episode' = episode
        /\ awaited' = awaited /\ canceller' = canceller /\ batch_task' = batch_task
    BY <1>10 DEF OpenBatchStream, ReaderProceeds, TakeEvent, WaitTimesOut, ReaderOnly, statusVars,
                 taskVars, cancelVars
  <2>2. ASSUME NEW d \in BatchIds PROVE Len(batch_queue'[d]) <= BatchQueueSize
    <3>1. \/ batch_queue'[d] = batch_queue[d]
          \/ batch_queue[d] # <<>> /\ batch_queue'[d] = Tail(batch_queue[d])
      BY <1>10, BatchTyped DEF OpenBatchStream, ReaderProceeds, TakeEvent, WaitTimesOut
    <3>2. batch_queue[d] \in Seq(Events) /\ Len(batch_queue[d]) <= BatchQueueSize
          /\ BatchQueueSize \in Nat
      BY <1>2, BatchTyped, BatchConstants
    <3>3. batch_queue[d] # <<>> => Len(Tail(batch_queue[d])) = Len(batch_queue[d]) - 1
                                   /\ Len(batch_queue[d]) \in Nat
      BY <3>2
    <3>4. ASSUME batch_queue[d] # <<>> PROVE Len(Tail(batch_queue[d])) <= BatchQueueSize
      <4> DEFINE n == Len(batch_queue[d])
                 k == Len(Tail(batch_queue[d]))
      <4>1. n \in Nat /\ n <= BatchQueueSize /\ k = n - 1 /\ BatchQueueSize \in Nat
        BY <3>2, <3>3, <3>4
      <4> HIDE DEF n, k
      <4>2. k <= BatchQueueSize
        BY <4>1
      <4> QED BY <4>2 DEF k
    <3> QED BY <3>1, <3>2, <3>4
  <2> QED BY <1>1, <1>2, <2>1, <2>2, BoundsKeep
<1>11. CASE UNCHANGED batchVars
  <2>1. /\ batch_idx' = batch_idx /\ batch_results' = batch_results /\ episode' = episode
        /\ awaited' = awaited /\ canceller' = canceller /\ batch_task' = batch_task
        /\ batch_queue' = batch_queue
    BY <1>11 DEF batchVars, statusVars, taskVars, cancelVars
  <2> QED BY <1>1, <1>2, <2>1, BoundsKeep
<1> QED BY <1>3, <1>8, <1>9, <1>10, <1>11 DEF BatchNext

LEMMA BoundsStart == BatchInit => BoundsInv
<1> SUFFICES ASSUME BatchInit PROVE BoundsInv
  OBVIOUS
<1>1. Episodes \in Nat /\ BatchQueueSize \in Nat /\ Cardinality(EpisodesBehind) \in Nat
  BY BatchConstants, BehindIsFinite DEF EpisodesBehind
<1>2. /\ batch_idx = 0 /\ batch_results = 0 /\ \A c \in CancelRequests : awaited[c] = 0 /\ canceller[c] = "out"
      /\ \A b \in BatchIds : episode[b] = 0 /\ batch_task[b] = "none" /\ batch_queue[b] = <<>>
  BY DEF BatchInit
<1>3. Len(<<>>) = 0
  OBVIOUS
<1> QED BY <1>1, <1>2, <1>3 DEF BoundsInv

LEMMA BoundsShow == BatchInv /\ BoundsInv => BatchTypeOK
<1> SUFFICES ASSUME BatchInv, BoundsInv PROVE BatchTypeOK
  OBVIOUS
<1>1. Episodes \in Nat /\ MaxBatches * Episodes \in Nat
  BY BatchConstants
<1>2. batch_idx \in 0..Episodes
  BY <1>1, BatchTyped DEF BoundsInv
<1>3. batch_results \in 0..MaxBatches * Episodes
  <2> DEFINE most == MaxBatches * Episodes
             behind == Cardinality(EpisodesBehind)
  <2>1. behind \in Nat /\ behind <= most
    BY BehindIsFinite DEF EpisodesBehind
  <2>2. batch_results \in Nat /\ batch_results <= behind /\ most \in Nat
    BY <1>1, BatchTyped DEF BoundsInv
  <2> HIDE DEF most, behind
  <2>3. batch_results \in 0..most
    BY <2>1, <2>2
  <2> QED BY <2>3 DEF most
<1>4. episode \in [BatchIds -> 0..Episodes]
  <2>1. \A b \in BatchIds : episode[b] \in 0..Episodes
    BY <1>1, BatchTyped DEF BoundsInv
  <2> QED BY <2>1 DEF BatchInv, BatchTypes
<1>5. \A b \in BatchIds : interrupted[b] => Live(b)
  BY DEF BatchInv, CancelsAreCurrent
<1>6. batch_queue \in [BatchIds -> Seq({"news"} \cup Final)]
  BY DEF BatchInv, BatchTypes, Events
<1>7. {batch_running, batch_cancelled, batch_error, batch_cancel_event, mixed} \subseteq BOOLEAN
  BY DEF BatchInv, BatchTypes
<1> QED BY <1>2, <1>3, <1>4, <1>5, <1>6, <1>7 DEF BatchTypeOK, BatchInv, BatchTypes, BoundsInv

-----------------------------------------------------------------------------
(* The training pipeline.                                                  *)

Exact(s) == s \in Snapshots /\ IsExact(s) /\ s.version <= s.completed
Coming == sampler = "sampling" \/ next_batch # NoBatch
Done == time_up \/ trained = SamplingJobs
Known == \/ \E i \in 1..Len(evaluations) : evaluations[i] = Here
         \/ \E v \in validated : v.snapshot = Here

\* What is learned is what was trained on, once each.
LearnInv ==
  /\ policy_version \in Nat /\ completed_episodes \in Nat
  /\ trained \in SUBSET SamplingJobs /\ learned \in [SamplingJobs -> Nat]
  /\ completed_episodes = Cardinality(trained)
  /\ \A j \in SamplingJobs : learned[j] = IF j \in trained THEN 1 ELSE 0
  /\ policy_version <= completed_episodes
  /\ first_episode \in Nat /\ first_episode <= completed_episodes

\* A job is learned, in a batch or pending, and one of these.
JobsInv ==
  /\ pending_jobs \in SUBSET SamplingJobs
  /\ current # NoBatch => current \in Batch /\ current.jobs # {}
  /\ next_batch # NoBatch =>
       next_batch \in Batch /\ next_batch.jobs # {} /\ next_batch.version = sampler_version
  /\ trained \cup Jobs(current) \cup Jobs(next_batch) \cup pending_jobs = SamplingJobs
  /\ trained \cap Jobs(current) = {} /\ trained \cap Jobs(next_batch) = {}
  /\ trained \cap pending_jobs = {} /\ Jobs(current) \cap Jobs(next_batch) = {}
  /\ Jobs(current) \cap pending_jobs = {} /\ Jobs(next_batch) \cap pending_jobs = {}
  /\ sampler \in {"idle", "sampling"}
  /\ sampler = "sampling" => next_batch = NoBatch /\ pending_jobs # {}
  /\ sampler_version \in Nat /\ sampler_version <= policy_version

\* What each stage of fit relies on.
StageInv ==
  /\ stage \in Working \cup {"stopping", "finished", "failed", "dead"}
  /\ {time_up, trained_here} \subseteq BOOLEAN
  /\ stage = "warmup" => /\ current = NoBatch /\ sampler_version = policy_version
                         /\ Coming /\ ~trained_here
  /\ stage = "round" => /\ ~Coming
                        /\ current # NoBatch => LagIsAllowed
                        /\ current = NoBatch => Done /\ completed_episodes > 0
  /\ stage = "updating" => /\ current # NoBatch
                           /\ Coming => sampler_version = policy_version
                           /\ ~Coming => time_up \/ trained \cup Jobs(current) = SamplingJobs
  /\ stage = "awaiting" => /\ current = NoBatch /\ completed_episodes > 0
                           /\ Coming => policy_version - sampler_version \in {0, 1}
                           /\ ~Coming => Done
  /\ stage \in {"draining", "finished"} =>
       Done /\ completed_episodes > 0 /\ evaluated_until = completed_episodes
  /\ trained_here => completed_episodes > 0

\* The snapshots that wait, the results so far and the files are of what they name.
EvalInv ==
  /\ evaluations \in Seq(Snapshots) /\ \A i \in 1..Len(evaluations) : Exact(evaluations[i])
  /\ evaluated_until \in Nat /\ evaluated_until <= completed_episodes
  /\ evaluation_failed \in BOOLEAN
  /\ validated \in SUBSET Results
  /\ validated = {} => best = NoBatch
  /\ validated # {} => best \in validated /\ \A v \in validated : v.score <= best.score
  /\ \A s \in checkpoints : Exact(s)
  /\ stage \in Working \cup {"finished"} /\ evaluated_until = completed_episodes
       /\ completed_episodes > 0 /\ ~evaluation_failed => Known
  /\ stage = "finished" => evaluations = << >> /\ ~evaluation_failed

PipelineInv == LearnInv /\ JobsInv /\ StageInv /\ EvalInv

-----------------------------------------------------------------------------
LEMMA JobSets ==
  /\ TrainingEpisodes \in Nat /\ TrainingEpisodes > 0
  /\ IsFiniteSet(SamplingJobs) /\ Cardinality(SamplingJobs) = TrainingEpisodes
  /\ \A S \in SUBSET SamplingJobs :
       /\ IsFiniteSet(S) /\ Cardinality(S) \in Nat /\ Cardinality(S) <= TrainingEpisodes
       /\ Cardinality(S) = TrainingEpisodes => S = SamplingJobs
       /\ Cardinality(S) = 0 <=> S = {}
       /\ Cardinality(SamplingJobs \ S) = TrainingEpisodes - Cardinality(S)
<1>1. TrainingEpisodes \in Nat /\ TrainingEpisodes > 0
  BY PipelineConstants
<1>2. IsFiniteSet(SamplingJobs) /\ Cardinality(SamplingJobs) = TrainingEpisodes
  <2>1. 1 \in Int /\ TrainingEpisodes \in Int /\ TrainingEpisodes - 1 + 1 = TrainingEpisodes
        /\ 1 <= TrainingEpisodes
    BY <1>1
  <2>2. IsFiniteSet(1..TrainingEpisodes) /\ Cardinality(1..TrainingEpisodes) = IF 1 > TrainingEpisodes THEN 0 ELSE TrainingEpisodes - 1 + 1
    BY <2>1, FS_Interval
  <2>3. ~(1 > TrainingEpisodes)
    BY <1>1
  <2> QED BY <2>1, <2>2, <2>3 DEF SamplingJobs
<1>3. ASSUME NEW S \in SUBSET SamplingJobs
      PROVE  /\ IsFiniteSet(S) /\ Cardinality(S) \in Nat /\ Cardinality(S) <= TrainingEpisodes
             /\ Cardinality(S) = TrainingEpisodes => S = SamplingJobs
             /\ Cardinality(S) = 0 <=> S = {}
             /\ Cardinality(SamplingJobs \ S) = TrainingEpisodes - Cardinality(S)
  <2>1. /\ IsFiniteSet(S) /\ Cardinality(S) <= TrainingEpisodes
        /\ Cardinality(S) = TrainingEpisodes => S = SamplingJobs
    BY <1>2, FS_Subset
  <2>2. Cardinality(S) \in Nat
    BY <2>1, FS_CardinalityType
  <2>3. Cardinality(S) = 0 <=> S = {}
    BY <2>1, FS_EmptySet
  <2>4. Cardinality(SamplingJobs \ S) = Cardinality(SamplingJobs) - Cardinality(SamplingJobs \cap S)
    BY <1>2, FS_Difference
  <2>5. SamplingJobs \cap S = S
    OBVIOUS
  <2> QED BY <1>2, <2>1, <2>2, <2>3, <2>4, <2>5
<1> QED BY <1>1, <1>2, <1>3

\* What is added to a set counts once.
LEMMA JobsAdd ==
  ASSUME NEW A \in SUBSET SamplingJobs, NEW B \in SUBSET SamplingJobs, A \cap B = {}
  PROVE  Cardinality(A \cup B) = Cardinality(A) + Cardinality(B)
<1>1. IsFiniteSet(A) /\ IsFiniteSet(B) /\ Cardinality(A) \in Nat /\ Cardinality(B) \in Nat
  BY JobSets
<1>2. Cardinality(A \cup B) = Cardinality(A) + Cardinality(B) - Cardinality(A \cap B)
  BY <1>1, FS_Union
<1>3. Cardinality(A \cap B) = 0
  BY FS_EmptySet
<1> QED BY <1>1, <1>2, <1>3

\* A run that resumes from a snapshot has all the jobs before it that are not in it.
LEMMA JobsLeftIs ==
  ASSUME NEW s, Exact(s)
  PROVE  JobsLeft(s) = SamplingJobs \ s.jobs
<1> DEFINE T == SamplingJobs \ s.jobs
           up(j) == {k \in T : k <= j}
<1>1. s.jobs \in SUBSET SamplingJobs /\ s.completed = Cardinality(s.jobs)
  BY DEF Exact, Snapshots, IsExact
<1>2. T \in SUBSET SamplingJobs /\ IsFiniteSet(T)
      /\ Cardinality(T) = TrainingEpisodes - s.completed
  <2> DEFINE S == s.jobs
  <2>1. S \in SUBSET SamplingJobs /\ s.completed = Cardinality(S)
    BY <1>1
  <2> HIDE DEF S
  <2>2. Cardinality(SamplingJobs \ S) = TrainingEpisodes - Cardinality(S)
    BY <2>1, JobSets
  <2>3. SamplingJobs \ S \in SUBSET SamplingJobs
    OBVIOUS
  <2>4. IsFiniteSet(SamplingJobs \ S)
    BY <2>3, JobSets
  <2> QED BY <2>1, <2>2, <2>3, <2>4 DEF S
<1>3. \A j \in T : up(j) \in SUBSET T
  OBVIOUS
<1>4. \A j \in T : Cardinality(up(j)) <= TrainingEpisodes - s.completed
  BY <1>2, <1>3, FS_Subset
<1>5. JobsLeft(s) = {j \in T : Cardinality(up(j)) <= TrainingEpisodes - s.completed}
  BY DEF JobsLeft
<1> HIDE DEF T, up
<1> QED BY <1>4, <1>5 DEF T

LEMMA HereIs ==
  ASSUME LearnInv PROVE Exact(Here)
BY DEF LearnInv, Exact, Here, Snapshot, Snapshots, IsExact

LEMMA BatchIs ==
  ASSUME NEW b \in Batch
  PROVE  b # NoBatch /\ Jobs(b) = b.jobs /\ b.jobs \in SUBSET SamplingJobs /\ b.version \in Nat
<1>1. b # NoBatch
  BY PipelineNone
<1> QED BY <1>1 DEF Batch, Jobs

LEMMA NoJobs == Jobs(NoBatch) = {}
BY DEF Jobs

\* The jobs in hand, as sets.
LEMMA JobsInHand ==
  ASSUME JobsInv
  PROVE  /\ Jobs(current) \in SUBSET SamplingJobs /\ Jobs(next_batch) \in SUBSET SamplingJobs
         /\ current # NoBatch => Jobs(current) # {}
         /\ next_batch # NoBatch => Jobs(next_batch) # {}
<1>1. current # NoBatch => current \in Batch /\ current.jobs # {}
  BY DEF JobsInv
<1>2. next_batch # NoBatch => next_batch \in Batch /\ next_batch.jobs # {}
  BY DEF JobsInv
<1> QED BY <1>1, <1>2, BatchIs, NoJobs

-----------------------------------------------------------------------------
LEMMA PipelineShows == PipelineInv => PipelineTypeOK /\ TrainingIsExact
<1> SUFFICES ASSUME PipelineInv PROVE PipelineTypeOK /\ TrainingIsExact
  OBVIOUS
<1>1. LearnInv /\ JobsInv /\ StageInv /\ EvalInv
  BY DEF PipelineInv
<1>2. completed_episodes <= TrainingEpisodes /\ TrainingEpisodes \in Nat
  BY <1>1, JobSets DEF LearnInv
<1>3. PipelineTypeOK
  <2>1. {policy_version, sampler_version} \subseteq 0..TrainingEpisodes
    BY <1>1, <1>2 DEF LearnInv, JobsInv
  <2>2. completed_episodes \in 0..TrainingEpisodes /\ first_episode \in 0..completed_episodes
    BY <1>1, <1>2 DEF LearnInv
  <2>3. {time_up, trained_here, evaluation_failed} \subseteq BOOLEAN
    BY <1>1 DEF StageInv, EvalInv
  <2> QED BY <1>1, <2>1, <2>2, <2>3 DEF PipelineTypeOK, LearnInv, JobsInv, StageInv
<1>4. TrainedOnce
  BY <1>1, HereIs DEF TrainedOnce, EvalInv, Exact
<1>5. JobsAreKept
  <2> DEFINE a == trained
             b == Jobs(current)
             c == Jobs(next_batch)
             d == pending_jobs
  <2>1. /\ a \in SUBSET SamplingJobs /\ b \in SUBSET SamplingJobs
        /\ c \in SUBSET SamplingJobs /\ d \in SUBSET SamplingJobs
    BY <1>1, JobsInHand DEF LearnInv, JobsInv
  <2>2. /\ a \cap b = {} /\ (a \cup b) \cap c = {} /\ (a \cup b \cup c) \cap d = {}
        /\ a \cup b \cup c \cup d = SamplingJobs
    BY <1>1 DEF JobsInv
  <2> HIDE DEF a, b, c, d
  <2>3. Cardinality(a \cup b) = Cardinality(a) + Cardinality(b)
    BY <2>1, <2>2, JobsAdd
  <2>4. Cardinality((a \cup b) \cup c) = Cardinality(a \cup b) + Cardinality(c)
    <3>1. a \cup b \in SUBSET SamplingJobs
      BY <2>1
    <3> QED BY <2>1, <2>2, <3>1, JobsAdd
  <2>5. Cardinality((a \cup b \cup c) \cup d) = Cardinality(a \cup b \cup c) + Cardinality(d)
    <3>1. a \cup b \cup c \in SUBSET SamplingJobs
      BY <2>1
    <3> QED BY <2>1, <2>2, <3>1, JobsAdd
  <2>6. TrainingEpisodes = Cardinality(a) + Cardinality(b) + Cardinality(c) + Cardinality(d)
    BY <2>2, <2>3, <2>4, <2>5, JobSets
  <2> QED BY <2>2, <2>6 DEF JobsAreKept, a, b, c, d
<1>6. LagIsOne
  BY <1>1 DEF LagIsOne, StageInv
<1>7. PublishesBest
  <2> SUFFICES ASSUME stage = "finished"
               PROVE  /\ best \in validated /\ \A v \in validated : v.score <= best.score
                      /\ \E v \in validated : v.snapshot = Here
                      /\ time_up \/ trained = SamplingJobs
    BY DEF PublishesBest
  <2>1. Done /\ completed_episodes > 0 /\ evaluated_until = completed_episodes
    BY <1>1 DEF StageInv
  <2>2. Known /\ evaluations = << >>
    BY <1>1, <2>1 DEF EvalInv
  <2>3. \E v \in validated : v.snapshot = Here
    <3>1. 1..Len(<< >>) = {}
      OBVIOUS
    <3> QED BY <2>2, <3>1 DEF Known
  <2> QED BY <1>1, <2>1, <2>3 DEF Done, EvalInv
<1> QED BY <1>3, <1>4, <1>5, <1>6, <1>7 DEF TrainingIsExact

\* What does not change with the stage.
LEMMA LearnStays ==
  ASSUME LearnInv, UNCHANGED <<policy_version, trained, completed_episodes, first_episode, learned>>
  PROVE  LearnInv' /\ Here' = Here
BY DEF LearnInv, Here

LEMMA JobsStay ==
  ASSUME JobsInv, UNCHANGED <<policy_version, trained, current, samplerVars>>
  PROVE  JobsInv' /\ Coming' = Coming
BY DEF JobsInv, samplerVars, Coming, Jobs

LEMMA EvalStays ==
  ASSUME EvalInv, UNCHANGED evaluationVars, UNCHANGED <<checkpoints, completed_episodes>>,
         Here' = Here, stage' # "finished",
         stage' \in Working => stage \in Working
  PROVE  EvalInv'
<1>1. stage' \in Working \cup {"finished"} => stage \in Working \cup {"finished"}
  OBVIOUS
<1>2. Known' <=> Known
  BY DEF Known, evaluationVars
<1> QED BY <1>1, <1>2 DEF EvalInv, evaluationVars

LEMMA PipelineStart == PipelineInit => PipelineInv
<1> SUFFICES ASSUME PipelineInit PROVE PipelineInv
  OBVIOUS
<1>1. /\ stage = "warmup" /\ policy_version = 0 /\ trained = {} /\ completed_episodes = 0
      /\ learned = [j \in SamplingJobs |-> 0] /\ pending_jobs = SamplingJobs
      /\ current = NoBatch /\ next_batch = NoBatch /\ sampler = "sampling" /\ sampler_version = 0
      /\ time_up = FALSE /\ trained_here = FALSE /\ first_episode = 0
      /\ evaluations = << >> /\ evaluated_until = 0 /\ evaluation_failed = FALSE
      /\ validated = {} /\ best = NoBatch /\ checkpoints = {}
  BY DEF PipelineInit
<1>2. LearnInv
  <2>1. Cardinality({}) = 0
    BY FS_EmptySet
  <2> QED BY <1>1, <2>1 DEF LearnInv
<1>3. JobsInv
  <2>1. SamplingJobs # {}
    BY JobSets, FS_EmptySet
  <2> QED BY <1>1, <2>1, NoJobs DEF JobsInv
<1>4. StageInv
  BY <1>1 DEF StageInv, Coming, Working
<1>5. EvalInv
  <2>1. << >> \in Seq(Snapshots) /\ 1..Len(<< >>) = {}
    OBVIOUS
  <2>2. evaluations \in Seq(Snapshots) /\ \A i \in 1..Len(evaluations) : Exact(evaluations[i])
    BY <1>1, <2>1
  <2>3. ~(completed_episodes > 0) /\ stage # "finished" /\ evaluated_until \in Nat
        /\ evaluated_until <= completed_episodes
    BY <1>1
  <2>5. evaluation_failed \in BOOLEAN
    BY <1>1
  <2>4. validated = {} /\ best = NoBatch /\ checkpoints = {} /\ validated \in SUBSET Results
    BY <1>1
  <2> QED BY <2>2, <2>3, <2>4, <2>5 DEF EvalInv
<1> QED BY <1>2, <1>3, <1>4, <1>5 DEF PipelineInv

-----------------------------------------------------------------------------
LEMMA CollectKeeps == PipelineInv /\ CollectBatch => PipelineInv'
<1> SUFFICES ASSUME PipelineInv, CollectBatch PROVE PipelineInv'
  OBVIOUS
<1>1. LearnInv /\ JobsInv /\ StageInv /\ EvalInv
  BY DEF PipelineInv
<1>2. /\ sampler = "sampling" /\ sampler' = "idle"
      /\ UNCHANGED <<stage, learnerVars, sampler_version, evaluationVars, diskVars, time_up>>
  BY DEF CollectBatch
<1>3. PICK jobs \in SUBSET pending_jobs :
        /\ IF dynamic_sampling THEN Cardinality(jobs) >= Fewest(Envs, Cardinality(pending_jobs))
           ELSE Cardinality(jobs) = BatchSize(Sampled)
        /\ next_batch' = [jobs |-> jobs, version |-> sampler_version]
        /\ pending_jobs' = pending_jobs \ jobs
  BY DEF CollectBatch
<1>4. pending_jobs \in SUBSET SamplingJobs /\ pending_jobs # {} /\ next_batch = NoBatch
      /\ sampler_version \in Nat /\ jobs \in SUBSET SamplingJobs
  BY <1>1, <1>2 DEF JobsInv
<1>5. jobs # {}
  <2> DEFINE p == Cardinality(pending_jobs)
             v == ValidationInterval
             n == Sampled
  <2>1. p \in Nat /\ p > 0
    <3>1. p \in Nat /\ (p = 0 <=> pending_jobs = {})
      BY <1>4, JobSets
    <3> HIDE DEF p
    <3> QED BY <1>4, <3>1
  <2>2. v \in Nat /\ v > 0 /\ PipelineEnvs \in Nat /\ PipelineEnvs > 0
    BY PipelineConstants
  <2>3. n \in Nat
    <3>1. completed_episodes \in Nat
      BY <1>1 DEF LearnInv
    <3>2. Jobs(current) \in SUBSET SamplingJobs
      BY <1>1, JobsInHand
    <3>3. Cardinality(Jobs(current)) \in Nat
      BY <3>2, JobSets
    <3> QED BY <3>1, <3>3 DEF Sampled
  <2> HIDE DEF p, v, n
  <2>4. n % v \in 0..(v - 1)
    BY <2>2, <2>3
  <2>5. Envs > 0 /\ Envs \in Nat
    BY <2>2, JobSets DEF Envs, Fewest
  <2>6. v - (n % v) > 0 /\ v - (n % v) \in Nat
    BY <2>2, <2>4
  <2>7. Fewest(Envs, p) > 0 /\ Fewest(p, Fewest(Envs, v - (n % v))) > 0
    <3> DEFINE x == v - (n % v)
    <3>1. x \in Nat /\ x > 0
      BY <2>6
    <3> HIDE DEF x
    <3>2. Fewest(Envs, p) > 0 /\ Fewest(p, Fewest(Envs, x)) > 0
      BY <2>1, <2>5, <3>1 DEF Fewest
    <3> QED BY <3>2 DEF x
  <2>8. Fewest(Envs, Cardinality(pending_jobs)) > 0 /\ BatchSize(Sampled) > 0
    BY <2>7 DEF BatchSize, p, v, n
  <2>9. jobs = {} => Cardinality(jobs) = 0
    BY FS_EmptySet
  <2>10. Cardinality(jobs) \in Nat
    BY <1>4, JobSets
  <2>11. Fewest(Envs, Cardinality(pending_jobs)) \in Nat /\ BatchSize(Sampled) # 0
    BY <2>1, <2>5, <2>8 DEF Fewest, p
  <2> QED BY <1>3, <2>8, <2>9, <2>10, <2>11
<1>6. /\ next_batch' \in Batch /\ next_batch' # NoBatch /\ next_batch'.jobs = jobs
      /\ next_batch'.version = sampler_version /\ Jobs(next_batch') = jobs
  <2>1. /\ next_batch' \in Batch /\ next_batch'.jobs = jobs
        /\ next_batch'.version = sampler_version
    BY <1>3, <1>4 DEF Batch
  <2> QED BY <2>1, BatchIs
<1>7. LearnInv' /\ Here' = Here
  BY <1>1, <1>2, LearnStays DEF learnerVars
<1>8. JobsInv'
  <2>1. /\ current' = current /\ trained' = trained /\ policy_version' = policy_version
        /\ Jobs(next_batch) = {}
    BY <1>2, <1>4, NoJobs DEF learnerVars
  <2>2. /\ Jobs(current)' = Jobs(current) /\ Jobs(next_batch)' = jobs
    BY <1>6, <2>1 DEF Jobs
  <2>3. /\ trained \cup Jobs(current) \cup pending_jobs = SamplingJobs
        /\ trained \cap Jobs(current) = {} /\ trained \cap pending_jobs = {}
        /\ Jobs(current) \cap pending_jobs = {}
    BY <1>1, <2>1 DEF JobsInv
  <2>4. /\ trained \cup Jobs(current) \cup jobs \cup pending_jobs' = SamplingJobs
        /\ trained \cap jobs = {} /\ trained \cap pending_jobs' = {}
        /\ Jobs(current) \cap jobs = {} /\ Jobs(current) \cap pending_jobs' = {}
        /\ jobs \cap pending_jobs' = {} /\ pending_jobs' \in SUBSET SamplingJobs
    BY <1>3, <1>4, <2>3
  <2>5. sampler_version' = sampler_version /\ sampler_version <= policy_version
    BY <1>1, <1>2 DEF JobsInv
  <2>6. current' # NoBatch => current' \in Batch /\ current'.jobs # {}
    BY <1>1, <2>1 DEF JobsInv
  <2> QED BY <1>2, <1>4, <1>5, <1>6, <2>1, <2>2, <2>3, <2>4, <2>5, <2>6 DEF JobsInv
<1>9. StageInv'
  <2>1. Coming /\ Coming'
    BY <1>2, <1>6 DEF Coming
  <2>2. /\ stage' = stage /\ current' = current /\ policy_version' = policy_version
        /\ sampler_version' = sampler_version /\ time_up' = time_up /\ trained' = trained
        /\ completed_episodes' = completed_episodes /\ trained_here' = trained_here
        /\ evaluated_until' = evaluated_until
    BY <1>2 DEF learnerVars, evaluationVars
  <2> QED BY <1>1, <2>1, <2>2 DEF StageInv, Done, Jobs, LagIsAllowed
<1>10. EvalInv'
  <2>1. Known' <=> Known
    BY <1>2, <1>7 DEF Known, evaluationVars
  <2> QED BY <1>1, <1>2, <2>1 DEF EvalInv, evaluationVars, learnerVars, diskVars
<1> QED BY <1>7, <1>8, <1>9, <1>10 DEF PipelineInv

LEMMA WarmupKeeps == PipelineInv /\ EndWarmup => PipelineInv'
<1> SUFFICES ASSUME PipelineInv, EndWarmup PROVE PipelineInv'
  OBVIOUS
<1>1. LearnInv /\ JobsInv /\ StageInv /\ EvalInv
  BY DEF PipelineInv
<1>2. /\ stage = "warmup" /\ sampler = "idle"
      /\ current' = next_batch /\ next_batch' = NoBatch /\ stage' = "round"
      /\ UNCHANGED <<policy_version, trained, completed_episodes, first_episode, trained_here,
                     learned, dynamic_sampling, sampler, sampler_version, pending_jobs,
                     evaluationVars, diskVars, time_up>>
  BY DEF EndWarmup
<1>3. current = NoBatch /\ sampler_version = policy_version /\ next_batch # NoBatch /\ ~trained_here
  BY <1>1, <1>2 DEF StageInv, Coming
<1>4. LearnInv' /\ Here' = Here
  BY <1>1, <1>2, LearnStays
<1>5. JobsInv'
  <2>1. Jobs(current)' = Jobs(next_batch) /\ Jobs(next_batch)' = {} /\ Jobs(current) = {}
    BY <1>2, <1>3 DEF Jobs
  <2> QED BY <1>1, <1>2, <1>3, <2>1 DEF JobsInv
<1>6. StageInv'
  <2>1. ~Coming'
    BY <1>2 DEF Coming
  <2>2. LagIsAllowed'
    <3>1. next_batch.version = sampler_version /\ policy_version \in Nat
      BY <1>1, <1>3 DEF JobsInv, LearnInv
    <3>2. policy_version' - current'.version = 0
      BY <1>2, <1>3, <3>1
    <3> QED BY <3>2 DEF LagIsAllowed
  <2>3. current' # NoBatch
    BY <1>2, <1>3
  <2> QED BY <1>1, <1>2, <2>1, <2>2, <2>3 DEF StageInv, Working
<1>7. EvalInv'
  BY <1>1, <1>2, <1>4, EvalStays DEF Working, diskVars
<1> QED BY <1>4, <1>5, <1>6, <1>7 DEF PipelineInv

LEMMA BeginKeeps == PipelineInv /\ BeginRound => PipelineInv'
<1> SUFFICES ASSUME PipelineInv, BeginRound PROVE PipelineInv'
  OBVIOUS
<1>1. LearnInv /\ JobsInv /\ StageInv /\ EvalInv
  BY DEF PipelineInv
<1>2. /\ stage = "round" /\ current # NoBatch /\ first_episode' = completed_episodes
      /\ stage' = "updating"
      /\ UNCHANGED <<policy_version, trained, completed_episodes, current, trained_here, learned,
                     dynamic_sampling, next_batch, pending_jobs, evaluationVars, diskVars, time_up>>
  BY DEF BeginRound
<1>3. IF Sampled < TrainingEpisodes /\ ~time_up
      THEN sampler' = "sampling" /\ sampler_version' = policy_version
      ELSE UNCHANGED <<sampler, sampler_version>>
  BY DEF BeginRound
<1>4. sampler = "idle" /\ next_batch = NoBatch
  BY <1>1, <1>2 DEF StageInv, Coming, JobsInv
<1>5. LearnInv' /\ Here' = Here
  <2>1. Here' = Here
    BY <1>2 DEF Here
  <2> QED BY <1>1, <1>2, <2>1 DEF LearnInv
<1>6. /\ Jobs(current)' = Jobs(current) /\ Jobs(next_batch)' = {} /\ Jobs(next_batch) = {}
  BY <1>2, <1>4, NoJobs DEF Jobs
<1>7. /\ trained \in SUBSET SamplingJobs /\ Jobs(current) \in SUBSET SamplingJobs
      /\ trained \cap Jobs(current) = {}
      /\ trained \cup Jobs(current) \cup pending_jobs = SamplingJobs
  BY <1>1, <1>6, JobsInHand DEF LearnInv, JobsInv
<1>8. Sampled = Cardinality(trained \cup Jobs(current))
  BY <1>1, <1>7, JobsAdd DEF Sampled, LearnInv
<1>9. IF Sampled < TrainingEpisodes THEN pending_jobs # {}
      ELSE trained \cup Jobs(current) = SamplingJobs
  <2> DEFINE S == trained \cup Jobs(current)
  <2>1. S \in SUBSET SamplingJobs
    BY <1>7
  <2>2. /\ Cardinality(S) \in Nat /\ Cardinality(S) <= TrainingEpisodes
        /\ (Cardinality(S) = TrainingEpisodes => S = SamplingJobs) /\ TrainingEpisodes \in Nat
        /\ Cardinality(SamplingJobs) = TrainingEpisodes
    BY <2>1, JobSets
  <2>3. CASE Sampled < TrainingEpisodes
    <3>1. S # SamplingJobs
      BY <1>8, <2>2, <2>3
    <3> QED BY <1>7, <2>3, <3>1
  <2>4. CASE ~(Sampled < TrainingEpisodes)
    <3>1. Cardinality(S) = TrainingEpisodes
      BY <1>8, <2>2, <2>4
    <3> QED BY <2>2, <2>4, <3>1
  <2> QED BY <2>3, <2>4
<1>10. JobsInv'
  <2>1. policy_version \in Nat /\ sampler_version \in Nat /\ sampler_version <= policy_version
    BY <1>1 DEF LearnInv, JobsInv
  <2>2. /\ sampler' \in {"idle", "sampling"} /\ sampler_version' \in Nat
        /\ sampler_version' <= policy_version' /\ (sampler' = "sampling" => pending_jobs' # {})
    BY <1>2, <1>3, <1>4, <1>9, <2>1
  <2>3. next_batch' = NoBatch
    BY <1>2, <1>4
  <2> QED BY <1>1, <1>2, <1>6, <2>2, <2>3 DEF JobsInv
<1>11. StageInv'
  <2>1. Coming' <=> sampler' = "sampling"
    BY <1>2, <1>4 DEF Coming
  <2>2. Coming' => sampler_version' = policy_version'
    BY <1>2, <1>3, <1>4, <2>1
  <2>3. ~Coming' => time_up' \/ trained' \cup Jobs(current)' = SamplingJobs
    BY <1>2, <1>3, <1>6, <1>9, <2>1
  <2> QED BY <1>1, <1>2, <2>2, <2>3 DEF StageInv, Working
<1>12. EvalInv'
  BY <1>1, <1>2, <1>5, EvalStays DEF Working, diskVars
<1> QED BY <1>5, <1>10, <1>11, <1>12 DEF PipelineInv

LEMMA TrainKeeps == PipelineInv /\ TrainOnBatch => PipelineInv'
<1> SUFFICES ASSUME PipelineInv, TrainOnBatch PROVE PipelineInv'
  OBVIOUS
<1>1. LearnInv /\ JobsInv /\ StageInv /\ EvalInv
  BY DEF PipelineInv
<1>2. /\ stage = "updating" /\ policy_version' \in {policy_version, policy_version + 1}
      /\ learned' = [j \in SamplingJobs |-> learned[j] + IF j \in Jobs(current) THEN 1 ELSE 0]
      /\ trained' = trained \cup Jobs(current)
      /\ completed_episodes' = completed_episodes + Cardinality(Jobs(current))
      /\ trained_here' = TRUE /\ current' = NoBatch /\ stage' = "awaiting"
      /\ UNCHANGED <<first_episode, dynamic_sampling, samplerVars, evaluationVars, diskVars, time_up>>
  BY DEF TrainOnBatch
<1> DEFINE b == Jobs(current)
           n == Cardinality(b)
<1>3. b \in SUBSET SamplingJobs /\ b # {} /\ trained \cap b = {} /\ trained \in SUBSET SamplingJobs
  <2>1. current # NoBatch
    BY <1>1, <1>2 DEF StageInv
  <2> QED BY <1>1, <2>1, JobsInHand DEF JobsInv, LearnInv
<1>4. n \in Nat /\ n > 0
  <2> HIDE DEF b
  <2>1. n \in Nat /\ (n = 0 <=> b = {})
    BY <1>3, JobSets
  <2> HIDE DEF n
  <2> QED BY <1>3, <2>1
<1>5. Cardinality(trained \cup b) = Cardinality(trained) + n
  BY <1>3, JobsAdd
<1>6. /\ completed_episodes \in Nat /\ policy_version \in Nat /\ first_episode \in Nat
      /\ completed_episodes = Cardinality(trained) /\ policy_version <= completed_episodes
      /\ first_episode <= completed_episodes
  BY <1>1 DEF LearnInv
<1>7. /\ Jobs(current)' = {} /\ Jobs(next_batch)' = Jobs(next_batch) /\ next_batch' = next_batch
      /\ Coming' = Coming
  BY <1>2, NoJobs DEF samplerVars, Coming, Jobs
<1>8. JobsInv'
  <2>1. /\ policy_version' \in Nat /\ policy_version <= policy_version'
    BY <1>2, <1>6
  <2>2. sampler_version' = sampler_version /\ sampler_version <= policy_version
        /\ sampler_version \in Nat
    BY <1>1, <1>2 DEF JobsInv, samplerVars
  <2>3. sampler_version' \in Nat /\ sampler_version' <= policy_version'
    BY <1>6, <2>1, <2>2
  <2>4. sampler' = sampler /\ pending_jobs' = pending_jobs
    BY <1>2 DEF samplerVars
  <2>5. /\ trained' \cup {} \cup Jobs(next_batch)' \cup pending_jobs' = SamplingJobs
        /\ trained' \cap Jobs(next_batch)' = {} /\ trained' \cap pending_jobs' = {}
        /\ Jobs(next_batch)' \cap pending_jobs' = {}
    <3>1. /\ trained \cup b \cup Jobs(next_batch) \cup pending_jobs = SamplingJobs
          /\ trained \cap Jobs(next_batch) = {} /\ trained \cap pending_jobs = {}
          /\ b \cap Jobs(next_batch) = {} /\ b \cap pending_jobs = {}
          /\ Jobs(next_batch) \cap pending_jobs = {}
      BY <1>1 DEF JobsInv
    <3>2. trained' = trained \cup b
      BY <1>2
    <3> HIDE DEF b
    <3> QED BY <1>7, <2>4, <3>1, <3>2
  <2> QED BY <1>1, <1>2, <1>7, <2>2, <2>3, <2>4, <2>5 DEF JobsInv
<1>9. LearnInv'
  <2>1. /\ policy_version' \in Nat /\ completed_episodes' \in Nat
        /\ policy_version' <= completed_episodes' /\ first_episode' = first_episode
        /\ first_episode' <= completed_episodes'
    <3>1. completed_episodes' = completed_episodes + n
      BY <1>2
    <3> HIDE DEF n
    <3> QED BY <1>2, <1>4, <1>6, <3>1
  <2>2. completed_episodes' = Cardinality(trained') /\ trained' \in SUBSET SamplingJobs
    <3>1. completed_episodes' = completed_episodes + n /\ trained' = trained \cup b
      BY <1>2
    <3> HIDE DEF n, b
    <3> QED BY <1>3, <1>5, <1>6, <3>1
  <2>3. /\ learned' \in [SamplingJobs -> Nat]
        /\ \A j \in SamplingJobs : learned'[j] = IF j \in trained' THEN 1 ELSE 0
    <3>1. learned \in [SamplingJobs -> Nat]
          /\ \A j \in SamplingJobs : learned[j] = IF j \in trained THEN 1 ELSE 0
      BY <1>1 DEF LearnInv
    <3>2. learned' = [j \in SamplingJobs |-> learned[j] + IF j \in b THEN 1 ELSE 0]
          /\ trained' = trained \cup b
      BY <1>2
    <3> HIDE DEF b
    <3>3. ASSUME NEW j \in SamplingJobs
          PROVE  learned'[j] = (IF j \in trained' THEN 1 ELSE 0) /\ learned'[j] \in Nat
      <4>1. learned'[j] = learned[j] + IF j \in b THEN 1 ELSE 0
        BY <3>2
      <4>2. ~(j \in trained /\ j \in b)
        BY <1>3
      <4>3. learned[j] = IF j \in trained THEN 1 ELSE 0
        BY <3>1
      <4>4. CASE j \in trained
        BY <3>2, <4>1, <4>2, <4>3, <4>4
      <4>5. CASE j \in b
        BY <3>2, <4>1, <4>2, <4>3, <4>5
      <4>6. CASE j \notin trained /\ j \notin b
        BY <3>2, <4>1, <4>3, <4>6
      <4> QED BY <4>4, <4>5, <4>6
    <3>4. DOMAIN learned' = SamplingJobs
      BY <3>2
    <3> QED BY <3>2, <3>3
  <2> QED BY <1>6, <2>1, <2>2, <2>3 DEF LearnInv
<1>10. completed_episodes' > completed_episodes /\ completed_episodes' > 0
       /\ completed_episodes' \in Nat
  <2>1. completed_episodes' = completed_episodes + n
    BY <1>2
  <2> HIDE DEF n
  <2> QED BY <1>4, <1>6, <2>1
<1>11. StageInv'
  <2>1. Coming' => policy_version' - sampler_version' \in {0, 1}
    <3>1. Coming => sampler_version = policy_version
      BY <1>1, <1>2 DEF StageInv
    <3>2. sampler_version' = sampler_version
      BY <1>2 DEF samplerVars
    <3>3. ASSUME NEW p \in Nat, NEW q \in {p, p + 1} PROVE q - p \in {0, 1}
      OBVIOUS
    <3>4. policy_version' - policy_version \in {0, 1}
      BY <1>2, <1>6, <3>3
    <3> QED BY <1>7, <3>1, <3>2, <3>4
  <2>2. ~Coming' => Done'
    <3>1. ~Coming => time_up \/ trained \cup b = SamplingJobs
      BY <1>1, <1>2 DEF StageInv
    <3>2. trained' = trained \cup b /\ time_up' = time_up
      BY <1>2
    <3> QED BY <1>7, <3>1, <3>2 DEF Done
  <2> QED BY <1>1, <1>2, <1>10, <2>1, <2>2 DEF StageInv, Working
<1>12. EvalInv'
  <2>1. evaluated_until \in Nat /\ evaluated_until <= completed_episodes /\ evaluated_until' = evaluated_until
    BY <1>1, <1>2 DEF EvalInv, evaluationVars
  <2>2. evaluated_until' # completed_episodes' /\ evaluated_until' <= completed_episodes'
    BY <1>6, <1>10, <2>1
  <2> QED BY <1>1, <1>2, <2>1, <2>2 DEF EvalInv, evaluationVars, diskVars
<1> QED BY <1>8, <1>9, <1>11, <1>12 DEF PipelineInv

-----------------------------------------------------------------------------
(* The evaluations.                                                        *)

\* The policy as it is joins those to be evaluated.
LEMMA Scheduled ==
  ASSUME LearnInv, EvalInv, ScheduleEvaluation, Here' = Here,
         UNCHANGED <<completed_episodes, evaluation_failed, validated, best>>,
         \A s \in checkpoints' : Exact(s), stage' # "finished"
  PROVE  EvalInv'
<1>1. evaluations' = Append(evaluations, Here) /\ evaluated_until' = completed_episodes
  BY DEF ScheduleEvaluation
<1>2. evaluations \in Seq(Snapshots) /\ \A i \in 1..Len(evaluations) : Exact(evaluations[i])
  BY DEF EvalInv
<1>3. Exact(Here) /\ Here \in Snapshots
  BY HereIs DEF Exact
<1> DEFINE h == Here
           e == evaluations
           f == evaluations'
<1>4. e \in Seq(Snapshots) /\ f = Append(e, h) /\ h \in Snapshots
  BY <1>1, <1>2, <1>3
<1> HIDE DEF h, e, f
<1>5. /\ f \in Seq(Snapshots) /\ Len(f) = Len(e) + 1 /\ Len(e) \in Nat /\ f[Len(e) + 1] = h
      /\ \A i \in 1..Len(e) : f[i] = e[i]
  BY <1>4
<1>6. ASSUME NEW i \in 1..Len(f) PROVE Exact(f[i])
  <2>1. CASE i = Len(e) + 1
    BY <1>3, <1>5, <2>1 DEF h
  <2>2. CASE i # Len(e) + 1
    <3>1. i \in 1..Len(e)
      BY <1>5, <2>2
    <3> QED BY <1>2, <1>5, <3>1 DEF e
  <2> QED BY <2>1, <2>2
<1>7. Known'
  <2>1. Len(e) + 1 \in 1..Len(f)
    BY <1>5
  <2>2. \E i \in 1..Len(f) : f[i] = h
    BY <1>5, <2>1
  <2>3. \E i \in 1..Len(evaluations') : evaluations'[i] = Here'
    BY <2>2 DEF f, h
  <2> QED BY <2>3 DEF Known
<1>8. completed_episodes \in Nat
  BY DEF LearnInv
<1>9. evaluations' \in Seq(Snapshots) /\ \A i \in 1..Len(evaluations') : Exact(evaluations'[i])
  BY <1>5, <1>6 DEF f
<1>10. evaluated_until' \in Nat /\ evaluated_until' <= completed_episodes'
  BY <1>1, <1>8
<1> QED BY <1>7, <1>9, <1>10 DEF EvalInv

LEMMA EndRoundKeeps == PipelineInv /\ EndRound => PipelineInv'
<1> SUFFICES ASSUME PipelineInv, EndRound PROVE PipelineInv'
  OBVIOUS
<1>1. LearnInv /\ JobsInv /\ StageInv /\ EvalInv
  BY DEF PipelineInv
<1>2. /\ stage = "awaiting" /\ sampler = "idle" /\ stage' = "round"
      /\ current' = next_batch /\ next_batch' = NoBatch
      /\ checkpoints' \in {checkpoints, checkpoints \cup {Here}}
      /\ UNCHANGED <<policy_version, trained, completed_episodes, first_episode, trained_here,
                     learned, dynamic_sampling, sampler, sampler_version, pending_jobs,
                     evaluation_failed, validated, best, runs, time_up>>
  BY DEF EndRound
<1>3. current = NoBatch /\ completed_episodes > 0
  BY <1>1, <1>2 DEF StageInv
<1>4. LearnInv' /\ Here' = Here
  BY <1>1, <1>2, LearnStays
<1>5. JobsInv'
  <2>1. Jobs(current)' = Jobs(next_batch) /\ Jobs(next_batch)' = {} /\ Jobs(current) = {}
    BY <1>2, <1>3 DEF Jobs
  <2> QED BY <1>1, <1>2, <1>3, <2>1 DEF JobsInv
<1>6. StageInv'
  <2>1. ~Coming'
    BY <1>2 DEF Coming
  <2>2. ASSUME current' # NoBatch PROVE LagIsAllowed'
    <3>1. next_batch # NoBatch /\ next_batch.version = sampler_version
      BY <1>1, <1>2, <2>2 DEF JobsInv
    <3>2. policy_version - sampler_version \in {0, 1}
      BY <1>1, <1>2, <3>1 DEF StageInv, Coming
    <3>3. current'.version = sampler_version
      BY <1>2, <3>1
    <3> QED BY <1>2, <3>2, <3>3 DEF LagIsAllowed
  <2>3. ASSUME current' = NoBatch PROVE Done'
    <3>1. ~Coming
      BY <1>2, <2>3 DEF Coming
    <3>2. Done
      BY <1>1, <1>2, <3>1 DEF StageInv
    <3> QED BY <1>2, <3>2 DEF Done
  <2> QED BY <1>1, <1>2, <1>3, <2>1, <2>2, <2>3 DEF StageInv, Working
<1>7. \A s \in checkpoints' : Exact(s)
  BY <1>1, <1>2, HereIs DEF EvalInv
<1>8. EvalInv'
  <2>1. CASE ScheduleEvaluation
    BY <1>1, <1>2, <1>4, <1>7, <2>1, Scheduled
  <2>2. CASE UNCHANGED <<evaluations, evaluated_until>>
    <3>1. Known' <=> Known
      BY <1>2, <1>4, <2>2 DEF Known
    <3>2. stage \in Working
      BY <1>2 DEF Working
    <3> QED BY <1>1, <1>2, <1>7, <2>2, <3>1, <3>2 DEF EvalInv
  <2> QED BY <2>1, <2>2 DEF EndRound
<1> QED BY <1>4, <1>5, <1>6, <1>8 DEF PipelineInv

LEMMA LeaveKeeps == PipelineInv /\ LeaveLoop => PipelineInv'
<1> SUFFICES ASSUME PipelineInv, LeaveLoop PROVE PipelineInv'
  OBVIOUS
<1>1. LearnInv /\ JobsInv /\ StageInv /\ EvalInv
  BY DEF PipelineInv
<1>2. /\ stage = "round" /\ stage' = "draining" /\ (current = NoBatch \/ (trained_here /\ time_up))
      /\ IF completed_episodes # evaluated_until
         THEN ScheduleEvaluation ELSE UNCHANGED <<evaluations, evaluated_until>>
      /\ UNCHANGED <<learnerVars, samplerVars, evaluation_failed, validated, best, diskVars, time_up>>
  BY DEF LeaveLoop
<1>3. LearnInv' /\ Here' = Here
  BY <1>1, <1>2, LearnStays DEF learnerVars
<1>4. JobsInv'
  BY <1>1, <1>2, JobsStay DEF learnerVars
<1>5. Done /\ completed_episodes > 0
  BY <1>1, <1>2 DEF StageInv, Done
<1>6. Done' /\ completed_episodes' > 0 /\ evaluated_until' = completed_episodes'
  BY <1>2, <1>5 DEF Done, learnerVars, ScheduleEvaluation
<1>7. StageInv'
  BY <1>1, <1>2, <1>6 DEF StageInv, Working, learnerVars
<1>8. EvalInv'
  <2>0. UNCHANGED <<completed_episodes, evaluation_failed, validated, best>> /\ checkpoints' = checkpoints
        /\ \A s \in checkpoints' : Exact(s)
    BY <1>1, <1>2 DEF learnerVars, diskVars, EvalInv
  <2>1. CASE ScheduleEvaluation
    BY <1>1, <1>2, <1>3, <2>0, <2>1, Scheduled
  <2>2. CASE UNCHANGED <<evaluations, evaluated_until>>
    BY <1>1, <1>2, <1>3, <2>0, <2>2, EvalStays DEF evaluationVars, Working
  <2> QED BY <1>2, <2>1, <2>2
<1> QED BY <1>3, <1>4, <1>7, <1>8 DEF PipelineInv

LEMMA EvaluateKeeps == PipelineInv /\ EvaluateSnapshot => PipelineInv'
<1> SUFFICES ASSUME PipelineInv, EvaluateSnapshot PROVE PipelineInv'
  OBVIOUS
<1>1. LearnInv /\ JobsInv /\ StageInv /\ EvalInv
  BY DEF PipelineInv
<1>2. /\ evaluations # << >> /\ evaluations' = Tail(evaluations)
      /\ UNCHANGED <<stage, learnerVars, samplerVars, evaluated_until, evaluation_failed, runs,
                     time_up>>
  BY DEF EvaluateSnapshot
<1>3. LearnInv' /\ Here' = Here
  BY <1>1, <1>2, LearnStays DEF learnerVars
<1>4. JobsInv' /\ Coming' = Coming
  BY <1>1, <1>2, JobsStay DEF learnerVars
<1>5. StageInv'
  BY <1>1, <1>2, <1>4 DEF StageInv, learnerVars, samplerVars, Done, Jobs, LagIsAllowed
<1>6. evaluations \in Seq(Snapshots) /\ \A i \in 1..Len(evaluations) : Exact(evaluations[i])
  BY <1>1 DEF EvalInv
<1> DEFINE e == evaluations
           f == evaluations'
           h == Head(evaluations)
<1>7. e \in Seq(Snapshots) /\ e # << >> /\ f = Tail(e) /\ h = Head(e)
  BY <1>2, <1>6
<1> HIDE DEF e, f, h
<1>8. /\ f \in Seq(Snapshots) /\ Len(f) = Len(e) - 1 /\ Len(e) \in Nat /\ Len(e) > 0 /\ h = e[1]
      /\ \A i \in 1..Len(f) : f[i] = e[i + 1]
  BY <1>7
<1>9. Exact(h) /\ h \in Snapshots
  <2>1. 1 \in 1..Len(e)
    BY <1>8
  <2> QED BY <1>6, <1>8, <2>1 DEF e, Exact
<1>10. ASSUME NEW i \in 1..Len(f) PROVE Exact(f[i])
  <2>1. i + 1 \in 1..Len(e)
    BY <1>8
  <2> QED BY <1>6, <1>8, <2>1 DEF e
<1>11. PICK score \in Scores :
         LET result == [snapshot |-> h, score |-> score] IN
           /\ validated' = validated \cup {result}
           /\ IF Improves(score)
              THEN best' = result /\ checkpoints' = checkpoints \cup {h}
              ELSE UNCHANGED <<best, checkpoints>>
  BY DEF EvaluateSnapshot, h
<1> DEFINE result == [snapshot |-> h, score |-> score]
<1>12. score \in Nat /\ result \in Results /\ result.score = score /\ result.snapshot = h
       /\ result # NoBatch
  BY <1>9, PipelineConstants, PipelineNone DEF Results
<1>13. /\ validated' = validated \cup {result}
       /\ IF Improves(score)
          THEN best' = result /\ checkpoints' = checkpoints \cup {h}
          ELSE UNCHANGED <<best, checkpoints>>
  BY <1>11
<1> HIDE DEF result
<1>14. /\ validated \in SUBSET Results /\ (validated = {} => best = NoBatch)
       /\ (validated # {} => best \in validated /\ \A v \in validated : v.score <= best.score)
       /\ \A s \in checkpoints : Exact(s)
  BY <1>1 DEF EvalInv
<1>15. \A v \in validated : v.score \in Nat
  BY <1>14 DEF Results
<1>16. validated' # {} /\ validated' \in SUBSET Results
  BY <1>12, <1>13, <1>14
<1>17. best' \in validated' /\ \A v \in validated' : v.score <= best'.score
  <2>1. CASE Improves(score)
    <3>1. best' = result
      BY <1>13, <2>1
    <3>2. ASSUME NEW v \in validated PROVE v.score <= score
      <4>1. best # NoBatch
        BY <1>14, PipelineNone
      <4>2. score > best.score /\ v.score <= best.score /\ v.score \in Nat /\ best.score \in Nat
        BY <1>14, <1>15, <2>1, <4>1 DEF Improves
      <4> QED BY <1>12, <4>2
    <3> QED BY <1>12, <1>13, <3>1, <3>2
  <2>2. CASE ~Improves(score)
    <3>1. best # NoBatch /\ ~(score > best.score) /\ best' = best
      BY <1>13, <2>2 DEF Improves
    <3>2. validated # {} /\ best \in validated /\ best.score \in Nat
      BY <1>14, <1>15, <3>1
    <3>3. score <= best.score
      BY <1>12, <3>1, <3>2
    <3> QED BY <1>12, <1>13, <1>14, <3>1, <3>2, <3>3
  <2> QED BY <2>1, <2>2
<1>18. \A s \in checkpoints' : Exact(s)
  BY <1>9, <1>13, <1>14
<1>19. Known => Known'
  <2>1. ASSUME NEW i \in 1..Len(e), e[i] = Here PROVE Known'
    <3>1. CASE i = 1
      <4>1. result \in validated' /\ result.snapshot = Here'
        BY <1>3, <1>8, <1>12, <1>13, <2>1, <3>1
      <4> QED BY <4>1 DEF Known
    <3>2. CASE i # 1
      <4>1. i - 1 \in 1..Len(f) /\ i - 1 + 1 = i
        BY <1>8, <3>2
      <4>2. f[i - 1] = Here'
        BY <1>3, <1>8, <2>1, <4>1
      <4> QED BY <4>1, <4>2 DEF Known, f
    <3> QED BY <3>1, <3>2
  <2>2. ASSUME NEW v \in validated, v.snapshot = Here PROVE Known'
    <3>1. v \in validated' /\ v.snapshot = Here'
      BY <1>3, <1>13, <2>2
    <3> QED BY <3>1 DEF Known
  <2> QED BY <2>1, <2>2 DEF Known, e
<1>20. evaluations' \in Seq(Snapshots) /\ \A i \in 1..Len(evaluations') : Exact(evaluations'[i])
  BY <1>8, <1>10 DEF f
<1>21. stage # "finished"
  BY <1>1, <1>2 DEF EvalInv
<1>22. /\ stage' = stage /\ evaluated_until' = evaluated_until
       /\ completed_episodes' = completed_episodes /\ evaluation_failed' = evaluation_failed
  BY <1>2 DEF learnerVars
<1>23. EvalInv'
  BY <1>1, <1>16, <1>17, <1>18, <1>19, <1>20, <1>21, <1>22 DEF EvalInv
<1> QED BY <1>3, <1>4, <1>5, <1>23 DEF PipelineInv

\* A failed evaluation is over as well: the run cannot finish any more.
LEMMA FailKeeps == PipelineInv /\ EvaluationFails => PipelineInv'
<1> SUFFICES ASSUME PipelineInv, EvaluationFails PROVE PipelineInv'
  OBVIOUS
<1>1. LearnInv /\ JobsInv /\ StageInv /\ EvalInv
  BY DEF PipelineInv
<1>2. /\ evaluations # << >> /\ evaluations' = Tail(evaluations) /\ evaluation_failed' = TRUE
      /\ UNCHANGED <<stage, learnerVars, samplerVars, evaluated_until, validated, best, diskVars,
                     time_up>>
  BY DEF EvaluationFails
<1>3. LearnInv' /\ Here' = Here
  BY <1>1, <1>2, LearnStays DEF learnerVars
<1>4. JobsInv' /\ Coming' = Coming
  BY <1>1, <1>2, JobsStay DEF learnerVars
<1>5. StageInv'
  BY <1>1, <1>2, <1>4 DEF StageInv, learnerVars, samplerVars, Done, Jobs, LagIsAllowed
<1>6. evaluations \in Seq(Snapshots) /\ \A i \in 1..Len(evaluations) : Exact(evaluations[i])
  BY <1>1 DEF EvalInv
<1> DEFINE e == evaluations
           f == evaluations'
<1>7. e \in Seq(Snapshots) /\ e # << >> /\ f = Tail(e)
  BY <1>2, <1>6
<1> HIDE DEF e, f
<1>8. /\ f \in Seq(Snapshots) /\ Len(f) = Len(e) - 1 /\ Len(e) \in Nat
      /\ \A i \in 1..Len(f) : f[i] = e[i + 1]
  BY <1>7
<1>9. ASSUME NEW i \in 1..Len(f) PROVE Exact(f[i])
  <2>1. i + 1 \in 1..Len(e)
    BY <1>8
  <2> QED BY <1>6, <1>8, <2>1 DEF e
<1>10. evaluations' \in Seq(Snapshots) /\ \A i \in 1..Len(evaluations') : Exact(evaluations'[i])
  BY <1>8, <1>9 DEF f
<1>11. stage' # "finished" /\ evaluation_failed' \in BOOLEAN
  BY <1>1, <1>2 DEF EvalInv
<1>12. EvalInv'
  BY <1>1, <1>2, <1>10, <1>11 DEF EvalInv, learnerVars, diskVars
<1> QED BY <1>3, <1>4, <1>5, <1>12 DEF PipelineInv

LEMMA TimeKeeps == PipelineInv /\ TimePasses => PipelineInv'
<1> SUFFICES ASSUME PipelineInv, TimePasses PROVE PipelineInv'
  OBVIOUS
<1>1. LearnInv /\ JobsInv /\ StageInv /\ EvalInv
  BY DEF PipelineInv
<1>2. UNCHANGED <<stage, learnerVars, samplerVars, evaluationVars, diskVars>> /\ time_up' = TRUE
  BY DEF TimePasses
<1>3. LearnInv' /\ Here' = Here
  BY <1>1, <1>2, LearnStays DEF learnerVars
<1>4. JobsInv' /\ Coming' = Coming
  BY <1>1, <1>2, JobsStay DEF learnerVars
<1>5. time_up' \in BOOLEAN /\ (time_up => time_up')
  BY <1>2
<1>6. Done => Done'
  BY <1>2, <1>5 DEF Done, learnerVars
<1>7. StageInv'
  <2>1. {time_up', trained_here'} \subseteq BOOLEAN
    BY <1>1, <1>2, <1>5 DEF StageInv, learnerVars
  <2> QED BY <1>1, <1>2, <1>4, <1>5, <1>6, <2>1 DEF StageInv, learnerVars, samplerVars, evaluationVars,
                                                    Jobs, LagIsAllowed
<1>8. EvalInv'
  <2>1. Known' <=> Known
    BY <1>2, <1>3 DEF Known, evaluationVars
  <2>2. UNCHANGED <<evaluations, evaluated_until, evaluation_failed, validated, best, checkpoints,
                    completed_episodes, stage>>
    BY <1>2 DEF evaluationVars, learnerVars, diskVars
  <2> QED BY <1>1, <2>1, <2>2 DEF EvalInv
<1> QED BY <1>3, <1>4, <1>7, <1>8 DEF PipelineInv

\* All snapshots are evaluated.
LEMMA TrainingFinishes == PipelineInv /\ FinishFit => PipelineInv'
<1> SUFFICES ASSUME PipelineInv, FinishFit PROVE PipelineInv'
  OBVIOUS
<1>1. LearnInv /\ JobsInv /\ StageInv /\ EvalInv
  BY DEF PipelineInv
<1>2. /\ stage = "draining" /\ evaluations = << >> /\ ~evaluation_failed /\ stage' = "finished"
      /\ UNCHANGED <<learnerVars, samplerVars, evaluationVars, diskVars, time_up>>
  BY DEF FinishFit
<1>3. LearnInv' /\ Here' = Here
  BY <1>1, <1>2, LearnStays DEF learnerVars
<1>4. JobsInv' /\ Coming' = Coming
  BY <1>1, <1>2, JobsStay DEF learnerVars
<1>5. StageInv'
  BY <1>1, <1>2 DEF StageInv, Working, learnerVars, evaluationVars, Done
<1>6. EvalInv'
  <2>1. Known' <=> Known
    BY <1>2, <1>3 DEF Known, evaluationVars
  <2>2. stage \in Working
    BY <1>2 DEF Working
  <2> QED BY <1>1, <1>2, <2>1, <2>2 DEF EvalInv, evaluationVars, learnerVars, diskVars
<1> QED BY <1>3, <1>4, <1>5, <1>6 DEF PipelineInv

\* The run is left by an exception, or its process dies.
LEMMA EndKeepsPipeline ==
  PipelineInv /\ (FitRaises \/ FindFailure \/ StopSampler \/ StopEvaluations \/ EndFit
                    \/ ProcessDies) => PipelineInv'
<1> SUFFICES ASSUME PipelineInv,
                    FitRaises \/ FindFailure \/ StopSampler \/ StopEvaluations \/ EndFit
                      \/ ProcessDies
             PROVE  PipelineInv'
  OBVIOUS
<1>1. LearnInv /\ JobsInv /\ StageInv /\ EvalInv
  BY DEF PipelineInv
<1>2. /\ UNCHANGED <<learnerVars, sampler_version, next_batch, pending_jobs, evaluated_until,
                     evaluation_failed, validated, best, diskVars, time_up>>
      /\ sampler' \in {"idle", sampler} /\ stage' \in {"stopping", "failed", "dead"}
      /\ evaluations' \in {evaluations, << >>}
  BY DEF FitRaises, FindFailure, StopSampler, StopEvaluations, EndFit, ProcessDies, samplerVars,
         evaluationVars
<1>3. LearnInv' /\ Here' = Here
  BY <1>1, <1>2, LearnStays DEF learnerVars
<1>4. JobsInv'
  BY <1>1, <1>2 DEF JobsInv, learnerVars, Jobs
<1>5. StageInv'
  BY <1>1, <1>2 DEF StageInv, Working, learnerVars
<1>6. EvalInv'
  <2>1. << >> \in Seq(Snapshots) /\ 1..Len(<< >>) = {}
    OBVIOUS
  <2>2. evaluations' \in Seq(Snapshots) /\ \A i \in 1..Len(evaluations') : Exact(evaluations'[i])
    BY <1>1, <1>2, <2>1 DEF EvalInv
  <2>3. stage' \notin Working \cup {"finished"}
    BY <1>2 DEF Working
  <2> QED BY <1>1, <1>2, <2>2, <2>3 DEF EvalInv, learnerVars, diskVars
<1> QED BY <1>3, <1>4, <1>5, <1>6 DEF PipelineInv

LEMMA ResumeKeeps ==
  ASSUME PipelineInv, NEW s \in checkpoints, ResumeTraining(s)
  PROVE  PipelineInv'
<1>1. Exact(s)
  BY DEF PipelineInv, EvalInv
<1>2. /\ s \in Snapshots /\ s.version \in Nat /\ s.completed \in Nat /\ s.jobs \in SUBSET SamplingJobs
      /\ s.policy \in [SamplingJobs -> Nat] /\ s.version <= s.completed
      /\ s.completed = Cardinality(s.jobs)
      /\ \A j \in SamplingJobs : s.policy[j] = IF j \in s.jobs THEN 1 ELSE 0
  BY <1>1 DEF Exact, Snapshots, IsExact
<1>3. s.completed < TrainingEpisodes /\ checkpoints' = checkpoints
  BY DEF ResumeTraining
<1>4. /\ policy_version' = s.version /\ trained' = s.jobs
      /\ completed_episodes' = s.completed /\ learned' = s.policy
      /\ pending_jobs' = SamplingJobs \ s.jobs
      /\ current' = NoBatch /\ next_batch' = NoBatch
      /\ sampler' = "sampling" /\ sampler_version' = s.version
      /\ time_up' = FALSE /\ trained_here' = FALSE /\ first_episode' = s.completed
      /\ evaluations' = IF s.completed > 0 THEN <<s>> ELSE << >>
      /\ evaluated_until' = s.completed /\ evaluation_failed' = FALSE
      /\ validated' = {} /\ best' = NoBatch
      /\ stage' = "warmup"
  BY <1>1, JobsLeftIs DEF ResumeTraining, StartFit
<1>5. LearnInv'
  BY <1>2, <1>4 DEF LearnInv
<1>6. JobsInv'
  <2>1. SamplingJobs \ s.jobs # {}
    <3>1. s.jobs # SamplingJobs
      BY <1>2, <1>3, JobSets
    <3> QED BY <1>2, <3>1
  <2>2. Jobs(current)' = {} /\ Jobs(next_batch)' = {}
    BY <1>4, NoJobs DEF Jobs
  <2>3. s.version <= s.version
    BY <1>2
  <2> QED BY <1>2, <1>4, <2>1, <2>2, <2>3 DEF JobsInv
<1>7. StageInv'
  BY <1>4 DEF StageInv, Coming, Working
<1>8. EvalInv'
  <2>1. Here' = s
    <3>1. Here' = [completed |-> s.completed, version |-> s.version, jobs |-> s.jobs,
                   policy |-> s.policy]
      BY <1>4 DEF Here, Snapshot
    <3> QED BY <1>2, <3>1 DEF Snapshots
  <2>2. /\ evaluations' \in Seq(Snapshots) /\ \A i \in 1..Len(evaluations') : Exact(evaluations'[i])
        /\ completed_episodes' > 0 => Known'
    <3>1. CASE s.completed > 0
      <4>1. evaluations' = <<s>>
        BY <1>4, <3>1
      <4>2. <<s>> \in Seq(Snapshots) /\ Len(<<s>>) = 1 /\ <<s>>[1] = s /\ 1 \in 1..1
        BY <1>2
      <4>3. \A i \in 1..1 : i = 1
        OBVIOUS
      <4>4. \E i \in 1..Len(evaluations') : evaluations'[i] = Here'
        BY <2>1, <4>1, <4>2
      <4> QED BY <1>1, <4>1, <4>2, <4>3, <4>4 DEF Known
    <3>2. CASE ~(s.completed > 0)
      <4>1. evaluations' = << >>
        BY <1>4, <3>2
      <4>2. << >> \in Seq(Snapshots) /\ 1..Len(<< >>) = {}
        OBVIOUS
      <4> QED BY <1>4, <3>2, <4>1, <4>2
    <3> QED BY <3>1, <3>2
  <2>3. evaluated_until' \in Nat /\ evaluated_until' <= completed_episodes'
    BY <1>2, <1>4
  <2>4. evaluation_failed' \in BOOLEAN
    BY <1>4
  <2>5. validated' = {} /\ best' = NoBatch /\ validated' \in SUBSET Results
    BY <1>4
  <2>6. \A x \in checkpoints' : Exact(x)
    BY <1>3 DEF PipelineInv, EvalInv
  <2>7. stage' # "finished"
    BY <1>4
  <2> QED BY <2>2, <2>3, <2>4, <2>5, <2>6, <2>7 DEF EvalInv
<1> QED BY <1>5, <1>6, <1>7, <1>8 DEF PipelineInv

LEMMA PipelineStep == PipelineInv /\ [PipelineNext]_pipelineVars => PipelineInv'
<1> SUFFICES ASSUME PipelineInv, [PipelineNext]_pipelineVars PROVE PipelineInv'
  OBVIOUS
<1>1. CASE MainStep
  BY <1>1, WarmupKeeps, BeginKeeps, TrainKeeps, EndRoundKeeps, LeaveKeeps, TrainingFinishes,
     EndKeepsPipeline DEF MainStep
<1>2. CASE SamplerStep
  BY <1>2, CollectKeeps, EndKeepsPipeline DEF SamplerStep
<1>3. CASE EvaluatorStep
  BY <1>3, EvaluateKeeps, FailKeeps, EndKeepsPipeline DEF EvaluatorStep
<1>4. CASE TimePasses \/ FitRaises \/ ProcessDies
  BY <1>4, TimeKeeps, EndKeepsPipeline
<1>5. ASSUME NEW s \in checkpoints, ResumeTraining(s) PROVE PipelineInv'
  BY <1>5, ResumeKeeps
<1>6. CASE UNCHANGED pipelineVars
  <2>1. UNCHANGED <<stage, learnerVars, samplerVars, evaluationVars, diskVars, time_up>>
    BY <1>6 DEF pipelineVars
  <2>2. LearnInv /\ JobsInv /\ StageInv /\ EvalInv
    BY DEF PipelineInv
  <2>3. LearnInv' /\ Here' = Here
    BY <2>1, <2>2, LearnStays DEF learnerVars
  <2>4. JobsInv' /\ Coming' = Coming
    BY <2>1, <2>2, JobsStay DEF learnerVars
  <2>5. StageInv'
    BY <2>1, <2>2, <2>4 DEF StageInv, learnerVars, samplerVars, evaluationVars, Done, Jobs,
                            LagIsAllowed
  <2>6. EvalInv'
    <3>1. Known' <=> Known
      BY <2>1, <2>3 DEF Known, evaluationVars
    <3> QED BY <2>1, <2>2, <3>1 DEF EvalInv, evaluationVars, learnerVars, diskVars
  <2> QED BY <2>3, <2>4, <2>5, <2>6 DEF PipelineInv
<1> QED BY <1>1, <1>2, <1>3, <1>4, <1>5, <1>6 DEF PipelineNext

-----------------------------------------------------------------------------
(* The collection of episodes.                                             *)

Orders == {<<"close">>} \cup ({"collect"} \X (1..MaxJobs) \X (0..MaxRounds))

PipesAre == to_worker \in [EnvWorkers -> Seq(Orders)] /\ DOMAIN from_worker = EnvWorkers

\* While a round is on.
RoundIsOn == parent \in {"collecting", "returned"}
Error == <<"error">>
Progress(w) == <<"progress", active[w]>>

\* The answers that can come of the job of w.
AnswersOf(w) ==
  IF active[w] \in punctual THEN {<<"result", active[w], round, FALSE>>}
  ELSE IF stopping THEN {<<"result", active[w], round, TRUE>>, <<"discarded", active[w]>>}
  ELSE {}

Quiet(w) == from_worker[w] \in {<<>>, <<Progress(w)>>}
Told(w, m) == from_worker[w] \in {<<m>>, <<Progress(w), m>>}
Lost(w, m) == from_worker[w] \in {<<m>>, <<Progress(w), m>>, <<m, Error>>, <<Progress(w), m, Error>>}

\* The stations of a worker that has a job: the job is in its pipe, it is at work, it
\* has answered, or it has failed.
Ordered(w) ==
  /\ process[w] = "waiting" /\ from_worker[w] = <<>> /\ active[w] \notin punctual
  /\ \/ to_worker[w] = <<<<"collect", active[w], round>>>>
     \/ to_worker[w] = <<<<"collect", active[w], 0>>>> /\ weights[w] = round
Sampling(w) ==
  /\ to_worker[w] = <<>> /\ job[w] = active[w] /\ weights[w] = round /\ Quiet(w)
  /\ \/ process[w] = "collecting" /\ from_worker[w] = <<>> /\ active[w] \notin punctual
     \/ process[w] = "reported" /\ active[w] \notin punctual
     \/ process[w] = "complete" /\ active[w] \in punctual
     \/ process[w] = "late" /\ active[w] \notin punctual /\ stopping
Replied(w) ==
  /\ process[w] = "waiting" /\ to_worker[w] = <<>> /\ weights[w] = round
  /\ \E m \in AnswersOf(w) : Told(w, m)
Fallen(w) ==
  /\ process[w] = "exited"
  /\ \/ Quiet(w) \/ from_worker[w] \in {<<Error>>, <<Progress(w), Error>>}
     \/ \E m \in AnswersOf(w) : Lost(w, m)
AtWork(w) == Ordered(w) \/ Sampling(w) \/ Replied(w) \/ Fallen(w)

AtRest(w) ==
  \/ /\ process[w] = "waiting" /\ to_worker[w] = <<>> /\ from_worker[w] = <<>>
     /\ w \in Used(total) => weights[w] = round
  \/ process[w] = "exited" /\ from_worker[w] \in {<<>>, <<Error>>}

\* Before a round: a worker that the parent has read ready of, or has not.
AtStart(w) ==
  IF w \in ready
  THEN \/ process[w] = "waiting" /\ to_worker[w] = <<>> /\ from_worker[w] = <<>>
       \/ process[w] = "exited" /\ from_worker[w] \in {<<>>, <<Error>>}
  ELSE \/ process[w] = "starting" /\ to_worker[w] = <<>> /\ from_worker[w] = <<>>
       \/ process[w] = "waiting" /\ to_worker[w] = <<>> /\ from_worker[w] = <<<<"ready">>>>
       \/ process[w] = "exited"
            /\ from_worker[w] \in {<<>>, <<Error>>, <<<<"ready">>>>, <<<<"ready">>, Error>>}

\* Each worker is where the parent believes it is.
Protocol ==
  /\ stop_event => parent \in {"closing", "closed"}
  /\ parent = "starting" => \A w \in EnvWorkers : AtStart(w)
  /\ RoundIsOn => ready = EnvWorkers
              /\ \A w \in EnvWorkers : IF active[w] = 0 THEN AtRest(w) ELSE AtWork(w)

\* Each job given out is collected, discarded or with the one worker that has it.
Accounts ==
  RoundIsOn =>
    /\ total > 0 /\ round > 0
    /\ \A w \in EnvWorkers : active[w] # 0 => w \in Used(total)
    /\ \A v, w \in EnvWorkers : active[v] = active[w] /\ active[v] # 0 => v = w
    /\ \A w \in EnvWorkers : active[w] <= dispatched
    /\ \A w \in EnvWorkers : active[w] # 0 => active[w] \notin Collected \cup discarded
    /\ \A j \in 1..dispatched : j \in Collected \cup discarded \/ \E w \in EnvWorkers : active[w] = j
    /\ Collected \subseteq punctual /\ discarded \cap punctual = {}
    /\ punctual \subseteq 1..dispatched /\ discarded \subseteq 1..dispatched
    /\ \A j \in punctual : j \in Collected \/ \E w \in EnvWorkers : active[w] = j
    /\ \A r \in trajectories : r[2] = round
    /\ completed \subseteq Used(total)
    /\ stopping => completed = Used(total) /\ dynamic
    /\ round_finished = stopping
    /\ ~stopping => /\ discarded = {}
                    /\ \A w \in Used(total) : active[w] # 0 \/ w \in completed
                    /\ (\E w \in Used(total) : active[w] = 0) => dispatched = total
    /\ parent = "returned" => \A w \in EnvWorkers : active[w] = 0

RolloutInv == RolloutTypeOK /\ PipesAre /\ Protocol /\ Accounts

\* Sequences of up to three messages.
LEMMA Tuples ==
  ASSUME NEW a, NEW b, NEW c
  PROVE  /\ Append(<<>>, a) = <<a>> /\ Append(<<a>>, b) = <<a, b>>
         /\ Append(<<a, b>>, c) = <<a, b, c>>
         /\ Tail(<<a>>) = <<>> /\ Tail(<<a, b>>) = <<b>> /\ Tail(<<a, b, c>>) = <<b, c>>
         /\ Head(<<a>>) = a /\ Head(<<a, b>>) = a /\ Head(<<a, b, c>>) = a
         /\ <<a>> # <<>> /\ <<a, b>> # <<>> /\ <<a, b, c>> # <<>>
<1>1. Append(<<>>, a) = <<a>>
  OBVIOUS
<1> DEFINE M == {a, b, c}
<1>2. Append(<<a>>, b) = <<a, b>>
  <2>1. <<a>> \in Seq(M) /\ b \in M /\ <<a, b>> \in Seq(M)
    OBVIOUS
  <2> HIDE DEF M
  <2>2. /\ Append(<<a>>, b) \in Seq(M) /\ Len(Append(<<a>>, b)) = 2
        /\ Append(<<a>>, b)[1] = a /\ Append(<<a>>, b)[2] = b
    BY <2>1, AppendProperties
  <2> DEFINE s == Append(<<a>>, b)
             t == <<a, b>>
  <2>3. Len(t) = 2 /\ t[1] = a /\ t[2] = b
    OBVIOUS
  <2>4. s \in Seq(M) /\ t \in Seq(M) /\ Len(s) = Len(t) /\ \A i \in 1..Len(s) : s[i] = t[i]
    BY <2>1, <2>2, <2>3
  <2> HIDE DEF s, t
  <2>5. s = t
    BY <2>4, SeqEqual
  <2> QED BY <2>5 DEF s, t
<1>3. Append(<<a, b>>, c) = <<a, b, c>>
  <2>1. <<a, b>> \in Seq(M) /\ c \in M /\ <<a, b, c>> \in Seq(M)
    OBVIOUS
  <2> HIDE DEF M
  <2>2. /\ Append(<<a, b>>, c) \in Seq(M) /\ Len(Append(<<a, b>>, c)) = 3
        /\ Append(<<a, b>>, c)[1] = a /\ Append(<<a, b>>, c)[2] = b
        /\ Append(<<a, b>>, c)[3] = c
    BY <2>1, AppendProperties
  <2> DEFINE s == Append(<<a, b>>, c)
             t == <<a, b, c>>
  <2>3. Len(t) = 3 /\ t[1] = a /\ t[2] = b /\ t[3] = c
    OBVIOUS
  <2>4. s \in Seq(M) /\ t \in Seq(M) /\ Len(s) = Len(t) /\ \A i \in 1..Len(s) : s[i] = t[i]
    BY <2>1, <2>2, <2>3
  <2> HIDE DEF s, t
  <2>5. s = t
    BY <2>4, SeqEqual
  <2> QED BY <2>5 DEF s, t
<1>4. Tail(<<a>>) = <<>>
  OBVIOUS
<1>5. Tail(<<a, b>>) = <<b>>
  OBVIOUS
<1>6. Tail(<<a, b, c>>) = <<b, c>>
  OBVIOUS
<1>7. Head(<<a>>) = a /\ Head(<<a, b>>) = a /\ Head(<<a, b, c>>) = a
  OBVIOUS
<1>8. <<a>> # <<>> /\ <<a, b>> # <<>> /\ <<a, b, c>> # <<>>
  OBVIOUS
<1> QED BY <1>1, <1>2, <1>3, <1>4, <1>5, <1>6, <1>7, <1>8

Before(S, w) == {v \in S : v <= w}
Place(S, w) == Cardinality(Before(S, w))

\* The place of a free worker among the free ones orders them and counts them.
LEMMA PlaceIs ==
  ASSUME NEW S \in SUBSET Nat, IsFiniteSet(S)
  PROVE  /\ Cardinality(S) \in Nat
         /\ \A n \in S : Place(S, n) \in 1..Cardinality(S)
         /\ \A n \in S, k \in S : Place(S, n) = Place(S, k) => n = k
         /\ \A n \in S, k \in S : n <= k => Place(S, n) <= Place(S, k)
<1>1. Cardinality(S) \in Nat
  BY FS_CardinalityType
<1>2. ASSUME NEW n \in S PROVE Place(S, n) \in 1..Cardinality(S)
  <2>1. Before(S, n) \subseteq S /\ n \in Before(S, n)
    BY DEF Before
  <2>2. IsFiniteSet(Before(S, n)) /\ Place(S, n) <= Cardinality(S)
    BY <2>1, FS_Subset DEF Place
  <2>3. Place(S, n) \in Nat /\ Place(S, n) # 0
    BY <2>1, <2>2, FS_CardinalityType, FS_EmptySet DEF Place
  <2> QED BY <1>1, <2>2, <2>3
<1>3. ASSUME NEW n \in S, NEW k \in S, n < k PROVE Place(S, n) < Place(S, k)
  <2>0. /\ n \in Nat /\ k \in Nat /\ k <= k /\ ~(k <= n)
        /\ \A x \in S : x \in Nat /\ (x <= n => x <= k)
    BY <1>3
  <2>1. Before(S, n) \subseteq Before(S, k) /\ k \in Before(S, k) /\ k \notin Before(S, n)
    BY <1>3, <2>0 DEF Before
  <2>2. IsFiniteSet(Before(S, k))
    BY FS_Subset DEF Before
  <2>3. Place(S, n) <= Place(S, k) /\ Place(S, n) # Place(S, k)
    BY <2>1, <2>2, FS_Subset DEF Place
  <2>4. Place(S, n) \in Nat /\ Place(S, k) \in Nat
    BY <1>1, <1>2
  <2> QED BY <2>3, <2>4
<1>4. ASSUME NEW n \in S, NEW k \in S, Place(S, n) = Place(S, k) PROVE n = k
  <2>1. Place(S, n) \in Nat /\ Place(S, k) \in Nat /\ n \in Nat /\ k \in Nat
    BY <1>1, <1>2
  <2>2. ~(n < k) /\ ~(k < n)
    BY <1>3, <1>4, <2>1
  <2> QED BY <2>1, <2>2
<1>5. ASSUME NEW n \in S, NEW k \in S, n <= k PROVE Place(S, n) <= Place(S, k)
  <2>1. Place(S, n) \in Nat /\ Place(S, k) \in Nat /\ n \in Nat /\ k \in Nat
    BY <1>1, <1>2
  <2>2. n = k \/ n < k
    BY <1>5, <2>1
  <2> QED BY <1>3, <2>1, <2>2
<1> QED BY <1>1, <1>2, <1>4, <1>5

LEMMA PlaceOnto ==
  ASSUME NEW S \in SUBSET Nat, IsFiniteSet(S), NEW i \in 1..Cardinality(S)
  PROVE  \E n \in S : Place(S, n) = i
<1> DEFINE c == Cardinality(S)
           f == [n \in S |-> Place(S, n)]
<1>1. c \in Nat /\ \A n \in S : Place(S, n) \in 1..c
  BY PlaceIs
<1>2. \A n \in S, k \in S : Place(S, n) = Place(S, k) => n = k
  BY PlaceIs
<1>3. IsFiniteSet(1..c) /\ Cardinality(1..c) = c
  <2>1. c \in Int /\ 1 \in Int
    BY <1>1
  <2>2. IsFiniteSet(1..c) /\ Cardinality(1..c) = IF 1 > c THEN 0 ELSE c - 1 + 1
    BY <2>1, FS_Interval
  <2> QED BY <1>1, <2>2
<1> HIDE DEF c
<1>4. f \in Injection(S, 1..c)
  <2>1. f \in [S -> 1..c] /\ \A n \in S : f[n] = Place(S, n)
    BY <1>1
  <2> HIDE DEF f
  <2>2. ASSUME NEW n \in S, NEW k \in S, f[n] = f[k] PROVE n = k
    BY <1>2, <2>1, <2>2
  <2> QED BY <2>1, <2>2 DEF Injection, IsInjective
<1> HIDE DEF f
<1>5. f \in Surjection(S, 1..c)
  BY <1>3, <1>4, FS_Injection DEF c
<1> QED BY <1>5 DEF Surjection, f, c

\* The first n of them, and the numbers they get.
LEMMA FirstOnes ==
  ASSUME NEW S \in SUBSET Nat, IsFiniteSet(S), NEW n \in Nat,
         NEW G, G = {w \in S : Place(S, w) <= n}
  PROVE  /\ Cardinality(G) \in 0..n
         /\ \A w \in G : Place(S, w) \in 1..Cardinality(G)
         /\ \A i \in 1..Cardinality(G) : \E w \in G : Place(S, w) = i
         /\ S # G => Cardinality(G) = n
<1>1. G \in SUBSET Nat /\ G \subseteq S /\ IsFiniteSet(G)
  BY FS_Subset
<1> DEFINE c == Cardinality(G)
<1>2. c \in Nat /\ Cardinality(S) \in Nat /\ \A w \in S : Place(S, w) \in 1..Cardinality(S)
  BY <1>1, PlaceIs
<1>3. ASSUME NEW w \in G PROVE Before(S, w) = Before(G, w) /\ Place(S, w) = Place(G, w)
  <2>1. ASSUME NEW v \in S, v <= w PROVE v \in G
    <3>1. Place(S, v) <= Place(S, w) /\ Place(S, w) <= n
      BY <1>1, <2>1, PlaceIs
    <3>2. Place(S, v) <= n
      BY <1>1, <1>2, <3>1
    <3> QED BY <3>2
  <2>2. Before(S, w) = Before(G, w)
    BY <1>1, <2>1 DEF Before
  <2> QED BY <2>2 DEF Place
<1>4. /\ \A w \in G : Place(G, w) \in 1..c
      /\ \A i \in 1..c : \E w \in G : Place(G, w) = i
  BY <1>1, PlaceIs, PlaceOnto
<1>5. /\ \A w \in G : Place(S, w) \in 1..c
      /\ \A i \in 1..c : \E w \in G : Place(S, w) = i
  BY <1>3, <1>4
<1> HIDE DEF c
<1>6. c <= n
  <2>1. CASE c = 0
    BY <2>1
  <2>2. CASE c # 0
    <3>1. c \in 1..c
      BY <1>2, <2>2
    <3>2. PICK w \in G : Place(S, w) = c
      BY <1>5, <3>1
    <3> QED BY <3>2
  <2> QED BY <2>1, <2>2
<1>7. ASSUME S # G PROVE c = n
  <2>1. PICK w \in S : ~(Place(S, w) <= n)
    BY <1>7
  <2>2. n < Cardinality(S)
    BY <1>2, <2>1
  <2>3. CASE n = 0
    BY <1>2, <1>6, <2>3
  <2>4. CASE n # 0
    <3>1. n \in 1..Cardinality(S)
      BY <1>2, <2>2, <2>4
    <3>2. PICK v \in S : Place(S, v) = n
      BY <3>1, PlaceOnto
    <3>3. v \in G
      BY <3>2
    <3>4. n \in 1..c
      BY <1>5, <3>2, <3>3
    <3> QED BY <1>2, <1>6, <3>4
  <2> QED BY <2>3, <2>4
<1> QED BY <1>2, <1>5, <1>6, <1>7 DEF c

\* What a step of worker w leaves to the others.
Frame(w) ==
  /\ UNCHANGED <<parent, ready, active, roundVars, stop_event>>
  /\ \A v \in EnvWorkers \ {w} :
       /\ process'[v] = process[v] /\ to_worker'[v] = to_worker[v]
       /\ from_worker'[v] = from_worker[v] /\ job'[v] = job[v] /\ weights'[v] = weights[v]
  /\ \/ punctual' = punctual
     \/ RoundIsOn => active[w] # 0 /\ ~stopping /\ punctual' = punctual \cup {active[w]}

LEMMA TypesOf ==
  RolloutTypeOK =>
    /\ round \in Nat /\ total \in Nat /\ dispatched \in Nat /\ dispatched <= total
    /\ \A w \in EnvWorkers : active[w] \in Nat
BY RolloutConstants DEF RolloutTypeOK

\* MaxJobs is the largest of the numbers of jobs.
LEMMA MaxJobsIs == MaxJobs \in JobCounts /\ MaxJobs \in Nat /\ \A k \in JobCounts : k <= MaxJobs
<1>1. JobCounts \in SUBSET Nat /\ IsFiniteSet(JobCounts) /\ JobCounts # {}
  BY RolloutConstants
<1> DEFINE c == Cardinality(JobCounts)
<1>2. c \in Nat /\ c # 0
  BY <1>1, FS_CardinalityType, FS_EmptySet
<1>3. c \in 1..c
  BY <1>2
<1>4. PICK n \in JobCounts : Place(JobCounts, n) = c
  BY <1>1, <1>3, PlaceOnto
<1>5. ASSUME NEW k \in JobCounts PROVE k <= n
  <2>1. k \in Nat /\ n \in Nat /\ Place(JobCounts, k) <= c
    BY <1>1, PlaceIs
  <2>2. CASE n <= k
    <3>1. Place(JobCounts, n) <= Place(JobCounts, k) /\ Place(JobCounts, k) \in Nat
      BY <1>1, <2>2, PlaceIs
    <3>2. Place(JobCounts, k) = Place(JobCounts, n)
      BY <1>2, <1>4, <2>1, <3>1
    <3>3. k = n
      BY <1>1, <3>2, PlaceIs
    <3> QED BY <2>1, <3>3
  <2> QED BY <2>1, <2>2
<1>6. MaxJobs \in JobCounts /\ \A k \in JobCounts : k <= MaxJobs
  BY <1>5 DEF MaxJobs
<1> QED BY <1>1, <1>6

LEMMA OthersStay ==
  ASSUME RolloutTypeOK, NEW w \in EnvWorkers, NEW v \in EnvWorkers, v # w, Frame(w)
  PROVE  /\ AtStart(v) => AtStart(v)'
         /\ AtRest(v) => AtRest(v)'
         /\ RoundIsOn /\ active[v] # active[w] /\ AtWork(v) => AtWork(v)'
<1>1. /\ process'[v] = process[v] /\ to_worker'[v] = to_worker[v]
      /\ from_worker'[v] = from_worker[v] /\ job'[v] = job[v] /\ weights'[v] = weights[v]
      /\ active' = active /\ ready' = ready /\ round' = round /\ total' = total
      /\ stopping' = stopping
  BY DEF Frame, roundVars
<1>2. AtStart(v) => AtStart(v)'
  BY <1>1 DEF AtStart, Error
<1>3. AtRest(v) => AtRest(v)'
  BY <1>1 DEF AtRest, Error, Used
<1>4. ASSUME RoundIsOn, active[v] # active[w] PROVE active[v] \in punctual <=> active[v] \in punctual'
  BY <1>4 DEF Frame
<1>5. ASSUME RoundIsOn, active[v] # active[w] PROVE AnswersOf(v)' = AnswersOf(v)
  BY <1>1, <1>4, <1>5 DEF AnswersOf
<1>6. Progress(v)' = Progress(v)
  BY <1>1 DEF Progress
<1>7. ASSUME RoundIsOn, active[v] # active[w], AtWork(v) PROVE AtWork(v)'
  <2>1. Ordered(v) => Ordered(v)'
    BY <1>1, <1>4, <1>7 DEF Ordered
  <2>2. Sampling(v) => Sampling(v)'
    BY <1>1, <1>4, <1>6, <1>7 DEF Sampling, Quiet
  <2>3. Replied(v) => Replied(v)'
    BY <1>1, <1>5, <1>6, <1>7 DEF Replied, Told
  <2>4. Fallen(v) => Fallen(v)'
    BY <1>1, <1>5, <1>6, <1>7 DEF Fallen, Lost, Quiet, Error
  <2> QED BY <1>7, <2>1, <2>2, <2>3, <2>4 DEF AtWork
<1> QED BY <1>2, <1>3, <1>7

\* The accounts survive the step of a worker.
LEMMA AccountsStay ==
  ASSUME RolloutTypeOK, Accounts, NEW w \in EnvWorkers, Frame(w)
  PROVE  Accounts'
<1> SUFFICES ASSUME RoundIsOn PROVE Accounts'
  BY DEF Accounts, Frame, RoundIsOn
<1>1. /\ parent' = parent /\ active' = active /\ round' = round /\ total' = total
      /\ dispatched' = dispatched /\ dynamic' = dynamic /\ trajectories' = trajectories
      /\ discarded' = discarded /\ completed' = completed /\ stopping' = stopping
      /\ round_finished' = round_finished
  BY DEF Frame, roundVars
<1>2. Collected' = Collected /\ Used(total)' = Used(total)
  BY <1>1 DEF Collected, Used
<1>3. CASE punctual' = punctual
  BY <1>1, <1>2, <1>3 DEF Accounts, RoundIsOn
<1>4. CASE active[w] # 0 /\ ~stopping /\ punctual' = punctual \cup {active[w]}
  <2>1. active[w] \in 1..dispatched
    BY <1>4, TypesOf DEF Accounts
  <2>2. Collected \subseteq punctual' /\ discarded \cap punctual' = {}
    BY <1>4 DEF Accounts
  <2>3. punctual' \subseteq 1..dispatched
    BY <1>4, <2>1 DEF Accounts
  <2>4. \A j \in punctual' : j \in Collected \/ \E v \in EnvWorkers : active[v] = j
    BY <1>4 DEF Accounts
  <2> QED BY <1>1, <1>2, <2>2, <2>3, <2>4 DEF Accounts, RoundIsOn
<1> QED BY <1>3, <1>4 DEF Frame

\* A step of a worker keeps the protocol, if it keeps it at this worker.
LEMMA WorkerAlone ==
  ASSUME RolloutInv, NEW w \in EnvWorkers, Frame(w),
         parent = "starting" => AtStart(w)',
         RoundIsOn => IF active[w] = 0 THEN AtRest(w)' ELSE AtWork(w)'
  PROVE  Protocol' /\ Accounts'
<1>1. parent' = parent /\ active' = active /\ ready' = ready /\ stop_event' = stop_event
  BY DEF Frame
<1>2. Accounts'
  BY AccountsStay DEF RolloutInv
<1>3. ASSUME parent = "starting", NEW v \in EnvWorkers PROVE AtStart(v)'
  <2>1. AtStart(v)
    BY <1>3 DEF RolloutInv, Protocol
  <2> QED BY <1>3, <2>1, OthersStay DEF RolloutInv
<1>4. ASSUME RoundIsOn, NEW v \in EnvWorkers
      PROVE  IF active'[v] = 0 THEN AtRest(v)' ELSE AtWork(v)'
  <2>1. IF active[v] = 0 THEN AtRest(v) ELSE AtWork(v)
    BY <1>4 DEF RolloutInv, Protocol
  <2>2. CASE v = w
    BY <1>1, <1>4, <2>2
  <2>3. CASE v # w /\ active[v] = 0
    BY <1>1, <2>1, <2>3, OthersStay DEF RolloutInv
  <2>4. CASE v # w /\ active[v] # 0
    <3>1. active[v] # active[w]
      BY <1>4, <2>4 DEF RolloutInv, Accounts
    <3>2. AtWork(v)'
      BY <1>4, <2>1, <2>4, <3>1, OthersStay DEF RolloutInv
    <3> QED BY <1>1, <2>4, <3>2
  <2> QED BY <2>2, <2>3, <2>4
<1>5. Protocol'
  BY <1>1, <1>3, <1>4 DEF RolloutInv, Protocol, RoundIsOn
<1> QED BY <1>2, <1>5

\* A worker of a live round, or of a start.
LEMMA AtHand ==
  ASSUME RolloutInv, NEW w \in EnvWorkers
  PROVE  /\ parent = "starting" => AtStart(w)
         /\ RoundIsOn => IF active[w] = 0 THEN AtRest(w) ELSE AtWork(w)
         /\ parent = "starting" \/ RoundIsOn => ~stop_event
BY DEF RolloutInv, Protocol, RoundIsOn

\* What a worker adds to its pipe.
LEMMA TellIs ==
  ASSUME RolloutInv, NEW w \in EnvWorkers, NEW m, Tell(w, m)
  PROVE  /\ DOMAIN from_worker' = EnvWorkers
         /\ from_worker'[w] = Append(from_worker[w], m)
         /\ \A v \in EnvWorkers \ {w} : from_worker'[v] = from_worker[v]
BY DEF RolloutInv, PipesAre, Tell

LEMMA BecomesIs ==
  ASSUME RolloutInv, NEW w \in EnvWorkers, NEW state, Becomes(w, state)
  PROVE  /\ process'[w] = state
         /\ \A v \in EnvWorkers \ {w} : process'[v] = process[v]
BY DEF RolloutInv, RolloutTypeOK, Becomes

LEMMA WorkerReadyKeeps ==
  ASSUME RolloutInv, NEW w \in EnvWorkers, WorkerReady(w)
  PROVE  RolloutInv'
<1>1. /\ process'[w] = "waiting" /\ \A v \in EnvWorkers \ {w} : process'[v] = process[v]
      /\ DOMAIN from_worker' = EnvWorkers /\ from_worker'[w] = Append(from_worker[w], <<"ready">>)
      /\ \A v \in EnvWorkers \ {w} : from_worker'[v] = from_worker[v]
  BY TellIs, BecomesIs DEF WorkerReady
<1>2. Frame(w)
  BY <1>1 DEF Frame, WorkerReady
<1>3. RolloutTypeOK' /\ PipesAre'
  <2>1. RolloutTypeOK'
    BY DEF RolloutInv, RolloutTypeOK, WorkerReady, roundVars, Becomes, Busy
  <2>2. PipesAre'
    BY <1>1 DEF RolloutInv, PipesAre, WorkerReady
  <2> QED BY <2>1, <2>2
<1>4. parent = "starting" => AtStart(w)'
  <2> SUFFICES ASSUME parent = "starting" PROVE AtStart(w)'
    OBVIOUS
  <2>1. w \notin ready /\ to_worker[w] = <<>> /\ from_worker[w] = <<>>
    BY AtHand DEF AtStart, WorkerReady
  <2>2. from_worker'[w] = <<<<"ready">>>>
    BY <1>1, <2>1, Tuples
  <2> QED BY <1>1, <2>1, <2>2 DEF AtStart, WorkerReady
<1>5. ~RoundIsOn
  BY AtHand DEF AtRest, AtWork, Ordered, Sampling, Replied, Fallen, WorkerReady
<1> QED BY <1>2, <1>3, <1>4, <1>5, WorkerAlone DEF RolloutInv

LEMMA ReceiveJobKeeps ==
  ASSUME RolloutInv, NEW w \in EnvWorkers, ReceiveJob(w)
  PROVE  RolloutInv'
<1> DEFINE command == Head(to_worker[w])
<1>1. /\ process[w] = "waiting" /\ to_worker[w] # <<>> /\ command[1] = "collect"
      /\ to_worker[w] \in Seq(Orders)
  BY DEF ReceiveJob, IsTold, RolloutInv, PipesAre
<1>2. command \in Orders /\ Tail(to_worker[w]) \in Seq(Orders)
  BY <1>1, HeadTailProperties
<1>3. command[2] \in 1..MaxJobs /\ command[3] \in 0..MaxRounds
  <2>1. <<"close">>[1] = "close"
    OBVIOUS
  <2>2. command \in {"collect"} \X (1..MaxJobs) \X (0..MaxRounds)
    BY <1>1, <1>2, <2>1 DEF Orders
  <2> QED BY <2>2
<1>4. /\ job' = [job EXCEPT ![w] = command[2]]
      /\ weights' = IF command[3] = 0 THEN weights ELSE [weights EXCEPT ![w] = command[3]]
      /\ to_worker' = [to_worker EXCEPT ![w] = Tail(@)]
      /\ Becomes(w, "collecting")
      /\ UNCHANGED <<parent, ready, active, roundVars, stop_event, from_worker, punctual, failed>>
  BY DEF ReceiveJob
<1> HIDE DEF command
<1>5. RolloutTypeOK'
  <2>1. command[2] \in 0..MaxJobs
    <3>1. command[2] \in Nat /\ command[2] <= MaxJobs
      BY <1>3
    <3>2. command[2] \in Int
      BY <1>3
    <3> QED BY <1>3
  <2>2. job' \in [EnvWorkers -> 0..MaxJobs] /\ weights' \in [EnvWorkers -> 0..MaxRounds]
    BY <1>3, <1>4, <2>1 DEF RolloutInv, RolloutTypeOK
  <2>3. process' \in [EnvWorkers -> {"starting", "waiting", "complete", "late", "exited"} \cup Busy]
    BY <1>4 DEF RolloutInv, RolloutTypeOK, Becomes, Busy
  <2> QED BY <1>4, <2>2, <2>3 DEF RolloutInv, RolloutTypeOK, roundVars
<1>6. PipesAre'
  BY <1>2, <1>4 DEF RolloutInv, PipesAre
<1>7. /\ process'[w] = "collecting" /\ \A v \in EnvWorkers \ {w} : process'[v] = process[v]
  BY <1>4, BecomesIs
<1>8. Frame(w)
  BY <1>4, <1>7 DEF Frame, RolloutInv, RolloutTypeOK, PipesAre
<1>9. parent # "starting"
  BY <1>1, AtHand DEF AtStart
<1>10. ASSUME RoundIsOn PROVE active[w] # 0 /\ AtWork(w)'
  <2>1. active[w] # 0 /\ Ordered(w)
    BY <1>1, <1>10, AtHand DEF AtRest, AtWork, Sampling, Replied, Fallen
  <2>2. PICK n \in {0, round} : /\ to_worker[w] = <<<<"collect", active[w], n>>>>
                                /\ n = 0 => weights[w] = round
    <3>1. round # 0
      BY <1>10, TypesOf DEF RolloutInv, Accounts
    <3> QED BY <2>1, <3>1 DEF Ordered
  <2>3. command = <<"collect", active[w], n>> /\ Tail(to_worker[w]) = <<>>
    BY <2>2, Tuples DEF command
  <2>4. command[2] = active[w] /\ command[3] = n
    BY <2>3
  <2>5. job'[w] = active[w] /\ weights'[w] = round /\ to_worker'[w] = <<>>
    BY <1>4, <2>2, <2>3, <2>4 DEF RolloutInv, RolloutTypeOK, PipesAre
  <2> QED BY <1>4, <1>7, <2>1, <2>5 DEF Ordered, Sampling, AtWork, Quiet, roundVars
<1> QED BY <1>5, <1>6, <1>8, <1>9, <1>10, WorkerAlone DEF RolloutInv
LEMMA ReportProgressKeeps ==
  ASSUME RolloutInv, NEW w \in EnvWorkers, ReportProgress(w)
  PROVE  RolloutInv'
<1>1. /\ process'[w] = "reported" /\ \A v \in EnvWorkers \ {w} : process'[v] = process[v]
      /\ DOMAIN from_worker' = EnvWorkers
      /\ from_worker'[w] = Append(from_worker[w], <<"progress", job[w]>>)
      /\ \A v \in EnvWorkers \ {w} : from_worker'[v] = from_worker[v]
  BY TellIs, BecomesIs DEF ReportProgress
<1>2. Frame(w)
  BY <1>1 DEF Frame, ReportProgress
<1>3. RolloutTypeOK' /\ PipesAre'
  <2>1. RolloutTypeOK'
    BY DEF RolloutInv, RolloutTypeOK, ReportProgress, roundVars, Becomes, Busy
  <2>2. PipesAre'
    BY <1>1 DEF RolloutInv, PipesAre, ReportProgress
  <2> QED BY <2>1, <2>2
<1>4. parent # "starting"
  BY AtHand DEF AtStart, ReportProgress
<1>5. ASSUME RoundIsOn PROVE active[w] # 0 /\ AtWork(w)'
  <2>1. /\ active[w] # 0 /\ Sampling(w) /\ from_worker[w] = <<>> /\ active[w] \notin punctual
        /\ to_worker[w] = <<>> /\ job[w] = active[w] /\ weights[w] = round
    BY <1>5, AtHand DEF AtRest, AtWork, Ordered, Sampling, Replied, Fallen, ReportProgress
  <2>2. from_worker'[w] = <<<<"progress", active[w]>>>>
    BY <1>1, <2>1, Tuples
  <2> QED BY <1>1, <2>1, <2>2
      DEF AtWork, Sampling, Quiet, Progress, ReportProgress, roundVars
<1> QED BY <1>2, <1>3, <1>4, <1>5, WorkerAlone DEF RolloutInv

\* The last step of an episode decides whether it is complete before the cutoff.
LEMMA CompleteEpisodeKeeps ==
  ASSUME RolloutInv, NEW w \in EnvWorkers, CompleteEpisode(w)
  PROVE  RolloutInv'
<1>1. /\ process'[w] = IF stopping THEN "late" ELSE "complete"
      /\ \A v \in EnvWorkers \ {w} : process'[v] = process[v]
  BY BecomesIs DEF CompleteEpisode
<1>2. parent # "starting"
  BY AtHand DEF AtStart, CompleteEpisode, Busy
<1>3. ASSUME RoundIsOn
      PROVE  /\ active[w] # 0 /\ Sampling(w) /\ active[w] \notin punctual
             /\ to_worker[w] = <<>> /\ job[w] = active[w] /\ weights[w] = round /\ Quiet(w)
  BY <1>3, AtHand DEF AtRest, AtWork, Ordered, Sampling, Replied, Fallen, CompleteEpisode, Busy
<1>4. Frame(w)
  BY <1>1, <1>3 DEF Frame, CompleteEpisode
<1>5. RolloutTypeOK' /\ PipesAre'
  <2>1. process' \in [EnvWorkers -> {"starting", "waiting", "complete", "late", "exited"} \cup Busy]
    BY DEF RolloutInv, RolloutTypeOK, CompleteEpisode, Becomes, Busy
  <2>2. RolloutTypeOK'
    BY <2>1 DEF RolloutInv, RolloutTypeOK, CompleteEpisode, roundVars
  <2>3. PipesAre'
    BY <1>1 DEF RolloutInv, PipesAre, CompleteEpisode
  <2> QED BY <2>2, <2>3
<1>6. ASSUME RoundIsOn PROVE active[w] # 0 /\ AtWork(w)'
  <2>1. /\ to_worker'[w] = <<>> /\ job'[w] = active'[w] /\ weights'[w] = round' /\ Quiet(w)'
        /\ active'[w] = active[w] /\ stopping' = stopping
    BY <1>3, <1>6 DEF CompleteEpisode, roundVars, Quiet, Progress
  <2>2. CASE stopping
    BY <1>1, <1>3, <1>6, <2>1, <2>2 DEF AtWork, Sampling, CompleteEpisode
  <2>3. CASE ~stopping
    BY <1>1, <1>3, <1>6, <2>1, <2>3 DEF AtWork, Sampling, CompleteEpisode
  <2> QED BY <1>3, <1>6, <2>2, <2>3
<1> QED BY <1>2, <1>4, <1>5, <1>6, WorkerAlone DEF RolloutInv

\* The pipe of a worker that was quiet, after its answer.
LEMMA Answering ==
  ASSUME NEW w \in EnvWorkers, NEW m, Quiet(w), active'[w] = active[w],
         from_worker'[w] = Append(from_worker[w], m)
  PROVE  from_worker'[w] = <<m>> \/ from_worker'[w] = <<Progress(w)', m>>
<1> DEFINE p == Progress(w)
<1>1. Progress(w)' = p
  BY DEF Progress
<1>2. from_worker[w] = <<>> \/ from_worker[w] = <<p>>
  BY DEF Quiet
<1>3. Append(<<>>, m) = <<m>> /\ Append(<<p>>, m) = <<p, m>>
  BY Tuples
<1> HIDE DEF p
<1> QED BY <1>1, <1>2, <1>3

LEMMA SendResultKeeps ==
  ASSUME RolloutInv, NEW w \in EnvWorkers, SendResult(w)
  PROVE  RolloutInv'
<1> DEFINE m == <<"result", job[w], weights[w], process[w] = "late">>
<1>1. /\ process'[w] = "waiting" /\ \A v \in EnvWorkers \ {w} : process'[v] = process[v]
      /\ DOMAIN from_worker' = EnvWorkers /\ from_worker'[w] = Append(from_worker[w], m)
      /\ \A v \in EnvWorkers \ {w} : from_worker'[v] = from_worker[v]
  BY TellIs, BecomesIs DEF SendResult
<1>2. Frame(w)
  BY <1>1 DEF Frame, SendResult, RolloutInv, RolloutTypeOK
<1>3. RolloutTypeOK' /\ PipesAre'
  <2>1. 0 \in 0..MaxJobs
    <3>1. MaxJobs \in Nat
      BY MaxJobsIs
    <3> QED BY <3>1
  <2>2. RolloutTypeOK'
    BY <2>1 DEF RolloutInv, RolloutTypeOK, SendResult, roundVars, Becomes, Busy
  <2>3. PipesAre'
    BY <1>1 DEF RolloutInv, PipesAre, SendResult
  <2> QED BY <2>2, <2>3
<1>4. parent # "starting"
  BY AtHand DEF AtStart, SendResult
<1>5. ASSUME RoundIsOn PROVE active[w] # 0 /\ AtWork(w)'
  <2>1. /\ active[w] # 0 /\ to_worker[w] = <<>> /\ job[w] = active[w] /\ weights[w] = round
        /\ Quiet(w)
        /\ \/ process[w] = "complete" /\ active[w] \in punctual
           \/ process[w] = "late" /\ active[w] \notin punctual /\ stopping
    BY <1>5, AtHand DEF AtRest, AtWork, Ordered, Sampling, Replied, Fallen, SendResult, Busy
  <2>2. active' = active /\ punctual' = punctual /\ stopping' = stopping /\ round' = round
        /\ to_worker'[w] = <<>> /\ weights'[w] = round'
    BY <2>1 DEF SendResult, roundVars
  <2>3. m \in AnswersOf(w)
    <3>1. CASE process[w] = "complete" /\ active[w] \in punctual
      <4>1. (process[w] = "late") = FALSE
        BY <3>1
      <4> QED BY <2>1, <3>1, <4>1 DEF AnswersOf
    <3>2. CASE process[w] = "late" /\ active[w] \notin punctual /\ stopping
      <4>1. (process[w] = "late") = TRUE
        BY <3>2
      <4> QED BY <2>1, <3>2, <4>1 DEF AnswersOf
    <3> QED BY <2>1, <3>1, <3>2
  <2> HIDE DEF m
  <2>4. m \in AnswersOf(w)'
    BY <2>2, <2>3 DEF AnswersOf
  <2>5. from_worker'[w] = <<m>> \/ from_worker'[w] = <<Progress(w)', m>>
    BY <1>1, <2>1, <2>2, Answering
  <2>6. Replied(w)'
    <3> DEFINE from == from_worker'
               answers == AnswersOf(w)'
    <3>1. from[w] = <<m>> \/ from[w] = <<Progress(w)', m>>
      BY <2>5
    <3>2. m \in answers
      BY <2>4
    <3>3. process'[w] = "waiting" /\ to_worker'[w] = <<>> /\ weights'[w] = round'
      BY <1>1, <2>2
    <3> QED BY <3>1, <3>2, <3>3 DEF Replied, Told
  <2> QED BY <2>1, <2>6 DEF AtWork
<1> QED BY <1>2, <1>3, <1>4, <1>5, WorkerAlone DEF RolloutInv

LEMMA DiscardEpisodeKeeps ==
  ASSUME RolloutInv, NEW w \in EnvWorkers, DiscardEpisode(w)
  PROVE  RolloutInv'
<1> DEFINE m == <<"discarded", job[w]>>
<1>1. /\ process'[w] = "waiting" /\ \A v \in EnvWorkers \ {w} : process'[v] = process[v]
      /\ DOMAIN from_worker' = EnvWorkers /\ from_worker'[w] = Append(from_worker[w], m)
      /\ \A v \in EnvWorkers \ {w} : from_worker'[v] = from_worker[v]
  BY TellIs, BecomesIs DEF DiscardEpisode
<1>2. Frame(w)
  BY <1>1 DEF Frame, DiscardEpisode, RolloutInv, RolloutTypeOK
<1>3. RolloutTypeOK' /\ PipesAre'
  <2>1. 0 \in 0..MaxJobs
    <3>1. MaxJobs \in Nat
      BY MaxJobsIs
    <3> QED BY <3>1
  <2>2. RolloutTypeOK'
    BY <2>1 DEF RolloutInv, RolloutTypeOK, DiscardEpisode, roundVars, Becomes, Busy
  <2>3. PipesAre'
    BY <1>1 DEF RolloutInv, PipesAre, DiscardEpisode
  <2> QED BY <2>2, <2>3
<1>4. parent # "starting"
  BY AtHand DEF AtStart, DiscardEpisode, Busy
<1>5. ASSUME RoundIsOn PROVE active[w] # 0 /\ AtWork(w)'
  <2>0. stopping
    BY <1>5 DEF RolloutInv, Accounts, DiscardEpisode
  <2>1. /\ active[w] # 0 /\ to_worker[w] = <<>> /\ job[w] = active[w] /\ weights[w] = round
        /\ Quiet(w) /\ active[w] \notin punctual
    BY <1>5, AtHand DEF AtRest, AtWork, Ordered, Sampling, Replied, Fallen, DiscardEpisode, Busy
  <2>2. active' = active /\ punctual' = punctual /\ stopping' = stopping /\ round' = round
        /\ to_worker'[w] = <<>> /\ weights'[w] = round'
    BY <2>1 DEF DiscardEpisode, roundVars
  <2>3. m \in AnswersOf(w)
    BY <2>0, <2>1 DEF AnswersOf
  <2> HIDE DEF m
  <2>4. m \in AnswersOf(w)'
    BY <2>2, <2>3 DEF AnswersOf
  <2>5. from_worker'[w] = <<m>> \/ from_worker'[w] = <<Progress(w)', m>>
    BY <1>1, <2>1, <2>2, Answering
  <2>6. Replied(w)'
    <3> DEFINE from == from_worker'
               answers == AnswersOf(w)'
    <3>1. from[w] = <<m>> \/ from[w] = <<Progress(w)', m>>
      BY <2>5
    <3>2. m \in answers
      BY <2>4
    <3>3. process'[w] = "waiting" /\ to_worker'[w] = <<>> /\ weights'[w] = round'
      BY <1>1, <2>2
    <3> QED BY <3>1, <3>2, <3>3 DEF Replied, Told
  <2> QED BY <2>1, <2>6 DEF AtWork
<1> QED BY <1>2, <1>3, <1>4, <1>5, WorkerAlone DEF RolloutInv

\* No worker leaves before the collector is closed.
LEMMA LeaveWorkerKeeps ==
  ASSUME RolloutInv, NEW w \in EnvWorkers, LeaveWorker(w)
  PROVE  RolloutInv'
<1>1. /\ process'[w] = "exited" /\ \A v \in EnvWorkers \ {w} : process'[v] = process[v]
  BY BecomesIs DEF LeaveWorker
<1>2. /\ DOMAIN from_worker' = EnvWorkers
      /\ \A v \in EnvWorkers \ {w} : from_worker'[v] = from_worker[v]
  <2>1. CASE process[w] = "waiting"
    BY <2>1 DEF LeaveWorker, RolloutInv, PipesAre
  <2>2. CASE process[w] # "waiting"
    BY <2>2, TellIs DEF LeaveWorker
  <2> QED BY <2>1, <2>2
<1>3. Frame(w)
  BY <1>1, <1>2 DEF Frame, LeaveWorker
<1>4. RolloutTypeOK' /\ PipesAre'
  <2>1. RolloutTypeOK'
    BY DEF RolloutInv, RolloutTypeOK, LeaveWorker, roundVars, Becomes, Busy
  <2>2. PipesAre'
    BY <1>2 DEF RolloutInv, PipesAre, LeaveWorker
  <2> QED BY <2>1, <2>2
<1>5. ASSUME parent = "starting" \/ RoundIsOn PROVE FALSE
  <2>1. process[w] = "waiting" /\ to_worker[w] # <<>> /\ Head(to_worker[w])[1] = "close"
    BY <1>5, AtHand DEF LeaveWorker, IsTold
  <2>2. RoundIsOn /\ Ordered(w)
    BY <1>5, <2>1, AtHand DEF AtStart, AtRest, AtWork, Sampling, Replied, Fallen
  <2>3. PICK n : to_worker[w] = <<<<"collect", active[w], n>>>>
    BY <2>2 DEF Ordered
  <2>4. Head(to_worker[w]) = <<"collect", active[w], n>>
    BY <2>3, Tuples
  <2> QED BY <2>1, <2>4
<1> QED BY <1>3, <1>4, <1>5, WorkerAlone DEF RolloutInv

LEMMA FailWorkerKeeps ==
  ASSUME RolloutInv, NEW w \in EnvWorkers, FailWorker(w)
  PROVE  RolloutInv'
<1>1. /\ process'[w] = "exited" /\ \A v \in EnvWorkers \ {w} : process'[v] = process[v]
      /\ process[w] # "exited"
  BY BecomesIs DEF FailWorker
<1>2. /\ DOMAIN from_worker' = EnvWorkers
      /\ \A v \in EnvWorkers \ {w} : from_worker'[v] = from_worker[v]
      /\ \/ from_worker'[w] = Append(from_worker[w], Error)
         \/ from_worker'[w] = from_worker[w]
  <2>1. CASE Tell(w, <<"error">>)
    BY <2>1, TellIs DEF Error
  <2>2. CASE UNCHANGED from_worker
    BY <2>2 DEF RolloutInv, PipesAre
  <2> QED BY <2>1, <2>2 DEF FailWorker
<1>3. Frame(w)
  BY <1>1, <1>2 DEF Frame, FailWorker
<1>4. RolloutTypeOK' /\ PipesAre'
  <2>1. RolloutTypeOK'
    BY DEF RolloutInv, RolloutTypeOK, FailWorker, roundVars, Becomes, Busy
  <2>2. PipesAre'
    BY <1>2 DEF RolloutInv, PipesAre, FailWorker
  <2> QED BY <2>1, <2>2
<1>5. ready' = ready /\ active' = active /\ punctual' = punctual /\ stopping' = stopping
      /\ round' = round
  BY DEF FailWorker, roundVars
<1>6. ASSUME parent = "starting" PROVE AtStart(w)'
  <2>1. CASE w \in ready \/ process[w] = "starting"
    <3>1. from_worker[w] = <<>>
      BY <1>1, <1>6, <2>1, AtHand DEF AtStart
    <3>2. from_worker'[w] = <<>> \/ from_worker'[w] = <<Error>>
      BY <1>2, <3>1, Tuples
    <3> QED BY <1>1, <1>5, <3>2 DEF AtStart, Error
  <2>2. CASE w \notin ready /\ process[w] # "starting"
    <3>1. from_worker[w] = <<<<"ready">>>>
      BY <1>1, <1>6, <2>2, AtHand DEF AtStart
    <3>2. from_worker'[w] = <<<<"ready">>>> \/ from_worker'[w] = <<<<"ready">>, Error>>
      BY <1>2, <3>1, Tuples
    <3> QED BY <1>1, <1>5, <2>2, <3>2 DEF AtStart, Error
  <2> QED BY <2>1, <2>2
<1>7. ASSUME RoundIsOn, active[w] = 0 PROVE AtRest(w)'
  <2>1. from_worker[w] = <<>>
    BY <1>1, <1>7, AtHand DEF AtRest
  <2>2. from_worker'[w] = <<>> \/ from_worker'[w] = <<Error>>
    BY <1>2, <2>1, Tuples
  <2> QED BY <1>1, <2>2 DEF AtRest, Error
<1>8. ASSUME RoundIsOn, active[w] # 0 PROVE AtWork(w)'
  <2>1. AtWork(w) /\ ~Fallen(w)
    BY <1>1, <1>8, AtHand DEF Fallen
  <2>2. Progress(w)' = Progress(w) /\ Error' = Error
    BY <1>5 DEF Progress, Error
  <2>3. CASE Ordered(w) \/ Sampling(w)
    <3>1. from_worker[w] = <<>> \/ from_worker[w] = <<Progress(w)>>
      BY <2>3 DEF Ordered, Sampling, Quiet
    <3>2. \/ from_worker'[w] = <<>> \/ from_worker'[w] = <<Progress(w)>>
          \/ from_worker'[w] = <<Error>> \/ from_worker'[w] = <<Progress(w), Error>>
      BY <1>2, <3>1, Tuples
    <3>3. Quiet(w)' \/ from_worker'[w] \in {<<Error>>, <<Progress(w)', Error>>}
      BY <2>2, <3>2 DEF Quiet
    <3> QED BY <1>1, <3>3 DEF AtWork, Fallen, Error
  <2>4. CASE Replied(w)
    <3>1. PICK m \in AnswersOf(w) : from_worker[w] = <<m>> \/ from_worker[w] = <<Progress(w), m>>
      BY <2>4 DEF Replied, Told
    <3>2. \/ from_worker'[w] = <<m>> \/ from_worker'[w] = <<Progress(w), m>>
          \/ from_worker'[w] = <<m, Error>> \/ from_worker'[w] = <<Progress(w), m, Error>>
      BY <1>2, <3>1, Tuples
    <3>3. m \in AnswersOf(w)'
      BY <1>5, <3>1 DEF AnswersOf
    <3>4. from_worker'[w] \in {<<m>>, <<Progress(w)', m>>, <<m, Error>>, <<Progress(w)', m, Error>>}
      BY <2>2, <3>2
    <3> QED BY <1>1, <3>3, <3>4 DEF AtWork, Fallen, Lost, Error
  <2> QED BY <2>1, <2>3, <2>4 DEF AtWork
<1> QED BY <1>3, <1>4, <1>6, <1>7, <1>8, WorkerAlone DEF RolloutInv

LEMMA RolloutStart == RolloutInit => RolloutInv
<1> SUFFICES ASSUME RolloutInit PROVE RolloutInv
  OBVIOUS
<1>1. MaxJobs \in Nat /\ 0 \in 0..MaxJobs /\ 0 \in 0..MaxRounds /\ 0 \in 0..0
  BY MaxJobsIs, RolloutConstants
<1>2. RolloutTypeOK
  BY <1>1 DEF RolloutInit, RolloutTypeOK
<1>3. PipesAre
  BY DEF RolloutInit, PipesAre
<1>4. Protocol
  BY DEF RolloutInit, Protocol, AtStart, RoundIsOn
<1> QED BY <1>2, <1>3, <1>4 DEF RolloutInv, RolloutInit, Accounts, RoundIsOn

\* A round that is over leaves only the types and the end to account for.
LEMMA Over ==
  ASSUME RolloutTypeOK', PipesAre', parent' \in {"raised", "closing", "closed"},
         stop_event' => parent' \in {"closing", "closed"}
  PROVE  RolloutInv'
BY DEF RolloutInv, Protocol, Accounts, RoundIsOn

LEMMA ReadReadyKeeps ==
  ASSUME RolloutInv, NEW w \in EnvWorkers, ReadReady(w)
  PROVE  RolloutInv'
<1>1. RolloutTypeOK'
  BY DEF RolloutInv, RolloutTypeOK, ReadReady, Raise, roundVars, samplingVars
<1>2. PipesAre'
  BY DEF RolloutInv, PipesAre, ReadReady
<1>3. ~stop_event /\ AtStart(w) /\ w \notin ready
  BY AtHand DEF ReadReady
<1>4. CASE Broken(w)
  BY <1>1, <1>2, <1>3, <1>4, Over DEF ReadReady, Raise
<1>5. CASE ~Broken(w)
  <2>1. /\ from_worker[w] # <<>> /\ Head(from_worker[w])[1] # "error"
        /\ ready' = ready \cup {w} /\ parent' = "starting" /\ parent = "starting"
        /\ from_worker' = [from_worker EXCEPT ![w] = Tail(@)]
        /\ stop_event' = stop_event /\ to_worker' = to_worker /\ process' = process
    BY <1>5 DEF Broken, ReadReady, samplingVars
  <2>2. from_worker'[w] = Tail(from_worker[w])
    BY <2>1 DEF RolloutInv, PipesAre
  <2>3. from_worker[w] # <<Error>>
    <3>1. Head(<<Error>>) = Error /\ Error[1] = "error"
      BY Tuples DEF Error
    <3> QED BY <2>1, <3>1
  <2>4. AtStart(w)'
    <3>1. CASE process[w] = "waiting" /\ to_worker[w] = <<>> /\ from_worker[w] = <<<<"ready">>>>
      <4>1. from_worker'[w] = <<>>
        BY <2>2, <3>1, Tuples
      <4> QED BY <2>1, <3>1, <4>1 DEF AtStart
    <3>2. CASE process[w] = "exited" /\ from_worker[w] = <<<<"ready">>>>
      <4>1. from_worker'[w] = <<>>
        BY <2>2, <3>2, Tuples
      <4> QED BY <2>1, <3>2, <4>1 DEF AtStart
    <3>3. CASE process[w] = "exited" /\ from_worker[w] = <<<<"ready">>, Error>>
      <4>1. from_worker'[w] = <<Error>>
        BY <2>2, <3>3, Tuples
      <4> QED BY <2>1, <3>3, <4>1 DEF AtStart, Error
    <3> QED BY <1>3, <2>1, <2>3, <3>1, <3>2, <3>3 DEF AtStart
  <2>5. ASSUME NEW v \in EnvWorkers, v # w PROVE AtStart(v)'
    <3>1. AtStart(v)
      BY <2>1, AtHand
    <3>2. from_worker'[v] = from_worker[v] /\ (v \in ready' <=> v \in ready)
      BY <2>1, <2>5 DEF RolloutInv, PipesAre
    <3> QED BY <2>1, <3>1, <3>2 DEF AtStart, Error
  <2>6. Protocol' /\ Accounts'
    BY <1>3, <2>1, <2>4, <2>5 DEF Protocol, Accounts, RoundIsOn
  <2> QED BY <1>1, <1>2, <2>6 DEF RolloutInv
<1> QED BY <1>4, <1>5

LEMMA ReturnBatchKeeps ==
  ASSUME RolloutInv, ReturnBatch
  PROVE  RolloutInv'
<1>1. RolloutTypeOK' /\ PipesAre'
  BY DEF RolloutInv, RolloutTypeOK, PipesAre, ReturnBatch, roundVars, samplingVars
<1>2. /\ parent = "collecting" /\ parent' = "returned" /\ stop_event' = stop_event /\ ready' = ready
      /\ active' = active /\ \A w \in EnvWorkers : active[w] = 0
  BY DEF ReturnBatch
<1>3. ASSUME NEW w \in EnvWorkers PROVE AtRest(w)'
  <2>1. AtRest(w)
    BY <1>2, AtHand DEF RoundIsOn
  <2> QED BY <2>1 DEF AtRest, Error, Used, ReturnBatch, roundVars, samplingVars
<1>4. Protocol'
  BY <1>2, <1>3 DEF RolloutInv, Protocol, RoundIsOn
<1>5. Accounts'
  BY <1>2 DEF RolloutInv, Accounts, Collected, Used, RoundIsOn, ReturnBatch, roundVars, samplingVars
<1> QED BY <1>1, <1>4, <1>5 DEF RolloutInv

LEMMA CollectAgainKeeps ==
  ASSUME RolloutInv, CollectAgain
  PROVE  RolloutInv'
<1>1. RolloutTypeOK' /\ PipesAre'
  BY DEF RolloutInv, RolloutTypeOK, PipesAre, CollectAgain, roundVars, samplingVars
<1>2. /\ parent = "returned" /\ parent' = "starting" /\ stop_event' = stop_event /\ ready' = ready
      /\ ready = EnvWorkers /\ \A w \in EnvWorkers : active[w] = 0
  BY DEF CollectAgain, RolloutInv, Protocol, Accounts, RoundIsOn
<1>3. ASSUME NEW w \in EnvWorkers PROVE AtStart(w)'
  <2>1. AtRest(w)
    BY <1>2, AtHand DEF RoundIsOn
  <2> QED BY <1>2, <2>1 DEF AtRest, AtStart, Error, CollectAgain, samplingVars
<1>4. Protocol' /\ Accounts'
  BY <1>2, <1>3 DEF RolloutInv, Protocol, Accounts, RoundIsOn
<1> QED BY <1>1, <1>4 DEF RolloutInv

LEMMA CancelCollectKeeps ==
  ASSUME RolloutInv, CancelCollect
  PROVE  RolloutInv'
<1>1. RolloutTypeOK' /\ PipesAre'
  BY DEF RolloutInv, RolloutTypeOK, PipesAre, CancelCollect, Raise, roundVars, samplingVars
<1>2. parent' = "raised" /\ stop_event' = stop_event /\ ~stop_event
  BY DEF CancelCollect, Raise, RolloutInv, Protocol
<1> QED BY <1>1, <1>2, Over

LEMMA CloseCollectorKeeps ==
  ASSUME RolloutInv, CloseCollector
  PROVE  RolloutInv'
<1>1. RolloutTypeOK'
  BY DEF RolloutInv, RolloutTypeOK, CloseCollector, roundVars, samplingVars
<1>2. to_worker' \in [EnvWorkers -> Seq(Orders)]
  <2>1. <<"close">> \in Orders
    BY DEF Orders
  <2>2. \A w \in EnvWorkers : to_worker[w] \in Seq(Orders)
    BY DEF RolloutInv, PipesAre
  <2>3. \A w \in EnvWorkers : Append(to_worker[w], <<"close">>) \in Seq(Orders)
    BY <2>1, <2>2, AppendProperties
  <2> QED BY <2>3 DEF CloseCollector
<1>3. PipesAre'
  BY <1>2 DEF RolloutInv, PipesAre, CloseCollector
<1> QED BY <1>1, <1>3, Over DEF CloseCollector

LEMMA TerminateWorkerKeeps ==
  ASSUME RolloutInv, NEW w \in EnvWorkers, TerminateWorker(w)
  PROVE  RolloutInv'
<1>1. RolloutTypeOK' /\ PipesAre'
  BY DEF RolloutInv, RolloutTypeOK, PipesAre, TerminateWorker, Becomes, roundVars
<1> QED BY <1>1, Over DEF TerminateWorker

LEMMA EndCloseKeeps ==
  ASSUME RolloutInv, EndClose
  PROVE  RolloutInv'
<1>1. RolloutTypeOK' /\ PipesAre'
  BY DEF RolloutInv, RolloutTypeOK, PipesAre, EndClose, roundVars, samplingVars
<1> QED BY <1>1, Over DEF EndClose

\* The workers of a round of n jobs.
LEMMA UsedIs ==
  ASSUME NEW n \in JobCounts
  PROVE  /\ n \in Nat /\ n # 0 /\ n <= MaxJobs /\ Used(n) \subseteq EnvWorkers
         /\ Used(n) = 1..Cardinality(Used(n)) /\ 1 \in Used(n)
         /\ Cardinality(Used(n)) \in 0..n
<1>1. n \in Nat /\ n # 0 /\ NumEnvs \in Nat /\ NumEnvs # 0
  BY RolloutConstants
<1>2. n <= MaxJobs
  BY MaxJobsIs
<1> DEFINE m == IF n <= NumEnvs THEN n ELSE NumEnvs
<1>3. m \in Nat /\ m # 0 /\ m <= n /\ Used(n) = 1..m
  BY <1>1 DEF Used, EnvWorkers
<1> HIDE DEF m
<1>4. Cardinality(1..m) = m
  <2>1. m \in Int /\ 1 \in Int /\ ~(1 > m)
    BY <1>3
  <2>2. Cardinality(1..m) = IF 1 > m THEN 0 ELSE m - 1 + 1
    BY <2>1, FS_Interval
  <2> QED BY <1>3, <2>1, <2>2
<1>5. 1 \in Used(n) /\ Used(n) \subseteq EnvWorkers
  BY <1>1, <1>3 DEF Used
<1> QED BY <1>1, <1>2, <1>3, <1>4, <1>5

\* The round begins: each worker that is used has its number as its first job.
LEMMA StartRoundKeeps ==
  ASSUME RolloutInv, NEW n \in JobCounts, NEW dyn \in BOOLEAN, StartRound(n, dyn)
  PROVE  RolloutInv'
<1> DEFINE d == Cardinality(Used(n))
           r == round + 1
           order(w) == <<"collect", w, r>>
<1>1. /\ n \in Nat /\ n # 0 /\ n <= MaxJobs /\ Used(n) \subseteq EnvWorkers /\ d \in 0..n
      /\ Used(n) = 1..d /\ 1 \in Used(n) /\ MaxJobs \in Nat /\ MaxRounds \in Nat
  BY UsedIs, MaxJobsIs, RolloutConstants
<1>2. r \in 1..MaxRounds /\ r \in 0..MaxRounds /\ r # 0 /\ r > 0
  <2>1. round \in Nat /\ round < MaxRounds
    BY TypesOf DEF RolloutInv, StartRound
  <2> QED BY <1>1, <2>1
<1>3. d \in Nat /\ d <= n /\ \A w \in Used(n) : w \in Nat /\ w # 0 /\ w <= d /\ w \in 1..MaxJobs
                                              /\ w \in 0..MaxJobs
  BY <1>1
<1>4. /\ parent = "starting" /\ ready = EnvWorkers /\ ready' = ready
      /\ round' = r /\ dynamic' = dyn /\ total' = n /\ dispatched' = d
      /\ round_finished' = FALSE /\ discarded' = {} /\ trajectories' = {} /\ completed' = {}
      /\ stopping' = FALSE /\ punctual' = {}
      /\ active' = [w \in EnvWorkers |-> IF w \in Used(n) THEN w ELSE 0]
      /\ to_worker' = [w \in EnvWorkers |->
                         IF w \in Used(n) THEN Append(to_worker[w], order(w)) ELSE to_worker[w]]
      /\ stop_event' = stop_event /\ from_worker' = from_worker /\ process' = process
      /\ job' = job /\ weights' = weights
  BY DEF StartRound
<1>5. parent' = IF \E w \in Used(n) : process[w] = "exited" THEN "raised" ELSE "collecting"
  BY DEF StartRound, Raise
<1>6. Used(total)' = Used(n)
  BY <1>4 DEF Used
<1> HIDE DEF d, r
<1>7. RolloutTypeOK'
  <2>1. active' \in [EnvWorkers -> 0..MaxJobs]
    BY <1>1, <1>3, <1>4
  <2>2. total' \in 0..MaxJobs /\ dispatched' \in 0..total'
    BY <1>1, <1>4
  <2>3. parent' \in {"raised", "collecting"}
    BY <1>5
  <2> QED BY <1>2, <1>4, <2>1, <2>2, <2>3 DEF RolloutInv, RolloutTypeOK
<1>8. PipesAre'
  <2>1. ASSUME NEW w \in Used(n) PROVE order(w) \in Orders
    <3>1. w \in 1..MaxJobs
      BY <1>3
    <3> QED BY <1>2, <3>1 DEF Orders
  <2>2. \A w \in EnvWorkers : to_worker[w] \in Seq(Orders)
    BY DEF RolloutInv, PipesAre
  <2>3. \A w \in Used(n) : Append(to_worker[w], order(w)) \in Seq(Orders)
    BY <1>1, <2>1, <2>2, AppendProperties
  <2>4. to_worker' \in [EnvWorkers -> Seq(Orders)]
    BY <1>4, <2>2, <2>3
  <2> QED BY <1>4, <2>4 DEF RolloutInv, PipesAre
<1>9. ~stop_event
  BY <1>4 DEF RolloutInv, Protocol
<1>10. CASE \E w \in Used(n) : process[w] = "exited"
  BY <1>4, <1>5, <1>7, <1>8, <1>9, <1>10, Over
<1>11. CASE ~\E w \in Used(n) : process[w] = "exited"
  <2>1. ASSUME NEW w \in Used(n) PROVE active'[w] # 0 /\ AtWork(w)'
    <3>1. /\ process[w] = "waiting" /\ to_worker[w] = <<>> /\ from_worker[w] = <<>>
          /\ w \in EnvWorkers
      BY <1>1, <1>4, <1>11, AtHand DEF AtStart
    <3>2. active'[w] = w /\ to_worker'[w] = <<<<"collect", w, r>>>>
      <4>1. Append(<<>>, order(w)) = <<order(w)>>
        BY Tuples
      <4> QED BY <1>4, <3>1, <4>1
    <3>3. Ordered(w)'
      BY <1>4, <3>1, <3>2 DEF Ordered
    <3> QED BY <1>3, <3>2, <3>3 DEF AtWork
  <2>2. ASSUME NEW w \in EnvWorkers \ Used(n) PROVE active'[w] = 0 /\ AtRest(w)'
    <3>1. AtStart(w) /\ w \in ready
      BY <1>4, AtHand
    <3>2. active'[w] = 0 /\ to_worker'[w] = to_worker[w]
      BY <1>4
    <3> QED BY <1>4, <1>6, <3>1, <3>2 DEF AtStart, AtRest, Error
  <2>3. Protocol'
    <3>1. \A w \in EnvWorkers : IF active'[w] = 0 THEN AtRest(w)' ELSE AtWork(w)'
      BY <2>1, <2>2
    <3> QED BY <1>4, <1>5, <1>9, <1>11, <3>1 DEF Protocol
  <2>4. Accounts'
    <3>1. Collected' = {}
      BY <1>4 DEF Collected
    <3>2. \A w \in EnvWorkers : active'[w] # 0 => w \in Used(n) /\ active'[w] = w
      BY <1>4
    <3>3. \A w \in EnvWorkers : active'[w] <= d
      BY <1>3, <1>4
    <3>4. \A j \in 1..d : \E w \in EnvWorkers : active'[w] = j
      BY <1>1, <1>4
    <3>5. \A w \in Used(n) : active'[w] # 0
      BY <2>1
    <3>6. n > 0
      BY <1>1
    <3>7. /\ \A w \in EnvWorkers : active'[w] # 0 => w \in Used(total)'
          /\ \A v, w \in EnvWorkers : active'[v] = active'[w] /\ active'[v] # 0 => v = w
          /\ \A w \in EnvWorkers : active'[w] <= dispatched'
          /\ \A j \in 1..dispatched' : \E w \in EnvWorkers : active'[w] = j
          /\ \A w \in Used(total)' : active'[w] # 0
      BY <1>4, <1>6, <3>2, <3>3, <3>4, <3>5
    <3>8. parent' # "returned" /\ total' > 0 /\ round' > 0 /\ completed' \subseteq Used(total)'
      BY <1>2, <1>4, <1>5, <1>11, <3>6
    <3> QED BY <1>4, <3>1, <3>7, <3>8 DEF Accounts
  <2> QED BY <1>7, <1>8, <2>3, <2>4 DEF RolloutInv
<1> QED BY <1>10, <1>11

\* What the parent reads of a worker is its progress or its answer, and what it
\* leaves in the pipe.
OnItsWay(w, left) ==
  \/ /\ process[w] = "reported" /\ active[w] \notin punctual /\ left = <<>>
     /\ to_worker[w] = <<>> /\ job[w] = active[w] /\ weights[w] = round
  \/ /\ process[w] = "complete" /\ active[w] \in punctual /\ left = <<>>
     /\ to_worker[w] = <<>> /\ job[w] = active[w] /\ weights[w] = round
  \/ /\ process[w] = "late" /\ active[w] \notin punctual /\ stopping /\ left = <<>>
     /\ to_worker[w] = <<>> /\ job[w] = active[w] /\ weights[w] = round
  \/ /\ process[w] = "waiting" /\ to_worker[w] = <<>> /\ weights[w] = round
     /\ \E m \in AnswersOf(w) : left = <<m>>
  \/ /\ process[w] = "exited"
     /\ \/ left \in {<<>>, <<Error>>}
        \/ \E m \in AnswersOf(w) : left \in {<<m>>, <<m, Error>>}

HasAnswered(w, left) ==
  \/ process[w] = "waiting" /\ to_worker[w] = <<>> /\ weights[w] = round /\ left = <<>>
  \/ process[w] = "exited" /\ left \in {<<>>, <<Error>>}

LEMMA Reading ==
  ASSUME RolloutInv, NEW w \in EnvWorkers, RoundIsOn, active[w] # 0, ~Broken(w)
  PROVE  \/ Message(w) = Progress(w) /\ OnItsWay(w, Tail(from_worker[w]))
         \/ Message(w) \in AnswersOf(w) /\ HasAnswered(w, Tail(from_worker[w]))
<1> DEFINE f == from_worker[w]
           p == Progress(w)
<1>1. f # <<>> /\ Head(f)[1] # "error" /\ AtWork(w) /\ Message(w) = Head(f)
  BY AtHand DEF Broken, Message
<1>2. f # <<Error>>
  <2>1. Head(<<Error>>) = Error /\ Error[1] = "error"
    BY Tuples DEF Error
  <2> QED BY <1>1, <2>1
<1> HIDE DEF f, p
<1>3. CASE f = <<p>> /\ (Sampling(w) \/ (Quiet(w) /\ process[w] = "exited"))
  <2>1. Head(f) = p /\ Tail(f) = <<>>
    BY <1>3, Tuples
  <2>2. Sampling(w) => process[w] # "collecting"
    BY <1>1 DEF Sampling, f
  <2>3. OnItsWay(w, <<>>)
    BY <1>3, <2>2 DEF OnItsWay, Sampling
  <2> QED BY <1>1, <2>1, <2>3 DEF f, p
<1>4. CASE f = <<p, Error>> /\ process[w] = "exited"
  <2>1. Head(f) = p /\ Tail(f) = <<Error>>
    BY <1>4, Tuples
  <2> QED BY <1>1, <1>4, <2>1 DEF f, p, OnItsWay
<1>5. ASSUME NEW m \in AnswersOf(w), Replied(w), f = <<m>> \/ f = <<p, m>>
      PROVE  \/ Message(w) = Progress(w) /\ OnItsWay(w, Tail(from_worker[w]))
             \/ Message(w) \in AnswersOf(w) /\ HasAnswered(w, Tail(from_worker[w]))
  <2>1. CASE f = <<m>>
    <3>1. Head(f) = m /\ Tail(f) = <<>>
      BY <2>1, Tuples
    <3> QED BY <1>1, <1>5, <3>1 DEF f, HasAnswered, Replied
  <2>2. CASE f = <<p, m>>
    <3>1. Head(f) = p /\ Tail(f) = <<m>>
      BY <2>2, Tuples
    <3> QED BY <1>1, <1>5, <3>1 DEF f, p, OnItsWay, Replied
  <2> QED BY <1>5, <2>1, <2>2
<1>6. ASSUME NEW m \in AnswersOf(w), process[w] = "exited",
             f = <<m>> \/ f = <<p, m>> \/ f = <<m, Error>> \/ f = <<p, m, Error>>
      PROVE  \/ Message(w) = Progress(w) /\ OnItsWay(w, Tail(from_worker[w]))
             \/ Message(w) \in AnswersOf(w) /\ HasAnswered(w, Tail(from_worker[w]))
  <2>1. CASE f = <<m>>
    <3>1. Head(f) = m /\ Tail(f) = <<>>
      BY <2>1, Tuples
    <3> QED BY <1>1, <1>6, <3>1 DEF f, HasAnswered
  <2>2. CASE f = <<p, m>>
    <3>1. Head(f) = p /\ Tail(f) = <<m>>
      BY <2>2, Tuples
    <3> QED BY <1>1, <1>6, <3>1 DEF f, p, OnItsWay
  <2>3. CASE f = <<m, Error>>
    <3>1. Head(f) = m /\ Tail(f) = <<Error>>
      BY <2>3, Tuples
    <3> QED BY <1>1, <1>6, <3>1 DEF f, HasAnswered
  <2>4. CASE f = <<p, m, Error>>
    <3>1. Head(f) = p /\ Tail(f) = <<m, Error>>
      BY <2>4, Tuples
    <3> QED BY <1>1, <1>6, <3>1 DEF f, p, OnItsWay
  <2> QED BY <1>6, <2>1, <2>2, <2>3, <2>4
<1>7. CASE Ordered(w)
  BY <1>1, <1>7 DEF Ordered, f
<1>8. CASE Sampling(w)
  <2>1. Quiet(w)
    BY <1>8 DEF Sampling
  <2>2. f = <<>> \/ f = <<p>>
    BY <2>1 DEF Quiet, f, p
  <2> QED BY <1>1, <1>3, <1>8, <2>2
<1>9. CASE Replied(w)
  <2>1. PICK m \in AnswersOf(w) : f = <<m>> \/ f = <<p, m>>
    BY <1>9 DEF Replied, Told, f, p
  <2> QED BY <1>5, <1>9, <2>1
<1>10. CASE Fallen(w)
  <2>1. process[w] = "exited"
    BY <1>10 DEF Fallen
  <2>2. CASE Quiet(w)
    <3>1. f = <<p>>
      BY <1>1, <2>2 DEF Quiet, f, p
    <3> QED BY <1>3, <2>1, <2>2, <3>1
  <2>3. CASE f = <<Error>> \/ f = <<p, Error>>
    BY <1>2, <1>4, <2>1, <2>3
  <2>4. CASE \E m \in AnswersOf(w) : Lost(w, m)
    <3>1. PICK m \in AnswersOf(w) : f = <<m>> \/ f = <<p, m>> \/ f = <<m, Error>> \/ f = <<p, m, Error>>
      BY <2>4 DEF Lost, f, p
    <3> QED BY <1>6, <2>1, <3>1
  <2> QED BY <1>10, <2>2, <2>3, <2>4 DEF Fallen, f, p
<1> QED BY <1>1, <1>7, <1>8, <1>9, <1>10 DEF AtWork

\* What an answer says.
LEMMA AnswerIs ==
  ASSUME NEW w \in EnvWorkers, NEW m \in AnswersOf(w)
  PROVE  /\ m[1] # "ready" /\ m[1] # "error" /\ m[2] = active[w]
         /\ \/ m[1] = "result" /\ active[w] \in punctual /\ ~m[4] /\ m[3] = round
            \/ m[1] = "result" /\ active[w] \notin punctual /\ m[4] /\ stopping
            \/ m[1] = "discarded" /\ active[w] \notin punctual /\ stopping
<1>1. CASE active[w] \in punctual
  <2>1. m = <<"result", active[w], round, FALSE>>
    BY <1>1 DEF AnswersOf
  <2>2. m[1] = "result" /\ m[2] = active[w] /\ m[3] = round /\ m[4] = FALSE
    BY <2>1
  <2> QED BY <1>1, <2>2
<1>2. CASE active[w] \notin punctual
  <2>1. stopping /\ (m = <<"result", active[w], round, TRUE>> \/ m = <<"discarded", active[w]>>)
    BY <1>2 DEF AnswersOf
  <2>2. CASE m = <<"result", active[w], round, TRUE>>
    <3>1. m[1] = "result" /\ m[2] = active[w] /\ m[4] = TRUE
      BY <2>2
    <3> QED BY <1>2, <2>1, <3>1
  <2>3. CASE m = <<"discarded", active[w]>>
    <3>1. m[1] = "discarded" /\ m[2] = active[w]
      BY <2>3
    <3> QED BY <1>2, <2>1, <3>1
  <2> QED BY <2>1, <2>2, <2>3
<1> QED BY <1>1, <1>2

\* What a pass makes of the messages that it reads.
LEMMA PassReads ==
  ASSUME RolloutInv, RoundIsOn, \A w \in Answered : ~Broken(w), NEW w \in Answered
  PROVE  /\ w \in EnvWorkers /\ active[w] # 0
         /\ \/ /\ w \notin KeptBy /\ w \notin DroppedBy
               /\ OnItsWay(w, Tail(from_worker[w]))
            \/ /\ w \in KeptBy /\ w \notin DroppedBy
               /\ active[w] \in punctual /\ Message(w)[3] = round
               /\ HasAnswered(w, Tail(from_worker[w]))
            \/ /\ w \notin KeptBy /\ w \in DroppedBy
               /\ active[w] \notin punctual /\ stopping
               /\ HasAnswered(w, Tail(from_worker[w]))
<1>1. w \in EnvWorkers /\ active[w] # 0 /\ ~Broken(w)
  BY DEF Answered
<1>2. CASE Message(w) = Progress(w) /\ OnItsWay(w, Tail(from_worker[w]))
  <2>1. Progress(w)[1] = "progress"
    BY DEF Progress
  <2>2. w \notin KeptBy /\ w \notin DroppedBy
    BY <1>2, <2>1 DEF KeptBy, DroppedBy, Answers
  <2> QED BY <1>1, <1>2, <2>2
<1>3. CASE Message(w) \in AnswersOf(w) /\ HasAnswered(w, Tail(from_worker[w]))
  <2> DEFINE m == Message(w)
  <2>1. \/ m[1] = "result" /\ active[w] \in punctual /\ ~m[4] /\ m[3] = round
        \/ m[1] = "result" /\ active[w] \notin punctual /\ m[4] /\ stopping
        \/ m[1] = "discarded" /\ active[w] \notin punctual /\ stopping
    BY <1>1, <1>3, AnswerIs
  <2>2. CASE m[1] = "result" /\ active[w] \in punctual /\ ~m[4] /\ m[3] = round
    BY <1>1, <1>3, <2>2 DEF KeptBy, DroppedBy, Answers
  <2>3. CASE m[1] = "result" /\ active[w] \notin punctual /\ m[4] /\ stopping
    BY <1>1, <1>3, <2>3 DEF KeptBy, DroppedBy, Answers
  <2>4. CASE m[1] = "discarded" /\ active[w] \notin punctual /\ stopping
    BY <1>1, <1>3, <2>4 DEF KeptBy, DroppedBy, Answers
  <2> QED BY <2>1, <2>2, <2>3, <2>4
<1> QED BY <1>1, <1>2, <1>3, Reading

LEMMA AnswersGrow ==
  ASSUME NEW w \in EnvWorkers, active'[w] = active[w], punctual' = punctual, round' = round,
         stopping => stopping'
  PROVE  AnswersOf(w) \subseteq AnswersOf(w)' /\ Progress(w)' = Progress(w)
BY DEF AnswersOf, Progress

\* A worker that the parent has not heard of, or has heard of its progress.
LEMMA Unheard ==
  ASSUME NEW w \in EnvWorkers, active'[w] = active[w], punctual' = punctual, round' = round,
         stopping => stopping', process' = process, job' = job, weights' = weights,
         to_worker'[w] = to_worker[w], from_worker'[w] = from_worker[w], AtWork(w)
  PROVE  AtWork(w)'
<1>1. AnswersOf(w) \subseteq AnswersOf(w)' /\ Progress(w)' = Progress(w) /\ Error' = Error
  BY AnswersGrow DEF Error
<1>2. Ordered(w) => Ordered(w)'
  BY DEF Ordered
<1>3. Sampling(w) => Sampling(w)'
  BY <1>1 DEF Sampling, Quiet
<1>4. Replied(w) => Replied(w)'
  BY <1>1 DEF Replied, Told
<1>5. Fallen(w) => Fallen(w)'
  BY <1>1 DEF Fallen, Quiet, Lost
<1> QED BY <1>2, <1>3, <1>4, <1>5 DEF AtWork

LEMMA Heard ==
  ASSUME NEW w \in EnvWorkers, active'[w] = active[w], punctual' = punctual, round' = round,
         stopping => stopping', process' = process, job' = job, weights' = weights,
         to_worker'[w] = to_worker[w], NEW left, from_worker'[w] = left, OnItsWay(w, left)
  PROVE  AtWork(w)'
<1>1. AnswersOf(w) \subseteq AnswersOf(w)' /\ Progress(w)' = Progress(w) /\ Error' = Error
  BY AnswersGrow DEF Error
<1>2. CASE process[w] \in {"reported", "complete", "late"}
  <2>1. Sampling(w)'
    BY <1>2 DEF OnItsWay, Sampling, Quiet
  <2> QED BY <2>1 DEF AtWork
<1>3. CASE process[w] = "waiting"
  <2>1. PICK m \in AnswersOf(w) : left = <<m>>
    BY <1>3 DEF OnItsWay
  <2>2. m \in AnswersOf(w)' /\ from_worker'[w] = <<m>>
    BY <1>1, <2>1
  <2>3. to_worker'[w] = <<>> /\ weights'[w] = round' /\ process'[w] = "waiting"
    BY <1>3 DEF OnItsWay
  <2>4. Replied(w)'
    BY <2>2, <2>3 DEF Replied, Told
  <2> QED BY <2>4 DEF AtWork
<1>4. CASE process[w] = "exited"
  <2>1. CASE left \in {<<>>, <<Error>>}
    BY <1>1, <1>4, <2>1 DEF AtWork, Fallen, Quiet
  <2>2. CASE left \notin {<<>>, <<Error>>}
    <3>1. PICK m \in AnswersOf(w) : left = <<m>> \/ left = <<m, Error>>
      BY <1>4, <2>2 DEF OnItsWay
    <3>2. m \in AnswersOf(w)' /\ (from_worker'[w] = <<m>> \/ from_worker'[w] = <<m, Error>>)
      BY <1>1, <3>1
    <3>3. Fallen(w)'
      BY <1>1, <1>4, <3>2 DEF Fallen, Lost
    <3> QED BY <3>3 DEF AtWork
  <2> QED BY <2>1, <2>2
<1> QED BY <1>2, <1>3, <1>4 DEF OnItsWay

\* The jobs that a pass gives out.
LEMMA GivenOut ==
  ASSUME RolloutTypeOK, NEW free \in SUBSET Used(total),
         NEW given, given = {w \in free : dispatched + Place(free, w) <= total}
  PROVE  /\ dispatched + Cardinality(given) \in 0..total /\ Cardinality(given) \in Nat
         /\ \A w \in given : Place(free, w) \in 1..Cardinality(given)
         /\ \A i \in 1..Cardinality(given) : \E w \in given : Place(free, w) = i
         /\ \A v \in given, w \in given : Place(free, v) = Place(free, w) => v = w
         /\ free # given => dispatched + Cardinality(given) = total
<1>1. /\ total \in Nat /\ dispatched \in Nat /\ dispatched <= total
  BY TypesOf
<1>2. free \in SUBSET Nat /\ IsFiniteSet(free)
  <2>1. NumEnvs \in Int /\ 1 \in Int
    BY RolloutConstants
  <2>2. IsFiniteSet(1..NumEnvs)
    BY <2>1, FS_Interval
  <2>3. free \subseteq 1..NumEnvs
    BY DEF Used, EnvWorkers
  <2>4. IsFiniteSet(free)
    BY <2>2, <2>3, FS_Subset
  <2> QED BY <2>1, <2>3, <2>4
<1> DEFINE left == total - dispatched
<1>3. left \in Nat /\ \A i \in Nat : dispatched + i <= total <=> i <= left
  BY <1>1
<1>4. \A w \in free : Place(free, w) \in Nat
  <2>1. Cardinality(free) \in Nat /\ \A w \in free : Place(free, w) \in 1..Cardinality(free)
    BY <1>2, PlaceIs
  <2> QED BY <2>1
<1> HIDE DEF left
<1>5. given = {w \in free : Place(free, w) <= left}
  BY <1>3, <1>4
<1>6. /\ Cardinality(given) \in 0..left
      /\ \A w \in given : Place(free, w) \in 1..Cardinality(given)
      /\ \A i \in 1..Cardinality(given) : \E w \in given : Place(free, w) = i
      /\ free # given => Cardinality(given) = left
  BY <1>2, <1>3, <1>5, FirstOnes
<1>7. \A v \in given, w \in given : Place(free, v) = Place(free, w) => v = w
  <2>1. \A v \in free, w \in free : Place(free, v) = Place(free, w) => v = w
    BY <1>2, PlaceIs
  <2> QED BY <1>5, <2>1
<1> DEFINE c == Cardinality(given)
<1>8. c \in 0..left /\ (free # given => c = left)
  BY <1>6
<1> HIDE DEF c
<1>9. dispatched + c \in 0..total /\ c \in Nat /\ (free # given => dispatched + c = total)
  BY <1>1, <1>8 DEF left
<1> QED BY <1>6, <1>7, <1>9 DEF c

\* One pass of the loop, unless something it reads is broken.
LEMMA PassKeepsRound ==
  ASSUME RolloutInv, Pass, \A w \in Answered : ~Broken(w)
  PROVE  RolloutInv'
<1> DEFINE idle == KeptBy \cup DroppedBy
           free == {w \in Used(total) : w \in idle \/ active[w] = 0}
           due == {w \in free : dispatched + Place(free, w) <= total}
           given == IF stopping' THEN {} ELSE due
           number(w) == dispatched + Place(free, w)
           order(w) == <<"collect", number(w), 0>>
           barrier == dynamic /\ completed' = Used(total)
<1>1. /\ from_worker' = [w \in EnvWorkers |->
             IF w \in Answered THEN Tail(from_worker[w]) ELSE from_worker[w]]
      /\ trajectories' = trajectories \cup {<<active[w], Message(w)[3]>> : w \in KeptBy}
      /\ completed' = completed \cup KeptBy
      /\ discarded' = discarded \cup {active[w] : w \in DroppedBy}
      /\ stopping' = (stopping \/ barrier)
      /\ round_finished' = (round_finished \/ barrier)
      /\ dispatched' = dispatched + Cardinality(given)
      /\ active' = [w \in EnvWorkers |->
             IF w \in given THEN number(w) ELSE IF w \in idle THEN 0 ELSE active[w]]
      /\ to_worker' = [w \in EnvWorkers |->
             IF w \in given THEN Append(to_worker[w], order(w)) ELSE to_worker[w]]
      /\ (IF \E w \in given : process[w] = "exited" THEN Raise ELSE UNCHANGED parent)
  BY DEF Pass, Place, Before
<1>2. /\ parent = "collecting" /\ RoundIsOn /\ round' = round /\ dynamic' = dynamic /\ total' = total
      /\ ready' = ready /\ stop_event' = stop_event /\ process' = process /\ job' = job
      /\ weights' = weights /\ punctual' = punctual
  BY DEF Pass, RoundIsOn, samplingVars
<1>3. /\ RolloutTypeOK /\ PipesAre /\ Accounts /\ ~stop_event /\ ready = EnvWorkers
      /\ \A w \in EnvWorkers : IF active[w] = 0 THEN AtRest(w) ELSE AtWork(w)
  BY <1>2 DEF RolloutInv, Protocol
<1>4. \A w \in Answered :
        /\ w \in EnvWorkers /\ active[w] # 0
        /\ \/ /\ w \notin KeptBy /\ w \notin DroppedBy
              /\ OnItsWay(w, Tail(from_worker[w]))
           \/ /\ w \in KeptBy /\ w \notin DroppedBy
              /\ active[w] \in punctual /\ Message(w)[3] = round
              /\ HasAnswered(w, Tail(from_worker[w]))
           \/ /\ w \notin KeptBy /\ w \in DroppedBy
              /\ active[w] \notin punctual /\ stopping
              /\ HasAnswered(w, Tail(from_worker[w]))
  BY <1>2, PassReads
<1>5. KeptBy \subseteq Answered /\ DroppedBy \subseteq Answered
  BY DEF KeptBy, DroppedBy, Answers
<1>6. /\ \A w \in KeptBy : w \in EnvWorkers /\ active[w] # 0 /\ active[w] \in punctual
                           /\ Message(w)[3] = round
      /\ \A w \in DroppedBy : w \in EnvWorkers /\ active[w] # 0 /\ active[w] \notin punctual
                              /\ stopping
      /\ \A w \in idle : w \in Answered /\ HasAnswered(w, Tail(from_worker[w]))
      /\ \A w \in Answered \ idle : OnItsWay(w, Tail(from_worker[w]))
  <2>1. \A w \in KeptBy : w \in EnvWorkers /\ active[w] # 0 /\ active[w] \in punctual
                           /\ Message(w)[3] = round
    BY <1>4, <1>5
  <2>2. \A w \in DroppedBy : w \in EnvWorkers /\ active[w] # 0 /\ active[w] \notin punctual
                              /\ stopping
    BY <1>4, <1>5
  <2>3. \A w \in idle : w \in Answered /\ HasAnswered(w, Tail(from_worker[w]))
    BY <1>4, <1>5
  <2>4. \A w \in Answered \ idle : OnItsWay(w, Tail(from_worker[w]))
    BY <1>4
  <2> HIDE DEF idle
  <2> QED BY <2>1, <2>2, <2>3, <2>4
<1>7. /\ total \in Nat /\ dispatched \in Nat /\ dispatched <= total
      /\ \A w \in EnvWorkers : active[w] \in Nat
      /\ Used(total) \subseteq EnvWorkers /\ Used(total)' = Used(total)
  BY <1>2, <1>3, TypesOf DEF Used
<1>8. /\ dispatched + Cardinality(due) \in 0..total /\ Cardinality(due) \in Nat
      /\ \A w \in due : Place(free, w) \in 1..Cardinality(due)
      /\ \A i \in 1..Cardinality(due) : \E w \in due : Place(free, w) = i
      /\ \A v \in due, w \in due : Place(free, v) = Place(free, w) => v = w
      /\ free # due => dispatched + Cardinality(due) = total
  BY <1>3, GivenOut
<1> DEFINE n == Cardinality(given)
<1>9. /\ n \in Nat /\ dispatched + n \in 0..total
      /\ \A w \in given : Place(free, w) \in 1..n
      /\ \A i \in 1..n : \E w \in given : Place(free, w) = i
      /\ \A v \in given, w \in given : Place(free, v) = Place(free, w) => v = w
  <2>1. CASE stopping'
    <3>1. given = {} /\ n = 0
      BY <2>1, FS_EmptySet
    <3>2. dispatched + 0 \in 0..total /\ 1..0 = {}
      BY <1>7
    <3> QED BY <3>1, <3>2
  <2>2. CASE ~stopping'
    <3>1. given = due
      BY <2>2
    <3> HIDE DEF due, free
    <3> QED BY <1>8, <3>1
  <2> QED BY <2>1, <2>2
<1>10. \A w \in given : number(w) \in 1..(dispatched + n) /\ dispatched < number(w)
  <2> SUFFICES ASSUME NEW w \in given PROVE number(w) \in 1..(dispatched + n) /\ dispatched < number(w)
    OBVIOUS
  <2> DEFINE p == Place(free, w)
  <2>1. p \in 1..n
    BY <1>9
  <2> HIDE DEF p, n
  <2>2. dispatched + p \in 1..(dispatched + n) /\ dispatched < dispatched + p
    BY <1>7, <1>9, <2>1
  <2> QED BY <2>2 DEF p
\* A job is given to a worker that has just answered.
<1>11. \A w \in given : w \in idle /\ w \in Used(total) /\ ~stopping'
  <2> SUFFICES ASSUME NEW w \in given PROVE w \in idle /\ w \in Used(total) /\ ~stopping'
    OBVIOUS
  <2>1. w \in Used(total) /\ ~stopping' /\ (w \in idle \/ active[w] = 0) /\ w \in due
    OBVIOUS
  <2>2. ~stopping
    BY <1>1, <2>1
  <2>3. ASSUME active[w] = 0 PROVE FALSE
    <3>1. dispatched = total
      BY <1>2, <1>3, <2>1, <2>2, <2>3 DEF Accounts
    <3>2. dispatched < number(w) /\ number(w) <= total /\ number(w) \in Nat
      <4>1. number(w) \in 1..(dispatched + n) /\ dispatched < number(w)
        BY <1>10
      <4>2. number(w) <= total
        BY <2>1
      <4> HIDE DEF number, n
      <4> QED BY <1>7, <1>9, <4>1, <4>2
    <3> HIDE DEF number
    <3> QED BY <1>7, <3>1, <3>2
  <2> QED BY <2>1, <2>3
<1> HIDE DEF n
<1>12. n = Cardinality(given)
  BY DEF n
<1>13. ASSUME ~stopping', NEW w \in Used(total), w \in idle, w \notin given
       PROVE  dispatched + n = total
  <2>1. w \in free /\ given = due
    BY <1>13
  <2>2. w \notin due
    BY <1>13, <2>1
  <2>3. free # due
    BY <2>1, <2>2
  <2> QED BY <1>8, <1>12, <2>1, <2>3
<1> HIDE DEF due, free, given, number, idle
<1>14. /\ \A w \in given : active'[w] = number(w)
       /\ \A w \in EnvWorkers \ given : active'[w] = IF w \in idle THEN 0 ELSE active[w]
       /\ given \subseteq EnvWorkers
  BY <1>1, <1>7, <1>11
<1>15. \A w \in EnvWorkers :
         \/ w \in given /\ active'[w] = number(w)
         \/ w \in idle /\ active'[w] = 0
         \/ w \notin idle /\ w \notin given /\ active'[w] = active[w]
  BY <1>11, <1>14
<1>16. stopping => stopping'
  BY <1>1
<1>17. RolloutTypeOK'
  <2>1. total <= MaxJobs /\ MaxJobs \in Nat
    BY <1>3, <1>7, MaxJobsIs DEF RolloutTypeOK
  <2>2. dispatched' \in 0..total'
    BY <1>1, <1>2, <1>9, <1>12
  <2>3. \A w \in EnvWorkers : active'[w] \in 0..MaxJobs
    <3>1. \A w \in given : number(w) \in 0..MaxJobs
      BY <1>7, <1>9, <1>10, <2>1
    <3>2. 0 \in 0..MaxJobs /\ \A w \in EnvWorkers : active[w] \in 0..MaxJobs
      BY <1>3, <2>1 DEF RolloutTypeOK
    <3> QED BY <1>15, <3>1, <3>2
  <2>4. active' \in [EnvWorkers -> 0..MaxJobs]
    BY <1>1, <2>3
  <2>5. \A w \in EnvWorkers : active[w] # 0 => active[w] \in 1..MaxJobs
    BY <1>3 DEF RolloutTypeOK
  <2>6. discarded' \subseteq 1..MaxJobs
    BY <1>1, <1>3, <1>6, <2>5 DEF RolloutTypeOK
  <2>7. round \in 1..MaxRounds
    BY <1>2, <1>3 DEF RolloutTypeOK, Accounts
  <2>8. trajectories' \subseteq (1..MaxJobs) \X (1..MaxRounds)
    BY <1>1, <1>3, <1>6, <2>5, <2>7 DEF RolloutTypeOK
  <2>9. completed' \subseteq EnvWorkers
    BY <1>1, <1>3, <1>6 DEF RolloutTypeOK
  <2>10. /\ stopping' \in BOOLEAN /\ round_finished' \in BOOLEAN
         /\ parent' \in {"collecting", "raised"}
    BY <1>1, <1>2, <1>3 DEF RolloutTypeOK, Raise
  <2> QED BY <1>2, <1>3, <2>2, <2>4, <2>6, <2>8, <2>9, <2>10 DEF RolloutTypeOK
<1>18. PipesAre'
  <2>1. \A w \in EnvWorkers : to_worker[w] \in Seq(Orders)
    BY <1>3 DEF PipesAre
  <2>2. \A w \in given : order(w) \in Orders
    <3>1. total <= MaxJobs /\ MaxJobs \in Nat /\ MaxRounds \in Nat
      BY <1>3, <1>7, MaxJobsIs, RolloutConstants DEF RolloutTypeOK
    <3>2. \A w \in given : number(w) \in 1..MaxJobs
      BY <1>7, <1>9, <1>10, <3>1
    <3>3. 0 \in 0..MaxRounds
      BY <3>1
    <3> QED BY <3>2, <3>3 DEF Orders
  <2> HIDE DEF order
  <2>3. \A w \in given : Append(to_worker[w], order(w)) \in Seq(Orders)
    BY <1>14, <2>1, <2>2, AppendProperties
  <2>4. to_worker' \in [EnvWorkers -> Seq(Orders)]
    BY <1>1, <2>1, <2>3
  <2> QED BY <1>1, <2>4 DEF PipesAre
<1>19. CASE \E w \in given : process[w] = "exited"
  <2>1. parent' = "raised"
    BY <1>1, <1>19 DEF Raise
  <2> QED BY <1>2, <1>3, <1>17, <1>18, <2>1, Over
<1>20. CASE ~\E w \in given : process[w] = "exited"
  <2>1. parent' = "collecting"
    BY <1>1, <1>2, <1>20
  <2>2. ASSUME NEW w \in given PROVE active'[w] # 0 /\ AtWork(w)'
    <3>1. /\ w \in EnvWorkers /\ w \in Answered /\ active'[w] = number(w)
          /\ HasAnswered(w, Tail(from_worker[w])) /\ process[w] # "exited"
      BY <1>6, <1>11, <1>14, <1>20
    <3>2. process[w] = "waiting" /\ to_worker[w] = <<>> /\ weights[w] = round
          /\ Tail(from_worker[w]) = <<>>
      BY <3>1 DEF HasAnswered
    <3>3. from_worker'[w] = <<>> /\ to_worker'[w] = <<<<"collect", number(w), 0>>>>
      <4>1. Append(<<>>, order(w)) = <<order(w)>>
        BY Tuples
      <4> QED BY <1>1, <3>1, <3>2, <4>1
    <3>4. number(w) # 0 /\ number(w) \notin punctual
      <4>1. punctual \subseteq 1..dispatched
        BY <1>2, <1>3 DEF Accounts
      <4> QED BY <1>7, <1>9, <1>10, <4>1
    <3>5. Ordered(w)'
      BY <1>2, <3>1, <3>2, <3>3, <3>4 DEF Ordered
    <3> QED BY <3>1, <3>4, <3>5 DEF AtWork
  <2>3. ASSUME NEW w \in EnvWorkers, w \notin given, w \in idle PROVE active'[w] = 0 /\ AtRest(w)'
    <3>1. HasAnswered(w, Tail(from_worker[w])) /\ w \in Answered
      BY <1>6, <2>3
    <3>2. from_worker'[w] = Tail(from_worker[w]) /\ to_worker'[w] = to_worker[w]
      BY <1>1, <2>3, <3>1
    <3>3. AtRest(w)'
      BY <1>2, <3>1, <3>2 DEF HasAnswered, AtRest, Error
    <3> QED BY <1>14, <2>3, <3>3
  <2>4. ASSUME NEW w \in EnvWorkers, w \notin given, w \notin idle
        PROVE  IF active'[w] = 0 THEN AtRest(w)' ELSE AtWork(w)'
    <3>1. active'[w] = active[w] /\ to_worker'[w] = to_worker[w]
      BY <1>1, <1>14, <2>4
    <3>2. CASE w \in Answered
      <4>1. OnItsWay(w, Tail(from_worker[w])) /\ active[w] # 0
        BY <1>4, <1>6, <2>4, <3>2
      <4>2. from_worker'[w] = Tail(from_worker[w])
        BY <1>1, <3>2
      <4>3. AtWork(w)'
        BY <1>2, <1>16, <3>1, <4>1, <4>2, Heard
      <4> QED BY <3>1, <4>1, <4>3
    <3>3. CASE w \notin Answered
      <4>1. from_worker'[w] = from_worker[w]
        BY <1>1, <3>3
      <4>2. CASE active[w] = 0
        <5>1. AtRest(w)
          BY <1>3, <4>2
        <5>2. AtRest(w)'
          BY <1>2, <1>7, <3>1, <4>1, <5>1 DEF AtRest, Error
        <5> QED BY <3>1, <4>2, <5>2
      <4>3. CASE active[w] # 0
        <5>1. AtWork(w)
          BY <1>3, <4>3
        <5>2. AtWork(w)'
          BY <1>2, <1>16, <3>1, <4>1, <5>1, Unheard
        <5> QED BY <3>1, <4>3, <5>2
      <4> QED BY <4>2, <4>3
    <3> QED BY <3>2, <3>3
  <2>5. Protocol'
    <3>1. \A w \in EnvWorkers : IF active'[w] = 0 THEN AtRest(w)' ELSE AtWork(w)'
      BY <1>14, <2>2, <2>3, <2>4
    <3> QED BY <1>2, <1>3, <2>1, <3>1 DEF Protocol
  <2>6. Accounts'
    <3>0. /\ total > 0 /\ round > 0
          /\ \A w \in EnvWorkers : active[w] # 0 => w \in Used(total)
          /\ \A v, w \in EnvWorkers : active[v] = active[w] /\ active[v] # 0 => v = w
          /\ \A w \in EnvWorkers : active[w] <= dispatched
          /\ \A w \in EnvWorkers : active[w] # 0 => active[w] \notin Collected \cup discarded
          /\ \A j \in 1..dispatched : j \in Collected \cup discarded \/ \E w \in EnvWorkers : active[w] = j
          /\ Collected \subseteq punctual /\ discarded \cap punctual = {}
          /\ punctual \subseteq 1..dispatched /\ discarded \subseteq 1..dispatched
          /\ \A j \in punctual : j \in Collected \/ \E w \in EnvWorkers : active[w] = j
          /\ \A r \in trajectories : r[2] = round
          /\ completed \subseteq Used(total)
          /\ stopping => completed = Used(total) /\ dynamic
          /\ round_finished = stopping
          /\ ~stopping => /\ discarded = {}
                          /\ \A w \in Used(total) : active[w] # 0 \/ w \in completed
                          /\ (\E w \in Used(total) : active[w] = 0) => dispatched = total
      BY <1>2, <1>3 DEF Accounts
    <3>1. Collected' = Collected \cup {active[w] : w \in KeptBy}
      <4> DEFINE result(w) == <<active[w], Message(w)[3]>>
                 added == {result(w) : w \in KeptBy}
      <4>1. \A w : result(w)[1] = active[w]
        OBVIOUS
      <4>2. Collected' = {r[1] : r \in trajectories \cup added}
        BY <1>1 DEF Collected
      <4>3. \A w \in KeptBy : result(w) \in added
        OBVIOUS
      <4>4. \A r \in added : \E w \in KeptBy : r = result(w)
        OBVIOUS
      <4> HIDE DEF result, added
      <4>5. {r[1] : r \in added} = {active[w] : w \in KeptBy}
        <5>1. \A x \in {r[1] : r \in added} : x \in {active[w] : w \in KeptBy}
          BY <4>1, <4>4
        <5>2. \A x \in {active[w] : w \in KeptBy} : x \in {r[1] : r \in added}
          BY <4>1, <4>3
        <5> QED BY <5>1, <5>2
      <4>6. {r[1] : r \in trajectories \cup added}
              = {r[1] : r \in trajectories} \cup {r[1] : r \in added}
        OBVIOUS
      <4> QED BY <4>2, <4>5, <4>6 DEF Collected
    <3>2. /\ total' > 0 /\ round' > 0
          /\ \A w \in EnvWorkers : active'[w] # 0 => w \in Used(total)'
      BY <1>2, <1>7, <1>11, <1>15, <3>0
    <3>3. ASSUME NEW v \in EnvWorkers, NEW w \in EnvWorkers, active'[v] = active'[w], active'[v] # 0
          PROVE  v = w
      <4>1. ASSUME NEW x \in given, NEW y \in EnvWorkers PROVE number(x) # active[y]
        BY <1>7, <1>9, <1>10, <3>0
      <4>2. CASE v \in given /\ w \in given
        <5>1. number(v) = number(w)
          BY <1>14, <3>3, <4>2
        <5>2. Place(free, v) \in Nat /\ Place(free, w) \in Nat
          BY <1>9, <4>2
        <5>3. Place(free, v) = Place(free, w)
          BY <1>7, <5>1, <5>2 DEF number
        <5> QED BY <1>9, <4>2, <5>3
      <4>3. CASE v \in given /\ w \notin given
        BY <1>14, <1>15, <3>3, <4>1, <4>3
      <4>4. CASE v \notin given /\ w \in given
        BY <1>14, <1>15, <3>3, <4>1, <4>4
      <4>5. CASE v \notin given /\ w \notin given
        BY <1>15, <3>0, <3>3, <4>5
      <4> QED BY <4>2, <4>3, <4>4, <4>5
    <3>4. \A w \in EnvWorkers : active'[w] <= dispatched'
      <4>1. dispatched' = dispatched + n
        BY <1>1, <1>12
      <4>2. \A w \in EnvWorkers : active[w] <= dispatched + n /\ 0 <= dispatched + n
        BY <1>7, <1>9, <3>0
      <4>3. \A w \in given : number(w) <= dispatched + n
        BY <1>7, <1>9, <1>10
      <4> QED BY <1>15, <4>1, <4>2, <4>3
    <3>5. \A w \in EnvWorkers : active'[w] # 0 => active'[w] \notin Collected' \cup discarded'
      <4> SUFFICES ASSUME NEW w \in EnvWorkers, active'[w] # 0
                   PROVE  active'[w] \notin Collected' /\ active'[w] \notin discarded'
        OBVIOUS
      <4>1. CASE w \in given
        <5>1. active'[w] = number(w) /\ number(w) \notin 1..dispatched
          BY <1>7, <1>9, <1>10, <1>14, <4>1
        <5>2. Collected \cup discarded \subseteq 1..dispatched
          BY <3>0
        <5>3. \A v \in KeptBy \cup DroppedBy : active[v] \in 1..dispatched
          BY <1>6, <1>7, <3>0
        <5> QED BY <1>1, <3>1, <5>1, <5>2, <5>3
      <4>2. CASE w \notin given
        <5>1. w \notin idle /\ active'[w] = active[w]
          BY <1>15, <4>2
        <5>2. \A v \in KeptBy \cup DroppedBy : active[v] # active[w]
          BY <1>6, <3>0, <5>1 DEF idle
        <5> QED BY <1>1, <3>0, <3>1, <5>1, <5>2
      <4> QED BY <4>1, <4>2
    <3>6. ASSUME NEW j \in 1..dispatched'
          PROVE  j \in Collected' \cup discarded' \/ \E w \in EnvWorkers : active'[w] = j
      <4>1. CASE j \in 1..dispatched
        <5>1. CASE j \in Collected \cup discarded
          BY <1>1, <3>1, <5>1
        <5>2. CASE \E w \in EnvWorkers : active[w] = j
          <6>1. PICK w \in EnvWorkers : active[w] = j
            BY <5>2
          <6>2. CASE w \in idle
            BY <1>1, <3>1, <6>1, <6>2 DEF idle
          <6>3. CASE w \notin idle
            BY <1>11, <1>14, <6>1, <6>3
          <6> QED BY <6>2, <6>3
        <5> QED BY <3>0, <4>1, <5>1, <5>2
      <4>2. CASE j \notin 1..dispatched
        <5>1. j - dispatched \in 1..n
          BY <1>1, <1>7, <1>9, <1>12, <4>2
        <5>2. PICK w \in given : Place(free, w) = j - dispatched
          BY <1>9, <5>1
        <5>3. number(w) = j
          BY <1>7, <5>2 DEF number
        <5> QED BY <1>14, <5>3
      <4> QED BY <4>1, <4>2
    <3>7. Collected' \subseteq punctual' /\ discarded' \cap punctual' = {}
      <4>1. {active[w] : w \in KeptBy} \subseteq punctual
        BY <1>6
      <4>2. {active[w] : w \in DroppedBy} \cap punctual = {}
        BY <1>6
      <4>3. Collected \subseteq punctual /\ discarded \cap punctual = {} /\ punctual' = punctual
        BY <1>2, <3>0
      <4>4. Collected' \subseteq punctual'
        BY <3>1, <4>1, <4>3
      <4>5. discarded' \cap punctual' = {}
        BY <1>1, <4>2, <4>3
      <4> QED BY <4>4, <4>5
    <3>8. punctual' \subseteq 1..dispatched' /\ discarded' \subseteq 1..dispatched'
      <4>1. dispatched' = dispatched + n
        BY <1>1, <1>12
      <4>2. 1..dispatched \subseteq 1..dispatched'
        BY <1>7, <1>9, <4>1
      <4>3. \A w \in DroppedBy : active[w] \in 1..dispatched
        BY <1>6, <1>7, <3>0
      <4> QED BY <1>1, <1>2, <3>0, <4>2, <4>3
    <3>9. ASSUME NEW j \in punctual' PROVE j \in Collected' \/ \E w \in EnvWorkers : active'[w] = j
      <4>1. CASE j \in Collected
        BY <3>1, <4>1
      <4>2. CASE \E w \in EnvWorkers : active[w] = j
        <5>1. PICK w \in EnvWorkers : active[w] = j
          BY <4>2
        <5>2. CASE w \in idle
          BY <1>2, <1>6, <3>1, <5>1, <5>2 DEF idle
        <5>3. CASE w \notin idle
          BY <1>11, <1>14, <5>1, <5>3
        <5> QED BY <5>2, <5>3
      <4> QED BY <1>2, <3>0, <4>1, <4>2
    <3>10. \A r \in trajectories' : r[2] = round'
      BY <1>1, <1>2, <1>6, <3>0
    <3>11. completed' \subseteq Used(total)'
      BY <1>1, <1>6, <1>7, <3>0
    <3>12. stopping' => completed' = Used(total)' /\ dynamic'
      <4>1. CASE stopping
        BY <1>1, <1>2, <1>7, <3>0, <3>11, <4>1
      <4>2. CASE ~stopping
        BY <1>1, <1>2, <1>7, <4>2
      <4> QED BY <4>1, <4>2
    <3>13. round_finished' = stopping'
      BY <1>1, <3>0
    <3>14. ASSUME ~stopping' PROVE discarded' = {}
      <4>1. ~stopping /\ DroppedBy = {}
        BY <1>6, <1>16, <3>14
      <4> QED BY <1>1, <3>0, <4>1
    <3>15. ASSUME ~stopping', NEW w \in Used(total)' PROVE active'[w] # 0 \/ w \in completed'
      <4>1. w \in EnvWorkers /\ w \in Used(total) /\ ~stopping
        BY <1>7, <1>16, <3>15
      <4>2. CASE w \in given
        <5>1. number(w) # 0
          BY <1>7, <1>9, <1>10, <4>2
        <5> QED BY <1>14, <4>2, <5>1
      <4>3. CASE w \in idle
        BY <1>1, <1>6, <4>1, <4>3 DEF idle
      <4>4. CASE w \notin idle /\ w \notin given
        BY <1>1, <1>15, <3>0, <4>1, <4>4
      <4> QED BY <4>2, <4>3, <4>4
    <3>16. ASSUME ~stopping', NEW w \in Used(total)', active'[w] = 0 PROVE dispatched' = total'
      <4>1. w \in EnvWorkers /\ w \in Used(total) /\ ~stopping
        BY <1>7, <1>16, <3>16
      <4>2. w \notin given
        <5>1. \A v \in given : number(v) # 0
          BY <1>7, <1>9, <1>10
        <5> QED BY <1>14, <3>16, <5>1
      <4>3. CASE w \in idle
        BY <1>1, <1>2, <1>12, <1>13, <3>16, <4>1, <4>2, <4>3
      <4>4. CASE w \notin idle
        <5>1. active[w] = 0
          BY <1>15, <3>16, <4>1, <4>2, <4>4
        <5>2. dispatched = total
          BY <3>0, <4>1, <5>1
        <5>3. n = 0
          BY <1>7, <1>9, <5>2
        <5> QED BY <1>1, <1>2, <1>7, <1>12, <5>2, <5>3
      <4> QED BY <4>3, <4>4
    <3>17. parent' # "returned"
      BY <2>1
    <3> QED BY <3>2, <3>3, <3>4, <3>5, <3>6, <3>7, <3>8, <3>9, <3>10, <3>11, <3>12, <3>13,
               <3>14, <3>15, <3>16, <3>17 DEF Accounts
  <2> QED BY <1>17, <1>18, <2>5, <2>6 DEF RolloutInv
<1> QED BY <1>19, <1>20

LEMMA PassKeeps ==
  ASSUME RolloutInv, Pass
  PROVE  RolloutInv'
<1>1. CASE \E w \in Answered : Broken(w)
  <2>1. /\ parent' = "raised" /\ stop_event' = stop_event /\ ~stop_event
        /\ UNCHANGED <<active, roundVars, to_worker, from_worker, ready, samplingVars>>
    BY <1>1, AtHand DEF Pass, Raise, RolloutInv, Protocol
  <2>2. RolloutTypeOK' /\ PipesAre'
    BY <2>1 DEF RolloutInv, RolloutTypeOK, PipesAre, roundVars, samplingVars
  <2> QED BY <2>1, <2>2, Over
<1>2. CASE ~\E w \in Answered : Broken(w)
  BY <1>2, PassKeepsRound
<1> QED BY <1>1, <1>2

LEMMA RolloutStep == RolloutInv /\ [RolloutNext]_rolloutVars => RolloutInv'
<1> SUFFICES ASSUME RolloutInv, [RolloutNext]_rolloutVars PROVE RolloutInv'
  OBVIOUS
<1>1. ASSUME NEW w \in EnvWorkers, WorkerStep(w) \/ FailWorker(w) PROVE RolloutInv'
  BY <1>1, WorkerReadyKeeps, ReceiveJobKeeps, ReportProgressKeeps, CompleteEpisodeKeeps,
     SendResultKeeps, DiscardEpisodeKeeps, LeaveWorkerKeeps, FailWorkerKeeps DEF WorkerStep
<1>2. ASSUME ParentStep PROVE RolloutInv'
  BY <1>2, ReadReadyKeeps, TerminateWorkerKeeps, StartRoundKeeps, PassKeeps, ReturnBatchKeeps,
     CloseCollectorKeeps, EndCloseKeeps DEF ParentStep
<1>3. CASE CollectAgain \/ CancelCollect
  BY <1>3, CollectAgainKeeps, CancelCollectKeeps
<1>4. CASE UNCHANGED rolloutVars
  <2>1. /\ UNCHANGED <<parent, ready, active, round, dynamic, total, dispatched, trajectories>>
        /\ UNCHANGED <<discarded, completed, stopping, round_finished, stop_event>>
        /\ UNCHANGED <<to_worker, from_worker, process, job, weights, punctual>>
    BY <1>4 DEF rolloutVars, roundVars, samplingVars
  <2>2. RolloutTypeOK' /\ PipesAre'
    BY <2>1 DEF RolloutInv, RolloutTypeOK, PipesAre
  <2>3. Accounts'
    BY <2>1 DEF RolloutInv, Accounts, RoundIsOn, Collected, Used
  <2>4. \A w \in EnvWorkers : /\ AtStart(w)' = AtStart(w) /\ AtRest(w)' = AtRest(w)
                              /\ AtWork(w)' = AtWork(w)
    BY <2>1 DEF AtStart, AtRest, AtWork, Ordered, Sampling, Replied, Fallen, Quiet, Told, Lost,
                AnswersOf, Progress, Error, Used
  <2>5. Protocol'
    BY <2>1, <2>4 DEF RolloutInv, Protocol, RoundIsOn
  <2> QED BY <2>2, <2>3, <2>5 DEF RolloutInv
<1> QED BY <1>1, <1>2, <1>3, <1>4 DEF RolloutNext

LEMMA RolloutShows == RolloutInv => RolloutTypeOK /\ RoundsAreExact
<1> SUFFICES ASSUME RolloutInv PROVE RoundsAreExact
  BY DEF RolloutInv
<1>1. ASSUME parent = "returned" PROVE BatchIsExact
  <2>1. RoundIsOn /\ \A w \in EnvWorkers : active[w] = 0
    BY <1>1 DEF RolloutInv, Accounts, RoundIsOn
  <2>2. \A w \in EnvWorkers : active[w] # 0 <=> FALSE
    BY <2>1
  <2>3. /\ Used(total) \subseteq EnvWorkers /\ 1 \in Used(total)
        /\ dispatched \in Nat /\ total \in Nat /\ total > 0
    <3>1. 1 \in EnvWorkers
      BY RolloutConstants DEF EnvWorkers
    <3>2. total \in Nat /\ dispatched \in Nat /\ total > 0
      BY <2>1, TypesOf DEF RolloutInv, Accounts
    <3>3. 1 <= total
      BY <3>2
    <3> QED BY <3>1, <3>2, <3>3 DEF Used
  <2>4. /\ \A j \in 1..dispatched : j \in Collected \cup discarded \/ \E w \in EnvWorkers : active[w] = j
        /\ Collected \subseteq punctual /\ discarded \cap punctual = {}
        /\ punctual \subseteq 1..dispatched /\ discarded \subseteq 1..dispatched
        /\ \A j \in punctual : j \in Collected \/ \E w \in EnvWorkers : active[w] = j
        /\ \A r \in trajectories : r[2] = round
        /\ completed \subseteq Used(total)
        /\ stopping => completed = Used(total) /\ dynamic
        /\ ~stopping => /\ discarded = {}
                        /\ \A w \in Used(total) : active[w] # 0 \/ w \in completed
                        /\ (\E w \in Used(total) : active[w] = 0) => dispatched = total
    BY <2>1 DEF RolloutInv, Accounts
  <2>5. \A j \in Nat \ {0} : ~\E w \in EnvWorkers : active[w] = j
    BY <2>1
  <2>6. Collected \cup discarded = 1..dispatched /\ Collected \cap discarded = {}
        /\ punctual = Collected
    <3>1. 1..dispatched \subseteq Nat \ {0}
      BY <2>3
    <3>2. \A j \in 1..dispatched : ~\E w \in EnvWorkers : active[w] = j
      BY <2>5, <3>1
    <3> QED BY <2>4, <3>2
  <2>7. completed = Used(total)
    BY <2>1, <2>3, <2>4
  <2>8. ~dynamic => Collected = 1..total
    <3>1. (\E w \in Used(total) : active[w] = 0)
      BY <2>1, <2>3
    <3> QED BY <2>4, <2>6, <3>1
  <2> QED BY <2>4, <2>6, <2>7, <2>8 DEF BatchIsExact
<1>2. BatchIsExact
  BY <1>1 DEF BatchIsExact
<1>3. NoStaleMessages
  <2> SUFFICES ASSUME parent = "returned", NEW w \in EnvWorkers PROVE AtRest(w)
    BY DEF NoStaleMessages, AtRest
  <2>1. RoundIsOn /\ active[w] = 0
    BY DEF RolloutInv, Accounts, RoundIsOn
  <2> QED BY <2>1, AtHand
<1>4. AnswersAreCurrent
  <2> SUFFICES ASSUME parent = "collecting", NEW w \in Answered, ~Broken(w)
               PROVE  Message(w)[1] # "ready" /\ Message(w)[2] = active[w]
    BY DEF AnswersAreCurrent
  <2>1. w \in EnvWorkers /\ active[w] # 0 /\ RoundIsOn
    BY DEF Answered, RoundIsOn
  <2>2. Message(w) = Progress(w) \/ Message(w) \in AnswersOf(w)
    BY <2>1, Reading
  <2>3. Progress(w)[1] = "progress" /\ Progress(w)[2] = active[w]
    BY DEF Progress
  <2>4. \A m \in AnswersOf(w) : m[1] # "ready" /\ m[2] = active[w]
    BY <2>1, AnswerIs
  <2> QED BY <2>2, <2>3, <2>4
<1> QED BY <1>2, <1>3, <1>4 DEF RoundsAreExact

-----------------------------------------------------------------------------
BackgroundInv == BatchInv /\ BoundsInv /\ RolloutInv /\ PipelineInv

LEMMA BackgroundHolds == PartsSpec => []BackgroundInv
<1>1. PartsInit => BackgroundInv
  BY InitBatch, BoundsStart, RolloutStart, PipelineStart DEF PartsInit, BackgroundInv
<1>2. BackgroundInv /\ [PartsNext]_<<part, vars, batchVars, rolloutVars, pipelineVars>> => BackgroundInv'
  <2> SUFFICES ASSUME BackgroundInv, [PartsNext]_<<part, vars, batchVars, rolloutVars, pipelineVars>>
               PROVE  BackgroundInv'
    OBVIOUS
  <2>1. [BatchNext]_batchVars /\ [RolloutNext]_rolloutVars /\ [PipelineNext]_pipelineVars
    BY DEF PartsNext
  <2> QED BY <2>1, NextBatch, BoundsStep, RolloutStep, PipelineStep DEF BackgroundInv
<1> QED BY <1>1, <1>2, PTL DEF PartsSpec

\* For any number of environments, rounds, jobs and failures of workers, and any number of
\* episodes of training and resumptions: a batch that collect returns accounts for each job that
\* was given out once, made with the weights of its round, no message of a round is left for
\* the next, and an answer is taken for the job it is about (parallel_rollout.py); an episode
\* is learned from once, a snapshot and a checkpoint are of the very episodes they name, and
\* the best policy is the one that was validated best (pipeline.py).
THEOREM EpisodesAreCountedOnce == PartsSpec => []EpisodesCountOnce
<1>1. BackgroundInv => EpisodesCountOnce
  BY RolloutShows, PipelineShows DEF BackgroundInv, EpisodesCountOnce
<1> QED BY <1>1, BackgroundHolds, PTL

\* A batch has no more results than episodes begun, its queue no more events than the maxsize
\* (DockerProxy.py); jobs, workers and counts of the rounds and of the training stay in their
\* bounds.
THEOREM BackgroundIsTyped == PartsSpec => []PartsTypeOK
<1>1. BackgroundInv => PartsTypeOK
  BY BoundsShow, RolloutShows, PipelineShows DEF BackgroundInv, PartsTypeOK
<1> QED BY <1>1, BackgroundHolds, PTL
=============================================================================
