----------------------------- MODULE Snapshots -----------------------------
(***************************************************************************)
(* The frames and metrics of the simulation server (sim_server.py), of     *)
(* which a client wants the newest.  The run thread builds a frame under   *)
(* _env_lock, makes it _latest_frame, and broadcasts it later under        *)
(* _subs_lock; a command of the event loop does the same in between: an    *)
(* injected exception with _env_lock held throughout, an insertion of jobs *)
(* without it.  The event loop also subscribes viewers, under _subs_lock.  *)
(*                                                                         *)
(* The world is the state a frame shows; it and the frames are numbered.   *)
(* A viewer is represented by the last thing put into its queue.  One      *)
(* session is played once, to its end.                                     *)
(***************************************************************************)
EXTENDS Naturals, FiniteSets

CONSTANTS
  Viewers,             \* connections to /stream/state and /stream/metrics
  NoViewer,
  MaxWorld             \* bound on the changes of the world

Builders == {"stepper", "commander"}   \* the run thread, the event loop

ASSUME SnapshotConstants == MaxWorld \in Nat /\ NoViewer \notin Viewers \cup Builders

\* The summary of an episode comes after all metrics.
Summary == MaxWorld + 1

VARIABLES
  world,               \* number of changes of the simulated world
  latest_frame,        \* _latest_frame, 0 for None
  building,            \* building[p]: where p is in building and sending
  frame,               \* frame[p]: the frame it has built
  frame_lock,          \* who holds _env_lock
  subs_lock,           \* the viewer whose subscription holds _subs_lock
  viewers,             \* the subscribed ones
  snapshot,            \* what the subscription is about to put
  shown,               \* shown[v]: the last frame put for v
  metrics_shown,       \* metrics_shown[v]: the last metrics put for v
  ended,               \* where the run thread is in ending the episode
  latest_metrics,      \* _latest_metrics, by the frame they belong to
  summary, stopped,    \* _episode_summary is there; _episode_status is stopped
  overtaken            \* a frame was begun while another was under way, and
                       \* none has been sent alone since

snapshotVars == <<world, latest_frame, building, frame, frame_lock, subs_lock,
                  viewers, snapshot, shown, metrics_shown, ended,
                  latest_metrics, summary, stopped, overtaken>>
frameVars   == <<world, latest_frame, building, frame, frame_lock, overtaken>>
viewerVars  == <<subs_lock, viewers, snapshot, shown, metrics_shown>>
metricsVars == <<ended, latest_metrics, summary, stopped>>

SnapshotInit ==
  /\ world = 0 /\ latest_frame = 0
  /\ building = [p \in Builders |-> "idle"] /\ frame = [p \in Builders |-> 0]
  /\ frame_lock = NoViewer
  /\ subs_lock = NoViewer /\ viewers = {} /\ snapshot = <<0, 0>>
  /\ shown = [v \in Viewers |-> 0] /\ metrics_shown = [v \in Viewers |-> 0]
  /\ ended = "no" /\ latest_metrics = 0 /\ summary = FALSE /\ stopped = FALSE
  /\ overtaken = FALSE

Others(p) == Builders \ {p}

LoopFree == building["commander"] = "idle" /\ subs_lock = NoViewer

-----------------------------------------------------------------------------
(* Frames.                                                                 *)

\* p changes the world and builds a frame of it.
BuildFrame(p, lock) ==
  /\ world < MaxWorld /\ building[p] = "idle"
  /\ world' = world + 1
  /\ frame' = [frame EXCEPT ![p] = world + 1]
  /\ building' = [building EXCEPT ![p] = "built"]
  /\ frame_lock' = lock
  /\ overtaken' = \E q \in Others(p) : building[q] # "idle"
  /\ UNCHANGED <<latest_frame, viewerVars, metricsVars>>

StepFrame == /\ frame_lock = NoViewer /\ ended = "no"
             /\ BuildFrame("stepper", "stepper")

InjectFrame == LoopFree /\ frame_lock = NoViewer /\ BuildFrame("commander", "commander")

\* enqueue_insert_jobs takes no lock for it.
InsertFrame == LoopFree /\ ended = "no" /\ BuildFrame("commander", frame_lock)

\* The run thread leaves the block of _env_lock with it.
SetLatest(p) ==
  /\ building[p] = "built"
  /\ latest_frame' = frame[p]
  /\ building' = [building EXCEPT ![p] = "set"]
  /\ frame_lock' = IF p = "stepper" THEN NoViewer ELSE frame_lock
  /\ UNCHANGED <<world, frame, overtaken, viewerVars, metricsVars>>

SetMetrics ==
  /\ building["stepper"] = "set"
  /\ latest_metrics' = frame["stepper"]
  /\ building' = [building EXCEPT !["stepper"] = "measured"]
  /\ UNCHANGED <<world, frame, latest_frame, frame_lock, overtaken, viewerVars,
                 ended, summary, stopped>>

\* self._broadcast(self._state_subs, ...) under _subs_lock; the run thread sends
\* its metrics in the same block.  (The mutant does not wait for the lock.)
Send(p) ==
  /\ building[p] = IF p = "stepper" THEN "measured" ELSE "set"
  /\ shown' = [v \in Viewers |-> IF v \in viewers THEN frame[p] ELSE shown[v]]
  /\ metrics_shown' = [v \in Viewers |-> IF p = "stepper" /\ v \in viewers
                                         THEN latest_metrics ELSE metrics_shown[v]]
  /\ building' = [building EXCEPT ![p] = "idle"]
  /\ frame_lock' = IF frame_lock = p THEN NoViewer ELSE frame_lock
  /\ UNCHANGED <<world, latest_frame, frame, overtaken, subs_lock, viewers,
                 snapshot, metricsVars>>

SendFrameUnlocked(p) == Send(p)
SendFrame(p) == subs_lock = NoViewer /\ Send(p)

-----------------------------------------------------------------------------
(* The end of an episode.                                                  *)

EpisodeStep(from, to) ==
  /\ building["stepper"] = "idle" /\ frame_lock # "stepper"
  /\ ended = from /\ ended' = to
  /\ UNCHANGED <<world, latest_frame, building, frame, frame_lock, subs_lock,
                 viewers, snapshot, latest_metrics>>

SetSummary == /\ EpisodeStep("no", "summed") /\ latest_metrics # 0
              /\ summary' = TRUE
              /\ UNCHANGED <<stopped, shown, metrics_shown, overtaken>>

SetStopped == /\ EpisodeStep("summed", "stopped")
              /\ stopped' = TRUE
              /\ UNCHANGED <<summary, shown, metrics_shown, overtaken>>

\* Summary and last frame of the run, under _subs_lock: older than the latest if a
\* command has built another since.
SendSummary ==
  /\ subs_lock = NoViewer
  /\ EpisodeStep("stopped", "sent")
  /\ metrics_shown' = [v \in Viewers |-> IF v \in viewers THEN Summary
                                         ELSE metrics_shown[v]]
  /\ shown' = [v \in Viewers |-> IF v \in viewers THEN frame["stepper"] ELSE shown[v]]
  /\ overtaken' = (overtaken \/ frame["stepper"] # latest_frame)
  /\ UNCHANGED <<summary, stopped>>

-----------------------------------------------------------------------------
(* Subscriptions (state and metrics in one).                               *)

\* What subscribe finds: the latest frame; the summary, or else the metrics.
Snapshot == <<latest_frame, IF stopped /\ summary THEN Summary ELSE latest_metrics>>

\* Under the lock: the viewer joins, and the snapshot is read.
ReadSnapshot(v) ==
  /\ LoopFree /\ v \notin viewers
  /\ subs_lock' = v
  /\ viewers' = viewers \cup {v}
  /\ snapshot' = Snapshot
  /\ UNCHANGED <<frameVars, metricsVars, shown, metrics_shown>>

PutSnapshot(v) ==
  /\ subs_lock = v /\ subs_lock' = NoViewer
  /\ shown' = [shown EXCEPT ![v] = snapshot[1]]
  /\ metrics_shown' = [metrics_shown EXCEPT ![v] = snapshot[2]]
  /\ UNCHANGED <<frameVars, metricsVars, viewers, snapshot>>

LeaveView(v) ==
  /\ LoopFree /\ v \in viewers
  /\ viewers' = viewers \ {v}
  /\ shown' = [shown EXCEPT ![v] = 0]
  /\ metrics_shown' = [metrics_shown EXCEPT ![v] = 0]
  /\ UNCHANGED <<frameVars, metricsVars, subs_lock, snapshot>>

SnapshotNext ==
  \/ StepFrame \/ InjectFrame \/ InsertFrame
  \/ \E p \in Builders : SetLatest(p) \/ SendFrame(p)
  \/ SetMetrics \/ SetSummary \/ SetStopped \/ SendSummary
  \/ \E v \in Viewers : ReadSnapshot(v) \/ PutSnapshot(v) \/ LeaveView(v)

SnapshotSpec == SnapshotInit /\ [][SnapshotNext]_snapshotVars

-----------------------------------------------------------------------------
SnapshotTypeOK ==
  /\ world \in 0..MaxWorld /\ latest_frame \in 0..world
  /\ building \in [Builders -> {"idle", "built", "set", "measured"}]
  /\ frame \in [Builders -> 0..world]
  /\ frame_lock \in Builders \cup {NoViewer}
  /\ building["stepper"] = "built" => frame_lock = "stepper"
  /\ subs_lock \in Viewers \cup {NoViewer} /\ viewers \subseteq Viewers
  /\ snapshot \in (0..world) \X (0..world \cup {Summary})
  /\ shown \in [Viewers -> 0..world]
  /\ metrics_shown \in [Viewers -> 0..world \cup {Summary}]
  /\ ended \in {"no", "summed", "stopped", "sent"}
  /\ latest_metrics \in 0..world
  /\ {summary, stopped, overtaken} \subseteq BOOLEAN

AllIdle == subs_lock = NoViewer /\ \A p \in Builders : building[p] = "idle"

\* When nobody is building or sending, every viewer shows the latest frame, and
\* that is the newest, unless the last frames to be built overtook each other:
\* an exception injected between the building of a step's frame and its
\* broadcast leaves the older one on the screens, and so does one between the
\* last step and the end of the episode.  One frame sent alone repairs it.
ScreensAreCurrent ==
  AllIdle /\ ~overtaken =>
    /\ latest_frame = world
    /\ \A v \in viewers : shown[v] = latest_frame

\* The metrics have one writer: outside a step everybody shows the latest, and
\* after an episode its summary, whether subscribed before its end, during it or
\* after it.
MetricsAreCurrent ==
  AllIdle => \A v \in viewers :
    CASE ended = "sent" -> metrics_shown[v] = Summary
      [] ended \in {"no", "summed"} -> metrics_shown[v] = latest_metrics
      [] OTHER -> metrics_shown[v] \in {latest_metrics, Summary}

\* Everybody sees what there is to see.
ViewsAreCurrent == ScreensAreCurrent /\ MetricsAreCurrent
=============================================================================
