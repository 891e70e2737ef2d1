----------------------------- MODULE SimServer -----------------------------
(***************************************************************************)
(* The simulation server (sim_server.py): the event loop, which carries    *)
(* out one command at a time (the handlers are coroutines that never       *)
(* await), and the run threads (_run_loop), of which a join that timed out *)
(* may leave an old one beside the new.  They share the flags of the       *)
(* SimulationManager, the session under _env_lock, and the insertions.     *)
(*                                                                         *)
(* Init is the state after the first create.  What a step does to the      *)
(* factory is Factory's matter; frames and events are EventStream's.       *)
(***************************************************************************)
EXTENDS Naturals, Sequences

CONSTANTS
  Threads,             \* the threads that may be alive at a time
  None,
  Commands,            \* the commands in use, of "stop", "reset" and "create"
  Inserts,             \* the insertion requests that may be made
  MaxSteps,            \* max_steps, or the length of the trace of a replay
  Replay,              \* _replay_enabled
  MaxGenerations       \* bound on _run_generation

ASSUME ServerConstants ==
  /\ Commands \subseteq {"stop", "reset", "create"}
  /\ MaxSteps \in Nat \ {0} /\ Replay \in BOOLEAN /\ MaxGenerations \in Nat

\* Where the event loop may be in a command.
CommandPlaces == {"starting", "look", "join", "joining", "halt", "replace", "start", "clear"}

ASSUME ServerNone ==
  None \notin Threads \cup Inserts \cup {"play", "stop", "reset", "create"} \cup CommandPlaces

VARIABLES
  running, paused, stop_event, pause_event, run_generation,
  thread,              \* _thread
  episode_status

VARIABLES
  command, place,      \* the command the event loop is in, and where
  joined               \* the thread it joins

VARIABLES
  pc, gen,             \* pc[t], gen[t]: control point and generation of t
  record,              \* record[t]: the insertion t has taken from the queue
  env_lock             \* the thread that holds _env_lock (the event loop
                       \* holds it only within one step of this model)

VARIABLES
  step,                \* session.step_index, which stays at MaxSteps
  done,                \* session.done
  session_gen,         \* _run_generation when the session was last replaced
  pending_inserts, accepted,
  installed,           \* the insertions installed in the session
  stale                \* those accepted before the session was replaced

flagVars    == <<running, paused, stop_event, pause_event, thread>>
commandVars == <<command, place, joined, run_generation>>
threadVars  == <<pc, gen, record, env_lock>>
insertVars  == <<pending_inserts, accepted, installed, stale>>
sessionVars == <<step, done, session_gen>>
vars == <<flagVars, episode_status, commandVars, threadVars, sessionVars, insertVars>>

Init ==
  /\ running = FALSE /\ paused = FALSE
  /\ stop_event = TRUE /\ pause_event = TRUE
  /\ run_generation = 1 /\ session_gen = 1 /\ thread = None
  /\ episode_status = "idle"
  /\ command = None /\ place = None /\ joined = None
  /\ pc = [t \in Threads |-> "none"] /\ gen = [t \in Threads |-> 0]
  /\ record = [t \in Threads |-> None]
  /\ env_lock = None
  /\ step = 0 /\ done = FALSE
  /\ pending_inserts = <<>> /\ accepted = {} /\ installed = {} /\ stale = {}

-----------------------------------------------------------------------------
(* The event loop.                                                         *)

Idle == command = None

Resume ==
  /\ Idle /\ running /\ paused
  /\ paused' = FALSE /\ pause_event' = TRUE
  /\ UNCHANGED <<running, stop_event, thread, episode_status, commandVars,
                 threadVars, sessionVars, insertVars>>

\* The first half of play: the thread is made, and put into _thread.
Play(t) ==
  /\ Idle /\ ~running
  /\ pc[t] = "none"
  /\ running' = TRUE /\ paused' = FALSE
  /\ stop_event' = FALSE /\ pause_event' = TRUE
  /\ episode_status' = "running"
  /\ thread' = t
  /\ gen' = [gen EXCEPT ![t] = run_generation]
  /\ command' = "play" /\ place' = "starting"
  /\ UNCHANGED <<joined, run_generation, pc, record, env_lock, sessionVars, insertVars>>

\* self._thread.start: _thread is read again.
StartThread ==
  /\ place = "starting" /\ thread # None
  /\ pc' = [pc EXCEPT ![thread] = "top"]
  /\ command' = None /\ place' = None
  /\ UNCHANGED <<flagVars, episode_status, joined, run_generation, gen, record, env_lock,
                 sessionVars, insertVars>>

\* AttributeError: the thread of a run that has just ended has reset _thread in
\* between; the server is "running" without a thread until it is stopped.
StartRaises ==
  /\ place = "starting" /\ thread = None
  /\ command' = None /\ place' = None
  /\ UNCHANGED <<flagVars, episode_status, joined, run_generation,
                 threadVars, sessionVars, insertVars>>

Pause ==
  /\ Idle
  /\ paused' = TRUE /\ pause_event' = FALSE
  /\ UNCHANGED <<running, stop_event, thread, episode_status, commandVars,
                 threadVars, sessionVars, insertVars>>

\* enqueue_insert_jobs
Insert(i) ==
  /\ Idle /\ running /\ ~Replay
  /\ i \notin accepted
  /\ accepted' = accepted \cup {i}
  /\ pending_inserts' = Append(pending_inserts, i)
  /\ UNCHANGED <<flagVars, episode_status, commandVars, threadVars,
                 sessionVars, installed, stale>>

\* _stop_internal, the common beginning of stop, reset and create.  The mutant
\* forgets that the thread may be paused.
BeginStopPaused(c) ==
  /\ Idle /\ run_generation < MaxGenerations
  /\ command' = c /\ place' = "look"
  /\ run_generation' = run_generation + 1
  /\ stop_event' = TRUE
  /\ UNCHANGED <<running, paused, pause_event, thread, episode_status, joined,
                 threadVars, sessionVars, insertVars>>

BeginStop(c) ==
  /\ Idle /\ run_generation < MaxGenerations
  /\ command' = c /\ place' = "look"
  /\ run_generation' = run_generation + 1
  /\ stop_event' = TRUE /\ pause_event' = TRUE
  /\ UNCHANGED <<running, paused, thread, episode_status, joined,
                 threadVars, sessionVars, insertVars>>

\* The event loop goes on to the next place of its command.
GoOn(next) ==
  /\ place' = next
  /\ UNCHANGED <<flagVars, episode_status, command, run_generation,
                 threadVars, sessionVars, insertVars>>

\* if self._thread:
LookAtThread ==
  /\ place = "look"
  /\ GoOn(IF thread = None THEN "halt" ELSE "join")
  /\ UNCHANGED joined

\* self._thread.join: _thread is read a second time.
Join ==
  /\ place = "join" /\ thread # None
  /\ GoOn("joining")
  /\ joined' = thread

\* AttributeError: the thread has reset _thread in between; the request fails.
JoinRaises ==
  /\ place = "join" /\ thread = None
  /\ command' = None /\ place' = None
  /\ UNCHANGED <<flagVars, episode_status, joined, run_generation,
                 threadVars, sessionVars, insertVars>>

Joined ==
  /\ place = "joining" /\ pc[joined] = "none"
  /\ GoOn("halt")
  /\ joined' = None

\* Where a thread may spend the ten seconds of the join: in a call of a solver,
\* waiting for a thread that is in one, or paused.
Blocked(t) == \/ pc[t] \in {"replan", "step"}
              \/ pc[t] = "lock" /\ env_lock # None
              \/ pc[t] = "wait" /\ ~pause_event

JoinTimesOut ==
  /\ place = "joining" /\ Blocked(joined)
  /\ GoOn("halt")
  /\ joined' = None

Halt ==
  /\ place = "halt"
  /\ running' = FALSE /\ thread' = None
  /\ place' = IF command = "stop" THEN None ELSE "replace"
  /\ command' = IF command = "stop" THEN None ELSE command
  /\ episode_status' = IF command = "stop" THEN "stopped" ELSE episode_status
  /\ UNCHANGED <<paused, stop_event, pause_event, joined, run_generation,
                 threadVars, sessionVars, insertVars>>

\* Mutant: the session is reset without waiting for its user.
ResetSessionUnlocked ==
  /\ command = "reset" /\ place = "replace"
  /\ step' = 0 /\ done' = FALSE /\ session_gen' = run_generation
  /\ installed' = {} /\ pending_inserts' = <<>> /\ stale' = accepted
  /\ episode_status' = "idle"
  /\ command' = None /\ place' = None
  /\ UNCHANGED <<flagVars, joined, run_generation, threadVars, accepted>>

\* The configuration is not valid, or a service does not answer the reset of its
\* solver: the request fails, and what is not replaced yet stays.
ReplaceFails ==
  /\ \/ place = "replace" /\ env_lock = None
     \/ place = "start"
  /\ command' = None /\ place' = None
  /\ UNCHANGED <<flagVars, episode_status, joined, run_generation,
                 threadVars, sessionVars, insertVars>>

\* reset: everything under the lock.
ResetSession ==
  /\ command = "reset" /\ place = "replace" /\ env_lock = None
  /\ step' = 0 /\ done' = FALSE /\ session_gen' = run_generation
  /\ installed' = {} /\ pending_inserts' = <<>> /\ stale' = accepted
  /\ episode_status' = "idle"
  /\ command' = None /\ place' = None
  /\ UNCHANGED <<flagVars, joined, run_generation, threadVars, accepted>>

\* create: the next place, with the manager's own state as it is.
GoOnCreate(next) ==
  /\ place' = next
  /\ UNCHANGED <<flagVars, episode_status, command, joined, run_generation,
                 threadVars, pending_inserts, accepted>>

\* Only the new session itself is put in place under the lock.
NewSession ==
  /\ command = "create" /\ place = "replace" /\ env_lock = None
  /\ step' = 0 /\ done' = FALSE /\ session_gen' = run_generation
  /\ installed' = {} /\ stale' = accepted
  /\ GoOnCreate("start")

\* session.reset, to start a new schedule at the services.
StartSchedule ==
  /\ command = "create" /\ place = "start"
  /\ step' = 0 /\ done' = FALSE
  /\ installed' = {}
  /\ UNCHANGED <<session_gen, stale>>
  /\ GoOnCreate("clear")

ClearManager ==
  /\ command = "create" /\ place = "clear"
  /\ pending_inserts' = <<>>
  /\ episode_status' = "idle"
  /\ command' = None /\ place' = None
  /\ UNCHANGED <<flagVars, joined, run_generation, threadVars, sessionVars,
                 accepted, installed, stale>>

Proceed == \/ StartThread \/ StartRaises
           \/ LookAtThread \/ Join \/ JoinRaises \/ Joined \/ JoinTimesOut
           \/ Halt \/ ResetSession
           \/ NewSession \/ ReplaceFails \/ StartSchedule \/ ClearManager

-----------------------------------------------------------------------------
(* _run_loop.                                                              *)

GivenUp(t) == stop_event \/ gen[t] # run_generation

\* Thread t moves on, and nothing else changes.
Goto(t, next) ==
  /\ pc' = [pc EXCEPT ![t] = next]
  /\ UNCHANGED <<flagVars, episode_status, commandVars, gen, record,
                 sessionVars, insertVars>>

\* Where a thread holds _env_lock.
UnderLock == {"drain", "replan", "step"}

\* Thread t leaves the `with self._env_lock` block.
Leave(t, next) ==
  /\ pc' = [pc EXCEPT ![t] = next]
  /\ env_lock' = None
  /\ UNCHANGED <<thread, paused, pause_event, commandVars, gen, record,
                 session_gen, insertVars>>

Top(t) ==
  /\ pc[t] = "top"
  /\ Goto(t, IF stop_event THEN "finally" ELSE "wait")
  /\ UNCHANGED env_lock

Wake(t) ==
  /\ pc[t] = "wait" /\ pause_event
  /\ Goto(t, IF GivenUp(t) THEN "finally" ELSE "lock")
  /\ UNCHANGED env_lock

Lock(t) ==
  /\ pc[t] = "lock" /\ env_lock = None
  /\ env_lock' = t
  /\ Goto(t, "drain")

\* _drain_insert_queue: one insertion, whose replan calls a service.
TakeInsert(t) ==
  /\ pc[t] = "drain" /\ pending_inserts # <<>>
  /\ record' = [record EXCEPT ![t] = Head(pending_inserts)]
  /\ pending_inserts' = Tail(pending_inserts)
  /\ pc' = [pc EXCEPT ![t] = "replan"]
  /\ UNCHANGED <<flagVars, episode_status, commandVars, gen, env_lock,
                 sessionVars, accepted, installed, stale>>

\* The plan is installed, or the replan fails and the insertion is dropped.
EndReplan(t) ==
  /\ pc[t] = "replan"
  /\ installed' \in {installed, installed \cup {record[t]}}
  /\ record' = [record EXCEPT ![t] = None]
  /\ pc' = [pc EXCEPT ![t] = "drain"]
  /\ UNCHANGED <<flagVars, episode_status, commandVars, gen, env_lock,
                 sessionVars, pending_inserts, accepted, stale>>

Drained(t) == pc[t] = "drain" /\ pending_inserts = <<>>

BreakUnderLock(t) ==
  /\ Drained(t) /\ GivenUp(t)
  /\ Leave(t, "finally")
  /\ UNCHANGED <<running, stop_event, episode_status, step, done>>

EndReplay(t) ==
  /\ Drained(t) /\ ~GivenUp(t)
  /\ Replay /\ step = MaxSteps
  /\ Leave(t, "finally")
  /\ stop_event' = TRUE /\ running' = FALSE
  /\ episode_status' = "replay_exhausted"
  /\ UNCHANGED <<step, done>>

\* Mutant: a thread that waited for the lock does not look again.
BeginStepUnchecked(t) ==
  /\ Drained(t)
  /\ ~(Replay /\ step = MaxSteps)
  /\ Goto(t, "step")
  /\ UNCHANGED env_lock

BeginStep(t) ==
  /\ Drained(t) /\ ~GivenUp(t)
  /\ ~(Replay /\ step = MaxSteps)
  /\ Goto(t, "step")
  /\ UNCHANGED env_lock

\* session.step returns; a thread given up meanwhile publishes nothing.
EndStep(t) ==
  /\ pc[t] = "step" /\ ~done
  /\ step' = IF step < MaxSteps THEN step + 1 ELSE step
  /\ done' \in BOOLEAN
  /\ Leave(t, IF GivenUp(t) THEN "finally" ELSE "publish")
  /\ UNCHANGED <<running, stop_event, episode_status>>

\* Mutant: the lock is not released on the way of an exception.
StepRaisesHolding(t) ==
  /\ pc[t] = "step"
  /\ Goto(t, "except")
  /\ UNCHANGED env_lock

\* session.step raises: a service does not answer, or the session is done.
StepRaises(t) ==
  /\ pc[t] = "step"
  /\ Leave(t, "except")
  /\ UNCHANGED <<running, stop_event, episode_status, step, done>>

\* Frame, events and metrics are sent; the episode is over at the last step and
\* when all jobs are done, which is not the only way for a session to end.
Publish(t) ==
  /\ pc[t] = "publish"
  /\ \/ Goto(t, "over") /\ (done \/ (step = MaxSteps /\ ~Replay))
     \/ Goto(t, "top") /\ (step < MaxSteps \/ Replay)
  /\ UNCHANGED env_lock

EndEpisode(t) ==
  /\ pc[t] = "over"
  /\ episode_status' = "stopped"
  /\ pc' = [pc EXCEPT ![t] = "unset"]
  /\ UNCHANGED <<flagVars, commandVars, gen, record, env_lock, sessionVars,
                 insertVars>>

\* running = False, of the end of an episode and of the finally clause.
ClearRunning(t, from, next) ==
  /\ pc[t] = from
  /\ running' = FALSE
  /\ pc' = [pc EXCEPT ![t] = next]
  /\ UNCHANGED <<paused, stop_event, pause_event, thread, episode_status,
                 commandVars, gen, record, env_lock, sessionVars, insertVars>>

\* except Exception
RecordError(t) ==
  /\ pc[t] = "except"
  /\ episode_status' = "error"
  /\ pc' = [pc EXCEPT ![t] = "finally"]
  /\ UNCHANGED <<flagVars, commandVars, gen, record, env_lock, sessionVars,
                 insertVars>>

\* finally: a thread of an older generation leaves the flags alone.
Finally(t) ==
  /\ pc[t] = "finally"
  /\ Goto(t, IF gen[t] = run_generation THEN "clear" ELSE "none")
  /\ UNCHANGED env_lock

ClearThread(t) ==
  /\ pc[t] = "cleared"
  /\ thread' = None
  /\ pc' = [pc EXCEPT ![t] = "none"]
  /\ UNCHANGED <<running, paused, stop_event, pause_event, episode_status,
                 commandVars, gen, record, env_lock, sessionVars, insertVars>>

Run(t) == \/ Top(t) \/ Wake(t) \/ Lock(t)
          \/ TakeInsert(t) \/ EndReplan(t)
          \/ BreakUnderLock(t) \/ EndReplay(t) \/ BeginStep(t)
          \/ EndStep(t) \/ StepRaises(t) \/ Publish(t)
          \/ EndEpisode(t) \/ ClearRunning(t, "unset", "finally")
          \/ RecordError(t) \/ Finally(t)
          \/ ClearRunning(t, "clear", "cleared") \/ ClearThread(t)

-----------------------------------------------------------------------------
Next == \/ Resume \/ Pause
        \/ \E t \in Threads : Play(t)
        \/ \E i \in Inserts : Insert(i)
        \/ \E c \in Commands : BeginStop(c)
        \/ Proceed
        \/ \E t \in Threads : Run(t)

Spec == Init /\ [][Next]_vars

\* The event loop and the threads go on; every call of a solver returns or
\* raises; a thread that waits for the lock gets it, since one that runs on
\* sleeps half a second between two steps; a thread in wait() returns once the
\* event has been set, cleared again or not.  No command has to be given.
Fairness ==
  /\ WF_vars(Proceed)
  /\ \A t \in Threads : WF_vars(Run(t)) /\ SF_vars(Lock(t)) /\ SF_vars(Wake(t))

FairSpec == Spec /\ Fairness

-----------------------------------------------------------------------------
Places == {"none", "top", "wait", "lock", "drain", "replan", "step", "publish",
           "over", "unset", "except", "finally", "clear", "cleared"}

\* The types, and what follows from the control points: a thread has the lock
\* exactly inside its `with` block, and an insertion in hand exactly while it
\* replans; the event loop is at a place exactly while it is in a command, and the
\* thread it is about to start does not run yet.
TypeOK ==
  /\ running \in BOOLEAN /\ paused \in BOOLEAN
  /\ stop_event \in BOOLEAN /\ pause_event \in BOOLEAN
  /\ run_generation \in Nat /\ session_gen \in 0..run_generation
  /\ thread \in Threads \cup {None} /\ joined \in Threads \cup {None}
  /\ episode_status \in {"idle", "running", "stopped", "error", "replay_exhausted"}
  /\ command \in Commands \cup {"play", None}
  /\ place \in CommandPlaces \cup {None}
  /\ (command = None) <=> (place = None)
  /\ place = "starting" => thread = None \/ pc[thread] = "none"
  /\ pc \in [Threads -> Places] /\ gen \in [Threads -> Nat]
  /\ record \in [Threads -> Inserts \cup {None}]
  /\ \A t \in Threads : (record[t] # None) <=> (pc[t] = "replan")
  /\ env_lock \in Threads \cup {None}
  /\ \A t \in Threads : (env_lock = t) <=> (pc[t] \in UnderLock)
  /\ step \in 0..MaxSteps /\ done \in BOOLEAN
  /\ pending_inserts \in Seq(Inserts) /\ accepted \subseteq Inserts
  /\ installed \subseteq Inserts /\ stale \subseteq Inserts

\* A session is stepped only by threads of runs that were started for it: one
\* that a stop gave up on, in a call of ten seconds or waiting for the lock,
\* does not touch the session that a reset or a create has put in place.
FreshStepsOnly == \A t \in Threads : pc[t] = "step" => gen[t] >= session_gen

\* Reset leaves nothing of the old run behind: no insertion accepted before it
\* is installed after it.
SessionStartsAfresh == Idle => installed \cap stale = {}

\* Every play, stop, reset and create returns: the event loop and the run threads do
\* not wait for each other (thread, lock and pause event) for ever.
CommandsReturn == ~Idle ~> Idle

\* A run that a stop has joined ends, paused or not, waiting for the lock or in a
\* call, even if the join gave it up.
StoppedRunsEnd == \A t \in Threads : joined = t ~> pc[t] = "none"

\* Commands and the runs they end do not hang.
CommandsEnd == CommandsReturn /\ StoppedRunsEnd

\* "the snapshots show a late subscriber the current state at once"
\* (sim_server.py:69): while a run is going on its status is "running".
StatusIsCurrent ==
  Idle /\ running /\ thread # None =>
    \/ episode_status = "running"
    \/ pc[thread] \in {"unset", "except", "finally", "clear", "cleared", "none"}
=============================================================================
