----------------------------- MODULE Insertions -----------------------------
(***************************************************************************)
(* Urgent jobs inserted into a running simulation (sim_server.py).  The    *)
(* event loop accepts a request and queues it; the run thread takes it     *)
(* from the queue, has the scheduling service plan it, installs the jobs   *)
(* (SimulationSession.insert_jobs) and steps the factory.  Both then bring *)
(* the phases of all requests up to date whenever they build a frame: the  *)
(* run thread under _env_lock, the event loop without it.                  *)
(*                                                                         *)
(* Requests are numbered in order of arrival; the jobs of a request are    *)
(* represented by how far the factory is with them.  A run is not paused   *)
(* here, and never reset (SimServer has both).                             *)
(***************************************************************************)
EXTENDS Naturals, Sequences, FiniteSets, SequencesExt

CONSTANTS
  MaxRequests,         \* bound on the requests of a behaviour
  Clashing             \* requests whose job ids belong to jobs that the
                       \* configuration releases later: _next_job_id counts
                       \* from the jobs already released

ASSUME InsertionConstants == /\ MaxRequests \in Nat \ {0}
                             /\ Clashing \subseteq 1..MaxRequests

Requests == 1..MaxRequests
Actors == {"run", "loop"}
Other(p) == CHOOSE q \in Actors : q # p

\* The life of a request, but for "failed", which ends it after "replanning".
Life == <<"queued", "replanning", "scheduled", "transporting", "processing",
          "completed">>
Rank(ph) == SelectInSeq(Life, LAMBDA x : x = ph)

VARIABLES
  requests,            \* the number of _insertion_requests
  pending,             \* _pending_inserts
  phase, timeline,     \* the fields of a request
  announced,           \* announced[r]: the phases published for it (this and
                       \* the timeline are recorded until crossed, a bound)
  counted,             \* counted[r]: its share of inserted_jobs_completed
  at, task,            \* where an actor is, and in what
  about,               \* the request it is about
  ladder,              \* the phases it still has to set
  target,              \* the phase its survey has found for the request
  envelope,            \* the phase it is about to publish
  planned,             \* requests in the schedule of the remote service
  work,                \* work[r]: none, idle, moved, worked, done
  going,               \* the run thread is in its loop
  crossed              \* requests both actors were busy with at a time

requestVars == <<requests, pending, phase, timeline, counted>>
actorVars   == <<at, task, about, ladder, target, envelope>>
factoryVars == <<planned, work, going>>
insertionVars  == <<requestVars, announced, actorVars, factoryVars, crossed>>

InsertInit ==
  /\ requests = 0 /\ pending = <<>>
  /\ phase = [r \in Requests |-> "none"] /\ timeline = [r \in Requests |-> <<>>]
  /\ announced = [r \in Requests |-> <<>>] /\ counted = [r \in Requests |-> 0]
  /\ at = [p \in Actors |-> "idle"] /\ task = [p \in Actors |-> "none"]
  /\ about = [p \in Actors |-> 0] /\ ladder = [p \in Actors |-> <<>>]
  /\ envelope = [p \in Actors |-> "none"] /\ target = [p \in Actors |-> "none"]
  /\ planned = {} /\ work = [r \in Requests |-> "none"]
  /\ going = TRUE /\ crossed = {}

\* p is in the middle of request r.
Amid(p, r) == about[p] = r /\ at[p] \in {"climb", "read", "publish"}

\* p begins with request r, in which the other may be in the middle.
Takes(p, r) == crossed' = crossed \cup (IF Amid(Other(p), r) THEN {r} ELSE {})

\* The sequence of request r in f, with phase ph behind it.
Noted(f, r, ph) == IF r \in crossed THEN f ELSE [f EXCEPT ![r] = Append(@, ph)]

MoveOn(p, place) == at' = [at EXCEPT ![p] = place]

-----------------------------------------------------------------------------
(* The event loop: enqueue_insert_jobs.                                    *)

\* Under _insert_lock: the record, in both lists.
Accept ==
  /\ going /\ at["loop"] = "idle" /\ requests < MaxRequests
  /\ LET r == requests + 1 IN
     /\ requests' = r
     /\ pending' = Append(pending, r)
     /\ phase' = [phase EXCEPT ![r] = "queued"]
     /\ timeline' = [timeline EXCEPT ![r] = <<"queued">>]
     /\ about' = [about EXCEPT !["loop"] = r]
  /\ task' = [task EXCEPT !["loop"] = "insert"]
  /\ MoveOn("loop", "read")
  /\ UNCHANGED <<announced, counted, ladder, target, envelope, factoryVars, crossed>>

-----------------------------------------------------------------------------
(* _set_insert_phase and _emit_insert_phase_event, by either.              *)

\* The next phase to set, unless the request is in it.
SetInsertPhase(p) ==
  /\ at[p] = "climb" /\ ladder[p] # <<>>
  /\ LET r == about[p]  ph == Head(ladder[p]) IN
     IF phase[r] = ph
     THEN UNCHANGED <<phase, timeline, at>>
     ELSE /\ phase' = [phase EXCEPT ![r] = ph]
          /\ timeline' = Noted(timeline, r, ph)
          /\ MoveOn(p, "read")
  /\ ladder' = [ladder EXCEPT ![p] = Tail(@)]
  /\ UNCHANGED <<requests, pending, announced, counted, task, about, target,
                 envelope, factoryVars, crossed>>

\* The envelope is made of the phase the record has by then.
ReadPhase(p) ==
  /\ at[p] = "read"
  /\ envelope' = [envelope EXCEPT ![p] = phase[about[p]]]
  /\ MoveOn(p, "publish")
  /\ UNCHANGED <<requestVars, announced, task, about, ladder, target, factoryVars, crossed>>

PublishPhase(p) ==
  /\ at[p] = "publish"
  /\ announced' = Noted(announced, about[p], envelope[p])
  /\ envelope' = [envelope EXCEPT ![p] = "none"]
  /\ MoveOn(p, "climb")
  /\ UNCHANGED <<requestVars, task, about, ladder, target, factoryVars, crossed>>

-----------------------------------------------------------------------------
(* The run thread: _drain_insert_queue, and the step.                      *)

\* pop(0)
PopRequest ==
  /\ going /\ at["run"] = "idle" /\ pending # <<>>
  /\ pending' = Tail(pending)
  /\ about' = [about EXCEPT !["run"] = Head(pending)]
  /\ task' = [task EXCEPT !["run"] = "insert"]
  /\ ladder' = [ladder EXCEPT !["run"] = <<"replanning">>]
  /\ MoveOn("run", "climb")
  /\ Takes("run", Head(pending))
  /\ UNCHANGED <<requests, phase, timeline, counted, announced, target, envelope,
                 factoryVars>>

InHand(r) == /\ task["run"] = "insert" /\ about["run"] = r
             /\ at["run"] = "climb" /\ ladder["run"] = <<>>

Settle(r, as) ==
  /\ InHand(r) /\ phase[r] = "replanning"
  /\ ladder' = [ladder EXCEPT !["run"] = <<as>>]
  /\ UNCHANGED <<requestVars, announced, at, task, about, target, envelope, going,
                 crossed>>

\* job_solver.replan raises.
ReplanFails(r) == Settle(r, "failed") /\ UNCHANGED <<planned, work>>

\* job_solver.replan, and then insert_jobs, which refuses ids that are in use.
\* (The mutant installs the jobs first.)
InstallFirst(r) ==
  /\ work' = [work EXCEPT ![r] = "idle"]
  /\ \/ Settle(r, "scheduled") /\ planned' = planned \cup {r}
     \/ Settle(r, "failed") /\ UNCHANGED planned

Install(r) ==
  /\ planned' = planned \cup {r}
  /\ IF r \in Clashing
     THEN Settle(r, "failed") /\ UNCHANGED work
     ELSE Settle(r, "scheduled") /\ work' = [work EXCEPT ![r] = "idle"]

\* The request is done with; the loop of _drain_insert_queue goes on.
NextRequest ==
  /\ \E r \in Requests : InHand(r) /\ phase[r] # "replanning"
  /\ task' = [task EXCEPT !["run"] = "none"]
  /\ about' = [about EXCEPT !["run"] = 0]
  /\ MoveOn("run", "idle")
  /\ UNCHANGED <<requestVars, announced, ladder, target, envelope, factoryVars, crossed>>

\* Jobs move on; what is done stays done.
StepFactory ==
  /\ going /\ at["run"] = "idle" /\ pending = <<>>
  /\ \E news \in [Requests -> {"idle", "moved", "worked", "done"}] :
       work' = [r \in Requests |-> IF work[r] \in {"none", "done"} THEN work[r]
                                   ELSE news[r]]
  /\ task' = [task EXCEPT !["run"] = "survey"]
  /\ about' = [about EXCEPT !["run"] = 1]
  /\ MoveOn("run", "look")
  /\ UNCHANGED <<requestVars, announced, ladder, target, envelope, planned, going, crossed>>

\* The end of the episode, or a stop.
RunEnds ==
  /\ going /\ at["run"] = "idle"
  /\ going' = FALSE
  /\ UNCHANGED <<requestVars, announced, actorVars, planned, work, crossed>>

-----------------------------------------------------------------------------
(* _update_insert_phases, by either when it builds a frame.                *)

\* The event loop comes to it after the announcement of "queued".
BeginSurvey ==
  /\ task["loop"] = "insert" /\ at["loop"] = "climb"
  /\ task' = [task EXCEPT !["loop"] = "survey"]
  /\ about' = [about EXCEPT !["loop"] = 1]
  /\ MoveOn("loop", "look")
  /\ UNCHANGED <<requestVars, announced, ladder, target, envelope, factoryVars, crossed>>

\* How far the jobs of a request are.
Target(r) == [none |-> "scheduled", idle |-> "scheduled", moved |-> "transporting",
              worked |-> "processing", done |-> "completed"][work[r]]

\* The phases from behind the present one to the target.  
ClimbTo(r) == SubSeq(Life, Rank(phase[r]) + 1, Rank(Target(r)))

Look(p) ==
  /\ at[p] = "look" /\ about[p] <= requests
  /\ LET r == about[p] IN
     IF phase[r] \in {"queued", "replanning", "failed", "completed"} \/ ClimbTo(r) = <<>>
     THEN /\ about' = [about EXCEPT ![p] = r + 1]
          /\ UNCHANGED <<at, ladder, target, crossed>>
     ELSE /\ ladder' = [ladder EXCEPT ![p] = ClimbTo(r)]
          /\ target' = [target EXCEPT ![p] = Target(r)]
          /\ MoveOn(p, "climb")
          /\ Takes(p, r)
          /\ UNCHANGED about
  /\ UNCHANGED <<requestVars, announced, task, envelope, factoryVars>>

Surveyed(p) ==
  /\ task[p] = "survey" /\ at[p] = "climb" /\ ladder[p] = <<>>
  /\ about' = [about EXCEPT ![p] = @ + 1]
  /\ target' = [target EXCEPT ![p] = "none"]
  /\ MoveOn(p, "look")
  /\ UNCHANGED <<requests, pending, phase, timeline, announced, task, ladder,
                 envelope, factoryVars, crossed>>

\* The target has been reached; if it is the end, the request is counted.
EndRequest(p) ==
  /\ Surveyed(p)
  /\ counted' = [counted EXCEPT
                   ![about[p]] = IF target[p] = "completed" THEN @ + 1 ELSE @]

EndSurvey(p) ==
  /\ at[p] = "look" /\ about[p] > requests
  /\ task' = [task EXCEPT ![p] = "none"]
  /\ about' = [about EXCEPT ![p] = 0]
  /\ MoveOn(p, "idle")
  /\ UNCHANGED <<requestVars, announced, ladder, target, envelope, factoryVars, crossed>>
-----------------------------------------------------------------------------
RunStep == \/ PopRequest \/ NextRequest \/ StepFactory
           \/ SetInsertPhase("run") \/ ReadPhase("run") \/ PublishPhase("run")
           \/ Look("run") \/ EndRequest("run") \/ EndSurvey("run")
           \/ \E r \in Requests : ReplanFails(r) \/ Install(r)

LoopStep == \/ BeginSurvey
            \/ SetInsertPhase("loop") \/ ReadPhase("loop") \/ PublishPhase("loop")
            \/ Look("loop") \/ EndRequest("loop") \/ EndSurvey("loop")

InsertNext == Accept \/ RunEnds \/ RunStep \/ LoopStep

\* Both go on with what they have begun.
InsertFairness == WF_insertionVars(RunStep) /\ WF_insertionVars(LoopStep)

InsertSpec == InsertInit /\ [][InsertNext]_insertionVars /\ InsertFairness

-----------------------------------------------------------------------------
Phases == ToSet(Life) \cup {"failed"}

\* The types, and which task an actor can be in where.
InsertTypeOK ==
  /\ requests \in 0..MaxRequests /\ pending \in Seq(1..requests)
  /\ phase \in [Requests -> Phases \cup {"none"}]
  /\ \A r \in Requests : phase[r] = "none" <=> r > requests
  /\ timeline \in [Requests -> Seq(Phases)] /\ announced \in [Requests -> Seq(Phases)]
  /\ counted \in [Requests -> Nat]
  /\ at \in [Actors -> {"idle", "look", "climb", "read", "publish"}]
  /\ task \in [Actors -> {"none", "insert", "survey"}]
  /\ \A p \in Actors : /\ (at[p] = "idle" <=> task[p] = "none")
                       /\ (at[p] = "look" => task[p] = "survey")
                       /\ (at[p] \notin {"idle", "look"} => about[p] \in 1..requests)
                       /\ (envelope[p] # "none" <=> at[p] = "publish")
  /\ about \in [Actors -> 0..requests + 1]
  /\ ladder \in [Actors -> Seq(Phases)]
  /\ {envelope, target} \subseteq [Actors -> Phases \cup {"none"}]
  /\ planned \subseteq 1..requests /\ crossed \subseteq 1..requests
  /\ work \in [Requests -> {"none", "idle", "moved", "worked", "done"}]
  /\ going \in BOOLEAN

Untouched(r) == r \notin crossed /\ \A p \in Actors : ~Amid(p, r)

\* A request goes through its life without a gap, a repetition or a step back,
\* as long as the surveys of the two threads do not meet at it.
TimelineClimbs ==
  \A r \in Requests \ crossed :
    \/ timeline[r] = SubSeq(Life, 1, Len(timeline[r]))
    \/ timeline[r] = <<"queued", "replanning", "failed">>

\* What clients have been told is the timeline, phase by phase, as soon as nobody
\* is at work on the request (unless the two have met at it: then "queued" may
\* come after "replanning", or be announced as "replanning").
AnnouncedAsRecorded ==
  \A r \in Requests : Untouched(r) => announced[r] = timeline[r]

\* An inserted request is counted once, when it is completed; and completed,
\* whatever thread says so, only if the factory has finished all its jobs.
CompletedOnce ==
  \A r \in Requests :
    /\ phase[r] = "completed" => work[r] = "done"
    /\ Untouched(r) => counted[r] = IF phase[r] = "completed" THEN 1 ELSE 0

\* No request is lost or served twice: until it is planned or has failed it is
\* either in the queue or in the hand of the run thread, and the queue keeps the
\* order of arrival.
NoneForgotten ==
  /\ \A r \in 1..requests :
       phase[r] \in {"queued", "replanning"} =>
         ((r \in ToSet(pending)) # (task["run"] = "insert" /\ about["run"] = r))
  /\ \A i, j \in 1..Len(pending) : i < j => pending[i] < pending[j]

\* Jobs are in the factory only with a plan of the remote service; the service
\* has planned a request that has failed only if its job ids were taken.
PlansAgree ==
  \A r \in Requests :
    /\ work[r] # "none" => r \in planned /\ phase[r] # "failed"
    /\ r \in planned /\ phase[r] = "failed" => r \in Clashing

\* The progress that is reported is the one that is made, and session and scheduling
\* service have the same requests in hand.
RequestsAreKept == TimelineClimbs /\ AnnouncedAsRecorded /\ CompletedOnce
                     /\ NoneForgotten /\ PlansAgree

\* While the run goes on, every accepted request is planned or refused.
AllAnswered ==
  \A r \in Requests :
    phase[r] = "queued" ~> phase[r] \notin {"queued", "replanning"} \/ ~going

\* While the run goes on, a finished request is reported as completed, even if a
\* survey that was late has set it back.
CompletionSeen ==
  \A r \in Requests : work[r] = "done" ~> phase[r] = "completed" \/ ~going

\* What was accepted is carried through.
InsertionsEnd == AllAnswered /\ CompletionSeen
=============================================================================
