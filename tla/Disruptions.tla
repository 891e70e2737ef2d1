---------------------------- MODULE Disruptions ----------------------------
(***************************************************************************)
(* The exception injector of the grid factory (exception_injector.py):     *)
(* breakdowns and temporary obstacles, scheduled, by chance and by hand,   *)
(* while vehicles move on the floor, and the cache of distances of the     *)
(* state encoder (RaceFMS/state.py) that map_epoch keeps current.          *)
(*                                                                         *)
(* What a broken machine or vehicle does to the work is in Factory; here   *)
(* it is its repair_remaining.  preserve_connectivity is on, its default.  *)
(***************************************************************************)
EXTENDS Naturals, Sequences, FiniteSets

CONSTANTS
  Floor,               \* the playable cells without a fixed obstacle
  NextTo,              \* NextTo[c]: the neighbours of a cell
  Movers,              \* the vehicles
  MachineCells,        \* machines are known by their cell
  Durations,           \* what an event or a sample may give
  Configured,          \* config["schedule"] with an id for each event
  MaxTimeline,         \* bound on the steps of an episode
  MaxManual            \* bound on the calls by hand

ASSUME DisruptionConstants ==
  /\ IsFiniteSet(Floor) /\ NextTo \in [Floor -> SUBSET Floor]
  /\ \A c, d \in Floor : d \in NextTo[c] <=> c \in NextTo[d]
  /\ MachineCells \subseteq Floor
  /\ Durations \subseteq Nat /\ {MaxTimeline, MaxManual} \subseteq Nat

ASSUME ScheduleConstants ==
  /\ IsFiniteSet(Configured)
  /\ \A e \in Configured :
       /\ {e.step, e.duration} \subseteq Nat
       /\ \/ e.type = "breakdown" /\ e.target \in MachineCells \cup Movers
          \/ e.type = "obstacle" /\ e.target \in Floor
       /\ \A f \in Configured : e.id = f.id => e = f
       /\ \A n \in 0..MaxManual : e.id # <<"manual", n>>

VARIABLES
  step_phase,               \* of the step of the environment
  env_timeline,        \* the steps that are complete: session.step_index too
  enabled,
  schedule, schedule_idx,
  repair_remaining,    \* of machines and vehicles, 0 if it is OK
  active_obstacles,    \* remaining of each cell's temporary obstacle, 0: none
  positions_xy,
  map_epoch,
  observed,            \* map_epoch and obstacle_grid of the last observation
  cache,               \* the encoder's epoch, and the grids it measured on
  manual,              \* how many calls by hand there were
  tried                \* history: the steps in which the events that were
                       \* accepted by an enabled injector were tried

injectorVars == <<enabled, schedule, schedule_idx, tried>>
floorVars == <<repair_remaining, active_obstacles, map_epoch>>
disruptionVars == <<step_phase, env_timeline, injectorVars, floorVars, positions_xy,
                    observed, cache, manual>>

Breakable == MachineCells \cup Movers
Obstructed == {c \in Floor : active_obstacles[c] > 0}
FreeCells == Floor \ Obstructed
Positions == {positions_xy[v] : v \in Movers}
Scheduled == {schedule[i] : i \in 1..Len(schedule)}

-----------------------------------------------------------------------------
(* Connectivity.                                                           *)

\* No way leads out of S.
Closed(S, free) == \A d \in free \ S : NextTo[d] \cap S = {}

\* Component[free][c]: the cells that c reaches through free ones, which the
\* search collects: those that no closed set with c leaves out.
Component ==
  [free \in SUBSET Floor |-> [c \in free |->
     {d \in free : \A S \in SUBSET (free \ {d}) : c \in S => ~Closed(S, free)}]]

WalkableComponentCount == [free \in SUBSET Floor |->
                             Cardinality({Component[free][c] : c \in free})]
KeepsWay(cell) == Cardinality(NextTo[cell] \cap FreeCells) > 1   \* mutant: it is no dead end
PreservesConnectivity(cell) ==
  WalkableComponentCount[FreeCells] >= WalkableComponentCount[FreeCells \ {cell}]

MayBeBlockedUnder(cell) ==                      \* mutant: vehicles are not looked at
  cell \in FreeCells \ MachineCells /\ PreservesConnectivity(cell)
MayBeBlocked(cell) ==
  /\ cell \in FreeCells \ (Positions \cup MachineCells)
  /\ PreservesConnectivity(cell)

-----------------------------------------------------------------------------
(* The effects of an event.                                                *)

Remaining(duration) == IF duration < 1 THEN 1 ELSE duration

\* A breakdown, unless it is broken.
BreakDown(t, d) ==
  /\ repair_remaining' = IF repair_remaining[t] = 0
                         THEN [repair_remaining EXCEPT ![t] = Remaining(d)]
                         ELSE repair_remaining
  /\ UNCHANGED <<active_obstacles, map_epoch>>

\* An obstacle, unless the cell must stay free.
Block(cell, d) ==
  /\ IF MayBeBlocked(cell)
     THEN /\ active_obstacles' = [active_obstacles EXCEPT ![cell] = Remaining(d)]
          /\ map_epoch' = map_epoch + 1
     ELSE UNCHANGED <<active_obstacles, map_epoch>>
  /\ UNCHANGED repair_remaining

ApplyEvent(e) ==
  CASE e.type = "breakdown" -> BreakDown(e.target, e.duration)
    [] e.type = "obstacle"  -> Block(e.target, e.duration)

EventsOf(id, step) ==
  {[id |-> id, step |-> step, type |-> "breakdown", target |-> t, duration |-> d] :
     t \in Breakable, d \in Durations}
  \cup
  {[id |-> id, step |-> step, type |-> "obstacle", target |-> c, duration |-> d] :
     c \in Floor, d \in Durations}

-----------------------------------------------------------------------------
(* A step of the session: the decision, the events of the step, the moves  *)
(* and the ticks.  It holds the lock of the server throughout.             *)

\* RaceStateEncoder.encode, which measures what is not in the cache.
Encode ==
  LET kept == IF cache.epoch = observed.epoch THEN cache.grids ELSE {}
  IN cache' = [epoch |-> observed.epoch, grids |-> kept \cup {observed.grid}]

EnterStep ==
  /\ step_phase = "between" /\ env_timeline < MaxTimeline
  /\ Encode
  /\ step_phase' = IF enabled THEN "scheduled" ELSE "moving"
  /\ UNCHANGED <<env_timeline, injectorVars, floorVars, positions_xy, observed, manual>>

NextIsDue == schedule_idx < Len(schedule) /\ schedule[schedule_idx + 1].step <= env_timeline

\* The loop of _apply_scheduled_events: an event of an earlier step is skipped.
TakeScheduled ==
  /\ step_phase = "scheduled" /\ NextIsDue
  /\ LET e == schedule[schedule_idx + 1] IN
     IF e.step < env_timeline THEN UNCHANGED <<floorVars, tried>>
     ELSE /\ ApplyEvent(e)
          /\ tried' = [id \in DOMAIN tried |->
                         IF id = e.id THEN Append(tried[id], env_timeline) ELSE tried[id]]
  /\ schedule_idx' = schedule_idx + 1
  /\ UNCHANGED <<step_phase, env_timeline, enabled, schedule, positions_xy, observed, cache, manual>>

\* _apply_probabilistic_events: any breakdowns and obstacles, then none.
HappenByChance ==
  /\ step_phase = "scheduled" /\ ~NextIsDue
  /\ \/ \E e \in EventsOf("by chance", env_timeline) :
          /\ IF e.type = "breakdown" THEN repair_remaining[e.target] = 0
                                     ELSE MayBeBlocked(e.target)
          /\ ApplyEvent(e) /\ UNCHANGED step_phase
     \/ step_phase' = "moving" /\ UNCHANGED floorVars
  /\ UNCHANGED <<env_timeline, injectorVars, positions_xy, observed, cache, manual>>

\* before_move keeps broken vehicles in place; Pogema moves the others to free
\* neighbours without a collision.
Move ==
  /\ step_phase = "moving"
  /\ positions_xy' \in [Movers -> FreeCells]
  /\ \A v \in Movers :
       /\ positions_xy'[v] \in {positions_xy[v]} \cup NextTo[positions_xy[v]]
       /\ repair_remaining[v] > 0 => positions_xy'[v] = positions_xy[v]
       /\ \A w \in Movers \ {v} :
            /\ positions_xy'[v] # positions_xy'[w]
            /\ positions_xy'[v] = positions_xy[w] => positions_xy'[w] # positions_xy[v]
  /\ step_phase' = "ticking"
  /\ UNCHANGED <<env_timeline, injectorVars, floorVars, observed, cache, manual>>

Ticked(remaining) == IF remaining > 0 THEN remaining - 1 ELSE 0
Expiring == {c \in Floor : active_obstacles[c] = 1}

\* after_step, and the observation that is packed after it.
Tick ==
  /\ step_phase = "ticking"
  /\ IF enabled
     THEN /\ repair_remaining' = [t \in Breakable |-> Ticked(repair_remaining[t])]
          /\ active_obstacles' = [c \in Floor |-> Ticked(active_obstacles[c])]
          /\ map_epoch' = map_epoch + Cardinality(Expiring)
     ELSE UNCHANGED floorVars
  /\ observed' = [epoch |-> map_epoch', grid |-> Obstructed']
  /\ env_timeline' = env_timeline + 1 /\ step_phase' = "between"
  /\ UNCHANGED <<injectorVars, positions_xy, cache, manual>>

-----------------------------------------------------------------------------
(* By hand, between two steps.                                             *)

ByHand ==
  /\ step_phase = "between" /\ manual < MaxManual /\ manual' = manual + 1
  /\ enabled' = TRUE
  /\ UNCHANGED <<step_phase, env_timeline, positions_xy, observed, cache>>

\* sorted() is stable: the events of a step stay in their order.
Before(s, i, k) == s[i].step < s[k].step \/ (s[i].step = s[k].step /\ i <= k)
SortedByStep(s) ==
  [n \in DOMAIN s |->
     s[CHOOSE k \in DOMAIN s : Cardinality({i \in DOMAIN s : Before(s, i, k)}) = n]]

SortedInLast(e) == Append(schedule, e)      \* mutant: the sort is forgotten
SortedIn(e) == SortedByStep(Append(schedule, e))

InjectManual ==
  /\ ByHand
  /\ \E step \in env_timeline..MaxTimeline :
     \E e \in EventsOf(<<"manual", manual>>, step) :
       IF step > env_timeline
       THEN /\ schedule' = SortedIn(e)
            /\ tried' = [id \in DOMAIN tried \cup {e.id} |->
                           IF id = e.id THEN <<>> ELSE tried[id]]
            /\ UNCHANGED <<schedule_idx, floorVars>>
       ELSE ApplyEvent(e) /\ UNCHANGED <<schedule, schedule_idx, tried>>

EpochKept(n) == map_epoch                   \* mutant: clearing does not count
EpochAfter(n) == map_epoch + n

\* clear_manual: none, all or one of each kind.
Picked(S) == {{}, S} \cup {{x} : x \in S}

ClearManual ==
  /\ ByHand
  /\ \E machines \in Picked(MachineCells), vehicles \in Picked(Movers), cells \in Picked(Floor) :
       /\ repair_remaining' = [t \in Breakable |->
            IF t \in machines \cup vehicles THEN 0 ELSE repair_remaining[t]]
       /\ active_obstacles' = [c \in Floor |-> IF c \in cells THEN 0 ELSE active_obstacles[c]]
       /\ map_epoch' = EpochAfter(Cardinality(cells \cap Obstructed))
  /\ UNCHANGED <<schedule, schedule_idx, tried>>

-----------------------------------------------------------------------------
\* Any start with the machines' cells and the vehicles in one region.
Placed(positions) ==
  /\ positions \in [Movers -> Floor]
  /\ \A v, w \in Movers : v # w => positions[v] # positions[w]
  /\ LET meet == MachineCells \cup {positions[v] : v \in Movers}
     IN \A c \in meet : meet \subseteq Component[Floor][c]

ByStep(events) == CHOOSE s \in [1..Cardinality(events) -> events] :
  /\ {s[i] : i \in DOMAIN s} = events
  /\ \A i, k \in DOMAIN s : i <= k => s[i].step <= s[k].step

AcceptedBy(on) == [id \in {e.id : e \in IF on THEN Configured ELSE {}} |-> <<>>]

NewEpisode ==
  /\ step_phase' = "between" /\ env_timeline' = 0
  /\ UNCHANGED enabled
  /\ schedule' = ByStep(Configured) /\ schedule_idx' = 0
  /\ tried' = AcceptedBy(enabled)
  /\ repair_remaining' = [t \in Breakable |-> 0]
  /\ active_obstacles' = [c \in Floor |-> 0] /\ map_epoch' = 0
  /\ Placed(positions_xy')
  /\ observed' = [epoch |-> 0, grid |-> {}]

\* The session's reset; the encoder is not reset.
Reset ==
  /\ step_phase = "between" /\ manual < MaxManual /\ manual' = manual + 1
  /\ NewEpisode
  /\ UNCHANGED cache

DisruptionsInit ==
  /\ step_phase = "between" /\ env_timeline = 0 /\ enabled \in BOOLEAN
  /\ schedule = ByStep(Configured) /\ schedule_idx = 0
  /\ tried = AcceptedBy(enabled)
  /\ repair_remaining = [t \in Breakable |-> 0]
  /\ active_obstacles = [c \in Floor |-> 0] /\ map_epoch = 0
  /\ Placed(positions_xy)
  /\ observed = [epoch |-> 0, grid |-> {}]
  /\ cache = [epoch |-> 0, grids |-> {}] /\ manual = 0

DisruptionsNext ==
  \/ EnterStep \/ TakeScheduled \/ HappenByChance \/ Move \/ Tick
  \/ InjectManual \/ ClearManual \/ Reset

DisruptionsSpec == DisruptionsInit /\ [][DisruptionsNext]_disruptionVars

-----------------------------------------------------------------------------
\* The types; no obstacle is on a machine or a vehicle.
DisruptionsTypeOK ==
  /\ step_phase \in {"between", "scheduled", "moving", "ticking"}
  /\ env_timeline \in 0..MaxTimeline /\ enabled \in BOOLEAN
  /\ schedule_idx \in 0..Len(schedule)
  /\ DOMAIN repair_remaining = Breakable /\ DOMAIN active_obstacles = Floor
  /\ {repair_remaining[t] : t \in Breakable} \cup {active_obstacles[c] : c \in Floor}
       \cup {map_epoch} \subseteq Nat
  /\ Obstructed \cap (Positions \cup MachineCells) = {}

\* Whatever is blocked, and in whichever order the obstacles come and go, every
\* machine and vehicle can still be reached from every other: a check of one
\* cell at a time must be enough.
WaysStayOpen ==
  LET meet == MachineCells \cup Positions
  IN \A c \in meet : c \in FreeCells /\ meet \subseteq Component[FreeCells][c]

\* Each event that an enabled injector accepted is tried once, in its own step:
\* the place in the schedule stays right when others are sorted in.
ScheduleIsKept ==
  \A e \in {x \in Scheduled : x.id \in DOMAIN tried} :
    /\ tried[e.id] \in {<<>>, <<e.step>>}
    /\ env_timeline > e.step => tried[e.id] # <<>>

\* No distance is in use that was measured with other obstacles than those
\* observed, in an earlier episode for instance.
DistancesAreCurrent ==
  step_phase # "between" => cache.grids \subseteq {observed.grid}
=============================================================================
