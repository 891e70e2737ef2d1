------------------------------- MODULE Pibt -------------------------------
(***************************************************************************)
(* One planning after another of PIBTRouter.plan (pibt.py): each vehicle   *)
(* gets the cell it is in next, by priority inheritance and backtracking.  *)
(* The recursion of inherit is an explicit stack: running is the vehicle   *)
(* whose loop goes on, caller[a] the one that asked a to make way.         *)
(*                                                                         *)
(* The order in which the code asks is by age and id, and the order of its *)
(* candidates by distance to the goal, shuffled: both are any order here.  *)
(***************************************************************************)
EXTENDS FiniteSets

CONSTANTS
  Vehicles, Cells, Nil,
  Ports,               \* the cells of the machines
  Adjacent             \* Adjacent[c]: the free cells a move away from c

ASSUME RoadConstants ==
  /\ Adjacent \in [Cells -> SUBSET Cells]
  /\ Ports \subseteq Cells
  /\ Nil \notin Cells \cup Vehicles

VARIABLES
  position,            \* where the vehicles are
  planning,            \* a plan is being made
  frozen,              \* the vehicles that must stay
  forbidden,           \* forbidden[a]: the machine too full for what a brings
  chosen,              \* chosen[a]: the cell a is in next, Nil if not in it
  reserved,            \* the cells that are taken
  running, caller,     \* the stack of inherit
  left,                \* left[a]: the candidates a has not tried
  first                \* the first vehicle that was asked, and its first choice

planVars == <<frozen, forbidden, chosen, reserved, running, caller, left, first>>
pibtVars == <<position, planning, planVars>>

Occupant(c) == IF \E a \in Vehicles : position[a] = c
               THEN CHOOSE a \in Vehicles : position[a] = c ELSE Nil

Candidates(a) == {position[a]} \cup Adjacent[position[a]]

NothingPlanned ==
  /\ planning = FALSE
  /\ frozen = {} /\ forbidden = [a \in Vehicles |-> Nil]
  /\ chosen = [a \in Vehicles |-> Nil] /\ reserved = {}
  /\ running = Nil /\ caller = [a \in Vehicles |-> Nil]
  /\ left = [a \in Vehicles |-> {}]
  /\ first = <<Nil, Nil>>

PibtInit ==
  /\ position \in [Vehicles -> Cells]
  /\ \A a, b \in Vehicles : position[a] = position[b] => a = b
  /\ NothingPlanned

\* Frozen are those with a broken vehicle, those that pick up, drop or are
\* about to, and those assigned in the same step: any set of them.
StartPlan ==
  /\ ~planning /\ planning' = TRUE
  /\ frozen' \in SUBSET Vehicles
  /\ forbidden' \in [Vehicles -> Ports \cup {Nil}]
  /\ chosen' = [a \in Vehicles |-> IF a \in frozen' THEN position[a] ELSE Nil]
  /\ reserved' = {position[a] : a \in frozen'}
  /\ UNCHANGED <<position, running, caller, left, first>>

Ask(a, by) ==
  /\ running' = a
  /\ caller' = [caller EXCEPT ![a] = by]
  /\ left' = [left EXCEPT ![a] = Candidates(a)]

AskNext(a) ==
  /\ planning /\ running = Nil /\ chosen[a] = Nil
  /\ Ask(a, Nil)
  /\ UNCHANGED <<position, planning, frozen, forbidden, chosen, reserved, first>>

WouldSwap(a, c) == \E b \in Vehicles \ {a} : position[b] = c /\ chosen[b] = position[a]

AdmissibleIfFree(a, c) ==                            \* mutant: priority is passed on once
  /\ c \notin reserved
  /\ c # forbidden[a]
  /\ caller[a] # Nil => c # position[caller[a]] /\ Occupant(c) = Nil
  /\ ~WouldSwap(a, c)
AdmissibleUnreserved(a, c) ==                        \* mutant: reserved is not asked
  /\ c # forbidden[a]
  /\ caller[a] # Nil => c # position[caller[a]]
  /\ ~WouldSwap(a, c)

Admissible(a, c) ==
  /\ c \notin reserved
  /\ c # forbidden[a]
  /\ caller[a] # Nil => c # position[caller[a]]
  /\ ~WouldSwap(a, c)

\* The candidates that come before c are passed over or have failed.
Try(a, c) ==
  /\ running = a /\ c \in left[a] /\ Admissible(a, c)
  /\ chosen' = [chosen EXCEPT ![a] = c]
  /\ reserved' = reserved \cup {c}
  /\ first' = IF first = <<Nil, Nil>> THEN <<a, c>> ELSE first
  /\ LET other == Occupant(c) IN
       IF other # Nil /\ chosen'[other] = Nil
       THEN /\ running' = other
            /\ caller' = [caller EXCEPT ![other] = a]
            /\ left' = [left EXCEPT ![a] = @ \ {c}, ![other] = Candidates(other)]
       ELSE /\ running' = Nil   \* every caller returns True
            /\ left' = [b \in Vehicles |-> {}]
            /\ caller' = [b \in Vehicles |-> Nil]
  /\ UNCHANGED <<position, planning, frozen, forbidden>>

GiveUp(a) ==
  /\ running = a /\ \A c \in left[a] : ~Admissible(a, c)
  /\ chosen' = [chosen EXCEPT ![a] = position[a]]
  /\ reserved' = reserved \cup {position[a]}
  /\ running' = caller[a]
  /\ caller' = [caller EXCEPT ![a] = Nil]
  /\ left' = [left EXCEPT ![a] = {}]
  /\ UNCHANGED <<position, planning, frozen, forbidden, first>>

Planned == planning /\ \A a \in Vehicles : chosen[a] # Nil

\* What the environment does with a plan none of whose moves conflict.
MoveAll ==
  /\ Planned /\ running = Nil
  /\ position' = chosen
  /\ planning' = FALSE
  /\ frozen' = {} /\ forbidden' = [a \in Vehicles |-> Nil]
  /\ chosen' = [a \in Vehicles |-> Nil] /\ reserved' = {}
  /\ caller' = [a \in Vehicles |-> Nil] /\ left' = [a \in Vehicles |-> {}]
  /\ first' = <<Nil, Nil>>
  /\ UNCHANGED running

PibtNext ==
  \/ StartPlan \/ MoveAll
  \/ \E a \in Vehicles : AskNext(a) \/ GiveUp(a)
  \/ \E a \in Vehicles, c \in Cells : Try(a, c)

PibtSpec == PibtInit /\ [][PibtNext]_pibtVars
-----------------------------------------------------------------------------
PibtTypeOK ==
  /\ position \in [Vehicles -> Cells] /\ planning \in BOOLEAN
  /\ frozen \subseteq Vehicles /\ forbidden \in [Vehicles -> Ports \cup {Nil}]
  /\ chosen \in [Vehicles -> Cells \cup {Nil}] /\ reserved \subseteq Cells
  /\ running \in Vehicles \cup {Nil}
  /\ caller \in [Vehicles -> Vehicles \cup {Nil}]
  /\ left \in [Vehicles -> SUBSET Cells]

NoCollision == \A a, b \in Vehicles : chosen[a] = chosen[b] => a = b
NoSwap == \A a, b \in Vehicles :
            chosen[a] = position[b] /\ chosen[b] = position[a] => a = b
MovesAreLegal == \A a \in Vehicles :
                   /\ chosen[a] \in Candidates(a)
                   /\ a \in frozen => chosen[a] = position[a]
                   /\ chosen[a] = forbidden[a] => chosen[a] = position[a]

\* A finished plan can be carried out at once: no two vehicles meet in a cell
\* or on a road, no vehicle that must stay is moved, none enters a machine
\* that has no room for what it brings.  A vehicle that made way for another
\* and found no cell has left a choice behind that must not clash with those
\* made since.
PlanIsSafe ==
  Planned /\ running = Nil => NoCollision /\ NoSwap /\ MovesAreLegal

\* Every road is part of a circuit: who goes from c to d finds a way back to c
\* that is not the same road (whatever contains d and all that can be reached
\* from it without c has a way into c that does not begin at d).
RoadsReturn ==
  \A c \in Cells : \A d \in Adjacent[c] \ {c}, S \in SUBSET (Cells \ {c}) :
    d \in S /\ (\A x \in S : Adjacent[x] \ {c} \subseteq S)
      => \E x \in S \ {d} : c \in Adjacent[x]

NothingFixed == frozen = {} /\ \A a \in Vehicles : forbidden[a] = Nil

\* When nothing is frozen or forbidden, and RoadsReturn, the vehicle that is asked
\* first goes where it wants to, however full the floor is: the vehicles in its
\* way make way for each other in a circle.
FirstGetsItsWay ==
  planning /\ running = Nil /\ first[1] # Nil /\ NothingFixed
    => chosen[first[1]] = first[2]
=============================================================================
