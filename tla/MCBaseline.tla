----------------------------- MODULE MCBaseline -----------------------------
(***************************************************************************)
(* Three factories, side by side.  Two of them under the baseline policy:  *)
(* two vehicles that move at will, and one vehicle that takes the shortest *)
(* way, with an urgent job and a breakdown, where all has to be delivered; *)
(* and the packet factory under its random agent, which ends its jobs too. *)
(***************************************************************************)
EXTENDS BaselineFactory, TLC

CONSTANTS j1, j2, m1, m2, a1, a2, Nothing

VARIABLE part          \* the one that moves
VARIABLES stage, timed, env_status, job_list, operations, machines, agvs, lag,
          buffered, ready_events, commands

\* A square:   raw  m1
\*             m2   out
SquareCells == {"raw", "m1", "m2", "out"}
SquareAdj == {e \in SquareCells \X SquareCells :
                {e[1], e[2]} \in {{"raw", "m1"}, {"m2", "out"},
                                 {"raw", "m2"}, {"m1", "out"}}}
MCLocation == (m1 :> "m1" @@ m2 :> "m2")
OneStart == (a1 :> "raw")
TwoStart == (a1 :> "m2" @@ a2 :> "out")
MCDistance == [c \in Cells |-> [d \in Cells |->
                 IF c = d THEN 0 ELSE IF <<c, d>> \in Adj THEN 1 ELSE 2]]

TwoOps == [j \in Jobs |-> 2]
Crossing == [o \in Ops |-> IF (o[1] = j1) = (o[2] = 0) THEN {m1} ELSE {m2}]
Equal == [j \in Jobs |-> 0]
UrgentSecond == (j1 :> 0 @@ j2 :> 200)
UnitCapacity == [m \in Machines |-> 1]

\* The factory with one vehicle.  AdmissionSuffices says the same of both.
One == INSTANCE BaselineFactory WITH
         AGVs <- {a1}, StartPos <- OneStart, Priority <- UrgentSecond,
         ProcTimes <- {2}, DropoffDwell <- 1, MaxFailures <- 1

\* A job that takes two operations and one that takes one, for two AGVs.
TwoJobs == (1 :> <<(m1 :> 2 @@ m2 :> 1), (m1 :> 1 @@ m2 :> 0)>>
            @@ 2 :> <<(m1 :> 0 @@ m2 :> 2)>>)
P == INSTANCE PacketFactory WITH
       Carts <- AGVs, Stations <- Machines, Templates <- {1, 2}, Operations <- TwoJobs,
       Order <- <<1, 2>>, CartPoint <- (a1 :> 1 @@ a2 :> 2),
       StationPoint <- (m1 :> 1 @@ m2 :> 2),
       Travel <- [p \in {1, 2} |-> [q \in {1, 2} |-> IF p = q THEN 0 ELSE 2]],
       Slice <- 1, MaxCommands <- 2, MaxJobs <- 3,
       Kinds <- {"restart", "run", "recover agv", "add job"}

thePackets == <<stage, timed, env_status, job_list, operations, machines, agvs, lag,
                buffered, ready_events, commands>>

PartsInit ==
  /\ P!PacketInit
  /\ \/ part \in {"two vehicles", "packets"} /\ Init
     \/ part = "one vehicle" /\ One!Init

PartsNext ==
  /\ UNCHANGED part
  /\ \/ part = "two vehicles" /\ BaselineNext /\ UNCHANGED thePackets
     \/ part = "one vehicle" /\ One!BaselineNext /\ UNCHANGED thePackets
     \/ part = "packets" /\ P!PacketNext /\ UNCHANGED vars

\* The fairness of BaselineFactory, for the one vehicle; the thread of the
\* packet factory goes on.
PartsFairness ==
  /\ WF_vars(part = "one vehicle" /\ One!Work)
  /\ SF_vars(part = "one vehicle" /\ \E o \in Ops, m \in Machines :
                Up(m) /\ One!RequestAdmitted(o, m))
  /\ SF_vars(part = "one vehicle" /\ \E t \in Tasks : One!AssignTransfer(a1, t))
  /\ \A m \in Machines : SF_vars(part = "one vehicle" /\ One!RepairMachine(m))
  /\ SF_vars(part = "one vehicle" /\ One!RepairAgv(a1))
  /\ WF_<<thePackets>>(part = "packets" /\ P!ThreadStep)

PartsSpec ==
  PartsInit /\ [][PartsNext]_<<part, vars, thePackets>> /\ PartsFairness

\* With the one vehicle everything is delivered, and the packet factory comes to
\* the end of its jobs.
AllJobsEnd ==
  /\ part = "one vehicle" => EverythingIsDelivered
  /\ part = "packets" => P!RunsComeToAnEnd
=============================================================================
