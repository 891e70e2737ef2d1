----------------------------- MODULE MCFloors -----------------------------
(***************************************************************************)
(* What happens to a shop floor from outside, side by side: the            *)
(* disruptions of the grid factory, and the commands to the packet         *)
(* factory.  Each has variables of its own, of which only those of one     *)
(* move in a behaviour.                                                    *)
(***************************************************************************)
EXTENDS Disruptions, PacketFactory, TLC

CONSTANTS a1, c1, c2, s1, s2

VARIABLE part          \* the one that moves

\*  0 1 2      with the machine at 2
\*  3 4
Corner == (0 :> {1, 3} @@ 1 :> {0, 2, 4} @@ 2 :> {1} @@ 3 :> {0, 4} @@ 4 :> {1, 3})
Event(n, when, ty, t, d) ==
  [id |-> <<"configured", n>>, step |-> when, type |-> ty, target |-> t, duration |-> d]
ThreeEvents == {Event(1, 0, "obstacle", 3, 0), Event(2, 1, "obstacle", 0, 2),
                Event(3, 2, "breakdown", a1, 2)}

\* A job of two operations, the second for s1 only; it can be added again.
OneJob == (1 :> <<(s1 :> 2 @@ s2 :> 1), (s1 :> 1 @@ s2 :> 0)>>)
JustOne == <<1>>
CartAt == (c1 :> 1 @@ c2 :> 2)
StationAt == (s1 :> 1 @@ s2 :> 2)
TwoApart == [p \in {1, 2} |-> [q \in {1, 2} |-> IF p = q THEN 0 ELSE 2]]

Undisturbed == ~enabled /\ positions_xy = (a1 :> 0)

PartsInit ==
  /\ part \in {"grid", "packets"}
  /\ DisruptionsInit /\ PacketInit
  /\ part = "packets" => Undisturbed

\* Episodes and commands may come to an end.
PartsNext ==
  /\ UNCHANGED part
  /\ \/ part = "grid" /\ DisruptionsNext /\ UNCHANGED packetVars
     \/ part = "packets" /\ PacketNext /\ UNCHANGED disruptionVars
     \/ UNCHANGED <<disruptionVars, packetVars>>

PartsSpec == PartsInit /\ [][PartsNext]_<<part, disruptionVars, packetVars>>

\* What is scheduled happens, once and in its step, and the state that is shown
\* next has taken it into account.
EventsTakeEffect == ScheduleIsKept /\ DistancesAreCurrent

\* The types of both.
PartsTypeOK == DisruptionsTypeOK /\ PacketTypeOK
=============================================================================
