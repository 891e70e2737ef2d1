--------------------------- MODULE MCBufferSafety ---------------------------
(* The admission test on all claims of three jobs that fit the buffers of  *)
(* two machines, and all needs.  Beside it, the life of three workpieces   *)
(* in the same factory, and the ways of five vehicles on a floor of two    *)
(* rows of three cells, a machine in one of them.                          *)
EXTENDS Workpiece, Pibt, Sequences, TLC

CONSTANTS j1, j2, j3, m1, m2, v1, v2, v3, v4, v5

VARIABLES
  claims, needs,
  part                 \* which of them moves: they share nothing else

INSTANCE DrainOrder    \* with the jobs, machines and capacities of Workpiece

OneAndTwo == (m1 :> 1 @@ m2 :> 2)
MCNumOps == (j1 :> 2 @@ j2 :> 2 @@ j3 :> 1)
MCOptions == [o \in Jobs \X (0..1) |->
                IF o[1] = j3 THEN {m1, m2}
                ELSE IF (o[1] = j1) = (o[2] = 0) THEN {m1} ELSE {m2}]

Square(n) == n * n
Grid == [c \in Cells |->
           {d \in Cells : Square((c % 3) - (d % 3)) + Square(c \div 3 - d \div 3) = 1}]
Symmetry == Permutations(Vehicles)

ASSUME FloorHasCircuits == RoadsReturn

NoClaims == claims = [m \in Machines |-> {}] /\ needs = [j \in Jobs |-> {}]
Parked == NothingPlanned /\ position = (v1 :> 0 @@ v2 :> 1 @@ v3 :> 2 @@ v4 :> 3 @@ v5 :> 4)

PartsInit ==
  /\ Init
  /\ \/ part = "drain" /\ AnyClaims /\ Parked
     \/ part = "workpiece" /\ NoClaims /\ Parked
     \/ part = "pibt" /\ NoClaims /\ PibtInit

PartsNext ==
  /\ UNCHANGED part
  /\ \/ part = "drain" /\ DrainOne /\ UNCHANGED <<pieceVars, pibtVars>>
     \/ part = "workpiece" /\ Next /\ UNCHANGED <<claims, needs, pibtVars>>
     \/ part = "pibt" /\ PibtNext /\ UNCHANGED <<pieceVars, claims, needs>>

PartsSpec ==
  PartsInit /\ [][PartsNext]_<<part, pieceVars, claims, needs, pibtVars>>

=============================================================================
