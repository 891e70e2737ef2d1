----------------------------- MODULE MCFactory -----------------------------
(* Small factories for Factory: which jobs there are, where they may be    *)
(* processed, and the grid.                                                *)
EXTENDS FactoryWorkpieces, TLC

CONSTANTS j1, j2, m1, m2, a1, a2

\* A 2 x 3 grid without obstacles:   raw  m1  out
\*                                   c1   m2  c2
MCCells == {"raw", "m1", "out", "c1", "m2", "c2"}
Neighbours == {{"raw", "m1"}, {"m1", "out"}, {"c1", "m2"}, {"m2", "c2"},
               {"raw", "c1"}, {"m1", "m2"}, {"out", "c2"}}
MCAdj == {e \in MCCells \X MCCells : {e[1], e[2]} \in Neighbours}
MCLocation == (m1 :> "m1" @@ m2 :> "m2")
MCStart == (a1 :> "c1" @@ a2 :> "c2")
OneStart == (a1 :> "c1")

\* A single row:  raw  m1  out
RowCells == {"raw", "m1", "out"}
RowAdj == {<<"raw", "m1">>, <<"m1", "raw">>, <<"m1", "out">>, <<"out", "m1">>}
RowLocation == (m1 :> "m1")
RowStart == (a1 :> "raw")

\* A square:   raw  m1
\*             m2   out
SquareCells == {"raw", "m1", "m2", "out"}
SquareAdj == {e \in SquareCells \X SquareCells :
                {e[1], e[2]} \in {{"raw", "m1"}, {"m2", "out"},
                                 {"raw", "m2"}, {"m1", "out"}}}
SquareStart == (a1 :> "m2" @@ a2 :> "out")

OneOp == [j \in Jobs |-> 1]
TwoOps == [j \in Jobs |-> 2]
OneAndTwo == (j1 :> 1 @@ j2 :> 2)

AnyMachine == [o \in Ops |-> Machines]
\* Two jobs that visit the two machines in opposite order.
Crossing == [o \in Ops |-> IF (o[1] = j1) = (o[2] = 0) THEN {m1} ELSE {m2}]

Equal == [j \in Jobs |-> 0]
UrgentSecond == (j1 :> 0 @@ j2 :> 200)

UnitCapacity == [m \in Machines |-> 1]
PairCapacity == [m \in Machines |-> 2]
=============================================================================
