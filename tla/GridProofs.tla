---------------------------- MODULE GridProofs ----------------------------
(***************************************************************************)
(* Proofs about two specifications of the grid factory that stand by       *)
(* themselves: the life of a workpiece, and the plans of PIBT.             *)
(***************************************************************************)
EXTENDS Workpiece, Pibt, FiniteSetTheorems, TLAPS

(***************************************************************************)
(* The life of a workpiece: on every floor, a machine serves or holds one  *)
(* workpiece at a time, stores no more than its buffer holds, and serves   *)
(* what it is eligible for.  The inductive invariant adds to the types     *)
(* where a workpiece on a vehicle, and one in service, may be.             *)
(***************************************************************************)

\* A workpiece on a vehicle, or shipped, is at no machine; one in service is.
Whereabouts ==
  \A j \in Jobs :
    /\ place[j] \in {"carried", "shipped"} => at[j] = None
    /\ place[j] \in {"served", "held", "suspended"} => at[j] \in Machines

\* One workpiece occupies a machine, and its buffer is not overfull.
Exclusive ==
  \A m \in Machines : \A j, k \in Jobs :
    /\ at[j] = m /\ place[j] \in {"served", "held"}
    /\ at[k] = m /\ place[k] \in {"served", "held"}
    => j = k
BufferFits == \A m \in Machines : Cardinality(Stored(m)) <= Capacity[m]

IInv == TypeOK /\ Whereabouts /\ Exclusive /\ BufferFits /\ ServedWhereDue

-----------------------------------------------------------------------------
\* Stored(m) is a finite set of workpieces, whatever m.
LEMMA StoredFinite ==
  ASSUME NEW m
  PROVE  IsFiniteSet(Stored(m)) /\ Cardinality(Stored(m)) \in Nat
<1>1. Stored(m) \subseteq Jobs  BY DEF Stored
<1> QED  BY <1>1, WorkpieceFinite, FS_Subset, FS_CardinalityType

\* A buffer that gains no workpiece is not overfull after the step.
LEMMA NoneGained ==
  ASSUME BufferFits, NEW m \in Machines, Stored(m)' \subseteq Stored(m)
  PROVE  Cardinality(Stored(m)') <= Capacity[m]
<1>1. Cardinality(Stored(m)') <= Cardinality(Stored(m))
  BY StoredFinite, FS_Subset
<1>2. IsFiniteSet(Stored(m)') /\ Cardinality(Stored(m)') \in Nat
  BY StoredFinite, FS_Subset, FS_CardinalityType
<1> QED  BY <1>1, <1>2, StoredFinite, WorkpieceConstants DEF BufferFits

\* A buffer with a free slot may gain one workpiece.
LEMMA OneGained ==
  ASSUME NEW m \in Machines, NEW j \in Jobs, HasSlot(m),
         Stored(m)' \subseteq Stored(m) \cup {j}
  PROVE  Cardinality(Stored(m)') <= Capacity[m]
<1>1. /\ IsFiniteSet(Stored(m) \cup {j})
      /\ Cardinality(Stored(m) \cup {j}) <= Cardinality(Stored(m)) + 1
      /\ Cardinality(Stored(m) \cup {j}) \in Nat
  <2>1. CASE j \in Stored(m)
    <3>1. Stored(m) \cup {j} = Stored(m)  BY <2>1
    <3> QED  BY <3>1, StoredFinite
  <2>2. CASE j \notin Stored(m)
    BY <2>2, StoredFinite, FS_AddElement
  <2> QED  BY <2>1, <2>2
<1>2. /\ Cardinality(Stored(m)') <= Cardinality(Stored(m) \cup {j})
      /\ Cardinality(Stored(m)') \in Nat
  BY <1>1, FS_Subset, FS_CardinalityType
<1>3. Cardinality(Stored(m)) + 1 <= Capacity[m]
  BY StoredFinite, WorkpieceConstants DEF HasSlot
<1> QED  BY <1>1, <1>2, <1>3, StoredFinite, WorkpieceConstants

\* The buffers after a step in the life of j that keeps it out of them.
LEMMA LeavesBuffers ==
  ASSUME BufferFits, NEW j \in Jobs, place'[j] # "stored",
         \A k \in Jobs \ {j} : place'[k] = place[k] /\ at'[k] = at[k]
  PROVE  BufferFits'
<1> SUFFICES ASSUME NEW m \in Machines
             PROVE  Cardinality(Stored(m)') <= Capacity[m]
  BY DEF BufferFits
<1>1. Stored(m)' \subseteq Stored(m)  BY DEF Stored
<1> QED  BY <1>1, NoneGained

\* The buffers after a step that puts j into the buffer of m, which has room.
LEMMA EntersBuffer ==
  ASSUME BufferFits, NEW j \in Jobs, NEW m \in Machines, at'[j] = m, HasSlot(m),
         \A k \in Jobs \ {j} : place'[k] = place[k] /\ at'[k] = at[k]
  PROVE  BufferFits'
<1> SUFFICES ASSUME NEW n \in Machines
             PROVE  Cardinality(Stored(n)') <= Capacity[n]
  BY DEF BufferFits
<1>1. CASE n = m
  <2>1. Stored(n)' \subseteq Stored(n) \cup {j}  BY DEF Stored
  <2> QED  BY <1>1, <2>1, OneGained
<1>2. CASE n # m
  <2>1. Stored(n)' \subseteq Stored(n)  BY <1>2 DEF Stored
  <2> QED  BY <2>1, NoneGained
<1> QED  BY <1>1, <1>2

-----------------------------------------------------------------------------
LEMMA InvInit == Init => IInv
<1> SUFFICES ASSUME Init PROVE IInv  OBVIOUS
<1>1. TypeOK /\ Whereabouts /\ Exclusive /\ ServedWhereDue
  BY WorkpieceConstants
  DEF Init, TypeOK, Whereabouts, Exclusive, ServedWhereDue, Places
<1>2. BufferFits
  <2> SUFFICES ASSUME NEW m \in Machines
               PROVE  Cardinality(Stored(m)) <= Capacity[m]
    BY DEF BufferFits
  <2>1. Stored(m) = {}  BY WorkpieceConstants DEF Init, Stored
  <2> QED  BY <2>1, FS_EmptySet, WorkpieceConstants
<1> QED  BY <1>1, <1>2 DEF IInv

\* Picking up, shipping and suspending take j from its place or leave it there.
LEMMA AwayStep ==
  ASSUME IInv, NEW j \in Jobs, PickUp(j) \/ Ship(j) \/ Suspend(j)
  PROVE  IInv'
<1>1. TypeOK'
  BY DEF IInv, TypeOK, Places, PickUp, Ship, Suspend
<1>2. Whereabouts'
  BY DEF IInv, TypeOK, Whereabouts, PickUp, Ship, Suspend
<1>3. Exclusive'
  BY DEF IInv, TypeOK, Exclusive, PickUp, Ship, Suspend
<1>4. BufferFits'
  BY LeavesBuffers DEF IInv, TypeOK, PickUp, Ship, Suspend
<1>5. ServedWhereDue'
  BY DEF IInv, TypeOK, Whereabouts, ServedWhereDue, PickUp, Ship, Suspend
<1> QED  BY <1>1, <1>2, <1>3, <1>4, <1>5 DEF IInv

\* A workpiece put down enters a buffer in which there is room.
LEMMA PutDownStep ==
  ASSUME IInv, NEW j \in Jobs, NEW m \in Machines, PutDown(j, m)
  PROVE  IInv'
<1>1. TypeOK'  BY DEF IInv, TypeOK, Places, PutDown
<1>2. Whereabouts'  BY DEF IInv, TypeOK, Whereabouts, PutDown
<1>3. Exclusive'  BY DEF IInv, TypeOK, Exclusive, PutDown
<1>4. BufferFits'
  BY EntersBuffer DEF IInv, TypeOK, PutDown
<1>5. ServedWhereDue'
  BY DEF IInv, TypeOK, ServedWhereDue, PutDown
<1> QED  BY <1>1, <1>2, <1>3, <1>4, <1>5 DEF IInv

\* A finished workpiece returns to the buffer of its machine if there is room,
\* or occupies the machine, which was its own or free.
LEMMA FinishStep ==
  ASSUME IInv, NEW j \in Jobs, NEW m \in Machines, NEW slot \in BOOLEAN,
         at[j] = m, place[j] \in {"stored", "served", "suspended"},
         at[j] \in Options[<<j, done[j]>>],
         slot => place[j] = "stored" \/ HasSlot(m),
         ~slot => \A k \in Jobs : at[k] = m /\ place[k] \in {"served", "held"}
                                  => k = j,
         Finish(j, slot), UNCHANGED at
  PROVE  IInv'
<1>1. TypeOK'
  BY DEF IInv, TypeOK, Places, Finish
<1>2. Whereabouts'
  BY DEF IInv, TypeOK, Whereabouts, Finish
<1>3. Exclusive'
  BY DEF IInv, TypeOK, Exclusive, Finish
<1>4. BufferFits'
  <2> DEFINE Rest == \A k \in Jobs \ {j} : place'[k] = place[k] /\ at'[k] = at[k]
  <2>1. Rest  BY DEF IInv, TypeOK, Finish
  <2>2. CASE ~slot
    <3>1. place'[j] # "stored"  BY <2>2 DEF IInv, TypeOK, Finish
    <3> QED  BY <2>1, <3>1, LeavesBuffers DEF IInv
  <2>3. CASE slot /\ HasSlot(m)
    BY <2>1, <2>3, EntersBuffer DEF IInv
  <2>4. CASE slot /\ place[j] = "stored"
    <3>1. \A n : Stored(n)' = Stored(n)
      BY <2>4 DEF IInv, TypeOK, Stored, Finish
    <3> QED  BY <3>1, NoneGained DEF IInv, BufferFits
  <2> QED  BY <2>2, <2>3, <2>4
<1>5. ServedWhereDue'
  <2> SUFFICES ASSUME NEW k \in Jobs
               PROVE  /\ place'[k] \in {"served", "suspended"}
                           => at'[k] \in Options[<<k, done'[k]>>]
                      /\ place'[k] = "held" => at'[k] \in Options[<<k, done'[k] - 1>>]
                      /\ place'[k] = "shipped" => done'[k] = NumOps[k] /\ at'[k] = None
    BY DEF ServedWhereDue
  <2>1. CASE k = j
    <3>1. done'[j] - 1 = done[j]  BY DEF IInv, TypeOK, Finish
    <3>2. place'[j] \in {"stored", "held"} /\ at'[j] = at[j]
      BY DEF IInv, TypeOK, Finish
    <3> QED  BY <2>1, <3>1, <3>2
  <2>2. CASE k # j
    BY <2>2 DEF IInv, TypeOK, ServedWhereDue, Finish
  <2> QED  BY <2>1, <2>2
<1> QED  BY <1>1, <1>2, <1>3, <1>4, <1>5 DEF IInv

\* The end of a service.
LEMMA CompleteStep ==
  ASSUME IInv, NEW j \in Jobs, Complete(j)
  PROVE  IInv'
<1>1. at[j] \in Machines /\ at[j] \in Options[<<j, done[j]>>]
  BY DEF IInv, Whereabouts, ServedWhereDue, Complete
<1>2. \A k \in Jobs : at[k] = at[j] /\ place[k] \in {"served", "held"} => k = j
  BY <1>1 DEF IInv, Exclusive, Complete
<1> DEFINE slot == HasSlot(at[j])
<1>3. slot \in BOOLEAN  BY DEF HasSlot
<1>4. Finish(j, slot) /\ UNCHANGED at /\ place[j] = "served"  BY DEF Complete
<1> HIDE DEF slot
<1>5. slot => HasSlot(at[j])  BY DEF slot
<1> QED  BY <1>1, <1>2, <1>3, <1>4, <1>5, FinishStep

\* A unit of service on a machine that is free: it begins the service, goes on
\* with it, or finishes it at once.
LEMMA ServeStep ==
  ASSUME IInv, NEW j \in Jobs, NEW m \in Machines, Serve(j, m)
  PROVE  IInv'
<1> DEFINE Begins == place' = [place EXCEPT ![j] = "served"] /\ UNCHANGED done
           slot == place[j] = "stored" \/ HasSlot(m)
<1>1. /\ place[j] \in {"stored", "suspended"} /\ at[j] = m
      /\ at[j] \in Options[<<j, done[j]>>]
      /\ UNCHANGED at
  BY DEF Serve, Due
<1>2. \A k \in Jobs : ~(at[k] = m /\ place[k] \in {"served", "held"})
  BY DEF Serve, Occupied
<1>3. CASE Begins
  <2>1. TypeOK'  BY <1>1, <1>3 DEF IInv, TypeOK, Places
  <2>2. Whereabouts'  BY <1>1, <1>3 DEF IInv, TypeOK, Whereabouts
  <2>3. Exclusive'  BY <1>1, <1>2, <1>3 DEF IInv, TypeOK, Exclusive
  <2>4. BufferFits'  BY <1>1, <1>3, LeavesBuffers DEF IInv, TypeOK
  <2>5. ServedWhereDue'
    BY <1>1, <1>3 DEF IInv, TypeOK, ServedWhereDue
  <2> QED  BY <2>1, <2>2, <2>3, <2>4, <2>5 DEF IInv
<1>4. CASE Finish(j, slot)
  <2>1. slot \in BOOLEAN  BY DEF HasSlot
  <2> HIDE DEF slot
  <2>2. slot => place[j] = "stored" \/ HasSlot(m)  BY DEF slot
  <2> QED  BY <1>1, <1>2, <1>4, <2>1, <2>2, FinishStep
<1> QED  BY <1>3, <1>4 DEF Serve

\* A workpiece held on its machine leaves it for the buffer.
LEMMA LeaveStep ==
  ASSUME IInv, NEW j \in Jobs, Leave(j)
  PROVE  IInv'
<1>1. TypeOK'  BY DEF IInv, TypeOK, Places, Leave
<1>2. Whereabouts'  BY DEF IInv, TypeOK, Whereabouts, Leave
<1>3. Exclusive'  BY DEF IInv, TypeOK, Exclusive, Leave
<1>4. BufferFits'
  <2>1. at[j] \in Machines  BY DEF IInv, Whereabouts, Leave
  <2> QED  BY <2>1, EntersBuffer DEF IInv, TypeOK, Leave
<1>5. ServedWhereDue'  BY DEF IInv, TypeOK, ServedWhereDue, Leave
<1> QED  BY <1>1, <1>2, <1>3, <1>4, <1>5 DEF IInv

LEMMA InvNext == IInv /\ [Next]_pieceVars => IInv'
<1> SUFFICES ASSUME IInv, [Next]_pieceVars PROVE IInv'  OBVIOUS
<1>1. CASE UNCHANGED pieceVars
  <2>1. \A m : Stored(m)' = Stored(m)  BY <1>1 DEF Stored, pieceVars
  <2>2. BufferFits'  BY <2>1 DEF IInv, BufferFits
  <2> QED
    BY <1>1, <2>2
    DEF pieceVars, IInv, TypeOK, Whereabouts, Exclusive, ServedWhereDue
<1>2. ASSUME NEW j \in Jobs, PickUp(j) \/ Ship(j) \/ Suspend(j) PROVE IInv'
  BY <1>2, AwayStep
<1>3. ASSUME NEW j \in Jobs, Complete(j) PROVE IInv'  BY <1>3, CompleteStep
<1>4. ASSUME NEW j \in Jobs, Leave(j) PROVE IInv'  BY <1>4, LeaveStep
<1>5. ASSUME NEW j \in Jobs, NEW m \in Machines, PutDown(j, m) PROVE IInv'
  BY <1>5, PutDownStep
<1>6. ASSUME NEW j \in Jobs, NEW m \in Machines, Serve(j, m) PROVE IInv'
  BY <1>6, ServeStep
<1> QED  BY <1>1, <1>2, <1>3, <1>4, <1>5, <1>6 DEF Next

\* A machine serves or holds one workpiece, stores no more than its buffer
\* holds, and serves only what is due there: whatever is carried where, and
\* however often a service is interrupted (Machine.current_op, buffer_jobs).
THEOREM MachinesServeInTurn == Spec => []ServesInTurn
<1>1. IInv => ServesInTurn
  BY DEF IInv, Exclusive, BufferFits, ServesInTurn, OneAtATime
<1> QED  BY <1>1, InvInit, InvNext, PTL DEF Spec

-----------------------------------------------------------------------------
(***************************************************************************)
(* For any road network, any fleet and any sequence of plans: what PIBT    *)
(* plans can be carried out.  In the middle of a plan two vehicles may     *)
(* have chosen the same cell: one that could not make way, and the one     *)
(* that asked it to and is about to look for another cell.  The invariant  *)
(* says that there is never another such pair.                             *)
(*                                                                         *)
(* Where every road is part of a circuit, the vehicle that is asked first  *)
(* gets the cell it wants.  For if all it caused to be asked were to give  *)
(* up, the cells of those would be closed under Adjacent, but for the cell *)
(* of the first, and only its own choice would border on that one.         *)
(***************************************************************************)

\* No two vehicles are in a cell.
Apart == \A a, b \in Vehicles : position[a] = position[b] => a = b

\* What is chosen is reserved.
ChosenIsReserved == \A a \in Vehicles : chosen[a] # Nil => chosen[a] \in reserved

\* Only the vehicle whose loop goes on may have chosen what another has.
ClashIsRunning ==
  \A a, b \in Vehicles : chosen[a] = chosen[b] /\ chosen[a] # Nil /\ a # b
                           => running \in {a, b}

\* On the stack of inherit: running, or waiting for one it called.
Open(a) == running = a \/ \E d \in Vehicles : caller[d] = a

\* The cell of a vehicle that has no choice yet, or may lose it, is chosen by no
\* other than the vehicle that asked it to make way.
OnlyCallerTakes ==
  \A a, x \in Vehicles :
    chosen[x] = position[a] /\ x # a /\ (chosen[a] = Nil \/ Open(a)) => caller[a] = x

\* The shape of the stack.
StackIsLinear ==
  /\ \A d, e \in Vehicles : caller[d] = caller[e] /\ caller[d] # Nil => d = e
  /\ \A d \in Vehicles : caller[d] # Nil =>
       /\ caller[d] # running
       /\ chosen[caller[d]] # Nil
       /\ chosen[d] # Nil \/ running = d

FrozenStay == \A a \in frozen : chosen[a] = position[a] /\ ~Open(a)

LegalSoFar == \A a \in Vehicles :
                /\ left[a] \subseteq Candidates(a)
                /\ chosen[a] # Nil => /\ chosen[a] \in Candidates(a)
                                      /\ chosen[a] = forbidden[a] => chosen[a] = position[a]

NoneBetween == ~planning => /\ running = Nil /\ frozen = {}
                            /\ \A a \in Vehicles : caller[a] = Nil

PibtInv == /\ PibtTypeOK /\ Apart /\ ChosenIsReserved /\ ClashIsRunning
           /\ OnlyCallerTakes /\ StackIsLinear /\ NoSwap /\ FrozenStay
           /\ LegalSoFar /\ NoneBetween

-----------------------------------------------------------------------------
LEMMA CandidatesAreCells ==
  ASSUME PibtTypeOK, NEW a \in Vehicles PROVE Candidates(a) \subseteq Cells
BY RoadConstants DEF PibtTypeOK, Candidates

LEMMA OccupantIsThere ==
  ASSUME PibtTypeOK, Apart, NEW c \in Cells, NEW b \in Vehicles, position[b] = c
  PROVE  Occupant(c) = b
BY DEF Occupant, Apart, PibtTypeOK

LEMMA InitPibt == PibtInit => PibtInv
<1> SUFFICES ASSUME PibtInit PROVE PibtInv
  OBVIOUS
<1> USE RoadConstants DEF PibtInit, NothingPlanned
<1>1. PibtTypeOK /\ Apart
  BY DEF PibtTypeOK, Apart
<1>2. ChosenIsReserved /\ ClashIsRunning /\ NoSwap
  BY DEF ChosenIsReserved, ClashIsRunning, NoSwap
<1>3. OnlyCallerTakes /\ StackIsLinear
  BY DEF OnlyCallerTakes, StackIsLinear
<1>4. FrozenStay /\ LegalSoFar /\ NoneBetween
  BY DEF FrozenStay, LegalSoFar, NoneBetween
<1> QED BY <1>1, <1>2, <1>3, <1>4 DEF PibtInv

LEMMA StartPlanKeeps == PibtInv /\ StartPlan => PibtInv'
<1> SUFFICES ASSUME PibtInv, StartPlan PROVE PibtInv'
  OBVIOUS
<1> USE RoadConstants DEF PibtInv, StartPlan
<1>1. PibtTypeOK'
  BY DEF PibtTypeOK
<1>2. Apart' /\ NoneBetween'
  BY DEF Apart, NoneBetween
<1>3. \A a \in Vehicles : caller[a] = Nil /\ running = Nil
  BY DEF NoneBetween
<1>4. \A a \in Vehicles : chosen'[a] # Nil => a \in frozen' /\ chosen'[a] = position[a]
  OBVIOUS
<1>5. ChosenIsReserved' /\ ClashIsRunning' /\ NoSwap'
  BY <1>4 DEF ChosenIsReserved, ClashIsRunning, NoSwap, Apart, PibtTypeOK
<1>6. OnlyCallerTakes'
  BY <1>4 DEF OnlyCallerTakes, Apart, PibtTypeOK
<1>7. StackIsLinear'
  BY <1>3 DEF StackIsLinear
<1>8. FrozenStay'
  BY <1>3 DEF FrozenStay, Open
<1>9. LegalSoFar'
  BY <1>4 DEF LegalSoFar, Candidates
<1> QED BY <1>1, <1>2, <1>5, <1>6, <1>7, <1>8, <1>9

LEMMA AskNextKeeps ==
  ASSUME PibtInv, NEW a \in Vehicles, AskNext(a) PROVE PibtInv'
<1> USE RoadConstants DEF PibtInv, AskNext, Ask
<1>1. caller[a] = Nil /\ \A d \in Vehicles : caller[d] # a
  BY DEF StackIsLinear, PibtTypeOK
<1>2. \A d \in Vehicles : caller'[d] = caller[d]
  BY <1>1 DEF PibtTypeOK
<1>3. PibtTypeOK'
  BY CandidatesAreCells DEF PibtTypeOK
<1>4. Apart' /\ ChosenIsReserved' /\ ClashIsRunning' /\ NoSwap' /\ NoneBetween'
  BY DEF Apart, ChosenIsReserved, ClashIsRunning, NoSwap, NoneBetween
<1>5. \A b \in Vehicles : Open(b)' => b = a \/ Open(b)
  BY <1>2 DEF Open
<1>6. OnlyCallerTakes'
  BY <1>2, <1>5 DEF OnlyCallerTakes
<1>7. StackIsLinear'
  BY <1>1, <1>2 DEF StackIsLinear
<1>8. FrozenStay'
  BY <1>5 DEF FrozenStay, PibtTypeOK
<1>9. LegalSoFar'
  BY DEF LegalSoFar, Candidates, PibtTypeOK
<1> QED BY <1>3, <1>4, <1>6, <1>7, <1>8, <1>9

LEMMA TryKeeps ==
  ASSUME PibtInv, NEW a \in Vehicles, NEW c \in Cells, Try(a, c) PROVE PibtInv'
<1> DEFINE other == Occupant(c)
<1> DEFINE pushes == other # Nil /\ chosen'[other] = Nil
<1> USE RoadConstants DEF PibtInv
<1>1. /\ running = a /\ c \in left[a] /\ c \notin reserved /\ c # forbidden[a]
      /\ ~WouldSwap(a, c)
      /\ chosen' = [chosen EXCEPT ![a] = c] /\ reserved' = reserved \cup {c}
      /\ UNCHANGED <<position, planning, frozen, forbidden>>
  BY DEF Try, Admissible
<1>2. other \in Vehicles \cup {Nil} /\ (other # Nil => position[other] = c)
  BY DEF Occupant
<1>3. CASE pushes
  <2>1. /\ running' = other /\ other \in Vehicles /\ other # a /\ chosen[other] = Nil
        /\ caller' = [caller EXCEPT ![other] = a]
        /\ left' = [left EXCEPT ![a] = @ \ {c}, ![other] = Candidates(other)]
    BY <1>1, <1>2, <1>3 DEF Try, PibtTypeOK
  <2>2. PibtTypeOK'
    BY <1>1, <2>1, CandidatesAreCells DEF PibtTypeOK
  <2>3. Apart' /\ NoneBetween'
    BY <1>1, <2>1 DEF Apart, NoneBetween
  <2>4. ChosenIsReserved'
    BY <1>1 DEF ChosenIsReserved, PibtTypeOK
  <2>5. ClashIsRunning'
    BY <1>1 DEF ClashIsRunning, ChosenIsReserved, PibtTypeOK
  <2>6. NoSwap'
    BY <1>1 DEF NoSwap, WouldSwap, PibtTypeOK
  <2>7. \A b \in Vehicles : Open(b)' => b = other \/ Open(b)
    BY <1>1, <2>1 DEF Open, PibtTypeOK
  <2>8. OnlyCallerTakes'
    <3> SUFFICES ASSUME NEW b \in Vehicles, NEW x \in Vehicles, x # b,
                        chosen'[x] = position[b], chosen'[b] = Nil \/ Open(b)'
                 PROVE  caller'[b] = x
      BY <1>1 DEF OnlyCallerTakes
    <3>1. CASE x = a
      BY <1>1, <1>2, <2>1, <3>1 DEF Apart, PibtTypeOK
    <3>2. CASE x # a /\ b = other
      BY <1>1, <1>2, <2>1, <3>2 DEF ChosenIsReserved, PibtTypeOK
    <3>3. CASE x # a /\ b # other
      <4>1. chosen[x] = position[b] /\ (chosen[b] = Nil \/ Open(b))
        BY <1>1, <2>7, <3>3 DEF PibtTypeOK, Open
      <4> QED BY <2>1, <3>3, <4>1 DEF OnlyCallerTakes, PibtTypeOK
    <3> QED BY <3>1, <3>2, <3>3
  <2>9. StackIsLinear'
    <3>1. \A d \in Vehicles : caller[d] # a /\ caller[d] # other
      BY <1>1, <2>1 DEF StackIsLinear
    <3> QED BY <1>1, <2>1, <3>1 DEF StackIsLinear, PibtTypeOK
  <2>10. FrozenStay'
    <3>1. \A b \in frozen : b # a /\ b # other
      BY <1>1, <2>1 DEF FrozenStay, Open, PibtTypeOK
    <3> QED BY <1>1, <2>7, <3>1 DEF FrozenStay, PibtTypeOK
  <2>11. LegalSoFar'
    BY <1>1, <2>1 DEF LegalSoFar, Candidates, PibtTypeOK
  <2> QED BY <2>2, <2>3, <2>4, <2>5, <2>6, <2>8, <2>9, <2>10, <2>11
<1>4. CASE ~pushes
  <2>1. /\ running' = Nil /\ left' = [b \in Vehicles |-> {}]
        /\ caller' = [b \in Vehicles |-> Nil]
    BY <1>4 DEF Try
  <2>2. PibtTypeOK'
    BY <1>1, <2>1 DEF PibtTypeOK
  <2>3. Apart' /\ NoneBetween'
    BY <1>1, <2>1 DEF Apart, NoneBetween
  <2>4. ChosenIsReserved'
    BY <1>1 DEF ChosenIsReserved, PibtTypeOK
  <2>5. ClashIsRunning'
    BY <1>1 DEF ClashIsRunning, ChosenIsReserved, PibtTypeOK
  <2>6. NoSwap'
    BY <1>1 DEF NoSwap, WouldSwap, PibtTypeOK
  <2>7. \A b \in Vehicles : ~Open(b)'
    BY <2>1 DEF Open
  <2>8. OnlyCallerTakes'
    <3> SUFFICES ASSUME NEW b \in Vehicles, NEW x \in Vehicles, x # b,
                        chosen'[x] = position[b], chosen'[b] = Nil
                 PROVE  FALSE
      BY <1>1, <2>7 DEF OnlyCallerTakes
    <3>1. b # a /\ chosen[b] = Nil
      BY <1>1 DEF PibtTypeOK
    <3>2. CASE x = a
      BY <1>1, <1>2, <1>4, <3>1, <3>2, OccupantIsThere DEF PibtTypeOK
    <3>3. CASE x # a
      BY <1>1, <3>1, <3>3 DEF OnlyCallerTakes, StackIsLinear, PibtTypeOK
    <3> QED BY <3>2, <3>3
  <2>9. StackIsLinear'
    BY <2>1 DEF StackIsLinear
  <2>10. FrozenStay'
    BY <1>1, <2>7 DEF FrozenStay, Open, PibtTypeOK
  <2>11. LegalSoFar'
    BY <1>1, <2>1 DEF LegalSoFar, Candidates, PibtTypeOK
  <2> QED BY <2>2, <2>3, <2>4, <2>5, <2>6, <2>8, <2>9, <2>10, <2>11
<1> QED BY <1>3, <1>4

LEMMA GiveUpKeeps ==
  ASSUME PibtInv, NEW a \in Vehicles, GiveUp(a) PROVE PibtInv'
<1> USE RoadConstants DEF PibtInv
<1>1. /\ running = a
      /\ chosen' = [chosen EXCEPT ![a] = position[a]]
      /\ reserved' = reserved \cup {position[a]}
      /\ running' = caller[a]
      /\ caller' = [caller EXCEPT ![a] = Nil]
      /\ left' = [left EXCEPT ![a] = {}]
      /\ UNCHANGED <<position, planning, frozen, forbidden>>
  BY DEF GiveUp
<1>2. PibtTypeOK'
  BY <1>1 DEF PibtTypeOK
<1>3. Apart' /\ NoneBetween'
  BY <1>1 DEF Apart, NoneBetween
<1>4. ChosenIsReserved'
  BY <1>1 DEF ChosenIsReserved, PibtTypeOK
<1>5. \A x \in Vehicles : x # a /\ chosen[x] = position[a] => caller[a] = x
  BY <1>1 DEF OnlyCallerTakes, Open
<1>6. ClashIsRunning'
  BY <1>1, <1>5 DEF ClashIsRunning, PibtTypeOK
<1>7. NoSwap'
  BY <1>1 DEF NoSwap, Apart, PibtTypeOK
<1>8. \A d \in Vehicles : caller[d] # a
  BY <1>1 DEF StackIsLinear
<1>9. \A b \in Vehicles : Open(b)' => Open(b) /\ b # a
  BY <1>1, <1>8 DEF Open, PibtTypeOK
<1>10. OnlyCallerTakes'
  <2> SUFFICES ASSUME NEW b \in Vehicles, NEW x \in Vehicles, x # b,
                      chosen'[x] = position[b], chosen'[b] = Nil \/ Open(b)'
               PROVE  caller'[b] = x
    BY <1>1 DEF OnlyCallerTakes
  <2>1. b # a
    BY <1>1, <1>9 DEF PibtTypeOK
  <2>2. x # a
    BY <1>1, <2>1 DEF Apart, PibtTypeOK
  <2>3. chosen[x] = position[b] /\ (chosen[b] = Nil \/ Open(b))
    BY <1>1, <1>9, <2>1, <2>2 DEF PibtTypeOK
  <2> QED BY <1>1, <2>1, <2>3 DEF OnlyCallerTakes, PibtTypeOK
<1>11. StackIsLinear'
  BY <1>1, <1>8 DEF StackIsLinear, PibtTypeOK
<1>12. FrozenStay'
  BY <1>1, <1>9 DEF FrozenStay, Open, PibtTypeOK
<1>13. LegalSoFar'
  BY <1>1 DEF LegalSoFar, Candidates, PibtTypeOK
<1> QED BY <1>2, <1>3, <1>4, <1>6, <1>7, <1>10, <1>11, <1>12, <1>13

LEMMA FinishedPlanIsSafe == PibtInv => PlanIsSafe
<1> SUFFICES ASSUME PibtInv, Planned, running = Nil PROVE NoCollision /\ NoSwap /\ MovesAreLegal
  BY DEF PlanIsSafe
<1>1. NoCollision
  BY RoadConstants DEF PibtInv, Planned, ClashIsRunning, NoCollision
<1>2. MovesAreLegal
  BY DEF PibtInv, Planned, FrozenStay, LegalSoFar, MovesAreLegal
<1> QED BY <1>1, <1>2 DEF PibtInv

LEMMA MoveAllKeeps == PibtInv /\ MoveAll => PibtInv'
<1> SUFFICES ASSUME PibtInv, MoveAll PROVE PibtInv'
  OBVIOUS
<1>1. NoCollision
  BY FinishedPlanIsSafe DEF MoveAll, PlanIsSafe
<1> USE RoadConstants DEF PibtInv, MoveAll
<1>2. PibtTypeOK'
  BY DEF PibtTypeOK, Planned
<1>3. Apart' /\ NoneBetween'
  BY <1>1 DEF Apart, NoneBetween, NoCollision
<1>4. \A a \in Vehicles : chosen'[a] = Nil /\ position'[a] \in Cells /\ caller'[a] = Nil
  BY <1>2 DEF PibtTypeOK
<1>5. ChosenIsReserved' /\ ClashIsRunning' /\ NoSwap' /\ OnlyCallerTakes' /\ StackIsLinear'
  BY <1>4 DEF ChosenIsReserved, ClashIsRunning, NoSwap, OnlyCallerTakes, StackIsLinear
<1>6. FrozenStay' /\ LegalSoFar'
  BY <1>4 DEF FrozenStay, LegalSoFar
<1> QED BY <1>2, <1>3, <1>5, <1>6

LEMMA NextPibt == PibtInv /\ [PibtNext]_pibtVars => PibtInv'
<1> SUFFICES ASSUME PibtInv, [PibtNext]_pibtVars PROVE PibtInv'
  OBVIOUS
<1>1. CASE StartPlan
  BY <1>1, StartPlanKeeps
<1>2. CASE MoveAll
  BY <1>2, MoveAllKeeps
<1>3. ASSUME NEW a \in Vehicles, AskNext(a) PROVE PibtInv'
  BY <1>3, AskNextKeeps
<1>4. ASSUME NEW a \in Vehicles, GiveUp(a) PROVE PibtInv'
  BY <1>4, GiveUpKeeps
<1>5. ASSUME NEW a \in Vehicles, NEW c \in Cells, Try(a, c) PROVE PibtInv'
  BY <1>5, TryKeeps
<1>6. CASE UNCHANGED pibtVars
  BY <1>6 DEF PibtInv, pibtVars, planVars, PibtTypeOK, Apart, ChosenIsReserved,
     ClashIsRunning, OnlyCallerTakes, StackIsLinear, NoSwap, FrozenStay, LegalSoFar,
     NoneBetween, Open, Candidates
<1> QED BY <1>1, <1>2, <1>3, <1>4, <1>5, <1>6 DEF PibtNext

-----------------------------------------------------------------------------
(* The vehicle that is asked first.                                        *)

Asked(a) == chosen[a] # Nil \/ running = a

\* Someone who was asked is in c.
Stirred(c) == \E b \in Vehicles : position[b] = c /\ Asked(b)

GaveUp(a) == chosen[a] # Nil /\ ~Open(a)

\* Who calls whom leads from the vehicle whose loop goes on to all that are open:
\* they are in every set that contains that one and the callers of its members.
StackIsChain ==
  /\ running = Nil => \A d \in Vehicles : caller[d] = Nil
  /\ \A T \in SUBSET Vehicles :
       running \in T /\ (\A d \in T : caller[d] # Nil => caller[d] \in T)
         => \A x \in Vehicles : Open(x) => x \in T

TriedIsReserved == \A a \in Vehicles : Open(a) => Candidates(a) \ left[a] \subseteq reserved

CallersAreAhead == \A d \in Vehicles : caller[d] # Nil => chosen[caller[d]] = position[d]

\* Before anyone has chosen.
NoneHasChosen ==
  planning /\ NothingFixed /\ first[1] = Nil =>
    /\ reserved = {}
    /\ \A a \in Vehicles : chosen[a] = Nil /\ caller[a] = Nil
    /\ running # Nil => left[running] = Candidates(running)

\* As long as the first is on the stack, below all others.
OthersGiveUp(f) ==
  /\ caller[f] = Nil /\ position[f] \notin reserved
  /\ \A x \in Vehicles : Open(x) /\ x # f => caller[x] # Nil
  /\ \A c \in reserved : Stirred(c)
  /\ \A a \in Vehicles : GaveUp(a) =>
       \A n \in Adjacent[position[a]] :
         Stirred(n) /\ (n = position[f] => position[a] = chosen[f])

FirstIsNotAskedAgain ==
  planning /\ NothingFixed /\ first[1] # Nil =>
    /\ chosen[first[1]] = first[2] /\ running # first[1]
    /\ Open(first[1]) => OthersGiveUp(first[1])

FirstIsTyped == first = <<Nil, Nil>> \/ (planning /\ first \in Vehicles \X Cells)

FirstInv == /\ PibtInv /\ FirstIsTyped /\ StackIsChain /\ TriedIsReserved
            /\ CallersAreAhead /\ NoneHasChosen /\ FirstIsNotAskedAgain

\* A vehicle that gives up is surrounded.
LEMMA Surrounded ==
  ASSUME FirstInv, NEW f \in Vehicles, NEW a \in Vehicles, GiveUp(a), NothingFixed,
         OthersGiveUp(f), f # a,
         NEW n \in Adjacent[position[a]]
  PROVE  Stirred(n) /\ (n = position[f] => position[a] = chosen[f])
<1> USE RoadConstants DEF FirstInv, PibtInv
<1>1. running = a /\ n \in Cells /\ n \in Candidates(a) /\ Open(a)
  BY DEF GiveUp, PibtTypeOK, Candidates, Open
<1>2. caller[a] # Nil
  BY <1>1 DEF OthersGiveUp
<1>3. CASE n \in reserved
  BY <1>3 DEF OthersGiveUp
<1>4. CASE n \notin reserved
  <2>1. n \in left[a] /\ ~Admissible(a, n)
    BY <1>1, <1>4 DEF TriedIsReserved, GiveUp
  <2>2. n = position[caller[a]]
    <3>1. CASE WouldSwap(a, n)
      <4>1. PICK b \in Vehicles \ {a} : position[b] = n /\ chosen[b] = position[a]
        BY <3>1 DEF WouldSwap
      <4> QED BY <1>1, <4>1 DEF OnlyCallerTakes
    <3> QED BY <1>1, <1>4, <2>1, <3>1 DEF Admissible, NothingFixed
  <2>3. caller[a] \in Vehicles /\ Asked(caller[a])
    BY <1>2 DEF StackIsLinear, PibtTypeOK, Asked
  <2>4. n = position[f] => position[a] = chosen[f]
    BY <1>2, <2>2, <2>3 DEF Apart, CallersAreAhead
  <2> QED BY <2>2, <2>3, <2>4 DEF Stirred
<1> QED BY <1>3, <1>4

\* If it was called by the first, nobody else has a way into the cell of the first.
LEMMA CircuitIsBroken ==
  ASSUME RoadsReturn, FirstInv, NEW f \in Vehicles, NEW a \in Vehicles, GiveUp(a),
         NothingFixed, OthersGiveUp(f), f # a, caller[a] = f
  PROVE  FALSE
<1> USE RoadConstants DEF FirstInv, PibtInv
<1> DEFINE S == {position[x] : x \in {y \in Vehicles : Asked(y) /\ y # f}}
<1>1. running = a /\ position[a] = chosen[f]
  BY DEF GiveUp, CallersAreAhead, PibtTypeOK
<1>2. \A x \in Vehicles : Open(x) => x \in {a, f}
  <2>1. \A d \in {a, f} : caller[d] # Nil => caller[d] \in {a, f}
    BY DEF OthersGiveUp
  <2> QED BY <1>1, <2>1 DEF StackIsChain
<1>3. \A x \in Vehicles : Asked(x) /\ x \notin {a, f} => GaveUp(x)
  BY <1>1, <1>2 DEF Asked, GaveUp
<1>4. /\ position[f] \in Cells
      /\ chosen[f] \in Adjacent[position[f]] \ {position[f]}
  BY <1>1 DEF LegalSoFar, Candidates, Apart, PibtTypeOK
<1>5. S \in SUBSET (Cells \ {position[f]})
  BY DEF Apart, PibtTypeOK
<1>6. chosen[f] \in S
  BY <1>1 DEF Asked
<1>7. ASSUME NEW x \in Vehicles, Asked(x), x # f, NEW n \in Adjacent[position[x]]
      PROVE  Stirred(n) /\ (n = position[f] => position[x] = chosen[f])
  BY <1>3, <1>7, Surrounded DEF OthersGiveUp
<1>8. \A c \in S : Adjacent[c] \ {position[f]} \subseteq S
  BY <1>7 DEF Stirred
<1>9. PICK c \in S \ {chosen[f]} : position[f] \in Adjacent[c]
  <2> HIDE DEF S
  <2> QED BY <1>4, <1>5, <1>6, <1>8 DEF RoadsReturn
<1> QED BY <1>7, <1>9

LEMMA InitFirst == PibtInit => FirstInv
<1> SUFFICES ASSUME PibtInit PROVE FirstInv
  OBVIOUS
<1> USE RoadConstants DEF PibtInit, NothingPlanned
<1>1. \A x \in Vehicles : ~Open(x) /\ caller[x] = Nil
  BY DEF Open
<1>2. FirstIsTyped /\ StackIsChain
  <2>1. FirstIsTyped
    BY DEF FirstIsTyped
  <2>2. StackIsChain
    BY <1>1 DEF StackIsChain
  <2> QED BY <2>1, <2>2
<1>3. TriedIsReserved /\ CallersAreAhead
  BY <1>1 DEF TriedIsReserved, CallersAreAhead
<1>4. NoneHasChosen /\ FirstIsNotAskedAgain
  BY DEF NoneHasChosen, FirstIsNotAskedAgain
<1> QED BY <1>2, <1>3, <1>4, InitPibt DEF FirstInv

LEMMA StartPlanKeepsFirst == FirstInv /\ StartPlan => FirstInv'
<1> SUFFICES ASSUME FirstInv, StartPlan PROVE FirstInv'
  OBVIOUS
<1>1. PibtInv'
  BY StartPlanKeeps DEF FirstInv
<1> USE RoadConstants DEF FirstInv, StartPlan
<1>2. running = Nil /\ first = <<Nil, Nil>> /\ \A d \in Vehicles : caller[d] = Nil
  BY DEF PibtInv, NoneBetween, FirstIsTyped
<1>3. \A x \in Vehicles : ~Open(x)'
  BY <1>2 DEF Open
<1>4. FirstIsTyped' /\ StackIsChain' /\ TriedIsReserved' /\ CallersAreAhead'
  BY <1>2, <1>3 DEF FirstIsTyped, StackIsChain, TriedIsReserved, CallersAreAhead
<1>5. NoneHasChosen' /\ FirstIsNotAskedAgain'
  BY <1>2 DEF NoneHasChosen, FirstIsNotAskedAgain, NothingFixed
<1> QED BY <1>1, <1>4, <1>5

LEMMA AskNextKeepsFirst ==
  ASSUME FirstInv, NEW a \in Vehicles, AskNext(a) PROVE FirstInv'
<1>1. PibtInv'
  BY AskNextKeeps DEF FirstInv
<1> USE RoadConstants DEF FirstInv, AskNext, Ask
<1>2. /\ \A d \in Vehicles : caller[d] = Nil /\ caller'[d] = Nil
      /\ a # Nil /\ left'[a] = Candidates(a) /\ \A x \in Vehicles : Open(x)' <=> x = a
  BY DEF StackIsChain, PibtInv, PibtTypeOK, Open
<1>3. FirstIsTyped' /\ StackIsChain' /\ CallersAreAhead'
  BY <1>2 DEF FirstIsTyped, StackIsChain, CallersAreAhead
<1>4. TriedIsReserved'
  BY <1>2 DEF TriedIsReserved, Candidates
<1>5. NoneHasChosen'
  BY <1>2 DEF NoneHasChosen, NothingFixed, Candidates
<1>6. FirstIsNotAskedAgain'
  <2> SUFFICES ASSUME planning, NothingFixed, first[1] # Nil
               PROVE  chosen[first[1]] = first[2] /\ first[1] # a /\ ~Open(first[1])'
    BY DEF FirstIsNotAskedAgain, NothingFixed
  <2> QED BY <1>2 DEF FirstIsNotAskedAgain, FirstIsTyped
<1> QED BY <1>1, <1>3, <1>4, <1>5, <1>6

LEMMA TryKeepsFirst ==
  ASSUME FirstInv, NEW a \in Vehicles, NEW c \in Cells, Try(a, c) PROVE FirstInv'
<1> DEFINE other == Occupant(c)
<1> DEFINE pushes == other # Nil /\ chosen'[other] = Nil
<1>1. PibtInv'
  BY TryKeeps DEF FirstInv
<1> USE RoadConstants DEF FirstInv
<1> USE DEF PibtInv
<1>2. /\ running = a /\ c \in left[a] /\ planning /\ planning'
      /\ chosen' = [chosen EXCEPT ![a] = c] /\ reserved' = reserved \cup {c}
      /\ first' = IF first = <<Nil, Nil>> THEN <<a, c>> ELSE first
      /\ UNCHANGED <<position, planning, frozen, forbidden>>
  BY DEF Try, NoneBetween
<1>3. FirstIsTyped' /\ first'[1] \in Vehicles /\ first'[1] # Nil
  BY <1>2 DEF FirstIsTyped
<1>4. NoneHasChosen'
  BY <1>3 DEF NoneHasChosen
<1>5. NothingFixed' = NothingFixed
  BY <1>2 DEF NothingFixed
<1>6. chosen'[a] = c /\ (first[1] # Nil => first' = first)
  BY <1>2 DEF PibtTypeOK
<1>7. NothingFixed /\ first[1] # Nil => /\ first[1] # a /\ first[1] \in Vehicles
                                        /\ chosen[first[1]] = first[2] /\ first[2] # Nil
                                        /\ chosen'[first[1]] = chosen[first[1]]
  BY <1>2 DEF FirstIsNotAskedAgain, FirstIsTyped, PibtTypeOK
<1>8. first[1] = Nil => first' = <<a, c>>
  BY <1>2 DEF FirstIsTyped
<1>9. CASE pushes
  <2>1. /\ running' = other /\ other \in Vehicles /\ other # a /\ chosen[other] = Nil
        /\ position[other] = c
        /\ caller' = [caller EXCEPT ![other] = a]
        /\ left' = [left EXCEPT ![a] = @ \ {c}, ![other] = Candidates(other)]
    BY <1>2, <1>9 DEF Try, Occupant, PibtTypeOK
  <2>2. caller[other] = Nil /\ \A d \in Vehicles : caller[d] # other
    BY <1>2, <2>1 DEF StackIsLinear
  <2>3. \A x \in Vehicles : Open(x)' <=> x = other \/ Open(x)
    <3>1. \A x \in Vehicles : Open(x)' => x = other \/ Open(x)
      BY <1>2, <2>1 DEF Open, PibtTypeOK
    <3>2. caller'[other] = a /\ \A d \in Vehicles : d # other => caller'[d] = caller[d]
      BY <2>1 DEF PibtTypeOK
    <3>3. \A x \in Vehicles : x = other \/ Open(x) => Open(x)'
      BY <1>2, <2>1, <2>2, <3>2 DEF Open
    <3> QED BY <3>1, <3>3
  <2>4. StackIsChain'
    <3>1. running' # Nil
      BY <2>1
    <3>2. ASSUME NEW T \in SUBSET Vehicles, running' \in T,
                 \A d \in T : caller'[d] # Nil => caller'[d] \in T,
                 NEW x \in Vehicles, Open(x)'
          PROVE  x \in T
      <4>1. a \in T
        BY <2>1, <3>2 DEF PibtTypeOK
      <4>2. \A d \in T : caller[d] # Nil => caller[d] \in T
        BY <2>1, <2>2, <3>2 DEF PibtTypeOK
      <4> QED BY <1>2, <2>1, <2>3, <3>2, <4>1, <4>2 DEF StackIsChain
    <3> QED BY <3>1, <3>2 DEF StackIsChain
  <2>5. TriedIsReserved'
    BY <1>2, <2>1, <2>3 DEF TriedIsReserved, Candidates, PibtTypeOK
  <2>6. CallersAreAhead'
    BY <1>2, <1>6, <2>1 DEF CallersAreAhead, StackIsLinear, PibtTypeOK
  <2>7. FirstIsNotAskedAgain'
    <3> SUFFICES ASSUME NothingFixed
                 PROVE  \E f \in Vehicles :
                          /\ f = first'[1] /\ chosen'[f] = first'[2] /\ running' # f
                          /\ Open(f)' => OthersGiveUp(f)'
      BY <1>5 DEF FirstIsNotAskedAgain
    <3>1. Stirred(c)'
      BY <1>2, <2>1 DEF Stirred, Asked
    <3>2. CASE first[1] = Nil
      <4>1. /\ reserved = {} /\ \A b \in Vehicles : chosen[b] = Nil /\ caller[b] = Nil
        BY <1>2, <3>2 DEF NoneHasChosen
      <4>2. \A x \in Vehicles : Open(x)' => x = a \/ x = other
        BY <1>2, <2>3, <4>1 DEF Open
      <4>3. \A x \in Vehicles : ~GaveUp(x)'
        BY <1>2, <2>3, <4>1 DEF GaveUp, Open, PibtTypeOK
      <4>4. position'[a] \notin reserved' /\ caller'[a] = Nil /\ caller'[other] = a
        BY <1>2, <2>1, <4>1 DEF Apart, PibtTypeOK
      <4>5. OthersGiveUp(a)'
        BY <1>2, <3>1, <4>1, <4>2, <4>3, <4>4 DEF OthersGiveUp
      <4> QED BY <1>2, <1>6, <1>8, <2>1, <3>2, <4>5
    <3>3. CASE first[1] # Nil
      <4>0. PICK f \in Vehicles : f = first[1]
        BY <1>7, <3>3
      <4>1. /\ first' = first /\ f # a /\ f \in Vehicles /\ f # other
            /\ chosen'[f] = first[2]
        BY <1>6, <1>7, <2>1, <3>3, <4>0
      <4>2. ASSUME Open(f) PROVE OthersGiveUp(f)'
        <5>1. OthersGiveUp(f)
          BY <1>2, <3>3, <4>0, <4>2 DEF FirstIsNotAskedAgain
        <5>2. caller'[f] = Nil /\ position'[f] \notin reserved'
          BY <1>2, <2>1, <4>1, <5>1 DEF OthersGiveUp, Apart, PibtTypeOK
        <5>3. \A x \in Vehicles : Open(x)' /\ x # f => caller'[x] # Nil
          BY <2>1, <2>3, <5>1 DEF OthersGiveUp, PibtTypeOK
        <5>4. \A n : Stirred(n) => Stirred(n)'
          BY <1>2, <2>1 DEF Stirred, Asked, PibtTypeOK
        <5>5. \A n \in reserved' : Stirred(n)'
          BY <1>2, <3>1, <5>1, <5>4 DEF OthersGiveUp
        <5>6. \A x \in Vehicles : GaveUp(x)' => GaveUp(x)
          BY <1>2, <2>3 DEF GaveUp, Open, PibtTypeOK
        <5>7. \A x \in Vehicles : GaveUp(x)' =>
                \A n \in Adjacent[position'[x]] :
                  Stirred(n)' /\ (n = position'[f] => position'[x] = chosen'[f])
          BY <1>2, <1>7, <3>3, <4>0, <5>1, <5>4, <5>6 DEF OthersGiveUp
        <5> QED BY <5>2, <5>3, <5>5, <5>7 DEF OthersGiveUp
      <4> QED BY <2>1, <2>3, <4>0, <4>1, <4>2
    <3> QED BY <3>2, <3>3
  <2> QED BY <1>1, <1>3, <1>4, <2>4, <2>5, <2>6, <2>7
<1>10. CASE ~pushes
  <2>1. running' = Nil /\ \A d \in Vehicles : caller'[d] = Nil
    BY <1>10 DEF Try
  <2>2. \A x \in Vehicles : ~Open(x)'
    BY <2>1 DEF Open
  <2>3. StackIsChain' /\ TriedIsReserved' /\ CallersAreAhead'
    BY <2>1, <2>2 DEF StackIsChain, TriedIsReserved, CallersAreAhead
  <2>4. FirstIsNotAskedAgain'
    BY <1>3, <1>5, <1>6, <1>7, <1>8, <2>1, <2>2 DEF FirstIsNotAskedAgain
  <2> QED BY <1>1, <1>3, <1>4, <2>3, <2>4
<1> QED BY <1>9, <1>10

LEMMA GiveUpKeepsFirst ==
  ASSUME RoadsReturn, FirstInv, NEW a \in Vehicles, GiveUp(a) PROVE FirstInv'
<1>1. PibtInv'
  BY GiveUpKeeps DEF FirstInv
<1> USE RoadConstants DEF FirstInv, PibtInv
<1>2. /\ running = a /\ chosen' = [chosen EXCEPT ![a] = position[a]]
      /\ reserved' = reserved \cup {position[a]}
      /\ running' = caller[a] /\ caller' = [caller EXCEPT ![a] = Nil]
      /\ left' = [left EXCEPT ![a] = {}]
      /\ UNCHANGED <<position, planning, frozen, forbidden, first>>
  BY DEF GiveUp
<1>3. \A d \in Vehicles : caller[d] # a
  BY <1>2 DEF StackIsLinear
<1>4. \A x \in Vehicles : Open(x)' <=> Open(x) /\ x # a
  BY <1>2, <1>3 DEF Open, PibtTypeOK
<1>5. StackIsChain'
  <2>1. ASSUME caller[a] = Nil, NEW d \in Vehicles PROVE caller'[d] = Nil
    <3>1. \A x \in Vehicles : Open(x) => x \in {a}
      BY <1>2, <2>1 DEF StackIsChain
    <3>2. caller[d] # Nil => caller[d] \in Vehicles /\ Open(caller[d])
      BY DEF Open, PibtTypeOK
    <3> QED BY <1>2, <1>3, <3>1, <3>2 DEF PibtTypeOK
  <2>2. ASSUME NEW T \in SUBSET Vehicles, running' \in T,
               \A d \in T : caller'[d] # Nil => caller'[d] \in T,
               NEW x \in Vehicles, Open(x)'
        PROVE  x \in T
    <3>1. \A d \in T \cup {a} : caller[d] # Nil => caller[d] \in T \cup {a}
      BY <1>2, <2>2 DEF PibtTypeOK
    <3>2. x \in T \cup {a}
      BY <1>2, <1>4, <2>2, <3>1 DEF StackIsChain
    <3> QED BY <1>4, <2>2, <3>2
  <2> QED BY <1>2, <2>1, <2>2 DEF StackIsChain
<1>6. TriedIsReserved'
  BY <1>2, <1>4 DEF TriedIsReserved, Candidates, PibtTypeOK
<1>7. CallersAreAhead'
  BY <1>2, <1>3 DEF CallersAreAhead, PibtTypeOK
<1>8. FirstIsTyped'
  BY <1>2 DEF FirstIsTyped
<1>9. planning /\ NothingFixed => first[1] # Nil
  <2> SUFFICES ASSUME planning, NothingFixed, first[1] = Nil PROVE FALSE
    OBVIOUS
  <2>1. /\ reserved = {} /\ left[a] = Candidates(a)
        /\ \A b \in Vehicles : chosen[b] = Nil /\ caller[b] = Nil
    BY <1>2 DEF NoneHasChosen
  <2>2. position[a] \in Cells /\ Admissible(a, position[a])
    BY <2>1 DEF Admissible, WouldSwap, NothingFixed, PibtTypeOK
  <2> QED BY <2>1, <2>2 DEF GiveUp, Candidates
<1>10. NoneHasChosen'
  BY <1>2, <1>9 DEF NoneHasChosen, NothingFixed
<1>11. FirstIsNotAskedAgain'
  <2> SUFFICES ASSUME planning, NothingFixed, first[1] # Nil
               PROVE  \E f \in Vehicles :
                        /\ f = first[1] /\ chosen'[f] = first[2] /\ running' # f
                        /\ Open(f)' => OthersGiveUp(f)'
    BY <1>2 DEF FirstIsNotAskedAgain, NothingFixed
  <2>0. PICK f \in Vehicles : f = first[1]
    BY DEF FirstIsTyped
  <2>1. f # a /\ chosen[f] = first[2] /\ chosen'[f] = chosen[f]
    BY <1>2, <2>0 DEF FirstIsNotAskedAgain, PibtTypeOK
  <2>2. Open(f) => OthersGiveUp(f)
    BY <2>0 DEF FirstIsNotAskedAgain
  <2>3. running' # f
    <3>1. running' = f => Open(f) /\ caller[a] = f
      BY <1>2 DEF Open
    <3> QED BY <2>1, <2>2, <3>1, CircuitIsBroken
  <2>4. ASSUME Open(f)' PROVE OthersGiveUp(f)'
    <3>1. OthersGiveUp(f)
      BY <1>4, <2>1, <2>2, <2>4
    <3>2. caller'[f] = Nil /\ position'[f] \notin reserved'
      BY <1>2, <2>1, <3>1 DEF OthersGiveUp, Apart, PibtTypeOK
    <3>3. \A x \in Vehicles : Open(x)' /\ x # f => caller'[x] # Nil
      BY <1>2, <1>4, <3>1 DEF OthersGiveUp, PibtTypeOK
    <3>4. \A n : Stirred(n) => Stirred(n)'
      BY <1>2 DEF Stirred, Asked, PibtTypeOK
    <3>5. Stirred(position[a])'
      BY <1>2 DEF Stirred, Asked, PibtTypeOK
    <3>6. \A n \in reserved' : Stirred(n)'
      BY <1>2, <3>1, <3>4, <3>5 DEF OthersGiveUp
    <3>7. ASSUME NEW x \in Vehicles, GaveUp(x)', NEW n \in Adjacent[position'[x]]
          PROVE  Stirred(n)' /\ (n = position'[f] => position'[x] = chosen'[f])
      <4>1. x = a \/ GaveUp(x)
        BY <1>2, <1>4, <3>7 DEF GaveUp, PibtTypeOK
      <4>2. CASE x = a
        <5>1. NothingFixed /\ n \in Adjacent[position[a]]
          BY <1>2, <3>7, <4>2
        <5> QED BY <1>2, <2>1, <3>1, <3>4, <4>2, <5>1, Surrounded
      <4>3. CASE GaveUp(x)
        BY <1>2, <2>1, <3>1, <3>4, <3>7, <4>3 DEF OthersGiveUp
      <4> QED BY <4>1, <4>2, <4>3
    <3> QED BY <3>2, <3>3, <3>6, <3>7 DEF OthersGiveUp
  <2> QED BY <2>0, <2>1, <2>3, <2>4
<1> QED BY <1>1, <1>5, <1>6, <1>7, <1>8, <1>10, <1>11

LEMMA MoveAllKeepsFirst == FirstInv /\ MoveAll => FirstInv'
<1> SUFFICES ASSUME FirstInv, MoveAll PROVE FirstInv'
  OBVIOUS
<1>1. PibtInv'
  BY MoveAllKeeps DEF FirstInv
<1> USE RoadConstants DEF FirstInv, MoveAll
<1>2. \A x \in Vehicles : ~Open(x)' /\ caller'[x] = Nil
  BY DEF Open
<1>3. FirstIsTyped' /\ StackIsChain'
  <2>1. FirstIsTyped'
    BY DEF FirstIsTyped
  <2>2. StackIsChain'
    BY <1>2 DEF StackIsChain
  <2> QED BY <2>1, <2>2
<1>4. TriedIsReserved' /\ CallersAreAhead'
  BY <1>2 DEF TriedIsReserved, CallersAreAhead
<1>5. NoneHasChosen' /\ FirstIsNotAskedAgain'
  BY DEF NoneHasChosen, FirstIsNotAskedAgain
<1> QED BY <1>1, <1>3, <1>4, <1>5

LEMMA NextFirst == RoadsReturn /\ FirstInv /\ [PibtNext]_pibtVars => FirstInv'
<1> SUFFICES ASSUME RoadsReturn, FirstInv, [PibtNext]_pibtVars PROVE FirstInv'
  OBVIOUS
<1>1. CASE StartPlan
  BY <1>1, StartPlanKeepsFirst
<1>2. CASE MoveAll
  BY <1>2, MoveAllKeepsFirst
<1>3. ASSUME NEW a \in Vehicles, AskNext(a) PROVE FirstInv'
  BY <1>3, AskNextKeepsFirst
<1>4. ASSUME NEW a \in Vehicles, GiveUp(a) PROVE FirstInv'
  BY <1>4, GiveUpKeepsFirst
<1>5. ASSUME NEW a \in Vehicles, NEW c \in Cells, Try(a, c) PROVE FirstInv'
  BY <1>5, TryKeepsFirst
<1>6. CASE UNCHANGED pibtVars
  <2>1. PibtInv'
    BY <1>6, NextPibt DEF FirstInv
  <2> QED BY <1>6, <2>1 DEF FirstInv, pibtVars, planVars, FirstIsTyped, StackIsChain,
     TriedIsReserved, CallersAreAhead, NoneHasChosen, FirstIsNotAskedAgain, OthersGiveUp,
     NothingFixed, GaveUp, Stirred, Asked, Open, Candidates
<1> QED BY <1>1, <1>2, <1>3, <1>4, <1>5, <1>6 DEF PibtNext

-----------------------------------------------------------------------------
\* plan keeps its sets and maps well formed, and the recursion of inherit ends each
\* call for a vehicle it was made for.
THEOREM PibtIsTyped == PibtSpec => []PibtTypeOK
<1>1. PibtInv => PibtTypeOK
  BY DEF PibtInv
<1> QED BY InitPibt, NextPibt, <1>1, PTL DEF PibtSpec

\* On any road network and with any fleet, a finished plan of PIBTRouter.plan has no
\* two vehicles meet, in a cell or on a road, moves none that must stay, and sends
\* none into a machine that is too full.
THEOREM PlansAreSafe == PibtSpec => []PlanIsSafe
BY InitPibt, NextPibt, FinishedPlanIsSafe, PTL DEF PibtSpec

\* Where every road is part of a circuit, and no vehicle is frozen or kept out of a
\* machine, the vehicle that PIBTRouter.plan asks first moves to the cell it prefers,
\* for any fleet, up to one that leaves no cell free.
THEOREM FirstIsServed ==
  ASSUME RoadsReturn PROVE PibtSpec => []FirstGetsItsWay
<1>1. FirstInv /\ [PibtNext]_pibtVars => FirstInv'
  BY NextFirst
<1>2. FirstInv => FirstGetsItsWay
  BY DEF FirstInv, FirstIsNotAskedAgain, FirstGetsItsWay
<1> QED BY InitFirst, <1>1, <1>2, PTL DEF PibtSpec
=============================================================================
