--------------------------- MODULE MCServerStreams ---------------------------
(***************************************************************************)
(* What surrounds the runs of the simulation server and of the algorithm   *)
(* platform: the streams of the server, its insertions, the backend that   *)
(* controls it, and the monitor of event files, side by side.  They are    *)
(* modelled with variables of their own, so that a behaviour of all is one *)
(* of each, and only one of them moves in a behaviour here.  Calls are     *)
(* interchangeable, and so are event files.                                *)
(***************************************************************************)
EXTENDS EventStream, Snapshots, Insertions, FactoryControl, EventMonitor, TLC

CONSTANTS r1, v1, v2, h1, h2, l1, l2

VARIABLE part          \* the one that moves

Symmetry == Permutations(Calls) \cup Permutations(Logs)

PartsInit ==
  /\ part \in {"events", "frames", "insertions", "control", "monitor"}
  /\ StreamInit /\ SnapshotInit /\ InsertInit /\ ControlInit /\ MonitorInit
  /\ part # "monitor" => onward

PartsNext ==
  /\ UNCHANGED part
  /\ \/ /\ part = "events" /\ StreamNext
        /\ UNCHANGED <<snapshotVars, insertionVars, controlVars, monitorVars>>
     \/ /\ part = "frames" /\ SnapshotNext
        /\ UNCHANGED <<streamVars, insertionVars, controlVars, monitorVars>>
     \/ /\ part = "insertions" /\ InsertNext
        /\ UNCHANGED <<streamVars, snapshotVars, controlVars, monitorVars>>
     \/ /\ part = "control" /\ ControlNext
        /\ UNCHANGED <<streamVars, snapshotVars, insertionVars, monitorVars>>
     \/ /\ part = "monitor" /\ MonitorNext
        /\ UNCHANGED <<streamVars, snapshotVars, insertionVars, controlVars>>

PartsSpec ==
  /\ PartsInit
  /\ [][PartsNext]_<<part, streamVars, snapshotVars, insertionVars, controlVars, monitorVars>>

\* The types of all parts.
PartsTypeOK ==
  StreamTypeOK /\ SnapshotTypeOK /\ InsertTypeOK /\ ControlTypeOK /\ MonitorTypeOK

\* Clients get every event, and what they see is the newest there is.
ClientsKeepUp == EventsArrive /\ ViewsAreCurrent
=============================================================================
