---------------------------- MODULE EventMonitor ----------------------------
(***************************************************************************)
(* The monitor of the event files of an execution (event_monitor.py).      *)
(* Runs append lines to files (events.py).  A request lists the files,     *)
(* and then, under a lock, brings the index of the execution up to date    *)
(* and answers with a page of it.  An index counts the lines in the order  *)
(* in which it met them; a cursor is a generation of the index and a place *)
(* in it.                                                                  *)
(*                                                                         *)
(* A line is represented by its level; new lines are sorted by wall_time,  *)
(* a clock that may have been set back, and so come in any order.  One     *)
(* reader pages, on from its cursor or back from the end; another asks for *)
(* the summary.                                                            *)
(***************************************************************************)
EXTENDS Naturals, Sequences, FiniteSets, SequencesExt

CONSTANTS
  Logs,                \* the event files of an execution
  MaxLines,            \* bound on the lines written
  MaxIndexes,      \* bound on the indexes made
  Limit                \* the limit of a page

ASSUME MonitorConstants ==
  IsFiniteSet(Logs) /\ {MaxLines, MaxIndexes, Limit} \subseteq Nat \ {0}

Levels == 0..1           \* below the level a reader asks for, or not
Endpoints == {"page", "summary"}

VARIABLES
  log, torn,           \* the lines of a file; torn: the last is not yet complete
  there, copy,         \* the file exists; its device and inode
  generation, generations,  \* of the present index; 0: there is none
  streams,             \* streams[f]: the copy and the lines consumed of file f
  lines,               \* the lines of the index: file, place in it, level
  latest,              \* summary, by file: the place of the latest line
  request,             \* request[q]: the files and copies listed for q; {}: none
  cursor,              \* generation and place, <<0, 0>> for None
  seen,                \* the lines shown to the reader
  ends,                \* where it has begun to go back
  onward,              \* how it asks: with a cursor, or with tail and before
  vanished             \* a file went away while it was being read

diskVars  == <<log, torn, there, copy>>
indexVars == <<generation, generations, streams, lines, latest>>
pageVars  == <<request, cursor, seen, ends, onward>>
monitorVars == <<diskVars, indexVars, pageVars, vanished>>

MonitorInit ==
  /\ log = [f \in Logs |-> <<>>] /\ torn = [f \in Logs |-> FALSE]
  /\ there = [f \in Logs |-> FALSE] /\ copy = [f \in Logs |-> 0]
  /\ generation = 0 /\ generations = 0
  /\ streams = [f \in Logs |-> <<0, 0>>] /\ lines = <<>>
  /\ latest = [f \in Logs |-> 0]
  /\ request = [q \in Endpoints |-> {}]
  /\ cursor = <<0, 0>> /\ seen = <<>> /\ ends = 0
  /\ onward \in BOOLEAN
  /\ vanished = FALSE

Written == Cardinality(UNION {{f} \X DOMAIN log[f] : f \in Logs})
Complete(f) == Len(log[f]) - (IF torn[f] THEN 1 ELSE 0)

-----------------------------------------------------------------------------
(* The files.                                                              *)

\* A run begins: JsonlEventSink opens its file.
OpenLog(f) ==
  /\ ~there[f] /\ copy[f] = 0
  /\ there' = [there EXCEPT ![f] = TRUE] /\ copy' = [copy EXCEPT ![f] = 1]
  /\ UNCHANGED <<log, torn, indexVars, pageVars, vanished>>

\* A line reaches the disk in two parts.
WriteLine(f) ==
  /\ there[f] /\ copy[f] = 1 /\ ~torn[f] /\ Written < MaxLines
  /\ \E l \in Levels : log' = [log EXCEPT ![f] = Append(@, l)]
  /\ torn' = [torn EXCEPT ![f] = TRUE]
  /\ UNCHANGED <<there, copy, indexVars, pageVars, vanished>>

EndLine(f) ==
  /\ torn[f] /\ torn' = [torn EXCEPT ![f] = FALSE]
  /\ UNCHANGED <<log, there, copy, indexVars, pageVars, vanished>>

\* The workspace is cleared: from now on the archived copies are listed.
ArchiveLogs ==
  /\ \A f \in Logs : copy[f] < 2 /\ ~torn[f]
  /\ copy' = [f \in Logs |-> 2]
  /\ UNCHANGED <<log, torn, there, indexVars, pageVars, vanished>>

-----------------------------------------------------------------------------
(* _refresh.                                                               *)

\* The index of the execution is that of other files: one is missing, or is
\* another than it was, or is shorter.
Outdated(files) ==
  \/ generation = 0
  \/ \E f \in Logs : /\ streams[f] # <<0, 0>>
                    /\ \/ f \notin files
                       \/ streams[f][1] # copy[f]
                       \/ streams[f][2] > Len(log[f])

\* What there is of the index before the files are read.
Offset(f, files) == IF Outdated(files) THEN 0 ELSE streams[f][2]
OldLines(files)  == IF Outdated(files) THEN <<>> ELSE lines
OldLatest(files) == IF Outdated(files) THEN [f \in Logs |-> 0] ELSE latest

\* Where a file has been read to: an incomplete record is left for the next
\* request.
Consumed(f) == Complete(f)

\* The new lines, in any order.
Additions(files) ==
  SetToSeqs(UNION {{<<f, n, log[f][n]>> : n \in Offset(f, files) + 1..Complete(f)} :
                   f \in files})

\* The latest line of each file, by sequence.
Latest(old, added) ==
  [f \in Logs |-> Max({old[f]} \cup {x[2] : x \in {y \in ToSet(added) : y[1] = f}})]

NewGeneration(files) ==
  /\ Outdated(files) => generations < MaxIndexes
  /\ generations' = IF Outdated(files) THEN generations + 1 ELSE generations
  /\ generation' = IF Outdated(files) THEN generations + 1 ELSE generation

\* The whole of it.
Refresh(files) ==
  /\ NewGeneration(files)
  /\ streams' = [f \in Logs |-> IF f \in files THEN <<copy[f], Consumed(f)>> ELSE <<0, 0>>]
  /\ \E added \in Additions(files) :
       /\ lines' = OldLines(files) \o added
       /\ latest' = Latest(OldLatest(files), added)

-----------------------------------------------------------------------------
(* Requests.                                                               *)

\* _execution_event_paths lists the files, before the lock is taken.
ListFiles(q) ==
  /\ request[q] = {} /\ \E f \in Logs : there[f]
  /\ request' = [request EXCEPT ![q] = {<<f, copy[f]>> : f \in {g \in Logs : there[g]}}]
  /\ UNCHANGED <<diskVars, indexVars, cursor, seen, ends, onward, vanished>>

\* The numbers of a set in their order.
Ascending(S) ==
  [i \in 1..Cardinality(S) |-> CHOOSE n \in S : Cardinality({k \in S : k <= n}) = i]

Eligible(from, to) == Ascending({n \in from + 1..to : lines'[n][3] = 1})
Shown(places) == [i \in DOMAIN places |-> lines'[places[i]]]

\* The cursor is one of another index: the reader begins again.
Anew == cursor[1] # generation'
Kept == IF Anew THEN <<>> ELSE seen

\* With a cursor: the first lines behind it.
Onwards == LET all == Eligible(IF Anew THEN 0 ELSE cursor[2], Len(lines'))
           IN SubSeq(all, 1, IF Len(all) < Limit THEN Len(all) ELSE Limit)

\* The next page begins behind the last line shown.  (The mutant skips to the end
\* of the index.)
NextCursorAtEnd(page) == Len(lines')
NextCursor(page) == IF page = <<>> THEN Len(lines') ELSE page[Len(page)]

\* With tail or before: the last lines before the one shown first.
End == IF Anew THEN Len(lines') ELSE cursor[2]
Backwards == LET all == Eligible(0, End)
             IN SubSeq(all, IF Len(all) < Limit THEN 1 ELSE Len(all) - Limit + 1, Len(all))

BeforeCursor(page) == IF page = <<>> THEN End ELSE Head(page) - 1

\* The files listed are opened one by one.
Files(q) == {x[1] : x \in request[q]}
Gone(x) == ~there[x[1]] \/ copy[x[1]] # x[2]
Readable(q) == request[q] # {} /\ \A x \in request[q] : ~Gone(x)
Answers(q) == request' = [request EXCEPT ![q] = {}]

PageOnward ==
  /\ onward /\ Readable("page") /\ Refresh(Files("page"))
  /\ seen' = Kept \o Shown(Onwards)
  /\ cursor' = <<generation', NextCursor(Onwards)>>
  /\ Answers("page")
  /\ UNCHANGED <<diskVars, ends, onward, vanished>>

PageBack ==
  /\ ~onward /\ Readable("page") /\ Refresh(Files("page"))
  /\ seen' = Shown(Backwards) \o Kept
  /\ ends' = IF Anew THEN End ELSE ends
  /\ cursor' = <<generation', BeforeCursor(Backwards)>>
  /\ Answers("page")
  /\ UNCHANGED <<diskVars, onward, vanished>>

\* summary and training change nothing else.
Summarise ==
  /\ Readable("summary") /\ Refresh(Files("summary"))
  /\ Answers("summary")
  /\ UNCHANGED <<diskVars, cursor, seen, ends, onward, vanished>>

\* A file goes away between its listing, or its stat, and its opening.  What was
\* read of the others before is neither in the index nor read again, unless the
\* index was to be made anew.
FileVanishes(q, f) ==
  /\ Readable(q) /\ f \in Files(q) /\ ~torn[f] /\ ~vanished
  /\ there' = [there EXCEPT ![f] = FALSE] /\ vanished' = TRUE
  /\ \E done \in SUBSET (Files(q) \ {f}) :
       streams' = IF Outdated(Files(q)) THEN streams
                  ELSE [g \in Logs |-> IF g \in done THEN <<copy[g], Consumed(g)>>
                                       ELSE streams[g]]
  /\ Answers(q)
  /\ UNCHANGED <<log, torn, copy, generation, generations, lines, latest, cursor, seen,
                 ends, onward>>

\* A listed file is gone: the request raises.
RequestRaises(q) ==
  /\ \E x \in request[q] : Gone(x)
  /\ Answers(q)
  /\ UNCHANGED <<diskVars, indexVars, cursor, seen, ends, onward, vanished>>

\* The index makes place for those of other executions, or is discarded.
EvictIndex ==
  /\ generation # 0
  /\ generation' = 0 /\ streams' = [f \in Logs |-> <<0, 0>>]
  /\ lines' = <<>> /\ latest' = [f \in Logs |-> 0]
  /\ UNCHANGED <<diskVars, generations, pageVars, vanished>>

MonitorNext ==
  \/ \E f \in Logs : OpenLog(f) \/ WriteLine(f) \/ EndLine(f)
  \/ \E q \in Endpoints : \/ ListFiles(q) \/ RequestRaises(q)
                           \/ \E f \in Logs : FileVanishes(q, f)
  \/ ArchiveLogs \/ PageOnward \/ PageBack \/ Summarise \/ EvictIndex

MonitorSpec == MonitorInit /\ [][MonitorNext]_monitorVars

-----------------------------------------------------------------------------
MonitorTypeOK ==
  /\ log \in [Logs -> Seq(Levels)] /\ torn \in [Logs -> BOOLEAN]
  /\ there \in [Logs -> BOOLEAN] /\ copy \in [Logs -> 0..2]
  /\ generation \in 0..generations /\ generations \in 0..MaxIndexes
  /\ streams \in [Logs -> (0..2) \X (0..MaxLines)]
  /\ lines \in Seq(Logs \X (1..MaxLines) \X Levels)
  /\ latest \in [Logs -> 0..MaxLines]
  /\ request \in [Endpoints -> SUBSET (Logs \X (1..2))]
  /\ cursor \in (0..generations) \X (0..MaxLines)
  /\ cursor[1] = generation /\ generation # 0 => cursor[2] <= Len(lines)
  /\ ends \in 0..MaxLines /\ {onward, vanished} \subseteq BOOLEAN

\* The index holds every line it has consumed, once, unless a file went away in
\* the middle of a refresh: however requests with longer and shorter lists of files
\* alternate, lines come in two parts, and files are replaced by their copies.
IndexIsComplete ==
  generation # 0 /\ ~vanished =>
    \A f \in Logs :
      /\ Cardinality({i \in DOMAIN lines : lines[i][1] = f}) = streams[f][2]
      /\ \A n \in 1..streams[f][2] : \E i \in DOMAIN lines :
           lines[i] = <<f, n, log[f][n]>>

\* The summary shows the last line of each run, though lines are merged by a clock
\* that may have been set back.
SummaryIsLatest ==
  generation # 0 /\ ~vanished => \A f \in Logs : latest[f] = streams[f][2]

InLevel(from, to) ==
  LET places == Ascending({n \in from + 1..to : lines[n][3] = 1})
  IN [i \in DOMAIN places |-> lines[places[i]]]

\* A reader has seen, of its level, all lines between where it began and its
\* cursor, once and in the order of the index, whichever way it goes; if the index
\* was made anew, it has been told so and begun again.
PagesSeeAll ==
  cursor[1] = generation /\ generation # 0 =>
    seen = IF onward THEN InLevel(0, cursor[2]) ELSE InLevel(cursor[2], ends)
\* What the index says is what the files say, and what its pages say.
PagesAreTrue == IndexIsComplete /\ SummaryIsLatest /\ PagesSeeAll
=============================================================================
