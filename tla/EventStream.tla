---------------------------- MODULE EventStream ----------------------------
(***************************************************************************)
(* The stream of events of the simulation server (sim_server.py): the      *)
(* history, and one bounded queue per subscriber.  Two threads publish:    *)
(* the run thread, and the event loop on behalf of a command.  The event   *)
(* loop also subscribes readers; it replays the history under _subs_lock,  *)
(* which nobody who publishes an event takes.                              *)
(*                                                                         *)
(* An event is numbered by its place in the order of the appends to the    *)
(* history.  Frames and metrics, whose queues hold a latest value and not  *)
(* a history, are the matter of Snapshots.                                 *)
(***************************************************************************)
EXTENDS Naturals, Sequences, FiniteSets, SequencesExt

CONSTANTS
  Readers,             \* the connections of clients to /stream/events
  NoReader,
  QueueSize,           \* maxsize of a subscriber's queue (10000 in the code)
  MaxEvents            \* bound on the events of a behaviour

ASSUME StreamConstants ==
  /\ QueueSize \in Nat \ {0} /\ MaxEvents \in Nat
  /\ NoReader \notin Readers

RunThread == "run"
EventLoop == "loop"
Publishers == {RunThread, EventLoop}

\* The event sim_started that subscribe adds behind the history.
Opening == 0
Events == 1..MaxEvents

VARIABLES
  event_history,       \* _event_history
  made,                \* the number of events made so far
  maker,               \* maker[e]: who published e
  events_subs,         \* _events_subs
  event_queue,         \* event_queue[r]: the queue of r
  received,            \* received[r]: what r has read from it
  publishing,          \* publishing[p]: where p is in _record_stream_event
  in_hand,             \* in_hand[p]: the event p is about
  full_queue,          \* full_queue[p]: the subscriber that raised Full
  targets,             \* targets[p]: the subscribers it still has to reach
  connection,          \* connection[r]: out, joining, in, failed, left
  joining, replayed,   \* the reader the event loop subscribes, and how much
                       \* of the history it has been given
  lost,                \* readers that lost an event to a full queue
  overlapped           \* overlapped[r]: events under way while r subscribed

publisherVars == <<publishing, in_hand, targets, full_queue>>
historyVars   == <<event_history, made, maker>>
readerVars    == <<connection, joining, replayed>>
queueVars     == <<event_queue, lost>>
streamVars == <<historyVars, events_subs, queueVars, received, publisherVars,
                readerVars, overlapped>>

StreamInit ==
  /\ event_history = <<>> /\ made = 0 /\ maker = [e \in Events |-> RunThread]
  /\ events_subs = {}
  /\ event_queue = [r \in Readers |-> <<>>] /\ received = [r \in Readers |-> <<>>]
  /\ publishing = [p \in Publishers |-> "idle"]
  /\ in_hand = [p \in Publishers |-> Opening]
  /\ targets = [p \in Publishers |-> {}]
  /\ full_queue = [p \in Publishers |-> NoReader]
  /\ connection = [r \in Readers |-> "out"]
  /\ joining = NoReader /\ replayed = 0
  /\ lost = {} /\ overlapped = [r \in Readers |-> {}]

\* The event loop does one thing at a time.
LoopIsFree == publishing[EventLoop] = "idle" /\ joining = NoReader

\* A queue of maxsize QueueSize.  (The mutant has one place more.)
QueueFullLate(r) == Len(event_queue[r]) > QueueSize
QueueFull(r) == Len(event_queue[r]) >= QueueSize

\* put_nowait into a queue with room.
Put(r, e) == event_queue' = [event_queue EXCEPT ![r] = Append(@, e)]

-----------------------------------------------------------------------------
(* _record_stream_event and _broadcast.                                    *)

\* self._event_history.append
RecordEvent(p) ==
  /\ made < MaxEvents /\ publishing[p] = "idle"
  /\ p = EventLoop => LoopIsFree
  /\ made' = made + 1
  /\ maker' = [maker EXCEPT ![made + 1] = p]
  /\ event_history' = Append(event_history, made + 1)
  /\ in_hand' = [in_hand EXCEPT ![p] = made + 1]
  /\ publishing' = [publishing EXCEPT ![p] = "recorded"]
  /\ overlapped' = [r \in Readers |->
                      overlapped[r] \cup (IF r = joining THEN {made + 1} ELSE {})]
  /\ UNCHANGED <<events_subs, queueVars, received, targets, full_queue, readerVars>>

\* if self._events_subs: ... list(subs)
CopySubscribers(p) ==
  /\ publishing[p] = "recorded"
  /\ targets' = [targets EXCEPT ![p] = events_subs]
  /\ publishing' = [publishing EXCEPT ![p] = IF events_subs = {} THEN "idle" ELSE "putting"]
  /\ UNCHANGED <<historyVars, events_subs, queueVars, received, in_hand,
                 full_queue, readerVars, overlapped>>

\* p is through with subscriber r.
Served(p, r) ==
  /\ targets' = [targets EXCEPT ![p] = @ \ {r}]
  /\ publishing' = [publishing EXCEPT
                      ![p] = IF targets[p] = {r} THEN "idle" ELSE "putting"]
  /\ full_queue' = [full_queue EXCEPT ![p] = NoReader]
  /\ UNCHANGED <<historyVars, events_subs, received, in_hand, readerVars,
                 overlapped>>

\* p is in the except clause for r and stays there.
InExcept(p, r, place) ==
  /\ publishing' = [publishing EXCEPT ![p] = place]
  /\ full_queue' = [full_queue EXCEPT ![p] = r]
  /\ UNCHANGED <<historyVars, events_subs, received, in_hand, targets,
                 readerVars, overlapped>>

\* q.put_nowait(event)
PutNowait(p, r) ==
  /\ publishing[p] = "putting" /\ r \in targets[p]
  /\ IF QueueFull(r)
     THEN InExcept(p, r, "full") /\ UNCHANGED queueVars
     ELSE Put(r, in_hand[p]) /\ Served(p, r) /\ UNCHANGED lost

\* q.get_nowait(), which raises if the reader has emptied the queue meanwhile:
\* then the event itself is given up.
DropOldest(p, r) ==
  /\ publishing[p] = "full" /\ full_queue[p] = r
  /\ lost' = lost \cup {r}
  /\ IF event_queue[r] = <<>>
     THEN Served(p, r) /\ UNCHANGED event_queue
     ELSE /\ event_queue' = [event_queue EXCEPT ![r] = Tail(@)]
          /\ InExcept(p, r, "dropped")

\* The second put_nowait, in vain if the other publisher has taken the place.
PutAgain(p, r) ==
  /\ publishing[p] = "dropped" /\ full_queue[p] = r
  /\ IF QueueFull(r) THEN UNCHANGED event_queue ELSE Put(r, in_hand[p])
  /\ Served(p, r)
  /\ UNCHANGED lost

-----------------------------------------------------------------------------
(* subscribe and unsubscribe, by the event loop.                           *)

\* Events that are in the history but not yet with all subscribers.
UnderWay == {in_hand[p] : p \in {q \in Publishers : publishing[q] # "idle"}}

\* Mutant: the replay begins behind the first event.
SubscribePastFirst(r) ==
  /\ LoopIsFree /\ connection[r] = "out"
  /\ events_subs' = events_subs \cup {r}
  /\ connection' = [connection EXCEPT ![r] = "joining"]
  /\ joining' = r /\ replayed' = 1
  /\ overlapped' = [overlapped EXCEPT ![r] = UnderWay]
  /\ UNCHANGED <<historyVars, queueVars, received, publisherVars>>

Subscribe(r) ==
  /\ LoopIsFree /\ connection[r] = "out"
  /\ events_subs' = events_subs \cup {r}
  /\ connection' = [connection EXCEPT ![r] = "joining"]
  /\ joining' = r /\ replayed' = 0
  /\ overlapped' = [overlapped EXCEPT ![r] = UnderWay]
  /\ UNCHANGED <<historyVars, queueVars, received, publisherVars>>

\* put_nowait raises Full: the request fails, and its queue stays subscribed.
SubscribeFails(r) ==
  /\ connection' = [connection EXCEPT ![r] = "failed"]
  /\ joining' = NoReader /\ replayed' = 0
  /\ UNCHANGED event_queue

\* One turn of the loop over the history; an event appended meanwhile prolongs
\* the loop.
ReplayNext(r) ==
  /\ joining = r /\ connection[r] = "joining" /\ replayed < Len(event_history)
  /\ IF QueueFull(r)
     THEN SubscribeFails(r)
     ELSE /\ Put(r, event_history[replayed + 1])
          /\ replayed' = replayed + 1
          /\ UNCHANGED <<connection, joining>>
  /\ UNCHANGED <<historyVars, events_subs, lost, received, publisherVars,
                 overlapped>>

ReplayDone(r) ==
  /\ joining = r /\ connection[r] = "joining" /\ replayed >= Len(event_history)
  /\ connection' = [connection EXCEPT ![r] = "opening"]
  /\ UNCHANGED <<historyVars, events_subs, queueVars, received, publisherVars,
                 joining, replayed, overlapped>>

PutOpening(r) ==
  /\ joining = r /\ connection[r] = "opening"
  /\ IF QueueFull(r)
     THEN SubscribeFails(r)
     ELSE /\ Put(r, Opening)
          /\ connection' = [connection EXCEPT ![r] = "in"]
          /\ joining' = NoReader /\ replayed' = 0
  /\ UNCHANGED <<historyVars, events_subs, lost, received, publisherVars,
                 overlapped>>

\* stream_events: q.get in a thread of the executor.
Read(r) ==
  /\ connection[r] = "in" /\ event_queue[r] # <<>>
  /\ received' = [received EXCEPT ![r] = Append(@, Head(event_queue[r]))]
  /\ event_queue' = [event_queue EXCEPT ![r] = Tail(@)]
  /\ UNCHANGED <<historyVars, events_subs, lost, publisherVars, readerVars,
                 overlapped>>

Unsubscribe(r) ==
  /\ LoopIsFree /\ connection[r] = "in"
  /\ connection' = [connection EXCEPT ![r] = "left"]
  /\ events_subs' = events_subs \ {r}
  /\ UNCHANGED <<historyVars, queueVars, received, publisherVars, joining,
                 replayed, overlapped>>

\* create and reset begin with a new history; the run thread has been joined.
ClearHistory ==
  /\ LoopIsFree /\ publishing[RunThread] = "idle"
  /\ event_history # <<>>
  /\ event_history' = <<>>
  /\ UNCHANGED <<made, maker, events_subs, queueVars, received, publisherVars,
                 readerVars, overlapped>>

-----------------------------------------------------------------------------
PublishStep(p) == \/ RecordEvent(p) \/ CopySubscribers(p)
              \/ \E r \in Readers : PutNowait(p, r) \/ DropOldest(p, r) \/ PutAgain(p, r)

Connect(r) == Subscribe(r) \/ ReplayNext(r) \/ ReplayDone(r) \/ PutOpening(r)

StreamNext == \/ \E p \in Publishers : PublishStep(p)
              \/ \E r \in Readers : Connect(r) \/ Read(r) \/ Unsubscribe(r)
              \/ ClearHistory

StreamSpec == StreamInit /\ [][StreamNext]_streamVars

-----------------------------------------------------------------------------
\* Everything that r has been or is going to be given, in order.
Stream(r) == received[r] \o event_queue[r]

Count(e, s) == Cardinality({i \in 1..Len(s) : s[i] = e})

\* The types, and where each part of a publication and a subscription stands.
StreamTypeOK ==
  /\ made \in 0..MaxEvents /\ maker \in [Events -> Publishers]
  /\ event_history \in Seq(1..made)
  /\ events_subs \subseteq Readers /\ lost \subseteq Readers
  /\ event_queue \in [Readers -> Seq(0..made)]
  /\ \A r \in Readers : Len(event_queue[r]) <= QueueSize
  /\ received \in [Readers -> Seq(0..made)]
  /\ publishing \in [Publishers -> {"idle", "recorded", "putting", "full", "dropped"}]
  /\ in_hand \in [Publishers -> 0..made]
  /\ targets \in [Publishers -> SUBSET Readers]
  /\ \A p \in Publishers : publishing[p] = "putting" => targets[p] # {}
  /\ full_queue \in [Publishers -> Readers \cup {NoReader}]
  /\ \A p \in Publishers : full_queue[p] # NoReader <=> publishing[p] \in {"full", "dropped"}
  /\ connection \in [Readers -> {"out", "joining", "opening", "in", "failed", "left"}]
  /\ joining \in Readers \cup {NoReader}
  /\ \A r \in Readers : joining = r <=> connection[r] \in {"joining", "opening"}
  /\ replayed \in 0..made
  /\ overlapped \in [Readers -> SUBSET (1..made)]

\* A reader whose queue never overflowed misses nothing: the whole history since
\* the last reset is in its stream when nobody is publishing, though history and
\* broadcast are brought up to date without the lock of the subscription.
NothingMissed ==
  \A r \in Readers :
    connection[r] = "in" /\ r \notin lost /\ (\A p \in Publishers : publishing[p] = "idle") =>
      ToSet(event_history) \subseteq ToSet(Stream(r))

\* An event comes once; twice only if it was under way while the reader joined,
\* and then once from the history and once from the broadcast.
TwiceOnlyWhileJoining ==
  \A r \in Readers : \A e \in 1..made :
    Count(e, Stream(r)) <= IF e \in overlapped[r] THEN 2 ELSE 1

\* What one publisher publishes arrives in its order, across the replay, the
\* opening and drops from a full queue, except for events that were under way
\* while the reader joined.
EachPublisherInOrder ==
  \A r \in Readers : \A i, j \in 1..Len(Stream(r)) :
    LET e == Stream(r)[i]  f == Stream(r)[j] IN
    i < j /\ e # Opening /\ f # Opening /\ {e, f} \cap overlapped[r] = {}
          /\ maker[e] = maker[f] => e <= f

\* A subscription fails, and leaves a queue nobody reads, only once the history
\* fills a queue (an event under way while the reader joins takes two places);
\* until then a late reader sees all of it and the opening (sim_server.py:160).
LateReadersGetIn ==
  \A r \in Readers :
    made + Cardinality(overlapped[r]) < QueueSize => connection[r] # "failed"

\* Events reach every reader, whenever it joins.
EventsArrive ==
  NothingMissed /\ TwiceOnlyWhileJoining /\ EachPublisherInOrder /\ LateReadersGetIn
=============================================================================
