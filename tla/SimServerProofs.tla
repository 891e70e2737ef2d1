-------------------------- MODULE SimServerProofs --------------------------
(* What _env_lock and the generation of a run guarantee, for any number of *)
(* threads, commands and insertions; what readers of the events, viewers   *)
(* of frames and metrics and readers of the files of events get, for any   *)
(* number of each; that what is reported of urgent jobs inserted into a    *)
(* running simulation is what happens, and session and scheduling service  *)
(* have the same of them in hand, for any number of requests; and that     *)
(* what the backend believes of its proxy agrees with the containers, for  *)
(* any number of calls that overlap on the control of a factory.           *)
EXTENDS SimServer, MCServerStreams, FiniteSetTheorems, SequenceTheorems, TLAPS

IInv == TypeOK /\ FreshStepsOnly

LEMMA StepZero == 0 \in 0..MaxSteps
BY ServerConstants

LEMMA InitHolds == Init => IInv
<1> SUFFICES ASSUME Init PROVE IInv
  OBVIOUS
<1>1. step \in 0..MaxSteps /\ session_gen \in 0..run_generation /\ run_generation \in Nat
  BY ServerConstants DEF Init
<1>2. pending_inserts \in Seq(Inserts)
  BY DEF Init
<1>3. TypeOK
  BY <1>1, <1>2, ServerNone DEF Init, TypeOK, Places, UnderLock, CommandPlaces
<1>4. FreshStepsOnly
  BY DEF Init, FreshStepsOnly
<1> QED
  BY <1>3, <1>4 DEF IInv

\* A step of the event loop that begins a command or needs none.
LEMMA CommandKeeps ==
  IInv /\ (Resume \/ Pause \/ (\E t \in Threads : Play(t))
             \/ (\E i \in Inserts : Insert(i)) \/ (\E c \in Commands : BeginStop(c)))
    => IInv'
<1> SUFFICES ASSUME IInv,
                    Resume \/ Pause \/ (\E t \in Threads : Play(t))
                      \/ (\E i \in Inserts : Insert(i))
                      \/ (\E c \in Commands : BeginStop(c))
             PROVE  IInv'
  OBVIOUS
<1> USE ServerConstants, ServerNone
    DEF IInv, TypeOK, FreshStepsOnly, Places, UnderLock, CommandPlaces, Idle,
        flagVars, commandVars, threadVars, sessionVars, insertVars
<1>1. CASE Resume
  BY <1>1 DEF Resume
<1>2. CASE Pause
  BY <1>2 DEF Pause
<1>3. ASSUME NEW t \in Threads, Play(t) PROVE IInv'
  BY <1>3 DEF Play
<1>4. ASSUME NEW i \in Inserts, Insert(i) PROVE IInv'
  BY <1>4 DEF Insert
<1>5. ASSUME NEW c \in Commands, BeginStop(c) PROVE IInv'
  BY <1>5 DEF BeginStop
<1> QED
  BY <1>1, <1>2, <1>3, <1>4, <1>5

\* A step of a play, stop, reset or create that is going on.
LEMMA ProceedKeeps == IInv /\ Proceed => IInv'
<1> SUFFICES ASSUME IInv, Proceed PROVE IInv'
  OBVIOUS
<1> USE ServerConstants, ServerNone
    DEF IInv, TypeOK, FreshStepsOnly, Places, UnderLock, CommandPlaces, GoOn,
        GoOnCreate, flagVars, commandVars, threadVars, sessionVars, insertVars
<1>1. CASE LookAtThread
  BY <1>1 DEF LookAtThread
<1>2. CASE Join
  BY <1>2 DEF Join
<1>3. CASE JoinRaises
  BY <1>3 DEF JoinRaises
<1>4. CASE Joined
  BY <1>4 DEF Joined
<1>5. CASE JoinTimesOut
  BY <1>5 DEF JoinTimesOut
<1>6. CASE Halt
  BY <1>6 DEF Halt
<1>7. CASE ResetSession
  <2>1. step' \in 0..MaxSteps /\ done' \in BOOLEAN
    BY <1>7, StepZero DEF ResetSession
  <2>2. session_gen' \in 0..run_generation' /\ run_generation' \in Nat
    BY <1>7 DEF ResetSession
  <2>3. pending_inserts' \in Seq(Inserts)
    BY <1>7 DEF ResetSession
  <2>4. TypeOK'
    BY <1>7, <2>1, <2>2, <2>3 DEF ResetSession
  <2>5. FreshStepsOnly'
    BY <1>7 DEF ResetSession
  <2> QED
    BY <2>4, <2>5
<1>8. CASE NewSession
  <2>1. step' \in 0..MaxSteps /\ done' \in BOOLEAN
    BY <1>8, StepZero DEF NewSession
  <2>2. session_gen' \in 0..run_generation' /\ run_generation' \in Nat
    BY <1>8 DEF NewSession
  <2>3. pending_inserts' \in Seq(Inserts)
    BY <1>8 DEF NewSession
  <2>4. TypeOK'
    BY <1>8, <2>1, <2>2, <2>3 DEF NewSession
  <2>5. FreshStepsOnly'
    BY <1>8 DEF NewSession
  <2> QED
    BY <2>4, <2>5
<1>9. CASE ReplaceFails
  BY <1>9 DEF ReplaceFails
<1>10. CASE StartSchedule
  <2>1. step' \in 0..MaxSteps /\ done' \in BOOLEAN
    BY <1>10, StepZero DEF StartSchedule
  <2>2. session_gen' \in 0..run_generation' /\ run_generation' \in Nat
    BY <1>10 DEF StartSchedule
  <2>3. pending_inserts' \in Seq(Inserts)
    BY <1>10 DEF StartSchedule
  <2>4. TypeOK'
    BY <1>10, <2>1, <2>2, <2>3 DEF StartSchedule
  <2>5. FreshStepsOnly'
    BY <1>10 DEF StartSchedule
  <2> QED
    BY <2>4, <2>5
<1>11. CASE ClearManager
  BY <1>11 DEF ClearManager
<1>12. CASE StartThread
  BY <1>12 DEF StartThread
<1>13. CASE StartRaises
  BY <1>13 DEF StartRaises
<1> QED
  BY <1>1, <1>2, <1>3, <1>4, <1>5, <1>6, <1>7, <1>8, <1>9, <1>10, <1>11, <1>12, <1>13 DEF Proceed

\* A step of a run thread: only one that has found its generation current under
\* the lock begins a step of the session.
LEMMA RunKeeps == ASSUME NEW t \in Threads PROVE IInv /\ Run(t) => IInv'
<1> SUFFICES ASSUME IInv, Run(t) PROVE IInv'
  OBVIOUS
<1> USE ServerConstants, ServerNone
    DEF IInv, TypeOK, FreshStepsOnly, Places, UnderLock, CommandPlaces, Goto, Leave,
        flagVars, commandVars, threadVars, sessionVars, insertVars
<1>1. CASE Top(t)
  BY <1>1 DEF Top
<1>2. CASE Wake(t)
  BY SMTT(30), <1>2 DEF Wake
<1>3. CASE Lock(t)
  BY <1>3 DEF Lock
<1>4. CASE TakeInsert(t)
  BY <1>4 DEF TakeInsert
<1>5. CASE EndReplan(t)
  BY <1>5 DEF EndReplan
<1>6. CASE BreakUnderLock(t)
  BY <1>6 DEF BreakUnderLock, Drained
<1>7. CASE EndReplay(t)
  BY ZenonT(30), <1>7 DEF EndReplay, Drained
<1>8. CASE BeginStep(t)
  BY <1>8 DEF BeginStep, Drained, GivenUp
<1>9. CASE EndStep(t)
  BY <1>9 DEF EndStep
<1>10. CASE StepRaises(t)
  BY <1>10 DEF StepRaises
<1>11. CASE Publish(t)
  <2>1. PICK next \in {"over", "top"} : pc[t] = "publish" /\ Goto(t, next) /\ env_lock' = env_lock
    BY <1>11 DEF Publish
  <2> QED
    BY <2>1
<1>12. CASE EndEpisode(t)
  BY <1>12 DEF EndEpisode
<1>13. ASSUME NEW from \in {"unset", "clear"}, NEW next \in {"finally", "cleared"},
              ClearRunning(t, from, next)
       PROVE  IInv'
  <2>1. /\ pc' \in [Threads -> Places]
        /\ \A u \in Threads : pc'[u] = IF u = t THEN next ELSE pc[u]
    BY <1>13 DEF ClearRunning
  <2>2. UNCHANGED <<record, env_lock, gen, session_gen>>
    BY <1>13 DEF ClearRunning
  <2>3. pc[t] \notin UnderLock /\ next \notin UnderLock
    BY <1>13 DEF ClearRunning
  <2>4. /\ \A u \in Threads : (record'[u] # None) <=> (pc'[u] = "replan")
        /\ \A u \in Threads : (env_lock' = u) <=> (pc'[u] \in UnderLock)
    BY <2>1, <2>2, <2>3
  <2>5. FreshStepsOnly'
    BY <2>1, <2>2, <2>3
  <2>6. /\ running' \in BOOLEAN /\ paused' \in BOOLEAN
        /\ stop_event' \in BOOLEAN /\ pause_event' \in BOOLEAN
    BY <1>13 DEF ClearRunning
  <2>7. step' \in 0..MaxSteps /\ done' \in BOOLEAN
    BY <1>13 DEF ClearRunning
  <2>8. /\ run_generation' \in Nat /\ session_gen' \in 0..run_generation'
        /\ gen' \in [Threads -> Nat]
        /\ pending_inserts' \in Seq(Inserts)
    BY <1>13 DEF ClearRunning
  <2>9. TypeOK'
    BY <1>13, <2>1, <2>4, <2>6, <2>7, <2>8 DEF ClearRunning
  <2> QED
    BY <2>5, <2>9
<1>14. CASE RecordError(t)
  BY <1>14 DEF RecordError
<1>15. CASE Finally(t)
  BY <1>15 DEF Finally
<1>16. CASE ClearThread(t)
  BY <1>16 DEF ClearThread
<1> QED
  BY <1>1, <1>2, <1>3, <1>4, <1>5, <1>6, <1>7, <1>8, <1>9, <1>10, <1>11, <1>12,
     <1>13, <1>14, <1>15, <1>16 DEF Run

LEMMA StutterKeeps == IInv /\ UNCHANGED vars => IInv'
BY DEF IInv, TypeOK, FreshStepsOnly, vars, flagVars, commandVars, threadVars,
       sessionVars, insertVars

LEMMA StepKeeps == IInv /\ [Next]_vars => IInv'
BY CommandKeeps, ProceedKeeps, RunKeeps, StutterKeeps DEF Next

LEMMA Invariance == Spec => []IInv
<1>1. Init => IInv
  BY InitHolds
<1>2. IInv /\ [Next]_vars => IInv'
  BY StepKeeps
<1> QED
  BY <1>1, <1>2, PTL DEF Spec

\* The types, and with them that a thread holds the environment lock exactly
\* inside its `with` block, in every reachable state.
THEOREM TypeCorrect == Spec => []TypeOK
<1>1. IInv => TypeOK
  BY DEF IInv
<1> QED
  BY <1>1, Invariance, PTL

\* No run steps a session that has replaced the one it was started for, however
\* many threads a stop has given up on.
THEOREM StepsAreFresh == Spec => []FreshStepsOnly
<1>1. IInv => FreshStepsOnly
  BY DEF IInv
<1> QED
  BY <1>1, Invariance, PTL

-----------------------------------------------------------------------------
(* Without create, which replaces the session and clears the queue in two  *)
(* steps, no insertion outlives its session.                               *)

Swept ==
  /\ stale \subseteq accepted
  /\ installed \cap stale = {}
  /\ \A n \in DOMAIN pending_inserts : pending_inserts[n] \notin stale
  /\ \A t \in Threads : record[t] \notin stale

\* A step that moves no insertion.
LEMMA SweptStays == Swept /\ UNCHANGED <<record, insertVars>> => Swept'
BY DEF Swept, insertVars

\* enqueue_insert_jobs takes a new record to the queue.
LEMMA InsertSweeps ==
  ASSUME NEW i \in Inserts, TypeOK, Swept, Insert(i) PROVE Swept'
<1>1. i \notin stale
  BY DEF Insert, Swept
<1>2. \A n \in DOMAIN pending_inserts' :
        pending_inserts'[n] = i \/ \E k \in DOMAIN pending_inserts : pending_inserts'[n] = pending_inserts[k]
  BY DEF Insert, TypeOK
<1>3. /\ \A n \in DOMAIN pending_inserts' : pending_inserts'[n] \notin stale
      /\ UNCHANGED <<record, installed, stale>>
  BY <1>1, <1>2 DEF Insert, Swept, threadVars
<1> QED
  BY <1>3 DEF Insert, Swept

\* The queue is emptied while no thread has the lock, so none has an insertion
\* in hand.
LEMMA ResetSweeps == TypeOK /\ Swept /\ ResetSession => Swept'
<1> SUFFICES ASSUME TypeOK, Swept, ResetSession PROVE Swept'
  OBVIOUS
<1>1. \A t \in Threads : record[t] = None
  BY ServerNone DEF ResetSession, TypeOK, UnderLock
<1>2. None \notin accepted
  BY ServerNone DEF TypeOK
<1> QED
  BY <1>1, <1>2 DEF ResetSession, Swept, threadVars

LEMMA TakeSweeps ==
  ASSUME NEW t \in Threads, TypeOK, Swept, TakeInsert(t) PROVE Swept'
<1>1. /\ Head(pending_inserts) = pending_inserts[1]
      /\ 1 \in DOMAIN pending_inserts
  BY DEF TakeInsert, TypeOK
<1>2. \A n \in DOMAIN pending_inserts' : n + 1 \in DOMAIN pending_inserts
                                     /\ pending_inserts'[n] = pending_inserts[n + 1]
  BY DEF TakeInsert, TypeOK
<1>3. \A n \in DOMAIN pending_inserts' : pending_inserts'[n] \notin stale
  BY <1>2 DEF Swept
<1>4. \A u \in Threads : record'[u] \notin stale
  BY <1>1 DEF TakeInsert, TypeOK, Swept
<1> QED
  BY <1>3, <1>4 DEF TakeInsert, Swept

LEMMA EndReplanSweeps ==
  ASSUME NEW t \in Threads, TypeOK, Swept, EndReplan(t) PROVE Swept'
<1>1. installed' \cap stale = {}
  BY DEF EndReplan, Swept
<1>2. \A u \in Threads : record'[u] \notin stale
  BY ServerNone DEF EndReplan, TypeOK, Swept
<1> QED
  BY <1>1, <1>2 DEF EndReplan, Swept

LEMMA SweepingStep ==
  ASSUME "create" \notin Commands, TypeOK, Swept, [Next]_vars PROVE Swept'
<1> USE DEF flagVars, commandVars, threadVars, insertVars
<1>1. command # "create"
  BY ServerNone DEF TypeOK
<1>2. ASSUME Resume \/ Pause \/ (\E t \in Threads : Play(t))
               \/ (\E c \in Commands : BeginStop(c))
      PROVE  Swept'
  <2>1. UNCHANGED <<record, insertVars>>
    BY <1>2 DEF Resume, Pause, Play, BeginStop
  <2> QED
    BY <2>1, SweptStays
<1>3. CASE Proceed
  <2>1. CASE ResetSession
    BY <2>1, ResetSweeps
  <2>2. CASE ~ResetSession
    <3>1. CASE LookAtThread \/ Join \/ JoinRaises \/ Joined \/ JoinTimesOut \/ Halt
                 \/ ReplaceFails \/ StartThread \/ StartRaises
      <4>1. UNCHANGED <<record, insertVars>>
        BY <3>1 DEF LookAtThread, Join, JoinRaises, Joined, JoinTimesOut, Halt,
                    ReplaceFails, StartThread, StartRaises, GoOn
      <4> QED
        BY <4>1, SweptStays
    <3> QED
      BY <1>1, <1>3, <2>2, <3>1 DEF Proceed, NewSession, StartSchedule, ClearManager
  <2> QED
    BY <2>1, <2>2
<1>4. ASSUME NEW t \in Threads, Run(t) PROVE Swept'
  <2>1. CASE TakeInsert(t)
    BY <2>1, TakeSweeps
  <2>2. CASE EndReplan(t)
    BY <2>2, EndReplanSweeps
  <2>3. CASE ~TakeInsert(t) /\ ~EndReplan(t)
    <3>1. UNCHANGED <<record, insertVars>>
      BY <1>4, <2>3 DEF Run, Top, Wake, Lock, BreakUnderLock, EndReplay, BeginStep,
                       EndStep, StepRaises, Publish, EndEpisode, ClearRunning,
                       RecordError, Finally, ClearThread, Goto, Leave
    <3> QED
      BY <3>1, SweptStays
  <2> QED
    BY <2>1, <2>2, <2>3
<1>5. CASE UNCHANGED vars
  BY <1>5, SweptStays DEF vars
<1> QED
  BY <1>2, <1>3, <1>4, <1>5, InsertSweeps DEF Next

\* Where the sessions are replaced by reset alone, no insertion accepted before
\* a reset is ever installed after it, however many threads it has given up on.
THEOREM ResetStartsAfresh ==
  ASSUME "create" \notin Commands PROVE Spec => []SessionStartsAfresh
<1>1. Init => Swept
  BY ServerNone DEF Init, Swept
<1>2. TypeOK /\ Swept /\ [Next]_vars => Swept'
  BY SweepingStep
<1>3. Swept => SessionStartsAfresh
  BY DEF Swept, SessionStartsAfresh
<1> QED
  BY <1>1, <1>2, <1>3, TypeCorrect, PTL DEF Spec

-----------------------------------------------------------------------------
(* The stream of events.                                                   *)

\* The history is what has been recorded since it was cleared; that many events were
\* recorded before.
Forgotten == made - Len(event_history)

HistoryIsNumbered ==
  /\ Len(event_history) <= made
  /\ \A i \in 1..Len(event_history) : event_history[i] = Forgotten + i
  /\ replayed <= Len(event_history)
  /\ joining = NoReader => replayed = 0

\* Where a publication is, and that a publisher is about the last event it made.
PublicationsAreOwn ==
  \A p \in Publishers :
    /\ publishing[p] \in {"idle", "recorded"} => targets[p] = {}
    /\ publishing[p] \in {"full", "dropped"} => full_queue[p] \in targets[p]
    /\ publishing[p] = "dropped" => full_queue[p] \in lost
    /\ publishing[p] # "idle" => in_hand[p] \in 1..made /\ maker[in_hand[p]] = p
    /\ \A e \in 1..made : maker[e] = p => e <= in_hand[p]

BaseInv == StreamTypeOK /\ HistoryIsNumbered /\ PublicationsAreOwn

\* What r may still be given of e: by its publisher, and by the replay.
Pending(r, e) ==
  \E p \in Publishers : in_hand[p] = e /\ (publishing[p] = "recorded" \/ r \in targets[p])

ToReplay(r, e) == connection[r] = "joining" /\ Forgotten + replayed < e

Once(condition) == IF condition THEN 1 ELSE 0

In(e, s) == \E i \in 1..Len(s) : s[i] = e

\* Where r stands in its subscription.  What it has while it joins comes from the
\* replay, or was under way.
Known(r) ==
  /\ connection[r] = "out" =>
       Stream(r) = <<>> /\ r \notin events_subs /\ \A p \in Publishers : r \notin targets[p]
  /\ connection[r] \in {"joining", "opening", "in"} => r \in events_subs
  /\ connection[r] \in {"joining", "opening"} =>
       /\ received[r] = <<>> /\ ~ In(Opening, Stream(r))
       /\ \A p \in Publishers : publishing[p] # "idle" => in_hand[p] \in overlapped[r]
       /\ \A i \in 1..Len(Stream(r)) :
            Stream(r)[i] \in overlapped[r] \/ Stream(r)[i] <= Forgotten + replayed

\* How often an event has come and may still come.
NotTooOften(r) ==
  \A e \in 1..made :
    Count(e, Stream(r)) + Once(Pending(r, e)) + Once(ToReplay(r, e))
      <= IF e \in overlapped[r] THEN 2 ELSE 1

\* Whatever has not come is still to come.
StillToCome(r) ==
  r \notin lost /\ connection[r] \in {"joining", "opening", "in"} =>
    \A i \in 1..Len(event_history) :
      \/ In(event_history[i], Stream(r))
      \/ Pending(r, event_history[i]) \/ ToReplay(r, event_history[i])

StreamInOrder(r) ==
  \A i, j \in 1..Len(Stream(r)) :
    LET e == Stream(r)[i]  f == Stream(r)[j] IN
    i < j /\ e # Opening /\ f # Opening /\ {e, f} \cap overlapped[r] = {}
          /\ maker[e] = maker[f] => e <= f

GetsIn(r) ==
  made + Cardinality(overlapped[r]) < QueueSize => connection[r] # "failed"

ReaderInv(r) == Known(r) /\ NotTooOften(r) /\ StillToCome(r) /\ StreamInOrder(r) /\ GetsIn(r)

StreamInv == BaseInv /\ \A r \in Readers : ReaderInv(r)

-----------------------------------------------------------------------------
(* Sequences.                                                              *)

\* Putting at the end of the queue, reading from its head, dropping its head.
LEMMA StreamSequences ==
  ASSUME NEW T, NEW s \in Seq(T), NEW q \in Seq(T)
  PROVE  /\ \A x \in T : s \o Append(q, x) = Append(s \o q, x)
         /\ q # <<>> => Append(s, Head(q)) \o Tail(q) = s \o q
<1>1. ASSUME NEW x \in T PROVE s \o Append(q, x) = Append(s \o q, x)
  <2>1. <<x>> \in Seq(T)
    OBVIOUS
  <2> QED BY <2>1, AppendIsConcat, ConcatAssociative, ConcatProperties
<1>2. ASSUME q # <<>> PROVE Append(s, Head(q)) \o Tail(q) = s \o q
  <2>1. Head(q) \in T /\ Tail(q) \in Seq(T) /\ <<Head(q)>> \in Seq(T)
    BY <1>2, HeadTailProperties
  <2>2. Append(s, Head(q)) \o Tail(q) = s \o (<<Head(q)>> \o Tail(q))
    <3>1. Append(s, Head(q)) = s \o <<Head(q)>>
      BY <2>1, AppendIsConcat
    <3> QED BY <2>1, <3>1, ConcatAssociative
  <2>3. <<Head(q)>> \o Tail(q) = q
    <3>1. Len(q) \in Nat \ {0} /\ Len(Tail(q)) = Len(q) - 1
      BY <1>2, EmptySeq, HeadTailProperties
    <3>2. \A i \in 1..Len(Tail(q)) : Tail(q)[i] = q[i + 1]
      BY <1>2, HeadTailProperties
    <3>3. <<Head(q)>> \o Tail(q) \in Seq(T) /\ Len(<<Head(q)>> \o Tail(q)) = Len(q)
      BY <2>1, <3>1, ConcatProperties
    <3>4. ASSUME NEW i \in 1..Len(q) PROVE (<<Head(q)>> \o Tail(q))[i] = q[i]
      <4>1. (<<Head(q)>> \o Tail(q))[i] = IF i <= 1 THEN <<Head(q)>>[i] ELSE Tail(q)[i - 1]
        BY <2>1, <3>1, ConcatProperties
      <4>2. i > 1 => i - 1 \in 1..Len(Tail(q))
        BY <3>1
      <4>3. i > 1 => Tail(q)[i - 1] = q[(i - 1) + 1] /\ (i - 1) + 1 = i
        BY <3>2, <4>2
      <4>4. i <= 1 => i = 1 /\ <<Head(q)>>[i] = q[i]
        BY <3>1
      <4> QED BY <4>1, <4>3, <4>4
    <3> QED BY <3>3, <3>4, SeqEqual
  <2> QED BY <2>2, <2>3
<1> QED BY <1>1, <1>2

\* What is left when an element is dropped out of the middle.
Without(t, s, k) ==
  /\ Len(t) + 1 = Len(s) /\ k \in 1..Len(s)
  /\ \A i \in 1..Len(t) : t[i] = s[IF i < k THEN i ELSE i + 1]

LEMMA DropSequences ==
  ASSUME NEW T, NEW s \in Seq(T), NEW q \in Seq(T), q # <<>>
  PROVE  Without(s \o Tail(q), s \o q, Len(s) + 1)
<1>1. Len(s) \in Nat /\ Len(q) \in Nat \ {0} /\ Len(Tail(q)) = Len(q) - 1 /\ Tail(q) \in Seq(T)
  BY EmptySeq, HeadTailProperties, LenProperties
<1>2. \A i \in 1..Len(Tail(q)) : Tail(q)[i] = q[i + 1]
  BY HeadTailProperties
<1>3. /\ Len(s \o q) = Len(s) + Len(q) /\ Len(s \o Tail(q)) = Len(s) + Len(q) - 1
      /\ \A i \in 1..Len(s) + Len(q) : (s \o q)[i] = IF i <= Len(s) THEN s[i] ELSE q[i - Len(s)]
  BY <1>1, ConcatProperties
<1>4. \A i \in 1..Len(s) + Len(Tail(q)) :
         (s \o Tail(q))[i] = IF i <= Len(s) THEN s[i] ELSE Tail(q)[i - Len(s)]
  BY <1>1, ConcatProperties
<1>5. ASSUME NEW i \in 1..Len(s \o Tail(q))
      PROVE  (s \o Tail(q))[i] = (s \o q)[IF i < Len(s) + 1 THEN i ELSE i + 1]
  <2>1. CASE i <= Len(s)
    BY <1>1, <1>3, <1>4, <2>1
  <2>2. CASE i > Len(s)
    <3>1. /\ i - Len(s) \in 1..Len(Tail(q)) /\ i + 1 \in 1..Len(s) + Len(q)
          /\ (i + 1) - Len(s) = (i - Len(s)) + 1 /\ ~(i + 1 <= Len(s)) /\ ~(i <= Len(s))
          /\ i \in 1..Len(s) + Len(Tail(q)) /\ ~(i < Len(s) + 1)
      BY <1>1, <1>3, <2>2
    <3>2. (s \o Tail(q))[i] = Tail(q)[i - Len(s)] /\ (s \o q)[i + 1] = q[(i + 1) - Len(s)]
      BY <1>3, <1>4, <3>1
    <3> QED BY <1>2, <3>1, <3>2
  <2> QED BY <1>1, <1>3, <2>1, <2>2
<1> QED BY <1>1, <1>3, <1>5 DEF Without

\* Counting.
LEMMA CountType ==
  ASSUME NEW T, NEW s \in Seq(T), NEW e
  PROVE  /\ IsFiniteSet({i \in 1..Len(s) : s[i] = e})
         /\ Count(e, s) \in Nat /\ (In(e, s) <=> Count(e, s) > 0)
<1> DEFINE C == {i \in 1..Len(s) : s[i] = e}
<1>1. Len(s) \in Nat
  BY LenProperties
<1>2. IsFiniteSet(1..Len(s)) /\ C \in SUBSET (1..Len(s))
  BY <1>1, FS_Interval
<1>3. IsFiniteSet(C)
  BY <1>2, FS_Subset
<1>4. Cardinality(C) \in Nat /\ (Cardinality(C) = 0 <=> C = {})
  BY <1>3, FS_CardinalityType, FS_EmptySet
<1>5. In(e, s) <=> C # {}
  BY DEF In
<1> QED BY <1>3, <1>4, <1>5 DEF Count

LEMMA CountAppend ==
  ASSUME NEW T, NEW s \in Seq(T), NEW x \in T, NEW e
  PROVE  Count(e, Append(s, x)) = Count(e, s) + Once(x = e)
<1> DEFINE C == {i \in 1..Len(s) : s[i] = e}
           D == {i \in 1..Len(Append(s, x)) : Append(s, x)[i] = e}
<1>1. /\ Len(s) \in Nat /\ Len(Append(s, x)) = Len(s) + 1
      /\ \A i \in 1..Len(s) : Append(s, x)[i] = s[i]
      /\ Append(s, x)[Len(s) + 1] = x
  BY AppendProperties, LenProperties
<1>2. D = IF x = e THEN C \cup {Len(s) + 1} ELSE C
  <2>1. \A i : i \in 1..Len(Append(s, x)) <=> i \in 1..Len(s) \/ i = Len(s) + 1
    BY <1>1
  <2>2. \A i : i \in D <=> i \in C \/ (i = Len(s) + 1 /\ x = e)
    BY <1>1, <2>1
  <2> QED BY <2>2
<1>3. Len(s) + 1 \notin C
  BY <1>1
<1>4. IsFiniteSet(C) /\ Cardinality(C) \in Nat
  BY CountType DEF Count
<1>5. Cardinality(C \cup {Len(s) + 1}) = Cardinality(C) + 1
  BY <1>3, <1>4, FS_AddElement
<1>6. Count(e, s) = Cardinality(C) /\ Count(e, Append(s, x)) = Cardinality(D)
  BY DEF Count
<1> HIDE DEF C, D
<1> QED BY <1>2, <1>4, <1>5, <1>6 DEF Once

LEMMA CountWithout ==
  ASSUME NEW T, NEW s \in Seq(T), NEW t \in Seq(T), NEW k, Without(t, s, k), NEW e
  PROVE  Count(e, t) <= Count(e, s)
<1> DEFINE C == {i \in 1..Len(s) : s[i] = e}
           D == {i \in 1..Len(t) : t[i] = e}
           f == [i \in D |-> IF i < k THEN i ELSE i + 1]
<1>1. Len(s) \in Nat /\ Len(t) \in Nat /\ IsFiniteSet(C)
  BY CountType, LenProperties
<1>2. \A i \in D : f[i] \in C
  BY <1>1 DEF Without
<1>3. \A i, j \in D : f[i] = f[j] => i = j
  BY <1>1 DEF Without
<1>4. f \in [D -> C]
  BY <1>2
<1> HIDE DEF f
<1>5. f \in Injection(D, C)
  BY <1>3, <1>4 DEF Injection, IsInjective
<1> QED BY <1>1, <1>5, FS_Injection DEF Count
LEMMA SeqOfElements ==
  ASSUME NEW T, NEW s \in Seq(T), NEW U, \A i \in 1..Len(s) : s[i] \in U
  PROVE  s \in Seq(U)
OBVIOUS

\* Elements at two or three places are counted twice or three times.
LEMMA CountPlaces ==
  ASSUME NEW T, NEW s \in Seq(T), NEW i \in 1..Len(s), NEW j \in 1..Len(s), i # j,
         s[i] = s[j]
  PROVE  /\ Count(s[i], s) >= 2
         /\ \A k \in 1..Len(s) \ {i, j} : s[k] = s[i] => Count(s[i], s) >= 3
<1> DEFINE C == {n \in 1..Len(s) : s[n] = s[i]}
<1>1. IsFiniteSet(C) /\ Count(s[i], s) = Cardinality(C)
  BY CountType DEF Count
<1> DEFINE one == {i}
           two == one \cup {j}
<1>2. IsFiniteSet(one) /\ Cardinality(one) = 1 /\ j \notin one
  BY FS_Singleton
<1>3. /\ two \in SUBSET C /\ \A k \in C \ {i, j} : k \notin two /\ two \cup {k} \in SUBSET C
      /\ \A k \in 1..Len(s) \ {i, j} : s[k] = s[i] => k \in C \ {i, j}
  OBVIOUS
<1> HIDE DEF C, one
<1>4. IsFiniteSet(two) /\ Cardinality(two) = 2
  <2>1. IsFiniteSet(one \cup {j}) /\ (j \notin one => Cardinality(one \cup {j}) = Cardinality(one) + 1)
    BY <1>2, FS_AddElement
  <2> QED BY <1>2, <2>1
<1> HIDE DEF two
<1>5. Cardinality(two) <= Cardinality(C) /\ Cardinality(C) \in Nat
  BY <1>1, <1>3, FS_Subset, FS_CardinalityType
<1>6. ASSUME NEW k \in C \ {i, j} PROVE Cardinality(C) >= 3
  <2>1. k \notin two => Cardinality(two \cup {k}) = Cardinality(two) + 1
    BY <1>4, FS_AddElement
  <2>2. k \notin two /\ two \cup {k} \in SUBSET C
    BY <1>3, <1>6
  <2>3. Cardinality(two \cup {k}) <= Cardinality(C)
    BY <1>1, <2>2, FS_Subset
  <2>4. Cardinality(two \cup {k}) = 3
    BY <1>4, <2>1, <2>2
  <2> QED BY <1>5, <2>3, <2>4
<1> QED BY <1>1, <1>3, <1>4, <1>5, <1>6

\* A sequence in which only some come twice, and nothing more often, is not long.
LEMMA LengthBound ==
  ASSUME NEW n \in Nat, NEW s \in Seq(1..n), NEW twice \in SUBSET (1..n),
         \A e \in 1..n : Count(e, s) <= IF e \in twice THEN 2 ELSE 1
  PROVE  Len(s) <= n + Cardinality(twice)
<1> DEFINE again == {i \in 1..Len(s) : \E j \in 1..Len(s) : j < i /\ s[j] = s[i]}
           first == (1..Len(s)) \ again
           f == [i \in first |-> s[i]]
           g == [i \in again |-> s[i]]
<1>1. Len(s) \in Nat /\ \A i \in 1..Len(s) : s[i] \in 1..n
  BY ElementOfSeq, LenProperties
<1>2. \A i \in 1..Len(s) : Count(s[i], s) \in Nat
  BY CountType
<1>3. \A i, j \in 1..Len(s) : i # j /\ s[i] = s[j] => s[i] \in twice
  <2> SUFFICES ASSUME NEW i \in 1..Len(s), NEW j \in 1..Len(s), i # j, s[i] = s[j]
               PROVE  s[i] \in twice
    OBVIOUS
  <2>1. Count(s[i], s) >= 2
    BY CountPlaces
  <2> QED BY <1>1, <1>2, <2>1
<1>4. \A i, j, k \in 1..Len(s) : s[i] = s[j] /\ s[j] = s[k] => i = j \/ j = k \/ i = k
  <2> SUFFICES ASSUME NEW i \in 1..Len(s), NEW j \in 1..Len(s), NEW k \in 1..Len(s),
                      s[i] = s[j], s[j] = s[k], i # j, j # k, i # k
               PROVE  FALSE
    OBVIOUS
  <2>1. Count(s[i], s) >= 3
    BY CountPlaces
  <2>2. Count(s[i], s) <= 2
    BY <1>1, <1>2
  <2> QED BY <1>2, <2>1, <2>2
<1>5. f \in [first -> 1..n] /\ \A i, j \in first : f[i] = f[j] => i = j
  BY <1>1
<1>6. f \in Injection(first, 1..n)
  BY <1>5 DEF Injection, IsInjective
<1>7. g \in [again -> twice]
  BY <1>3
<1>8. \A i, j \in again : g[i] = g[j] => i = j
  <2>1. \A i, j \in again : s[i] = s[j] => ~(i < j)
    BY <1>1, <1>4
  <2>2. \A i \in again : g[i] = s[i] /\ i \in Nat
    BY <1>1
  <2> HIDE DEF g, again
  <2> QED BY <2>1, <2>2
<1>9. g \in Injection(again, twice)
  BY <1>7, <1>8 DEF Injection, IsInjective
<1> HIDE DEF f, g
<1>10. IsFiniteSet(1..n) /\ Cardinality(1..n) = n
  BY FS_Interval
<1>11. IsFiniteSet(twice)
  BY <1>10, FS_Subset
<1>12. IsFiniteSet(first) /\ Cardinality(first) <= n
  BY <1>6, <1>10, FS_Injection
<1>13. IsFiniteSet(again) /\ Cardinality(again) <= Cardinality(twice)
  BY <1>9, <1>11, FS_Injection
<1>14. first \cup again = 1..Len(s) /\ first \cap again = {}
  OBVIOUS
<1>15. Cardinality(first \cup again) = Cardinality(first) + Cardinality(again) - Cardinality(first \cap again)
  BY <1>12, <1>13, FS_Union
<1>16. Cardinality(1..Len(s)) = Len(s) /\ Cardinality({}) = 0
  <2>1. 1 \in Int /\ Len(s) \in Int
    BY <1>1
  <2>2. Cardinality(1..Len(s)) = IF 1 > Len(s) THEN 0 ELSE Len(s) - 1 + 1
    BY <2>1, FS_Interval
  <2> QED BY <1>1, <2>2, FS_EmptySet
<1>17. Cardinality(first) \in Nat /\ Cardinality(again) \in Nat /\ Cardinality(twice) \in Nat
  BY <1>11, <1>12, <1>13, FS_CardinalityType
<1>18. Len(s) = Cardinality(first) + Cardinality(again)
  <2> HIDE DEF first, again
  <2>1. Cardinality(first \cap again) = 0 /\ Cardinality(first \cup again) = Len(s)
    BY <1>14, <1>16, Zenon
  <2> QED BY <1>1, <1>15, <1>17, <2>1
<1> HIDE DEF first, again
<1> QED BY <1>1, <1>12, <1>13, <1>17, <1>18
-----------------------------------------------------------------------------
(* What a step does to the stream of a reader.                             *)

Same(r) == Stream(r)' = Stream(r)
Gets(r, e) == Stream(r)' = Append(Stream(r), e)
Loses(r) == \E k : Without(Stream(r)', Stream(r), k)

LEMMA StreamType ==
  StreamTypeOK => \A r \in Readers :
    /\ Stream(r) \in Seq(0..made) /\ Len(Stream(r)) \in Nat
    /\ \A i \in 1..Len(Stream(r)) : Stream(r)[i] \in 0..made
    /\ received[r] \in Seq(0..made) /\ event_queue[r] \in Seq(0..made)
<1> SUFFICES ASSUME StreamTypeOK, NEW r \in Readers
             PROVE  /\ Stream(r) \in Seq(0..made) /\ Len(Stream(r)) \in Nat
                    /\ \A i \in 1..Len(Stream(r)) : Stream(r)[i] \in 0..made
                    /\ received[r] \in Seq(0..made) /\ event_queue[r] \in Seq(0..made)
  OBVIOUS
<1>1. received[r] \in Seq(0..made) /\ event_queue[r] \in Seq(0..made)
  BY DEF StreamTypeOK
<1>2. Stream(r) \in Seq(0..made)
  BY <1>1, ConcatProperties DEF Stream
<1> QED BY <1>1, <1>2, LenProperties, ElementOfSeq

LEMMA StreamTypeNext ==
  ASSUME StreamTypeOK', NEW r \in Readers
  PROVE  /\ Stream(r)' \in Seq(0..made') /\ Len(Stream(r)') \in Nat
         /\ \A i \in 1..Len(Stream(r)') : Stream(r)'[i] \in 0..made'
<1>1. received'[r] \in Seq(0..made') /\ event_queue'[r] \in Seq(0..made')
  BY DEF StreamTypeOK
<1>2. Stream(r)' \in Seq(0..made')
  BY <1>1, ConcatProperties DEF Stream
<1> QED BY <1>2, LenProperties, ElementOfSeq

\* How the steps change what a reader is given: not at all, by one event
\* at the end, or by the loss of one.
LEMMA QuietStreams ==
  UNCHANGED <<event_queue, received>> => \A r : Same(r)
BY DEF Same, Stream

LEMMA PutStreams ==
  ASSUME StreamTypeOK, NEW r \in Readers, NEW e \in 0..made, Put(r, e), UNCHANGED received
  PROVE  Gets(r, e) /\ \A q \in Readers \ {r} : Same(q)
<1>1. received[r] \in Seq(0..made) /\ event_queue[r] \in Seq(0..made)
  BY StreamType
<1>2. received[r] \o Append(event_queue[r], e) = Append(received[r] \o event_queue[r], e)
  BY <1>1, StreamSequences
<1>3. event_queue'[r] = Append(event_queue[r], e) /\ \A q \in Readers \ {r} : event_queue'[q] = event_queue[q]
  BY DEF StreamTypeOK, Put
<1> QED BY <1>2, <1>3 DEF Gets, Same, Stream

LEMMA ReadStreams ==
  ASSUME StreamTypeOK, NEW r \in Readers, Read(r) PROVE \A q \in Readers : Same(q)
<1>1. received[r] \in Seq(0..made) /\ event_queue[r] \in Seq(0..made) /\ event_queue[r] # <<>>
  BY StreamType DEF Read
<1>2. Append(received[r], Head(event_queue[r])) \o Tail(event_queue[r]) = received[r] \o event_queue[r]
  BY <1>1, StreamSequences
<1>3. /\ received'[r] = Append(received[r], Head(event_queue[r]))
      /\ event_queue'[r] = Tail(event_queue[r])
      /\ \A q \in Readers \ {r} : event_queue'[q] = event_queue[q] /\ received'[q] = received[q]
  BY DEF StreamTypeOK, Read
<1> QED BY <1>2, <1>3 DEF Same, Stream

LEMMA DropStreams ==
  ASSUME StreamTypeOK, NEW r \in Readers, event_queue[r] # <<>>, UNCHANGED received,
         event_queue' = [event_queue EXCEPT ![r] = Tail(@)]
  PROVE  Loses(r) /\ \A q \in Readers \ {r} : Same(q)
<1>1. received[r] \in Seq(0..made) /\ event_queue[r] \in Seq(0..made)
  BY StreamType
<1>2. Without(received[r] \o Tail(event_queue[r]), received[r] \o event_queue[r], Len(received[r]) + 1)
  BY <1>1, DropSequences
<1>3. event_queue'[r] = Tail(event_queue[r]) /\ \A q \in Readers \ {r} : event_queue'[q] = event_queue[q]
  BY DEF StreamTypeOK
<1> QED BY <1>2, <1>3 DEF Loses, Same, Stream

-----------------------------------------------------------------------------
(* Types.                                                                  *)

\* A queue after a put, with room before, and after a get.
LEMMA QueueType ==
  ASSUME StreamTypeOK, NEW r \in Readers
  PROVE  /\ \A e \in 0..made :
              ~QueueFull(r) /\ Put(r, e) =>
                /\ event_queue' \in [Readers -> Seq(0..made)]
                /\ \A q \in Readers : Len(event_queue'[q]) <= QueueSize
         /\ event_queue[r] # <<>> =>
              /\ Head(event_queue[r]) \in 0..made
              /\ Append(received[r], Head(event_queue[r])) \in Seq(0..made)
              /\ event_queue' = [event_queue EXCEPT ![r] = Tail(@)] =>
                   /\ event_queue' \in [Readers -> Seq(0..made)]
                   /\ \A q \in Readers : Len(event_queue'[q]) <= QueueSize
<1>1. received[r] \in Seq(0..made) /\ event_queue[r] \in Seq(0..made)
  BY StreamType
<1>2. Len(event_queue[r]) \in Nat /\ \A q \in Readers : Len(event_queue[q]) <= QueueSize
  BY <1>1, LenProperties DEF StreamTypeOK
<1>3. ASSUME NEW e \in 0..made, ~QueueFull(r), Put(r, e)
      PROVE  /\ event_queue' \in [Readers -> Seq(0..made)]
             /\ \A q \in Readers : Len(event_queue'[q]) <= QueueSize
  <2>1. Append(event_queue[r], e) \in Seq(0..made) /\ Len(Append(event_queue[r], e)) = Len(event_queue[r]) + 1
    BY <1>1, AppendProperties
  <2>2. Len(Append(event_queue[r], e)) <= QueueSize
    BY <1>2, <1>3, <2>1, StreamConstants DEF QueueFull
  <2> QED BY <1>2, <1>3, <2>1, <2>2 DEF Put, StreamTypeOK
<1>4. ASSUME event_queue[r] # <<>>
      PROVE  /\ Head(event_queue[r]) \in 0..made
             /\ Append(received[r], Head(event_queue[r])) \in Seq(0..made)
             /\ event_queue' = [event_queue EXCEPT ![r] = Tail(@)] =>
                   /\ event_queue' \in [Readers -> Seq(0..made)]
                   /\ \A q \in Readers : Len(event_queue'[q]) <= QueueSize
  <2>1. /\ Head(event_queue[r]) \in 0..made /\ Tail(event_queue[r]) \in Seq(0..made)
        /\ Len(Tail(event_queue[r])) = Len(event_queue[r]) - 1
    BY <1>1, <1>4, HeadTailProperties
  <2>2. Append(received[r], Head(event_queue[r])) \in Seq(0..made)
    BY <1>1, <2>1, AppendProperties
  <2>3. Len(Tail(event_queue[r])) <= QueueSize
    BY <1>2, <2>1, StreamConstants
  <2>4. event_queue \in [Readers -> Seq(0..made)]
    BY DEF StreamTypeOK
  <2>5. ASSUME event_queue' = [event_queue EXCEPT ![r] = Tail(@)]
        PROVE  /\ event_queue' \in [Readers -> Seq(0..made)]
               /\ \A q \in Readers : Len(event_queue'[q]) <= QueueSize
    BY <1>2, <2>1, <2>3, <2>4, <2>5
  <2> QED BY <2>1, <2>2, <2>5
<1> QED BY <1>3, <1>4
\* More events: what was typed stays typed.
LEMMA MoreEvents ==
  ASSUME StreamTypeOK, made' = made + 1
  PROVE  /\ made' \in Nat /\ 1..made \subseteq 1..made' /\ 0..made \subseteq 0..made'
         /\ Seq(1..made) \subseteq Seq(1..made') /\ Seq(0..made) \subseteq Seq(0..made')
<1>1. made' \in Nat /\ 1..made \subseteq 1..made' /\ 0..made \subseteq 0..made'
  BY StreamConstants DEF StreamTypeOK
<1> QED BY <1>1, SeqMonotonic

\* Recording keeps the numbering of the history.
LEMMA RecordBase ==
  ASSUME BaseInv, NEW p \in Publishers, RecordEvent(p) PROVE BaseInv'
<1>1. StreamTypeOK /\ made' = made + 1 /\ made \in Nat /\ made' <= MaxEvents
  BY StreamConstants DEF BaseInv, RecordEvent, StreamTypeOK
<1>2. event_history \in Seq(1..made) /\ event_history \in Seq(1..made') /\ made + 1 \in 1..made'
  BY <1>1, MoreEvents DEF StreamTypeOK
<1>3. event_history' = Append(event_history, made + 1)
  BY DEF RecordEvent
<1>4. /\ event_history' \in Seq(1..made') /\ Len(event_history') = Len(event_history) + 1
      /\ Len(event_history) \in Nat
      /\ \A i \in 1..Len(event_history) : event_history'[i] = event_history[i]
      /\ event_history'[Len(event_history) + 1] = made + 1
  BY <1>2, <1>3, AppendProperties, LenProperties
<1>5. Forgotten' = Forgotten
  BY <1>1, <1>4 DEF Forgotten
<1>6. HistoryIsNumbered'
  <2>1. Len(event_history') <= made' /\ replayed' <= Len(event_history') /\ (joining' = NoReader => replayed' = 0)
    BY <1>1, <1>4 DEF BaseInv, HistoryIsNumbered, RecordEvent, readerVars, StreamTypeOK
  <2>2. ASSUME NEW i \in 1..Len(event_history') PROVE event_history'[i] = Forgotten' + i
    <3>1. CASE i \in 1..Len(event_history)
      BY <1>4, <1>5, <3>1 DEF BaseInv, HistoryIsNumbered
    <3>2. CASE i = Len(event_history) + 1
      BY <1>1, <1>4, <1>5, <3>2 DEF Forgotten
    <3> QED BY <1>4, <3>1, <3>2
  <2> QED BY <2>1, <2>2 DEF HistoryIsNumbered
<1>7. PublicationsAreOwn'
  <2>1. /\ maker' = [maker EXCEPT ![made + 1] = p] /\ made + 1 \in Events
        /\ maker'[made + 1] = p /\ \A e \in 1..made : maker'[e] = maker[e]
    BY <1>1 DEF RecordEvent, StreamTypeOK, BaseInv, Events
  <2>2. /\ in_hand'[p] = made + 1 /\ publishing'[p] = "recorded"
        /\ publishing[p] = "idle" /\ targets[p] = {}
        /\ \A q \in Publishers \ {p} : in_hand'[q] = in_hand[q] /\ publishing'[q] = publishing[q]
    BY <1>1 DEF RecordEvent, StreamTypeOK, BaseInv, PublicationsAreOwn
  <2>3. UNCHANGED <<targets, full_queue, lost>>
    BY DEF RecordEvent, queueVars
  <2>4. ASSUME NEW q \in Publishers
        PROVE  /\ publishing'[q] \in {"idle", "recorded"} => targets'[q] = {}
               /\ publishing'[q] \in {"full", "dropped"} => full_queue'[q] \in targets'[q]
               /\ publishing'[q] = "dropped" => full_queue'[q] \in lost'
               /\ publishing'[q] # "idle" => in_hand'[q] \in 1..made' /\ maker'[in_hand'[q]] = q
               /\ \A e \in 1..made' : maker'[e] = q => e <= in_hand'[q]
    <3>1. CASE q = p
      BY <1>1, <2>1, <2>2, <2>3, <3>1
    <3>2. CASE q # p
      BY <1>1, <2>1, <2>2, <2>3, <3>2 DEF BaseInv, PublicationsAreOwn
    <3> QED BY <3>1, <3>2
  <2> QED BY <2>4 DEF PublicationsAreOwn
<1>8. StreamTypeOK'
  <2> USE DEF StreamTypeOK
  <2>1. /\ events_subs' \subseteq Readers /\ lost' \subseteq Readers
        /\ targets' \in [Publishers -> SUBSET Readers]
    BY <1>1 DEF RecordEvent, queueVars
  <2>8. made' \in 0..MaxEvents
    BY <1>1, StreamConstants
  <2>9. maker' \in [Events -> Publishers]
    BY <1>1 DEF RecordEvent
  <2>5. replayed' \in 0..made'
    BY <1>1 DEF RecordEvent, readerVars
  <2>6. publishing' \in [Publishers -> {"idle", "recorded", "putting", "full", "dropped"}]
    BY <1>1 DEF RecordEvent
  <2>7. in_hand' \in [Publishers -> 0..made']
    <3>1. in_hand \in [Publishers -> 0..made'] /\ made + 1 \in 0..made'
      BY <1>1
    <3> QED BY <3>1 DEF RecordEvent
  <2>2. /\ \A q \in Publishers : publishing'[q] = "putting" => targets'[q] # {}
        /\ full_queue' \in [Publishers -> Readers \cup {NoReader}]
        /\ \A q \in Publishers : full_queue'[q] # NoReader <=> publishing'[q] \in {"full", "dropped"}
        /\ connection' \in [Readers -> {"out", "joining", "opening", "in", "failed", "left"}]
        /\ joining' \in Readers \cup {NoReader}
        /\ \A r \in Readers : joining' = r <=> connection'[r] \in {"joining", "opening"}
    BY <1>1 DEF RecordEvent, queueVars, readerVars
  <2>3. /\ event_queue' \in [Readers -> Seq(0..made')] /\ received' \in [Readers -> Seq(0..made')]
        /\ \A r \in Readers : Len(event_queue'[r]) <= QueueSize
    BY <1>1, MoreEvents DEF RecordEvent, queueVars
  <2>4. overlapped' \in [Readers -> SUBSET (1..made')]
    BY <1>1, <1>2, MoreEvents DEF RecordEvent
  <2> QED BY <1>4, <2>1, <2>2, <2>3, <2>4, <2>5, <2>6, <2>7, <2>8, <2>9
<1> QED BY <1>6, <1>7, <1>8 DEF BaseInv

\* The other steps of a publisher.
LEMMA PublishBase ==
  ASSUME BaseInv, NEW p \in Publishers, NEW r,
         \/ CopySubscribers(p)
         \/ r \in Readers /\ (PutNowait(p, r) \/ DropOldest(p, r) \/ PutAgain(p, r))
  PROVE  BaseInv'
<1> USE DEF BaseInv
<1>1. UNCHANGED <<made, maker, event_history, in_hand, received, connection, joining, replayed,
                  events_subs, overlapped>>
  BY DEF CopySubscribers, PutNowait, DropOldest, PutAgain, Served, InExcept, historyVars,
       readerVars
<1>2. HistoryIsNumbered'
  BY <1>1 DEF HistoryIsNumbered, Forgotten
<1>3. /\ event_queue' \in [Readers -> Seq(0..made)]
      /\ \A q \in Readers : Len(event_queue'[q]) <= QueueSize
  <2>1. CASE UNCHANGED event_queue
    BY <2>1 DEF StreamTypeOK
  <2>2. CASE r \in Readers /\ ~QueueFull(r) /\ Put(r, in_hand[p])
    BY <2>2, QueueType DEF StreamTypeOK
  <2>3. CASE r \in Readers /\ event_queue[r] # <<>> /\ event_queue' = [event_queue EXCEPT ![r] = Tail(@)]
    BY <2>3, QueueType
  <2> QED BY <2>1, <2>2, <2>3 DEF CopySubscribers, PutNowait, DropOldest, PutAgain, queueVars
<1>4. /\ publishing' \in [Publishers -> {"idle", "recorded", "putting", "full", "dropped"}]
      /\ targets' \in [Publishers -> SUBSET Readers]
      /\ full_queue' \in [Publishers -> Readers \cup {NoReader}]
      /\ lost' \subseteq Readers /\ lost \subseteq lost'
  <2> USE DEF StreamTypeOK
  <2>1. CASE CopySubscribers(p)
    BY <2>1 DEF CopySubscribers, queueVars
  <2>2. CASE r \in Readers /\ Served(p, r) /\ (UNCHANGED lost \/ lost' = lost \cup {r})
    BY <2>2 DEF Served
  <2>3. ASSUME r \in Readers, NEW spot \in {"full", "dropped"}, InExcept(p, r, spot),
               UNCHANGED lost \/ lost' = lost \cup {r}
        PROVE  /\ publishing' \in [Publishers -> {"idle", "recorded", "putting", "full", "dropped"}]
               /\ targets' \in [Publishers -> SUBSET Readers]
               /\ full_queue' \in [Publishers -> Readers \cup {NoReader}]
               /\ lost' \subseteq Readers /\ lost \subseteq lost'
    BY <2>3 DEF InExcept
  <2> QED BY <2>1, <2>2, <2>3 DEF PutNowait, DropOldest, PutAgain, queueVars
<1>5. ASSUME NEW q \in Publishers \ {p}
      PROVE  publishing'[q] = publishing[q] /\ targets'[q] = targets[q] /\ full_queue'[q] = full_queue[q]
  BY DEF StreamTypeOK, CopySubscribers, PutNowait, DropOldest, PutAgain, Served, InExcept
<1>6. /\ publishing[p] # "idle"
      /\ publishing'[p] \in {"idle", "recorded"} => targets'[p] = {}
      /\ publishing'[p] \in {"full", "dropped"} => full_queue'[p] \in targets'[p]
      /\ publishing'[p] = "dropped" => full_queue'[p] \in lost'
      /\ publishing'[p] = "putting" => targets'[p] # {}
      /\ full_queue'[p] # NoReader <=> publishing'[p] \in {"full", "dropped"}
  BY StreamConstants
     DEF StreamTypeOK, PublicationsAreOwn, CopySubscribers, PutNowait, DropOldest, PutAgain,
         Served,
         InExcept, queueVars
<1>7. PublicationsAreOwn'
  BY <1>1, <1>4, <1>5, <1>6 DEF PublicationsAreOwn
<1>8. StreamTypeOK'
  <2>1. /\ \A q \in Publishers : publishing'[q] = "putting" => targets'[q] # {}
        /\ \A q \in Publishers : full_queue'[q] # NoReader <=> publishing'[q] \in {"full", "dropped"}
    <3> SUFFICES ASSUME NEW q \in Publishers
                 PROVE  /\ publishing'[q] = "putting" => targets'[q] # {}
                        /\ full_queue'[q] # NoReader <=> publishing'[q] \in {"full", "dropped"}
      OBVIOUS
    <3>1. CASE q = p
      BY <1>6, <3>1
    <3>2. CASE q # p
      BY <1>5, <3>2 DEF StreamTypeOK
    <3> QED BY <3>1, <3>2
  <2>2. /\ made' \in 0..MaxEvents /\ maker' \in [Events -> Publishers]
        /\ event_history' \in Seq(1..made') /\ events_subs' \subseteq Readers
        /\ received' \in [Readers -> Seq(0..made')] /\ in_hand' \in [Publishers -> 0..made']
        /\ connection' \in [Readers -> {"out", "joining", "opening", "in", "failed", "left"}]
        /\ joining' \in Readers \cup {NoReader}
        /\ \A q \in Readers : joining' = q <=> connection'[q] \in {"joining", "opening"}
        /\ replayed' \in 0..made' /\ overlapped' \in [Readers -> SUBSET (1..made')]
    BY <1>1 DEF StreamTypeOK
  <2> QED BY <1>1, <1>3, <1>4, <2>1, <2>2 DEF StreamTypeOK
<1> QED BY <1>2, <1>7, <1>8

\* The steps of a reader, and a new history.
LEMMA ReaderBase ==
  ASSUME BaseInv, ClearHistory \/ \E r \in Readers : Connect(r) \/ Read(r) \/ Unsubscribe(r)
  PROVE  BaseInv'
<1> USE DEF BaseInv
<1>1. UNCHANGED <<made, maker, publisherVars, lost>>
  BY DEF ClearHistory, Connect, Subscribe, ReplayNext, ReplayDone, PutOpening, Read,
       Unsubscribe,
         SubscribeFails, historyVars, queueVars
<1>2. PublicationsAreOwn'
  BY <1>1 DEF PublicationsAreOwn, publisherVars
<1>3. event_history \in Seq(1..made) /\ Len(event_history) \in Nat /\ made \in Nat
  BY StreamConstants, LenProperties DEF StreamTypeOK
<1>4. CASE ClearHistory
  <2>1. event_history' = <<>> /\ replayed = 0
    BY <1>4 DEF ClearHistory, LoopIsFree, HistoryIsNumbered
  <2>2. HistoryIsNumbered'
    BY <1>1, <1>3, <1>4, <2>1 DEF ClearHistory, HistoryIsNumbered, readerVars
  <2>3. StreamTypeOK'
    BY <1>4 DEF ClearHistory, StreamTypeOK, readerVars, publisherVars, queueVars
  <2> QED BY <1>2, <2>2, <2>3
<1>5. ASSUME NEW r \in Readers, Connect(r) \/ Read(r) \/ Unsubscribe(r) PROVE BaseInv'
  <2>1. UNCHANGED event_history
    BY <1>5 DEF Connect, Subscribe, ReplayNext, ReplayDone, PutOpening, Read, Unsubscribe,
         historyVars
  <2>2. HistoryIsNumbered'
    BY <1>1, <1>3, <1>5, <2>1, StreamConstants
       DEF Connect, Subscribe, ReplayNext, ReplayDone, PutOpening, Read, Unsubscribe,
           SubscribeFails,
           HistoryIsNumbered, Forgotten, readerVars, LoopIsFree, StreamTypeOK
  <2>3. /\ connection' \in [Readers -> {"out", "joining", "opening", "in", "failed", "left"}]
        /\ joining' \in Readers \cup {NoReader}
        /\ \A q \in Readers : joining' = q <=> connection'[q] \in {"joining", "opening"}
        /\ events_subs' \subseteq Readers
    <3> USE StreamConstants DEF StreamTypeOK
    <3>1. CASE Subscribe(r)
      <4>1. /\ joining = NoReader /\ joining' = r /\ r # NoReader
            /\ connection' = [connection EXCEPT ![r] = "joining"]
            /\ events_subs' = events_subs \cup {r}
        BY <3>1 DEF Subscribe, LoopIsFree
      <4>2. \A q \in Readers : connection[q] \notin {"joining", "opening"}
        BY <4>1
      <4> QED BY <4>1, <4>2
    <3>4. CASE Unsubscribe(r)
      BY <3>4 DEF Unsubscribe
    <3>2. CASE ReplayNext(r)
      BY <3>2 DEF ReplayNext, SubscribeFails
    <3>5. CASE PutOpening(r)
      <4>1. CASE QueueFull(r)
        BY <3>5, <4>1 DEF PutOpening, SubscribeFails
      <4>2. CASE ~QueueFull(r)
        BY <3>5, <4>2 DEF PutOpening
      <4> QED BY <4>1, <4>2
    <3>3. CASE ReplayDone(r) \/ Read(r)
      BY <3>3 DEF ReplayDone, Read, readerVars
    <3> QED BY <1>5, <3>1, <3>2, <3>3, <3>4, <3>5 DEF Connect
  <2>4. replayed' \in 0..made
    BY <1>3, <1>5, <2>1, <2>2 DEF HistoryIsNumbered, Connect, Subscribe, ReplayNext, ReplayDone,
       PutOpening, Read, Unsubscribe, SubscribeFails, StreamTypeOK, readerVars
  <2>5. overlapped' \in [Readers -> SUBSET (1..made)]
    <3>1. UnderWay \subseteq 1..made
      BY DEF UnderWay, PublicationsAreOwn
    <3>2. UNCHANGED overlapped \/ overlapped' = [overlapped EXCEPT ![r] = UnderWay]
      BY <1>5 DEF Connect, Subscribe, ReplayNext, ReplayDone, PutOpening, Read, Unsubscribe
    <3> QED BY <3>1, <3>2 DEF StreamTypeOK
  <2>6. /\ event_queue' \in [Readers -> Seq(0..made)] /\ received' \in [Readers -> Seq(0..made)]
        /\ \A q \in Readers : Len(event_queue'[q]) <= QueueSize
    <3>1. CASE UNCHANGED <<event_queue, received>>
      BY <3>1 DEF StreamTypeOK
    <3>2. CASE ReplayNext(r) /\ ~QueueFull(r)
      <4>1. replayed + 1 \in 1..Len(event_history) /\ Put(r, event_history[replayed + 1])
        BY <1>3, <3>2 DEF ReplayNext, StreamTypeOK
      <4>2. event_history[replayed + 1] \in 0..made
        BY <1>3, <4>1, ElementOfSeq
      <4> QED BY <3>2, <4>1, <4>2, QueueType DEF StreamTypeOK, ReplayNext
    <3>3. CASE PutOpening(r) /\ ~QueueFull(r)
      <4>1. Put(r, Opening) /\ Opening \in 0..made
        BY <1>3, <3>3 DEF PutOpening, Opening
      <4> QED BY <3>3, <4>1, QueueType DEF StreamTypeOK, PutOpening
    <3>4. CASE Read(r)
      BY <3>4, QueueType DEF Read, StreamTypeOK
    <3> QED BY <1>5, <3>1, <3>2, <3>3, <3>4
            DEF Connect, Subscribe, ReplayNext, ReplayDone, PutOpening, Unsubscribe,
                SubscribeFails,
                queueVars
  <2>7. StreamTypeOK'
    BY <1>1, <2>1, <2>3, <2>4, <2>5, <2>6 DEF StreamTypeOK, publisherVars
  <2> QED BY <1>2, <2>2, <2>7
<1> QED BY <1>4, <1>5
-----------------------------------------------------------------------------
(* Readers.                                                                *)

\* Shorter streams.
LEMMA LessStream ==
  ASSUME StreamTypeOK, StreamTypeOK', made' = made, NEW r \in Readers, Same(r) \/ Loses(r)
  PROVE  /\ \A e : Count(e, Stream(r)') <= Count(e, Stream(r))
         /\ \A e : Count(e, Stream(r)) \in Nat /\ Count(e, Stream(r)') \in Nat
         /\ \A e : In(e, Stream(r)') => In(e, Stream(r))
<1>1. Stream(r) \in Seq(0..made) /\ Stream(r)' \in Seq(0..made)
  BY StreamType, StreamTypeNext
<1>2. \A e : Count(e, Stream(r)) \in Nat /\ Count(e, Stream(r)') \in Nat
  BY <1>1, CountType
<1>3. ASSUME NEW e PROVE Count(e, Stream(r)') <= Count(e, Stream(r))
  BY <1>1, <1>2, CountWithout DEF Same, Loses
<1>4. ASSUME NEW e PROVE In(e, Stream(r)') => In(e, Stream(r))
  <2>1. (In(e, Stream(r)') <=> Count(e, Stream(r)') > 0) /\ (In(e, Stream(r)) <=> Count(e, Stream(r)) > 0)
    BY <1>1, CountType
  <2> QED BY <1>2, <1>3, <2>1
<1> QED BY <1>2, <1>3, <1>4

\* A reader whose stream does not grow, and whose connection stays or ends.
LEMMA Undisturbed ==
  ASSUME BaseInv, BaseInv', NEW r \in Readers, ReaderInv(r),
         Same(r) \/ (Loses(r) /\ r \in lost'), lost \subseteq lost',
         UNCHANGED <<event_history, made, maker, in_hand>>, overlapped'[r] = overlapped[r],
         connection'[r] = connection[r] \/ (connection[r] = "in" /\ connection'[r] = "left"),
         connection[r] \in {"joining", "opening"} =>
           UNCHANGED replayed /\ received'[r] = received[r],
         r \in events_subs' => r \in events_subs,
         connection'[r] \in {"joining", "opening", "in"} /\ r \in events_subs => r \in events_subs',
         \A p \in Publishers : publishing'[p] # "idle" => publishing[p] # "idle",
         \A p \in Publishers : r \in targets'[p] => r \in targets[p] \/ r \in events_subs,
         \A e : Pending(r, e)' => Pending(r, e),
         \A e : r \notin lost' /\ r \in events_subs /\ Pending(r, e) => Pending(r, e)'
  PROVE  ReaderInv(r)'
<1> USE DEF ReaderInv
<1>1. /\ StreamTypeOK /\ StreamTypeOK' /\ Stream(r) \in Seq(0..made) /\ Stream(r)' \in Seq(0..made)
      /\ Len(Stream(r)) \in Nat /\ Len(Stream(r)') \in Nat
  BY StreamType, StreamTypeNext DEF BaseInv
<1>2. /\ \A e : Count(e, Stream(r)') <= Count(e, Stream(r))
      /\ \A e : Count(e, Stream(r)) \in Nat /\ Count(e, Stream(r)') \in Nat
      /\ \A e : In(e, Stream(r)') => In(e, Stream(r))
  BY <1>1, LessStream
<1>3. Forgotten' = Forgotten
  BY DEF Forgotten
<1>4. \A e : Once(Pending(r, e)') \in 0..1 /\ Once(Pending(r, e)') <= Once(Pending(r, e))
  BY DEF Once
<1>5. \A e : ToReplay(r, e)' <=> ToReplay(r, e)
  BY <1>3 DEF ToReplay
<1>6. \A i \in 1..Len(Stream(r)') : In(Stream(r)'[i], Stream(r)')
  BY DEF In
<1>7. Known(r)'
  <2>1. connection'[r] = "out" => Known(r)'
    <3> SUFFICES ASSUME connection'[r] = "out" PROVE Known(r)'
      OBVIOUS
    <3>1. connection[r] = "out" /\ Stream(r) = <<>>
      BY DEF Known
    <3>2. Stream(r)' = <<>>
      <4>1. ~ Loses(r)
        BY <1>1, <3>1 DEF Loses, Without
      <4> QED BY <3>1, <4>1 DEF Same
    <3>3. \A p \in Publishers : r \notin targets'[p]
      BY <3>1 DEF Known
    <3> QED BY <3>1, <3>2, <3>3 DEF Known
  <2>2. connection'[r] \in {"joining", "opening", "in"} => r \in events_subs'
    BY DEF Known
  <2>3. ASSUME connection'[r] \in {"joining", "opening"}
        PROVE  /\ received'[r] = <<>> /\ ~ In(Opening, Stream(r)')
               /\ \A p \in Publishers : publishing'[p] # "idle" => in_hand'[p] \in overlapped'[r]
               /\ \A i \in 1..Len(Stream(r)') :
                     Stream(r)'[i] \in overlapped'[r] \/ Stream(r)'[i] <= Forgotten' + replayed'
    <3>1. connection[r] \in {"joining", "opening"} /\ received'[r] = received[r] /\ replayed' = replayed
      BY <2>3
    <3>2. /\ received[r] = <<>> /\ ~ In(Opening, Stream(r))
          /\ \A p \in Publishers : publishing[p] # "idle" => in_hand[p] \in overlapped[r]
          /\ \A i \in 1..Len(Stream(r)) :
               Stream(r)[i] \in overlapped[r] \/ Stream(r)[i] <= Forgotten + replayed
      BY <3>1 DEF Known
    <3>3. ASSUME NEW i \in 1..Len(Stream(r)')
          PROVE  Stream(r)'[i] \in overlapped[r] \/ Stream(r)'[i] <= Forgotten + replayed
      <4>1. PICK j \in 1..Len(Stream(r)) : Stream(r)[j] = Stream(r)'[i]
        BY <1>2, <1>6 DEF In
      <4> QED BY <3>2, <4>1
    <3> QED BY <1>2, <1>3, <3>1, <3>2, <3>3
  <2> QED BY <2>1, <2>2, <2>3 DEF Known
<1>8. NotTooOften(r)'
  BY <1>2, <1>4, <1>5 DEF NotTooOften, Once
<1>9. StillToCome(r)'
  <2> SUFFICES ASSUME r \notin lost', connection'[r] \in {"joining", "opening", "in"},
                      NEW i \in 1..Len(event_history)
               PROVE  \/ In(event_history[i], Stream(r)')
                      \/ Pending(r, event_history[i])' \/ ToReplay(r, event_history[i])'
    BY DEF StillToCome
  <2>1. Stream(r)' = Stream(r) /\ connection[r] \in {"joining", "opening", "in"} /\ r \in events_subs
    BY DEF Same, Known
  <2>2. \/ In(event_history[i], Stream(r))
        \/ Pending(r, event_history[i]) \/ ToReplay(r, event_history[i])
    BY <2>1 DEF StillToCome
  <2> QED BY <1>5, <2>1, <2>2
<1>10. StreamInOrder(r)'
  <2>1. CASE Same(r)
    BY <2>1 DEF StreamInOrder, Same
  <2>2. CASE Loses(r)
    <3>1. PICK k : Without(Stream(r)', Stream(r), k)
      BY <2>2 DEF Loses
    <3> SUFFICES ASSUME NEW i \in 1..Len(Stream(r)'), NEW j \in 1..Len(Stream(r)'), i < j,
                        Stream(r)'[i] # Opening, Stream(r)'[j] # Opening,
                        {Stream(r)'[i], Stream(r)'[j]} \cap overlapped[r] = {},
                        maker[Stream(r)'[i]] = maker[Stream(r)'[j]]
                 PROVE  Stream(r)'[i] <= Stream(r)'[j]
      BY DEF StreamInOrder
    <3> DEFINE spot(n) == IF n < k THEN n ELSE n + 1
    <3>2. /\ spot(i) \in 1..Len(Stream(r)) /\ spot(j) \in 1..Len(Stream(r)) /\ spot(i) < spot(j)
          /\ Stream(r)'[i] = Stream(r)[spot(i)] /\ Stream(r)'[j] = Stream(r)[spot(j)]
      <4>1. /\ Len(Stream(r)') + 1 = Len(Stream(r))
            /\ \A n \in 1..Len(Stream(r)') : Stream(r)'[n] = Stream(r)[spot(n)]
        BY <3>1 DEF Without
      <4>2. k \in 1..Len(Stream(r))
        BY <3>1 DEF Without
      <4>3. /\ spot(i) \in 1..Len(Stream(r)) /\ spot(j) \in 1..Len(Stream(r)) /\ spot(i) < spot(j)
        BY <1>1, <4>1, <4>2
      <4> HIDE DEF spot
      <4> QED BY <4>1, <4>3
    <3> HIDE DEF spot
    <3> QED BY <3>2 DEF StreamInOrder
  <2> QED BY <2>1, <2>2
<1>11. GetsIn(r)'
  BY DEF GetsIn
<1> QED BY <1>7, <1>8, <1>9, <1>10, <1>11
\* One more event at the end of a stream.
LEMMA MoreStream ==
  ASSUME StreamTypeOK, StreamTypeOK', NEW r \in Readers, NEW x \in 0..made, Gets(r, x)
  PROVE  /\ Stream(r)' \in Seq(0..made')
         /\ Len(Stream(r)) \in Nat /\ Len(Stream(r)') = Len(Stream(r)) + 1
         /\ \A i \in 1..Len(Stream(r)) : Stream(r)'[i] = Stream(r)[i]
         /\ Stream(r)'[Len(Stream(r)) + 1] = x
         /\ \A e : Count(e, Stream(r)') = Count(e, Stream(r)) + Once(x = e)
         /\ \A e : Count(e, Stream(r)) \in Nat
         /\ \A e : In(e, Stream(r)') <=> In(e, Stream(r)) \/ e = x
<1>1. Stream(r) \in Seq(0..made) /\ Stream(r)' \in Seq(0..made')
  BY StreamType, StreamTypeNext
<1>2. /\ Len(Stream(r)) \in Nat /\ Len(Stream(r)') = Len(Stream(r)) + 1
      /\ \A i \in 1..Len(Stream(r)) : Stream(r)'[i] = Stream(r)[i]
      /\ Stream(r)'[Len(Stream(r)) + 1] = x
  BY <1>1, AppendProperties, LenProperties DEF Gets
<1>3. /\ \A e : Count(e, Stream(r)') = Count(e, Stream(r)) + Once(x = e)
      /\ \A e : Count(e, Stream(r)) \in Nat
  <2> SUFFICES ASSUME NEW e
               PROVE  /\ Count(e, Stream(r)') = Count(e, Stream(r)) + Once(x = e)
                      /\ Count(e, Stream(r)) \in Nat
    OBVIOUS
  <2>1. Count(e, Append(Stream(r), x)) = Count(e, Stream(r)) + Once(x = e)
    <3> DEFINE T == 0..made
    <3>1. Stream(r) \in Seq(T) /\ x \in T
      BY <1>1
    <3> HIDE DEF T
    <3> QED BY <3>1, CountAppend
  <2>2. Count(e, Stream(r)) \in Nat
    BY <1>1, CountType
  <2> QED BY <2>1, <2>2 DEF Gets
<1>4. \A e : In(e, Stream(r)') <=> In(e, Stream(r)) \/ e = x
  BY <1>2 DEF In
<1> QED BY <1>1, <1>2, <1>3, <1>4

\* The order of a stream that gets an event later than those of its maker.
LEMMA OrderGrows ==
  ASSUME StreamTypeOK, StreamTypeOK', NEW r \in Readers, NEW x \in 0..made, Gets(r, x),
         StreamInOrder(r), UNCHANGED <<maker, overlapped>>,
         x # Opening /\ x \notin overlapped[r] =>
           \A i \in 1..Len(Stream(r)) :
             Stream(r)[i] # Opening /\ Stream(r)[i] \notin overlapped[r]
                 /\ maker[Stream(r)[i]] = maker[x] => Stream(r)[i] <= x
  PROVE  StreamInOrder(r)'
<1>1. /\ Len(Stream(r)) \in Nat /\ Len(Stream(r)') = Len(Stream(r)) + 1
      /\ \A i \in 1..Len(Stream(r)) : Stream(r)'[i] = Stream(r)[i]
      /\ Stream(r)'[Len(Stream(r)) + 1] = x
  BY MoreStream
<1> SUFFICES ASSUME NEW i \in 1..Len(Stream(r)'), NEW j \in 1..Len(Stream(r)'), i < j,
                    Stream(r)'[i] # Opening, Stream(r)'[j] # Opening,
                    {Stream(r)'[i], Stream(r)'[j]} \cap overlapped[r] = {},
                    maker[Stream(r)'[i]] = maker[Stream(r)'[j]]
             PROVE  Stream(r)'[i] <= Stream(r)'[j]
  BY DEF StreamInOrder
<1>2. i \in 1..Len(Stream(r)) /\ Stream(r)'[i] = Stream(r)[i]
  BY <1>1
<1>3. CASE j \in 1..Len(Stream(r))
  BY <1>1, <1>2, <1>3 DEF StreamInOrder
<1>4. CASE j = Len(Stream(r)) + 1
  BY <1>1, <1>2, <1>4
<1> QED BY <1>1, <1>3, <1>4

\* Publishers that are at work are about different events.
LEMMA HandsDiffer ==
  ASSUME BaseInv, NEW p \in Publishers, NEW q \in Publishers, p # q,
         publishing[p] # "idle", publishing[q] # "idle"
  PROVE  in_hand[p] # in_hand[q]
BY DEF BaseInv, PublicationsAreOwn

\* The broadcast reaches r.
LEMMA Delivered ==
  ASSUME BaseInv, BaseInv', NEW r \in Readers, ReaderInv(r), NEW p \in Publishers,
         r \in targets[p], Gets(r, in_hand[p]), Served(p, r), lost' = lost
  PROVE  ReaderInv(r)'
<1> DEFINE x == in_hand[p]
<1> USE DEF ReaderInv
<1>1. /\ UNCHANGED <<event_history, made, maker, in_hand, overlapped, connection, joining,
                      replayed, received, events_subs>>
      /\ Forgotten' = Forgotten
  BY DEF Served, historyVars, readerVars, Forgotten
<1>2. /\ publishing[p] \notin {"idle", "recorded"} /\ x \in 1..made /\ maker[x] = p
      /\ made \in Nat /\ x \in 0..made
      /\ \A e \in 1..made : maker[e] = p => e <= x
  <2>1. publishing[p] \notin {"idle", "recorded"}
    BY DEF BaseInv, PublicationsAreOwn
  <2>2. made \in Nat
    BY StreamConstants DEF BaseInv, StreamTypeOK
  <2> QED BY <2>1, <2>2 DEF BaseInv, PublicationsAreOwn
<1>3. /\ Len(Stream(r)) \in Nat /\ Len(Stream(r)') = Len(Stream(r)) + 1
      /\ \A i \in 1..Len(Stream(r)) : Stream(r)'[i] = Stream(r)[i] /\ Stream(r)[i] \in 0..made
      /\ Stream(r)'[Len(Stream(r)) + 1] = x
      /\ \A e : Count(e, Stream(r)') = Count(e, Stream(r)) + Once(x = e)
      /\ \A e : Count(e, Stream(r)) \in Nat
      /\ \A e : In(e, Stream(r)') <=> In(e, Stream(r)) \/ e = x
  BY <1>2, MoreStream, StreamType DEF BaseInv
<1>4. /\ targets'[p] = targets[p] \ {r} /\ publishing'[p] \in {"idle", "putting"}
      /\ \A q \in Publishers \ {p} : targets'[q] = targets[q] /\ publishing'[q] = publishing[q]
  BY DEF Served, BaseInv, StreamTypeOK
<1>5. \A e : e = x => Pending(r, e) /\ ~ Pending(r, e)'
  <2>1. Pending(r, x)
    BY DEF Pending
  <2>2. ASSUME NEW q \in Publishers, in_hand'[q] = x, publishing'[q] = "recorded" \/ r \in targets'[q]
        PROVE  FALSE
    <3>1. q # p /\ in_hand[q] = in_hand[p]
      BY <1>1, <1>4, <2>2
    <3>2. publishing[q] # "idle"
      BY <1>4, <2>2, <3>1 DEF BaseInv, PublicationsAreOwn
    <3> QED BY <1>2, <3>1, <3>2, HandsDiffer
  <2>3. ASSUME NEW e, e = x PROVE ~ Pending(r, e)'
    BY <1>1, <2>2, <2>3 DEF Pending
  <2> QED BY <2>1, <2>3
<1>6. ASSUME NEW e, e # x PROVE Pending(r, e)' <=> Pending(r, e)
  BY <1>1, <1>2, <1>4, <1>6 DEF Pending
<1>7. \A e : ToReplay(r, e)' <=> ToReplay(r, e)
  BY <1>1 DEF ToReplay
<1>8. Known(r)'
  <2>1. connection[r] # "out"
    BY DEF Known
  <2>2. ASSUME connection[r] \in {"joining", "opening"}
        PROVE  /\ received[r] = <<>> /\ ~ In(Opening, Stream(r)')
               /\ \A q \in Publishers : publishing'[q] # "idle" => in_hand[q] \in overlapped[r]
               /\ \A i \in 1..Len(Stream(r)') :
                     Stream(r)'[i] \in overlapped[r] \/ Stream(r)'[i] <= Forgotten + replayed
    <3>1. /\ received[r] = <<>> /\ ~ In(Opening, Stream(r))
          /\ \A q \in Publishers : publishing[q] # "idle" => in_hand[q] \in overlapped[r]
          /\ \A i \in 1..Len(Stream(r)) :
               Stream(r)[i] \in overlapped[r] \/ Stream(r)[i] <= Forgotten + replayed
      BY <2>2 DEF Known
    <3>2. x \in overlapped[r] /\ x # Opening
      BY <1>2, <3>1 DEF Opening
    <3>3. \A i \in 1..Len(Stream(r)') :
            Stream(r)'[i] \in overlapped[r] \/ Stream(r)'[i] <= Forgotten + replayed
      BY <1>3, <3>1, <3>2
    <3>4. \A q \in Publishers : publishing'[q] # "idle" => in_hand[q] \in overlapped[r]
      BY <1>2, <1>4, <3>1
    <3> QED BY <1>3, <3>1, <3>2, <3>3, <3>4
  <2>3. connection[r] \in {"joining", "opening", "in"} => r \in events_subs
    BY DEF Known
  <2> QED BY <1>1, <2>1, <2>2, <2>3 DEF Known
<1>9. NotTooOften(r)'
  <2> SUFFICES ASSUME NEW e \in 1..made
               PROVE  Count(e, Stream(r)') + Once(Pending(r, e)') + Once(ToReplay(r, e)')
                        <= IF e \in overlapped[r] THEN 2 ELSE 1
    BY <1>1 DEF NotTooOften
  <2>1. Count(e, Stream(r)) + Once(Pending(r, e)) + Once(ToReplay(r, e))
          <= IF e \in overlapped[r] THEN 2 ELSE 1
    BY DEF NotTooOften
  <2>2. Count(e, Stream(r)') + Once(Pending(r, e)') = Count(e, Stream(r)) + Once(Pending(r, e))
    <3>1. CASE e = x
      BY <1>3, <1>5, <3>1 DEF Once
    <3>2. CASE e # x
      BY <1>3, <1>6, <3>2 DEF Once
    <3> QED BY <3>1, <3>2
  <2>3. Once(ToReplay(r, e)') = Once(ToReplay(r, e))
    BY <1>7 DEF Once
  <2> QED BY <2>1, <2>2, <2>3
<1>10. StillToCome(r)'
  BY <1>1, <1>3, <1>5, <1>6, <1>7 DEF StillToCome
<1>11. StreamInOrder(r)'
  <2>1. \A i \in 1..Len(Stream(r)) :
          Stream(r)[i] # Opening /\ maker[Stream(r)[i]] = maker[x] => Stream(r)[i] <= x
    BY <1>2, <1>3 DEF Opening
  <2>2. UNCHANGED <<maker, overlapped>>
    BY <1>1
  <2> QED BY <1>2, <2>1, <2>2, OrderGrows DEF BaseInv
<1>12. GetsIn(r)'
  BY <1>1 DEF GetsIn
<1> QED BY <1>8, <1>9, <1>10, <1>11, <1>12
\* The replay reaches r.
LEMMA Replayed ==
  ASSUME BaseInv, BaseInv', NEW r \in Readers, ReaderInv(r), ReplayNext(r), ~QueueFull(r)
  PROVE  ReaderInv(r)'
<1> USE DEF ReaderInv
<1>1. /\ UNCHANGED <<event_history, made, maker, in_hand, overlapped, connection, joining, lost,
                      received, events_subs, publishing, targets>>
      /\ Forgotten' = Forgotten /\ connection[r] = "joining" /\ replayed' = replayed + 1
  BY DEF ReplayNext, historyVars, publisherVars, Forgotten
<1>2. /\ made \in Nat /\ Len(event_history) \in Nat /\ Len(event_history) <= made
      /\ replayed \in Nat /\ replayed < Len(event_history)
      /\ Forgotten \in Nat
  BY StreamConstants, LenProperties DEF BaseInv, HistoryIsNumbered, StreamTypeOK, ReplayNext,
       Forgotten
<1>3. PICK x \in 1..made : x = Forgotten + replayed + 1 /\ Put(r, x)
  <2>1. replayed + 1 \in 1..Len(event_history)
    BY <1>2
  <2>2. event_history[replayed + 1] = Forgotten + (replayed + 1)
    BY <2>1 DEF BaseInv, HistoryIsNumbered
  <2>3. Forgotten + replayed + 1 \in 1..made /\ Forgotten + (replayed + 1) = Forgotten + replayed + 1
    BY <1>2 DEF Forgotten
  <2> QED BY <2>2, <2>3 DEF ReplayNext
<1>4. Gets(r, x) /\ x \in 0..made
  BY <1>1, <1>3, PutStreams DEF BaseInv
<1>5. /\ Len(Stream(r)) \in Nat /\ Len(Stream(r)') = Len(Stream(r)) + 1
      /\ \A i \in 1..Len(Stream(r)) : Stream(r)'[i] = Stream(r)[i] /\ Stream(r)[i] \in 0..made
      /\ Stream(r)'[Len(Stream(r)) + 1] = x
      /\ \A e : Count(e, Stream(r)') = Count(e, Stream(r)) + Once(x = e)
      /\ \A e : Count(e, Stream(r)) \in Nat
      /\ \A e : In(e, Stream(r)') <=> In(e, Stream(r)) \/ e = x
  BY <1>4, MoreStream, StreamType DEF BaseInv
<1>6. \A e : Pending(r, e)' <=> Pending(r, e)
  BY <1>1 DEF Pending
<1>7. \A e \in 1..made : (ToReplay(r, e) <=> e >= x) /\ (ToReplay(r, e)' <=> e > x)
  BY <1>1, <1>2, <1>3 DEF ToReplay
<1>8. Known(r)'
  <2>1. /\ r \in events_subs /\ received[r] = <<>> /\ ~ In(Opening, Stream(r))
        /\ \A q \in Publishers : publishing[q] # "idle" => in_hand[q] \in overlapped[r]
        /\ \A i \in 1..Len(Stream(r)) :
               Stream(r)[i] \in overlapped[r] \/ Stream(r)[i] <= Forgotten + replayed
    BY <1>1 DEF Known
  <2>2. ASSUME NEW i \in 1..Len(Stream(r)')
        PROVE  Stream(r)'[i] \in overlapped[r] \/ Stream(r)'[i] <= Forgotten + (replayed + 1)
    <3>1. CASE i \in 1..Len(Stream(r))
      BY <1>2, <1>5, <2>1, <3>1
    <3>2. CASE i = Len(Stream(r)) + 1
      BY <1>2, <1>3, <1>5, <3>2
    <3> QED BY <1>5, <3>1, <3>2
  <2>3. ~ In(Opening, Stream(r)')
    BY <1>3, <1>5, <2>1 DEF Opening
  <2> QED BY <1>1, <2>1, <2>2, <2>3 DEF Known
<1>9. NotTooOften(r)'
  <2> SUFFICES ASSUME NEW e \in 1..made
               PROVE  Count(e, Stream(r)') + Once(Pending(r, e)') + Once(ToReplay(r, e)')
                        <= IF e \in overlapped[r] THEN 2 ELSE 1
    BY <1>1 DEF NotTooOften
  <2>1. Count(e, Stream(r)) + Once(Pending(r, e)) + Once(ToReplay(r, e))
          <= IF e \in overlapped[r] THEN 2 ELSE 1
    BY DEF NotTooOften
  <2>2. Count(e, Stream(r)') + Once(ToReplay(r, e)') = Count(e, Stream(r)) + Once(ToReplay(r, e))
    BY <1>3, <1>5, <1>7 DEF Once
  <2>3. Once(Pending(r, e)') = Once(Pending(r, e))
    BY <1>6 DEF Once
  <2>4. Count(e, Stream(r)) \in Nat /\ Count(e, Stream(r)') \in Nat
    BY <1>5 DEF Once
  <2>5. {Once(Pending(r, e)), Once(ToReplay(r, e)), Once(Pending(r, e)'), Once(ToReplay(r, e)')} \subseteq 0..1
    BY DEF Once
  <2> QED BY <2>1, <2>2, <2>3, <2>4, <2>5
<1>10. StillToCome(r)'
  <2> SUFFICES ASSUME r \notin lost, NEW i \in 1..Len(event_history)
               PROVE  \/ In(event_history[i], Stream(r)')
                      \/ Pending(r, event_history[i])' \/ ToReplay(r, event_history[i])'
    BY <1>1 DEF StillToCome
  <2>1. event_history[i] \in 1..made
    BY <1>2 DEF BaseInv, HistoryIsNumbered, Forgotten
  <2>2. \/ In(event_history[i], Stream(r))
        \/ Pending(r, event_history[i]) \/ ToReplay(r, event_history[i])
    BY <1>1 DEF StillToCome
  <2>3. ASSUME NEW e \in 1..made, e = event_history[i]
        PROVE  In(e, Stream(r)') \/ Pending(r, e)' \/ ToReplay(r, e)'
    BY <1>3, <1>5, <1>6, <1>7, <2>2, <2>3
  <2> QED BY <1>1, <2>1, <2>3
<1>11. StreamInOrder(r)'
  <2>1. \A i \in 1..Len(Stream(r)) : Stream(r)[i] \notin overlapped[r] => Stream(r)[i] <= x
    <3>1. \A i \in 1..Len(Stream(r)) :
            Stream(r)[i] \in overlapped[r] \/ Stream(r)[i] <= Forgotten + replayed
      BY <1>1 DEF Known
    <3> QED BY <1>2, <1>3, <1>5, <3>1
  <2>2. UNCHANGED <<maker, overlapped>>
    BY <1>1
  <2> QED BY <1>4, <2>1, <2>2, OrderGrows DEF BaseInv
<1>12. GetsIn(r)'
  BY <1>1 DEF GetsIn
<1> QED BY <1>8, <1>9, <1>10, <1>11, <1>12

\* The opening reaches r.
LEMMA Opened ==
  ASSUME BaseInv, BaseInv', NEW r \in Readers, ReaderInv(r), PutOpening(r), ~QueueFull(r)
  PROVE  ReaderInv(r)'
<1> USE DEF ReaderInv
<1>1. /\ UNCHANGED <<event_history, made, maker, in_hand, overlapped, lost, received, events_subs,
                      publishing, targets>>
      /\ Forgotten' = Forgotten /\ connection[r] = "opening" /\ connection'[r] = "in"
      /\ Put(r, Opening) /\ Opening = 0
  BY DEF PutOpening, historyVars, publisherVars, Forgotten, BaseInv, StreamTypeOK, Opening
<1>2. Gets(r, Opening) /\ Opening \in 0..made
  <2>1. Opening \in 0..made
    BY <1>1 DEF BaseInv, StreamTypeOK
  <2> QED BY <1>1, <2>1, PutStreams DEF BaseInv
<1>3. /\ \A e : Count(e, Stream(r)') = Count(e, Stream(r)) + Once(Opening = e)
      /\ \A e : Count(e, Stream(r)) \in Nat
      /\ \A e : In(e, Stream(r)') <=> In(e, Stream(r)) \/ e = Opening
  BY <1>2, MoreStream DEF BaseInv
<1>4. \A e : Pending(r, e)' <=> Pending(r, e)
  BY <1>1 DEF Pending
<1>5. \A e : ~ ToReplay(r, e) /\ ~ ToReplay(r, e)'
  BY <1>1 DEF ToReplay
<1>6. Known(r)'
  BY <1>1 DEF Known
<1>7. NotTooOften(r)'
  <2>1. \A e \in 1..made : Count(e, Stream(r)') = Count(e, Stream(r))
    BY <1>1, <1>3 DEF Once
  <2> QED BY <1>1, <1>4, <1>5, <2>1 DEF NotTooOften, Once
<1>8. StillToCome(r)'
  BY <1>1, <1>3, <1>4, <1>5 DEF StillToCome
<1>9. StreamInOrder(r)'
  <2>1. UNCHANGED <<maker, overlapped>>
    BY <1>1
  <2> QED BY <1>2, <2>1, OrderGrows DEF BaseInv
<1>10. GetsIn(r)'
  BY <1>1 DEF GetsIn
<1> QED BY <1>6, <1>7, <1>8, <1>9, <1>10

\* The subscription fails: r has as many events as its queue has places.
LEMMA Failed ==
  ASSUME BaseInv, BaseInv', NEW r \in Readers, ReaderInv(r), ReplayNext(r) \/ PutOpening(r),
         QueueFull(r)
  PROVE  ReaderInv(r)'
<1> USE DEF ReaderInv
<1>1. /\ UNCHANGED <<event_history, made, maker, in_hand, overlapped, lost, received, events_subs,
                      publishing, targets, event_queue>>
      /\ connection[r] \in {"joining", "opening"} /\ connection'[r] = "failed"
  BY DEF PutOpening, ReplayNext, SubscribeFails, historyVars, publisherVars, BaseInv,
       StreamTypeOK
<1>2. Stream(r)' = Stream(r)
  BY <1>1, QuietStreams DEF Same
<1>3. /\ Stream(r) \in Seq(0..made) /\ Len(Stream(r)) \in Nat
      /\ \A i \in 1..Len(Stream(r)) : Stream(r)[i] \in 0..made
      /\ event_queue[r] \in Seq(0..made) /\ made \in Nat
  <2>1. made \in Nat
    BY StreamConstants DEF BaseInv, StreamTypeOK
  <2> QED BY <2>1, StreamType DEF BaseInv
<1>4. GetsIn(r)'
  <2>1. Stream(r) = event_queue[r]
    BY <1>1, <1>3, ConcatEmptySeq DEF Known, Stream
  <2>2. Len(Stream(r)) >= QueueSize
    BY <2>1 DEF QueueFull
  <2>3. \A i \in 1..Len(Stream(r)) : Stream(r)[i] \in 1..made
    BY <1>1, <1>3 DEF Known, In, Opening
  <2>4. Stream(r) \in Seq(1..made)
    BY <1>3, <2>3, SeqOfElements
  <2>5. \A e \in 1..made : Count(e, Stream(r)) \in Nat
    BY <2>4, CountType
  <2>6. \A e \in 1..made : Count(e, Stream(r)) <= IF e \in overlapped[r] THEN 2 ELSE 1
    BY <2>5 DEF NotTooOften, Once
  <2>7. overlapped[r] \in SUBSET (1..made)
    BY DEF BaseInv, StreamTypeOK
  <2>8. Len(Stream(r)) <= made + Cardinality(overlapped[r])
    BY <1>3, <2>4, <2>6, <2>7, LengthBound
  <2>9. Cardinality(overlapped[r]) \in Nat
    <3>1. IsFiniteSet(1..made)
      BY <1>3, FS_Interval
    <3> QED BY <2>7, <3>1, FS_Subset, FS_CardinalityType
  <2> QED BY <1>1, <1>3, <2>2, <2>8, <2>9, StreamConstants DEF GetsIn
<1>5. \A e : (Pending(r, e)' <=> Pending(r, e)) /\ ~ ToReplay(r, e)'
  BY <1>1 DEF Pending, ToReplay
<1>6. Known(r)' /\ StillToCome(r)' /\ StreamInOrder(r)'
  BY <1>1, <1>2 DEF Known, StillToCome, StreamInOrder
<1>7. NotTooOften(r)'
  <2>1. \A e \in 1..made : Count(e, Stream(r)) \in Nat
    BY <1>3, CountType
  <2> QED BY <1>1, <1>2, <1>5, <2>1 DEF NotTooOften, Once
<1> QED BY <1>4, <1>6, <1>7
\* A reader begins to subscribe.
LEMMA Subscribed ==
  ASSUME BaseInv, BaseInv', NEW r \in Readers, ReaderInv(r), Subscribe(r) PROVE ReaderInv(r)'
<1> USE DEF ReaderInv
<1>1. /\ UNCHANGED <<event_history, made, maker, in_hand, lost, received, publishing, targets, event_queue>>
      /\ Forgotten' = Forgotten /\ connection[r] = "out" /\ connection'[r] = "joining" /\ replayed' = 0
      /\ overlapped'[r] = UnderWay /\ r \in events_subs' /\ Stream(r) = <<>>
  BY DEF Subscribe, historyVars, publisherVars, queueVars, Forgotten, BaseInv, StreamTypeOK,
       Known
<1>2. Stream(r)' = <<>> /\ Len(<<>>) = 0
  BY <1>1, QuietStreams DEF Same
<1>3. \A e : Count(e, Stream(r)') = 0 /\ ~ In(e, Stream(r)')
  <2> SUFFICES ASSUME NEW e PROVE Count(e, <<>>) = 0 /\ ~ In(e, <<>>)
    BY <1>2
  <2>1. ~ In(e, <<>>)
    BY DEF In
  <2>2. <<>> \in Seq({})
    OBVIOUS
  <2>3. Count(e, <<>>) \in Nat /\ (In(e, <<>>) <=> Count(e, <<>>) > 0)
    BY <2>2, CountType
  <2> QED BY <2>1, <2>3
<1>4. made \in Nat /\ received[r] = <<>>
  <2>1. received[r] \in Seq(0..made) /\ event_queue[r] \in Seq(0..made)
    BY StreamType DEF BaseInv
  <2>2. received[r] \o event_queue[r] = <<>>
    BY <1>1 DEF Stream
  <2> QED BY <2>1, <2>2, ConcatEqualIffEmpty, StreamConstants DEF BaseInv, StreamTypeOK
<1>5. \A p \in Publishers : publishing[p] # "idle" => in_hand[p] \in UnderWay
  BY DEF UnderWay
<1>6. ASSUME NEW e, Pending(r, e)' PROVE e \in UnderWay
  <2>1. PICK p \in Publishers : in_hand[p] = e /\ (publishing[p] = "recorded" \/ r \in targets[p])
    BY <1>1, <1>6 DEF Pending
  <2>2. publishing[p] # "idle"
    BY <2>1 DEF BaseInv, PublicationsAreOwn
  <2> QED BY <1>5, <2>1, <2>2
<1>7. Known(r)'
  BY <1>1, <1>2, <1>3, <1>4, <1>5 DEF Known
<1>8. NotTooOften(r)'
  BY <1>1, <1>3, <1>6 DEF NotTooOften, Once
<1>9. StillToCome(r)'
  <2>1. /\ Len(event_history) \in Nat /\ Forgotten \in Nat
        /\ \A i \in 1..Len(event_history) : event_history[i] = Forgotten + i
    BY <1>4, LenProperties DEF BaseInv, HistoryIsNumbered, StreamTypeOK, Forgotten
  <2>2. \A i \in 1..Len(event_history) : event_history[i] > Forgotten + 0
    BY <2>1
  <2> QED BY <1>1, <2>2 DEF StillToCome, ToReplay
<1>10. StreamInOrder(r)'
  BY <1>2 DEF StreamInOrder
<1>11. GetsIn(r)'
  BY <1>1 DEF GetsIn
<1> QED BY <1>7, <1>8, <1>9, <1>10, <1>11

\* The replay has reached the end of the history.
LEMMA ReplayedAll ==
  ASSUME BaseInv, BaseInv', NEW r \in Readers, ReaderInv(r), ReplayDone(r) PROVE ReaderInv(r)'
<1> USE DEF ReaderInv
<1>1. /\ UNCHANGED <<event_history, made, maker, in_hand, lost, received, publishing, targets, event_queue,
                      overlapped, replayed, events_subs>>
      /\ Forgotten' = Forgotten /\ connection[r] = "joining" /\ connection'[r] = "opening"
      /\ replayed >= Len(event_history)
  BY DEF ReplayDone, historyVars, publisherVars, queueVars, Forgotten, BaseInv, StreamTypeOK
<1>2. Stream(r)' = Stream(r)
  BY <1>1, QuietStreams DEF Same
<1>3. made \in Nat /\ Len(event_history) \in Nat /\ replayed \in Nat /\ Forgotten = made - Len(event_history)
  BY StreamConstants, LenProperties DEF BaseInv, StreamTypeOK, Forgotten
<1>4. \A e : (Pending(r, e)' <=> Pending(r, e)) /\ ~ ToReplay(r, e)'
  BY <1>1 DEF Pending, ToReplay
<1>5. \A e \in 1..made : ~ ToReplay(r, e)
  BY <1>1, <1>3 DEF ToReplay
<1>6. Known(r)' /\ StreamInOrder(r)' /\ GetsIn(r)'
  BY <1>1, <1>2 DEF Known, StreamInOrder, GetsIn
<1>7. NotTooOften(r)'
  BY <1>1, <1>2, <1>4, <1>5 DEF NotTooOften, Once
<1>8. StillToCome(r)'
  <2>1. \A i \in 1..Len(event_history) : event_history[i] \in 1..made
    BY ElementOfSeq DEF BaseInv, StreamTypeOK
  <2> QED BY <1>1, <1>2, <1>4, <1>5, <2>1 DEF StillToCome
<1> QED BY <1>6, <1>7, <1>8

\* Somebody records an event.
LEMMA Recorded ==
  ASSUME BaseInv, BaseInv', NEW r \in Readers, ReaderInv(r), NEW p \in Publishers, RecordEvent(p)
  PROVE  ReaderInv(r)'
<1> DEFINE x == made + 1
<1> USE DEF ReaderInv
<1>1. /\ UNCHANGED <<lost, received, targets, event_queue, connection, joining, replayed, events_subs>>
      /\ made' = made + 1 /\ made \in Nat /\ made + 1 \in Events
      /\ maker' = [maker EXCEPT ![made + 1] = p]
      /\ event_history' = Append(event_history, made + 1)
      /\ publishing[p] = "idle" /\ publishing'[p] = "recorded" /\ in_hand'[p] = made + 1
      /\ \A q \in Publishers \ {p} : publishing'[q] = publishing[q] /\ in_hand'[q] = in_hand[q]
      /\ overlapped'[r] = overlapped[r] \cup (IF r = joining THEN {made + 1} ELSE {})
      /\ targets[p] = {}
  BY StreamConstants
     DEF RecordEvent, readerVars, queueVars, BaseInv, StreamTypeOK, Events, PublicationsAreOwn
<1>2. Stream(r)' = Stream(r)
  BY <1>1, QuietStreams DEF Same
<1>3. /\ Stream(r) \in Seq(0..made) /\ Len(Stream(r)) \in Nat
      /\ \A i \in 1..Len(Stream(r)) : Stream(r)[i] \in 0..made
  BY StreamType DEF BaseInv
<1>4. event_history \in Seq(1..made) /\ Len(event_history) \in Nat /\ Len(event_history) <= made
  BY LenProperties DEF BaseInv, StreamTypeOK, HistoryIsNumbered
<1>5. /\ Len(event_history') = Len(event_history) + 1
      /\ \A i \in 1..Len(event_history) : event_history'[i] = event_history[i] /\ event_history[i] \in 1..made
      /\ event_history'[Len(event_history) + 1] = x
  <2>1. event_history \in Seq(Nat) /\ made + 1 \in Nat
    BY <1>1, <1>4
  <2>2. \A i \in 1..Len(event_history) : event_history[i] \in 1..made
    BY <1>4, ElementOfSeq
  <2> QED BY <1>1, <2>1, <2>2, AppendProperties
<1>6. Forgotten' = Forgotten /\ Forgotten + replayed < x
  BY <1>1, <1>4, <1>5 DEF Forgotten, BaseInv, HistoryIsNumbered, StreamTypeOK
<1>7. \A e \in 1..made : (Pending(r, e)' <=> Pending(r, e)) /\ (ToReplay(r, e)' <=> ToReplay(r, e))
  <2> SUFFICES ASSUME NEW e \in 1..made PROVE (Pending(r, e)' <=> Pending(r, e)) /\ (ToReplay(r, e)' <=> ToReplay(r, e))
    OBVIOUS
  <2>1. e # made + 1
    BY <1>1
  <2>2. Pending(r, e)' <=> Pending(r, e)
    BY <1>1, <2>1 DEF Pending
  <2> QED BY <1>1, <1>6, <2>2 DEF ToReplay
<1>8. \A e : e = x => Pending(r, e)'
  BY <1>1 DEF Pending
<1>9. connection[r] \in {"joining", "opening"} => joining = r /\ x \in overlapped'[r]
  BY <1>1 DEF BaseInv, StreamTypeOK
<1>10. overlapped[r] \subseteq overlapped'[r] /\ \A e \in 1..made : e \in overlapped'[r] <=> e \in overlapped[r]
  BY <1>1
<1>11. Known(r)'
  <2>1. connection[r] = "out" =>
          Stream(r) = <<>> /\ r \notin events_subs /\ \A q \in Publishers : r \notin targets[q]
    BY DEF Known
  <2>2. ASSUME connection[r] \in {"joining", "opening"}
        PROVE  /\ received[r] = <<>> /\ ~ In(Opening, Stream(r))
               /\ \A q \in Publishers : publishing'[q] # "idle" => in_hand'[q] \in overlapped'[r]
               /\ \A i \in 1..Len(Stream(r)) :
                     Stream(r)[i] \in overlapped'[r] \/ Stream(r)[i] <= Forgotten + replayed
    BY <1>1, <1>9, <1>10, <2>2 DEF Known
  <2>3. connection[r] \in {"joining", "opening", "in"} => r \in events_subs
    BY DEF Known
  <2> QED BY <1>1, <1>2, <1>6, <2>1, <2>2, <2>3 DEF Known
<1>12. NotTooOften(r)'
  <2> SUFFICES ASSUME NEW e \in 1..made'
               PROVE  Count(e, Stream(r)) + Once(Pending(r, e)') + Once(ToReplay(r, e)')
                        <= IF e \in overlapped'[r] THEN 2 ELSE 1
    BY <1>2 DEF NotTooOften
  <2>1. CASE e \in 1..made
    BY <1>7, <1>10, <2>1 DEF NotTooOften, Once
  <2>2. CASE e = x
    <3>1. ~ In(e, Stream(r))
      BY <1>1, <1>3, <2>2 DEF In
    <3>2. Count(e, Stream(r)) = 0
      <4>1. Count(e, Stream(r)) \in Nat /\ (In(e, Stream(r)) <=> Count(e, Stream(r)) > 0)
        BY <1>3, CountType
      <4> QED BY <3>1, <4>1
    <3>3. ToReplay(r, e)' => e \in overlapped'[r]
      BY <1>1, <1>9, <2>2 DEF ToReplay
    <3> QED BY <3>2, <3>3 DEF Once
  <2> QED BY <1>1, <2>1, <2>2
<1>13. StillToCome(r)'
  <2> SUFFICES ASSUME r \notin lost, connection[r] \in {"joining", "opening", "in"},
                      NEW e \in 1..made', \E i \in 1..Len(event_history') : event_history'[i] = e
               PROVE  In(e, Stream(r)) \/ Pending(r, e)' \/ ToReplay(r, e)'
    <3>1. \A i \in 1..Len(event_history') : event_history'[i] \in 1..made'
      BY <1>1, <1>4, <1>5
    <3> QED BY <1>1, <1>2, <3>1 DEF StillToCome
  <2>1. CASE e = x
    BY <1>8, <2>1
  <2>2. CASE e # x
    <3>1. PICK i \in 1..Len(event_history) : event_history[i] = e
      BY <1>4, <1>5, <2>2
    <3>2. e \in 1..made
      BY <1>5, <3>1
    <3>3. In(e, Stream(r)) \/ Pending(r, e) \/ ToReplay(r, e)
      BY <3>1 DEF StillToCome
    <3> QED BY <1>7, <3>2, <3>3
  <2> QED BY <2>1, <2>2
<1>14. StreamInOrder(r)'
  <2>1. \A e \in 1..made : maker'[e] = maker[e]
    BY <1>1 DEF BaseInv, StreamTypeOK
  <2> SUFFICES ASSUME NEW i \in 1..Len(Stream(r)), NEW j \in 1..Len(Stream(r)), i < j,
                      Stream(r)[i] # Opening, Stream(r)[j] # Opening,
                      {Stream(r)[i], Stream(r)[j]} \cap overlapped'[r] = {},
                      maker'[Stream(r)[i]] = maker'[Stream(r)[j]]
               PROVE  Stream(r)[i] <= Stream(r)[j]
    BY <1>2 DEF StreamInOrder
  <2>2. Stream(r)[i] \in 1..made /\ Stream(r)[j] \in 1..made
    BY <1>3 DEF Opening
  <2>3. {Stream(r)[i], Stream(r)[j]} \cap overlapped[r] = {}
    BY <1>10
  <2> QED BY <2>1, <2>2, <2>3 DEF StreamInOrder
<1>15. GetsIn(r)'
  <2>1. overlapped[r] \in SUBSET (1..made) /\ overlapped'[r] \in SUBSET (1..made')
    BY DEF BaseInv, StreamTypeOK
  <2>2. made' \in Nat /\ IsFiniteSet(1..made')
    <3>1. made' \in Nat /\ made' \in Int /\ 1 \in Int
      BY <1>1
    <3> QED BY <3>1, FS_Interval
  <2>3. IsFiniteSet(overlapped'[r])
    BY <2>1, <2>2, FS_Subset
  <2>4. /\ Cardinality(overlapped[r]) <= Cardinality(overlapped'[r])
        /\ Cardinality(overlapped[r]) \in Nat /\ Cardinality(overlapped'[r]) \in Nat
    BY <1>10, <2>3, FS_Subset, FS_CardinalityType
  <2> QED BY <1>1, <2>4, StreamConstants DEF GetsIn
<1> QED BY <1>11, <1>12, <1>13, <1>14, <1>15
\* A new history.
LEMMA HistoryCleared ==
  ASSUME BaseInv, BaseInv', NEW r \in Readers, ReaderInv(r), ClearHistory PROVE ReaderInv(r)'
<1> USE DEF ReaderInv
<1>1. /\ UNCHANGED <<made, maker, in_hand, lost, received, publishing, targets, event_queue,
                      overlapped, connection, joining, replayed, events_subs>>
      /\ connection[r] \notin {"joining", "opening"} /\ event_history' = <<>>
  BY StreamConstants
     DEF ClearHistory, LoopIsFree, readerVars, publisherVars, queueVars, BaseInv, StreamTypeOK
<1>2. Stream(r)' = Stream(r)
  BY <1>1, QuietStreams DEF Same
<1>3. \A e : (Pending(r, e)' <=> Pending(r, e)) /\ (ToReplay(r, e)' <=> ToReplay(r, e))
  BY <1>1 DEF Pending, ToReplay
<1>4. Known(r)' /\ StreamInOrder(r)' /\ GetsIn(r)' /\ StillToCome(r)'
  BY <1>1, <1>2 DEF Known, StreamInOrder, GetsIn, StillToCome
<1>5. NotTooOften(r)'
  BY <1>1, <1>2, <1>3 DEF NotTooOften, Once
<1> QED BY <1>4, <1>5

\* The steps of publishers.
LEMMA PublishKeeps ==
  ASSUME StreamInv, NEW p \in Publishers, PublishStep(p) PROVE StreamInv'
<1> USE DEF StreamInv
<1>1. CASE RecordEvent(p)
  BY <1>1, RecordBase, Recorded
<1>2. CASE CopySubscribers(p)
  <2>1. BaseInv'
    BY <1>2, PublishBase
  <2>2. /\ UNCHANGED <<event_history, made, maker, in_hand, overlapped, connection, replayed, received,
                        events_subs, lost, event_queue>>
        /\ publishing[p] = "recorded" /\ targets'[p] = events_subs
        /\ publishing'[p] = (IF events_subs = {} THEN "idle" ELSE "putting")
        /\ \A q \in Publishers \ {p} : targets'[q] = targets[q] /\ publishing'[q] = publishing[q]
    BY <1>2 DEF CopySubscribers, BaseInv, StreamTypeOK, historyVars, readerVars, queueVars
  <2>3. ASSUME NEW r \in Readers PROVE ReaderInv(r)'
    <3>1. \A e : Pending(r, e)' => Pending(r, e)
      BY <2>2 DEF Pending
    <3>2. \A e : r \in events_subs /\ Pending(r, e) => Pending(r, e)'
      BY <2>2 DEF Pending
    <3>3. \A q \in Publishers : r \in targets'[q] => r \in targets[q] \/ r \in events_subs
      BY <2>2
    <3>4. \A q \in Publishers : publishing'[q] # "idle" => publishing[q] # "idle"
      BY <2>2
    <3>5. Same(r)
      BY <2>2, QuietStreams
    <3> QED BY <2>1, <2>2, <3>1, <3>2, <3>3, <3>4, <3>5, Undisturbed
  <2> QED BY <2>1, <2>3
<1>3. ASSUME NEW s \in Readers, PutNowait(p, s) \/ DropOldest(p, s) \/ PutAgain(p, s)
      PROVE  StreamInv'
  <2>1. BaseInv /\ BaseInv'
    BY <1>3, PublishBase
  <2>2. /\ UNCHANGED <<event_history, made, maker, in_hand, overlapped, connection, joining, replayed,
                        received, events_subs>>
        /\ publishing[p] \notin {"idle", "recorded"} /\ lost \subseteq lost'
    BY <1>3 DEF PutNowait, DropOldest, PutAgain, Served, InExcept, historyVars, readerVars,
         queueVars
  <2>3. /\ \A q \in Publishers \ {p} : targets'[q] = targets[q] /\ publishing'[q] = publishing[q]
        /\ publishing'[p] # "recorded" /\ targets'[p] \in {targets[p], targets[p] \ {s}}
    <3> USE <2>1 DEF BaseInv, StreamTypeOK
    <3>1. CASE Served(p, s)
      BY <3>1 DEF Served
    <3>2. ASSUME NEW spot \in {"full", "dropped"}, InExcept(p, s, spot)
          PROVE  /\ \A q \in Publishers \ {p} : targets'[q] = targets[q] /\ publishing'[q] = publishing[q]
                 /\ publishing'[p] # "recorded" /\ targets'[p] = targets[p]
      BY <3>2 DEF InExcept
    <3> QED BY <1>3, <3>1, <3>2 DEF PutNowait, DropOldest, PutAgain
  <2>4. s \in targets[p]
    BY <1>3 DEF PutNowait, DropOldest, PutAgain, BaseInv, PublicationsAreOwn
  <2>5. ASSUME NEW r \in Readers, Same(r) \/ (Loses(r) /\ r \in lost'),
               r # s \/ r \in lost' \/ targets'[p] = targets[p]
        PROVE  ReaderInv(r)'
    <3>1. \A e : Pending(r, e)' => Pending(r, e)
      BY <2>2, <2>3 DEF Pending
    <3>2. \A e : r \notin lost' /\ Pending(r, e) => Pending(r, e)'
      BY <2>2, <2>3, <2>5 DEF Pending
    <3>3. \A q \in Publishers : r \in targets'[q] => r \in targets[q]
      BY <2>3
    <3>4. \A q \in Publishers : publishing'[q] # "idle" => publishing[q] # "idle"
      BY <2>2, <2>3
    <3> QED BY <2>1, <2>2, <2>5, <3>1, <3>2, <3>3, <3>4, Undisturbed
  <2>6. CASE (PutNowait(p, s) \/ PutAgain(p, s)) /\ ~QueueFull(s)
    <3>1. Put(s, in_hand[p]) /\ Served(p, s) /\ lost' = lost
      BY <2>6 DEF PutNowait, PutAgain
    <3>2. in_hand[p] \in 0..made
      BY <2>1 DEF BaseInv, StreamTypeOK
    <3>3. Gets(s, in_hand[p]) /\ \A q \in Readers \ {s} : Same(q)
      BY <2>1, <2>2, <3>1, <3>2, PutStreams DEF BaseInv
    <3>4. ReaderInv(s)'
      BY <2>1, <2>4, <3>1, <3>3, Delivered
    <3>5. \A q \in Readers \ {s} : ReaderInv(q)'
      BY <2>5, <3>3
    <3> QED BY <2>1, <3>4, <3>5
  <2>7. CASE PutNowait(p, s) /\ QueueFull(s)
    <3>1. UNCHANGED event_queue /\ targets' = targets
      BY <2>7 DEF PutNowait, InExcept, queueVars
    <3> QED BY <2>1, <2>2, <2>5, <3>1, QuietStreams
  <2>8. CASE PutAgain(p, s) /\ QueueFull(s)
    <3>1. UNCHANGED event_queue /\ s \in lost /\ lost' = lost
      BY <2>1, <2>8 DEF PutAgain, BaseInv, PublicationsAreOwn
    <3> QED BY <2>1, <2>2, <2>5, <3>1, QuietStreams
  <2>9. CASE DropOldest(p, s) /\ event_queue[s] = <<>>
    <3>1. UNCHANGED event_queue /\ s \in lost'
      BY <2>9 DEF DropOldest
    <3> QED BY <2>1, <2>2, <2>5, <3>1, QuietStreams
  <2>10. CASE DropOldest(p, s) /\ event_queue[s] # <<>>
    <3>1. event_queue' = [event_queue EXCEPT ![s] = Tail(@)] /\ s \in lost'
      BY <2>10 DEF DropOldest
    <3>2. Loses(s) /\ \A q \in Readers \ {s} : Same(q)
      BY <2>1, <2>2, <2>10, <3>1, DropStreams DEF BaseInv
    <3> QED BY <2>1, <2>5, <3>1, <3>2
  <2> QED BY <1>3, <2>6, <2>7, <2>8, <2>9, <2>10
<1> QED BY <1>1, <1>2, <1>3 DEF PublishStep

\* The steps of readers.
LEMMA ReaderKeeps ==
  ASSUME StreamInv, NEW s \in Readers, Connect(s) \/ Read(s) \/ Unsubscribe(s) PROVE StreamInv'
<1> USE DEF StreamInv
<1>1. BaseInv /\ BaseInv'
  BY ReaderBase
<1>2. UNCHANGED <<event_history, made, maker, in_hand, lost, publishing, targets>>
  BY DEF Connect, Subscribe, ReplayNext, ReplayDone, PutOpening, Read, Unsubscribe, historyVars,
         publisherVars, queueVars
<1>3. ASSUME NEW r \in Readers, Same(r), overlapped'[r] = overlapped[r],
             connection'[r] = connection[r] \/ (connection[r] = "in" /\ connection'[r] = "left"),
             connection[r] \in {"joining", "opening"} =>
               UNCHANGED replayed /\ received'[r] = received[r],
             r \in events_subs' => r \in events_subs,
             connection'[r] \in {"joining", "opening", "in"} /\ r \in events_subs => r \in events_subs'
      PROVE  ReaderInv(r)'
  <2>1. \A e : Pending(r, e)' <=> Pending(r, e)
    BY <1>2 DEF Pending
  <2>2. /\ \A q \in Publishers : r \in targets'[q] => r \in targets[q]
        /\ \A q \in Publishers : publishing'[q] # "idle" => publishing[q] # "idle"
    BY <1>2
  <2> QED BY <1>1, <1>2, <1>3, <2>1, <2>2, Undisturbed
<1>4. CASE Connect(s)
  <2>1. joining = s \/ joining = NoReader
    BY <1>4 DEF Connect, Subscribe, ReplayNext, ReplayDone, PutOpening, LoopIsFree
  <2>2. UNCHANGED received
    BY <1>4 DEF Connect, Subscribe, ReplayNext, ReplayDone, PutOpening
  <2>3. ASSUME NEW r \in Readers, r # s
        PROVE  /\ Same(r) /\ overlapped'[r] = overlapped[r] /\ connection'[r] = connection[r]
               /\ (r \in events_subs' <=> r \in events_subs)
               /\ connection[r] \notin {"joining", "opening"}
    <3>1. connection[r] \notin {"joining", "opening"}
      BY <2>1, <2>3, StreamConstants DEF BaseInv, StreamTypeOK
    <3>2. /\ overlapped'[r] = overlapped[r] /\ connection'[r] = connection[r]
          /\ (r \in events_subs' <=> r \in events_subs)
      <4>1. /\ UNCHANGED overlapped \/ overlapped' = [overlapped EXCEPT ![s] = UnderWay]
            /\ UNCHANGED events_subs \/ events_subs' = events_subs \cup {s}
        BY <1>4 DEF Connect, Subscribe, ReplayNext, ReplayDone, PutOpening
      <4>2. UNCHANGED connection \/ \E spot : connection' = [connection EXCEPT ![s] = spot]
        BY <1>4 DEF Connect, Subscribe, ReplayNext, ReplayDone, PutOpening, SubscribeFails
      <4>3. connection \in [Readers -> {"out", "joining", "opening", "in", "failed", "left"}] /\ overlapped \in [Readers -> SUBSET (1..made)]
        BY <1>1 DEF BaseInv, StreamTypeOK
      <4> QED BY <2>3, <4>1, <4>2, <4>3
    <3>3. Same(r)
      <4>1. UNCHANGED event_queue \/ \E e : event_queue' = [event_queue EXCEPT ![s] = Append(@, e)]
        BY <1>4 DEF Connect, Subscribe, ReplayNext, ReplayDone, PutOpening, SubscribeFails,
             Put, queueVars
      <4>2. event_queue'[r] = event_queue[r]
        BY <1>1, <2>3, <4>1 DEF BaseInv, StreamTypeOK
      <4> QED BY <2>2, <4>2 DEF Same, Stream
    <3> QED BY <3>1, <3>2, <3>3
  <2>4. \A r \in Readers \ {s} : ReaderInv(r)'
    BY <1>3, <2>3
  <2>5. ReaderInv(s)'
    <3>1. CASE Subscribe(s)
      BY <1>1, <3>1, Subscribed
    <3>2. CASE ReplayDone(s)
      BY <1>1, <3>2, ReplayedAll
    <3>3. CASE (ReplayNext(s) \/ PutOpening(s)) /\ QueueFull(s)
      BY <1>1, <3>3, Failed
    <3>4. CASE (ReplayNext(s) \/ PutOpening(s)) /\ ~QueueFull(s)
      BY <1>1, <3>4, Replayed, Opened
    <3> QED BY <1>4, <3>1, <3>2, <3>3, <3>4 DEF Connect
  <2> QED BY <1>1, <2>4, <2>5
<1>5. CASE Read(s)
  <2>1. \A r \in Readers : Same(r)
    BY <1>1, <1>5, ReadStreams DEF BaseInv
  <2>2. UNCHANGED <<overlapped, connection, events_subs, replayed>> /\ connection[s] = "in"
    BY <1>5 DEF Read, readerVars
  <2>3. \A r \in Readers \ {s} : received'[r] = received[r]
    BY <1>1, <1>5 DEF Read, BaseInv, StreamTypeOK
  <2> QED BY <1>1, <1>3, <2>1, <2>2, <2>3
<1>6. CASE Unsubscribe(s)
  <2>1. \A r \in Readers : Same(r)
    BY <1>6, QuietStreams DEF Unsubscribe, queueVars
  <2>2. UNCHANGED <<overlapped, received, replayed>>
    BY <1>6 DEF Unsubscribe
  <2>3. \A r \in Readers : connection'[r] = connection[r] \/ (connection[r] = "in" /\ connection'[r] = "left")
    BY <1>1, <1>6 DEF Unsubscribe, BaseInv, StreamTypeOK
  <2>4. \A r \in Readers :
          /\ r \in events_subs' => r \in events_subs
          /\ connection'[r] \in {"joining", "opening", "in"} /\ r \in events_subs => r \in events_subs'
    BY <1>1, <1>6 DEF Unsubscribe, BaseInv, StreamTypeOK
  <2> QED BY <1>1, <1>3, <2>1, <2>2, <2>3, <2>4
<1> QED BY <1>4, <1>5, <1>6

LEMMA StreamStep == StreamInv /\ [StreamNext]_streamVars => StreamInv'
<1> SUFFICES ASSUME StreamInv, [StreamNext]_streamVars PROVE StreamInv'
  OBVIOUS
<1>1. CASE ClearHistory
  BY <1>1, ReaderBase, HistoryCleared DEF StreamInv
<1>2. CASE UNCHANGED streamVars
  <2> USE <1>2 DEF streamVars, historyVars, queueVars, publisherVars, readerVars
  <2>1. BaseInv'
    BY DEF StreamInv, BaseInv, StreamTypeOK, HistoryIsNumbered, Forgotten, PublicationsAreOwn
  <2>2. ASSUME NEW r \in Readers PROVE ReaderInv(r)'
    <3>1. Stream(r)' = Stream(r) /\ Forgotten' = Forgotten
      BY DEF Stream, Forgotten
    <3>2. \A e : (Pending(r, e)' <=> Pending(r, e)) /\ (ToReplay(r, e)' <=> ToReplay(r, e))
      BY <3>1 DEF Pending, ToReplay
    <3>3. Known(r)' /\ StreamInOrder(r)' /\ GetsIn(r)' /\ StillToCome(r)' /\ NotTooOften(r)'
      BY <3>1, <3>2 DEF StreamInv, ReaderInv, Known, StreamInOrder, GetsIn, StillToCome,
           NotTooOften, Once
    <3> QED BY <3>3 DEF ReaderInv
  <2> QED BY <2>1, <2>2 DEF StreamInv
<1> QED BY <1>1, <1>2, PublishKeeps, ReaderKeeps DEF StreamNext

\* The initial states, and each step of publishers and readers.
LEMMA StreamStart == StreamInit => StreamInv
<1> SUFFICES ASSUME StreamInit PROVE StreamInv
  OBVIOUS
<1> USE StreamConstants DEF StreamInit
<1>1. StreamTypeOK
  <2>1. made \in 0..MaxEvents /\ replayed \in 0..made /\ <<>> \in Seq(0..made) /\ event_history \in Seq(1..made)
        /\ Len(<<>>) = 0 /\ Opening \in 0..made
    BY DEF Opening
  <2>2. maker \in [Events -> Publishers] /\ in_hand \in [Publishers -> 0..made]
    BY <2>1 DEF Publishers
  <2>3. /\ event_queue \in [Readers -> Seq(0..made)] /\ received \in [Readers -> Seq(0..made)]
        /\ \A r \in Readers : Len(event_queue[r]) <= QueueSize
    BY <2>1
  <2> QED BY <2>1, <2>2, <2>3 DEF StreamTypeOK
<1>2. HistoryIsNumbered
  BY DEF HistoryIsNumbered
<1>3. PublicationsAreOwn
  BY DEF PublicationsAreOwn
<1>4. ASSUME NEW r \in Readers PROVE ReaderInv(r)
  <2>1. Stream(r) = <<>> /\ Len(<<>>) = 0
    BY ConcatEmptySeq, EmptySeq DEF Stream
  <2> QED BY <2>1 DEF ReaderInv, Known, StreamInOrder, GetsIn, StillToCome, NotTooOften
<1> QED BY <1>1, <1>2, <1>3, <1>4 DEF StreamInv, BaseInv

\* What the invariant says of those who read.
LEMMA StreamShows == StreamInv => EventsArrive
<1> SUFFICES ASSUME StreamInv PROVE EventsArrive
  OBVIOUS
<1> USE DEF StreamInv, ReaderInv
<1>1. \A r \in Readers : Stream(r) \in Seq(0..made)
  BY StreamType DEF BaseInv
<1>2. NothingMissed
  <2> SUFFICES ASSUME NEW r \in Readers, connection[r] = "in", r \notin lost,
                      \A p \in Publishers : publishing[p] = "idle",
                      NEW i \in 1..Len(event_history)
               PROVE  In(event_history[i], Stream(r))
    <3>1. DOMAIN event_history = 1..Len(event_history)
      BY LenProperties DEF BaseInv, StreamTypeOK
    <3>2. \A r \in Readers : DOMAIN Stream(r) = 1..Len(Stream(r))
      BY <1>1, LenProperties
    <3> QED BY <3>1, <3>2 DEF NothingMissed, ToSet, In
  <2> QED BY DEF StillToCome, Pending, ToReplay, BaseInv, PublicationsAreOwn
<1>3. TwiceOnlyWhileJoining
  <2> SUFFICES ASSUME NEW r \in Readers, NEW e \in 1..made
               PROVE  Count(e, Stream(r)) <= IF e \in overlapped[r] THEN 2 ELSE 1
    BY DEF TwiceOnlyWhileJoining
  <2>1. Count(e, Stream(r)) \in Nat
    BY <1>1, CountType
  <2> QED BY <2>1 DEF NotTooOften, Once
<1>4. EachPublisherInOrder
  BY DEF EachPublisherInOrder, StreamInOrder
<1>5. LateReadersGetIn
  BY DEF LateReadersGetIn, GetsIn
<1> QED BY <1>2, <1>3, <1>4, <1>5 DEF EventsArrive

\* When no publication is under way, a reader that lost nothing to a full queue has
\* received all of the history or has it waiting; an event comes once (twice only if it
\* was under way while the reader joined), those of a publisher come in its order,
\* and late readers get in (_record_event, _broadcast_event and subscribe of the
\* server); for any number of readers and events and any length of the queues.
THEOREM EventsReachReaders == StreamSpec => []EventsArrive
BY StreamStart, StreamStep, StreamShows, PTL DEF StreamSpec

-----------------------------------------------------------------------------
(* The latest frame and metrics.                                           *)

\* As long as frames do not overtake each other, at most one builder is at work, on
\* the newest state of the world; what it has made the latest is the newest, and
\* so is what everybody shows when nobody builds.
FramesInOrder ==
  ~overtaken =>
    /\ building["stepper"] = "idle" \/ building["commander"] = "idle"
    /\ \A p \in Builders : building[p] # "idle" => frame[p] = world
    /\ (\A p \in Builders : building[p] # "built") => latest_frame = world
    /\ (\A p \in Builders : building[p] = "idle") =>
         \A v \in viewers : subs_lock # v => shown[v] = latest_frame

\* Metrics that somebody may have while the run thread is not sending any.
Current(m) ==
  CASE ended = "sent" -> m = Summary
    [] ended = "stopped" -> m \in {latest_metrics, Summary}
    [] OTHER -> m = latest_metrics

MetricsInOrder ==
  building["stepper"] # "measured" =>
    \A v \in viewers : subs_lock # v => Current(metrics_shown[v])

\* A subscription under way: it blocks the event loop and every broadcast, so that
\* what it has read is still the latest when nobody has begun a frame.
ReadIsCurrent ==
  subs_lock # NoViewer =>
    /\ subs_lock \in viewers /\ building["commander"] = "idle"
    /\ building["stepper"] = "idle" => snapshot[1] = latest_frame
    /\ building["stepper"] # "measured" => Current(snapshot[2])

EndOfEpisode ==
  /\ ended # "no" => building["stepper"] = "idle"
  /\ summary <=> ended # "no"
  /\ stopped <=> ended \in {"stopped", "sent"}
  /\ building["commander"] # "measured"

SnapInv == SnapshotTypeOK /\ FramesInOrder /\ MetricsInOrder /\ ReadIsCurrent /\ EndOfEpisode
LEMMA SnapInit == SnapshotInit => SnapInv
<1> SUFFICES ASSUME SnapshotInit PROVE SnapInv
  OBVIOUS
<1>1. SnapshotTypeOK
  <2>1. 0 \in 0..MaxWorld /\ 0 \in 0..world /\ world = 0
    BY SnapshotConstants DEF SnapshotInit
  <2>2. {summary, stopped, overtaken} \subseteq BOOLEAN
    BY DEF SnapshotInit
  <2> QED BY <2>1, <2>2 DEF SnapshotInit, SnapshotTypeOK, Builders
<1>2. FramesInOrder /\ MetricsInOrder /\ ReadIsCurrent /\ EndOfEpisode
  BY DEF SnapshotInit, Builders, FramesInOrder, MetricsInOrder, ReadIsCurrent, EndOfEpisode
<1> QED BY <1>1, <1>2 DEF SnapInv

\* Building a frame.
LEMMA BuildKeeps ==
  ASSUME SnapInv, NEW p \in Builders, NEW lock \in Builders \cup {NoViewer},
         BuildFrame(p, lock), p = "stepper" => lock = p /\ ended = "no",
         p = "commander" => subs_lock = NoViewer,
         building["stepper"] = "built" => lock = "stepper"
  PROVE  SnapInv'
<1> USE SnapshotConstants DEF SnapInv, Builders, Others, BuildFrame, viewerVars, metricsVars
<1>1. SnapshotTypeOK'
  BY DEF SnapshotTypeOK
<1>2. FramesInOrder'
  BY DEF SnapshotTypeOK, FramesInOrder
<1>3. MetricsInOrder'
  BY DEF SnapshotTypeOK, MetricsInOrder, Current
<1>4. ReadIsCurrent'
  BY DEF SnapshotTypeOK, ReadIsCurrent, Current
<1>5. EndOfEpisode'
  BY DEF SnapshotTypeOK, EndOfEpisode
<1> QED BY <1>1, <1>2, <1>3, <1>4, <1>5

\* Making it the latest, and sending it.
LEMMA SendKeeps ==
  ASSUME SnapInv, NEW p \in Builders, SetLatest(p) \/ SendFrame(p) PROVE SnapInv'
<1> USE SnapshotConstants DEF SnapInv, Builders, viewerVars, metricsVars
<1>1. CASE SetLatest(p)
  <2> USE <1>1 DEF SetLatest
  <2>1. SnapshotTypeOK'
    BY DEF SnapshotTypeOK
  <2>2. FramesInOrder'
    BY DEF SnapshotTypeOK, FramesInOrder
  <2>3. MetricsInOrder'
    BY DEF SnapshotTypeOK, MetricsInOrder, Current
  <2>4. ReadIsCurrent'
    BY DEF SnapshotTypeOK, ReadIsCurrent, Current
  <2>5. EndOfEpisode'
    BY DEF SnapshotTypeOK, EndOfEpisode
  <2> QED BY <2>1, <2>2, <2>3, <2>4, <2>5
<1>2. CASE SendFrame(p)
  <2> USE <1>2 DEF SendFrame, Send
  <2>1. SnapshotTypeOK'
    BY DEF SnapshotTypeOK
  <2>2. FramesInOrder'
    BY DEF SnapshotTypeOK, FramesInOrder
  <2>3. MetricsInOrder'
    BY DEF SnapshotTypeOK, MetricsInOrder, Current, EndOfEpisode
  <2>4. ReadIsCurrent'
    BY DEF SnapshotTypeOK, ReadIsCurrent
  <2>5. EndOfEpisode'
    BY DEF SnapshotTypeOK, EndOfEpisode
  <2> QED BY <2>1, <2>2, <2>3, <2>4, <2>5
<1> QED BY <1>1, <1>2

\* The end of an episode, and the metrics of a step.
LEMMA EndKeeps ==
  ASSUME SnapInv, SetMetrics \/ SetSummary \/ SetStopped \/ SendSummary PROVE SnapInv'
<1> USE SnapshotConstants DEF SnapInv, Builders, viewerVars, metricsVars
<1> DEFINE A == SetMetrics \/ SetSummary \/ SetStopped \/ SendSummary
<1>1. SnapshotTypeOK'
  <2> USE DEF SnapshotTypeOK
  <2>1. CASE SetMetrics
    BY <2>1 DEF SetMetrics
  <2>2. CASE SetSummary
    BY <2>2 DEF SetSummary, EpisodeStep
  <2>3. CASE SetStopped
    BY <2>3 DEF SetStopped, EpisodeStep
  <2>4. CASE SendSummary
    BY <2>4 DEF SendSummary, EpisodeStep
  <2> QED BY <2>1, <2>2, <2>3, <2>4
<1>2. FramesInOrder'
  BY DEF SnapshotTypeOK, FramesInOrder, SetMetrics, SetSummary, SetStopped, SendSummary,
         EpisodeStep
<1>3. MetricsInOrder'
  BY DEF SnapshotTypeOK, MetricsInOrder, Current, EndOfEpisode, SetMetrics, SetSummary,
         SetStopped, SendSummary, EpisodeStep
<1>4. ReadIsCurrent'
  BY DEF SnapshotTypeOK, ReadIsCurrent, Current, EndOfEpisode, SetMetrics, SetSummary,
         SetStopped, SendSummary, EpisodeStep
<1>5. EndOfEpisode'
  BY DEF SnapshotTypeOK, EndOfEpisode, SetMetrics, SetSummary, SetStopped, SendSummary,
         EpisodeStep
<1> QED BY <1>1, <1>2, <1>3, <1>4, <1>5

\* Subscriptions.
LEMMA ViewerKeeps ==
  ASSUME SnapInv, NEW v \in Viewers, ReadSnapshot(v) \/ PutSnapshot(v) \/ LeaveView(v)
  PROVE  SnapInv'
<1> USE SnapshotConstants DEF SnapInv, Builders, LoopFree, frameVars, metricsVars
<1>1. SnapshotTypeOK'
  BY DEF SnapshotTypeOK, ReadSnapshot, PutSnapshot, LeaveView, Snapshot
<1>2. FramesInOrder'
  BY DEF SnapshotTypeOK, FramesInOrder, ReadIsCurrent, ReadSnapshot, PutSnapshot, LeaveView
<1>3. MetricsInOrder'
  BY DEF SnapshotTypeOK, MetricsInOrder, ReadIsCurrent, Current, ReadSnapshot, PutSnapshot,
         LeaveView
<1>4. ReadIsCurrent'
  BY DEF SnapshotTypeOK, ReadIsCurrent, Current, EndOfEpisode, ReadSnapshot, PutSnapshot,
         LeaveView, Snapshot
<1>5. EndOfEpisode'
  BY DEF SnapshotTypeOK, EndOfEpisode, ReadSnapshot, PutSnapshot, LeaveView
<1> QED BY <1>1, <1>2, <1>3, <1>4, <1>5

\* Every step on frames and metrics keeps the invariant.
LEMMA SnapNext == SnapInv /\ [SnapshotNext]_snapshotVars => SnapInv'
<1> SUFFICES ASSUME SnapInv, [SnapshotNext]_snapshotVars PROVE SnapInv'
  OBVIOUS
<1>1. CASE StepFrame \/ InjectFrame \/ InsertFrame
  <2>1. \E p \in Builders, lock \in Builders \cup {NoViewer} :
          /\ BuildFrame(p, lock) /\ (p = "stepper" => lock = p /\ ended = "no")
          /\ p = "commander" => subs_lock = NoViewer
          /\ building["stepper"] = "built" => lock = "stepper"
    BY <1>1, SnapshotConstants
       DEF StepFrame, InjectFrame, InsertFrame, Builders, LoopFree, SnapInv, SnapshotTypeOK
  <2> QED BY <2>1, BuildKeeps
<1>2. ASSUME NEW p \in Builders, SetLatest(p) \/ SendFrame(p) PROVE SnapInv'
  BY <1>2, SendKeeps
<1>3. CASE SetMetrics \/ SetSummary \/ SetStopped \/ SendSummary
  BY <1>3, EndKeeps
<1>4. ASSUME NEW v \in Viewers, ReadSnapshot(v) \/ PutSnapshot(v) \/ LeaveView(v)
      PROVE  SnapInv'
  BY <1>4, ViewerKeeps
<1>5. CASE UNCHANGED snapshotVars
  BY <1>5 DEF snapshotVars, SnapInv, SnapshotTypeOK, FramesInOrder, MetricsInOrder,
              ReadIsCurrent, EndOfEpisode, Current
<1> QED BY <1>1, <1>2, <1>3, <1>4, <1>5 DEF SnapshotNext

\* What the invariant says of the viewers.
LEMMA SnapShows == SnapInv => ViewsAreCurrent
<1> SUFFICES ASSUME SnapInv PROVE ViewsAreCurrent
  OBVIOUS
<1>1. ScreensAreCurrent
  BY SnapshotConstants DEF SnapInv, SnapshotTypeOK, ScreensAreCurrent, AllIdle, FramesInOrder,
       Builders
<1>2. MetricsAreCurrent
  BY SnapshotConstants DEF SnapInv, SnapshotTypeOK, MetricsAreCurrent, MetricsInOrder, Current,
       AllIdle, Builders
<1> QED BY <1>1, <1>2 DEF ViewsAreCurrent

\* When nobody is building or sending, every viewer shows the newest frame unless
\* the last frames overtook each other, and the newest metrics, after an episode its
\* summary (_broadcast_snapshot and the last broadcasts of a run); for any number of
\* viewers.
THEOREM ScreensKeepUp == SnapshotSpec => []ViewsAreCurrent
BY SnapInit, SnapNext, SnapShows, PTL DEF SnapshotSpec

-----------------------------------------------------------------------------
(* The numbers of a set in their order.                                    *)

\* How many numbers of S there are up to n.
UpTo(S, n) == {k \in S : k <= n}
RankIn(S, n) == Cardinality(UpTo(S, n))

LEMMA RankIs ==
  ASSUME NEW S \in SUBSET Nat, IsFiniteSet(S)
  PROVE  /\ Cardinality(S) \in Nat
         /\ \A n \in S : RankIn(S, n) \in 1..Cardinality(S)
         /\ \A n \in S, k \in S : n < k <=> RankIn(S, n) < RankIn(S, k)
<1>1. Cardinality(S) \in Nat
  BY FS_CardinalityType
<1>2. ASSUME NEW n \in S PROVE RankIn(S, n) \in 1..Cardinality(S)
  <2>1. UpTo(S, n) \subseteq S /\ n \in UpTo(S, n)
    BY DEF UpTo
  <2>2. IsFiniteSet(UpTo(S, n)) /\ RankIn(S, n) <= Cardinality(S)
    BY <2>1, FS_Subset DEF RankIn
  <2>3. RankIn(S, n) \in Nat /\ RankIn(S, n) # 0
    BY <2>1, <2>2, FS_CardinalityType, FS_EmptySet DEF RankIn
  <2> QED BY <1>1, <2>2, <2>3
<1>3. ASSUME NEW n \in S, NEW k \in S, n < k PROVE RankIn(S, n) < RankIn(S, k)
  <2>0. /\ n \in Nat /\ k \in Nat /\ k <= k /\ ~(k <= n)
        /\ \A x \in S : x \in Nat /\ (x <= n => x <= k)
    BY <1>3
  <2>1. UpTo(S, n) \subseteq UpTo(S, k) /\ k \in UpTo(S, k) /\ k \notin UpTo(S, n)
    BY <1>3, <2>0 DEF UpTo
  <2>2. IsFiniteSet(UpTo(S, k))
    BY FS_Subset DEF UpTo
  <2>3. RankIn(S, n) <= RankIn(S, k) /\ RankIn(S, n) # RankIn(S, k)
    BY <2>1, <2>2, FS_Subset DEF RankIn
  <2>4. RankIn(S, n) \in Nat /\ RankIn(S, k) \in Nat
    BY <1>2, <1>1
  <2> QED BY <2>3, <2>4
<1>4. ASSUME NEW n \in S, NEW k \in S, ~(n < k) PROVE ~(RankIn(S, n) < RankIn(S, k))
  <2>1. n = k \/ k < n
    BY <1>4
  <2>2. RankIn(S, n) \in Nat /\ RankIn(S, k) \in Nat
    BY <1>1, <1>2
  <2>3. CASE k < n
    <3>1. RankIn(S, k) < RankIn(S, n)
      BY <1>3, <2>3
    <3> QED BY <2>2, <3>1
  <2> QED BY <2>1, <2>2, <2>3
<1> QED BY <1>1, <1>2, <1>3, <1>4

\* Of each rank there is one.
LEMMA RankOnto ==
  ASSUME NEW S \in SUBSET Nat, IsFiniteSet(S), NEW i \in 1..Cardinality(S)
  PROVE  \E n \in S : RankIn(S, n) = i
<1> DEFINE c == Cardinality(S)
           f == [n \in S |-> RankIn(S, n)]
<1>1. c \in Nat /\ \A n \in S : RankIn(S, n) \in 1..c
  BY RankIs
<1>2. \A n \in S, k \in S : n < k <=> RankIn(S, n) < RankIn(S, k)
  BY RankIs
<1>3. IsFiniteSet(1..c) /\ Cardinality(1..c) = c
  <2>1. c \in Int /\ 1 \in Int
    BY <1>1
  <2>2. IsFiniteSet(1..c) /\ Cardinality(1..c) = IF 1 > c THEN 0 ELSE c - 1 + 1
    BY <2>1, FS_Interval
  <2> QED BY <1>1, <2>2
<1> HIDE DEF c
<1>4. f \in Injection(S, 1..c)
  <2>1. f \in [S -> 1..c] /\ \A n \in S : f[n] = RankIn(S, n)
    BY <1>1
  <2> HIDE DEF f
  <2>2. ASSUME NEW n \in S, NEW k \in S, f[n] = f[k] PROVE n = k
    <3>1. RankIn(S, n) = RankIn(S, k) /\ RankIn(S, n) \in Nat
      BY <1>1, <2>1, <2>2
    <3>2. ~(n < k) /\ ~(k < n)
      BY <1>2, <3>1
    <3> QED BY <3>2
  <2> QED BY <2>1, <2>2 DEF Injection, IsInjective
<1> HIDE DEF f
<1>5. f \in Surjection(S, 1..c)
  BY <1>3, <1>4, FS_Injection DEF c
<1> QED BY <1>5 DEF Surjection, f, c

LEMMA AscendingIs ==
  ASSUME NEW S \in SUBSET Nat, IsFiniteSet(S)
  PROVE  /\ Ascending(S) \in Seq(S) /\ Len(Ascending(S)) = Cardinality(S)
         /\ Ascending(S) \in [1..Cardinality(S) -> S] /\ Cardinality(S) \in Nat
         /\ \A i \in 1..Cardinality(S) : RankIn(S, Ascending(S)[i]) = i
<1> DEFINE c == Cardinality(S)
<1>1. c \in Nat
  BY FS_CardinalityType
<1>2. ASSUME NEW i \in 1..c PROVE Ascending(S)[i] \in S /\ RankIn(S, Ascending(S)[i]) = i
  <2>1. \E n \in S : RankIn(S, n) = i
    BY RankOnto
  <2>2. Ascending(S)[i] = CHOOSE n \in S : RankIn(S, n) = i
    BY DEF Ascending, RankIn, UpTo
  <2> QED BY <2>1, <2>2
<1>4. Ascending(S) \in [1..c -> S]
  <2> DEFINE nth(i) == CHOOSE n \in S : RankIn(S, n) = i
             s == [i \in 1..c |-> nth(i)]
  <2>1. Ascending(S) = s
    BY DEF Ascending, RankIn, UpTo
  <2> HIDE DEF nth, c
  <2>2. \A i \in 1..c : s[i] = nth(i)
    OBVIOUS
  <2>3. \A i \in 1..c : nth(i) \in S
    BY <1>2, <2>1, <2>2
  <2> QED BY <2>1, <2>3
<1> HIDE DEF c
<1> QED BY <1>1, <1>2, <1>4 DEF c

\* A sequence that lists S by rank is the one.
LEMMA AscendingUnique ==
  ASSUME NEW S \in SUBSET Nat, IsFiniteSet(S), NEW s \in [1..Cardinality(S) -> S],
         \A i \in 1..Cardinality(S) : RankIn(S, s[i]) = i
  PROVE  s = Ascending(S)
<1> DEFINE c == Cardinality(S)
           t == Ascending(S)
<1>1. t \in [1..c -> S] /\ \A i \in 1..c : RankIn(S, t[i]) = i
  BY AscendingIs
<1>2. c \in Nat /\ \A n \in S : RankIn(S, n) \in 1..c
  BY RankIs
<1>3. \A n \in S, k \in S : n < k <=> RankIn(S, n) < RankIn(S, k)
  BY RankIs
<1> HIDE DEF c, t
<1>4. ASSUME NEW i \in 1..c PROVE s[i] = t[i]
  <2>1. s[i] \in S /\ t[i] \in S /\ RankIn(S, s[i]) = i /\ RankIn(S, t[i]) = i
    BY <1>1 DEF c
  <2> DEFINE x == s[i]
             y == t[i]
  <2> HIDE DEF x, y
  <2>2. x \in S /\ y \in S /\ RankIn(S, x) = i /\ RankIn(S, y) = i /\ i \in Nat
    BY <1>2, <2>1 DEF x, y
  <2>3. ~(i < i)
    BY <2>2
  <2>4. ~(x < y) /\ ~(y < x)
    BY <1>3, <2>2, <2>3
  <2>5. x \in Nat /\ y \in Nat
    BY <2>2
  <2>6. x = y
    BY <2>4, <2>5
  <2> QED BY <2>6 DEF x, y
<1>5. s \in [1..c -> S]
  BY DEF c
<1>6. s = t
  <2>1. t \in [1..c -> S] /\ s \in [1..c -> S] /\ \A i \in 1..c : s[i] = t[i]
    BY <1>1, <1>4, <1>5
  <2> DEFINE D == 1..c
  <2> HIDE DEF D
  <2>2. t \in [D -> S] /\ s \in [D -> S] /\ \A i \in D : s[i] = t[i]
    BY <2>1 DEF D
  <2>3. t = [i \in D |-> t[i]] /\ s = [i \in D |-> s[i]]
    BY <2>2
  <2>4. [i \in D |-> t[i]] = [i \in D |-> s[i]]
    BY <2>2
  <2> QED BY <2>3, <2>4
<1> QED BY <1>6 DEF t

\* First those of S, then those of T.
LEMMA AscendingUnion ==
  ASSUME NEW S \in SUBSET Nat, NEW T \in SUBSET Nat, IsFiniteSet(S), IsFiniteSet(T),
         \A n \in S, k \in T : n < k
  PROVE  /\ Ascending(S \cup T) = Ascending(S) \o Ascending(T)
         /\ IsFiniteSet(S \cup T) /\ Cardinality(S \cup T) = Cardinality(S) + Cardinality(T)
<1> DEFINE U == S \cup T
           a == Cardinality(S)
           b == Cardinality(T)
           s == Ascending(S)
           t == Ascending(T)
           u == s \o t
<1>1. /\ s \in Seq(S) /\ Len(s) = a /\ s \in [1..a -> S] /\ a \in Nat
      /\ \A i \in 1..a : RankIn(S, s[i]) = i
  BY AscendingIs
<1>2. /\ t \in Seq(T) /\ Len(t) = b /\ t \in [1..b -> T] /\ b \in Nat
      /\ \A i \in 1..b : RankIn(T, t[i]) = i
  BY AscendingIs
<1>3. S \cap T = {}
  <2> SUFFICES ASSUME NEW n \in S, n \in T PROVE FALSE
    OBVIOUS
  <2> QED OBVIOUS
<1>4. IsFiniteSet(U) /\ Cardinality(U) = a + b /\ U \in SUBSET Nat
  <2>1. Cardinality(S \cap T) = 0
    BY <1>3, FS_EmptySet
  <2>2. IsFiniteSet(S \cup T) /\ Cardinality(S \cup T) = a + b - Cardinality(S \cap T)
    BY FS_Union
  <2> HIDE DEF a, b
  <2> QED BY <1>1, <1>2, <2>1, <2>2
<1>5. \A n \in S : UpTo(U, n) = UpTo(S, n)
  <2> TAKE n \in S
  <2>1. \A k \in T : ~(k <= n)
    <3> TAKE k \in T
    <3>1. n \in Nat /\ k \in Nat /\ n < k
      OBVIOUS
    <3> QED BY <3>1
  <2> QED BY <2>1 DEF UpTo
<1>6. \A n \in T : RankIn(U, n) = a + RankIn(T, n)
  <2> TAKE n \in T
  <2>0. \A k \in S : k <= n
    <3> TAKE k \in S
    <3>1. n \in Nat /\ k \in Nat /\ k < n
      OBVIOUS
    <3> QED BY <3>1
  <2>1. UpTo(U, n) = S \cup UpTo(T, n)
    BY <2>0 DEF UpTo
  <2>2. IsFiniteSet(UpTo(T, n)) /\ RankIn(T, n) \in Nat
    BY FS_Subset, FS_CardinalityType DEF UpTo, RankIn
  <2>3. S \cap UpTo(T, n) = {}
    BY <1>3 DEF UpTo
  <2>4. Cardinality(S \cap UpTo(T, n)) = 0
    BY <2>3, FS_EmptySet
  <2>5. Cardinality(S \cup UpTo(T, n)) = a + RankIn(T, n) - Cardinality(S \cap UpTo(T, n))
    BY <2>2, FS_Union DEF RankIn
  <2>6. RankIn(U, n) = a + RankIn(T, n) - 0
    BY <2>1, <2>4, <2>5 DEF RankIn
  <2> HIDE DEF a
  <2> QED BY <1>1, <2>2, <2>6
<1>7. /\ \A i \in 1..a : u[i] = s[i]
      /\ \A i \in (a + 1)..(a + b) : u[i] = t[i - a] /\ i - a \in 1..b
      /\ Len(u) = a + b /\ u \in Seq(U)
  <2>1. s \in Seq(U) /\ t \in Seq(U)
    BY <1>1, <1>2
  <2> HIDE DEF s, t, U, a, b
  <2> QED BY <1>1, <1>2, <2>1
<1>8. u \in [1..(a + b) -> U]
  <2> HIDE DEF u, U, a, b
  <2> QED BY <1>1, <1>2, <1>7
<1> HIDE DEF u
<1>9. ASSUME NEW i \in 1..(a + b) PROVE RankIn(U, u[i]) = i
  <2>1. CASE i \in 1..a
    <3>1. u[i] = s[i] /\ s[i] \in S
      BY <1>1, <1>7, <2>1
    <3> HIDE DEF U, s, a
    <3> QED BY <1>1, <1>5, <2>1, <3>1 DEF RankIn
  <2>2. CASE i \in (a + 1)..(a + b)
    <3>1. u[i] = t[i - a] /\ i - a \in 1..b
      BY <1>7, <2>2
    <3>2. t[i - a] \in T /\ RankIn(T, t[i - a]) = i - a
      BY <1>2, <3>1
    <3> HIDE DEF U, s, t, a, b
    <3>3. RankIn(U, u[i]) = a + (i - a)
      BY <1>6, <3>1, <3>2
    <3> QED BY <1>1, <3>3
  <2>3. i \in 1..a \/ i \in (a + 1)..(a + b)
    <3> HIDE DEF a, b
    <3> QED BY <1>1, <1>2
  <2> QED BY <2>1, <2>2, <2>3
<1> HIDE DEF U
<1>10. u = Ascending(U)
  BY <1>4, <1>8, <1>9, AscendingUnique
<1> QED BY <1>4, <1>10 DEF u, U

\* The first j numbers are those up to the j-th.
LEMMA FirstOnes ==
  ASSUME NEW S \in SUBSET Nat, IsFiniteSet(S), NEW j \in 1..Cardinality(S)
  PROVE  SubSeq(Ascending(S), 1, j) = Ascending(UpTo(S, Ascending(S)[j]))
<1> DEFINE p == Ascending(S)[j]
           A == UpTo(S, p)
           B == S \ A
<1>1. p \in S /\ Cardinality(A) = j /\ j \in Nat
  BY AscendingIs DEF RankIn
<1>2. A \in SUBSET Nat /\ B \in SUBSET Nat /\ S = A \cup B
  BY DEF UpTo
<1>3. IsFiniteSet(A) /\ IsFiniteSet(B)
  BY <1>2, FS_Subset
<1>4. \A n \in A, k \in B : n < k
  <2> SUFFICES ASSUME NEW n \in A, NEW k \in B PROVE n < k
    OBVIOUS
  <2>1. n \in Nat /\ k \in Nat /\ p \in Nat /\ n <= p /\ ~(k <= p)
    BY <1>1 DEF UpTo
  <2> QED BY <2>1
<1> HIDE DEF A, B, p
<1>5. Ascending(S) = Ascending(A) \o Ascending(B)
  BY <1>2, <1>3, <1>4, AscendingUnion
<1>6. Ascending(A) \in Seq(A) /\ Len(Ascending(A)) = j /\ Ascending(B) \in Seq(B)
  BY <1>1, <1>2, <1>3, AscendingIs
<1>7. Ascending(A) \in Seq(S) /\ Ascending(B) \in Seq(S)
  BY <1>2, <1>6
<1>8. SubSeq(Ascending(A) \o Ascending(B), 1, j) = Ascending(A)
  BY <1>1, <1>6, <1>7, SubSeqOfConcat1, SubSeqFull
<1> QED BY <1>5, <1>8 DEF A, p

\* The numbers from the j-th on.
LEMMA LastOnes ==
  ASSUME NEW S \in SUBSET Nat, IsFiniteSet(S), NEW j \in 1..Cardinality(S)
  PROVE  SubSeq(Ascending(S), j, Cardinality(S)) =
           Ascending({n \in S : Ascending(S)[j] <= n})
<1> DEFINE p == Ascending(S)[j]
           B == {n \in S : p <= n}
           A == S \ B
           c == Cardinality(S)
<1>1. p \in S /\ Cardinality(UpTo(S, p)) = j /\ j \in Nat
  BY AscendingIs DEF RankIn
<1>2. A \in SUBSET Nat /\ B \in SUBSET Nat /\ S = A \cup B
  OBVIOUS
<1>3. IsFiniteSet(A) /\ IsFiniteSet(B)
  BY <1>2, FS_Subset
<1>4. \A n \in A, k \in B : n < k
  <2> SUFFICES ASSUME NEW n \in A, NEW k \in B PROVE n < k
    OBVIOUS
  <2>1. n \in Nat /\ k \in Nat /\ p \in Nat /\ ~(p <= n) /\ p <= k
    BY <1>1
  <2> QED BY <2>1
<1>5. Cardinality(A) = j - 1
  <2>1. A = UpTo(S, p) \ {p}
    <3>1. ASSUME NEW n \in S PROVE n \in A <=> n \in UpTo(S, p) \ {p}
      <4>1. n \in Nat /\ p \in Nat
        BY <1>1
      <4> HIDE DEF p
      <4> QED BY <4>1 DEF UpTo
    <3> QED BY <3>1 DEF UpTo
  <2>2. p \in UpTo(S, p)
    <3>1. p \in Nat
      BY <1>1
    <3>2. p <= p
      BY <3>1
    <3> QED BY <1>1, <3>2 DEF UpTo
  <2>3. IsFiniteSet(UpTo(S, p))
    BY FS_Subset DEF UpTo
  <2>4. Cardinality(UpTo(S, p) \ {p}) = Cardinality(UpTo(S, p)) - 1
    BY <2>2, <2>3, FS_RemoveElement
  <2> QED BY <1>1, <2>1, <2>4
<1> HIDE DEF A, B, p
<1>6. /\ Ascending(S) = Ascending(A) \o Ascending(B)
      /\ Cardinality(S) = Cardinality(A) + Cardinality(B)
  BY <1>2, <1>3, <1>4, AscendingUnion
<1>7. /\ Ascending(A) \in Seq(A) /\ Len(Ascending(A)) = j - 1 /\ Ascending(B) \in Seq(B)
      /\ Len(Ascending(B)) = Cardinality(B) /\ Cardinality(B) \in Nat
  BY <1>2, <1>3, <1>5, AscendingIs
<1>8. Ascending(A) \in Seq(S) /\ Ascending(B) \in Seq(S)
  BY <1>2, <1>7
<1>9. c = j - 1 + Cardinality(B)
  BY <1>5, <1>6
<1> HIDE DEF c
<1>10. SubSeq(Ascending(A) \o Ascending(B), j, c) = Ascending(B)
  <2> DEFINE s == Ascending(A)
             t == Ascending(B)
             b == Cardinality(B)
             u == SubSeq(s \o t, j, c)
  <2> HIDE DEF s, t, b
  <2>1. /\ s \in Seq(S) /\ t \in Seq(S) /\ Len(s) = j - 1 /\ Len(t) = b /\ b \in Nat
        /\ c = j - 1 + b
    BY <1>7, <1>8, <1>9 DEF s, t, b
  <2>2. Len(s \o t) = c /\ \A i \in j..c : (s \o t)[i] = t[i - (j - 1)]
    <3>1. Len(s \o t) = Len(s) + Len(t)
      BY <2>1, ConcatProperties
    <3>2. \A i \in (Len(s) + 1)..(Len(s) + Len(t)) : (s \o t)[i] = t[i - Len(s)]
      BY <2>1
    <3>3. (Len(s) + 1)..(Len(s) + Len(t)) = j..c /\ Len(s) + Len(t) = c
      <4>1. j - 1 + 1 = j
        BY <1>1
      <4> QED BY <2>1, <4>1
    <3>4. \A i \in j..c : (s \o t)[i] = t[i - Len(s)]
      BY <3>2, <3>3
    <3>5. Len(s) = j - 1
      BY <2>1
    <3> QED BY <3>1, <3>3, <3>4, <3>5
  <2>3. s \o t \in Seq(S) /\ c \in Nat
    BY <1>1, <2>1
  <2>4. Len(u) = b /\ u \in Seq(S) /\ \A i \in 1..b : u[i] = (s \o t)[j + i - 1]
    BY <1>1, <2>1, <2>2, <2>3
  <2> HIDE DEF u
  <2>5. ASSUME NEW i \in 1..b PROVE u[i] = t[i]
    <3>1. j + i - 1 \in j..c /\ j + i - 1 - (j - 1) = i
      BY <1>1, <2>1
    <3>2. u[i] = (s \o t)[j + i - 1]
      BY <2>4
    <3>3. (s \o t)[j + i - 1] = t[j + i - 1 - (j - 1)]
      BY <2>2, <3>1
    <3> QED BY <3>1, <3>2, <3>3
  <2> QED BY <2>1, <2>4, <2>5, SeqEqual DEF u, s, t, b
<1> QED BY <1>6, <1>10 DEF B, p, c

\* The lines in a list of places.
Lines(s, places) == [i \in DOMAIN places |-> s[places[i]]]

LEMMA LinesConcat ==
  ASSUME NEW s, NEW T, NEW p \in Seq(T), NEW q \in Seq(T), NEW U, \A x \in T : s[x] \in U
  PROVE  Lines(s, p \o q) = Lines(s, p) \o Lines(s, q)
<1> DEFINE m == Len(p)
           n == Len(q)
           a == Lines(s, p)
           b == Lines(s, q)
           c == Lines(s, p \o q)
<1>0. ASSUME NEW r \in Seq(T)
      PROVE  /\ Lines(s, r) \in Seq(U) /\ Len(Lines(s, r)) = Len(r) /\ Len(r) \in Nat
             /\ \A i \in 1..Len(r) : Lines(s, r)[i] = s[r[i]]
  <2> DEFINE k == Len(r)
             l == Lines(s, r)
  <2> HIDE DEF m, n, a, b, c
  <2>1. k \in Nat /\ DOMAIN r = 1..k /\ \A i \in 1..k : r[i] \in T
    BY LenProperties, ElementOfSeq
  <2>2. l = [i \in 1..k |-> s[r[i]]]
    BY <2>1 DEF Lines
  <2> HIDE DEF k, l
  <2>3. l \in [1..k -> U] /\ \A i \in 1..k : l[i] = s[r[i]]
    BY <2>1, <2>2
  <2>4. l \in Seq(U) /\ Len(l) = k
    BY <2>1, <2>3
  <2> QED BY <2>1, <2>3, <2>4 DEF k, l
<1>1. /\ a \in Seq(U) /\ Len(a) = m /\ m \in Nat
      /\ \A i \in 1..m : a[i] = s[p[i]]
  BY <1>0
<1>2. /\ b \in Seq(U) /\ Len(b) = n /\ n \in Nat
      /\ \A i \in 1..n : b[i] = s[q[i]]
  BY <1>0
<1>3. /\ p \o q \in Seq(T) /\ Len(p \o q) = m + n
      /\ \A i \in 1..m : (p \o q)[i] = p[i]
      /\ \A i \in (m + 1)..(m + n) : (p \o q)[i] = q[i - m]
  OBVIOUS
<1>4. c \in Seq(U) /\ Len(c) = m + n /\ \A i \in 1..(m + n) : c[i] = s[(p \o q)[i]]
  <2> DEFINE r == p \o q
  <2>1. r \in Seq(T) /\ Len(r) = m + n
    BY <1>3
  <2> HIDE DEF r, m, n
  <2>2. /\ Lines(s, r) \in Seq(U) /\ Len(Lines(s, r)) = Len(r)
        /\ \A i \in 1..Len(r) : Lines(s, r)[i] = s[r[i]]
    BY <1>0, <2>1
  <2> QED BY <2>1, <2>2 DEF r
<1> HIDE DEF m, n, a, b, c
<1>5. /\ a \o b \in Seq(U) /\ Len(a \o b) = m + n
      /\ \A i \in 1..m : (a \o b)[i] = a[i]
      /\ \A i \in (m + 1)..(m + n) : (a \o b)[i] = b[i - m]
  <2>1. /\ a \o b \in Seq(U) /\ Len(a \o b) = Len(a) + Len(b)
        /\ \A i \in 1..Len(a) : (a \o b)[i] = a[i]
        /\ \A i \in (Len(a) + 1)..(Len(a) + Len(b)) : (a \o b)[i] = b[i - Len(a)]
    <3>1. a \in Seq(U) /\ b \in Seq(U)
      BY <1>1, <1>2
    <3> QED BY <3>1
  <2> QED BY <1>1, <1>2, <2>1
<1>6. ASSUME NEW i \in 1..(m + n) PROVE c[i] = (a \o b)[i]
  <2>1. CASE i \in 1..m
    <3>1. c[i] = s[(p \o q)[i]]
      BY <1>4
    <3> QED BY <1>1, <1>3, <1>5, <2>1, <3>1
  <2>2. CASE i \in (m + 1)..(m + n)
    <3>1. i - m \in 1..n
      BY <1>1, <1>2, <2>2
    <3>2. c[i] = s[(p \o q)[i]]
      BY <1>4
    <3>3. (p \o q)[i] = q[i - m] /\ (a \o b)[i] = b[i - m]
      BY <1>3, <1>5, <2>2
    <3> QED BY <1>2, <3>1, <3>2, <3>3
  <2>3. i \in 1..m \/ i \in (m + 1)..(m + n)
    BY <1>1, <1>2
  <2> QED BY <2>1, <2>2, <2>3
<1>7. c = a \o b
  BY <1>4, <1>5, <1>6, SeqEqual
<1> QED BY <1>7 DEF a, b, c

\* Lines do not change where the index grows.
LEMMA LinesStay ==
  ASSUME NEW s, NEW t, NEW T, NEW p \in Seq(T), \A n \in T : s[n] = t[n]
  PROVE  Lines(s, p) = Lines(t, p)
<1>1. DOMAIN p = 1..Len(p) /\ \A i \in 1..Len(p) : p[i] \in T
  BY LenProperties, ElementOfSeq
<1> QED BY <1>1 DEF Lines

-----------------------------------------------------------------------------
(* What a page shows.                                                      *)

\* The places of a level between two.
Level(s, from, to) == {n \in from + 1..to : s[n][3] = 1}
Of(s, from, to) == Lines(s, Ascending(Level(s, from, to)))

LEMMA LevelIs ==
  ASSUME NEW s, NEW from \in Nat, NEW to \in Nat
  PROVE  /\ Level(s, from, to) \in SUBSET Nat /\ IsFiniteSet(Level(s, from, to))
         /\ Level(s, from, to) \subseteq from + 1..to
         /\ Ascending(Level(s, from, to)) \in Seq(Level(s, from, to))
<1>1. Level(s, from, to) \subseteq from + 1..to /\ from + 1..to \subseteq Nat
  BY DEF Level
<1>2. IsFiniteSet(from + 1..to)
  <2>1. from + 1 \in Int /\ to \in Int
    OBVIOUS
  <2> QED BY <2>1, FS_Interval
<1>3. Level(s, from, to) \in SUBSET Nat /\ IsFiniteSet(Level(s, from, to))
  BY <1>1, <1>2, FS_Subset
<1> QED BY <1>1, <1>3, AscendingIs

\* Two stretches that meet.
LEMMA OfMeets ==
  ASSUME NEW s, NEW i \in Nat, NEW j \in Nat, NEW k \in Nat, i <= j, j <= k
  PROVE  Of(s, i, k) = Of(s, i, j) \o Of(s, j, k)
<1> DEFINE A == Level(s, i, j)
           B == Level(s, j, k)
<1>1. /\ A \in SUBSET Nat /\ IsFiniteSet(A) /\ A \subseteq i + 1..j
      /\ Ascending(A) \in Seq(A)
  BY LevelIs
<1>2. /\ B \in SUBSET Nat /\ IsFiniteSet(B) /\ B \subseteq j + 1..k
      /\ Ascending(B) \in Seq(B)
  BY LevelIs
<1>3. Level(s, i, k) = A \cup B
  <2>1. \A n \in Nat : n \in i + 1..k <=> n \in i + 1..j \/ n \in j + 1..k
    OBVIOUS
  <2>2. i + 1..k \subseteq Nat /\ i + 1..j \subseteq Nat /\ j + 1..k \subseteq Nat
    OBVIOUS
  <2> QED BY <2>1, <2>2 DEF Level
<1> HIDE DEF A, B
<1>4. \A n \in A, m \in B : n < m
  <2> SUFFICES ASSUME NEW n \in A, NEW m \in B PROVE n < m
    OBVIOUS
  <2>1. n \in i + 1..j /\ m \in j + 1..k
    BY <1>1, <1>2
  <2> QED BY <2>1
<1>5. Ascending(A \cup B) = Ascending(A) \o Ascending(B)
  BY <1>1, <1>2, <1>4, AscendingUnion
<1>6. Ascending(A) \in Seq(Nat) /\ Ascending(B) \in Seq(Nat)
  BY <1>1, <1>2, SeqMonotonic
<1> DEFINE U == {s[n] : n \in Nat}
<1>7. Lines(s, Ascending(A) \o Ascending(B)) = Lines(s, Ascending(A)) \o Lines(s, Ascending(B))
  <2>1. \A x \in Nat : s[x] \in U
    OBVIOUS
  <2> HIDE DEF U
  <2> QED BY <1>6, <2>1, LinesConcat
<1> QED BY <1>3, <1>5, <1>7 DEF Of, A, B

LEMMA OfStays ==
  ASSUME NEW s, NEW t, NEW i \in Nat, NEW j \in Nat, \A n \in 1..j : s[n] = t[n]
  PROVE  Of(s, i, j) = Of(t, i, j)
<1>1. Level(s, i, j) = Level(t, i, j)
  <2>1. i + 1..j \subseteq 1..j
    OBVIOUS
  <2> QED BY <2>1 DEF Level
<1>2. /\ Ascending(Level(s, i, j)) \in Seq(Level(s, i, j))
      /\ \A n \in Level(s, i, j) : s[n] = t[n]
  <2>1. i + 1..j \subseteq 1..j
    OBVIOUS
  <2> QED BY <2>1, LevelIs
<1> QED BY <1>1, <1>2, LinesStay DEF Of

\* What is in the index does not change as it grows.
LEMMA OfGrows ==
  ASSUME NEW s, NEW t, NEW i \in Nat, NEW j \in Nat, NEW m \in Nat, j <= m,
         \A n \in 1..m : t[n] = s[n]
  PROVE  Of(t, i, j) = Of(s, i, j)
<1>1. \A n \in 1..j : t[n] = s[n]
  OBVIOUS
<1> QED BY <1>1, OfStays

LEMMA OfNothing ==
  ASSUME NEW s, NEW i \in Nat, NEW j \in Nat
  PROVE  << >> \o Of(s, i, j) = Of(s, i, j) /\ Of(s, i, j) \o << >> = Of(s, i, j)
<1> DEFINE p == Ascending(Level(s, i, j))
           n == Len(p)
           U == {s[x] : x \in Nat}
           l == Of(s, i, j)
<1>1. p \in Seq(Level(s, i, j)) /\ Level(s, i, j) \in SUBSET Nat
  BY LevelIs
<1>2. n \in Nat /\ DOMAIN p = 1..n /\ \A k \in 1..n : p[k] \in Nat
  BY <1>1, LenProperties, ElementOfSeq
<1>3. l = [k \in 1..n |-> s[p[k]]]
  BY <1>2 DEF Of, Lines
<1> HIDE DEF l, p, n
<1>4. l \in [1..n -> U]
  BY <1>2, <1>3
<1> HIDE DEF U
<1>5. l \in Seq(U)
  BY <1>2, <1>4
<1>6. << >> \o l = l /\ l \o << >> = l
  BY <1>5, ConcatEmptySeq
<1> QED BY <1>6 DEF l

\* A page that goes on, and one that goes back.
PageOn(s, from, to, page, next) ==
  LET all == Ascending(Level(s, from, to))
  IN /\ page = SubSeq(all, 1, IF Len(all) < Limit THEN Len(all) ELSE Limit)
     /\ next = IF page = << >> THEN to ELSE page[Len(page)]
PageBefore(s, to, page, before) ==
  LET all == Ascending(Level(s, 0, to))
  IN /\ page = SubSeq(all, IF Len(all) < Limit THEN 1 ELSE Len(all) - Limit + 1, Len(all))
     /\ before = IF page = << >> THEN to ELSE Head(page) - 1

\* The first lines behind a place, and where the next page begins.
LEMMA PageOnIs ==
  ASSUME NEW s, NEW from \in Nat, NEW to \in Nat, from <= to, NEW page, NEW next,
         PageOn(s, from, to, page, next)
  PROVE  next \in from..to /\ Lines(s, page) = Of(s, from, next)
<1> DEFINE S == Level(s, from, to)
           c == Cardinality(S)
           all == Ascending(S)
<1>0. /\ all = Ascending(Level(s, from, to))
      /\ page = SubSeq(all, 1, IF Len(all) < Limit THEN Len(all) ELSE Limit)
      /\ next = IF page = << >> THEN to ELSE page[Len(page)]
  BY DEF PageOn
<1> HIDE DEF all
<1> USE <1>0
<1>1. S \in SUBSET Nat /\ IsFiniteSet(S) /\ S \subseteq from + 1..to
  BY LevelIs
<1>2. all \in Seq(S) /\ Len(all) = c /\ c \in Nat /\ all \in [1..c -> S]
  BY <1>1, AscendingIs
<1>3. Limit \in Nat /\ Limit >= 1
  BY MonitorConstants
<1>4. CASE c = 0
  <2>1. all = << >>
    <3> HIDE DEF c, S
    <3> QED BY <1>2, <1>4
  <2>2. page = << >> /\ next = to
    BY <1>3, <2>1
  <2>3. Of(s, from, next) = Lines(s, << >>)
    <3>1. Of(s, from, to) = Lines(s, all)
      BY DEF Of
    <3> QED BY <2>1, <2>2, <3>1
  <2>4. next \in from..to
    BY <2>2
  <2> QED BY <2>2, <2>3, <2>4
<1>5. CASE c # 0
  <2> DEFINE j == IF Len(all) < Limit THEN Len(all) ELSE Limit
             p == all[j]
  <2> HIDE DEF S, c
  <2>1. j \in 1..c /\ page = SubSeq(all, 1, j) /\ j \in Nat
    BY <1>2, <1>3, <1>5
  <2> HIDE DEF j
  <2>2. page = Ascending(UpTo(S, p)) /\ p \in S /\ p \in Nat
    BY <1>1, <1>2, <2>1, FirstOnes DEF c, S
  <2>3. Len(page) = j /\ page[j] = p /\ page \in Seq(S)
    <3>1. j <= Len(all)
      BY <1>2, <2>1
    <3>2. \A i \in 1..j : all[i] \in S
      BY <1>2, <2>1
    <3> HIDE DEF p
    <3>3. /\ SubSeq(all, 1, j) \in Seq(S) /\ Len(SubSeq(all, 1, j)) = j
          /\ \A i \in 1..j : SubSeq(all, 1, j)[i] = all[i]
      BY <1>2, <2>1, <3>1
    <3>4. j \in 1..j
      BY <2>1
    <3> QED BY <2>1, <3>3, <3>4 DEF p
  <2> HIDE DEF p
  <2>4. next = p
    <3>1. page # << >>
      BY <2>1, <2>3
    <3> QED BY <2>3, <3>1
  <2>5. p \in from + 1..to
    BY <1>1, <2>2
  <2>6. UpTo(S, p) = Level(s, from, p)
    <3>1. ASSUME NEW n \in Nat PROVE n \in UpTo(S, p) <=> n \in Level(s, from, p)
      BY <2>5 DEF UpTo, S, Level
    <3>2. UpTo(S, p) \subseteq Nat
      BY <1>1 DEF UpTo
    <3>3. Level(s, from, p) \subseteq Nat
      BY <2>2, LevelIs
    <3> QED BY <3>1, <3>2, <3>3
  <2>7. next \in from..to
    <3>1. p \in Nat /\ from + 1 <= p /\ p <= to
      BY <2>2, <2>5
    <3>2. p \in from..to
      BY <3>1
    <3> QED BY <2>4, <3>2
  <2> QED BY <2>2, <2>4, <2>6, <2>7 DEF Of
<1> QED BY <1>4, <1>5

\* The last lines before a place, and where the page before begins.
LEMMA PageBeforeIs ==
  ASSUME NEW s, NEW to \in Nat, NEW page, NEW before, PageBefore(s, to, page, before)
  PROVE  before \in 0..to /\ Lines(s, page) = Of(s, before, to)
<1> DEFINE S == Level(s, 0, to)
           c == Cardinality(S)
           all == Ascending(S)
<1>0. /\ all = Ascending(Level(s, 0, to))
      /\ page = SubSeq(all, IF Len(all) < Limit THEN 1 ELSE Len(all) - Limit + 1, Len(all))
      /\ before = IF page = << >> THEN to ELSE Head(page) - 1
  BY DEF PageBefore
<1> HIDE DEF all
<1> USE <1>0
<1>1. S \in SUBSET Nat /\ IsFiniteSet(S) /\ S \subseteq 0 + 1..to
  BY LevelIs
<1>2. all \in Seq(S) /\ Len(all) = c /\ c \in Nat /\ all \in [1..c -> S]
  BY <1>1, AscendingIs
<1>3. Limit \in Nat /\ Limit >= 1
  BY MonitorConstants
<1>4. CASE c = 0
  <2>1. all = << >>
    <3> HIDE DEF c, S
    <3> QED BY <1>2, <1>4
  <2>2. page = << >> /\ before = to
    <3>1. Len(all) = 0
      BY <2>1
    <3>2. \A i \in {1, Len(all) - Limit + 1} : SubSeq(<< >>, 1, 0) = << >>
      OBVIOUS
    <3>3. Len(all) < Limit
      BY <1>3, <3>1
    <3>4. page = SubSeq(<< >>, 1, 0)
      BY <2>1, <3>1, <3>3
    <3>5. SubSeq(<< >>, 1, 0) = << >>
      OBVIOUS
    <3> QED BY <3>4, <3>5
  <2>3. Of(s, before, to) = Lines(s, << >>)
    <3>1. Level(s, to, to) = {}
      <4>1. to + 1..to = {}
        OBVIOUS
      <4> QED BY <4>1 DEF Level
    <3>2. DOMAIN Ascending({}) = {}
      BY FS_EmptySet, AscendingIs
    <3>3. DOMAIN << >> = {}
      OBVIOUS
    <3>4. Lines(s, Ascending({})) = Lines(s, << >>)
      BY <3>2, <3>3 DEF Lines
    <3> QED BY <2>2, <3>1, <3>4 DEF Of
  <2>4. before \in 0..to
    BY <2>2
  <2> QED BY <2>2, <2>3, <2>4
<1>5. CASE c # 0
  <2> DEFINE j == IF Len(all) < Limit THEN 1 ELSE Len(all) - Limit + 1
             p == all[j]
             B == {n \in S : p <= n}
  <2> HIDE DEF S, c
  <2>1. j \in 1..c /\ page = SubSeq(all, j, c) /\ j \in Nat
    <3>1. j \in 1..c /\ j \in Nat
      BY <1>2, <1>3, <1>5
    <3>2. page = SubSeq(all, j, Len(all))
      OBVIOUS
    <3> QED BY <1>2, <3>1, <3>2
  <2> HIDE DEF j
  <2>2. page = Ascending(B) /\ p \in S /\ p \in Nat
    <3>1. SubSeq(Ascending(S), j, c) = Ascending({n \in S : Ascending(S)[j] <= n})
      BY <1>1, <2>1, LastOnes DEF c
    <3>2. all = Ascending(S)
      BY DEF S
    <3> QED BY <1>1, <1>2, <2>1, <3>1, <3>2
  <2>3. Head(page) = p /\ page # << >>
    <3>1. SubSeq(all, j, c) # << >> /\ Head(SubSeq(all, j, c)) = all[j]
      <4> DEFINE t == SubSeq(all, j, c)
      <4>1. /\ t \in Seq(S) /\ Len(t) = c - j + 1
            /\ \A i \in 1..(c - j + 1) : t[i] = all[j + i - 1]
        BY <1>2, <2>1
      <4> HIDE DEF t, p
      <4>2. 1 \in 1..(c - j + 1) /\ j + 1 - 1 = j /\ Len(t) # 0
        BY <1>2, <2>1, <4>1
      <4>3. t # << >> /\ Head(t) = t[1]
        BY <4>1, <4>2
      <4>4. t[1] = all[j]
        BY <4>1, <4>2
      <4> QED BY <4>3, <4>4 DEF t
    <3> QED BY <2>1, <3>1
  <2>4. before = p - 1
    BY <2>3
  <2> HIDE DEF p
  <2>5. p \in 1..to
    <3>1. p \in 0 + 1..to
      BY <1>1, <2>2
    <3> QED BY <3>1
  <2>6. B = Level(s, p - 1, to)
    <3>1. p - 1 + 1 = p
      BY <2>2
    <3>2. ASSUME NEW n \in Nat PROVE n \in B <=> n \in Level(s, p - 1, to)
      BY <2>5, <3>1 DEF S, Level
    <3>3. B \subseteq Nat /\ Level(s, p - 1, to) \subseteq Nat
      <4>1. p - 1 \in Nat
        BY <2>5
      <4>2. Level(s, p - 1, to) \subseteq Nat
        BY <4>1, LevelIs
      <4> QED BY <1>1, <4>2
    <3> QED BY <3>2, <3>3
  <2>7. before \in 0..to
    <3>1. p - 1 \in 0..to
      BY <2>5
    <3> QED BY <2>4, <3>1
  <2> QED BY <2>2, <2>4, <2>6, <2>7 DEF Of
<1> QED BY <1>4, <1>5

-----------------------------------------------------------------------------
(* The files and what the index has of them.                               *)

Marks == UNION {{f} \X DOMAIN log[f] : f \in Logs}

DiskInv ==
  /\ log \in [Logs -> Seq(Levels)] /\ torn \in [Logs -> BOOLEAN]
  /\ there \in [Logs -> BOOLEAN] /\ copy \in [Logs -> 0..2]
  /\ \A f \in Logs : (there[f] => copy[f] # 0) /\ (torn[f] => log[f] # << >>)
  /\ Written <= MaxLines

\* Where an entry of the index comes from.
From(i, f, n) == lines[i] = <<f, n, log[f][n]>>

IndexInv ==
  /\ generation \in 0..generations /\ generations \in 0..MaxIndexes
  /\ streams \in [Logs -> (0..2) \X Nat] /\ latest \in [Logs -> Nat]
  /\ \A f \in Logs : streams[f][2] <= Complete(f) /\ latest[f] <= Complete(f)
  /\ lines \in Seq(Logs \X Nat \X Levels)
  /\ \A i \in 1..Len(lines) :
       \E f \in Logs : \E n \in 1..streams[f][2] : From(i, f, n)
  /\ \A i \in 1..Len(lines), k \in 1..Len(lines) :
       lines[i][1] = lines[k][1] /\ lines[i][2] = lines[k][2] => i = k
  /\ ~vanished => \A f \in Logs :
       /\ latest[f] = streams[f][2]
       /\ \A n \in 1..streams[f][2] : \E i \in 1..Len(lines) : From(i, f, n)

PagesInv ==
  /\ request \in [Endpoints -> SUBSET (Logs \X (1..2))]
  /\ cursor \in (0..generations) \X (0..MaxLines)
  /\ ends \in 0..MaxLines /\ {onward, vanished} \subseteq BOOLEAN
  /\ cursor[1] = generation /\ generation # 0 =>
       /\ cursor[2] <= Len(lines)
       /\ onward => seen = Of(lines, 0, cursor[2])
       /\ ~onward => /\ cursor[2] <= ends /\ ends <= Len(lines)
                     /\ seen = Of(lines, cursor[2], ends)

MonitorInv == DiskInv /\ IndexInv /\ PagesInv

LEMMA MarksAre ==
  ASSUME DiskInv
  PROVE  /\ IsFiniteSet(Marks) /\ Written = Cardinality(Marks) /\ Written \in Nat
         /\ \A f \in Logs : Len(log[f]) \in Nat /\ DOMAIN log[f] = 1..Len(log[f])
         /\ \A f \in Logs : Len(log[f]) <= Written
         /\ \A f \in Logs : \A n \in 1..Len(log[f]) : <<f, n>> \in Marks
<1>1. \A f \in Logs : Len(log[f]) \in Nat /\ DOMAIN log[f] = 1..Len(log[f])
  <2> TAKE f \in Logs
  <2>1. log[f] \in Seq(Levels)
    BY DEF DiskInv
  <2> HIDE DEF Levels
  <2> QED BY <2>1
<1> DEFINE g == [f \in Logs |-> {f} \X DOMAIN log[f]]
           all == {{f} \X DOMAIN log[f] : f \in Logs}
<1>2. IsFiniteSet(all)
  <2>1. g \in Surjection(Logs, all)
    BY DEF Surjection
  <2>2. IsFiniteSet(Logs)
    BY MonitorConstants
  <2> HIDE DEF g, all
  <2> QED BY <2>1, <2>2, FS_Surjection
<1>3. \A T \in all : IsFiniteSet(T)
  <2> TAKE T \in all
  <2>1. PICK f \in Logs : T = {f} \X DOMAIN log[f]
    OBVIOUS
  <2>2. IsFiniteSet(DOMAIN log[f])
    <3>1. 1 \in Int /\ Len(log[f]) \in Int
      BY <1>1
    <3> QED BY <1>1, <3>1, FS_Interval
  <2>3. IsFiniteSet({f})
    BY FS_Singleton
  <2>4. IsFiniteSet({f} \X DOMAIN log[f])
    BY <2>2, <2>3, FS_Product
  <2> QED BY <2>1, <2>4
<1>4. IsFiniteSet(Marks)
  <2> HIDE DEF all
  <2>1. IsFiniteSet(UNION all)
    BY <1>2, <1>3, FS_UNION
  <2> QED BY <2>1 DEF Marks, all
<1>5. Written = Cardinality(Marks) /\ Written \in Nat
  BY <1>4, FS_CardinalityType DEF Written, Marks
<1>6. \A f \in Logs : \A n \in 1..Len(log[f]) : <<f, n>> \in Marks
  BY <1>1 DEF Marks
<1>7. ASSUME NEW f \in Logs PROVE Len(log[f]) <= Written
  <2> DEFINE l == Len(log[f])
             h == [n \in 1..l |-> <<f, n>>]
  <2>1. l \in Nat /\ \A n \in 1..l : <<f, n>> \in Marks
    BY <1>1, <1>6
  <2> HIDE DEF l
  <2>2. h \in Injection(1..l, Marks)
    <3>1. h \in [1..l -> Marks]
      BY <2>1
    <3>2. \A n, k \in 1..l : h[n] = h[k] => n = k
      OBVIOUS
    <3> QED BY <3>1, <3>2 DEF Injection, IsInjective
  <2> HIDE DEF h
  <2>3. Cardinality(1..l) <= Cardinality(Marks)
    BY <1>4, <2>2, FS_Injection
  <2>4. Cardinality(1..l) = l
    <3>1. 1 \in Int /\ l \in Int
      BY <2>1
    <3>2. Cardinality(1..l) = IF 1 > l THEN 0 ELSE l - 1 + 1
      BY <3>1, FS_Interval
    <3> QED BY <2>1, <3>2
  <2> QED BY <1>5, <2>3, <2>4 DEF l
<1> QED BY <1>1, <1>4, <1>5, <1>6, <1>7

LEMMA CompleteIs ==
  ASSUME DiskInv, NEW f \in Logs
  PROVE  /\ Complete(f) \in Nat /\ Complete(f) <= Len(log[f]) /\ Len(log[f]) \in Nat
         /\ Complete(f) <= MaxLines /\ MaxLines \in Nat
<1>1. Len(log[f]) \in Nat /\ Len(log[f]) <= Written /\ Written \in Nat
  BY MarksAre
<1>2. Written <= MaxLines /\ MaxLines \in Nat
  BY MonitorConstants DEF DiskInv
<1>3. torn[f] => Len(log[f]) # 0
  <2>1. log[f] \in Seq(Levels) /\ (torn[f] => log[f] # << >>)
    BY DEF DiskInv
  <2> HIDE DEF Levels
  <2> QED BY <2>1
<1> DEFINE l == Len(log[f])
<1>4. l \in Nat /\ l <= Written /\ (torn[f] => l # 0)
  BY <1>1, <1>3
<1>5. Complete(f) = l - (IF torn[f] THEN 1 ELSE 0)
  BY DEF Complete
<1> HIDE DEF l
<1>6. CASE torn[f]
  <2>1. Complete(f) = l - 1 /\ l # 0
    BY <1>4, <1>5, <1>6
  <2>2. Complete(f) \in Nat /\ Complete(f) <= l
    BY <1>4, <2>1
  <2> QED BY <1>1, <1>2, <1>4, <2>2 DEF l
<1>7. CASE ~torn[f]
  <2>1. Complete(f) = l - 0
    BY <1>5, <1>7
  <2>2. Complete(f) \in Nat /\ Complete(f) <= l
    BY <1>4, <2>1
  <2> QED BY <1>1, <1>2, <1>4, <2>2 DEF l
<1> QED BY <1>6, <1>7

\* The index has no more lines than the files.
LEMMA LinesBound ==
  DiskInv /\ IndexInv => Len(lines) \in Nat /\ Len(lines) <= MaxLines
<1> SUFFICES ASSUME DiskInv, IndexInv PROVE Len(lines) \in Nat /\ Len(lines) <= MaxLines
  OBVIOUS
<1> DEFINE m == Len(lines)
           h == [i \in 1..m |-> <<lines[i][1], lines[i][2]>>]
<1>1. m \in Nat
  BY DEF IndexInv
<1>2. ASSUME NEW i \in 1..m PROVE <<lines[i][1], lines[i][2]>> \in Marks
  <2>1. PICK f \in Logs : \E n \in 1..streams[f][2] : From(i, f, n)
    BY <1>2 DEF IndexInv
  <2>2. PICK n \in 1..streams[f][2] : From(i, f, n)
    BY <2>1
  <2>3. streams[f][2] <= Complete(f) /\ streams[f][2] \in Nat
    BY DEF IndexInv
  <2>4. n \in 1..Len(log[f])
    BY <2>2, <2>3, CompleteIs
  <2>5. lines[i][1] = f /\ lines[i][2] = n
    BY <2>2 DEF From
  <2> QED BY <2>4, <2>5, MarksAre
<1>3. ASSUME NEW i \in 1..m, NEW k \in 1..m, lines[i][1] = lines[k][1],
             lines[i][2] = lines[k][2]
      PROVE  i = k
  BY <1>3 DEF IndexInv
<1> HIDE DEF m
<1>4. h \in Injection(1..m, Marks)
  <2>1. h \in [1..m -> Marks] /\ \A i \in 1..m : h[i] = <<lines[i][1], lines[i][2]>>
    BY <1>2
  <2> HIDE DEF h
  <2>2. \A i, k \in 1..m : h[i] = h[k] => i = k
    BY <1>3, <2>1
  <2> QED BY <2>1, <2>2 DEF Injection, IsInjective
<1> HIDE DEF h
<1>5. Cardinality(1..m) <= Cardinality(Marks)
  BY <1>4, MarksAre, FS_Injection
<1>6. Cardinality(1..m) = m
  <2>1. 1 \in Int /\ m \in Int
    BY <1>1
  <2>2. Cardinality(1..m) = IF 1 > m THEN 0 ELSE m - 1 + 1
    BY <2>1, FS_Interval
  <2> QED BY <1>1, <2>2
<1>7. Written <= MaxLines /\ Written = Cardinality(Marks) /\ Written \in Nat
  BY MarksAre DEF DiskInv
<1>8. MaxLines \in Nat
  BY MonitorConstants
<1> QED BY <1>1, <1>5, <1>6, <1>7, <1>8 DEF m

\* What the invariant says is what the properties say.
LEMMA MonitorShows == MonitorInv => MonitorTypeOK /\ PagesAreTrue
<1> SUFFICES ASSUME MonitorInv PROVE MonitorTypeOK /\ PagesAreTrue
  OBVIOUS
<1> USE DEF MonitorInv
<1>1. MaxLines \in Nat /\ \A f \in Logs : Complete(f) \in Nat /\ Complete(f) <= MaxLines
  BY CompleteIs, MonitorConstants
<1>2. Len(lines) \in Nat /\ Len(lines) <= MaxLines /\ DOMAIN lines = 1..Len(lines)
  BY LinesBound DEF IndexInv
<1>3. streams \in [Logs -> (0..2) \X (0..MaxLines)] /\ latest \in [Logs -> 0..MaxLines]
  <2>1. ASSUME NEW f \in Logs
        PROVE  streams[f] \in (0..2) \X (0..MaxLines) /\ latest[f] \in 0..MaxLines
    <3>1. /\ streams[f] \in (0..2) \X Nat /\ streams[f][2] <= Complete(f)
          /\ latest[f] \in Nat /\ latest[f] <= Complete(f)
      BY DEF IndexInv
    <3>2. streams[f][2] \in 0..MaxLines /\ latest[f] \in 0..MaxLines
      BY <1>1, <3>1
    <3> QED BY <3>1, <3>2
  <2> QED BY <2>1 DEF IndexInv
<1>4. lines \in Seq(Logs \X (1..MaxLines) \X Levels)
  <2>1. ASSUME NEW i \in 1..Len(lines) PROVE lines[i] \in Logs \X (1..MaxLines) \X Levels
    <3>1. lines[i] \in Logs \X Nat \X Levels
      BY ElementOfSeq DEF IndexInv
    <3>2. PICK f \in Logs : \E n \in 1..streams[f][2] : From(i, f, n)
      BY DEF IndexInv
    <3>3. lines[i][2] \in 1..streams[f][2]
      BY <3>2 DEF From
    <3>4. streams[f][2] \in 0..MaxLines
      BY <1>3
    <3>5. lines[i][2] \in 1..MaxLines
      BY <1>1, <3>3, <3>4
    <3> QED BY <3>1, <3>5
  <2>2. lines \in Seq(Logs \X Nat \X Levels)
    BY DEF IndexInv
  <2> DEFINE T == Logs \X (1..MaxLines) \X Levels
             N == Logs \X Nat \X Levels
  <2> HIDE DEF T, N
  <2>3. \A i \in 1..Len(lines) : lines[i] \in T
    BY <2>1 DEF T
  <2>4. lines \in Seq(N)
    BY <2>2 DEF N
  <2>5. lines \in Seq(T)
    BY <2>3, <2>4
  <2> QED BY <2>5 DEF T
<1>5. MonitorTypeOK
  BY <1>3, <1>4 DEF MonitorTypeOK, DiskInv, IndexInv, PagesInv
<1>6. IndexIsComplete
  <2> SUFFICES ASSUME ~vanished, NEW f \in Logs
               PROVE  /\ Cardinality({i \in DOMAIN lines : lines[i][1] = f}) = streams[f][2]
                      /\ \A n \in 1..streams[f][2] : \E i \in DOMAIN lines :
                           lines[i] = <<f, n, log[f][n]>>
    BY DEF IndexIsComplete
  <2> DEFINE l == streams[f][2]
             m == Len(lines)
             P == {i \in 1..m : lines[i][1] = f}
             h == [i \in P |-> lines[i][2]]
  <2>1. \A n \in 1..l : \E i \in 1..m : From(i, f, n)
    BY DEF IndexInv
  <2>2. ASSUME NEW i \in P PROVE lines[i][2] \in 1..l
    <3>1. PICK g \in Logs : \E n \in 1..streams[g][2] : From(i, g, n)
      BY DEF IndexInv
    <3>2. g = f /\ lines[i][2] \in 1..streams[g][2]
      BY <3>1 DEF From
    <3> QED BY <3>2
  <2>3. ASSUME NEW i \in P, NEW k \in P, lines[i][2] = lines[k][2] PROVE i = k
    BY <2>3 DEF IndexInv
  <2>4. \A n \in 1..l : \E i \in P : lines[i][2] = n
    <3> TAKE n \in 1..l
    <3>1. PICK i \in 1..m : From(i, f, n)
      BY <2>1
    <3>2. lines[i][1] = f /\ lines[i][2] = n
      BY <3>1 DEF From
    <3> QED BY <3>2
  <2>5. l \in Nat
    BY DEF IndexInv
  <2>6. Cardinality(P) = l
    <3> HIDE DEF P, l, m
    <3>1. h \in [P -> 1..l] /\ \A i \in P : h[i] = lines[i][2]
      BY <2>2
    <3> HIDE DEF h
    <3>2. h \in Bijection(P, 1..l)
      BY <2>3, <2>4, <3>1 DEF Bijection, Injection, Surjection, IsInjective
    <3>3. IsFiniteSet(1..l) /\ Cardinality(1..l) = l
      <4>1. 1 \in Int /\ l \in Int
        BY <2>5
      <4>2. IsFiniteSet(1..l) /\ Cardinality(1..l) = IF 1 > l THEN 0 ELSE l - 1 + 1
        BY <4>1, FS_Interval
      <4> QED BY <2>5, <4>2
    <3>4. h \in Injection(P, 1..l) /\ h \in Surjection(P, 1..l)
      BY <3>2 DEF Bijection
    <3>5. Cardinality(P) = Cardinality(1..l)
      BY <3>3, <3>4, FS_Injection
    <3> QED BY <3>3, <3>5
  <2> QED BY <1>2, <2>1, <2>6 DEF From
<1>7. SummaryIsLatest
  BY DEF SummaryIsLatest, IndexInv
<1>8. PagesSeeAll
  BY DEF PagesSeeAll, InLevel, PagesInv, Of, Lines, Level
<1> QED BY <1>5, <1>6, <1>7, <1>8 DEF PagesAreTrue

-----------------------------------------------------------------------------
(* _refresh brings the index up to date.                                   *)

\* The lines that are new.
News(files) ==
  UNION {{<<f, n, log[f][n]>> : n \in Offset(f, files) + 1..Complete(f)} : f \in files}

\* What there is before.
LEMMA BeforeRefresh ==
  ASSUME DiskInv, IndexInv, NEW files \in SUBSET Logs
  PROVE  /\ OldLines(files) \in Seq(Logs \X Nat \X Levels) /\ Len(OldLines(files)) \in Nat
         /\ \A f \in Logs : Offset(f, files) \in 0..Complete(f)
         /\ \A f \in Logs : f \notin files => Offset(f, files) = 0
         /\ \A i \in 1..Len(OldLines(files)) : \E f \in files : \E n \in 1..Offset(f, files) :
              OldLines(files)[i] = <<f, n, log[f][n]>>
         /\ \A i \in 1..Len(OldLines(files)), k \in 1..Len(OldLines(files)) :
              /\ OldLines(files)[i][1] = OldLines(files)[k][1]
              /\ OldLines(files)[i][2] = OldLines(files)[k][2]
              => i = k
         /\ \A f \in Logs : OldLatest(files)[f] \in 0..Complete(f)
         /\ ~vanished => \A f \in Logs :
              /\ OldLatest(files)[f] = Offset(f, files)
              /\ \A n \in 1..Offset(f, files) :
                   \E i \in 1..Len(OldLines(files)) : OldLines(files)[i] = <<f, n, log[f][n]>>
<1>1. \A f \in Logs : Complete(f) \in Nat
  BY CompleteIs
<1>2. CASE Outdated(files)
  <2>1. /\ OldLines(files) = << >> /\ \A f \in Logs : Offset(f, files) = 0
        /\ \A f \in Logs : OldLatest(files)[f] = 0
    BY <1>2 DEF OldLines, Offset, OldLatest
  <2>2. Len(OldLines(files)) = 0 /\ OldLines(files) \in Seq(Logs \X Nat \X Levels)
    BY <2>1
  <2>3. 1..Len(OldLines(files)) = {} /\ \A f \in Logs : 1..Offset(f, files) = {}
    BY <2>1, <2>2
  <2> QED BY <1>1, <2>1, <2>2, <2>3
<1>3. CASE ~Outdated(files)
  <2>1. /\ OldLines(files) = lines /\ \A f \in Logs : Offset(f, files) = streams[f][2]
        /\ OldLatest(files) = latest
    BY <1>3 DEF OldLines, Offset, OldLatest
  <2>2. \A f \in Logs : /\ streams[f][2] \in 0..Complete(f) /\ latest[f] \in 0..Complete(f)
    BY <1>1 DEF IndexInv
  <2>3. \A f \in Logs : f \notin files => streams[f][2] = 0
    BY <1>3 DEF Outdated
  <2>4. \A i \in 1..Len(lines) : \E f \in files : \E n \in 1..streams[f][2] : From(i, f, n)
    <3> TAKE i \in 1..Len(lines)
    <3>1. PICK f \in Logs : \E n \in 1..streams[f][2] : From(i, f, n)
      BY DEF IndexInv
    <3>2. f \in files
      BY <2>3, <3>1
    <3> QED BY <3>1, <3>2
  <2>5. lines \in Seq(Logs \X Nat \X Levels) /\ Len(lines) \in Nat
    BY DEF IndexInv
  <2>6. \A i \in 1..Len(lines), k \in 1..Len(lines) :
          lines[i][1] = lines[k][1] /\ lines[i][2] = lines[k][2] => i = k
    BY DEF IndexInv
  <2>7. ~vanished => \A f \in Logs :
          /\ latest[f] = streams[f][2]
          /\ \A n \in 1..streams[f][2] : \E i \in 1..Len(lines) : From(i, f, n)
    BY DEF IndexInv
  <2>8. /\ \A f \in Logs : Offset(f, files) \in 0..Complete(f)
        /\ \A f \in Logs : f \notin files => Offset(f, files) = 0
        /\ \A f \in Logs : OldLatest(files)[f] \in 0..Complete(f)
    BY <2>1, <2>2, <2>3
  <2>9. \A i \in 1..Len(OldLines(files)) : \E f \in files : \E n \in 1..Offset(f, files) :
              OldLines(files)[i] = <<f, n, log[f][n]>>
    BY <2>1, <2>4 DEF From
  <2>10. ~vanished => \A f \in Logs :
           /\ OldLatest(files)[f] = Offset(f, files)
           /\ \A n \in 1..Offset(f, files) :
                \E i \in 1..Len(OldLines(files)) : OldLines(files)[i] = <<f, n, log[f][n]>>
    BY <2>1, <2>7 DEF From
  <2> QED BY <2>1, <2>5, <2>6, <2>8, <2>9, <2>10
<1> QED BY <1>2, <1>3

\* What is added.
LEMMA AddedIs ==
  ASSUME DiskInv, IndexInv, NEW files \in SUBSET Logs, NEW added \in Additions(files)
  PROVE  /\ added \in Seq(Logs \X Nat \X Levels) /\ Len(added) \in Nat
         /\ \A k \in 1..Len(added) : \E f \in files :
              \E n \in Offset(f, files) + 1..Complete(f) : added[k] = <<f, n, log[f][n]>>
         /\ \A f \in files : \A n \in Offset(f, files) + 1..Complete(f) :
              \E k \in 1..Len(added) : added[k] = <<f, n, log[f][n]>>
         /\ \A i \in 1..Len(added), k \in 1..Len(added) :
              added[i][1] = added[k][1] /\ added[i][2] = added[k][2] => i = k
<1> DEFINE A == News(files)
           c == Cardinality(A)
<1>1. \A f \in Logs : Complete(f) \in Nat /\ Complete(f) <= Len(log[f])
                      /\ Offset(f, files) \in Nat
  <2> TAKE f \in Logs
  <2>1. Complete(f) \in Nat /\ Complete(f) <= Len(log[f])
    BY CompleteIs
  <2>2. Offset(f, files) \in 0..Complete(f)
    BY BeforeRefresh
  <2> QED BY <2>1, <2>2
<1>2. IsFiniteSet(A)
  <2> DEFINE Of1(f) == {<<f, n, log[f][n]>> : n \in Offset(f, files) + 1..Complete(f)}
             all == {Of1(f) : f \in files}
             g == [f \in files |-> Of1(f)]
  <2>1. IsFiniteSet(files)
    BY MonitorConstants, FS_Subset
  <2>2. g \in Surjection(files, all)
    <3> HIDE DEF Of1
    <3> QED BY DEF Surjection
  <2>3. IsFiniteSet(all)
    <3> HIDE DEF g, all
    <3> QED BY <2>1, <2>2, FS_Surjection
  <2>4. \A T \in all : IsFiniteSet(T)
    <3> TAKE T \in all
    <3>1. PICK f \in files : T = Of1(f)
      OBVIOUS
    <3> DEFINE D == Offset(f, files) + 1..Complete(f)
               h == [n \in D |-> <<f, n, log[f][n]>>]
    <3>2. IsFiniteSet(D)
      <4>1. Offset(f, files) + 1 \in Int /\ Complete(f) \in Int
        BY <1>1
      <4> QED BY <4>1, FS_Interval
    <3>3. h \in Surjection(D, Of1(f))
      BY DEF Surjection
    <3>4. IsFiniteSet(Of1(f))
      <4> HIDE DEF h, D, Of1
      <4> QED BY <3>2, <3>3, FS_Surjection
    <3> QED BY <3>1, <3>4
  <2>5. IsFiniteSet(UNION all)
    <3> HIDE DEF all
    <3> QED BY <2>3, <2>4, FS_UNION
  <2> QED BY <2>5 DEF News
<1>3. c \in Nat
  BY <1>2, FS_CardinalityType
<1>4. added \in [1..c -> A] /\ \A i, k \in 1..c : i # k => added[i] # added[k]
  BY DEF Additions, SetToSeqs, News
<1>5. \A x \in A : \E f \in files : \E n \in Offset(f, files) + 1..Complete(f) :
        x = <<f, n, log[f][n]>>
  BY DEF News
<1>6. \A f \in files : \A n \in Offset(f, files) + 1..Complete(f) : <<f, n, log[f][n]>> \in A
  BY DEF News
<1> HIDE DEF A
<1>7. A \subseteq Logs \X Nat \X Levels
  <2> SUFFICES ASSUME NEW x \in A PROVE x \in Logs \X Nat \X Levels
    OBVIOUS
  <2>1. PICK f \in files : \E n \in Offset(f, files) + 1..Complete(f) : x = <<f, n, log[f][n]>>
    BY <1>5
  <2>2. PICK n \in Offset(f, files) + 1..Complete(f) : x = <<f, n, log[f][n]>>
    BY <2>1
  <2>3. n \in 1..Len(log[f]) /\ n \in Nat
    <3>1. /\ Complete(f) \in Nat /\ Complete(f) <= Len(log[f]) /\ Offset(f, files) \in Nat
          /\ Len(log[f]) \in Nat
      BY <1>1, CompleteIs
    <3> QED BY <3>1
  <2>4. log[f][n] \in Levels
    <3>1. log[f] \in Seq(Levels)
      BY DEF DiskInv
    <3> HIDE DEF Levels
    <3> QED BY <2>3, <3>1, ElementOfSeq
  <2> HIDE DEF Levels
  <2> QED BY <2>2, <2>3, <2>4
<1>8. added \in Surjection(1..c, A)
  <2>1. IsFiniteSet(1..c) /\ Cardinality(1..c) = c
    <3> HIDE DEF c
    <3>1. 1 \in Int /\ c \in Int
      BY <1>3
    <3>2. IsFiniteSet(1..c) /\ Cardinality(1..c) = IF 1 > c THEN 0 ELSE c - 1 + 1
      BY <3>1, FS_Interval
    <3> QED BY <1>3, <3>2
  <2>2. added \in Injection(1..c, A)
    BY <1>4 DEF Injection, IsInjective
  <2> QED BY <1>2, <2>1, <2>2, FS_Injection
<1> HIDE DEF c
<1>9. added \in Seq(A) /\ Len(added) = c
  BY <1>3, <1>4
<1>10. added \in Seq(Logs \X Nat \X Levels)
  <2> DEFINE T == Logs \X Nat \X Levels
  <2>1. A \subseteq T
    BY <1>7
  <2> HIDE DEF T
  <2>2. added \in Seq(T)
    BY <1>9, <2>1, SeqMonotonic
  <2> QED BY <2>2 DEF T
<1>11. ASSUME NEW k \in 1..c
       PROVE  \E f \in files : \E n \in Offset(f, files) + 1..Complete(f) :
                added[k] = <<f, n, log[f][n]>>
  BY <1>4, <1>5
<1>12. ASSUME NEW f \in files, NEW n \in Offset(f, files) + 1..Complete(f)
       PROVE  \E k \in 1..c : added[k] = <<f, n, log[f][n]>>
  BY <1>6, <1>8 DEF Surjection
<1>13. ASSUME NEW i \in 1..c, NEW k \in 1..c,
              added[i][1] = added[k][1], added[i][2] = added[k][2]
       PROVE  i = k
  <2>1. PICK f \in files : \E n \in Offset(f, files) + 1..Complete(f) :
                             added[i] = <<f, n, log[f][n]>>
    BY <1>11
  <2>2. PICK g \in files : \E n \in Offset(g, files) + 1..Complete(g) :
                             added[k] = <<g, n, log[g][n]>>
    BY <1>11
  <2>3. added[i] = added[k]
    BY <1>13, <2>1, <2>2
  <2> QED BY <1>4, <2>3
<1> QED BY <1>3, <1>9, <1>10, <1>11, <1>12, <1>13

LEMMA MaxIs ==
  ASSUME NEW S \in SUBSET Nat, NEW m \in S, \A n \in S : n <= m
  PROVE  Max(S) = m
<1>1. Max(S) \in S /\ \A n \in S : Max(S) >= n
  <2>1. \A n \in S : m >= n
    OBVIOUS
  <2> QED BY <2>1 DEF Max
<1>2. Max(S) \in Nat /\ m \in Nat /\ Max(S) <= m /\ Max(S) >= m
  BY <1>1
<1> QED BY <1>2

\* The summary.
LEMMA LatestIs ==
  ASSUME DiskInv, IndexInv, NEW files \in SUBSET Logs, NEW added \in Additions(files),
         NEW f \in Logs
  PROVE  Latest(OldLatest(files), added)[f] =
           IF f \in files /\ Offset(f, files) < Complete(f) THEN Complete(f)
           ELSE OldLatest(files)[f]
<1> DEFINE old == OldLatest(files)[f]
           S == {x[2] : x \in {y \in ToSet(added) : y[1] = f}}
<1>1. Latest(OldLatest(files), added)[f] = Max({old} \cup S)
  BY DEF Latest
<1>2. /\ Offset(f, files) \in 0..Complete(f) /\ Complete(f) \in Nat /\ old \in 0..Complete(f)
  BY BeforeRefresh, CompleteIs
<1>3. ToSet(added) = {added[k] : k \in 1..Len(added)}
  <2>1. added \in Seq(Logs \X Nat \X Levels)
    BY AddedIs
  <2>2. DOMAIN added = 1..Len(added)
    BY <2>1, LenProperties
  <2> QED BY <2>2 DEF ToSet
<1>4. \A n : n \in S <=> f \in files /\ n \in Offset(f, files) + 1..Complete(f)
  <2>1. ASSUME NEW n \in S PROVE f \in files /\ n \in Offset(f, files) + 1..Complete(f)
    <3>1. PICK k \in 1..Len(added) : added[k][1] = f /\ added[k][2] = n
      BY <1>3
    <3>2. PICK g \in files : \E l \in Offset(g, files) + 1..Complete(g) :
                               added[k] = <<g, l, log[g][l]>>
      BY AddedIs
    <3>3. PICK l \in Offset(g, files) + 1..Complete(g) : added[k] = <<g, l, log[g][l]>>
      BY <3>2
    <3> QED BY <3>1, <3>3
  <2>2. ASSUME f \in files, NEW n \in Offset(f, files) + 1..Complete(f) PROVE n \in S
    <3>1. PICK k \in 1..Len(added) : added[k] = <<f, n, log[f][n]>>
      BY <2>2, AddedIs
    <3>2. added[k] \in ToSet(added) /\ added[k][1] = f /\ added[k][2] = n
      BY <1>3, <3>1
    <3> QED BY <3>2
  <2> QED BY <2>1, <2>2
<1> HIDE DEF S, old
<1>5. CASE f \in files /\ Offset(f, files) < Complete(f)
  <2>1. Complete(f) \in Offset(f, files) + 1..Complete(f)
    BY <1>2, <1>5
  <2>2. Complete(f) \in S /\ \A n \in S : n \in Nat /\ n <= Complete(f)
    BY <1>2, <1>4, <1>5, <2>1
  <2>3. old \in Nat /\ old <= Complete(f)
    BY <1>2
  <2>4. Max({old} \cup S) = Complete(f)
    BY <2>2, <2>3, MaxIs
  <2> QED BY <1>1, <1>5, <2>4 DEF old
<1>6. CASE ~(f \in files /\ Offset(f, files) < Complete(f))
  <2>1. ~(Offset(f, files) < Complete(f)) => Offset(f, files) + 1..Complete(f) = {}
    BY <1>2
  <2>2. S = {}
    BY <1>4, <1>6, <2>1
  <2>3. old \in Nat /\ old <= old
    BY <1>2
  <2>4. Max({old} \cup S) = old
    BY <2>2, <2>3, MaxIs
  <2> QED BY <1>1, <1>6, <2>4 DEF old
<1> QED BY <1>5, <1>6

\* An index that was up to date is continued, or there is a new one.
LEMMA RefreshKeeps ==
  ASSUME DiskInv, IndexInv, NEW files \in SUBSET Logs, Refresh(files),
         UNCHANGED <<diskVars, vanished>>
  PROVE  /\ IndexInv' /\ generation' # 0
         /\ \/ /\ generation' = generation /\ generations' = generations
               /\ Len(lines) <= Len(lines')
               /\ \A i \in 1..Len(lines) : lines'[i] = lines[i]
            \/ generation' = generations + 1 /\ generations' = generations + 1
<1> DEFINE old == OldLines(files)
           m == Len(old)
           L == Logs \X Nat \X Levels
           C(f) == IF f \in files THEN Complete(f) ELSE 0
<1>1. PICK added \in Additions(files) :
        lines' = OldLines(files) \o added /\ latest' = Latest(OldLatest(files), added)
  BY DEF Refresh
<1> DEFINE n == Len(added)
<1>2. /\ log' = log /\ torn' = torn /\ there' = there /\ copy' = copy /\ vanished' = vanished
      /\ \A f \in Logs : Complete(f)' = Complete(f)
  BY DEF diskVars, Complete
<1>3. /\ old \in Seq(L) /\ m \in Nat
      /\ \A i \in 1..m : \E f \in files : \E x \in 1..Offset(f, files) :
           old[i] = <<f, x, log[f][x]>>
      /\ \A i \in 1..m, k \in 1..m : old[i][1] = old[k][1] /\ old[i][2] = old[k][2] => i = k
  BY BeforeRefresh
<1>4. /\ added \in Seq(L) /\ n \in Nat
      /\ \A k \in 1..n : \E f \in files :
           \E x \in Offset(f, files) + 1..Complete(f) : added[k] = <<f, x, log[f][x]>>
      /\ \A f \in files : \A x \in Offset(f, files) + 1..Complete(f) :
           \E k \in 1..n : added[k] = <<f, x, log[f][x]>>
      /\ \A i \in 1..n, k \in 1..n :
           added[i][1] = added[k][1] /\ added[i][2] = added[k][2] => i = k
  BY AddedIs
<1>5. \A f \in Logs : /\ Offset(f, files) \in 0..Complete(f) /\ Complete(f) \in Nat
                      /\ (f \notin files => Offset(f, files) = 0)
  BY BeforeRefresh, CompleteIs
<1> HIDE DEF old, m, n, L
<1>6. /\ lines' \in Seq(L) /\ Len(lines') = m + n
      /\ \A i \in 1..m : lines'[i] = old[i]
      /\ \A i \in m + 1..m + n : lines'[i] = added[i - m] /\ i - m \in 1..n
      /\ \A k \in 1..n : m + k \in m + 1..m + n /\ lines'[m + k] = added[k]
  <2>1. lines' = old \o added
    BY <1>1 DEF old
  <2>2. Len(old) = m /\ Len(added) = n
    BY DEF m, n
  <2>3. /\ old \o added \in Seq(L) /\ Len(old \o added) = m + n
        /\ \A i \in 1..m : (old \o added)[i] = old[i]
        /\ \A i \in m + 1..m + n : (old \o added)[i] = added[i - m]
    <3>1. old \in Seq(L) /\ added \in Seq(L)
      BY <1>3, <1>4
    <3>2. /\ old \o added \in Seq(L) /\ Len(old \o added) = Len(old) + Len(added)
          /\ \A i \in 1..Len(old) : (old \o added)[i] = old[i]
          /\ \A i \in (Len(old) + 1)..(Len(old) + Len(added)) :
               (old \o added)[i] = added[i - Len(old)]
      BY <3>1
    <3> QED BY <2>2, <3>2
  <2>4. \A i \in m + 1..m + n : i - m \in 1..n
    BY <1>3, <1>4
  <2>5. \A k \in 1..n : m + k \in m + 1..m + n /\ m + k - m = k
    BY <1>3, <1>4
  <2> DEFINE s == old \o added
  <2> HIDE DEF s
  <2>6. \A k \in 1..n : s[m + k] = added[k]
    <3> TAKE k \in 1..n
    <3>1. m + k \in m + 1..m + n /\ m + k - m = k
      BY <2>5
    <3>2. \A i \in m + 1..m + n : s[i] = added[i - m]
      BY <2>3 DEF s
    <3>3. \A i \in m + 1..m + n : i - m = k => s[i] = added[k]
      BY <3>2
    <3>4. m \in Nat /\ n \in Nat
      BY <1>3, <1>4
    <3> QED BY <3>1, <3>3, <3>4
  <2>7. lines' = s
    BY <2>1 DEF s
  <2> QED BY <2>3, <2>4, <2>5, <2>6, <2>7 DEF s
<1>7. /\ streams' \in [Logs -> (0..2) \X Nat] /\ \A f \in Logs : streams'[f][2] = C(f)
  <2>1. ASSUME NEW f \in Logs
        PROVE  /\ streams'[f] \in (0..2) \X Nat /\ streams'[f][2] = C(f)
               /\ streams'[f] = IF f \in files THEN <<copy[f], Consumed(f)>> ELSE <<0, 0>>
    <3>1. streams'[f] = IF f \in files THEN <<copy[f], Complete(f)>> ELSE <<0, 0>>
      BY DEF Refresh, Consumed
    <3>2. copy[f] \in 0..2 /\ Complete(f) \in Nat
      BY <1>5 DEF DiskInv
    <3> QED BY <3>1, <3>2 DEF Consumed
  <2>2. streams' = [f \in Logs |-> streams'[f]]
    BY DEF Refresh
  <2> HIDE DEF C
  <2> QED BY <2>1, <2>2
<1>8. \A f \in Logs : C(f) \in Nat /\ C(f) <= Complete(f) /\ Offset(f, files) <= C(f)
  BY <1>5
<1>9. /\ latest' \in [Logs -> Nat]
      /\ \A f \in Logs : latest'[f] <= Complete(f)
      /\ ~vanished => \A f \in Logs : latest'[f] = C(f)
  <2>1. ASSUME NEW f \in Logs
        PROVE  /\ latest'[f] \in Nat /\ latest'[f] <= Complete(f)
               /\ ~vanished => latest'[f] = C(f)
    <3>1. latest'[f] = IF f \in files /\ Offset(f, files) < Complete(f) THEN Complete(f)
                       ELSE OldLatest(files)[f]
      BY <1>1, LatestIs
    <3>2. /\ OldLatest(files)[f] \in 0..Complete(f)
          /\ ~vanished => OldLatest(files)[f] = Offset(f, files)
      BY BeforeRefresh
    <3> QED BY <1>5, <3>1, <3>2
  <2>2. latest' = [f \in Logs |-> latest'[f]]
    BY <1>1 DEF Latest
  <2> HIDE DEF C
  <2> QED BY <2>1, <2>2
<1> HIDE DEF C
<1>10. ASSUME NEW i \in 1..m + n
       PROVE  \E f \in Logs : \E x \in 1..C(f) : lines'[i] = <<f, x, log[f][x]>>
  <2>1. CASE i \in 1..m
    <3>1. PICK f \in files : \E x \in 1..Offset(f, files) : old[i] = <<f, x, log[f][x]>>
      BY <1>3, <2>1
    <3>2. PICK x \in 1..Offset(f, files) : old[i] = <<f, x, log[f][x]>>
      BY <3>1
    <3>3. x \in 1..C(f)
      BY <1>5, <1>8, <3>2
    <3> QED BY <1>6, <2>1, <3>2, <3>3
  <2>2. CASE i \in m + 1..m + n
    <3>1. PICK f \in files : \E x \in Offset(f, files) + 1..Complete(f) :
                               added[i - m] = <<f, x, log[f][x]>>
      BY <1>4, <1>6, <2>2
    <3>2. PICK x \in Offset(f, files) + 1..Complete(f) : added[i - m] = <<f, x, log[f][x]>>
      BY <3>1
    <3>3. x \in 1..C(f)
      BY <1>5, <3>2 DEF C
    <3> QED BY <1>6, <2>2, <3>2, <3>3
  <2>3. i \in 1..m \/ i \in m + 1..m + n
    BY <1>3, <1>4
  <2> QED BY <2>1, <2>2, <2>3
\* An old line is no new one.
<1>11. ASSUME NEW i \in 1..m, NEW k \in 1..n
       PROVE  ~(old[i][1] = added[k][1] /\ old[i][2] = added[k][2])
  <2>1. PICK f \in files : \E x \in 1..Offset(f, files) : old[i] = <<f, x, log[f][x]>>
    BY <1>3
  <2>2. PICK x \in 1..Offset(f, files) : old[i] = <<f, x, log[f][x]>>
    BY <2>1
  <2>3. PICK g \in files : \E y \in Offset(g, files) + 1..Complete(g) :
                             added[k] = <<g, y, log[g][y]>>
    BY <1>4
  <2>4. PICK y \in Offset(g, files) + 1..Complete(g) : added[k] = <<g, y, log[g][y]>>
    BY <2>3
  <2>5. old[i][1] = f /\ old[i][2] = x /\ added[k][1] = g /\ added[k][2] = y
    BY <2>2, <2>4
  <2>6. f = g => x < y
    BY <1>5, <2>2, <2>4
  <2>7. x \in Nat
    BY <1>5, <2>2
  <2> QED BY <2>5, <2>6, <2>7
<1>12. ASSUME NEW i \in 1..m + n, NEW k \in 1..m + n,
              lines'[i][1] = lines'[k][1], lines'[i][2] = lines'[k][2]
       PROVE  i = k
  <2>1. (i \in 1..m \/ i \in m + 1..m + n) /\ (k \in 1..m \/ k \in m + 1..m + n)
    BY <1>3, <1>4
  <2>2. CASE i \in 1..m /\ k \in 1..m
    BY <1>3, <1>6, <1>12, <2>2
  <2>3. CASE i \in 1..m /\ k \in m + 1..m + n
    BY <1>6, <1>11, <1>12, <2>3
  <2>4. CASE i \in m + 1..m + n /\ k \in 1..m
    BY <1>6, <1>11, <1>12, <2>4
  <2>5. CASE i \in m + 1..m + n /\ k \in m + 1..m + n
    <3>0. /\ i - m \in 1..n /\ k - m \in 1..n
          /\ added[i - m][1] = added[k - m][1] /\ added[i - m][2] = added[k - m][2]
      BY <1>6, <1>12, <2>5
    <3>1. i - m = k - m
      BY <1>4, <3>0
    <3> QED BY <1>3, <3>1
  <2> QED BY <2>1, <2>2, <2>3, <2>4, <2>5
<1>13. ASSUME ~vanished, NEW f \in Logs, NEW x \in 1..C(f)
       PROVE  \E i \in 1..m + n : lines'[i] = <<f, x, log[f][x]>>
  <2>1. f \in files /\ C(f) = Complete(f)
    BY <1>13 DEF C
  <2>2. x \in 1..Offset(f, files) \/ x \in Offset(f, files) + 1..Complete(f)
    BY <1>5, <2>1
  <2>3. CASE x \in 1..Offset(f, files)
    <3>1. PICK i \in 1..m : old[i] = <<f, x, log[f][x]>>
      BY <1>13, <2>3, BeforeRefresh DEF old, m
    <3>2. i \in 1..m + n
      BY <1>3, <1>4
    <3> QED BY <1>6, <3>1, <3>2
  <2>4. CASE x \in Offset(f, files) + 1..Complete(f)
    <3>1. PICK k \in 1..n : added[k] = <<f, x, log[f][x]>>
      BY <1>4, <2>1, <2>4
    <3>2. m + k \in 1..m + n
      BY <1>3, <1>4
    <3> QED BY <1>6, <3>1, <3>2
  <2> QED BY <2>2, <2>3, <2>4
<1>14. /\ generation' \in 0..generations' /\ generations' \in 0..MaxIndexes
       /\ \/ ~Outdated(files) /\ generation' = generation /\ generations' = generations
          \/ generation' = generations + 1 /\ generations' = generations + 1
  <2>1. generation \in 0..generations /\ generations \in 0..MaxIndexes /\ MaxIndexes \in Nat
    BY MonitorConstants DEF IndexInv
  <2>2. NewGeneration(files)
    BY DEF Refresh
  <2>3. CASE Outdated(files)
    <3>1. /\ generations < MaxIndexes /\ generations' = generations + 1
          /\ generation' = generations + 1
      BY <2>2, <2>3 DEF NewGeneration
    <3>2. generations + 1 \in 0..generations + 1 /\ generations + 1 \in 0..MaxIndexes
      BY <2>1, <3>1
    <3> QED BY <3>1, <3>2
  <2>4. CASE ~Outdated(files)
    <3>1. generations' = generations
      BY <2>2, <2>4 DEF NewGeneration
    <3>2. generation' = generation
      BY <2>2, <2>4 DEF NewGeneration
    <3> QED BY <2>1, <2>4, <3>1, <3>2
  <2> QED BY <2>3, <2>4
<1>15. IndexInv'
  <2>0. \A f \in Logs : streams'[f][2] <= Complete(f)' /\ latest'[f] <= Complete(f)'
    BY <1>2, <1>7, <1>8, <1>9
  <2>1. \A i \in 1..Len(lines') : \E f \in Logs : \E x \in 1..streams'[f][2] :
          lines'[i] = <<f, x, log'[f][x]>>
    <3> TAKE i \in 1..Len(lines')
    <3>1. PICK f \in Logs : \E x \in 1..C(f) : lines'[i] = <<f, x, log[f][x]>>
      BY <1>6, <1>10
    <3>2. streams'[f][2] = C(f)
      BY <1>7
    <3> QED BY <1>2, <3>1, <3>2
  <2>2. ~vanished' => \A f \in Logs :
          /\ latest'[f] = streams'[f][2]
          /\ \A x \in 1..streams'[f][2] : \E i \in 1..Len(lines') :
               lines'[i] = <<f, x, log'[f][x]>>
    <3> DEFINE Indexed(f) == \A x \in 1..streams'[f][2] : \E i \in 1..Len(lines') :
                            lines'[i] = <<f, x, log'[f][x]>>
    <3>1. ASSUME ~vanished, NEW f \in Logs PROVE latest'[f] = streams'[f][2] /\ Indexed(f)
      <4>1. latest'[f] = C(f) /\ streams'[f][2] = C(f)
        BY <1>7, <1>9, <3>1
      <4>2. ASSUME NEW x \in 1..C(f)
            PROVE  \E i \in 1..Len(lines') : lines'[i] = <<f, x, log'[f][x]>>
        <5>1. PICK i \in 1..m + n : lines'[i] = <<f, x, log[f][x]>>
          BY <1>13, <3>1
        <5> QED BY <1>2, <1>6, <5>1
      <4> QED BY <4>1, <4>2
    <3>2. vanished' = vanished
      BY <1>2
    <3> HIDE DEF Indexed
    <3>3. ~vanished' => \A f \in Logs : latest'[f] = streams'[f][2] /\ Indexed(f)
      BY <3>1, <3>2
    <3> QED BY <3>3 DEF Indexed
  <2>3. \A i \in 1..Len(lines'), k \in 1..Len(lines') :
          lines'[i][1] = lines'[k][1] /\ lines'[i][2] = lines'[k][2] => i = k
    BY <1>6, <1>12
  <2>4. lines' \in Seq(Logs \X Nat \X Levels)
    BY <1>6 DEF L
  <2> QED BY <1>7, <1>9, <1>14, <2>0, <2>1, <2>2, <2>3, <2>4 DEF IndexInv, From
<1>16. ASSUME ~Outdated(files)
       PROVE  Len(lines) <= Len(lines') /\ \A i \in 1..Len(lines) : lines'[i] = lines[i]
  <2>1. old = lines /\ m = Len(lines)
    BY <1>16 DEF old, m, OldLines
  <2> QED BY <1>3, <1>4, <1>6, <2>1
<1>17. generation' # 0
  BY <1>14 DEF Outdated, IndexInv
<1> QED BY <1>14, <1>15, <1>16, <1>17

-----------------------------------------------------------------------------
(* The steps.                                                              *)

\* Nothing is consumed that is not there any more.
LEMMA FilesKeep ==
  ASSUME IndexInv, UNCHANGED <<indexVars, vanished>>,
         \A f \in Logs : Complete(f) <= Complete(f)' /\ Complete(f) \in Nat /\ Complete(f)' \in Nat,
         \A f \in Logs : \A n \in 1..Complete(f) : log'[f][n] = log[f][n]
  PROVE  IndexInv'
<1> USE DEF indexVars
<1>1. \A f \in Logs : streams[f][2] \in Nat /\ streams[f][2] <= Complete(f)
                      /\ latest[f] \in Nat /\ latest[f] <= Complete(f)
  BY DEF IndexInv
<1>2. \A f \in Logs : \A n \in 1..streams[f][2] : log'[f][n] = log[f][n]
  <2> TAKE f \in Logs
  <2> TAKE n \in 1..streams[f][2]
  <2>1. n \in 1..Complete(f)
    BY <1>1
  <2> QED BY <2>1
<1>3. \A f \in Logs : streams'[f][2] <= Complete(f)' /\ latest'[f] <= Complete(f)'
  <2> TAKE f \in Logs
  <2>1. streams'[f][2] = streams[f][2] /\ latest'[f] = latest[f]
    OBVIOUS
  <2>2. Complete(f) <= Complete(f)' /\ Complete(f) \in Nat /\ Complete(f)' \in Nat
    OBVIOUS
  <2> DEFINE a == Complete(f)
             b == Complete(f)'
  <2> HIDE DEF a, b
  <2>3. a \in Nat /\ b \in Nat /\ a <= b /\ streams[f][2] <= a /\ latest[f] <= a
    BY <1>1, <2>2 DEF a, b
  <2>4. streams[f][2] <= b /\ latest[f] <= b
    BY <1>1, <2>3
  <2> QED BY <2>1, <2>4 DEF b
<1>4. /\ \A i \in 1..Len(lines) :
            \E f \in Logs : \E n \in 1..streams[f][2] : lines[i] = <<f, n, log'[f][n]>>
      /\ ~vanished => \A f \in Logs :
           /\ latest[f] = streams[f][2]
           /\ \A n \in 1..streams[f][2] :
                \E i \in 1..Len(lines) : lines[i] = <<f, n, log'[f][n]>>
  <2>1. ASSUME NEW i \in 1..Len(lines)
        PROVE  \E f \in Logs : \E n \in 1..streams[f][2] : lines[i] = <<f, n, log'[f][n]>>
    <3>1. PICK f \in Logs : \E n \in 1..streams[f][2] : lines[i] = <<f, n, log[f][n]>>
      BY DEF IndexInv, From
    <3>2. PICK n \in 1..streams[f][2] : lines[i] = <<f, n, log[f][n]>>
      BY <3>1
    <3>3. lines[i] = <<f, n, log'[f][n]>>
      BY <1>2, <3>2
    <3> QED BY <3>3
  <2>2. ASSUME ~vanished, NEW f \in Logs
        PROVE  /\ latest[f] = streams[f][2]
               /\ \A n \in 1..streams[f][2] :
                    \E i \in 1..Len(lines) : lines[i] = <<f, n, log'[f][n]>>
    <3>1. /\ latest[f] = streams[f][2]
          /\ \A n \in 1..streams[f][2] :
               \E i \in 1..Len(lines) : lines[i] = <<f, n, log[f][n]>>
      BY <2>2 DEF IndexInv, From
    <3> QED BY <1>2, <3>1
  <2> QED BY <2>1, <2>2
<1>5. UNCHANGED <<generation, generations, streams, lines, latest, vanished>>
  OBVIOUS
<1>6. /\ generation \in 0..generations /\ generations \in 0..MaxIndexes
      /\ streams \in [Logs -> (0..2) \X Nat] /\ latest \in [Logs -> Nat]
      /\ lines \in Seq(Logs \X Nat \X Levels)
      /\ \A i \in 1..Len(lines), k \in 1..Len(lines) :
           lines[i][1] = lines[k][1] /\ lines[i][2] = lines[k][2] => i = k
  BY DEF IndexInv
<1>7. /\ \A i \in 1..Len(lines') :
            \E f \in Logs : \E n \in 1..streams'[f][2] : lines'[i] = <<f, n, log'[f][n]>>
      /\ ~vanished' => \A f \in Logs :
           /\ latest'[f] = streams'[f][2]
           /\ \A n \in 1..streams'[f][2] :
                \E i \in 1..Len(lines') : lines'[i] = <<f, n, log'[f][n]>>
  <2> DEFINE Filed(i) == \E f \in Logs : \E n \in 1..streams'[f][2] :
                        lines'[i] = <<f, n, log'[f][n]>>
             Indexed(f) == \A n \in 1..streams'[f][2] :
                          \E i \in 1..Len(lines') : lines'[i] = <<f, n, log'[f][n]>>
  <2>1. \A i \in 1..Len(lines) : Filed(i)
    BY <1>4, <1>5
  <2>2. ASSUME ~vanished, NEW f \in Logs PROVE latest[f] = streams[f][2] /\ Indexed(f)
    <3>1. latest[f] = streams[f][2]
      BY <1>4, <2>2
    <3>2. ASSUME NEW n \in 1..streams'[f][2]
          PROVE  \E i \in 1..Len(lines') : lines'[i] = <<f, n, log'[f][n]>>
      <4>1. n \in 1..streams[f][2]
        BY <1>5
      <4>2. PICK i \in 1..Len(lines) : lines[i] = <<f, n, log'[f][n]>>
        BY <1>4, <2>2, <4>1
      <4> QED BY <1>5, <4>2
    <3> QED BY <3>1, <3>2
  <2> HIDE DEF Filed, Indexed
  <2>3. \A i \in 1..Len(lines') : Filed(i)
    BY <1>5, <2>1
  <2>4. ~vanished' => \A f \in Logs : latest'[f] = streams'[f][2] /\ Indexed(f)
    BY <1>5, <2>2
  <2> QED BY <2>3, <2>4 DEF Filed, Indexed
<1>8. /\ generation' \in 0..generations' /\ generations' \in 0..MaxIndexes
      /\ streams' \in [Logs -> (0..2) \X Nat] /\ latest' \in [Logs -> Nat]
      /\ lines' \in Seq(Logs \X Nat \X Levels)
      /\ \A i \in 1..Len(lines'), k \in 1..Len(lines') :
           lines'[i][1] = lines'[k][1] /\ lines'[i][2] = lines'[k][2] => i = k
  BY <1>5, <1>6
<1> QED BY <1>3, <1>7, <1>8 DEF IndexInv, From

LEMMA PagesKeep ==
  ASSUME PagesInv, UNCHANGED <<indexVars, cursor, seen, ends, onward, vanished>>,
         request' \in [Endpoints -> SUBSET (Logs \X (1..2))]
  PROVE  PagesInv'
<1>1. UNCHANGED <<generation, generations, lines, cursor, seen, ends, onward, vanished>>
  BY DEF indexVars
<1> QED BY <1>1 DEF PagesInv

\* A line is longer or complete.
LEMMA WriteKeeps ==
  ASSUME MonitorInv, NEW f \in Logs, WriteLine(f)
  PROVE  MonitorInv'
<1>1. PICK l \in Levels : log' = [log EXCEPT ![f] = Append(@, l)]
  BY DEF WriteLine
<1>2. /\ there[f] /\ copy[f] = 1 /\ ~torn[f] /\ Written < MaxLines
      /\ torn' = [torn EXCEPT ![f] = TRUE]
      /\ UNCHANGED <<there, copy, indexVars, pageVars, vanished>>
  BY DEF WriteLine
<1>3. DiskInv /\ IndexInv /\ PagesInv
  BY DEF MonitorInv
<1> DEFINE n == Len(log[f])
<1>4. log[f] \in Seq(Levels) /\ n \in Nat
  BY <1>3, MarksAre DEF DiskInv
<1>5. /\ log'[f] = Append(log[f], l) /\ \A g \in Logs : g # f => log'[g] = log[g]
      /\ Append(log[f], l) \in Seq(Levels) /\ Len(log'[f]) = n + 1
      /\ \A i \in 1..n : log'[f][i] = log[f][i]
  <2>1. log'[f] = Append(log[f], l) /\ \A g \in Logs : g # f => log'[g] = log[g]
    BY <1>1, <1>3 DEF DiskInv
  <2> HIDE DEF Levels
  <2>2. Append(log[f], l) \in Seq(Levels) /\ Len(Append(log[f], l)) = Len(log[f]) + 1
        /\ \A i \in 1..Len(log[f]) : Append(log[f], l)[i] = log[f][i]
    BY <1>4
  <2> QED BY <2>1, <2>2
<1>6. log' \in [Logs -> Seq(Levels)] /\ torn' \in [Logs -> BOOLEAN]
  BY <1>1, <1>2, <1>3, <1>5 DEF DiskInv
<1>7. Marks' = Marks \cup {<<f, n + 1>>} /\ <<f, n + 1>> \notin Marks
  <2>1. \A g \in Logs : DOMAIN log[g] = 1..Len(log[g])
    BY <1>3, MarksAre
  <2>2. DOMAIN log'[f] = 1..(n + 1)
    <3>1. log'[f] \in Seq(Levels)
      BY <1>5
    <3> HIDE DEF Levels
    <3> QED BY <1>5, <3>1
  <2>3. DOMAIN log[f] = 1..n
    BY <2>1
  <2> HIDE DEF n
  <2>4. 1..(n + 1) = (1..n) \cup {n + 1} /\ n + 1 \notin 1..n
    BY <1>4
  <2>5. \A g \in Logs : g # f => DOMAIN log'[g] = DOMAIN log[g]
    BY <1>5
  <2>6. \A x : x \in Marks' <=> \E g \in Logs : x \in {g} \X DOMAIN log'[g]
    BY DEF Marks
  <2>7. \A x : x \in Marks <=> \E g \in Logs : x \in {g} \X DOMAIN log[g]
    BY DEF Marks
  <2>8. ASSUME NEW x PROVE x \in Marks' <=> x \in Marks \/ x = <<f, n + 1>>
    <3>1. x \in {f} \X DOMAIN log'[f] <=> x \in {f} \X DOMAIN log[f] \/ x = <<f, n + 1>>
      BY <2>2, <2>3, <2>4
    <3> QED BY <2>5, <2>6, <2>7, <3>1
  <2>9. <<f, n + 1>> \notin Marks
    <3>1. \A g \in Logs : <<f, n + 1>> \in {g} \X DOMAIN log[g] => n + 1 \in DOMAIN log[f]
      OBVIOUS
    <3> QED BY <2>3, <2>4, <2>7, <3>1
  <2> QED BY <2>8, <2>9
<1>8. Written' <= MaxLines
  <2>1. /\ IsFiniteSet(Marks) /\ Written = Cardinality(Marks) /\ Written \in Nat
        /\ Written' = Cardinality(Marks')
    BY <1>3, MarksAre DEF Written, Marks
  <2>2. Cardinality(Marks') = Cardinality(Marks) + 1
    BY <1>7, <2>1, FS_AddElement
  <2>3. MaxLines \in Nat
    BY MonitorConstants
  <2> QED BY <1>2, <2>1, <2>2, <2>3
<1>9. DiskInv'
  <2>1. \A g \in Logs : torn'[g] => log'[g] # << >>
    <3> TAKE g \in Logs
    <3>1. CASE g = f
      <4>1. Len(log'[f]) # 0
        BY <1>4, <1>5
      <4> QED BY <3>1, <4>1
    <3>2. CASE g # f
      <4>1. torn'[g] = torn[g] /\ log'[g] = log[g]
        BY <1>2, <1>3, <1>5, <3>2 DEF DiskInv
      <4> QED BY <1>3, <4>1 DEF DiskInv
    <3> QED BY <3>1, <3>2
  <2> QED BY <1>2, <1>3, <1>6, <1>8, <2>1 DEF DiskInv
<1>10. \A g \in Logs : /\ Complete(g)' = Complete(g) /\ Complete(g) \in Nat
                       /\ \A i \in 1..Complete(g) : log'[g][i] = log[g][i]
  <2> TAKE g \in Logs
  <2>1. Complete(g) \in Nat /\ Complete(g) <= Len(log[g]) /\ Len(log[g]) \in Nat
    BY <1>3, CompleteIs
  <2>2. CASE g # f
    <3>1. torn'[g] = torn[g] /\ log'[g] = log[g]
      BY <1>2, <1>3, <1>5, <2>2 DEF DiskInv
    <3> QED BY <2>1, <3>1 DEF Complete
  <2>3. CASE g = f
    <3>1. torn'[f] /\ ~torn[f]
      BY <1>2, <1>3 DEF DiskInv
    <3>2. Complete(f) = n - 0 /\ Complete(f)' = n + 1 - 1
      BY <1>5, <3>1 DEF Complete
    <3>3. Complete(f) = n /\ Complete(f)' = n
      <4> HIDE DEF n
      <4> QED BY <1>4, <3>2
    <3> QED BY <1>4, <1>5, <2>3, <3>3
  <2> QED BY <2>2, <2>3
<1>11. IndexInv'
  <2>1. \A g \in Logs : Complete(g) <= Complete(g)' /\ Complete(g)' \in Nat
    BY <1>10
  <2> QED BY <1>2, <1>3, <1>10, <2>1, FilesKeep
<1>12. PagesInv'
  BY <1>2, <1>3, PagesKeep DEF pageVars, PagesInv
<1> QED BY <1>9, <1>11, <1>12 DEF MonitorInv

\* The other steps of the runs and of the disk change no line.
LEMMA DiskKeeps ==
  ASSUME MonitorInv, UNCHANGED <<log, indexVars, pageVars>>, vanished' = vanished,
         there' \in [Logs -> BOOLEAN], copy' \in [Logs -> 0..2], torn' \in [Logs -> BOOLEAN],
         \A f \in Logs : (there'[f] => copy'[f] # 0) /\ (torn'[f] => torn[f])
  PROVE  MonitorInv'
<1>1. DiskInv /\ IndexInv /\ PagesInv
  BY DEF MonitorInv
<1>2. Written' = Written
  BY DEF Written
<1>3. DiskInv'
  BY <1>1, <1>2 DEF DiskInv
<1>4. \A f \in Logs : /\ Complete(f) <= Complete(f)' /\ Complete(f) \in Nat
                      /\ Complete(f)' \in Nat
  <2> TAKE f \in Logs
  <2> DEFINE l == Len(log[f])
  <2>1. l \in Nat /\ Complete(f) \in Nat
    BY <1>1, MarksAre, CompleteIs
  <2>2. /\ Complete(f) = l - (IF torn[f] THEN 1 ELSE 0)
        /\ Complete(f)' = l - (IF torn'[f] THEN 1 ELSE 0)
    BY DEF Complete
  <2>3. torn'[f] => torn[f]
    OBVIOUS
  <2> HIDE DEF l
  <2>4. Complete(f)' = Complete(f) \/ (Complete(f) = l - 1 /\ Complete(f)' = l)
    <3>1. CASE torn[f] /\ ~torn'[f]
      BY <2>1, <2>2, <3>1
    <3>2. CASE torn[f] /\ torn'[f]
      <4>1. Complete(f)' = l - 1 /\ Complete(f) = l - 1
        BY <2>2, <3>2
      <4> QED BY <4>1
    <3>3. CASE ~torn[f] /\ ~torn'[f]
      <4>1. Complete(f)' = l - 0 /\ Complete(f) = l - 0
        BY <2>2, <3>3
      <4> QED BY <4>1
    <3> QED BY <2>3, <3>1, <3>2, <3>3
  <2> DEFINE a == Complete(f)
             b == Complete(f)'
  <2> HIDE DEF a, b
  <2>5. a \in Nat /\ (b = a \/ (a = l - 1 /\ b = l))
    BY <2>1, <2>4 DEF a, b
  <2>6. a <= b /\ b \in Nat
    BY <2>1, <2>5
  <2> QED BY <2>5, <2>6 DEF a, b
<1>5. IndexInv'
  BY <1>1, <1>4, FilesKeep
<1>6. PagesInv'
  BY <1>1, PagesKeep DEF pageVars, PagesInv
<1> QED BY <1>3, <1>5, <1>6 DEF MonitorInv

\* Two indexes agree up to a place.
Agree(s, t, m) == \A n \in 1..m : t[n] = s[n]

LEMMA OfAgrees ==
  ASSUME NEW s, NEW t, NEW i \in Nat, NEW j \in Nat, NEW m \in Nat, j <= m, Agree(s, t, m)
  PROVE  Of(t, i, j) = Of(s, i, j)
<1>1. \A n \in 1..m : t[n] = s[n]
  BY DEF Agree
<1> QED BY <1>1, OfGrows

\* What a reader has seen does not change as the index grows, and is forgotten with it.
LEMMA SeenStays ==
  ASSUME PagesInv, IndexInv, IndexInv', UNCHANGED <<cursor, seen, ends, onward, vanished>>,
         request' \in [Endpoints -> SUBSET (Logs \X (1..2))],
         \/ generation' = 0 /\ generations' = generations
         \/ generation' = generations + 1 /\ generations' = generations + 1
         \/ /\ generation' = generation /\ generations' = generations
            /\ Len(lines) <= Len(lines') /\ \A i \in 1..Len(lines) : lines'[i] = lines[i]
  PROVE  PagesInv'
<1>1. /\ cursor \in (0..generations) \X (0..MaxLines) /\ generations \in Nat
      /\ ends \in 0..MaxLines /\ {onward, vanished} \subseteq BOOLEAN /\ MaxLines \in Nat
      /\ Len(lines) \in Nat /\ Len(lines') \in Nat
  BY MonitorConstants DEF PagesInv, IndexInv
<1>2. cursor' \in (0..generations') \X (0..MaxLines)
  BY <1>1
<1>3. ASSUME cursor'[1] = generation', generation' # 0
      PROVE  /\ generation' = generation /\ cursor[1] = generation /\ generation # 0
             /\ Len(lines) <= Len(lines') /\ \A i \in 1..Len(lines) : lines'[i] = lines[i]
  <2>1. cursor[1] \in 0..generations /\ cursor' = cursor
    BY <1>1
  <2>2. generation' # generations + 1
    BY <1>1, <1>3, <2>1
  <2> QED BY <1>3, <2>1, <2>2
<1>4. ASSUME cursor'[1] = generation', generation' # 0
      PROVE  /\ cursor'[2] <= Len(lines')
             /\ onward' => seen' = Of(lines', 0, cursor'[2])
             /\ ~onward' => /\ cursor'[2] <= ends' /\ ends' <= Len(lines')
                            /\ seen' = Of(lines', cursor'[2], ends')
  <2>1. /\ cursor[2] <= Len(lines)
        /\ onward => seen = Of(lines, 0, cursor[2])
        /\ ~onward => /\ cursor[2] <= ends /\ ends <= Len(lines)
                      /\ seen = Of(lines, cursor[2], ends)
    BY <1>3, <1>4 DEF PagesInv
  <2>2. cursor[2] \in Nat /\ ends \in Nat
    BY <1>1
  <2>3. Len(lines) <= Len(lines') /\ \A i \in 1..Len(lines) : lines'[i] = lines[i]
    BY <1>3, <1>4
  <2>4. cursor[2] <= Len(lines')
    BY <1>1, <2>1, <2>2, <2>3
  <2>5. Of(lines', 0, cursor[2]) = Of(lines, 0, cursor[2])
    <3> DEFINE s == lines
               t == lines'
               m == Len(lines)
               c == cursor[2]
    <3>1. c \in Nat /\ m \in Nat /\ 0 \in Nat /\ c <= m /\ Agree(s, t, m)
      BY <1>1, <2>1, <2>2, <2>3 DEF Agree
    <3> HIDE DEF s, t, m, c
    <3>2. Of(t, 0, c) = Of(s, 0, c)
      BY <3>1, OfAgrees
    <3> QED BY <3>2 DEF s, t, c
  <2>6. CASE ~onward
    <3>2. Of(lines', cursor[2], ends) = Of(lines, cursor[2], ends)
      <4> DEFINE s == lines
                 t == lines'
                 m == Len(lines)
                 c == cursor[2]
      <4>1. /\ c \in Nat /\ m \in Nat /\ ends \in Nat /\ ends <= m
            /\ Agree(s, t, m)
        BY <1>1, <2>1, <2>2, <2>3, <2>6 DEF Agree
      <4> HIDE DEF s, t, m, c
      <4>2. Of(t, c, ends) = Of(s, c, ends)
        BY <4>1, OfAgrees
      <4> QED BY <4>2 DEF s, t, c
    <3>3. ends <= Len(lines')
      BY <1>1, <2>1, <2>2, <2>3, <2>6
    <3> QED BY <2>1, <2>4, <2>6, <3>2, <3>3
  <2>7. CASE onward
    BY <2>1, <2>4, <2>5, <2>7
  <2> QED BY <2>6, <2>7
<1> QED BY <1>1, <1>2, <1>4 DEF PagesInv

\* What the endpoints know of a request that can be answered.
LEMMA RequestIs ==
  ASSUME MonitorInv, NEW q \in Endpoints, Readable(q), Refresh(Files(q)), Answers(q),
         UNCHANGED <<diskVars, vanished>>
  PROVE  /\ DiskInv' /\ IndexInv' /\ generation' # 0
         /\ \/ generation' = generations + 1 /\ generations' = generations + 1
            \/ /\ generation' = generation /\ generations' = generations
               /\ Len(lines) <= Len(lines') /\ \A i \in 1..Len(lines) : lines'[i] = lines[i]
         /\ request' \in [Endpoints -> SUBSET (Logs \X (1..2))]
<1>1. DiskInv /\ IndexInv /\ PagesInv
  BY DEF MonitorInv
<1>2. request \in [Endpoints -> SUBSET (Logs \X (1..2))]
  BY <1>1 DEF PagesInv
<1>3. Files(q) \in SUBSET Logs
  BY <1>2 DEF Files
<1>4. DiskInv'
  BY <1>1 DEF DiskInv, diskVars, Written
<1>5. request' \in [Endpoints -> SUBSET (Logs \X (1..2))]
  BY <1>2 DEF Answers
<1> QED BY <1>1, <1>3, <1>4, <1>5, RefreshKeeps

\* A reader goes on from its cursor.
LEMMA OnwardKeeps == MonitorInv /\ PageOnward => MonitorInv'
<1> SUFFICES ASSUME MonitorInv, PageOnward PROVE MonitorInv'
  OBVIOUS
<1>1. /\ onward /\ Readable("page") /\ Refresh(Files("page")) /\ Answers("page")
      /\ seen' = Kept \o Shown(Onwards) /\ cursor' = <<generation', NextCursor(Onwards)>>
      /\ UNCHANGED <<diskVars, ends, onward, vanished>>
  BY DEF PageOnward
<1>2. /\ DiskInv' /\ IndexInv' /\ generation' # 0
      /\ \/ generation' = generations + 1 /\ generations' = generations + 1
         \/ /\ generation' = generation /\ generations' = generations
            /\ Len(lines) <= Len(lines') /\ \A i \in 1..Len(lines) : lines'[i] = lines[i]
      /\ request' \in [Endpoints -> SUBSET (Logs \X (1..2))]
  BY <1>1, RequestIs DEF Endpoints
<1>3. PagesInv /\ IndexInv
  BY DEF MonitorInv
<1> DEFINE from == IF Anew THEN 0 ELSE cursor[2]
           to == Len(lines')
           next == NextCursor(Onwards)
<1>4. to \in Nat /\ to <= MaxLines /\ MaxLines \in Nat
  <2>0. (DiskInv /\ IndexInv => Len(lines) \in Nat /\ Len(lines) <= MaxLines)'
    BY LinesBound, PTL
  <2>1. DiskInv' /\ IndexInv' => Len(lines') \in Nat /\ Len(lines') <= MaxLines
    BY <2>0
  <2> QED BY <1>2, <2>1, MonitorConstants
<1>5. /\ from \in Nat /\ from <= to
      /\ IF Anew THEN Kept = << >> ELSE Kept = Of(lines', 0, from)
  <2>1. CASE Anew
    BY <1>4, <2>1 DEF Kept
  <2>2. CASE ~Anew
    <3>1. cursor[1] = generation' /\ cursor[1] \in 0..generations /\ generations \in Nat
          /\ cursor[2] \in Nat
      BY <1>3, <2>2 DEF Anew, PagesInv, IndexInv
    <3>2. /\ generation' = generation /\ Len(lines) <= Len(lines')
          /\ \A i \in 1..Len(lines) : lines'[i] = lines[i]
      BY <1>2, <3>1
    <3>3. generation' # 0
      BY <1>2
    <3>4. cursor[2] <= Len(lines) /\ seen = Of(lines, 0, cursor[2])
      BY <1>1, <1>3, <3>1, <3>2, <3>3 DEF PagesInv
    <3>5. Len(lines) \in Nat
      BY <1>3 DEF IndexInv
    <3>7. Of(lines', 0, cursor[2]) = Of(lines, 0, cursor[2])
      <4> DEFINE s == lines
                 t == lines'
                 m == Len(lines)
                 c == cursor[2]
      <4>1. c \in Nat /\ m \in Nat /\ 0 \in Nat /\ c <= m /\ Agree(s, t, m)
        BY <3>1, <3>2, <3>4, <3>5 DEF Agree
      <4> HIDE DEF s, t, m, c
      <4>2. Of(t, 0, c) = Of(s, 0, c)
        BY <4>1, OfAgrees
      <4> QED BY <4>2 DEF s, t, c
    <3> QED BY <1>4, <2>2, <3>1, <3>2, <3>4, <3>5, <3>7 DEF Kept
  <2> QED BY <2>1, <2>2
<1> HIDE DEF from, to, next
<1>6. next \in from..to /\ Lines(lines', Onwards) = Of(lines', from, next)
  <2> DEFINE all == Ascending(Level(lines', from, to))
  <2>1. Onwards = SubSeq(all, 1, IF Len(all) < Limit THEN Len(all) ELSE Limit)
    BY DEF Onwards, Eligible, Level, from, to
  <2>2. next = IF Onwards = << >> THEN to ELSE Onwards[Len(Onwards)]
    BY DEF next, NextCursor, to
  <2> DEFINE s == lines'
             page == Onwards
  <2> HIDE DEF all, s, page
  <2>3. /\ from \in Nat /\ to \in Nat /\ from <= to /\ PageOn(s, from, to, page, next)
    BY <1>4, <1>5, <2>1, <2>2 DEF all, s, page, PageOn
  <2>4. next \in from..to /\ Lines(s, page) = Of(s, from, next)
    BY <2>3, PageOnIs
  <2> QED BY <2>4 DEF s, page
<1>7. seen' = Of(lines', 0, next)
  <2>1. Shown(Onwards) = Of(lines', from, next)
    BY <1>6 DEF Shown, Lines
  <2>2. CASE Anew
    <3>1. from = 0 /\ next \in Nat
      BY <1>4, <1>5, <1>6, <2>2 DEF from
    <3>2. << >> \o Of(lines', 0, next) = Of(lines', 0, next)
      BY <3>1, OfNothing
    <3> QED BY <1>1, <1>5, <2>1, <2>2, <3>1, <3>2
  <2>3. CASE ~Anew
    <3>1. Kept = Of(lines', 0, from)
      BY <1>5, <2>3
    <3>2. next \in Nat /\ 0 <= from /\ from <= next
      BY <1>4, <1>5, <1>6
    <3>3. Of(lines', 0, next) = Of(lines', 0, from) \o Of(lines', from, next)
      BY <1>5, <3>2, OfMeets
    <3> QED BY <1>1, <2>1, <3>1, <3>3
  <2> QED BY <2>2, <2>3
<1>8. PagesInv'
  <2>1. cursor' = <<generation', next>>
    BY <1>1 DEF next
  <2>2. next \in 0..MaxLines /\ next <= to
    BY <1>4, <1>5, <1>6
  <2>3. generation' \in 0..generations'
    BY <1>2 DEF IndexInv
  <2> QED BY <1>1, <1>2, <1>3, <1>7, <2>1, <2>2, <2>3 DEF PagesInv, to
<1> QED BY <1>2, <1>8 DEF MonitorInv

\* A reader goes back from its cursor.
LEMMA BackKeeps == MonitorInv /\ PageBack => MonitorInv'
<1> SUFFICES ASSUME MonitorInv, PageBack PROVE MonitorInv'
  OBVIOUS
<1>1. /\ ~onward /\ Readable("page") /\ Refresh(Files("page")) /\ Answers("page")
      /\ seen' = Shown(Backwards) \o Kept /\ ends' = IF Anew THEN End ELSE ends
      /\ cursor' = <<generation', BeforeCursor(Backwards)>>
      /\ UNCHANGED <<diskVars, onward, vanished>>
  BY DEF PageBack
<1>2. /\ DiskInv' /\ IndexInv' /\ generation' # 0
      /\ \/ generation' = generations + 1 /\ generations' = generations + 1
         \/ /\ generation' = generation /\ generations' = generations
            /\ Len(lines) <= Len(lines') /\ \A i \in 1..Len(lines) : lines'[i] = lines[i]
      /\ request' \in [Endpoints -> SUBSET (Logs \X (1..2))]
  BY <1>1, RequestIs DEF Endpoints
<1>3. PagesInv /\ IndexInv
  BY DEF MonitorInv
<1> DEFINE len == Len(lines')
           to == End
           before == BeforeCursor(Backwards)
           last == ends'
<1>4. len \in Nat /\ len <= MaxLines /\ MaxLines \in Nat
  <2>0. (DiskInv /\ IndexInv => Len(lines) \in Nat /\ Len(lines) <= MaxLines)'
    BY LinesBound, PTL
  <2>1. DiskInv' /\ IndexInv' => Len(lines') \in Nat /\ Len(lines') <= MaxLines
    BY <2>0
  <2> QED BY <1>2, <2>1, MonitorConstants
<1>5. /\ to \in Nat /\ last \in Nat /\ to <= last /\ last <= len
      /\ IF Anew THEN Kept = << >> /\ to = last ELSE Kept = Of(lines', to, last)
  <2>1. CASE Anew
    <3>1. to = len /\ last = len /\ Kept = << >>
      BY <1>1, <2>1 DEF Kept, End
    <3> HIDE DEF to, last, len
    <3> QED BY <1>4, <2>1, <3>1
  <2>2. CASE ~Anew
    <3>0. to = cursor[2] /\ last = ends /\ Kept = seen
      BY <1>1, <2>2 DEF Kept, End
    <3>1. cursor[1] = generation' /\ cursor[1] \in 0..generations /\ generations \in Nat
          /\ cursor[2] \in Nat /\ ends \in Nat
      BY <1>3, <2>2 DEF Anew, PagesInv, IndexInv
    <3>2. /\ generation' = generation /\ Len(lines) <= Len(lines')
          /\ \A i \in 1..Len(lines) : lines'[i] = lines[i]
      BY <1>2, <3>1
    <3>3. generation' # 0
      BY <1>2
    <3>4. cursor[2] <= ends /\ ends <= Len(lines) /\ seen = Of(lines, cursor[2], ends)
      BY <1>1, <1>3, <3>1, <3>2, <3>3 DEF PagesInv
    <3>5. Len(lines) \in Nat
      BY <1>3 DEF IndexInv
    <3>7. Of(lines', cursor[2], ends) = Of(lines, cursor[2], ends)
      <4> DEFINE s == lines
                 t == lines'
                 m == Len(lines)
                 c == cursor[2]
                 e == ends
      <4>1. c \in Nat /\ m \in Nat /\ e \in Nat /\ e <= m /\ Agree(s, t, m)
        BY <3>1, <3>2, <3>4, <3>5 DEF Agree
      <4> HIDE DEF s, t, m, c, e
      <4>2. Of(t, c, e) = Of(s, c, e)
        BY <4>1, OfAgrees
      <4> QED BY <4>2 DEF s, t, c, e
    <3>8. to \in Nat /\ last \in Nat /\ to <= last /\ last <= len
      <4> HIDE DEF to, last
      <4> QED BY <1>4, <3>0, <3>1, <3>2, <3>4, <3>5
    <3>9. Kept = Of(lines', to, last)
      BY <3>0, <3>4, <3>7
    <3> QED BY <2>2, <3>8, <3>9
  <2> QED BY <2>1, <2>2
<1> HIDE DEF to, before, last, len
<1>6. before \in 0..to /\ Lines(lines', Backwards) = Of(lines', before, to)
  <2> DEFINE all == Ascending(Level(lines', 0, to))
             s == lines'
             page == Backwards
  <2>1. Backwards = SubSeq(all, IF Len(all) < Limit THEN 1 ELSE Len(all) - Limit + 1, Len(all))
    BY DEF Backwards, Eligible, Level, to
  <2>2. before = IF Backwards = << >> THEN to ELSE Head(Backwards) - 1
    BY DEF before, BeforeCursor, to
  <2> HIDE DEF all, s, page
  <2>3. PageBefore(s, to, page, before)
    BY <2>1, <2>2 DEF all, s, page, PageBefore
  <2>4. before \in 0..to /\ Lines(s, page) = Of(s, before, to)
    BY <1>5, <2>3, PageBeforeIs
  <2> QED BY <2>4 DEF s, page
<1>7. before \in Nat /\ before <= to /\ before <= last
  <2>1. before \in Nat /\ before <= to
    BY <1>5, <1>6
  <2> QED BY <1>5, <2>1
<1>8. seen' = Of(lines', before, last)
  <2>1. Shown(Backwards) = Of(lines', before, to)
    BY <1>6 DEF Shown, Lines
  <2>2. CASE Anew
    <3>1. Of(lines', before, to) \o << >> = Of(lines', before, to)
      BY <1>5, <1>7, OfNothing
    <3> QED BY <1>1, <1>5, <2>1, <2>2, <3>1
  <2>3. CASE ~Anew
    <3>1. Of(lines', before, last) = Of(lines', before, to) \o Of(lines', to, last)
      BY <1>5, <1>7, OfMeets
    <3> QED BY <1>1, <1>5, <2>1, <2>3, <3>1
  <2> QED BY <2>2, <2>3
<1>9. PagesInv'
  <2>1. cursor' = <<generation', before>> /\ ends' = last
    BY <1>1 DEF before, last
  <2>2. before \in 0..MaxLines /\ before <= len /\ last \in 0..MaxLines
    BY <1>4, <1>5, <1>7
  <2>3. generation' \in 0..generations'
    BY <1>2 DEF IndexInv
  <2>4. Len(lines') = len
    BY DEF len
  <2>5. onward' = onward /\ vanished' = vanished /\ {onward, vanished} \subseteq BOOLEAN
    BY <1>1, <1>3 DEF PagesInv
  <2>6. cursor'[1] = generation' /\ cursor'[2] = before
        /\ cursor' \in (0..generations') \X (0..MaxLines)
    BY <2>1, <2>2, <2>3
  <2> QED BY <1>1, <1>2, <1>5, <1>7, <1>8, <2>1, <2>2, <2>4, <2>5, <2>6 DEF PagesInv
<1> QED BY <1>2, <1>9 DEF MonitorInv

\* The summary.
LEMMA SummariseKeeps == MonitorInv /\ Summarise => MonitorInv'
<1> SUFFICES ASSUME MonitorInv, Summarise PROVE MonitorInv'
  OBVIOUS
<1>1. /\ Readable("summary") /\ Refresh(Files("summary")) /\ Answers("summary")
      /\ UNCHANGED <<diskVars, cursor, seen, ends, onward, vanished>>
  BY DEF Summarise
<1>2. UNCHANGED <<diskVars, vanished>> /\ UNCHANGED <<cursor, seen, ends, onward, vanished>>
  BY <1>1
<1>3. /\ DiskInv' /\ IndexInv'
      /\ \/ generation' = generations + 1 /\ generations' = generations + 1
         \/ /\ generation' = generation /\ generations' = generations
            /\ Len(lines) <= Len(lines') /\ \A i \in 1..Len(lines) : lines'[i] = lines[i]
      /\ request' \in [Endpoints -> SUBSET (Logs \X (1..2))]
  BY <1>1, <1>2, RequestIs DEF Endpoints
<1>4. PagesInv'
  BY <1>2, <1>3, SeenStays DEF MonitorInv
<1> QED BY <1>3, <1>4 DEF MonitorInv

\* The index is discarded.
LEMMA EvictKeeps == MonitorInv /\ EvictIndex => MonitorInv'
<1> SUFFICES ASSUME MonitorInv, EvictIndex PROVE MonitorInv'
  OBVIOUS
<1>1. /\ generation' = 0 /\ streams' = [f \in Logs |-> <<0, 0>>]
      /\ lines' = << >> /\ latest' = [f \in Logs |-> 0]
      /\ UNCHANGED <<diskVars, generations, pageVars, vanished>>
  BY DEF EvictIndex
<1>2. DiskInv /\ IndexInv /\ PagesInv
  BY DEF MonitorInv
<1>3. DiskInv'
  BY <1>1, <1>2 DEF DiskInv, diskVars, Written
<1>4. \A f \in Logs : Complete(f) \in Nat /\ Complete(f)' = Complete(f)
  BY <1>1, <1>2, CompleteIs DEF Complete, diskVars
<1>5. IndexInv'
  <2>1. generation' \in 0..generations' /\ generations' \in 0..MaxIndexes
    BY <1>1, <1>2 DEF IndexInv
  <2>2. /\ streams' \in [Logs -> (0..2) \X Nat] /\ latest' \in [Logs -> Nat]
        /\ \A f \in Logs : streams'[f][2] = 0 /\ latest'[f] = 0
    BY <1>1
  <2>3. \A f \in Logs : streams'[f][2] <= Complete(f)' /\ latest'[f] <= Complete(f)'
    BY <1>4, <2>2
  <2>4. lines' \in Seq(Logs \X Nat \X Levels) /\ 1..Len(lines') = {}
    BY <1>1
  <2>5. \A f \in Logs : 1..streams'[f][2] = {}
    BY <2>2
  <2> QED BY <2>1, <2>2, <2>3, <2>4, <2>5 DEF IndexInv
<1>6. PagesInv'
  <2>1. UNCHANGED <<cursor, seen, ends, onward, vanished>> /\ request' = request
    BY <1>1 DEF pageVars
  <2>2. request' \in [Endpoints -> SUBSET (Logs \X (1..2))]
    BY <1>2, <2>1 DEF PagesInv
  <2> QED BY <1>1, <1>2, <1>5, <2>1, <2>2, SeenStays
<1> QED BY <1>3, <1>5, <1>6 DEF MonitorInv

\* A file goes away while it is being read: what the index holds is still true.
LEMMA VanishKeeps ==
  ASSUME MonitorInv, NEW q \in Endpoints, NEW f \in Logs, FileVanishes(q, f)
  PROVE  MonitorInv'
<1>1. DiskInv /\ IndexInv /\ PagesInv
  BY DEF MonitorInv
<1>2. /\ there' = [there EXCEPT ![f] = FALSE] /\ vanished' = TRUE
      /\ request' = [request EXCEPT ![q] = {}]
      /\ UNCHANGED <<log, torn, copy, generation, generations, lines, latest, cursor, seen,
                     ends, onward>>
  BY DEF FileVanishes, Answers
<1>3. DiskInv'
  BY <1>1, <1>2 DEF DiskInv, Written
<1>4. \A g \in Logs : Complete(g) \in Nat /\ Complete(g)' = Complete(g)
  BY <1>1, <1>2, CompleteIs DEF Complete
<1>5. /\ streams' \in [Logs -> (0..2) \X Nat]
      /\ \A g \in Logs : streams[g][2] <= streams'[g][2] /\ streams'[g][2] <= Complete(g)
  <2>1. /\ streams \in [Logs -> (0..2) \X Nat] /\ copy \in [Logs -> 0..2]
        /\ \A g \in Logs : streams[g][2] <= Complete(g)
    BY <1>1 DEF IndexInv, DiskInv
  <2>2. PICK taken \in SUBSET (Files(q) \ {f}) :
          streams' = IF Outdated(Files(q)) THEN streams
                     ELSE [g \in Logs |-> IF g \in taken THEN <<copy[g], Consumed(g)>>
                                          ELSE streams[g]]
    BY DEF FileVanishes
  <2>3. CASE Outdated(Files(q))
    <3>1. streams' = streams
      BY <2>2, <2>3
    <3>2. \A g \in Logs : streams[g][2] \in Nat
      BY <2>1
    <3> QED BY <2>1, <3>1, <3>2
  <2>4. CASE ~Outdated(Files(q))
    <3>1. streams' = [g \in Logs |-> IF g \in taken THEN <<copy[g], Complete(g)>> ELSE streams[g]]
      BY <2>2, <2>4 DEF Consumed
    <3>2. ASSUME NEW g \in Logs
          PROVE  /\ streams'[g] \in (0..2) \X Nat
                 /\ streams[g][2] <= streams'[g][2] /\ streams'[g][2] <= Complete(g)
      <4>1. /\ streams[g] \in (0..2) \X Nat /\ copy[g] \in 0..2
            /\ streams[g][2] <= Complete(g) /\ Complete(g) \in Nat
        BY <1>4, <2>1
      <4>2. CASE g \in taken
        <5>1. streams'[g] = <<copy[g], Complete(g)>>
          BY <3>1, <4>2
        <5> QED BY <4>1, <5>1
      <4>3. CASE g \notin taken
        <5>1. streams'[g] = streams[g] /\ streams[g][2] \in Nat
          BY <3>1, <4>1, <4>3
        <5> QED BY <4>1, <5>1
      <4> QED BY <4>2, <4>3
    <3> QED BY <3>1, <3>2
  <2> QED BY <2>3, <2>4
<1>6. IndexInv'
  <2>1. generation' \in 0..generations' /\ generations' \in 0..MaxIndexes
    BY <1>1, <1>2 DEF IndexInv
  <2>2. /\ streams' \in [Logs -> (0..2) \X Nat] /\ latest' \in [Logs -> Nat]
        /\ \A g \in Logs : streams'[g][2] <= Complete(g)' /\ latest'[g] <= Complete(g)'
    BY <1>1, <1>2, <1>4, <1>5 DEF IndexInv
  <2>3. lines' \in Seq(Logs \X Nat \X Levels)
    BY <1>1, <1>2 DEF IndexInv
  <2>4. \A i \in 1..Len(lines'), k \in 1..Len(lines') :
          lines'[i][1] = lines'[k][1] /\ lines'[i][2] = lines'[k][2] => i = k
    BY <1>1, <1>2 DEF IndexInv
  <2>5. ASSUME NEW i \in 1..Len(lines')
        PROVE  \E g \in Logs : \E n \in 1..streams'[g][2] : From(i, g, n)'
    <3>1. i \in 1..Len(lines)
      BY <1>2
    <3>2. PICK g \in Logs : \E n \in 1..streams[g][2] : From(i, g, n)
      BY <1>1, <3>1 DEF IndexInv
    <3>3. PICK n \in 1..streams[g][2] : From(i, g, n)
      BY <3>2
    <3>4. streams[g][2] \in Nat /\ streams'[g][2] \in Nat /\ streams[g][2] <= streams'[g][2]
      <4>1. streams[g] \in (0..2) \X Nat /\ streams'[g] \in (0..2) \X Nat
        BY <1>1, <1>5 DEF IndexInv
      <4> QED BY <1>5, <4>1
    <3>5. n \in 1..streams'[g][2]
      BY <3>4
    <3>6. From(i, g, n)'
      BY <1>2, <3>3 DEF From
    <3> QED BY <3>5, <3>6
  <2> QED BY <1>2, <2>1, <2>2, <2>3, <2>4, <2>5 DEF IndexInv
<1>7. PagesInv'
  <2>1. request' \in [Endpoints -> SUBSET (Logs \X (1..2))]
    BY <1>1, <1>2 DEF PagesInv
  <2> QED BY <1>1, <1>2, <2>1 DEF PagesInv
<1> QED BY <1>3, <1>6, <1>7 DEF MonitorInv

\* A request lists the files, or raises because one of them is gone.
LEMMA AskKeeps ==
  ASSUME MonitorInv, NEW q \in Endpoints, ListFiles(q) \/ RequestRaises(q)
  PROVE  MonitorInv'
<1>1. DiskInv /\ IndexInv /\ PagesInv
  BY DEF MonitorInv
<1>2. UNCHANGED <<diskVars, indexVars, cursor, seen, ends, onward, vanished>>
  BY DEF ListFiles, RequestRaises
<1>3. request \in [Endpoints -> SUBSET (Logs \X (1..2))]
  BY <1>1 DEF PagesInv
<1>4. request' \in [Endpoints -> SUBSET (Logs \X (1..2))]
  <2>1. CASE ListFiles(q)
    <3>1. request' = [request EXCEPT ![q] = {<<f, copy[f]>> : f \in {g \in Logs : there[g]}}]
      BY <2>1 DEF ListFiles
    <3>2. \A f \in Logs : copy[f] \in 0..2 /\ (there[f] => copy[f] # 0)
      BY <1>1 DEF DiskInv
    <3>3. \A f \in Logs : there[f] => copy[f] \in 1..2
      BY <3>2
    <3>4. {<<f, copy[f]>> : f \in {g \in Logs : there[g]}} \in SUBSET (Logs \X (1..2))
      BY <3>3
    <3> QED BY <1>3, <3>1, <3>4
  <2>2. CASE RequestRaises(q)
    BY <1>3, <2>2 DEF RequestRaises, Answers
  <2> QED BY <2>1, <2>2
<1>5. DiskInv'
  BY <1>1, <1>2 DEF DiskInv, diskVars, Written
<1>6. IndexInv'
  <2>1. \A f \in Logs : Complete(f) \in Nat /\ Complete(f)' = Complete(f)
    BY <1>1, <1>2, CompleteIs DEF Complete, diskVars
  <2>2. \A f \in Logs : Complete(f) <= Complete(f)' /\ Complete(f) \in Nat /\ Complete(f)' \in Nat
    BY <2>1
  <2>3. \A f \in Logs : \A n \in 1..Complete(f) : log'[f][n] = log[f][n]
    BY <1>2 DEF diskVars
  <2> QED BY <1>1, <1>2, <2>2, <2>3, FilesKeep
<1>7. PagesInv'
  BY <1>1, <1>2, <1>4, PagesKeep
<1> QED BY <1>5, <1>6, <1>7 DEF MonitorInv

\* A file is made, its last line is ended, and the files are replaced by copies.
LEMMA FilesChange ==
  ASSUME MonitorInv, (\E f \in Logs : OpenLog(f) \/ EndLine(f)) \/ ArchiveLogs
  PROVE  MonitorInv'
<1>1. /\ torn \in [Logs -> BOOLEAN] /\ there \in [Logs -> BOOLEAN] /\ copy \in [Logs -> 0..2]
      /\ \A f \in Logs : there[f] => copy[f] # 0
  BY DEF MonitorInv, DiskInv
<1>2. UNCHANGED <<log, indexVars, pageVars>> /\ vanished' = vanished
  BY DEF OpenLog, EndLine, ArchiveLogs
<1> DEFINE Good == /\ there' \in [Logs -> BOOLEAN] /\ copy' \in [Logs -> 0..2]
                   /\ torn' \in [Logs -> BOOLEAN]
                   /\ \A f \in Logs : (there'[f] => copy'[f] # 0) /\ (torn'[f] => torn[f])
<1>3. Good
  <2>1. ASSUME NEW f \in Logs, OpenLog(f) PROVE Good
    BY <1>1, <2>1 DEF OpenLog
  <2>2. ASSUME NEW f \in Logs, EndLine(f) PROVE Good
    BY <1>1, <2>2 DEF EndLine
  <2>3. CASE ArchiveLogs
    BY <1>1, <2>3 DEF ArchiveLogs
  <2> HIDE DEF Good
  <2> QED BY <2>1, <2>2, <2>3
<1> QED BY <1>2, <1>3, DiskKeeps

LEMMA MonitorStart == MonitorInit => MonitorInv
<1> SUFFICES ASSUME MonitorInit PROVE MonitorInv
  OBVIOUS
<1> USE DEF MonitorInit
<1>1. Logs \in {Logs} /\ MaxLines \in Nat /\ MaxIndexes \in Nat
  BY MonitorConstants
<1>2. Written = 0
  <2>1. \A f \in Logs : DOMAIN log[f] = {}
    OBVIOUS
  <2>2. UNION {{f} \X DOMAIN log[f] : f \in Logs} = {}
    BY <2>1
  <2> QED BY <2>2, FS_EmptySet DEF Written
<1>3. DiskInv
  BY <1>1, <1>2 DEF DiskInv
<1>4. IndexInv
  <2>1. \A f \in Logs : Complete(f) = 0
    BY DEF Complete
  <2>2. /\ streams \in [Logs -> (0..2) \X Nat] /\ latest \in [Logs -> Nat]
        /\ \A f \in Logs : streams[f][2] = 0 /\ latest[f] = 0
    OBVIOUS
  <2>3. lines \in Seq(Logs \X Nat \X Levels) /\ 1..Len(lines) = {}
    OBVIOUS
  <2>4. \A f \in Logs : 1..streams[f][2] = {}
    BY <2>2
  <2>5. generation \in 0..generations /\ generations \in 0..MaxIndexes
    BY <1>1
  <2> QED BY <2>1, <2>2, <2>3, <2>4, <2>5 DEF IndexInv
<1>5. PagesInv
  <2>1. request \in [Endpoints -> SUBSET (Logs \X (1..2))] /\ {onward, vanished} \subseteq BOOLEAN
    OBVIOUS
  <2>2. cursor \in (0..generations) \X (0..MaxLines) /\ ends \in 0..MaxLines
    BY <1>1
  <2>3. generation = 0
    OBVIOUS
  <2> HIDE DEF MonitorInit
  <2> QED BY <2>1, <2>2, <2>3 DEF PagesInv
<1> QED BY <1>3, <1>4, <1>5 DEF MonitorInv

LEMMA MonitorStep == MonitorInv /\ [MonitorNext]_monitorVars => MonitorInv'
<1> SUFFICES ASSUME MonitorInv, [MonitorNext]_monitorVars PROVE MonitorInv'
  OBVIOUS
<1>1. ASSUME NEW f \in Logs, OpenLog(f) PROVE MonitorInv'
  BY <1>1, FilesChange
<1>2. ASSUME NEW f \in Logs, WriteLine(f) PROVE MonitorInv'
  BY <1>2, WriteKeeps
<1>3. ASSUME NEW f \in Logs, EndLine(f) PROVE MonitorInv'
  BY <1>3, FilesChange
<1>4. ASSUME NEW q \in Endpoints, ListFiles(q) \/ RequestRaises(q) PROVE MonitorInv'
  BY <1>4, AskKeeps
<1>5. ASSUME NEW q \in Endpoints, NEW f \in Logs, FileVanishes(q, f) PROVE MonitorInv'
  BY <1>5, VanishKeeps
<1>6. CASE ArchiveLogs
  BY <1>6, FilesChange
<1>7. CASE PageOnward
  BY <1>7, OnwardKeeps
<1>8. CASE PageBack
  BY <1>8, BackKeeps
<1>9. CASE Summarise
  BY <1>9, SummariseKeeps
<1>10. CASE EvictIndex
  BY <1>10, EvictKeeps
<1>11. CASE UNCHANGED monitorVars
  <2>1. DiskInv /\ IndexInv /\ PagesInv
    BY DEF MonitorInv
  <2>2. /\ UNCHANGED <<log, indexVars, pageVars>> /\ UNCHANGED <<there, copy, torn>>
        /\ vanished' = vanished
    BY <1>11 DEF monitorVars, diskVars
  <2>3. /\ there' \in [Logs -> BOOLEAN] /\ copy' \in [Logs -> 0..2] /\ torn' \in [Logs -> BOOLEAN]
        /\ \A f \in Logs : (there'[f] => copy'[f] # 0) /\ (torn'[f] => torn[f])
    BY <2>1, <2>2 DEF DiskInv
  <2> QED BY <2>2, <2>3, DiskKeeps
<1> QED BY <1>1, <1>2, <1>3, <1>4, <1>5, <1>6, <1>7, <1>8, <1>9, <1>10, <1>11 DEF MonitorNext

\* The state of the monitor is of its type.
THEOREM MonitorTypes == MonitorSpec => []MonitorTypeOK
<1> QED BY MonitorStart, MonitorStep, MonitorShows, PTL DEF MonitorSpec

-----------------------------------------------------------------------------
(* Insertions.  A request that the two threads have not met at is either   *)
(* in nobody's hands, told and counted, or in the middle of one's, with    *)
(* the rest of its way on the ladder.  The run thread is the only one that *)
(* plans, from the head of a queue of fresh requests in order of arrival.  *)

Later == {"scheduled", "transporting", "processing", "completed"}

InsertTypes ==
  /\ requests \in 0..MaxRequests /\ pending \in Seq(Requests)
  /\ phase \in [Requests -> Phases \cup {"none"}]
  /\ timeline \in [Requests -> Seq(Phases)]
  /\ announced \in [Requests -> Seq(Phases \cup {"none"})]
  /\ counted \in [Requests -> Nat]
  /\ at \in [Actors -> {"idle", "look", "climb", "read", "publish"}]
  /\ task \in [Actors -> {"none", "insert", "survey"}]
  /\ about \in [Actors -> Nat]
  /\ ladder \in [Actors -> Seq(Phases)]
  /\ envelope \in [Actors -> Phases \cup {"none"}]
  /\ target \in [Actors -> Phases \cup {"none"}]
  /\ work \in [Requests -> {"none", "idle", "moved", "worked", "done"}]

\* Who is where in what, and has phases to set.
InsertControl ==
  /\ \A p \in Actors :
       /\ at[p] = "idle" <=> task[p] = "none"
       /\ at[p] = "look" => task[p] = "survey" /\ about[p] >= 1
       /\ at[p] \notin {"idle", "look"} => about[p] \in 1..requests
       /\ at[p] \in {"idle", "look"} => ladder[p] = <<>>
  /\ task["loop"] = "insert" => ladder["loop"] = <<>>
  /\ \A r \in Requests : phase[r] = "none" <=> r > requests
  /\ \A r \in Requests : r \in crossed => r <= requests

\* A survey climbs on from what is scheduled, and to the end only if that is reached.
SurveysAreRight ==
  \A p \in Actors : task[p] = "survey" /\ at[p] # "look" =>
    /\ phase[about[p]] \in Later
    /\ \A i \in 1..Len(ladder[p]) :
         /\ ladder[p][i] \in Later \ {"scheduled"}
         /\ ladder[p][i] = "completed" => work[about[p]] = "done"

CompletedIsDone == \A r \in Requests : phase[r] = "completed" => work[r] = "done"

RunHas(r) == task["run"] = "insert" /\ about["run"] = r
FreshCall(r) == r \notin planned /\ work[r] = "none"
Refused(r) == work[r] = "none" /\ (r \in planned => r \in Clashing)

\* What the run thread has done with the request it has popped.
HandOf(r) ==
  LET todo == ladder["run"] IN
  \/ /\ todo = <<"replanning">> /\ at["run"] = "climb"
     /\ phase[r] = "queued" /\ FreshCall(r)
  \/ todo = <<>> /\ phase[r] = "replanning" /\ FreshCall(r)
  \/ /\ todo = <<"scheduled">> /\ at["run"] = "climb"
     /\ phase[r] = "replanning" /\ r \in planned
  \/ /\ todo = <<"failed">> /\ at["run"] = "climb"
     /\ phase[r] = "replanning" /\ Refused(r)
  \/ todo = <<>> /\ phase[r] \in Later \cup {"failed"}

QueueIsRight ==
  /\ \A i \in 1..Len(pending) :
       /\ pending[i] <= requests /\ phase[pending[i]] = "queued" /\ FreshCall(pending[i])
       /\ ~RunHas(pending[i])
  /\ \A i, j \in 1..Len(pending) : i < j => pending[i] < pending[j]
  /\ \A r \in Requests : phase[r] \in {"queued", "replanning"} =>
       RunHas(r) \/ \E i \in 1..Len(pending) : pending[i] = r
  /\ \A r \in Requests : RunHas(r) => HandOf(r)

PlansHold ==
  \A r \in Requests : /\ work[r] # "none" => r \in planned
                      /\ phase[r] = "failed" => Refused(r)
                      /\ r > requests => FreshCall(r)

Climbs(r) == /\ Len(timeline[r]) \in 1..6 /\ phase[r] = Life[Len(timeline[r])]
             /\ \A i \in 1..Len(timeline[r]) : timeline[r][i] = Life[i]

HasFailed(r) == timeline[r] = <<"queued", "replanning", "failed">> /\ phase[r] = "failed"

\* What p still has to set continues the timeline of r.
Ahead(p, r) ==
  \/ /\ Climbs(r) /\ Len(timeline[r]) + Len(ladder[p]) <= 6
     /\ \A i \in 1..Len(ladder[p]) : ladder[p][i] = Life[Len(timeline[r]) + i]
     /\ task[p] = "survey" => target[p] = Life[Len(timeline[r]) + Len(ladder[p])]
  \/ /\ task[p] = "insert" /\ ladder[p] = <<"failed">>
     /\ Climbs(r) /\ Len(timeline[r]) = 2
  \/ task[p] = "insert" /\ ladder[p] = <<>> /\ HasFailed(r)

\* The last phase is announced, or about to be.
Telling(p, r) ==
  /\ at[p] = "climb" => announced[r] = timeline[r]
  /\ at[p] = "read" => timeline[r] = Append(announced[r], phase[r])
  /\ at[p] = "publish" => timeline[r] = Append(announced[r], envelope[p])

InTheMiddle(p, r) == /\ Ahead(p, r) /\ Telling(p, r) /\ counted[r] = 0
                     /\ task[p] = "insert" =>
                          phase[r] \notin {"transporting", "processing", "completed"}

UncrossedHold ==
  \A r \in Requests : r \notin crossed =>
    /\ r > requests => timeline[r] = <<>> /\ announced[r] = <<>> /\ counted[r] = 0
    /\ r <= requests => Climbs(r) \/ HasFailed(r)
    /\ ~(Amid("run", r) /\ Amid("loop", r))
    /\ \A p \in Actors : Amid(p, r) => InTheMiddle(p, r)
    /\ (\A p \in Actors : ~Amid(p, r)) =>
         announced[r] = timeline[r] /\ counted[r] = IF phase[r] = "completed" THEN 1 ELSE 0

InsertInv == /\ InsertTypes /\ InsertControl /\ SurveysAreRight /\ CompletedIsDone
             /\ QueueIsRight /\ PlansHold /\ UncrossedHold

-----------------------------------------------------------------------------
LEMMA PhasesAre ==
  Phases = {"queued", "replanning", "scheduled", "transporting", "processing", "completed",
            "failed"}
BY DEF Life, Phases, ToSet

LEMMA LifeIs ==
  /\ Len(Life) = 6 /\ \A i \in 1..6 : Life[i] \in Phases
  /\ Life[1] = "queued" /\ Life[2] = "replanning" /\ Life[3] = "scheduled"
  /\ Life[4] = "transporting" /\ Life[5] = "processing" /\ Life[6] = "completed"
<1>1. /\ Len(Life) = 6
      /\ Life[1] = "queued" /\ Life[2] = "replanning" /\ Life[3] = "scheduled"
      /\ Life[4] = "transporting" /\ Life[5] = "processing" /\ Life[6] = "completed"
  BY DEF Life
<1> QED BY <1>1, PhasesAre

LEMMA RankLife == \A k \in 1..6 : Rank(Life[k]) = k
<1> SUFFICES ASSUME NEW k \in 1..6 PROVE Rank(Life[k]) = k
  OBVIOUS
<1> DEFINE I == {i \in 1..Len(Life) : Life[i] = Life[k]}
<1>1. I = {k}
  BY LifeIs
<1>2. Rank(Life[k]) = Min(I)
  BY <1>1 DEF Rank, SelectInSeq
<1> QED BY <1>1, <1>2 DEF Min

LEMMA LifeFrom ==
  ASSUME NEW m \in 1..6, NEW n \in 1..6, m <= n
  PROVE  /\ SubSeq(Life, m, n) \in Seq(Phases)
         /\ Len(SubSeq(Life, m, n)) = n - m + 1
         /\ \A i \in 1..n - m + 1 : SubSeq(Life, m, n)[i] = Life[m + i - 1]
<1>1. m \in Int /\ n \in Int
  OBVIOUS
<1>2. \A i \in m..n : Life[i] \in Phases
  BY LifeIs
<1> QED BY <1>1, <1>2, SubSeqProperties

LEMMA LifeOnce ==
  \A n \in 1..6 : /\ Life[n] = "queued" => n = 1
                  /\ Life[n] = "replanning" => n = 2
                  /\ Life[n] = "scheduled" => n = 3
                  /\ Life[n] = "completed" => n = 6
                  /\ Life[n] # "failed"
<1> SUFFICES ASSUME NEW n \in 1..6
             PROVE  /\ Life[n] = "queued" => n = 1
                    /\ Life[n] = "replanning" => n = 2
                    /\ Life[n] = "scheduled" => n = 3
                    /\ Life[n] = "completed" => n = 6
                    /\ Life[n] # "failed"
  OBVIOUS
<1>1. n = 1 \/ n = 2 \/ n = 3 \/ n = 4 \/ n = 5 \/ n = 6
  OBVIOUS
<1> QED BY <1>1, LifeIs

LEMMA OtherActor ==
  /\ Actors = {"run", "loop"} /\ Other("run") = "loop" /\ Other("loop") = "run"
BY DEF Actors, Other

\* What a survey finds to climb.
LEMMA ClimbToIs ==
  ASSUME InsertTypes, NEW r \in Requests, phase[r] \in Phases, phase[r] # "failed",
         ClimbTo(r) # <<>>
  PROVE  \E k \in 1..6, n \in 1..6 :
           /\ phase[r] = Life[k] /\ Target(r) = Life[n] /\ k < n
           /\ Target(r) = "completed" => work[r] = "done"
           /\ ClimbTo(r) \in Seq(Phases) /\ Len(ClimbTo(r)) = n - k
           /\ \A i \in 1..n - k : ClimbTo(r)[i] = Life[k + i]
<1>1. PICK k \in 1..6 : phase[r] = Life[k]
  BY LifeIs, PhasesAre
<1>2. /\ Target(r) \in Later /\ (Target(r) = "completed" => work[r] = "done")
  BY DEF Target, InsertTypes, Later
<1>3. PICK n \in 1..6 : Target(r) = Life[n]
  BY <1>2, LifeIs DEF Later
<1>4. ClimbTo(r) = SubSeq(Life, k + 1, n)
  BY <1>1, <1>3, RankLife DEF ClimbTo
<1>5. k + 1 <= n
  <2>1. n < k + 1 => SubSeq(Life, k + 1, n) = <<>>
    BY SubSeqEmpty
  <2> QED BY <1>4, <2>1
<1>6. k + 1 \in 1..6
  BY <1>5
<1>7. /\ SubSeq(Life, k + 1, n) \in Seq(Phases)
      /\ Len(SubSeq(Life, k + 1, n)) = n - (k + 1) + 1
      /\ \A i \in 1..n - (k + 1) + 1 : SubSeq(Life, k + 1, n)[i] = Life[k + 1 + i - 1]
  BY <1>5, <1>6, LifeFrom
<1>8. n - (k + 1) + 1 = n - k /\ \A i \in 1..n - k : k + 1 + i - 1 = k + i
  OBVIOUS
<1> QED BY <1>1, <1>2, <1>3, <1>4, <1>5, <1>7, <1>8

LEMMA InitInsert == InsertInit => InsertInv
<1> SUFFICES ASSUME InsertInit PROVE InsertInv
  OBVIOUS
<1> USE InsertionConstants DEF InsertInit
<1>1. InsertTypes
  <2>1. /\ timeline \in [Requests -> Seq(Phases)] /\ pending \in Seq(Requests)
        /\ announced \in [Requests -> Seq(Phases \cup {"none"})]
        /\ ladder \in [Actors -> Seq(Phases)]
    OBVIOUS
  <2> QED BY <2>1 DEF InsertTypes
<1>2. InsertControl /\ SurveysAreRight /\ CompletedIsDone
  BY OtherActor DEF InsertControl, SurveysAreRight, CompletedIsDone, Requests
<1>3. QueueIsRight /\ PlansHold
  BY OtherActor DEF QueueIsRight, PlansHold, RunHas, FreshCall, Refused
<1>4. UncrossedHold
  BY OtherActor DEF UncrossedHold, Amid, Requests
<1> QED BY <1>1, <1>2, <1>3, <1>4 DEF InsertInv

\* What is not the business of p, of request r, or of the timelines.
OfRequest(r) == <<phase[r], timeline[r], announced[r], counted[r]>>
OfActor(p) == <<at[p], task[p], about[p], ladder[p], target[p], envelope[p]>>

\* A request keeps its part of the invariant when nothing of it changes.
LEMMA UncrossedKeeps ==
  ASSUME UncrossedHold, NEW r \in Requests, r \notin crossed, UNCHANGED OfRequest(r),
         \A p \in Actors : Amid(p, r)' => Amid(p, r) /\ UNCHANGED OfActor(p),
         \A p \in Actors : Amid(p, r) => Amid(p, r)'
  PROVE  /\ r > requests => timeline'[r] = <<>> /\ announced'[r] = <<>> /\ counted'[r] = 0
         /\ r <= requests => Climbs(r)' \/ HasFailed(r)'
         /\ ~(Amid("run", r)' /\ Amid("loop", r)')
         /\ \A p \in Actors : Amid(p, r)' => InTheMiddle(p, r)'
         /\ (\A p \in Actors : ~Amid(p, r)') =>
              /\ announced'[r] = timeline'[r]
              /\ counted'[r] = IF phase'[r] = "completed" THEN 1 ELSE 0
<1>1. Climbs(r)' = Climbs(r) /\ HasFailed(r)' = HasFailed(r)
  BY DEF OfRequest, Climbs, HasFailed
<1>2. \A p \in Actors : Amid(p, r)' => InTheMiddle(p, r)'
  <2> SUFFICES ASSUME NEW p \in Actors, Amid(p, r)' PROVE InTheMiddle(p, r)'
    OBVIOUS
  <2>1. UNCHANGED OfActor(p) /\ InTheMiddle(p, r)
    BY DEF UncrossedHold
  <2> QED BY <1>1, <2>1 DEF OfRequest, OfActor, InTheMiddle, Ahead, Telling
<1> QED BY <1>1, <1>2, OtherActor DEF UncrossedHold, OfRequest

LEMMA AcceptKeeps == InsertInv /\ Accept => InsertInv'
<1> SUFFICES ASSUME InsertInv, Accept PROVE InsertInv'
  OBVIOUS
<1> USE InsertionConstants DEF InsertInv
<1>0. PICK r \in Requests : r = requests + 1
  BY DEF Accept, InsertTypes, Requests
<1>1. /\ r = requests + 1 /\ at["loop"] = "idle" /\ requests' = r
      /\ pending' = Append(pending, r)
      /\ phase' = [phase EXCEPT ![r] = "queued"]
      /\ timeline' = [timeline EXCEPT ![r] = <<"queued">>]
      /\ about' = [about EXCEPT !["loop"] = r]
      /\ task' = [task EXCEPT !["loop"] = "insert"]
      /\ at' = [at EXCEPT !["loop"] = "read"]
      /\ UNCHANGED <<announced, counted, ladder, target, envelope, planned, work, going,
                     crossed>>
  BY <1>0 DEF Accept, MoveOn, factoryVars
<1>2. /\ phase'[r] = "queued" /\ timeline'[r] = <<"queued">>
      /\ \A q \in Requests : q # r => phase'[q] = phase[q] /\ timeline'[q] = timeline[q]
  BY <1>1 DEF InsertTypes
<1>3. /\ at'["loop"] = "read" /\ task'["loop"] = "insert" /\ about'["loop"] = r
      /\ at'["run"] = at["run"] /\ task'["run"] = task["run"] /\ about'["run"] = about["run"]
  BY <1>1, OtherActor DEF InsertTypes
<1>4. phase[r] = "none" /\ r \notin crossed /\ FreshCall(r) /\ r > requests
  BY <1>1 DEF InsertControl, PlansHold, InsertTypes
<1>5. InsertTypes'
  <2>1. "queued" \in Phases /\ <<"queued">> \in Seq(Phases)
    BY PhasesAre
  <2>2. pending' \in Seq(Requests) /\ timeline' \in [Requests -> Seq(Phases)]
    BY <1>1, <2>1 DEF InsertTypes
  <2>3. requests' \in 0..MaxRequests
    BY <1>1 DEF Requests
  <2>4. r \in Nat
    BY <1>1 DEF Requests
  <2> QED BY <1>1, <2>1, <2>2, <2>3, <2>4 DEF InsertTypes
<1>6. \A p \in Actors : p # "loop" => p = "run"
  BY OtherActor
<1>7. InsertControl'
  <2>1. ladder["loop"] = <<>>
    BY <1>1, OtherActor DEF InsertControl
  <2>2. \A q \in Requests : phase'[q] = "none" <=> q > requests'
    BY SMTT(30), <1>1, <1>2 DEF InsertControl, InsertTypes, Requests
  <2> QED BY <1>1, <1>2, <1>3, <1>6, <2>1, <2>2, OtherActor
        DEF InsertControl, InsertTypes
<1>8. SurveysAreRight' /\ CompletedIsDone'
  <2>1. at["run"] # "look" /\ task["run"] = "survey" => about["run"] # r
    BY <1>1, OtherActor DEF InsertControl, InsertTypes
  <2>2. SurveysAreRight'
    <3> SUFFICES ASSUME task'["run"] = "survey", at'["run"] # "look"
                 PROVE  /\ phase'[about["run"]] \in Later
                        /\ \A i \in 1..Len(ladder["run"]) :
                             /\ ladder["run"][i] \in Later \ {"scheduled"}
                             /\ ladder["run"][i] = "completed" => work[about["run"]] = "done"
      BY <1>1, <1>3, <1>6 DEF SurveysAreRight
    <3>1. about["run"] \in Requests
      <4>1. task["run"] = "survey" /\ at["run"] # "look"
        BY <1>3
      <4>2. about["run"] \in 1..requests
        BY <4>1, OtherActor DEF InsertControl, InsertTypes
      <4> QED BY <4>2 DEF InsertTypes, Requests
    <3> QED BY <1>2, <1>3, <2>1, <3>1, OtherActor DEF SurveysAreRight
  <2>3. CompletedIsDone'
    BY <1>1, <1>2 DEF CompletedIsDone
  <2> QED BY <2>2, <2>3
<1>9. QueueIsRight'
  <2> USE DEF QueueIsRight
  <2>1. ~RunHas(r) /\ \A q \in Requests : RunHas(q)' <=> RunHas(q)
    <3>1. task["run"] = "insert" => about["run"] \in 1..requests
      BY OtherActor DEF InsertControl, InsertTypes
    <3> QED BY <1>1, <1>3, <3>1 DEF RunHas, InsertTypes
  <2>2. \A q : FreshCall(q)' <=> FreshCall(q)
    BY <1>1 DEF FreshCall
  <2>3. /\ Len(pending') = Len(pending) + 1 /\ pending'[Len(pending) + 1] = r
        /\ \A i \in 1..Len(pending) : pending'[i] = pending[i] /\ pending[i] \in Requests
        /\ Len(pending) \in Nat
    BY <1>1 DEF InsertTypes
  <2>4. \A i \in 1..Len(pending) : pending[i] <= requests /\ pending[i] < r
    <3>1. \A i \in 1..Len(pending) : pending[i] <= requests
      OBVIOUS
    <3>2. \A i \in 1..Len(pending) : pending[i] \in Int
      BY <2>3 DEF Requests
    <3>3. requests \in Int
      BY DEF InsertTypes
    <3> QED BY <1>1, <3>1, <3>2, <3>3
  <2>5. ASSUME NEW i \in 1..Len(pending')
        PROVE  /\ pending'[i] <= requests' /\ phase'[pending'[i]] = "queued"
               /\ (FreshCall(pending[i]) /\ ~RunHas(pending[i]))'
    <3>1. CASE i = Len(pending) + 1
      BY <1>1, <1>2, <1>4, <2>1, <2>2, <2>3, <3>1 DEF InsertTypes
    <3>2. CASE i # Len(pending) + 1
      <4>1. i \in 1..Len(pending)
        BY <2>3, <2>5, <3>2
      <4>2. pending'[i] = pending[i] /\ pending[i] \in Requests /\ pending[i] # r
        BY <1>1, <2>3, <2>4, <4>1 DEF InsertTypes, Requests
      <4>3. /\ pending[i] <= requests' /\ phase'[pending[i]] = "queued"
            /\ FreshCall(pending[i]) /\ ~RunHas(pending[i])
        <5>1. /\ pending[i] <= requests /\ phase[pending[i]] = "queued"
              /\ FreshCall(pending[i]) /\ ~RunHas(pending[i])
          BY <4>1
        <5>2. pending[i] \in Int /\ requests \in Int
          BY <4>2 DEF InsertTypes, Requests
        <5> QED BY <1>1, <1>2, <4>2, <5>1, <5>2
      <4>4. \A q \in Requests : q = pending'[i] => ~RunHas(q)' /\ FreshCall(q)'
        BY <2>1, <2>2, <4>2, <4>3
      <4> QED BY <4>2, <4>3, <4>4
    <3> QED BY <3>1, <3>2
  <2>6. \A i, j \in 1..Len(pending') : i < j => pending'[i] < pending'[j]
    BY <2>3, <2>4
  <2>7. ASSUME NEW q \in Requests, phase'[q] \in {"queued", "replanning"}
        PROVE  RunHas(q)' \/ \E i \in 1..Len(pending') : pending'[i] = q
    BY <1>2, <2>1, <2>3, <2>7
  <2>8. ASSUME NEW q \in Requests, RunHas(q)' PROVE HandOf(q)'
    BY <1>1, <1>2, <1>3, <2>1, <2>8 DEF HandOf, FreshCall, Refused
  <2> QED BY <2>5, <2>6, <2>7, <2>8
<1>10. PlansHold'
  BY <1>1, <1>2 DEF PlansHold, Refused, FreshCall, InsertTypes, Requests
<1>11. UncrossedHold'
  <2>1. ASSUME NEW q \in Requests, q \notin crossed, q # r
        PROVE  /\ UNCHANGED OfRequest(q) /\ (q > requests' => q > requests)
               /\ (q <= requests' => q <= requests)
               /\ \A p \in Actors : Amid(p, q)' => Amid(p, q) /\ UNCHANGED OfActor(p)
               /\ \A p \in Actors : Amid(p, q) => Amid(p, q)'
    <3>1. UNCHANGED OfActor("run")
      BY <1>1, <1>3 DEF OfActor
    <3>2. (q > requests' => q > requests) /\ (q <= requests' => q <= requests)
      BY SMTT(30), <1>1, <2>1 DEF InsertTypes, Requests
    <3> QED BY <1>1, <1>2, <1>3, <1>6, <2>1, <3>1, <3>2, OtherActor DEF OfRequest, Amid
  <2>2. /\ Climbs(r)' /\ Amid("loop", r)' /\ ~Amid("run", r)'
        /\ announced[r] = <<>> /\ counted[r] = 0
    <3>1. Climbs(r)'
      BY <1>2, LifeIs DEF Climbs
    <3>2. Amid("loop", r)' /\ ~Amid("run", r)'
      BY <1>1, <1>3, <1>4, OtherActor DEF Amid, InsertControl, InsertTypes
    <3> QED BY <1>1, <1>4, <3>1, <3>2 DEF UncrossedHold
  <2>3. InTheMiddle("loop", r)'
    <3>1. ladder'["loop"] = <<>>
      BY <1>1, OtherActor DEF InsertControl
    <3>2. Ahead("loop", r)'
      BY <1>2, <1>3, <2>2, <3>1 DEF Ahead
    <3>3. Telling("loop", r)'
      BY <1>1, <1>2, <1>3, <2>2 DEF Telling
    <3> QED BY <1>1, <1>2, <2>2, <3>2, <3>3 DEF InTheMiddle
  <2> SUFFICES ASSUME NEW q \in Requests, q \notin crossed'
               PROVE  /\ q > requests' =>
                           timeline'[q] = <<>> /\ announced'[q] = <<>> /\ counted'[q] = 0
                      /\ q <= requests' => Climbs(q)' \/ HasFailed(q)'
                      /\ ~(Amid("run", q)' /\ Amid("loop", q)')
                      /\ \A p \in Actors : Amid(p, q)' => InTheMiddle(p, q)'
                      /\ (\A p \in Actors : ~Amid(p, q)') =>
                           /\ announced'[q] = timeline'[q]
                           /\ counted'[q] = IF phase'[q] = "completed" THEN 1 ELSE 0
    BY DEF UncrossedHold
  <2>4. CASE q = r
    <3>1. r <= requests' /\ ~(r > requests')
      BY <1>1 DEF InsertTypes
    <3> QED BY <1>6, <2>2, <2>3, <2>4, <3>1, OtherActor
  <2>5. CASE q # r
    BY <1>1, <2>1, <2>5, UncrossedKeeps
  <2> QED BY <2>4, <2>5
<1> QED BY <1>5, <1>7, <1>8, <1>9, <1>10, <1>11

LEMMA FailedIs ==
  \A t \in Seq(Phases) : Len(t) = 2 /\ t[1] = Life[1] /\ t[2] = Life[2]
                           => Append(t, "failed") = <<"queued", "replanning", "failed">>
<1>0. \A t \in Seq(Phases), x \in Phases :
        /\ Append(t, x) \in Seq(Phases) /\ Len(Append(t, x)) = Len(t) + 1
        /\ Append(t, x)[Len(t) + 1] = x /\ \A i \in 1..Len(t) : Append(t, x)[i] = t[i]
  BY AppendProperties
<1> SUFFICES ASSUME NEW t \in Seq(Phases), Len(t) = 2, t[1] = Life[1], t[2] = Life[2]
             PROVE  Append(t, "failed") = <<"queued", "replanning", "failed">>
  OBVIOUS
<1> DEFINE u == Append(t, "failed")
<1>1. "failed" \in Phases /\ "queued" \in Phases /\ "replanning" \in Phases
  BY PhasesAre
<1>2. u \in Seq(Phases) /\ Len(u) = 3 /\ u[3] = "failed" /\ u[1] = t[1] /\ u[2] = t[2]
  <2>1. /\ u \in Seq(Phases) /\ Len(u) = Len(t) + 1 /\ u[Len(t) + 1] = "failed"
        /\ \A i \in 1..Len(t) : u[i] = t[i]
    BY <1>0, <1>1
  <2>2. Len(t) + 1 = 3 /\ 1 \in 1..Len(t) /\ 2 \in 1..Len(t)
    OBVIOUS
  <2> QED BY <2>1, <2>2
<1>3. u[1] = "queued" /\ u[2] = "replanning"
  BY <1>2, LifeIs
<1>4. <<"queued", "replanning", "failed">> \in Seq(Phases)
  BY <1>1
<1> HIDE DEF u
<1>5. u = <<"queued", "replanning", "failed">>
  BY <1>2, <1>3, <1>4
<1> QED BY <1>5 DEF u

\* A climb of one phase: the rest of the ladder l continues the longer timeline.
LEMMA ClimbOn ==
  ASSUME NEW t \in Seq(Phases), NEW l \in Seq(Phases), Len(t) \in 1..6, l # <<>>,
         Len(t) + Len(l) <= 6, \A i \in 1..Len(l) : l[i] = Life[Len(t) + i],
         \A i \in 1..Len(t) : t[i] = Life[i]
  PROVE  LET u == Append(t, Head(l))  m == Tail(l) IN
         /\ Len(t) \in 1..5 /\ Head(l) = Life[Len(t) + 1]
         /\ Len(u) = Len(t) + 1 /\ \A i \in 1..Len(t) + 1 : u[i] = Life[i]
         /\ Len(u) + Len(m) = Len(t) + Len(l)
         /\ \A i \in 1..Len(m) : m[i] = Life[Len(u) + i]
<1>1. PICK n \in 1..6, k \in Nat : n = Len(t) /\ k = Len(l)
  BY LenProperties
<1>2. k >= 1 /\ n <= 5 /\ n + k <= 6
  BY <1>1, EmptySeq
<1>3. /\ Head(l) = l[1] /\ Tail(l) \in Seq(Phases) /\ Len(Tail(l)) = k - 1
      /\ \A i \in 1..k - 1 : Tail(l)[i] = l[i + 1]
  BY <1>1, HeadTailProperties
<1>4. Head(l) \in Phases /\ Head(l) = Life[n + 1]
  BY <1>1, <1>2, <1>3, HeadTailProperties
<1>5. /\ Len(Append(t, Head(l))) = n + 1 /\ Append(t, Head(l))[n + 1] = Head(l)
      /\ \A i \in 1..n : Append(t, Head(l))[i] = t[i]
  BY <1>1, <1>4, AppendProperties
<1>6. \A i \in 1..k - 1 : l[i + 1] = Life[(n + 1) + i]
  <2> SUFFICES ASSUME NEW i \in 1..k - 1 PROVE l[i + 1] = Life[(n + 1) + i]
    OBVIOUS
  <2>1. i + 1 \in 1..k /\ n + (i + 1) = (n + 1) + i
    BY <1>2
  <2>2. l[i + 1] = Life[n + (i + 1)]
    BY <1>1, <2>1
  <2> QED BY <2>1, <2>2
<1>7. \A i \in 1..n + 1 : Append(t, Head(l))[i] = Life[i]
  BY <1>1, <1>4, <1>5
<1> QED BY SMTT(30), <1>1, <1>2, <1>3, <1>4, <1>5, <1>6, <1>7

LEMMA SetInsertPhaseKeeps ==
  ASSUME InsertInv, NEW p \in Actors, SetInsertPhase(p) PROVE InsertInv'
<1> USE InsertionConstants DEF InsertInv
<1>0. PICK r \in Requests : r = about[p]
  BY DEF SetInsertPhase, InsertControl, InsertTypes, Requests
<1>1. /\ at[p] = "climb" /\ ladder[p] # <<>> /\ r <= requests
      /\ ladder' = [ladder EXCEPT ![p] = Tail(ladder[p])]
      /\ UNCHANGED <<requests, pending, announced, counted, task, about, target, envelope,
                     planned, work, going, crossed>>
  BY <1>0 DEF SetInsertPhase, factoryVars, InsertControl, InsertTypes
<1>2. PICK ph \in Phases : ph = Head(ladder[p])
  BY <1>1 DEF InsertTypes
<1>3. /\ Tail(ladder[p]) \in Seq(Phases) /\ ph = ladder[p][1]
      /\ Len(ladder[p]) >= 1 /\ Len(ladder[p]) \in Nat
      /\ Len(Tail(ladder[p])) = Len(ladder[p]) - 1
      /\ \A i \in 1..Len(ladder[p]) - 1 : Tail(ladder[p])[i] = ladder[p][i + 1]
  <2>1. ladder[p] \in Seq(Phases)
    BY DEF InsertTypes
  <2> QED BY <1>1, <1>2, <2>1, HeadTailProperties
<1>4. /\ ladder'[p] = Tail(ladder[p]) /\ ladder'[p] \in Seq(Phases)
      /\ Len(ladder'[p]) = Len(ladder[p]) - 1
      /\ \A i \in 1..Len(ladder'[p]) : ladder'[p][i] = ladder[p][i + 1] /\ i + 1 \in 1..Len(ladder[p])
      /\ \A q \in Actors : q # p => ladder'[q] = ladder[q]
  BY <1>1, <1>3 DEF InsertTypes
<1>5. \/ phase[r] = ph /\ UNCHANGED <<phase, timeline, at>>
      \/ /\ phase[r] # ph /\ phase' = [phase EXCEPT ![r] = ph]
         /\ timeline' = Noted(timeline, r, ph)
         /\ at' = [at EXCEPT ![p] = "read"]
  BY <1>0, <1>2 DEF SetInsertPhase, MoveOn
<1>6. /\ phase'[r] = ph /\ \A q \in Requests : q # r => phase'[q] = phase[q]
      /\ timeline' \in [Requests -> Seq(Phases)]
      /\ \A q \in Requests : q # r => timeline'[q] = timeline[q]
  <2>1. Append(timeline[r], ph) \in Seq(Phases)
    BY AppendProperties DEF InsertTypes
  <2>2. timeline' = timeline \/ timeline' = [timeline EXCEPT ![r] = Append(@, ph)]
    BY <1>5 DEF Noted
  <2> QED BY ZenonT(30), <1>5, <2>1, <2>2 DEF InsertTypes
<1>7. at'[p] \in {"climb", "read"} /\ \A q \in Actors : q # p => at'[q] = at[q]
  BY <1>1, <1>5 DEF InsertTypes
<1>8. \/ task[p] = "survey"
      \/ p = "run" /\ task[p] = "insert" /\ RunHas(r) /\ HandOf(r)
  <2>1. task[p] \in {"insert", "survey"}
    BY <1>1 DEF InsertControl, InsertTypes
  <2>2. task[p] = "insert" => p = "run"
    BY <1>1, OtherActor DEF InsertControl
  <2>3. task[p] = "insert" => RunHas(r)
    BY <1>0, <2>2 DEF RunHas
  <2> QED BY <2>1, <2>2, <2>3 DEF QueueIsRight
<1>9. ASSUME task[p] = "survey"
      PROVE  /\ phase[r] \in Later /\ ph \in Later \ {"scheduled"}
             /\ ph = "completed" => work[r] = "done"
  BY <1>0, <1>1, <1>3, <1>9 DEF SurveysAreRight
<1>10. ASSUME p = "run", task[p] = "insert"
       PROVE  /\ RunHas(r) /\ ladder'[p] = <<>> /\ at'[p] = "read"
              /\ \/ /\ ladder[p] = <<"replanning">> /\ ph = "replanning"
                    /\ phase[r] = "queued" /\ FreshCall(r)
                 \/ /\ ladder[p] = <<"scheduled">> /\ ph = "scheduled"
                    /\ phase[r] = "replanning" /\ r \in planned
                 \/ /\ ladder[p] = <<"failed">> /\ ph = "failed"
                    /\ phase[r] = "replanning" /\ Refused(r)
  <2>1. RunHas(r) /\ HandOf(r)
    BY <1>8, <1>10
  <2>2. \/ /\ ladder[p] = <<"replanning">> /\ ph = "replanning"
           /\ phase[r] = "queued" /\ FreshCall(r)
        \/ /\ ladder[p] = <<"scheduled">> /\ ph = "scheduled"
           /\ phase[r] = "replanning" /\ r \in planned
        \/ /\ ladder[p] = <<"failed">> /\ ph = "failed"
           /\ phase[r] = "replanning" /\ Refused(r)
    BY <1>1, <1>2, <1>10, <2>1 DEF HandOf
  <2>3. ladder'[p] = <<>>
    <3>1. Len(ladder[p]) = 1
      BY <2>2
    <3>2. Len(ladder'[p]) = 0
      BY <1>4, <3>1
    <3> QED BY <1>4, <3>2, EmptySeq
  <2>4. at'[p] = "read"
    BY <1>5, <2>2 DEF InsertTypes
  <2> QED BY <2>1, <2>2, <2>3, <2>4
<1>11. InsertTypes'
  <2>1. /\ ladder' \in [Actors -> Seq(Phases)] /\ phase' \in [Requests -> Phases \cup {"none"}]
        /\ at' \in [Actors -> {"idle", "look", "climb", "read", "publish"}]
    BY ZenonT(30), <1>1, <1>3, <1>5 DEF InsertTypes
  <2> QED BY <1>1, <1>6, <2>1 DEF InsertTypes
<1>12. InsertControl'
  <2>1. \A q \in Requests : phase'[q] = "none" <=> q > requests
    <3>1. ph # "none" /\ r \in Int /\ requests \in Int
      BY PhasesAre DEF InsertTypes, Requests
    <3>2. phase'[r] # "none" /\ ~(r > requests)
      BY <1>1, <1>6, <3>1
    <3>3. \A q \in Requests : phase[q] = "none" <=> q > requests
      BY DEF InsertControl
    <3> QED BY <1>6, <3>2, <3>3
  <2>2. task["loop"] = "insert" => ladder'["loop"] = <<>>
    BY <1>1, <1>4, OtherActor DEF InsertControl
  <2>3. task[p] # "none" /\ about[p] \in 1..requests
    BY <1>1 DEF InsertControl
  <2> QED BY <1>1, <1>4, <1>7, <2>1, <2>2, <2>3 DEF InsertControl
<1>13. SurveysAreRight'
  <2> SUFFICES ASSUME NEW q \in Actors, task[q] = "survey", at'[q] # "look"
               PROVE  /\ phase'[about[q]] \in Later
                      /\ \A i \in 1..Len(ladder'[q]) :
                           /\ ladder'[q][i] \in Later \ {"scheduled"}
                           /\ ladder'[q][i] = "completed" => work[about[q]] = "done"
    BY <1>1 DEF SurveysAreRight
  <2>1. at[q] # "look" /\ phase[about[q]] \in Later /\ about[q] \in Requests
    <3>1. at[q] # "look"
      BY <1>1, <1>7
    <3>2. at[q] # "idle"
      BY <3>1 DEF InsertControl
    <3>3. about[q] \in 1..requests /\ phase[about[q]] \in Later
      BY <3>1, <3>2 DEF InsertControl, SurveysAreRight
    <3> QED BY <3>1, <3>3 DEF InsertTypes, Requests
  <2>2. phase'[about[q]] \in Later
    <3>1. CASE about[q] = r
      <4>1. task[p] = "survey"
        BY <1>8, <1>10, <2>1, <3>1 DEF Later
      <4> QED BY <1>6, <1>9, <3>1, <4>1
    <3>2. CASE about[q] # r
      BY <1>6, <2>1, <3>2
    <3> QED BY <3>1, <3>2
  <2>3. \A i \in 1..Len(ladder'[q]) :
          \E j \in 1..Len(ladder[q]) : ladder'[q][i] = ladder[q][j]
    BY <1>4
  <2> QED BY <2>1, <2>2, <2>3 DEF SurveysAreRight
<1>14. CompletedIsDone'
  BY <1>1, <1>6, <1>8, <1>9, <1>10 DEF CompletedIsDone
<1>15. QueueIsRight'
  <2> USE DEF QueueIsRight
  <2>1. \A q : (RunHas(q)' <=> RunHas(q)) /\ (FreshCall(q)' <=> FreshCall(q)) /\ (Refused(q)' <=> Refused(q))
    BY <1>1 DEF RunHas, FreshCall, Refused
  <2>2. ASSUME NEW i \in 1..Len(pending) PROVE pending[i] # r /\ pending[i] \in Requests
    <3>1. pending[i] \in Requests
      BY DEF InsertTypes
    <3>2. phase[pending[i]] = "queued" /\ ~RunHas(pending[i])
      OBVIOUS
    <3>3. phase[r] # "queued" \/ RunHas(r)
      BY <1>8, <1>9 DEF Later
    <3> QED BY <3>1, <3>2, <3>3
  <2>3. ASSUME NEW q \in Requests, phase'[q] \in {"queued", "replanning"}
        PROVE  RunHas(q) \/ phase[q] \in {"queued", "replanning"}
    BY <1>6, <1>8, <1>9, <2>3 DEF Later
  <2>4. ASSUME NEW q \in Requests, RunHas(q) PROVE HandOf(q)'
    <3>1. CASE p = "run"
      <4>1. task[p] = "insert" /\ q = r
        BY <1>0, <2>4, <3>1 DEF RunHas
      <4>2. ladder'["run"] = <<>> /\ phase'[q] = ph
        BY <1>6, <1>10, <3>1, <4>1
      <4> QED BY <1>10, <2>1, <3>1, <4>1, <4>2 DEF HandOf, Later
    <3>2. CASE p # "run"
      <4>1. /\ task[p] = "survey" /\ ladder'["run"] = ladder["run"] /\ at'["run"] = at["run"]
            /\ HandOf(q)
        BY <1>4, <1>7, <1>8, <2>4, <3>2, OtherActor
      <4>2. CASE q = r
        BY <1>6, <1>9, <4>1, <4>2 DEF HandOf, Later
      <4>3. CASE q # r
        BY <1>1, <1>6, <2>1, <4>1, <4>3 DEF HandOf
      <4> QED BY <4>2, <4>3
    <3> QED BY <3>1, <3>2
  <2>5. \A i \in 1..Len(pending) : phase'[pending[i]] = "queued"
    BY <1>6, <2>2
  <2> QED BY <1>1, <2>1, <2>3, <2>4, <2>5
<1>16. PlansHold'
  <2>1. phase'[r] = "failed" => Refused(r)
    BY <1>6, <1>8, <1>9, <1>10 DEF Later
  <2> QED BY <1>1, <1>6, <2>1 DEF PlansHold, Refused, FreshCall
<1>17. UncrossedHold'
  <2> SUFFICES ASSUME NEW q \in Requests, q \notin crossed'
               PROVE  /\ q > requests' =>
                           timeline'[q] = <<>> /\ announced'[q] = <<>> /\ counted'[q] = 0
                      /\ q <= requests' => Climbs(q)' \/ HasFailed(q)'
                      /\ ~(Amid("run", q)' /\ Amid("loop", q)')
                      /\ \A a \in Actors : Amid(a, q)' => InTheMiddle(a, q)'
                      /\ (\A a \in Actors : ~Amid(a, q)') =>
                           /\ announced'[q] = timeline'[q]
                           /\ counted'[q] = IF phase'[q] = "completed" THEN 1 ELSE 0
    BY DEF UncrossedHold
  <2>1. \A a \in Actors : Amid(a, q)' <=> Amid(a, q)
    BY <1>1, <1>7 DEF Amid
  <2>2. CASE q # r
    <3>1. \A a \in Actors : Amid(a, q) => a # p
      BY <1>0, <2>2 DEF Amid
    <3>2. UNCHANGED OfRequest(q) /\ \A a \in Actors : Amid(a, q) => UNCHANGED OfActor(a)
      BY <1>1, <1>4, <1>6, <1>7, <2>2, <3>1 DEF OfRequest, OfActor
    <3> QED BY <1>1, <2>1, <3>2, UncrossedKeeps
  <2>3. CASE q = r
    <3>1. Amid(p, r) /\ \A a \in Actors : Amid(a, r) => a = p
      BY <1>0, <1>1, <2>3, OtherActor DEF Amid, UncrossedHold
    <3>2. InTheMiddle(p, r) /\ timeline[r] \in Seq(Phases) /\ announced[r] = timeline[r]
      BY <1>1, <2>3, <3>1 DEF UncrossedHold, InTheMiddle, Telling, InsertTypes
    <3>3. /\ Climbs(r) /\ ph # phase[r]
          /\ \/ /\ Len(timeline[r]) + Len(ladder[p]) <= 6
                /\ \A i \in 1..Len(ladder[p]) : ladder[p][i] = Life[Len(timeline[r]) + i]
                /\ task[p] = "survey" => target[p] = Life[Len(timeline[r]) + Len(ladder[p])]
             \/ ladder[p] = <<"failed">> /\ Len(timeline[r]) = 2 /\ task[p] = "insert"
      <4>1. \A k \in 1..5 : Life[k + 1] # Life[k]
        BY LifeIs
      <4>2. CASE ladder[p] = <<"failed">>
        <5>1. ph = "failed"
          BY <1>2, <4>2
        <5>2. \A k \in 1..6 : Life[k] # "failed"
          BY LifeIs
        <5> QED BY <1>1, <1>3, <3>2, <4>2, <5>1, <5>2 DEF InTheMiddle, Ahead, Climbs
      <4>3. CASE ladder[p] # <<"failed">>
        <5>1. /\ Climbs(r) /\ Len(timeline[r]) + Len(ladder[p]) <= 6
              /\ \A i \in 1..Len(ladder[p]) : ladder[p][i] = Life[Len(timeline[r]) + i]
              /\ task[p] = "survey" => target[p] = Life[Len(timeline[r]) + Len(ladder[p])]
          BY <1>1, <3>2, <4>3 DEF InTheMiddle, Ahead
        <5>2. ladder[p][1] = Life[Len(timeline[r]) + 1] /\ Len(timeline[r]) \in 1..5
          <6>1. ladder[p] \in Seq(Phases)
            BY DEF InsertTypes
          <6> QED BY <1>1, <1>2, <1>3, <3>2, <5>1, <6>1, ClimbOn DEF Climbs
        <5> QED BY <1>3, <4>1, <5>1, <5>2 DEF Climbs
      <4> QED BY <4>2, <4>3
    <3>4. timeline'[r] = Append(timeline[r], ph) /\ at'[p] = "read"
      BY <1>1, <1>5, <2>3, <3>3 DEF Noted, InsertTypes
    <3>5. /\ Len(timeline'[r]) = Len(timeline[r]) + 1 /\ timeline'[r][Len(timeline[r]) + 1] = ph
          /\ \A i \in 1..Len(timeline[r]) : timeline'[r][i] = timeline[r][i]
      BY <3>2, <3>4
    <3>6. Telling(p, r)'
      BY <1>1, <1>6, <3>2, <3>4 DEF Telling
    <3>7. Ahead(p, r)' /\ (Climbs(r)' \/ HasFailed(r)')
      <4>1. CASE ladder[p] = <<"failed">> /\ Len(timeline[r]) = 2 /\ task[p] = "insert"
        <5>1. Append(timeline[r], "failed") = <<"queued", "replanning", "failed">>
          BY <3>2, <3>3, <4>1, FailedIs DEF Climbs
        <5>2. ph = "failed" /\ ladder'[p] = <<>>
          BY <1>2, <1>4, <4>1
        <5>3. HasFailed(r)'
          BY <1>6, <3>4, <5>1, <5>2 DEF HasFailed
        <5> QED BY <1>1, <4>1, <5>2, <5>3 DEF Ahead
      <4>2. CASE /\ Len(timeline[r]) + Len(ladder[p]) <= 6
                 /\ \A i \in 1..Len(ladder[p]) : ladder[p][i] = Life[Len(timeline[r]) + i]
                 /\ task[p] = "survey" => target[p] = Life[Len(timeline[r]) + Len(ladder[p])]
        <5>1. ladder[p] \in Seq(Phases)
          BY DEF InsertTypes
        <5>2. /\ Len(timeline[r]) \in 1..5 /\ ph = Life[Len(timeline[r]) + 1]
              /\ Len(timeline'[r]) = Len(timeline[r]) + 1
              /\ \A i \in 1..Len(timeline[r]) + 1 : timeline'[r][i] = Life[i]
              /\ Len(timeline'[r]) + Len(ladder'[p]) = Len(timeline[r]) + Len(ladder[p])
              /\ \A i \in 1..Len(ladder'[p]) : ladder'[p][i] = Life[Len(timeline'[r]) + i]
          <6>1. /\ timeline[r] \in Seq(Phases) /\ Len(timeline[r]) \in 1..6
                /\ \A i \in 1..Len(timeline[r]) : timeline[r][i] = Life[i]
            BY <3>2, <3>3 DEF Climbs
          <6>2. ph = Head(ladder[p]) /\ timeline'[r] = Append(timeline[r], Head(ladder[p]))
            BY <1>2, <3>4
          <6>3. LET t == timeline[r]  l == ladder[p]  u == Append(t, Head(l))  m == Tail(l) IN
                /\ Len(t) \in 1..5 /\ Head(l) = Life[Len(t) + 1]
                /\ Len(u) = Len(t) + 1 /\ \A i \in 1..Len(t) + 1 : u[i] = Life[i]
                /\ Len(u) + Len(m) = Len(t) + Len(l)
                /\ \A i \in 1..Len(m) : m[i] = Life[Len(u) + i]
            BY <1>1, <4>2, <5>1, <6>1, ClimbOn
          <6> QED BY <1>4, <6>2, <6>3
        <5>3. Climbs(r)'
          <6>1. PICK n \in 1..5 : n = Len(timeline[r])
            BY <5>2
          <6>2. n + 1 \in 1..6 /\ Len(timeline'[r]) = n + 1
            <7>1. Len(timeline'[r]) = n + 1
              BY <5>2, <6>1
            <7> QED BY <7>1
          <6> QED BY <1>6, <5>2, <6>1, <6>2 DEF Climbs
        <5> QED BY <1>1, <4>2, <5>2, <5>3 DEF Ahead
      <4> QED BY <3>3, <4>1, <4>2
    <3>8. InTheMiddle(p, r)'
      <4>1. counted'[r] = 0
        BY <1>1, <3>2 DEF InTheMiddle
      <4>2. task'[p] = "insert" => phase'[r] \notin {"transporting", "processing", "completed"}
        BY <1>1, <1>6, <1>8, <1>10
      <4> QED BY <3>6, <3>7, <4>1, <4>2 DEF InTheMiddle
    <3>9. ~(r > requests)
      BY <1>1 DEF InsertTypes, Requests
    <3> QED BY <1>1, <2>1, <2>3, <3>1, <3>7, <3>8, <3>9, OtherActor
  <2> QED BY <2>2, <2>3
<1> QED BY <1>11, <1>12, <1>13, <1>14, <1>15, <1>16, <1>17

LEMMA TellKeeps ==
  ASSUME InsertInv, NEW p \in Actors, ReadPhase(p) \/ PublishPhase(p) PROVE InsertInv'
<1> USE InsertionConstants DEF InsertInv
<1>0. PICK r \in Requests : r = about[p]
  BY DEF ReadPhase, PublishPhase, InsertControl, InsertTypes, Requests
<1>1. /\ at[p] \in {"read", "publish"} /\ r <= requests
      /\ UNCHANGED <<requests, pending, phase, timeline, counted, task, about, ladder, target,
                     planned, work, going, crossed>>
  BY <1>0 DEF ReadPhase, PublishPhase, requestVars, factoryVars, InsertControl, InsertTypes
<1>2. \/ /\ at[p] = "read" /\ at' = [at EXCEPT ![p] = "publish"]
         /\ announced' = announced /\ envelope' = [envelope EXCEPT ![p] = phase[r]]
      \/ /\ at[p] = "publish" /\ at' = [at EXCEPT ![p] = "climb"]
         /\ announced' = Noted(announced, r, envelope[p])
         /\ envelope' = [envelope EXCEPT ![p] = "none"]
  BY <1>0 DEF ReadPhase, PublishPhase, MoveOn
<1>3. /\ at'[p] \in {"publish", "climb"} /\ \A q \in Actors : q # p => at'[q] = at[q]
      /\ envelope' \in [Actors -> Phases \cup {"none"}]
      /\ \A q \in Actors : q # p => envelope'[q] = envelope[q]
      /\ at' \in [Actors -> {"idle", "look", "climb", "read", "publish"}]
  <2>1. phase[r] \in Phases \cup {"none"}
    BY DEF InsertTypes
  <2>2. \E spot \in {"publish", "climb"} : at' = [at EXCEPT ![p] = spot]
    BY <1>2
  <2>3. \E ph \in Phases \cup {"none"} : envelope' = [envelope EXCEPT ![p] = ph]
    BY <1>2, <2>1
  <2> QED BY <2>2, <2>3 DEF InsertTypes
<1>4. /\ announced' \in [Requests -> Seq(Phases \cup {"none"})]
      /\ \A q \in Requests : q # r => announced'[q] = announced[q]
  <2>1. Append(announced[r], envelope[p]) \in Seq(Phases \cup {"none"})
    BY AppendProperties DEF InsertTypes
  <2>2. \/ announced' = announced
        \/ announced' = [announced EXCEPT ![r] = Append(@, envelope[p])]
    BY <1>2 DEF Noted
  <2> QED BY <2>1, <2>2 DEF InsertTypes
<1>5. InsertTypes'
  BY <1>1, <1>3, <1>4 DEF InsertTypes
<1>6. InsertControl'
  BY <1>1, <1>3 DEF InsertControl
<1>7. SurveysAreRight' /\ CompletedIsDone' /\ PlansHold'
  BY <1>1, <1>3 DEF SurveysAreRight, CompletedIsDone, PlansHold, Refused, FreshCall
<1>8. QueueIsRight'
  <2>1. ASSUME NEW q \in Requests, RunHas(q) PROVE HandOf(q)'
    <3>1. HandOf(q)
      BY <2>1 DEF QueueIsRight
    <3>2. at["run"] # "climb" \/ at'["run"] = at["run"]
      BY <1>1, <1>3, OtherActor
    <3> QED BY <1>1, <3>1, <3>2 DEF HandOf, FreshCall, Refused
  <2> QED BY <1>1, <2>1 DEF QueueIsRight, RunHas, FreshCall
<1>9. UncrossedHold'
  <2> SUFFICES ASSUME NEW q \in Requests, q \notin crossed'
               PROVE  /\ q > requests' =>
                           timeline'[q] = <<>> /\ announced'[q] = <<>> /\ counted'[q] = 0
                      /\ q <= requests' => Climbs(q)' \/ HasFailed(q)'
                      /\ ~(Amid("run", q)' /\ Amid("loop", q)')
                      /\ \A a \in Actors : Amid(a, q)' => InTheMiddle(a, q)'
                      /\ (\A a \in Actors : ~Amid(a, q)') =>
                           /\ announced'[q] = timeline'[q]
                           /\ counted'[q] = IF phase'[q] = "completed" THEN 1 ELSE 0
    BY DEF UncrossedHold
  <2>1. \A a \in Actors : Amid(a, q)' <=> Amid(a, q)
    BY <1>1, <1>3 DEF Amid
  <2>2. CASE q # r
    <3>1. \A a \in Actors : Amid(a, q) => a # p
      BY <1>0, <2>2 DEF Amid
    <3>2. UNCHANGED OfRequest(q) /\ \A a \in Actors : Amid(a, q) => UNCHANGED OfActor(a)
      BY <1>1, <1>3, <1>4, <2>2, <3>1 DEF OfRequest, OfActor
    <3> QED BY <1>1, <2>1, <3>2, UncrossedKeeps
  <2>3. CASE q = r
    <3>1. Amid(p, r) /\ \A a \in Actors : Amid(a, r) => a = p
      BY <1>0, <1>1, <2>3, OtherActor DEF Amid, UncrossedHold
    <3>2. InTheMiddle(p, r) /\ (Climbs(r) \/ HasFailed(r))
      BY <1>1, <2>3, <3>1 DEF UncrossedHold
    <3>3. Telling(p, r)'
      <4>1. Telling(p, r)
        BY <3>2 DEF InTheMiddle
      <4>2. CASE at[p] = "read"
        BY <1>1, <1>2, <4>1, <4>2 DEF Telling, InsertTypes
      <4>3. CASE at[p] = "publish"
        BY ZenonT(30), <1>1, <1>2, <2>3, <4>1, <4>3 DEF Telling, InsertTypes, Noted
      <4> QED BY <1>1, <4>2, <4>3
    <3>4. Ahead(p, r)' /\ (Climbs(r)' \/ HasFailed(r)')
      BY <1>1, <3>2 DEF InTheMiddle, Ahead, Climbs, HasFailed
    <3>5. InTheMiddle(p, r)'
      BY <1>1, <3>2, <3>3, <3>4 DEF InTheMiddle
    <3>6. ~(r > requests)
      BY <1>1 DEF InsertTypes, Requests
    <3> QED BY <1>1, <2>1, <2>3, <3>1, <3>4, <3>5, <3>6, OtherActor
  <2> QED BY <2>2, <2>3
<1> QED BY <1>5, <1>6, <1>7, <1>8, <1>9

LEMMA PopRequestKeeps == ASSUME InsertInv, PopRequest PROVE InsertInv'
<1> USE InsertionConstants DEF InsertInv
<1>0. /\ pending \in Seq(Requests) /\ pending # <<>> /\ Len(pending) \in Nat /\ Len(pending) >= 1
      /\ Head(pending) = pending[1] /\ Tail(pending) \in Seq(Requests)
      /\ Len(Tail(pending)) = Len(pending) - 1
      /\ \A i \in 1..Len(pending) - 1 : Tail(pending)[i] = pending[i + 1]
  <2>1. pending \in Seq(Requests) /\ pending # <<>>
    BY DEF PopRequest, InsertTypes
  <2> QED BY <2>1, HeadTailProperties
<1>1. PICK r \in Requests : r = Head(pending)
  BY <1>0, HeadTailProperties
<1>2. /\ at["run"] = "idle" /\ pending' = Tail(pending)
      /\ about' = [about EXCEPT !["run"] = r] /\ task' = [task EXCEPT !["run"] = "insert"]
      /\ ladder' = [ladder EXCEPT !["run"] = <<"replanning">>]
      /\ at' = [at EXCEPT !["run"] = "climb"]
      /\ crossed' = crossed \cup (IF Amid("loop", r) THEN {r} ELSE {})
      /\ UNCHANGED <<requests, phase, timeline, counted, announced, target, envelope,
                     planned, work, going>>
  BY <1>1, OtherActor DEF PopRequest, MoveOn, Takes, factoryVars
<1>3. /\ at'["run"] = "climb" /\ task'["run"] = "insert" /\ about'["run"] = r
      /\ ladder'["run"] = <<"replanning">>
      /\ at'["loop"] = at["loop"] /\ task'["loop"] = task["loop"]
      /\ about'["loop"] = about["loop"] /\ ladder'["loop"] = ladder["loop"]
      /\ task["run"] = "none"
  BY <1>2, OtherActor DEF InsertTypes, InsertControl
<1>4. r <= requests /\ phase[r] = "queued" /\ FreshCall(r)
  BY <1>0, <1>1 DEF QueueIsRight
<1>5. \A q \in Actors : q # "loop" => q = "run"
  BY OtherActor
<1>6. InsertTypes'
  <2>1. <<"replanning">> \in Seq(Phases) /\ r \in Nat
    BY PhasesAre DEF Requests
  <2> QED BY <1>0, <1>2, <2>1, OtherActor DEF InsertTypes
<1>7. InsertControl'
  <2>1. r \in 1..requests
    BY <1>4 DEF Requests, InsertTypes
  <2>2. \A q \in Requests : q \in crossed' => q <= requests
    BY <1>2, <1>4 DEF InsertControl
  <2> QED BY <1>2, <1>3, <1>5, <2>1, <2>2, OtherActor DEF InsertControl
<1>8. SurveysAreRight' /\ CompletedIsDone' /\ PlansHold'
  BY <1>2, <1>3, <1>5, OtherActor
     DEF SurveysAreRight, CompletedIsDone, PlansHold, Refused, FreshCall
<1>9. QueueIsRight'
  <2> USE DEF QueueIsRight
  <2>1. /\ Len(pending') = Len(pending) - 1
        /\ \A i \in 1..Len(pending') : pending'[i] = pending[i + 1] /\ i + 1 \in 1..Len(pending)
    BY <1>0, <1>2
  <2>2. \A q : (RunHas(q)' <=> q = r) /\ (FreshCall(q)' <=> FreshCall(q)) /\ ~RunHas(q)
    BY <1>2, <1>3 DEF RunHas, FreshCall
  <2>3. ASSUME NEW i \in 1..Len(pending')
        PROVE  /\ pending'[i] <= requests' /\ phase'[pending'[i]] = "queued"
               /\ (FreshCall(pending[i]) /\ ~RunHas(pending[i]))'
    <3>1. PICK q \in Requests : q = pending'[i] /\ q = pending[i + 1]
      BY <1>0, <2>1
    <3>2. q <= requests /\ phase[q] = "queued" /\ FreshCall(q)
      BY <2>1, <3>1
    <3>3. r < q
      BY <1>0, <1>1, <2>1, <3>1
    <3>4. q # r
      BY <3>3 DEF Requests
    <3> QED BY <1>2, <2>2, <3>1, <3>2, <3>4
  <2>4. \A i, j \in 1..Len(pending') : i < j => pending'[i] < pending'[j]
    BY <1>0, <2>1
  <2>5. ASSUME NEW q \in Requests, phase'[q] \in {"queued", "replanning"}
        PROVE  RunHas(q)' \/ \E i \in 1..Len(pending') : pending'[i] = q
    <3>1. PICK i \in 1..Len(pending) : pending[i] = q
      BY <1>2, <2>2, <2>5
    <3>2. CASE i = 1
      BY <1>0, <1>1, <2>2, <3>1, <3>2
    <3>3. CASE i # 1
      <4>1. i - 1 \in 1..Len(pending') /\ (i - 1) + 1 = i
        BY <1>0, <2>1, <3>1, <3>3
      <4> QED BY <2>1, <3>1, <4>1
    <3> QED BY <3>2, <3>3
  <2>6. HandOf(r)'
    BY <1>2, <1>3, <1>4 DEF HandOf, FreshCall
  <2> QED BY <2>2, <2>3, <2>4, <2>5, <2>6
<1>10. UncrossedHold'
  <2> SUFFICES ASSUME NEW q \in Requests, q \notin crossed'
               PROVE  /\ q > requests' =>
                           timeline'[q] = <<>> /\ announced'[q] = <<>> /\ counted'[q] = 0
                      /\ q <= requests' => Climbs(q)' \/ HasFailed(q)'
                      /\ ~(Amid("run", q)' /\ Amid("loop", q)')
                      /\ \A a \in Actors : Amid(a, q)' => InTheMiddle(a, q)'
                      /\ (\A a \in Actors : ~Amid(a, q)') =>
                           /\ announced'[q] = timeline'[q]
                           /\ counted'[q] = IF phase'[q] = "completed" THEN 1 ELSE 0
    BY DEF UncrossedHold
  <2>0. q \notin crossed /\ UNCHANGED OfRequest(q) /\ UNCHANGED OfActor("loop")
    BY <1>2, <1>3 DEF OfRequest, OfActor
  <2>1. ~Amid("run", q)
    BY <1>2 DEF Amid
  <2>2. CASE q # r
    <3>1. ~Amid("run", q)'
      BY <1>3, <2>2 DEF Amid
    <3>2. Amid("loop", q)' <=> Amid("loop", q)
      BY <1>3 DEF Amid
    <3> QED BY <1>2, <1>5, <2>0, <2>1, <3>1, <3>2, UncrossedKeeps
  <2>3. CASE q = r
    <3>1. ~Amid("loop", r) /\ ~Amid("loop", r)'
      BY <1>2, <1>3, <2>3 DEF Amid
    <3>2. announced[r] = timeline[r] /\ counted[r] = 0 /\ Climbs(r)
      BY <1>4, <1>5, <2>0, <2>1, <2>3, <3>1 DEF UncrossedHold, HasFailed
    <3>3. Len(timeline[r]) = 1
      <4>1. PICK n \in 1..6 : n = Len(timeline[r]) /\ Life[n] = "queued"
        BY <1>4, <3>2 DEF Climbs
      <4> QED BY <4>1, LifeIs, LifeOnce
    <3>4. Amid("run", r)' /\ Climbs(r)'
      BY <1>2, <1>3, <3>2 DEF Amid, Climbs
    <3>5. Ahead("run", r)'
      <4>1. /\ Len(ladder'["run"]) = 1 /\ ladder'["run"][1] = Life[2]
            /\ Len(timeline'[r]) = 1
        BY <1>2, <1>3, <3>3, LifeIs
      <4>2. \A i \in 1..Len(ladder'["run"]) : ladder'["run"][i] = Life[Len(timeline'[r]) + i]
        BY <4>1
      <4> QED BY <1>3, <3>4, <4>1, <4>2 DEF Ahead
    <3>6. InTheMiddle("run", r)'
      BY <1>2, <1>3, <1>4, <3>2, <3>5 DEF InTheMiddle, Telling
    <3>7. ~(r > requests)
      BY <1>4 DEF InsertTypes, Requests
    <3> QED BY <1>2, <1>5, <2>3, <3>1, <3>4, <3>6, <3>7, OtherActor
  <2> QED BY <2>2, <2>3
<1> QED BY <1>6, <1>7, <1>8, <1>9, <1>10

LEMMA SettleKeeps ==
  ASSUME InsertInv, NEW r \in Requests, ReplanFails(r) \/ Install(r) PROVE InsertInv'
<1> USE InsertionConstants DEF InsertInv
<1>1. /\ task["run"] = "insert" /\ about["run"] = r /\ at["run"] = "climb"
      /\ ladder["run"] = <<>> /\ phase[r] = "replanning"
      /\ UNCHANGED <<requests, pending, phase, timeline, counted, announced, at, task, about,
                     target, envelope, going, crossed>>
  BY DEF ReplanFails, Install, Settle, InHand, requestVars
<1>2. RunHas(r) /\ FreshCall(r) /\ r <= requests
  <2>1. RunHas(r) /\ HandOf(r)
    BY <1>1 DEF RunHas, QueueIsRight
  <2>2. ~(r > requests)
    BY <1>1 DEF InsertControl
  <2> QED BY <1>1, <2>1, <2>2 DEF HandOf, Later, InsertTypes, Requests
<1>3. \/ /\ ladder' = [ladder EXCEPT !["run"] = <<"failed">>] /\ work' = work
         /\ planned' = planned \/ (r \in Clashing /\ planned' = planned \cup {r})
      \/ /\ ladder' = [ladder EXCEPT !["run"] = <<"scheduled">>]
         /\ work' = [work EXCEPT ![r] = "idle"] /\ planned' = planned \cup {r}
  BY DEF ReplanFails, Install, Settle
<1>4. /\ \/ ladder'["run"] = <<"failed">> /\ Refused(r)'
         \/ ladder'["run"] = <<"scheduled">> /\ r \in planned'
      /\ work'[r] # "none" => r \in planned'
      /\ \A q \in Requests : q # r =>
           work'[q] = work[q] /\ (FreshCall(q)' <=> FreshCall(q)) /\ (Refused(q)' <=> Refused(q))
  BY SMTT(30), <1>2, <1>3, OtherActor DEF InsertTypes, FreshCall, Refused
<1>5. \A q \in Actors : q # "run" => q = "loop" /\ ladder'[q] = ladder[q]
  BY <1>3, OtherActor DEF InsertTypes
<1>6. InsertTypes'
  <2>1. <<"failed">> \in Seq(Phases) /\ <<"scheduled">> \in Seq(Phases)
    BY PhasesAre
  <2>2. ladder' \in [Actors -> Seq(Phases)]
    BY ZenonT(30), <1>3, <2>1 DEF InsertTypes
  <2>3. work' \in [Requests -> {"none", "idle", "moved", "worked", "done"}]
    BY <1>3 DEF InsertTypes
  <2> QED BY <1>1, <2>2, <2>3 DEF InsertTypes
<1>7. InsertControl'
  BY <1>1, <1>5, OtherActor DEF InsertControl
<1>8. SurveysAreRight'
  <2> SUFFICES ASSUME NEW q \in Actors, task[q] = "survey", at[q] # "look"
               PROVE  /\ phase[about[q]] \in Later
                      /\ \A i \in 1..Len(ladder'[q]) :
                           /\ ladder'[q][i] \in Later \ {"scheduled"}
                           /\ ladder'[q][i] = "completed" => work'[about[q]] = "done"
    BY <1>1 DEF SurveysAreRight
  <2>1. q = "loop" /\ ladder'[q] = ladder[q]
    BY <1>1, <1>5
  <2>2. about[q] \in Requests
    BY SMTT(30) DEF InsertControl, InsertTypes, Requests
  <2>3. about[q] # r
    BY <1>1 DEF SurveysAreRight, Later
  <2> QED BY <1>4, <2>1, <2>2, <2>3 DEF SurveysAreRight
<1>9. CompletedIsDone' /\ PlansHold'
  <2>1. CompletedIsDone'
    BY <1>1, <1>4 DEF CompletedIsDone
  <2>2. ASSUME NEW q \in Requests
        PROVE  /\ work'[q] # "none" => q \in planned'
               /\ phase[q] = "failed" => Refused(q)'
               /\ q > requests => FreshCall(q)'
    <3>1. CASE q = r
      BY <1>1, <1>2, <1>4, <3>1 DEF InsertTypes, Requests
    <3>2. CASE q # r
      BY <1>3, <1>4, <3>2 DEF PlansHold
    <3> QED BY <3>1, <3>2
  <2> QED BY <1>1, <2>1, <2>2 DEF PlansHold
<1>10. QueueIsRight'
  <2> USE DEF QueueIsRight
  <2>1. \A q : RunHas(q)' <=> RunHas(q)
    BY <1>1 DEF RunHas
  <2>2. \A i \in 1..Len(pending) : pending[i] # r /\ pending[i] \in Requests
    BY <1>2 DEF InsertTypes
  <2>3. \A q \in Requests : RunHas(q) => q = r
    BY <1>1 DEF RunHas
  <2>4. HandOf(r)'
    BY <1>1, <1>4 DEF HandOf
  <2>5. \A q \in Requests : RunHas(q)' => HandOf(q)'
    BY <2>1, <2>3, <2>4
  <2>6. ASSUME NEW i \in 1..Len(pending) PROVE FreshCall(pending[i])'
    <3>1. PICK q \in Requests : q = pending[i] /\ q # r
      BY <2>2
    <3>2. FreshCall(q)'
      BY <1>4, <3>1
    <3> QED BY <1>1, <3>1, <3>2 DEF FreshCall
  <2> QED BY <1>1, <2>1, <2>5, <2>6
<1>11. UncrossedHold'
  <2> SUFFICES ASSUME NEW q \in Requests, q \notin crossed'
               PROVE  /\ q > requests' =>
                           timeline'[q] = <<>> /\ announced'[q] = <<>> /\ counted'[q] = 0
                      /\ q <= requests' => Climbs(q)' \/ HasFailed(q)'
                      /\ ~(Amid("run", q)' /\ Amid("loop", q)')
                      /\ \A a \in Actors : Amid(a, q)' => InTheMiddle(a, q)'
                      /\ (\A a \in Actors : ~Amid(a, q)') =>
                           /\ announced'[q] = timeline'[q]
                           /\ counted'[q] = IF phase'[q] = "completed" THEN 1 ELSE 0
    BY DEF UncrossedHold
  <2>1. \A a \in Actors : Amid(a, q)' <=> Amid(a, q)
    BY <1>1 DEF Amid
  <2>2. CASE q # r
    <3>1. \A a \in Actors : Amid(a, q) => a # "run"
      BY <1>1, <2>2 DEF Amid
    <3>2. UNCHANGED OfRequest(q) /\ \A a \in Actors : Amid(a, q) => UNCHANGED OfActor(a)
      BY <1>1, <1>4, <1>5, <2>2, <3>1 DEF OfRequest, OfActor
    <3> QED BY <1>1, <2>1, <3>2, UncrossedKeeps
  <2>3. CASE q = r
    <3>1. Amid("run", r) /\ \A a \in Actors : Amid(a, r) => a = "run"
      BY <1>1, <2>3, OtherActor DEF Amid, UncrossedHold
    <3>2. InTheMiddle("run", r) /\ Climbs(r)
      BY <1>1, <1>2, <2>3, <3>1, OtherActor DEF UncrossedHold, HasFailed
    <3>3. Len(timeline[r]) = 2
      <4>1. PICK n \in 1..6 : n = Len(timeline[r]) /\ Life[n] = "replanning"
        BY <1>1, <3>2 DEF Climbs
      <4> QED BY <4>1, LifeIs, LifeOnce
    <3>4. Climbs(r)'
      BY <1>1, <3>2 DEF Climbs
    <3>5. Ahead("run", r)'
      <4>1. CASE ladder'["run"] = <<"failed">>
        BY <1>1, <3>3, <3>4, <4>1 DEF Ahead
      <4>2. CASE ladder'["run"] = <<"scheduled">>
        <5>1. /\ Len(ladder'["run"]) = 1 /\ ladder'["run"][1] = Life[3]
              /\ Len(timeline'[r]) = 2
          BY <1>1, <3>3, <4>2, LifeIs
        <5>2. \A i \in 1..Len(ladder'["run"]) : ladder'["run"][i] = Life[Len(timeline'[r]) + i]
          BY <5>1
        <5> QED BY <1>1, <3>4, <5>1, <5>2 DEF Ahead
      <4> QED BY <1>4, <4>1, <4>2
    <3>6. InTheMiddle("run", r)'
      BY <1>1, <3>2, <3>5 DEF InTheMiddle, Telling
    <3>7. ~(r > requests)
      BY <1>2 DEF InsertTypes, Requests
    <3> QED BY <1>1, <2>1, <2>3, <3>1, <3>4, <3>6, <3>7, OtherActor
  <2> QED BY <2>2, <2>3
<1> QED BY <1>6, <1>7, <1>8, <1>9, <1>10, <1>11

\* An actor may leave a request when it has set and told all phases.
LEMMA LeavingKeeps ==
  ASSUME InsertInv, NEW p \in Actors, NEW r \in Requests,
         about[p] = r, at[p] = "climb", at'[p] \in {"idle", "look"},
         \A a \in Actors : a # p => UNCHANGED OfActor(a),
         UNCHANGED <<requests, phase, timeline, announced, crossed>>,
         \A q \in Requests : q # r => counted'[q] = counted[q],
         r \notin crossed => counted'[r] = IF phase[r] = "completed" THEN 1 ELSE 0
  PROVE  UncrossedHold'
<1> SUFFICES ASSUME NEW q \in Requests, q \notin crossed'
             PROVE  /\ q > requests' =>
                         timeline'[q] = <<>> /\ announced'[q] = <<>> /\ counted'[q] = 0
                    /\ q <= requests' => Climbs(q)' \/ HasFailed(q)'
                    /\ ~(Amid("run", q)' /\ Amid("loop", q)')
                    /\ \A a \in Actors : Amid(a, q)' => InTheMiddle(a, q)'
                    /\ (\A a \in Actors : ~Amid(a, q)') =>
                         /\ announced'[q] = timeline'[q]
                         /\ counted'[q] = IF phase'[q] = "completed" THEN 1 ELSE 0
  BY DEF UncrossedHold
<1> USE DEF InsertInv
<1>1. \A a \in Actors : Amid(a, q)' => a # p /\ Amid(a, q) /\ UNCHANGED OfActor(a)
  BY DEF Amid, OfActor
<1>2. CASE q # r
  <2>1. \A a \in Actors : Amid(a, q) => Amid(a, q)'
    BY <1>2 DEF Amid, OfActor
  <2>2. q \notin crossed /\ UNCHANGED OfRequest(q)
    BY <1>2 DEF OfRequest
  <2> QED BY <1>1, <2>1, <2>2, UncrossedKeeps
<1>3. CASE q = r
  <2>1. Amid(p, r) /\ \A a \in Actors : Amid(a, r) => a = p
    BY <1>3, OtherActor DEF Amid, UncrossedHold
  <2>2. \A a \in Actors : ~Amid(a, r)'
    BY <1>1, <1>3, <2>1
  <2>3. announced[r] = timeline[r] /\ (Climbs(r) \/ HasFailed(r)) /\ r <= requests
    <3>1. r \in 1..requests
      BY DEF InsertControl
    <3>2. r <= requests
      BY <3>1 DEF InsertTypes
    <3> QED BY <1>3, <2>1, <3>2 DEF UncrossedHold, InTheMiddle, Telling
  <2>4. Climbs(r)' \/ HasFailed(r)'
    BY <2>3 DEF Climbs, HasFailed
  <2>5. ~(r > requests)
    BY <2>3 DEF InsertTypes, Requests
  <2> QED BY <1>3, <2>2, <2>3, <2>4, <2>5, OtherActor
<1> QED BY <1>2, <1>3

LEMMA NextRequestKeeps == ASSUME InsertInv, NextRequest PROVE InsertInv'
<1> USE InsertionConstants DEF InsertInv
<1>1. PICK r \in Requests : InHand(r) /\ phase[r] # "replanning"
  BY DEF NextRequest
<1>2. /\ task["run"] = "insert" /\ about["run"] = r /\ at["run"] = "climb"
      /\ ladder["run"] = <<>>
      /\ task' = [task EXCEPT !["run"] = "none"] /\ about' = [about EXCEPT !["run"] = 0]
      /\ at' = [at EXCEPT !["run"] = "idle"]
      /\ UNCHANGED <<requests, pending, phase, timeline, counted, announced, ladder, target,
                     envelope, planned, work, going, crossed>>
  BY <1>1 DEF InHand, NextRequest, MoveOn, requestVars, factoryVars
<1>3. /\ at'["run"] = "idle" /\ task'["run"] = "none" /\ about'["run"] = 0
      /\ at'["loop"] = at["loop"] /\ task'["loop"] = task["loop"]
      /\ about'["loop"] = about["loop"]
  BY <1>2, OtherActor DEF InsertTypes
<1>4. RunHas(r) /\ phase[r] \in Later \cup {"failed"}
  <2>1. RunHas(r) /\ HandOf(r)
    BY <1>2 DEF RunHas, QueueIsRight
  <2>2. \A ph \in Phases : <<ph>> # <<>>
    OBVIOUS
  <2> QED BY <1>1, <1>2, <2>1 DEF HandOf
<1>5. \A q \in Actors : q # "run" => q = "loop"
  BY OtherActor
<1>6. InsertTypes'
  BY <1>2 DEF InsertTypes
<1>7. InsertControl'
  BY <1>2, <1>3, <1>5, OtherActor DEF InsertControl
<1>8. SurveysAreRight' /\ CompletedIsDone' /\ PlansHold'
  BY <1>2, <1>3, <1>5, OtherActor
     DEF SurveysAreRight, CompletedIsDone, PlansHold, Refused, FreshCall
<1>9. QueueIsRight'
  <2>1. \A q : ~RunHas(q)' /\ (FreshCall(q)' <=> FreshCall(q))
    BY <1>2, <1>3 DEF RunHas, FreshCall
  <2>2. \A q \in Requests : phase[q] \in {"queued", "replanning"} => ~RunHas(q)
    BY <1>2, <1>4 DEF RunHas, Later
  <2> QED BY <1>2, <2>1, <2>2 DEF QueueIsRight
<1>10. UncrossedHold'
  <2>1. \A a \in Actors : a # "run" => UNCHANGED OfActor(a)
    BY <1>2, <1>3, <1>5 DEF OfActor
  <2>2. r \notin crossed => counted[r] = 0 /\ phase[r] # "completed"
    BY <1>2, OtherActor DEF UncrossedHold, InTheMiddle, Amid
  <2> QED BY <1>2, <1>3, <2>1, <2>2, LeavingKeeps, OtherActor
<1> QED BY <1>6, <1>7, <1>8, <1>9, <1>10

LEMMA BeginSurveyKeeps == ASSUME InsertInv, BeginSurvey PROVE InsertInv'
<1> USE InsertionConstants DEF InsertInv
<1>1. /\ task["loop"] = "insert" /\ at["loop"] = "climb"
      /\ task' = [task EXCEPT !["loop"] = "survey"] /\ about' = [about EXCEPT !["loop"] = 1]
      /\ at' = [at EXCEPT !["loop"] = "look"]
      /\ UNCHANGED <<requests, pending, phase, timeline, counted, announced, ladder, target,
                     envelope, planned, work, going, crossed>>
  BY DEF BeginSurvey, MoveOn, requestVars, factoryVars
<1>2. /\ at'["loop"] = "look" /\ task'["loop"] = "survey" /\ about'["loop"] = 1
      /\ at'["run"] = at["run"] /\ task'["run"] = task["run"] /\ about'["run"] = about["run"]
  BY <1>1, OtherActor DEF InsertTypes
<1>3. PICK r \in Requests : r = about["loop"]
  <2>1. about["loop"] \in 1..requests
    BY <1>1, OtherActor DEF InsertControl
  <2> QED BY <2>1 DEF InsertTypes, Requests
<1>4. \A q \in Actors : q # "loop" => q = "run"
  BY OtherActor
<1>5. InsertTypes'
  BY <1>1 DEF InsertTypes
<1>6. InsertControl'
  BY <1>1, <1>2, <1>4, OtherActor DEF InsertControl
<1>7. SurveysAreRight' /\ CompletedIsDone' /\ PlansHold'
  BY <1>1, <1>2, <1>4, OtherActor
     DEF SurveysAreRight, CompletedIsDone, PlansHold, Refused, FreshCall
<1>8. QueueIsRight'
  <2>1. \A q : (RunHas(q)' <=> RunHas(q)) /\ (FreshCall(q)' <=> FreshCall(q))
    BY <1>1, <1>2 DEF RunHas, FreshCall
  <2>2. ASSUME NEW q \in Requests, HandOf(q) PROVE HandOf(q)'
    BY <1>1, <1>2, <2>2 DEF HandOf, FreshCall, Refused
  <2> QED BY <1>1, <2>1, <2>2 DEF QueueIsRight
<1>9. UncrossedHold'
  <2>1. \A a \in Actors : a # "loop" => UNCHANGED OfActor(a)
    BY <1>1, <1>2, <1>4 DEF OfActor
  <2>2. r \notin crossed => counted[r] = 0 /\ phase[r] # "completed"
    BY <1>1, <1>3, OtherActor DEF UncrossedHold, InTheMiddle, Amid
  <2> QED BY <1>1, <1>2, <1>3, <2>1, <2>2, LeavingKeeps, OtherActor
<1> QED BY <1>5, <1>6, <1>7, <1>8, <1>9

LEMMA EndRequestKeeps == ASSUME InsertInv, NEW p \in Actors, EndRequest(p) PROVE InsertInv'
<1> USE InsertionConstants DEF InsertInv
<1>1. PICK r \in Requests : r = about[p] /\ r \in 1..requests
  <2>1. at[p] = "climb"
    BY DEF EndRequest, Surveyed
  <2>2. about[p] \in 1..requests
    BY <2>1 DEF InsertControl
  <2> QED BY <2>2 DEF InsertTypes, Requests
<1>2. /\ task[p] = "survey" /\ at[p] = "climb" /\ ladder[p] = <<>>
      /\ about' = [about EXCEPT ![p] = r + 1] /\ target' = [target EXCEPT ![p] = "none"]
      /\ at' = [at EXCEPT ![p] = "look"]
      /\ counted' = [counted EXCEPT
                      ![r] = IF target[p] = "completed" THEN counted[r] + 1 ELSE counted[r]]
      /\ UNCHANGED <<requests, pending, phase, timeline, announced, task, ladder, envelope,
                     planned, work, going, crossed>>
  BY <1>1 DEF EndRequest, Surveyed, MoveOn, factoryVars
<1>3. /\ at'[p] = "look" /\ about'[p] = r + 1 /\ r + 1 \in Nat /\ r + 1 >= 1
      /\ \A q \in Actors : q # p =>
           at'[q] = at[q] /\ about'[q] = about[q] /\ target'[q] = target[q]
      /\ \A q \in Requests : q # r => counted'[q] = counted[q]
      /\ counted'[r] = IF target[p] = "completed" THEN counted[r] + 1 ELSE counted[r]
  BY <1>2 DEF InsertTypes, Requests
<1>4. InsertTypes'
  <2>1. counted' \in [Requests -> Nat]
    BY <1>2 DEF InsertTypes
  <2>2. about' \in [Actors -> Nat]
    BY <1>2, <1>3 DEF InsertTypes
  <2> QED BY <1>2, <2>1, <2>2 DEF InsertTypes
<1>5. InsertControl'
  BY <1>2, <1>3 DEF InsertControl
<1>6. SurveysAreRight' /\ CompletedIsDone' /\ PlansHold'
  BY <1>2, <1>3 DEF SurveysAreRight, CompletedIsDone, PlansHold, Refused, FreshCall
<1>7. QueueIsRight'
  <2>1. \A q : (RunHas(q)' <=> RunHas(q)) /\ (FreshCall(q)' <=> FreshCall(q))
    BY <1>2, <1>3, OtherActor DEF RunHas, FreshCall
  <2>2. ASSUME NEW q \in Requests, RunHas(q), HandOf(q) PROVE HandOf(q)'
    <3>1. at'["run"] = at["run"]
      BY <1>2, <1>3, <2>2, OtherActor DEF RunHas
    <3> QED BY <1>2, <2>2, <3>1 DEF HandOf, FreshCall, Refused
  <2> QED BY <1>2, <2>1, <2>2 DEF QueueIsRight
<1>8. UncrossedHold'
  <2>1. \A a \in Actors : a # p => UNCHANGED OfActor(a)
    BY <1>2, <1>3 DEF OfActor
  <2>2. ASSUME r \notin crossed
        PROVE  counted'[r] = IF phase[r] = "completed" THEN 1 ELSE 0
    <3>1. Amid(p, r)
      BY <1>1, <1>2 DEF Amid
    <3>2. InTheMiddle(p, r)
      BY <2>2, <3>1 DEF UncrossedHold
    <3>3. counted[r] = 0 /\ Climbs(r) /\ target[p] = Life[Len(timeline[r]) + Len(ladder[p])]
      BY <1>2, <3>2 DEF InTheMiddle, Ahead
    <3>4. target[p] = phase[r]
      BY <1>2, <3>3, EmptySeq DEF Climbs
    <3> QED BY <1>3, <3>3, <3>4
  <2> QED BY <1>1, <1>2, <1>3, <2>1, <2>2, LeavingKeeps
<1> QED BY <1>4, <1>5, <1>6, <1>7, <1>8

\* The steps in which nobody is in the middle of a request or gets there.
LEMMA OutsideKeeps ==
  ASSUME InsertInv, UNCHANGED <<requests, phase, timeline, announced, counted, crossed>>,
         \A p \in Actors : at[p] \in {"idle", "look"} \/ at'[p] \in {"idle", "look"}
                            \/ UNCHANGED OfActor(p),
         \A p \in Actors : at[p] \in {"idle", "look"} <=> at'[p] \in {"idle", "look"}
  PROVE  UncrossedHold'
<1> SUFFICES ASSUME NEW q \in Requests, q \notin crossed'
             PROVE  /\ q > requests' =>
                         timeline'[q] = <<>> /\ announced'[q] = <<>> /\ counted'[q] = 0
                    /\ q <= requests' => Climbs(q)' \/ HasFailed(q)'
                    /\ ~(Amid("run", q)' /\ Amid("loop", q)')
                    /\ \A a \in Actors : Amid(a, q)' => InTheMiddle(a, q)'
                    /\ (\A a \in Actors : ~Amid(a, q)') =>
                         /\ announced'[q] = timeline'[q]
                         /\ counted'[q] = IF phase'[q] = "completed" THEN 1 ELSE 0
  BY DEF UncrossedHold
<1>1. \A a \in Actors : Amid(a, q)' => Amid(a, q) /\ UNCHANGED OfActor(a)
  BY DEF Amid, OfActor
<1>2. \A a \in Actors : Amid(a, q) => Amid(a, q)'
  BY DEF Amid, OfActor
<1> QED BY <1>1, <1>2, UncrossedKeeps DEF OfRequest, InsertInv

LEMMA StepFactoryKeeps == ASSUME InsertInv, StepFactory PROVE InsertInv'
<1> USE InsertionConstants DEF InsertInv
<1>1. /\ at["run"] = "idle"
      /\ task' = [task EXCEPT !["run"] = "survey"] /\ about' = [about EXCEPT !["run"] = 1]
      /\ at' = [at EXCEPT !["run"] = "look"]
      /\ UNCHANGED <<requests, pending, phase, timeline, counted, announced, ladder, target,
                     envelope, planned, going, crossed>>
  BY DEF StepFactory, MoveOn, requestVars
<1>2. PICK news \in [Requests -> {"idle", "moved", "worked", "done"}] :
        work' = [r \in Requests |-> IF work[r] \in {"none", "done"} THEN work[r] ELSE news[r]]
  BY DEF StepFactory
<1>3. \A r \in Requests : /\ work'[r] = "none" <=> work[r] = "none"
                          /\ work[r] = "done" => work'[r] = "done"
                          /\ work'[r] \in {"none", "idle", "moved", "worked", "done"}
  BY <1>2
<1>4. /\ at'["run"] = "look" /\ task'["run"] = "survey" /\ about'["run"] = 1
      /\ at'["loop"] = at["loop"] /\ task'["loop"] = task["loop"]
      /\ about'["loop"] = about["loop"] /\ task["run"] = "none"
  BY <1>1, OtherActor DEF InsertTypes, InsertControl
<1>5. \A q \in Actors : q # "run" => q = "loop"
  BY OtherActor
<1>6. InsertTypes'
  <2>1. work' \in [Requests -> {"none", "idle", "moved", "worked", "done"}]
    BY <1>2, <1>3
  <2> QED BY <1>1, <2>1 DEF InsertTypes
<1>7. InsertControl'
  BY <1>1, <1>4, <1>5, OtherActor DEF InsertControl
<1>8. SurveysAreRight'
  <2>1. task["loop"] = "survey" /\ at["loop"] # "look" => about["loop"] \in Requests
    <3>1. task["loop"] = "survey" /\ at["loop"] # "look" => about["loop"] \in 1..requests
      BY OtherActor DEF InsertControl
    <3> QED BY <3>1 DEF InsertTypes, Requests
  <2> QED BY <1>1, <1>3, <1>4, <1>5, <2>1, OtherActor DEF SurveysAreRight
<1>9. CompletedIsDone' /\ PlansHold'
  <2>1. \A r \in Requests : Refused(r) => Refused(r)'
    BY <1>1, <1>3 DEF Refused
  <2>2. \A r \in Requests : FreshCall(r) => FreshCall(r)'
    BY <1>1, <1>3 DEF FreshCall
  <2>3. CompletedIsDone'
    BY <1>1, <1>3 DEF CompletedIsDone
  <2> QED BY <1>1, <1>3, <2>1, <2>2, <2>3 DEF PlansHold
<1>10. QueueIsRight'
  <2>1. \A q : ~RunHas(q)' /\ ~RunHas(q)
    BY <1>4 DEF RunHas
  <2>2. \A q \in Requests : FreshCall(q) => FreshCall(q)'
    BY <1>1, <1>3 DEF FreshCall
  <2>3. ASSUME NEW i \in 1..Len(pending) PROVE FreshCall(pending[i])'
    <3>1. PICK q \in Requests : q = pending[i]
      BY DEF InsertTypes
    <3>2. FreshCall(q)'
      BY <2>2, <3>1 DEF QueueIsRight
    <3> QED BY <1>1, <3>1, <3>2 DEF FreshCall
  <2> QED BY <1>1, <2>1, <2>3 DEF QueueIsRight
<1>11. UncrossedHold'
  <2>1. UNCHANGED OfActor("loop")
    BY <1>1, <1>4, OtherActor DEF OfActor
  <2>2. at'["loop"] = at["loop"]
    BY <1>4
  <2> QED BY <1>1, <1>4, <1>5, <2>1, <2>2, OutsideKeeps
<1> QED BY <1>6, <1>7, <1>8, <1>9, <1>10, <1>11

LEMMA EndSurveyKeeps == ASSUME InsertInv, NEW p \in Actors, EndSurvey(p) PROVE InsertInv'
<1> USE InsertionConstants DEF InsertInv
<1>1. /\ at[p] = "look"
      /\ task' = [task EXCEPT ![p] = "none"] /\ about' = [about EXCEPT ![p] = 0]
      /\ at' = [at EXCEPT ![p] = "idle"]
      /\ UNCHANGED <<requests, pending, phase, timeline, counted, announced, ladder, target,
                     envelope, planned, work, going, crossed>>
  BY DEF EndSurvey, MoveOn, requestVars, factoryVars
<1>2. /\ at'[p] = "idle" /\ task'[p] = "none" /\ about'[p] = 0 /\ task[p] = "survey"
      /\ \A q \in Actors : q # p =>
           at'[q] = at[q] /\ about'[q] = about[q] /\ task'[q] = task[q]
  BY <1>1 DEF InsertTypes, InsertControl
<1>3. InsertTypes'
  BY <1>1 DEF InsertTypes
<1>4. InsertControl'
  BY <1>1, <1>2, OtherActor DEF InsertControl
<1>5. SurveysAreRight' /\ CompletedIsDone' /\ PlansHold'
  BY <1>1, <1>2 DEF SurveysAreRight, CompletedIsDone, PlansHold, Refused, FreshCall
<1>6. QueueIsRight'
  <2>1. \A q : (RunHas(q)' <=> RunHas(q)) /\ (FreshCall(q)' <=> FreshCall(q))
    BY <1>1, <1>2, OtherActor DEF RunHas, FreshCall
  <2>2. ASSUME NEW q \in Requests, RunHas(q), HandOf(q) PROVE HandOf(q)'
    <3>1. at'["run"] = at["run"]
      BY <1>1, <1>2, <2>2, OtherActor DEF RunHas
    <3> QED BY <1>1, <2>2, <3>1 DEF HandOf, FreshCall, Refused
  <2> QED BY <1>1, <2>1, <2>2 DEF QueueIsRight
<1>7. UncrossedHold'
  <2>1. \A q \in Actors : q # p => UNCHANGED OfActor(q)
    BY <1>1, <1>2 DEF OfActor
  <2> QED BY <1>1, <1>2, <2>1, OutsideKeeps
<1> QED BY <1>3, <1>4, <1>5, <1>6, <1>7

LEMMA LookKeeps == ASSUME InsertInv, NEW p \in Actors, Look(p) PROVE InsertInv'
<1> USE InsertionConstants DEF InsertInv
<1>1. PICK r \in Requests : r = about[p] /\ r <= requests
  <2>1. about[p] \in Nat /\ about[p] >= 1 /\ about[p] <= requests
    BY DEF Look, InsertControl, InsertTypes
  <2> QED BY <2>1 DEF InsertTypes, Requests
<1>2. /\ at[p] = "look" /\ task[p] = "survey" /\ ladder[p] = <<>>
      /\ UNCHANGED <<requests, pending, phase, timeline, counted, announced, task, envelope,
                     planned, work, going>>
  BY DEF Look, requestVars, factoryVars, InsertControl
<1>3. \/ /\ about' = [about EXCEPT ![p] = r + 1] /\ UNCHANGED <<at, ladder, target, crossed>>
      \/ /\ phase[r] \notin {"queued", "replanning", "failed", "completed"}
         /\ ClimbTo(r) # <<>> /\ ladder' = [ladder EXCEPT ![p] = ClimbTo(r)]
         /\ target' = [target EXCEPT ![p] = Target(r)] /\ at' = [at EXCEPT ![p] = "climb"]
         /\ crossed' = crossed \cup (IF Amid(Other(p), r) THEN {r} ELSE {})
         /\ about' = about
  BY <1>1 DEF Look, MoveOn, Takes
<1>4. CASE about' = [about EXCEPT ![p] = r + 1] /\ UNCHANGED <<at, ladder, target, crossed>>
  <2>1. /\ about'[p] = r + 1 /\ r + 1 \in Nat /\ r + 1 >= 1
        /\ \A q \in Actors : q # p => about'[q] = about[q]
    BY <1>4 DEF InsertTypes, Requests
  <2>2. InsertTypes'
    BY <1>2, <1>4, <2>1 DEF InsertTypes
  <2>3. InsertControl'
    BY <1>2, <1>4, <2>1 DEF InsertControl
  <2>4. SurveysAreRight' /\ CompletedIsDone' /\ PlansHold'
    BY <1>2, <1>4, <2>1 DEF SurveysAreRight, CompletedIsDone, PlansHold, Refused, FreshCall
  <2>5. QueueIsRight'
    <3>1. \A q : (RunHas(q)' <=> RunHas(q)) /\ (FreshCall(q)' <=> FreshCall(q))
      BY <1>2, <1>4, <2>1, OtherActor DEF RunHas, FreshCall
    <3>2. ASSUME NEW q \in Requests, HandOf(q) PROVE HandOf(q)'
      BY <1>2, <1>4, <3>2 DEF HandOf, FreshCall, Refused
    <3> QED BY <1>2, <3>1, <3>2 DEF QueueIsRight
  <2>6. UncrossedHold'
    <3>1. \A q \in Actors : q # p => UNCHANGED OfActor(q)
      BY <1>2, <1>4, <2>1 DEF OfActor
    <3> QED BY <1>2, <1>4, <3>1, OutsideKeeps
  <2> QED BY <2>2, <2>3, <2>4, <2>5, <2>6
<1>5. CASE /\ phase[r] \notin {"queued", "replanning", "failed", "completed"}
           /\ ClimbTo(r) # <<>> /\ ladder' = [ladder EXCEPT ![p] = ClimbTo(r)]
           /\ target' = [target EXCEPT ![p] = Target(r)] /\ at' = [at EXCEPT ![p] = "climb"]
           /\ crossed' = crossed \cup (IF Amid(Other(p), r) THEN {r} ELSE {})
           /\ about' = about
  <2>1. phase[r] \in Later
    <3>1. phase[r] \in Phases
      BY <1>1 DEF InsertControl, InsertTypes, Requests
    <3> QED BY <1>5, <3>1, PhasesAre DEF Later
  <2>2. phase[r] \in Phases /\ phase[r] # "failed"
    BY <2>1, PhasesAre DEF Later
  <2>3. PICK k \in 1..6, n \in 1..6 :
          /\ phase[r] = Life[k] /\ Target(r) = Life[n] /\ k < n
          /\ Target(r) = "completed" => work[r] = "done"
          /\ ClimbTo(r) \in Seq(Phases) /\ Len(ClimbTo(r)) = n - k
          /\ \A i \in 1..n - k : ClimbTo(r)[i] = Life[k + i]
    BY <1>5, <2>2, ClimbToIs
  <2>4. k \in {3, 4, 5, 6}
    BY <2>1, <2>3, LifeIs DEF Later
  <2>5. /\ ladder'[p] = ClimbTo(r) /\ target'[p] = Target(r) /\ at'[p] = "climb"
        /\ \A q \in Actors : q # p =>
             ladder'[q] = ladder[q] /\ target'[q] = target[q] /\ at'[q] = at[q]
    BY <1>5 DEF InsertTypes
  <2>6. \A i \in 1..n - k : /\ Life[k + i] \in Later \ {"scheduled"}
                            /\ Life[k + i] = "completed" => work[r] = "done"
    <3> SUFFICES ASSUME NEW i \in 1..n - k
                 PROVE  /\ Life[k + i] \in Later \ {"scheduled"}
                        /\ Life[k + i] = "completed" => work[r] = "done"
      OBVIOUS
    <3>1. PICK m \in 4..6 : m = k + i /\ m <= n
      BY <2>4
    <3>2. Life[m] \in Later \ {"scheduled"}
      BY LifeIs DEF Later
    <3>3. Life[m] = "completed" => n = 6
      BY <3>1, LifeOnce
    <3>4. n = 6 => work[r] = "done"
      BY <2>3, LifeIs
    <3> QED BY <3>1, <3>2, <3>3, <3>4
  <2>7. InsertTypes'
    <3>1. Target(r) \in Phases
      BY <2>3, LifeIs
    <3> QED BY <1>2, <1>5, <2>3, <3>1 DEF InsertTypes
  <2>8. InsertControl'
    <3>1. about[p] \in 1..requests
      BY <1>1 DEF InsertTypes, Requests
    <3>2. \A q \in Requests : q \in crossed' => q <= requests
      BY <1>1, <1>5 DEF InsertControl
    <3> QED BY <1>2, <1>5, <2>5, <3>1, <3>2 DEF InsertControl
  <2>9. SurveysAreRight' /\ CompletedIsDone' /\ PlansHold'
    <3>1. \A i \in 1..Len(ladder'[p]) : /\ ladder'[p][i] \in Later \ {"scheduled"}
                                        /\ ladder'[p][i] = "completed" => work[r] = "done"
      BY <2>3, <2>5, <2>6
    <3>2. SurveysAreRight'
      BY <1>1, <1>2, <1>5, <2>1, <2>5, <3>1 DEF SurveysAreRight
    <3> QED BY <1>2, <3>2 DEF CompletedIsDone, PlansHold, Refused, FreshCall
  <2>10. QueueIsRight'
    <3>1. \A q : (RunHas(q)' <=> RunHas(q)) /\ (FreshCall(q)' <=> FreshCall(q))
      BY <1>2, <1>5 DEF RunHas, FreshCall
    <3>2. ASSUME NEW q \in Requests, RunHas(q), HandOf(q) PROVE HandOf(q)'
      <4>1. p # "run"
        BY <1>2, <3>2 DEF RunHas
      <4>2. ladder'["run"] = ladder["run"] /\ at'["run"] = at["run"]
        BY <2>5, <4>1, OtherActor
      <4> QED BY <1>2, <3>2, <4>2 DEF HandOf, FreshCall, Refused
    <3> QED BY <1>2, <3>1, <3>2 DEF QueueIsRight
  <2>11. UncrossedHold'
    <3> SUFFICES ASSUME NEW q \in Requests, q \notin crossed'
                 PROVE  /\ q > requests' =>
                             timeline'[q] = <<>> /\ announced'[q] = <<>> /\ counted'[q] = 0
                        /\ q <= requests' => Climbs(q)' \/ HasFailed(q)'
                        /\ ~(Amid("run", q)' /\ Amid("loop", q)')
                        /\ \A a \in Actors : Amid(a, q)' => InTheMiddle(a, q)'
                        /\ (\A a \in Actors : ~Amid(a, q)') =>
                             /\ announced'[q] = timeline'[q]
                             /\ counted'[q] = IF phase'[q] = "completed" THEN 1 ELSE 0
      BY DEF UncrossedHold
    <3>1. q \notin crossed /\ UNCHANGED OfRequest(q) /\ ~Amid(p, q)
      BY <1>2, <1>5 DEF OfRequest, Amid
    <3>2. \A a \in Actors : a # p => UNCHANGED OfActor(a) /\ (Amid(a, q)' <=> Amid(a, q))
      BY <1>2, <1>5, <2>5 DEF OfActor, Amid
    <3>3. CASE q # r
      <4>1. ~Amid(p, q)'
        BY <1>1, <1>5, <3>3 DEF Amid
      <4>2. \A a \in Actors : /\ Amid(a, q)' => Amid(a, q) /\ UNCHANGED OfActor(a)
                              /\ Amid(a, q) => Amid(a, q)'
        BY <3>1, <3>2, <4>1
      <4> QED BY <1>2, <3>1, <4>2, UncrossedKeeps
    <3>4. CASE q = r
      <4>1. \A a \in Actors : a # p => ~Amid(a, r) /\ ~Amid(a, r)'
        <5>1. ~Amid(Other(p), r)
          BY <1>5, <3>4
        <5> QED BY <3>2, <3>4, <5>1, OtherActor
      <4>2. announced[r] = timeline[r] /\ counted[r] = 0 /\ Climbs(r)
        <5>1. \A a \in Actors : ~Amid(a, r)
          BY <3>1, <3>4, <4>1
        <5>2. phase[r] # "completed" /\ phase[r] # "failed"
          BY <1>5
        <5> QED BY <1>1, <3>1, <3>4, <5>1, <5>2 DEF UncrossedHold, HasFailed
      <4>3. Len(timeline[r]) = k
        <5>1. PICK m \in 1..6 : m = Len(timeline[r]) /\ Life[m] = Life[k]
          BY <2>3, <4>2 DEF Climbs
        <5>2. Rank(Life[m]) = m /\ Rank(Life[k]) = k
          BY RankLife
        <5> QED BY <5>1, <5>2
      <4>4. Climbs(r)' /\ Amid(p, r)'
        BY <1>1, <1>2, <1>5, <2>5, <4>2 DEF Climbs, Amid
      <4>5. Ahead(p, r)'
        <5>1. /\ Len(timeline'[r]) = k /\ Len(ladder'[p]) = n - k
              /\ k + (n - k) = n /\ task'[p] = "survey"
          BY <1>2, <2>3, <2>5, <4>3
        <5>2. /\ Len(timeline'[r]) + Len(ladder'[p]) <= 6
              /\ target'[p] = Life[Len(timeline'[r]) + Len(ladder'[p])]
          BY <2>3, <2>5, <5>1
        <5>3. \A i \in 1..Len(ladder'[p]) : ladder'[p][i] = Life[Len(timeline'[r]) + i]
          BY <2>3, <2>5, <5>1
        <5> QED BY <4>4, <5>2, <5>3 DEF Ahead
      <4>6. InTheMiddle(p, r)'
        BY <1>2, <2>5, <4>2, <4>5 DEF InTheMiddle, Telling
      <4>7. ~(r > requests)
        BY <1>1 DEF InsertTypes, Requests
      <4> QED BY <1>2, <3>4, <4>1, <4>4, <4>6, <4>7, OtherActor
    <3> QED BY <3>3, <3>4
  <2> QED BY <2>7, <2>8, <2>9, <2>10, <2>11
<1> QED BY <1>3, <1>4, <1>5

\* RunEnds, and a step of nobody.
LEMMA StandingKeeps ==
  ASSUME InsertInv, UNCHANGED <<requestVars, announced, actorVars, planned, work, crossed>>
  PROVE  InsertInv'
<1> USE DEF InsertInv, requestVars, actorVars
<1>1. InsertTypes' /\ InsertControl'
  BY DEF InsertTypes, InsertControl
<1>2. SurveysAreRight' /\ CompletedIsDone' /\ PlansHold'
  BY DEF SurveysAreRight, CompletedIsDone, PlansHold, Refused, FreshCall
<1>3. QueueIsRight'
  BY DEF QueueIsRight, RunHas, HandOf, FreshCall, Refused
<1>4. UncrossedHold'
  <2>1. \A p \in Actors : UNCHANGED OfActor(p) /\ at'[p] = at[p]
    BY DEF OfActor
  <2> QED BY <2>1, OutsideKeeps
<1> QED BY <1>1, <1>2, <1>3, <1>4

LEMMA InsertNextKeeps == InsertInv /\ [InsertNext]_insertionVars => InsertInv'
<1> SUFFICES ASSUME InsertInv, [InsertNext]_insertionVars PROVE InsertInv'
  OBVIOUS
<1>1. CASE Accept
  BY <1>1, AcceptKeeps
<1>2. CASE RunEnds
  BY <1>2, StandingKeeps DEF RunEnds
<1>3. CASE RunStep
  <2>1. CASE PopRequest
    BY <2>1, PopRequestKeeps
  <2>2. CASE NextRequest
    BY <2>2, NextRequestKeeps
  <2>3. CASE StepFactory
    BY <2>3, StepFactoryKeeps
  <2>4. CASE SetInsertPhase("run")
    BY <2>4, SetInsertPhaseKeeps, OtherActor
  <2>5. CASE ReadPhase("run") \/ PublishPhase("run")
    BY <2>5, TellKeeps, OtherActor
  <2>6. CASE Look("run")
    BY <2>6, LookKeeps, OtherActor
  <2>7. CASE EndRequest("run")
    BY <2>7, EndRequestKeeps, OtherActor
  <2>8. CASE EndSurvey("run")
    BY <2>8, EndSurveyKeeps, OtherActor
  <2>9. ASSUME NEW r \in Requests, ReplanFails(r) \/ Install(r) PROVE InsertInv'
    BY <2>9, SettleKeeps
  <2> QED BY <1>3, <2>1, <2>2, <2>3, <2>4, <2>5, <2>6, <2>7, <2>8, <2>9 DEF RunStep
<1>4. CASE LoopStep
  <2>1. CASE BeginSurvey
    BY <2>1, BeginSurveyKeeps
  <2>2. CASE SetInsertPhase("loop")
    BY <2>2, SetInsertPhaseKeeps, OtherActor
  <2>3. CASE ReadPhase("loop") \/ PublishPhase("loop")
    BY <2>3, TellKeeps, OtherActor
  <2>4. CASE Look("loop")
    BY <2>4, LookKeeps, OtherActor
  <2>5. CASE EndRequest("loop")
    BY <2>5, EndRequestKeeps, OtherActor
  <2>6. CASE EndSurvey("loop")
    BY <2>6, EndSurveyKeeps, OtherActor
  <2> QED BY <1>4, <2>1, <2>2, <2>3, <2>4, <2>5, <2>6 DEF LoopStep
<1>5. CASE UNCHANGED insertionVars
  BY <1>5, StandingKeeps DEF insertionVars, factoryVars
<1> QED BY <1>1, <1>2, <1>3, <1>4, <1>5 DEF InsertNext

-----------------------------------------------------------------------------
LEMMA InsertGives == InsertInv => RequestsAreKept
<1> SUFFICES ASSUME InsertInv PROVE RequestsAreKept
  OBVIOUS
<1> USE InsertionConstants DEF InsertInv
<1>1. TimelineClimbs
  <2> SUFFICES ASSUME NEW r \in Requests, r \notin crossed
               PROVE  \/ timeline[r] = SubSeq(Life, 1, Len(timeline[r]))
                      \/ timeline[r] = <<"queued", "replanning", "failed">>
    BY DEF TimelineClimbs
  <2>1. timeline[r] \in Seq(Phases)
    BY DEF InsertTypes
  <2>2. CASE Climbs(r)
    <3>1. PICK n \in 1..6 : n = Len(timeline[r])
      BY <2>2 DEF Climbs
    <3>2. /\ SubSeq(Life, 1, n) \in Seq(Phases) /\ Len(SubSeq(Life, 1, n)) = n
          /\ \A i \in 1..n : SubSeq(Life, 1, n)[i] = Life[i]
      <4>1. 1 \in 1..6 /\ 1 <= n
        OBVIOUS
      <4>2. /\ SubSeq(Life, 1, n) \in Seq(Phases) /\ Len(SubSeq(Life, 1, n)) = n - 1 + 1
            /\ \A i \in 1..n - 1 + 1 : SubSeq(Life, 1, n)[i] = Life[1 + i - 1]
        BY <4>1, LifeFrom
      <4> QED BY <4>2
    <3>3. timeline[r] = SubSeq(Life, 1, n)
      BY <2>1, <2>2, <3>1, <3>2, SeqEqual DEF Climbs
    <3> QED BY <3>1, <3>3
  <2>3. CASE HasFailed(r)
    BY <2>3 DEF HasFailed
  <2>4. CASE r > requests
    <3>1. timeline[r] = <<>>
      BY <2>4 DEF UncrossedHold
    <3> QED BY <3>1, SubSeqEmpty, LifeIs
  <2>5. r > requests \/ r <= requests
    BY DEF InsertTypes, Requests
  <2> QED BY <2>2, <2>3, <2>4, <2>5 DEF UncrossedHold
<1>2. AnnouncedAsRecorded
  BY DEF AnnouncedAsRecorded, Untouched, UncrossedHold
<1>3. CompletedOnce
  BY DEF CompletedOnce, Untouched, UncrossedHold, CompletedIsDone
<1>4. NoneForgotten
  <2>1. ASSUME NEW r \in Requests
        PROVE  r \in ToSet(pending) <=> \E i \in 1..Len(pending) : pending[i] = r
    <3>1. DOMAIN pending = 1..Len(pending)
      BY LenProperties DEF InsertTypes
    <3>2. ToSet(pending) = {pending[i] : i \in DOMAIN pending}
      BY DEF ToSet
    <3> QED BY <3>1, <3>2
  <2>2. ASSUME NEW r \in 1..requests, phase[r] \in {"queued", "replanning"}
        PROVE  (r \in ToSet(pending)) # RunHas(r)
    <3>1. r \in Requests
      BY DEF InsertTypes, Requests
    <3> QED BY <2>1, <2>2, <3>1 DEF QueueIsRight
  <2> QED BY <2>2 DEF NoneForgotten, QueueIsRight, RunHas
<1>5. PlansAgree
  BY DEF PlansAgree, PlansHold, Refused
<1> QED BY <1>1, <1>2, <1>3, <1>4, <1>5 DEF RequestsAreKept

\* The urgent jobs of a run, for any number of requests and any of their ids taken:
\* a request climbs through its life without a gap, clients are told of every phase,
\* and it is counted once, as long as the surveys of the two threads do not meet at
\* it; and always, whatever thread says so, completed means that the factory has
\* finished its jobs, no request is lost or served twice, and jobs are in the factory
\* only with a plan of the remote service.
THEOREM RequestsKept == InsertSpec => []RequestsAreKept
<1>1. InsertSpec => []InsertInv
  BY InitInsert, InsertNextKeeps, PTL DEF InsertSpec
<1> QED BY <1>1, InsertGives, PTL

-----------------------------------------------------------------------------
(* The types of the insertions, beyond what the proofs above need.         *)

MoreTypes ==
  /\ announced \in [Requests -> Seq(Phases)]
  /\ \A p \in Actors : (envelope[p] # "none" <=> at[p] = "publish") /\ about[p] <= requests + 1
  /\ planned \subseteq Requests /\ crossed \subseteq Requests /\ going \in BOOLEAN

LEMMA MoreStarts == InsertInit => MoreTypes
<1> SUFFICES ASSUME InsertInit PROVE MoreTypes
  OBVIOUS
<1>1. <<>> \in Seq(Phases)
  OBVIOUS
<1> QED BY <1>1 DEF InsertInit, MoreTypes

\* A step in which actors are where they were, or not to be at the publication.
LEMMA MoreKept ==
  ASSUME InsertInv, MoreTypes, NEW p \in Actors, requests' \in Nat, requests' >= requests,
         announced' = announced, envelope' = envelope, planned' \subseteq Requests,
         crossed' \subseteq Requests, going' \in BOOLEAN,
         \A q \in Actors : q # p => at'[q] = at[q] /\ about'[q] = about[q],
         at[p] # "publish", at'[p] # "publish", about'[p] <= requests' + 1
  PROVE  MoreTypes'
<1>1. \A q \in Actors : about'[q] <= requests' + 1
  <2> SUFFICES ASSUME NEW q \in Actors, q # p PROVE about'[q] <= requests' + 1
    OBVIOUS
  <2>1. about'[q] = about[q] /\ about[q] <= requests + 1
    BY DEF MoreTypes
  <2>2. about[q] \in Nat /\ requests \in Nat
    BY InsertionConstants DEF InsertInv, InsertTypes
  <2> QED BY <2>1, <2>2
<1>2. \A q \in Actors : envelope'[q] # "none" <=> at'[q] = "publish"
  BY DEF MoreTypes
<1> QED BY <1>1, <1>2 DEF MoreTypes

\* The numbers of the state.
LEMMA InsertNumbers ==
  ASSUME InsertInv
  PROVE  /\ requests \in Nat /\ MaxRequests \in Nat /\ requests <= MaxRequests
         /\ \A r \in Requests : r \in Nat
         /\ \A p \in Actors : about[p] \in Nat
         /\ \A p \in Actors : at[p] \notin {"idle", "look"} => about[p] \in Requests /\ about[p] <= requests
         /\ DOMAIN at = Actors /\ DOMAIN about = Actors /\ DOMAIN envelope = Actors
         /\ "run" \in Actors /\ "loop" \in Actors
<1>1. requests \in 0..MaxRequests /\ MaxRequests \in Nat
  BY InsertionConstants DEF InsertInv, InsertTypes
<1>2. \A p \in Actors : at[p] \notin {"idle", "look"} => about[p] \in 1..requests
  BY DEF InsertInv, InsertControl
<1>3. 1..requests \subseteq Requests
  BY <1>1 DEF Requests
<1>4. /\ \A p \in Actors : about[p] \in Nat
      /\ DOMAIN at = Actors /\ DOMAIN about = Actors /\ DOMAIN envelope = Actors
  BY DEF InsertInv, InsertTypes
<1>5. \A p \in Actors : at[p] \notin {"idle", "look"} =>
        about[p] \in Requests /\ about[p] <= requests
  <2> SUFFICES ASSUME NEW p \in Actors, at[p] \notin {"idle", "look"}
               PROVE  about[p] \in Requests /\ about[p] <= requests
    OBVIOUS
  <2>1. about[p] \in 1..requests
    BY <1>2
  <2> QED BY <1>1, <1>3, <2>1
<1>6. requests \in Nat /\ MaxRequests \in Nat /\ requests <= MaxRequests
      /\ \A r \in Requests : r \in Nat
  BY <1>1 DEF Requests
<1> QED BY <1>4, <1>5, <1>6, OtherActor

LEMMA MoreKeeps ==
  ASSUME InsertInv, InsertInv', MoreTypes, InsertNext PROVE MoreTypes'
<1> USE InsertNumbers DEF MoveOn
<1>0. /\ planned \subseteq Requests /\ crossed \subseteq Requests /\ going \in BOOLEAN
      /\ \A p \in Actors : about[p] <= requests + 1
  BY DEF MoreTypes
<1>1. CASE Accept
  <2>1. /\ requests' = requests + 1 /\ UNCHANGED <<announced, envelope, planned, going, crossed>>
        /\ at' = [at EXCEPT !["loop"] = "read"] /\ about' = [about EXCEPT !["loop"] = requests + 1]
        /\ at["loop"] = "idle"
    BY <1>1 DEF Accept, factoryVars
  <2>2. /\ \A q \in Actors : q # "loop" => at'[q] = at[q] /\ about'[q] = about[q]
        /\ at'["loop"] = "read" /\ about'["loop"] = requests + 1
        /\ requests' \in Nat /\ requests' >= requests /\ requests + 1 <= requests' + 1
    BY <2>1
  <2> QED BY <1>0, <2>1, <2>2, MoreKept
<1>2. CASE RunEnds
  <2>1. /\ UNCHANGED <<requests, announced, envelope, planned, crossed, at, about>> /\ going' = FALSE
        /\ at["run"] = "idle"
    BY <1>2 DEF RunEnds, requestVars, actorVars
  <2>2. requests' >= requests /\ about'["run"] <= requests' + 1
    BY <1>0, <2>1
  <2> QED BY <1>0, <2>1, <2>2, MoreKept
<1>3. ASSUME NEW p \in Actors, SetInsertPhase(p) PROVE MoreTypes'
  <2>1. /\ UNCHANGED <<requests, announced, envelope, planned, going, crossed, about>>
        /\ at[p] = "climb" /\ at' \in {at, [at EXCEPT ![p] = "read"]}
    BY <1>3 DEF SetInsertPhase, factoryVars
  <2>2. /\ \A q \in Actors : q # p => at'[q] = at[q]
        /\ at'[p] # "publish" /\ requests' >= requests /\ about'[p] <= requests' + 1
    BY <1>0, <2>1
  <2> QED BY <1>0, <2>1, <2>2, MoreKept
<1>4. ASSUME NEW p \in Actors, ReadPhase(p) PROVE MoreTypes'
  <2>1. /\ UNCHANGED <<requests, announced, planned, going, crossed, about>> /\ at[p] = "read"
        /\ envelope' = [envelope EXCEPT ![p] = phase[about[p]]]
        /\ at' = [at EXCEPT ![p] = "publish"]
    BY <1>4 DEF ReadPhase, factoryVars, requestVars
  <2>2. about[p] \in Requests /\ about[p] <= requests
    BY <2>1
  <2>3. phase[about[p]] # "none"
    <3>1. ~(about[p] > requests)
      BY <2>2
    <3> QED BY <2>2, <3>1 DEF InsertInv, InsertControl
  <2>4. \A q \in Actors : envelope'[q] # "none" <=> at'[q] = "publish"
    BY <2>1, <2>3 DEF MoreTypes
  <2> QED BY <2>1, <2>4 DEF MoreTypes
<1>5. ASSUME NEW p \in Actors, PublishPhase(p) PROVE MoreTypes'
  <2>1. /\ UNCHANGED <<requests, planned, going, crossed, about>> /\ at[p] = "publish"
        /\ envelope' = [envelope EXCEPT ![p] = "none"]
        /\ at' = [at EXCEPT ![p] = "climb"]
        /\ announced' = Noted(announced, about[p], envelope[p])
    BY <1>5 DEF PublishPhase, factoryVars, requestVars
  <2>2. \A q \in Actors : envelope'[q] # "none" <=> at'[q] = "publish"
    BY <2>1 DEF MoreTypes
  <2>3. announced' \in [Requests -> Seq(Phases)]
    <3>1. envelope[p] \in Phases
      BY <2>1 DEF MoreTypes, InsertInv, InsertTypes
    <3>2. announced \in [Requests -> Seq(Phases)] /\ about[p] \in Requests
      BY <2>1 DEF MoreTypes
    <3>3. Append(announced[about[p]], envelope[p]) \in Seq(Phases)
      BY <3>1, <3>2
    <3> QED BY <2>1, <3>2, <3>3 DEF Noted
  <2> QED BY <2>1, <2>2, <2>3 DEF MoreTypes
<1>6. CASE PopRequest
  <2>1. /\ UNCHANGED <<requests, announced, envelope, planned, going>> /\ at["run"] = "idle"
        /\ pending # <<>> /\ at' = [at EXCEPT !["run"] = "climb"]
        /\ about' = [about EXCEPT !["run"] = Head(pending)]
        /\ crossed' \in {crossed, crossed \cup {Head(pending)}}
    BY <1>6 DEF PopRequest, factoryVars, Takes
  <2>2. Head(pending) \in Requests /\ Head(pending) <= requests
    <3>1. pending \in Seq(Requests)
      BY DEF InsertInv, InsertTypes
    <3>2. 1 \in 1..Len(pending) /\ Head(pending) = pending[1] /\ pending[1] \in Requests
      BY <2>1, <3>1
    <3> QED BY <3>2 DEF InsertInv, QueueIsRight
  <2>3. Head(pending) \in Nat
    BY <2>2
  <2>4. /\ \A q \in Actors : q # "run" => at'[q] = at[q] /\ about'[q] = about[q]
        /\ at'["run"] = "climb" /\ requests' >= requests /\ about'["run"] <= requests' + 1
        /\ crossed' \subseteq Requests
    BY <1>0, <2>1, <2>2, <2>3
  <2> QED BY <1>0, <2>1, <2>4, MoreKept
<1>7. CASE NextRequest
  <2>1. /\ UNCHANGED <<requests, announced, envelope, planned, going, crossed>>
        /\ at["run"] = "climb" /\ at' = [at EXCEPT !["run"] = "idle"]
        /\ about' = [about EXCEPT !["run"] = 0]
    BY <1>7 DEF NextRequest, InHand, factoryVars, requestVars
  <2>2. /\ \A q \in Actors : q # "run" => at'[q] = at[q] /\ about'[q] = about[q]
        /\ at'["run"] = "idle" /\ requests' >= requests /\ about'["run"] <= requests' + 1
    BY <2>1
  <2> QED BY <1>0, <2>1, <2>2, MoreKept
<1>8. CASE StepFactory
  <2>1. /\ UNCHANGED <<requests, announced, envelope, planned, going, crossed>>
        /\ at["run"] = "idle" /\ at' = [at EXCEPT !["run"] = "look"]
        /\ about' = [about EXCEPT !["run"] = 1]
    BY <1>8 DEF StepFactory, requestVars
  <2>2. /\ \A q \in Actors : q # "run" => at'[q] = at[q] /\ about'[q] = about[q]
        /\ at'["run"] = "look" /\ requests' >= requests /\ about'["run"] <= requests' + 1
    BY <2>1
  <2> QED BY <1>0, <2>1, <2>2, MoreKept
<1>9. CASE BeginSurvey
  <2>1. /\ UNCHANGED <<requests, announced, envelope, planned, going, crossed>>
        /\ at["loop"] = "climb" /\ at' = [at EXCEPT !["loop"] = "look"]
        /\ about' = [about EXCEPT !["loop"] = 1]
    BY <1>9 DEF BeginSurvey, requestVars, factoryVars
  <2>2. /\ \A q \in Actors : q # "loop" => at'[q] = at[q] /\ about'[q] = about[q]
        /\ at'["loop"] = "look" /\ requests' >= requests /\ about'["loop"] <= requests' + 1
    BY <2>1
  <2> QED BY <1>0, <2>1, <2>2, MoreKept
<1>10. ASSUME NEW p \in Actors, Look(p) PROVE MoreTypes'
  <2>1. /\ UNCHANGED <<requests, announced, envelope, planned, going>>
        /\ at[p] = "look" /\ about[p] <= requests
        /\ \/ about' = [about EXCEPT ![p] = about[p] + 1] /\ UNCHANGED <<at, crossed>>
           \/ /\ at' = [at EXCEPT ![p] = "climb"] /\ about' = about
              /\ crossed' \in {crossed, crossed \cup {about[p]}}
    BY <1>10 DEF Look, requestVars, factoryVars, Takes
  <2>2. about[p] \in Requests
    <3>1. about[p] >= 1
      BY <2>1 DEF InsertInv, InsertControl
    <3>2. about[p] \in Nat /\ about[p] <= MaxRequests
      BY <2>1
    <3> QED BY <3>1, <3>2 DEF Requests
  <2>3. /\ \A q \in Actors : q # p => at'[q] = at[q] /\ about'[q] = about[q]
        /\ at'[p] # "publish" /\ requests' >= requests /\ crossed' \subseteq Requests
    BY <1>0, <2>1, <2>2
  <2>4. about'[p] <= requests' + 1
    BY <1>0, <2>1
  <2> QED BY <1>0, <2>1, <2>3, <2>4, MoreKept
<1>11. ASSUME NEW p \in Actors, EndRequest(p) PROVE MoreTypes'
  <2>1. /\ UNCHANGED <<requests, announced, envelope, planned, going, crossed>>
        /\ at[p] = "climb" /\ at' = [at EXCEPT ![p] = "look"]
        /\ about' = [about EXCEPT ![p] = about[p] + 1]
    BY <1>11 DEF EndRequest, Surveyed, factoryVars
  <2>2. about[p] <= requests
    BY <2>1
  <2>3. /\ \A q \in Actors : q # p => at'[q] = at[q] /\ about'[q] = about[q]
        /\ at'[p] = "look" /\ requests' >= requests /\ about'[p] <= requests' + 1
    BY <2>1, <2>2
  <2> QED BY <1>0, <2>1, <2>3, MoreKept
<1>12. ASSUME NEW p \in Actors, EndSurvey(p) PROVE MoreTypes'
  <2>1. /\ UNCHANGED <<requests, announced, envelope, planned, going, crossed>>
        /\ at[p] = "look" /\ at' = [at EXCEPT ![p] = "idle"]
        /\ about' = [about EXCEPT ![p] = 0]
    BY <1>12 DEF EndSurvey, requestVars, factoryVars
  <2>2. /\ \A q \in Actors : q # p => at'[q] = at[q] /\ about'[q] = about[q]
        /\ at'[p] = "idle" /\ requests' >= requests /\ about'[p] <= requests' + 1
    BY <2>1
  <2> QED BY <1>0, <2>1, <2>2, MoreKept
<1>13. ASSUME NEW r \in Requests, ReplanFails(r) \/ Install(r) PROVE MoreTypes'
  <2>1. /\ UNCHANGED <<requests, announced, envelope, going, crossed, at, about>>
        /\ at["run"] = "climb"
    BY <1>13 DEF ReplanFails, Install, Settle, InHand, requestVars
  <2>2. planned' \in {planned, planned \cup {r}}
    BY <1>13 DEF ReplanFails, Install
  <2>3. requests' >= requests /\ planned' \subseteq Requests /\ about'["run"] <= requests' + 1
    BY <1>0, <2>1, <2>2
  <2> QED BY <1>0, <2>1, <2>3, MoreKept
<1> QED
  BY <1>1, <1>2, <1>3, <1>4, <1>5, <1>6, <1>7, <1>8, <1>9, <1>10, <1>11, <1>12, <1>13
  DEF InsertNext, RunStep, LoopStep

InsertTyped == InsertInv /\ MoreTypes

LEMMA InsertTypedStarts == InsertInit => InsertTyped
BY InitInsert, MoreStarts DEF InsertTyped

LEMMA InsertTypedKeeps == InsertTyped /\ [InsertNext]_insertionVars => InsertTyped'
<1> SUFFICES ASSUME InsertTyped, [InsertNext]_insertionVars PROVE InsertTyped'
  OBVIOUS
<1>1. InsertInv /\ InsertInv' /\ MoreTypes
  BY InsertNextKeeps DEF InsertTyped
<1>2. CASE InsertNext
  BY <1>1, <1>2, MoreKeeps DEF InsertTyped
<1>3. CASE UNCHANGED insertionVars
  <2>1. MoreTypes'
    BY <1>1, <1>3 DEF insertionVars, requestVars, actorVars, factoryVars, MoreTypes
  <2> QED BY <1>1, <2>1 DEF InsertTyped
<1> QED BY <1>2, <1>3

LEMMA InsertTypedIsEnough == InsertTyped => InsertTypeOK
<1> SUFFICES ASSUME InsertTyped PROVE InsertTypeOK
  OBVIOUS
<1>1. InsertInv /\ MoreTypes /\ InsertTypes /\ InsertControl /\ QueueIsRight /\ PlansHold
  BY DEF InsertTyped, InsertInv
<1> HIDE DEF InsertTyped
<1>2. pending \in Seq(1..requests)
  <2>1. pending \in Seq(Requests) /\ Len(pending) \in Nat /\ DOMAIN pending = 1..Len(pending)
    BY <1>1 DEF InsertTypes
  <2>2. \A i \in 1..Len(pending) : pending[i] \in 1..requests
    <3> SUFFICES ASSUME NEW i \in 1..Len(pending) PROVE pending[i] \in 1..requests
      OBVIOUS
    <3>1. pending[i] \in 1..MaxRequests
      <4>1. pending[i] \in Requests
        BY <2>1, ElementOfSeq
      <4> QED BY <4>1 DEF Requests
    <3>2. pending[i] <= requests
      BY <1>1 DEF QueueIsRight
    <3>3. requests \in Nat
      BY <1>1, InsertNumbers
    <3> QED BY <3>1, <3>2, <3>3
  <2>3. pending \in [1..Len(pending) -> 1..requests]
    <3>1. pending \in [1..Len(pending) -> Requests]
      BY <2>1, LenProperties
    <3> DEFINE n == Len(pending)
    <3> HIDE DEF n
    <3>2. pending \in [1..n -> Requests] /\ \A i \in 1..n : pending[i] \in 1..requests
      BY <2>2, <3>1 DEF n
    <3>3. pending \in [1..n -> 1..requests]
      BY <3>2
    <3> QED BY <3>3 DEF n
  <2>4. \A S : \A n \in Nat : [1..n -> S] \subseteq Seq(S)
    BY SeqDef
  <2> QED BY <2>1, <2>3, <2>4
<1>3. planned \subseteq 1..requests /\ crossed \subseteq 1..requests
  <2>1. \A r \in Requests : (r \in planned => ~(r > requests)) /\ (r \in crossed => r <= requests)
    BY <1>1 DEF PlansHold, FreshCall, InsertControl
  <2>2. \A r \in Requests : r \in 1..MaxRequests /\ r \in Nat
    BY <1>1, InsertNumbers DEF Requests
  <2>3. \A r \in Requests : (r \in planned \/ r \in crossed) => r \in 1..requests
    BY <1>1, <2>1, <2>2, InsertNumbers
  <2>4. planned \subseteq Requests /\ crossed \subseteq Requests
    BY <1>1 DEF MoreTypes
  <2> QED BY <2>3, <2>4
<1>4. about \in [Actors -> 0..requests + 1]
  <2>1. about \in [Actors -> Nat] /\ \A p \in Actors : about[p] <= requests + 1
    BY <1>1 DEF InsertTypes, MoreTypes
  <2>2. requests \in Nat
    BY <1>1, InsertNumbers
  <2>3. \A p \in Actors : about[p] \in 0..requests + 1
    BY <2>1, <2>2
  <2> QED BY <2>1, <2>3
<1>5. \A p \in Actors : /\ (at[p] = "idle" <=> task[p] = "none")
                        /\ (at[p] = "look" => task[p] = "survey")
                        /\ (at[p] \notin {"idle", "look"} => about[p] \in 1..requests)
                        /\ (envelope[p] # "none" <=> at[p] = "publish")
  BY <1>1 DEF InsertControl, MoreTypes
<1>6. \A r \in Requests : phase[r] = "none" <=> r > requests
  BY <1>1 DEF InsertControl
<1>7. announced \in [Requests -> Seq(Phases)] /\ going \in BOOLEAN
  BY <1>1 DEF MoreTypes
<1> QED BY <1>1, <1>2, <1>3, <1>4, <1>5, <1>6, <1>7 DEF InsertTypeOK, InsertTypes

-----------------------------------------------------------------------------
\* The control of a factory: where a call may wait, and of which route it then is.
InitPoints == {"init_down", "init_up", "init_wait"}
Points == InitPoints \cup
  {"none", "recreate", "post_create", "post_play", "played", "post_pause", "paused",
   "post_reset", "was_reset", "clean", "cleaned", "post_inject", "refresh", "refresh_wait"}
Routes == {"none", "play", "pause", "reset", "switch", "disconnect", "inject"}

\* The call starts the containers of the docker proxy that it is going to put in place.
IsSwitching(h) == call[h].op = "switch" /\ call[h].at \in InitPoints

CallTypes ==
  /\ call \in [Calls -> [op : Routes, at : Points, me : 0..MaxProxies,
                         to : Targets \cup {"none"}, sure : BOOLEAN]]
  /\ \A h \in Calls :
       /\ call[h].at = "none" <=> call[h] = NoCall
       /\ call[h].me = NoProxy <=> call[h] = NoCall
       /\ call[h].at \in {"clean", "cleaned"} => call[h].op \in {"switch", "disconnect"}
       /\ call[h].at \in InitPoints => call[h].op \in {"play", "reset", "switch"}
       /\ call[h].op = "switch" => call[h].to \in Targets
       /\ IsSwitching(h) => call[h].to = "docker"

IsDocker == proxy # NoProxy /\ kind[proxy] = "docker"
Switching == \E h \in Calls : IsSwitching(h)

\* What a call that is sure of what it does finds where it is.  (A switch starts from
\* nothing; a play need not.)
Finds(h) ==
  /\ call[h].me = proxy /\ IsDocker
  /\ IsSwitching(h) /\ call[h].at = "init_up" => ~engine /\ ~algorithms
  /\ IsSwitching(h) /\ call[h].at = "init_wait" => simulation = "none" /\ ~algorithms
  /\ call[h].at = "post_play" => simulation = "ready"
  /\ call[h].at = "played" => simulation \in {"running", "over"}

AloneHolds == \A h \in Calls : call[h] # NoCall /\ call[h].sure => Alone(h) /\ Finds(h)

\* Whatever overlaps: the current proxy has not been cleaned up, and if it is docker,
\* then so is the type, or it is going to be, or strayed.
ProxyHolds ==
  /\ proxy # NoProxy => has_url[proxy]
  /\ IsDocker /\ ~strayed /\ factory_type # "docker" => Switching

\* With every call between two requests to the engine, the status tells what the engine does.
StatusAgrees ==
  (\A h \in Calls : call[h].at \in {"none", "post_inject"}) /\ IsDocker =>
    /\ proxy_status[proxy] = "RUNNING" => simulation \in {"running", "over"}
    /\ simulation = "running" => proxy_status[proxy] \in {"RUNNING", "ERROR"}

\* Nobody has met anybody; a call that has got an answer finds what was answered.
PointsAgree ==
  \A h \in Calls :
    /\ call[h] # NoCall => call[h].sure
    /\ call[h].at = "paused" => simulation # "running"
    /\ call[h].at = "was_reset" => simulation \in {"none", "ready"}
    /\ call[h].at = "refresh_wait" => simulation = "none"
    /\ call[h].at = "cleaned" => ~engine /\ ~algorithms

\* A running factory is followed, or about to be.
StreamsGoOn ==
  IsDocker /\ proxy_status[proxy] = "RUNNING" =>
    streaming[proxy] \/ \E h \in Calls : call[h].at \in {"refresh", "refresh_wait"}

\* The type is the one of the current proxy, but while a switch waits for the containers.
TypeAgrees ==
  ~strayed /\ ~Switching => factory_type = IF proxy = NoProxy THEN "base" ELSE kind[proxy]

\* All that is promised as long as nothing is in doubt.
Undoubted == ~doubtful => /\ StatusAgrees /\ PointsAgree /\ StreamsGoOn /\ TypeAgrees
                          /\ engine \/ algorithms => IsDocker

ControlInv == ControlTypeOK /\ CallTypes /\ AloneHolds /\ ProxyHolds /\ Undoubted

LEMMA PointsAre == Points = {"none", "recreate", "post_create", "post_play", "played", "post_pause",
   "paused", "post_reset", "was_reset", "clean", "cleaned", "post_inject", "refresh", "refresh_wait",
   "init_down", "init_up", "init_wait"}
BY DEF Points, InitPoints

LEMMA NoCallIs == NoCall.op = "none" /\ NoCall.at = "none" /\ NoCall.me = 0 /\ NoCall.to = "none"
                  /\ NoCall.sure
BY DEF NoCall, NoProxy

LEMMA NoCallIsTyped ==
  NoCall \in [op : Routes, at : Points, me : 0..MaxProxies,
              to : Targets \cup {"none"}, sure : BOOLEAN]
BY ControlConstants, PointsAre DEF NoCall, Routes, NoProxy

LEMMA InitControl == ControlInit => ControlInv
<1> SUFFICES ASSUME ControlInit PROVE ControlInv
  OBVIOUS
<1>1. ControlTypeOK
  <2>1. \A g \in Calls : call[g] = NoCall
    BY DEF ControlInit
  <2>2. /\ proxy = 0 /\ stream = 0 /\ 0 \in 0..MaxProxies
        /\ NoCall.me = NoProxy /\ NoCall.me \in 0..MaxProxies
    BY ControlConstants, NoCallIs DEF ControlInit, NoProxy
  <2>3. /\ kind \in [ProxyIds -> {"docker", "static"}]
        /\ initialized \in [ProxyIds -> BOOLEAN] /\ has_url \in [ProxyIds -> BOOLEAN]
        /\ proxy_status \in [ProxyIds -> {"IDLE", "RUNNING", "PAUSED", "STOPPED", "ERROR"}]
        /\ streaming \in [ProxyIds -> BOOLEAN] /\ \A p \in ProxyIds : has_url[p]
        /\ {engine, algorithms, strayed, doubtful, stopped_sent} \subseteq BOOLEAN
        /\ simulation = "none" /\ factory_type = "base"
    BY DEF ControlInit
  <2> QED BY <2>1, <2>2, <2>3 DEF ControlTypeOK
<1>2. CallTypes
  BY NoCallIsTyped, NoCallIs DEF ControlInit, CallTypes, IsSwitching, NoProxy, InitPoints
<1>3. AloneHolds /\ ProxyHolds /\ Undoubted
  BY NoCallIs DEF ControlInit, AloneHolds, ProxyHolds, Undoubted, StatusAgrees, PointsAgree,
     StreamsGoOn, TypeAgrees, IsDocker
<1> QED BY <1>1, <1>2, <1>3 DEF ControlInv

\* h goes on to another point.
LEMMA GoesOn ==
  ASSUME CallTypes, NEW h \in Calls, NEW point \in Points \ {"none"}, call[h].at # "none",
         Goes(h, point),
         point \in {"clean", "cleaned"} => call[h].op \in {"switch", "disconnect"},
         point \in InitPoints => call[h].at \in InitPoints
  PROVE  /\ CallTypes'
         /\ call'[h].at = point /\ call'[h].op = call[h].op /\ call'[h].me = call[h].me
         /\ call'[h].to = call[h].to /\ call'[h].sure = call[h].sure
         /\ call'[h] # NoCall /\ call[h] # NoCall
         /\ \A g \in Calls \ {h} : call'[g] = call[g]
<1>1. /\ call'[h].at = point /\ call'[h].op = call[h].op /\ call'[h].me = call[h].me
      /\ call'[h].to = call[h].to /\ call'[h].sure = call[h].sure
      /\ \A g \in Calls \ {h} : call'[g] = call[g]
      /\ call' \in [Calls -> [op : Routes, at : Points, me : 0..MaxProxies,
                              to : Targets \cup {"none"}, sure : BOOLEAN]]
  BY DEF CallTypes, Goes
<1>2. call'[h] # NoCall /\ call[h] # NoCall
  BY <1>1, NoCallIs
<1>3. CallTypes'
  BY <1>1, <1>2, NoCallIs DEF CallTypes, IsSwitching
<1> QED BY <1>1, <1>2, <1>3

LEMMA ReturnsNow ==
  ASSUME CallTypes, NEW h \in Calls, Returns(h)
  PROVE  /\ CallTypes' /\ call'[h] = NoCall /\ call'[h].at = "none" /\ call'[h].op = "none"
         /\ \A g \in Calls \ {h} : call'[g] = call[g]
<1>1. call'[h] = NoCall /\ \A g \in Calls \ {h} : call'[g] = call[g]
  BY DEF CallTypes, Returns
<1>2. call' \in [Calls -> [op : Routes, at : Points, me : 0..MaxProxies,
                           to : Targets \cup {"none"}, sure : BOOLEAN]]
  <2> QED BY NoCallIsTyped DEF CallTypes, Returns
<1> QED BY <1>1, <1>2, NoCallIs DEF CallTypes, IsSwitching, NoProxy, InitPoints

\* A call under way has met the others that are.
LEMMA OthersHaveMet ==
  ASSUME AloneHolds, NEW h \in Calls, call[h] # NoCall
  PROVE  \A g \in Calls \ {h} : call[g] # NoCall => ~call[g].sure
BY DEF AloneHolds, Alone

\* Where nothing is in doubt, the call under way is the only one.
LEMMA OnlyCall ==
  ASSUME AloneHolds, Undoubted, ~doubtful, NEW h \in Calls, call[h] # NoCall
  PROVE  /\ call[h].sure /\ call[h].me = proxy /\ IsDocker
         /\ \A g \in Calls \ {h} : call[g] = NoCall
BY DEF AloneHolds, Finds, Alone, Undoubted, PointsAgree

LEMMA AloneStays ==
  ASSUME AloneHolds, NEW h \in Calls, call[h] # NoCall \/ Alone(h),
         \A g \in Calls \ {h} : call'[g] = call[g],
         call'[h] # NoCall /\ call'[h].sure => call[h].sure /\ Finds(h)'
  PROVE  AloneHolds'
<1>1. ASSUME NEW g \in Calls \ {h} PROVE ~(call'[g] # NoCall /\ call'[g].sure)
  BY OthersHaveMet DEF Alone
<1>2. call[h].sure => Alone(h)'
  BY DEF AloneHolds, Alone
<1> QED BY <1>1, <1>2 DEF AloneHolds

-----------------------------------------------------------------------------
\* One lemma for each way in which a call moves: it begins, fails, takes a step and ends.
LEMMA BeginsKeeps ==
  ASSUME ControlInv, NEW h \in Calls, NEW op \in Routes \ {"none"},
         NEW point \in {"recreate", "init_down", "post_pause", "post_reset", "clean", "post_inject"},
         NEW to \in Targets \cup {"none"},
         op = "switch" => point = "clean" /\ to \in Targets,
         point = "clean" => op \in {"switch", "disconnect"},
         point = "init_down" => op \in {"play", "reset"},
         IsDocker, Begins(h, op, point, proxy, to),
         UNCHANGED <<globalVars, proxyVars, dockerVars, clientVars, strayed>>
  PROVE  ControlInv'
<1> USE DEF ControlInv, globalVars, proxyVars, dockerVars, clientVars
<1>1. /\ call[h] = NoCall
      /\ call'[h] = [op |-> op, at |-> point, me |-> proxy, to |-> to, sure |-> Alone(h)]
      /\ \A g \in Calls \ {h} :
           call'[g] = IF call[g] = NoCall THEN NoCall ELSE [call[g] EXCEPT !.sure = FALSE]
      /\ doubtful' = (doubtful \/ ~Alone(h))
      /\ Alone(h) \in BOOLEAN
  BY DEF Begins, Alone
<1>2. /\ call'[h].op = op /\ call'[h].at = point /\ call'[h].me = proxy /\ call'[h].to = to
      /\ call'[h].sure = Alone(h) /\ call'[h] # NoCall
  BY <1>1, NoCallIs DEF IsDocker, NoProxy
<1>3. \A g \in Calls \ {h} :
        /\ call'[g].op = call[g].op /\ call'[g].at = call[g].at /\ call'[g].me = call[g].me
        /\ call'[g].to = call[g].to /\ (call'[g] = NoCall <=> call[g] = NoCall)
        /\ call'[g].sure => call[g] = NoCall
        /\ call'[g] \in [op : Routes, at : Points, me : 0..MaxProxies,
                          to : Targets \cup {"none"}, sure : BOOLEAN]
  <2> TAKE g \in Calls \ {h}
  <2>1. CASE call[g] = NoCall
    BY <1>1, <2>1, NoCallIsTyped
  <2>2. CASE call[g] # NoCall
    <3>1. call'[g] = [call[g] EXCEPT !.sure = FALSE]
      BY <1>1, <2>2
    <3>2. call[g] \in [op : Routes, at : Points, me : 0..MaxProxies,
                       to : Targets \cup {"none"}, sure : BOOLEAN]
      BY DEF CallTypes
    <3>3. call'[g].sure = FALSE
      BY <3>1, <3>2
    <3>4. call'[g] # NoCall
      BY <3>3, NoCallIs
    <3> QED BY <2>2, <3>1, <3>2, <3>3, <3>4
  <2> QED BY <2>1, <2>2
<1>4. CallTypes'
  <2>1. point \in Points /\ proxy \in 0..MaxProxies
    BY PointsAre DEF ControlTypeOK
  <2>2. ASSUME NEW g \in Calls
        PROVE  call'[g] \in [op : Routes, at : Points, me : 0..MaxProxies,
                             to : Targets \cup {"none"}, sure : BOOLEAN]
    <3>1. CASE g = h
      BY <1>1, <2>1, <3>1
    <3> QED BY <1>3, <3>1
  <2>3. call' \in [Calls -> [op : Routes, at : Points, me : 0..MaxProxies,
                             to : Targets \cup {"none"}, sure : BOOLEAN]]
    BY <2>2 DEF Begins
  <2>4. ASSUME NEW g \in Calls
        PROVE /\ call'[g].at = "none" <=> call'[g] = NoCall
              /\ call'[g].me = NoProxy <=> call'[g] = NoCall
              /\ call'[g].at \in {"clean", "cleaned"} => call'[g].op \in {"switch", "disconnect"}
              /\ call'[g].at \in InitPoints => call'[g].op \in {"play", "reset", "switch"}
              /\ call'[g].op = "switch" => call'[g].to \in Targets
              /\ call'[g].op = "switch" /\ call'[g].at \in InitPoints => call'[g].to = "docker"
    <3>1. CASE g = h
      BY <1>2, <3>1 DEF InitPoints, IsDocker
    <3>2. CASE g # h
      BY <1>3, <3>2 DEF CallTypes, IsSwitching
    <3> QED BY <3>1, <3>2
  <2> QED BY <2>3, <2>4 DEF CallTypes, IsSwitching
<1>5. ControlTypeOK'
  BY <1>1, <1>4 DEF ControlTypeOK, CallTypes
<1>6. AloneHolds'
  <2>1. ASSUME NEW g \in Calls \ {h}, call'[g] # NoCall PROVE ~call'[g].sure
    BY <1>3, <2>1
  <2>2. Alone(h) => Alone(h)'
    BY <1>3 DEF Alone
  <2>3. Finds(h)'
    BY <1>2 DEF Finds, IsDocker
  <2> QED BY <1>2, <2>1, <2>2, <2>3 DEF AloneHolds
<1>7. Switching' <=> Switching
  <2>1. \A g \in Calls : IsSwitching(g)' <=> IsSwitching(g)
    BY <1>1, <1>2, <1>3, NoCallIs DEF IsSwitching, InitPoints
  <2> QED BY <2>1 DEF Switching
<1>8. ProxyHolds'
  BY <1>7 DEF ProxyHolds, IsDocker
<1>9. Undoubted'
  <2> SUFFICES ASSUME ~doubtful' PROVE Undoubted'
    BY DEF Undoubted
  <2>1. ~doubtful /\ \A g \in Calls : call[g] = NoCall
    BY <1>1 DEF Alone
  <2>2. \A g \in Calls : call'[g] # NoCall => g = h
    BY <1>1, <2>1
  <2>3. /\ proxy_status[proxy] = "RUNNING" => simulation \in {"running", "over"} /\ streaming[proxy]
        /\ simulation = "running" => proxy_status[proxy] \in {"RUNNING", "ERROR"}
    BY <2>1, NoCallIs DEF Undoubted, StatusAgrees, StreamsGoOn
  <2>4. StatusAgrees' /\ StreamsGoOn'
    BY <2>3 DEF StatusAgrees, StreamsGoOn, IsDocker
  <2>5. PointsAgree'
    BY <1>1, <1>2, <2>1, <2>2, NoCallIs DEF PointsAgree
  <2>6. TypeAgrees' /\ (engine' \/ algorithms' => IsDocker')
    BY <1>7, <2>1 DEF Undoubted, TypeAgrees, IsDocker
  <2> QED BY <2>4, <2>5, <2>6 DEF Undoubted
<1> QED BY <1>4, <1>5, <1>6, <1>8, <1>9

LEMMA FailsKeeps ==
  ASSUME ControlInv, NEW h \in Calls, call[h] # NoCall, Fails(h),
         IsSwitching(h) => strayed', strayed => strayed', strayed' \in BOOLEAN,
         simulation' \in {"none", "ready", "running", "paused", "over"},
         ~engine => simulation' = "none",
         initialized' \in [ProxyIds -> BOOLEAN], \A p \in ProxyIds : initialized'[p] => has_url[p],
         proxy_status' \in [ProxyIds -> {"IDLE", "RUNNING", "PAUSED", "STOPPED", "ERROR"}],
         UNCHANGED <<globalVars, kind, has_url, streaming, engine, algorithms, clientVars>>
  PROVE  ControlInv'
<1> USE DEF ControlInv, globalVars, proxyVars, dockerVars, clientVars
<1>1. /\ CallTypes' /\ call'[h] = NoCall /\ doubtful'
      /\ \A g \in Calls \ {h} : call'[g] = call[g]
  BY ReturnsNow DEF Fails
<1>2. ControlTypeOK'
  BY <1>1 DEF ControlTypeOK, CallTypes, Fails
<1>3. AloneHolds'
  BY <1>1, AloneStays
<1>4. ProxyHolds'
  <2>1. ~strayed' /\ Switching => Switching'
    BY <1>1 DEF Switching, IsSwitching
  <2> QED BY <2>1 DEF ProxyHolds, IsDocker
<1> QED BY <1>1, <1>2, <1>3, <1>4 DEF Undoubted

\* A call goes on, and what it changes of proxies and containers is what the points
\* it comes from and goes to allow.
LEMMA CallStepKeeps ==
  ASSUME ControlInv, NEW h \in Calls, NEW point \in Points \ {"none", "post_inject"},
         call[h].at # "none", Goes(h, point),
         point \in {"clean", "cleaned"} => call[h].op \in {"switch", "disconnect"},
         call[h].at \in InitPoints <=> point \in InitPoints,
         engine' \in BOOLEAN, algorithms' \in BOOLEAN, doubtful' \in BOOLEAN,
         simulation' \in {"none", "ready", "running", "paused", "over"},
         ~engine' => simulation' = "none",
         streaming' \in [ProxyIds -> BOOLEAN],
         call[h].sure /\ Finds(h) =>
           /\ IsSwitching(h) /\ point = "init_up" => ~engine' /\ ~algorithms'
           /\ IsSwitching(h) /\ point = "init_wait" => simulation' = "none" /\ ~algorithms'
           /\ point = "post_play" => simulation' = "ready"
           /\ point = "played" => simulation' \in {"running", "over"},
         ~doubtful' => ~doubtful,
         ~doubtful' /\ call[h].me = proxy =>
           /\ point = "paused" => simulation' # "running"
           /\ point = "was_reset" => simulation' \in {"none", "ready"}
           /\ point = "refresh_wait" => simulation' = "none"
           /\ point = "cleaned" => ~engine' /\ ~algorithms'
           /\ \/ point \in {"refresh", "refresh_wait"}
              \/ streaming' = streaming /\ call[h].at \notin {"refresh", "refresh_wait"},
         UNCHANGED <<globalVars, kind, initialized, has_url, proxy_status, clientVars, strayed>>
  PROVE  ControlInv'
<1> USE DEF ControlInv, globalVars, clientVars
<1>1. /\ CallTypes'
      /\ call'[h].at = point /\ call'[h].op = call[h].op /\ call'[h].me = call[h].me
      /\ call'[h].to = call[h].to /\ call'[h].sure = call[h].sure
      /\ call'[h] # NoCall /\ call[h] # NoCall
      /\ \A g \in Calls \ {h} : call'[g] = call[g]
  BY GoesOn
<1>2. ControlTypeOK'
  BY <1>1 DEF ControlTypeOK, CallTypes
<1>3. AloneHolds'
  <2>1. ASSUME call[h].sure PROVE Finds(h)'
    <3>1. Finds(h)
      BY <1>1, <2>1 DEF AloneHolds
    <3>2. IsSwitching(h)' => IsSwitching(h)
      BY <1>1 DEF IsSwitching
    <3> QED BY <1>1, <2>1, <3>1, <3>2 DEF Finds, IsDocker
  <2> QED BY <1>1, <2>1, AloneStays
<1>4. Switching' <=> Switching
  <2>1. \A g \in Calls : IsSwitching(g)' <=> IsSwitching(g)
    BY <1>1 DEF IsSwitching
  <2> QED BY <2>1 DEF Switching
<1>5. ProxyHolds'
  BY <1>4 DEF ProxyHolds, IsDocker
<1>6. Undoubted'
  <2> SUFFICES ASSUME ~doubtful' PROVE Undoubted'
    BY DEF Undoubted
  <2>1. /\ ~doubtful /\ call[h].sure /\ call[h].me = proxy /\ IsDocker
        /\ \A g \in Calls \ {h} : call[g] = NoCall
    BY <1>1, OnlyCall
  <2>2. StatusAgrees'
    BY <1>1 DEF StatusAgrees
  <2>3. PointsAgree'
    BY <1>1, <2>1, NoCallIs DEF PointsAgree
  <2>4. StreamsGoOn'
    <3>1. CASE point \in {"refresh", "refresh_wait"}
      BY <1>1, <3>1 DEF StreamsGoOn
    <3>2. CASE streaming' = streaming /\ call[h].at \notin {"refresh", "refresh_wait"}
      <4>1. \A g \in Calls : call[g].at \notin {"refresh", "refresh_wait"}
        BY <2>1, <3>2, NoCallIs
      <4> QED BY <2>1, <3>2, <4>1 DEF Undoubted, StreamsGoOn, IsDocker
    <3> QED BY <2>1, <3>1, <3>2
  <2>5. TypeAgrees' /\ IsDocker'
    BY <1>4, <2>1 DEF Undoubted, TypeAgrees, IsDocker
  <2> QED BY <2>2, <2>3, <2>4, <2>5 DEF Undoubted
<1> QED BY <1>1, <1>2, <1>3, <1>5, <1>6

\* A call returns; if nothing is in doubt then, the status agrees.
LEMMA CallEndKeeps ==
  ASSUME ControlInv, NEW h \in Calls, call[h] # NoCall, Returns(h),
         factory_type' \in {"base", "docker", "static"},
         doubtful' \in BOOLEAN, strayed' \in BOOLEAN,
         initialized' \in [ProxyIds -> BOOLEAN], \A p \in ProxyIds : initialized'[p] => has_url[p],
         proxy_status' \in [ProxyIds -> {"IDLE", "RUNNING", "PAUSED", "STOPPED", "ERROR"}],
         streaming' \in [ProxyIds -> BOOLEAN],
         IsSwitching(h) => factory_type' = "docker",
         ~IsSwitching(h) => factory_type' = factory_type /\ strayed' = strayed,
         ~doubtful' =>
           /\ call[h].sure
           /\ proxy_status'[proxy] = "RUNNING" =>
                simulation \in {"running", "over"} /\ streaming'[proxy]
           /\ simulation = "running" => proxy_status'[proxy] \in {"RUNNING", "ERROR"},
         UNCHANGED <<proxy, kind, has_url, dockerVars, clientVars>>
  PROVE  ControlInv'
<1> USE DEF ControlInv, dockerVars, clientVars
<1>1. /\ CallTypes' /\ call'[h] = NoCall /\ call'[h].at = "none"
      /\ \A g \in Calls \ {h} : call'[g] = call[g]
  BY ReturnsNow
<1>2. ControlTypeOK'
  BY <1>1 DEF ControlTypeOK, CallTypes
<1>3. AloneHolds'
  BY <1>1, AloneStays
<1>4. ProxyHolds'
  <2>1. ASSUME ~IsSwitching(h), Switching PROVE Switching'
    BY <1>1, <2>1 DEF Switching, IsSwitching
  <2> QED BY <2>1 DEF ProxyHolds, IsDocker
<1>5. Undoubted'
  <2> SUFFICES ASSUME ~doubtful' PROVE Undoubted'
    BY DEF Undoubted
  <2>1. IsDocker /\ \A g \in Calls \ {h} : call[g] = NoCall
    BY DEF AloneHolds, Finds, Alone
  <2>2. \A g \in Calls : call'[g] = NoCall
    BY <1>1, <2>1
  <2>3. StatusAgrees' /\ StreamsGoOn'
    BY DEF StatusAgrees, StreamsGoOn, IsDocker
  <2>4. PointsAgree'
    BY <2>2, NoCallIs DEF PointsAgree
  <2>5. TypeAgrees' /\ IsDocker'
    <3>1. CASE IsSwitching(h)
      BY <2>1, <3>1 DEF TypeAgrees, IsDocker
    <3>2. CASE ~IsSwitching(h)
      <4>1. ~Switching
        BY <2>1, <3>2, NoCallIs DEF Switching, IsSwitching
      <4> QED BY <2>1, <3>2, <4>1 DEF TypeAgrees, ProxyHolds, IsDocker
    <3> QED BY <3>1, <3>2
  <2> QED BY <2>3, <2>4, <2>5 DEF Undoubted
<1> QED BY <1>1, <1>2, <1>3, <1>4, <1>5

\* The client and the engine.
\* What the readers of a stream do to a proxy is no business of the calls.
LEMMA ClientKeeps ==
  ASSUME ControlInv,
         doubtful' \in BOOLEAN, stopped_sent' \in BOOLEAN, stream' \in 0..MaxProxies,
         proxy_status' \in [ProxyIds -> {"IDLE", "RUNNING", "PAUSED", "STOPPED", "ERROR"}],
         streaming' \in [ProxyIds -> BOOLEAN],
         simulation' = simulation \/ (simulation = "running" /\ simulation' = "over"),
         ~doubtful' => ~doubtful,
         ~doubtful' => \A p \in ProxyIds :
           \/ proxy_status'[p] = proxy_status[p] /\ streaming'[p] = streaming[p]
           \/ proxy_status'[p] = "STOPPED" /\ simulation' = "over"
           \/ proxy_status'[p] = "ERROR",
         UNCHANGED <<globalVars, kind, initialized, has_url, engine, algorithms, call, strayed>>
  PROVE  ControlInv'
<1> USE DEF ControlInv, globalVars
<1>1. CallTypes' /\ ProxyHolds' /\ Switching' = Switching
  BY DEF CallTypes, ProxyHolds, Switching, IsSwitching, IsDocker
<1>2. ControlTypeOK'
  BY DEF ControlTypeOK
<1>3. AloneHolds'
  <2>1. ASSUME NEW g \in Calls, Finds(g) PROVE Finds(g)'
    <3>1. IsSwitching(g)' <=> IsSwitching(g)
      BY DEF IsSwitching
    <3> QED BY <2>1, <3>1 DEF Finds, IsDocker
  <2> QED BY <2>1 DEF AloneHolds, Alone
<1>4. Undoubted'
  <2> SUFFICES ASSUME ~doubtful' PROVE Undoubted'
    BY DEF Undoubted
  <2>1. IsDocker => proxy \in ProxyIds
    BY ControlConstants DEF IsDocker, ControlTypeOK, ProxyIds, NoProxy
  <2>2. StatusAgrees' /\ StreamsGoOn'
    BY <2>1 DEF Undoubted, StatusAgrees, StreamsGoOn, IsDocker
  <2>3. PointsAgree' /\ TypeAgrees'
    BY <1>1 DEF Undoubted, PointsAgree, TypeAgrees
  <2> QED BY <2>2, <2>3 DEF Undoubted, IsDocker
<1> QED BY <1>1, <1>2, <1>3, <1>4

\* There is no proxy any more: h, which alone is under way, goes without one.
LEMMA ForgetKeeps ==
  ASSUME ControlInv, NEW h \in Calls, Forget,
         \/ Returns(h) /\ call[h] # NoCall
         \/ UNCHANGED call /\ Alone(h) /\ call[h] = NoCall,
         initialized' \in [ProxyIds -> BOOLEAN], has_url' \in [ProxyIds -> BOOLEAN],
         \A p \in ProxyIds : initialized'[p] => has_url'[p],
         ~doubtful => ~engine /\ ~algorithms,
         UNCHANGED <<kind, proxy_status, streaming, dockerVars, clientVars, doubtful>>
  PROVE  ControlInv'
<1> USE DEF ControlInv, dockerVars, clientVars
<1>1. /\ CallTypes' /\ call'[h] = NoCall
      /\ \A g \in Calls \ {h} : call'[g] = call[g]
  <2>1. CASE Returns(h)
    BY <2>1, ReturnsNow
  <2>2. CASE UNCHANGED call /\ call[h] = NoCall
    BY <2>2 DEF CallTypes, IsSwitching
  <2> QED BY <2>1, <2>2
<1>2. ControlTypeOK'
  <2>1. proxy' \in 0..MaxProxies /\ factory_type' = "base" /\ strayed' = FALSE
    BY ControlConstants DEF Forget, NoProxy
  <2>2. \A g \in Calls : call'[g].me \in 0..MaxProxies /\ (call'[g] = NoCall <=> call'[g].me = NoProxy)
    BY <1>1 DEF CallTypes
  <2> QED BY <2>1, <2>2 DEF ControlTypeOK
<1>3. AloneHolds'
  BY <1>1, AloneStays
<1>4. ProxyHolds' /\ ~IsDocker'
  BY DEF Forget, ProxyHolds, IsDocker
<1>5. Undoubted'
  <2> SUFFICES ASSUME ~doubtful' PROVE Undoubted'
    BY DEF Undoubted
  <2>1. \A g \in Calls : call'[g] = NoCall
    <3>1. CASE call[h] # NoCall
      BY <1>1, <3>1, OnlyCall
    <3>2. CASE Alone(h)
      BY <1>1, <3>2 DEF Alone
    <3> QED BY <3>1, <3>2
  <2>2. PointsAgree'
    BY <2>1, NoCallIs DEF PointsAgree
  <2>3. TypeAgrees'
    BY DEF TypeAgrees, Forget
  <2> QED BY <1>4, <2>2, <2>3 DEF Undoubted, StatusAgrees, StreamsGoOn
<1> QED BY <1>1, <1>2, <1>3, <1>4, <1>5

\* There is another, or none yet, for the switch h.
LEMMA NewProxyKeeps ==
  ASSUME ControlInv, NEW h \in Calls, NEW to \in Targets,
         NEW isReady \in [ProxyIds -> BOOLEAN], NEW url \in [ProxyIds -> BOOLEAN],
         \A p \in ProxyIds : isReady[p] => url[p],
         NewProxy(h, to, isReady, url),
         call[h] # NoCall \/ Alone(h),
         ~IsSwitching(h),
         ~doubtful => ~engine /\ ~algorithms,
         UNCHANGED <<dockerVars, clientVars, doubtful>>
  PROVE  ControlInv'
<1> USE DEF ControlInv, dockerVars, clientVars
<1>1. ~doubtful => call[h].sure /\ \A g \in Calls \ {h} : call[g] = NoCall
  <2>1. CASE call[h] # NoCall
    BY <2>1, OnlyCall
  <2>2. CASE Alone(h) /\ call[h] = NoCall
    BY <2>2, NoCallIs DEF Alone
  <2> QED BY <2>1, <2>2
<1>2. CASE to = "southwest"
  <2>1. /\ proxy' = NoProxy /\ strayed' /\ Returns(h)
        /\ initialized' = isReady /\ has_url' = url
        /\ UNCHANGED <<factory_type, kind, proxy_status, streaming>>
    BY <1>2 DEF NewProxy
  <2>2. /\ CallTypes' /\ call'[h] = NoCall
        /\ \A g \in Calls \ {h} : call'[g] = call[g]
    BY <2>1, ReturnsNow
  <2>3. ControlTypeOK'
    <3>1. strayed' \in BOOLEAN /\ proxy' \in 0..MaxProxies
      BY <1>2, <2>1, ControlConstants DEF NewProxy, NoProxy
    <3> QED BY <2>1, <2>2, <3>1 DEF ControlTypeOK, CallTypes
  <2>4. AloneHolds'
    BY <2>2, AloneStays
  <2>5. ProxyHolds' /\ ~IsDocker' /\ TypeAgrees'
    BY <2>1 DEF ProxyHolds, IsDocker, TypeAgrees
  <2>6. ~doubtful' => PointsAgree'
    BY <1>1, <2>2, NoCallIs DEF PointsAgree
  <2> QED BY <2>2, <2>3, <2>4, <2>5, <2>6 DEF Undoubted, StatusAgrees, StreamsGoOn
<1>3. CASE to # "southwest"
  <2>1. PICK p \in ProxyIds :
          /\ proxy' = p
          /\ kind' = [kind EXCEPT ![p] = to]
          /\ initialized' = [isReady EXCEPT ![p] = to = "static"]
          /\ has_url' = [url EXCEPT ![p] = TRUE]
          /\ proxy_status' = [proxy_status EXCEPT ![p] = "IDLE"]
          /\ streaming' = [streaming EXCEPT ![p] = FALSE]
          /\ IF to = "static"
             THEN factory_type' = to /\ strayed' = FALSE /\ Returns(h)
             ELSE /\ call' = [call EXCEPT ![h] = [op |-> "switch", at |-> "init_down",
                                                  me |-> p, to |-> to,
                                                  sure |-> @.sure]]
                  /\ UNCHANGED <<factory_type, strayed>>
    BY <1>3 DEF NewProxy
  <2>2. to \in {"docker", "static"} /\ p \in 0..MaxProxies /\ p # NoProxy
    BY <1>3, ControlConstants DEF Targets, ProxyIds, NoProxy
  <2>3. /\ kind' \in [ProxyIds -> {"docker", "static"}] /\ kind'[p] = to
        /\ initialized' \in [ProxyIds -> BOOLEAN] /\ has_url' \in [ProxyIds -> BOOLEAN]
        /\ \A q \in ProxyIds : initialized'[q] => has_url'[q]
        /\ has_url'[p]
        /\ proxy_status' \in [ProxyIds -> {"IDLE", "RUNNING", "PAUSED", "STOPPED", "ERROR"}]
        /\ proxy_status'[p] = "IDLE"
        /\ streaming' \in [ProxyIds -> BOOLEAN]
    BY <2>1, <2>2 DEF ControlTypeOK
  <2>4. CASE to = "static"
    <3>1. factory_type' = "static" /\ strayed' = FALSE /\ Returns(h)
      BY <2>1, <2>4
    <3>2. /\ CallTypes' /\ call'[h] = NoCall
          /\ \A g \in Calls \ {h} : call'[g] = call[g]
      BY <3>1, ReturnsNow
    <3>3. ControlTypeOK'
      <4>1. \A g \in Calls : call'[g].me \in 0..MaxProxies /\ (call'[g] = NoCall <=> call'[g].me = NoProxy)
        BY <3>2 DEF CallTypes
      <4>2. proxy' \in 0..MaxProxies /\ strayed' \in BOOLEAN
        BY <2>1, <2>2, <3>1
      <4> QED BY <2>1, <2>2, <2>3, <3>1, <4>1, <4>2 DEF ControlTypeOK
    <3>4. AloneHolds'
      BY <3>2, AloneStays
    <3>5. ProxyHolds' /\ ~IsDocker' /\ TypeAgrees'
      BY <2>1, <2>2, <2>3, <2>4, <3>1 DEF ProxyHolds, IsDocker, TypeAgrees
    <3>6. ~doubtful' => PointsAgree'
      BY <1>1, <3>2, NoCallIs DEF PointsAgree
    <3> QED BY <3>2, <3>3, <3>4, <3>5, <3>6 DEF Undoubted, StatusAgrees, StreamsGoOn
  <2>5. CASE to = "docker"
    <3>1. /\ call'[h] = [op |-> "switch", at |-> "init_down", me |-> p, to |-> "docker",
                         sure |-> call[h].sure]
          /\ \A g \in Calls \ {h} : call'[g] = call[g]
          /\ call[h].sure \in BOOLEAN
          /\ UNCHANGED <<factory_type, strayed>>
      BY <2>1, <2>5 DEF CallTypes
    <3>2. /\ call'[h] \in [op : Routes, at : Points, me : 0..MaxProxies,
                           to : Targets \cup {"none"}, sure : BOOLEAN]
          /\ call'[h].op = "switch" /\ call'[h].at = "init_down" /\ call'[h].me = p
          /\ call'[h].to = "docker" /\ call'[h].sure = call[h].sure /\ call'[h] # NoCall
      BY <2>2, <3>1, PointsAre, NoCallIs DEF Routes, Targets
    <3>3. CallTypes'
      <4>1. call' \in [Calls -> [op : Routes, at : Points, me : 0..MaxProxies,
                                 to : Targets \cup {"none"}, sure : BOOLEAN]]
        BY <2>1, <2>5, <3>1, <3>2 DEF CallTypes
      <4> QED BY <2>2, <3>1, <3>2, <4>1 DEF CallTypes, IsSwitching, InitPoints, Targets
    <3>4. ControlTypeOK'
      BY <2>1, <2>2, <2>3, <3>1, <3>3 DEF ControlTypeOK, CallTypes
    <3>5. Switching' /\ IsDocker'
      BY <2>1, <2>2, <2>3, <2>5, <3>2 DEF Switching, IsSwitching, IsDocker, InitPoints
    <3>6. AloneHolds'
      <4>1. Finds(h)'
        BY <2>1, <3>2, <3>5 DEF Finds
      <4> QED BY <3>1, <3>2, <4>1, AloneStays
    <3>7. ProxyHolds' /\ TypeAgrees'
      BY <2>1, <2>3, <3>5 DEF ProxyHolds, TypeAgrees
    <3>8. ~doubtful' => PointsAgree'
      BY <1>1, <3>1, <3>2, NoCallIs DEF PointsAgree
    <3>9. StatusAgrees' /\ StreamsGoOn'
      BY <2>1, <2>3, <3>2 DEF StatusAgrees, StreamsGoOn
    <3> QED BY <3>3, <3>4, <3>5, <3>6, <3>7, <3>8, <3>9 DEF Undoubted
  <2> QED BY <2>2, <2>4, <2>5
<1> QED BY <1>2, <1>3

-----------------------------------------------------------------------------
(* The actions.                                                            *)

\* The actions, by the way in which they move a call.
LEMMA BeginningsKeep ==
  ASSUME ControlInv, NEW h \in Calls,
         \/ PlayRoute(h) \/ PauseRoute(h) \/ ResetRoute(h) \/ Disconnect(h) \/ Inject(h)
         \/ \E to \in Targets : Switch(h, to)
  PROVE  ControlInv'
<1> USE DEF IsDocker
<1>1. CASE PlayRoute(h)
  BY <1>1, BeginsKeeps DEF PlayRoute, Routes
<1>2. CASE PauseRoute(h)
  BY <1>2, BeginsKeeps DEF PauseRoute, Routes
<1>3. CASE ResetRoute(h)
  BY <1>3, BeginsKeeps DEF ResetRoute, Routes
<1>4. CASE Disconnect(h)
  BY <1>4, BeginsKeeps DEF Disconnect, Routes
<1>5. CASE Inject(h)
  BY <1>5, BeginsKeeps DEF Inject, Routes
<1>6. ASSUME NEW to \in Targets, Switch(h, to) PROVE ControlInv'
  BY <1>6, BeginsKeeps DEF Switch, Routes
<1> QED BY <1>1, <1>2, <1>3, <1>4, <1>5, <1>6

LEMMA FailuresKeep ==
  ASSUME ControlInv, NEW h \in Calls,
         \/ InitFails(h) \/ ServicesFail(h) \/ CreateRefused(h) \/ PostFails(h)
         \/ RefreshFails(h)
  PROVE  ControlInv'
<1> USE DEF At, globalVars, proxyVars, dockerVars, clientVars
<1>0. /\ strayed \in BOOLEAN /\ (~engine => simulation = "none")
      /\ simulation \in {"none", "ready", "running", "paused", "over"}
      /\ initialized \in [ProxyIds -> BOOLEAN] /\ \A p \in ProxyIds : initialized[p] => has_url[p]
      /\ proxy_status \in [ProxyIds -> {"IDLE", "RUNNING", "PAUSED", "STOPPED", "ERROR"}]
      /\ call[h].at # "none" <=> call[h] # NoCall
  BY DEF ControlInv, ControlTypeOK, CallTypes
<1>1. CASE InitFails(h)
  <2>1. strayed' = (strayed \/ call[h].op = "switch") /\ call[h].at \in {"init_up", "init_wait"}
        /\ Fails(h)
    BY <1>1 DEF InitFails
  <2>2. strayed' \in BOOLEAN /\ (strayed => strayed') /\ (IsSwitching(h) => strayed')
    BY <1>0, <2>1 DEF IsSwitching
  <2> QED BY <1>0, <1>1, <2>1, <2>2, FailsKeeps DEF InitFails
<1>2. CASE ServicesFail(h)
  BY <1>0, <1>2, FailsKeeps DEF ServicesFail, IsSwitching, InitPoints
<1>3. CASE CreateRefused(h)
  BY <1>0, <1>3, FailsKeeps DEF CreateRefused, IsSwitching, InitPoints
<1>4. CASE PostFails(h)
  BY <1>0, <1>4, FailsKeeps DEF PostFails, IsSwitching, InitPoints
<1>5. CASE RefreshFails(h)
  BY <1>0, <1>5, FailsKeeps DEF RefreshFails, IsSwitching, InitPoints
<1> QED BY <1>1, <1>2, <1>3, <1>4, <1>5

LEMMA UnsureCall ==
  ASSUME NEW R, NEW P, NEW M, NEW T, NEW b \in BOOLEAN,
         NEW r \in [op : R, at : P, me : M, to : T, sure : BOOLEAN], NEW a \in P
  PROVE  LET moved == [r EXCEPT !.at = a, !.sure = @ /\ b]
         IN  /\ moved \in [op : R, at : P, me : M, to : T, sure : BOOLEAN]
             /\ moved.op = r.op /\ moved.at = a /\ moved.me = r.me
             /\ moved.to = r.to /\ moved.sure = (r.sure /\ b)
OBVIOUS

\* A call that passes a failing docker compose down over.
LEMMA DownFailsKeeps ==
  ASSUME ControlInv, NEW h \in Calls, At(h, "init_down"),
         ComposeDownFails, doubtful' = TRUE,
         call' = [call EXCEPT ![h].at = "init_up", ![h].sure = @ /\ call[h].op # "switch"],
         UNCHANGED <<globalVars, proxyVars, clientVars, strayed>>
  PROVE  ControlInv'
<1> USE DEF At, globalVars, proxyVars, clientVars
<1> DEFINE Call == [op : Routes, at : Points, me : 0..MaxProxies,
                    to : Targets \cup {"none"}, sure : BOOLEAN]
<1>1. /\ engine' \in BOOLEAN /\ algorithms' \in BOOLEAN /\ (~engine' => simulation' = "none")
      /\ simulation' \in {"none", "ready", "running", "paused", "over"}
  BY DEF ControlInv, ControlTypeOK, ComposeDownFails
<1>2. call \in [Calls -> Call] /\ call[h] \in Call /\ "init_up" \in Points
  BY PointsAre DEF ControlInv, CallTypes
<1>3. /\ call'[h] \in Call
      /\ call'[h].op = call[h].op /\ call'[h].at = "init_up" /\ call'[h].me = call[h].me
      /\ call'[h].to = call[h].to /\ call'[h].sure = (call[h].sure /\ call[h].op # "switch")
      /\ \A g \in Calls \ {h} : call'[g] = call[g]
  <2> DEFINE b == call[h].op # "switch"
             moved == [call[h] EXCEPT !.at = "init_up", !.sure = @ /\ b]
  <2>1. /\ moved \in Call
        /\ moved.op = call[h].op /\ moved.at = "init_up" /\ moved.me = call[h].me
        /\ moved.to = call[h].to /\ moved.sure = (call[h].sure /\ b)
    <3>1. b \in BOOLEAN
      OBVIOUS
    <3> HIDE DEF b
    <3> QED BY <1>2, <3>1, UnsureCall
  <2>2. call' = [call EXCEPT ![h] = moved]
    BY <1>2
  <2> HIDE DEF Call, moved
  <2>3. call'[h] = moved /\ \A g \in Calls \ {h} : call'[g] = call[g]
    BY <1>2, <2>2
  <2> QED BY <2>1, <2>3
<1>4. call' \in [Calls -> Call]
  BY <1>2, <1>3
<1>5. call[h] # NoCall /\ call'[h] # NoCall
  BY <1>3, NoCallIs
<1>6. \A g \in Calls : IsSwitching(g)' <=> IsSwitching(g)
  BY <1>3 DEF IsSwitching, InitPoints
<1>7. CallTypes'
  <2>1. ASSUME NEW g \in Calls
        PROVE /\ call'[g].at = "none" <=> call'[g] = NoCall
              /\ call'[g].me = NoProxy <=> call'[g] = NoCall
              /\ call'[g].at \in {"clean", "cleaned"} => call'[g].op \in {"switch", "disconnect"}
              /\ call'[g].at \in InitPoints => call'[g].op \in {"play", "reset", "switch"}
              /\ call'[g].op = "switch" => call'[g].to \in Targets
              /\ call'[g].op = "switch" /\ call'[g].at \in InitPoints => call'[g].to = "docker"
    <3>1. CASE g = h
      BY <1>3, <1>5, <3>1 DEF ControlInv, CallTypes, IsSwitching, InitPoints
    <3>2. CASE g # h
      BY <1>3, <3>2 DEF ControlInv, CallTypes, IsSwitching
    <3> QED BY <3>1, <3>2
  <2> QED BY <1>4, <2>1 DEF CallTypes, IsSwitching
<1>8. ControlTypeOK'
  <2>1. \A g \in Calls : call'[g].me \in 0..MaxProxies /\ (call'[g] = NoCall <=> call'[g].me = NoProxy)
    BY <1>7 DEF CallTypes
  <2> QED BY <1>1, <2>1 DEF ControlInv, ControlTypeOK
<1>9. AloneHolds'
  <2>1. ASSUME call'[h].sure PROVE call[h].sure /\ Finds(h)'
    <3>1. call[h].sure /\ Finds(h) /\ ~IsSwitching(h)
      BY <1>3, <1>5, <2>1 DEF ControlInv, AloneHolds, IsSwitching
    <3> QED BY <1>3, <1>6, <3>1 DEF Finds, IsDocker
  <2> QED BY <1>3, <1>5, <2>1, AloneStays DEF ControlInv
<1>10. ProxyHolds'
  BY <1>6 DEF ControlInv, ProxyHolds, IsDocker, Switching
<1> QED BY <1>7, <1>8, <1>9, <1>10 DEF ControlInv, Undoubted

LEMMA StepsKeep ==
  ASSUME ControlInv, NEW h \in Calls,
         \/ InitDown(h) \/ InitUp(h) \/ Recreate(h) \/ PostCreate(h) \/ PostPlay(h)
         \/ PostControl(h) \/ SkipPost(h) \/ CleanDown(h) \/ RefreshEngine(h)
         \/ RecreateEngine(h)
  PROVE  ControlInv'
<1> USE DEF At, globalVars, proxyVars, dockerVars, clientVars
<1>0. /\ engine \in BOOLEAN /\ algorithms \in BOOLEAN /\ doubtful \in BOOLEAN
      /\ simulation \in {"none", "ready", "running", "paused", "over"}
      /\ ~engine => simulation = "none"
      /\ streaming \in [ProxyIds -> BOOLEAN]
      /\ call[h].at \in {"clean", "cleaned"} => call[h].op \in {"switch", "disconnect"}
  BY DEF ControlInv, ControlTypeOK, CallTypes
<1>1. CASE InitDown(h)
  <2>1. CASE ComposeDown /\ Goes(h, "init_up") /\ UNCHANGED doubtful
    BY <1>0, <1>1, <2>1, CallStepKeeps, PointsAre DEF InitDown, ComposeDown, InitPoints
  <2>2. CASE ~(ComposeDown /\ Goes(h, "init_up") /\ UNCHANGED doubtful)
    BY <1>1, <2>2, DownFailsKeeps DEF InitDown
  <2> QED BY <2>1, <2>2
<1>2. CASE InitUp(h)
  <2>1. call[h].sure /\ Finds(h) /\ IsSwitching(h) => ~engine /\ ~algorithms
    BY <1>2 DEF InitUp, Finds
  <2> QED BY <1>0, <1>2, <2>1, CallStepKeeps, PointsAre DEF InitUp, InitPoints
<1>3. CASE Recreate(h)
  BY <1>0, <1>3, CallStepKeeps, PointsAre DEF Recreate, InitPoints
<1>4. CASE PostCreate(h)
  BY <1>0, <1>4, CallStepKeeps, PointsAre DEF PostCreate, InitPoints
<1>5. CASE PostPlay(h)
  <2>1. Finds(h) => simulation = "ready"
    BY <1>5 DEF PostPlay, Finds
  <2> QED BY <1>0, <1>5, <2>1, CallStepKeeps, PointsAre DEF PostPlay, InitPoints
<1>6. CASE PostControl(h)
  <2>1. CASE call[h].at = "post_pause"
    BY <1>0, <1>6, <2>1, CallStepKeeps, PointsAre DEF PostControl, InitPoints
  <2>2. CASE call[h].at = "post_reset"
    BY <1>0, <1>6, <2>2, CallStepKeeps, PointsAre DEF PostControl, InitPoints
  <2> QED BY <1>6, <2>1, <2>2 DEF PostControl
<1>7. CASE SkipPost(h)
  <2>1. call[h].me # proxy
    BY <1>7 DEF SkipPost, ControlInv, CallTypes, ProxyHolds
  <2>2. CASE call[h].at = "post_pause"
    BY <1>0, <1>7, <2>1, <2>2, CallStepKeeps, PointsAre DEF SkipPost, InitPoints
  <2>3. CASE call[h].at = "post_reset"
    BY <1>0, <1>7, <2>1, <2>3, CallStepKeeps, PointsAre DEF SkipPost, InitPoints
  <2> QED BY <1>7, <2>2, <2>3 DEF SkipPost
<1>8. CASE CleanDown(h)
  <2>1. CASE ComposeDown /\ UNCHANGED doubtful
    BY <1>0, <1>8, <2>1, CallStepKeeps, PointsAre DEF CleanDown, ComposeDown, InitPoints
  <2>2. CASE ComposeDownFails /\ doubtful' = TRUE
    BY <1>0, <1>8, <2>2, CallStepKeeps, PointsAre DEF CleanDown, ComposeDownFails, InitPoints
  <2> QED BY <1>8, <2>1, <2>2 DEF CleanDown
<1>9. CASE RefreshEngine(h)
  <2>1. streaming' \in [ProxyIds -> BOOLEAN]
    BY <1>0, <1>9 DEF RefreshEngine
  <2> QED BY <1>0, <1>9, <2>1, CallStepKeeps, PointsAre DEF RefreshEngine, InitPoints
<1>10. CASE RecreateEngine(h)
  BY <1>0, <1>10, CallStepKeeps, PointsAre DEF RecreateEngine, InitPoints
<1> QED BY <1>1, <1>2, <1>3, <1>4, <1>5, <1>6, <1>7, <1>8, <1>9, <1>10

LEMMA EndsKeep ==
  ASSUME ControlInv, NEW h \in Calls,
         Started(h) \/ Controlled(h) \/ InjectAnswered(h) \/ Refreshed(h)
  PROVE  ControlInv'
<1> USE DEF At, globalVars, dockerVars, clientVars
<1>0. /\ doubtful \in BOOLEAN /\ strayed \in BOOLEAN
      /\ factory_type \in {"base", "docker", "static"}
      /\ initialized \in [ProxyIds -> BOOLEAN] /\ \A p \in ProxyIds : initialized[p] => has_url[p]
      /\ proxy_status \in [ProxyIds -> {"IDLE", "RUNNING", "PAUSED", "STOPPED", "ERROR"}]
      /\ streaming \in [ProxyIds -> BOOLEAN]
  BY DEF ControlInv, ControlTypeOK
<1>1. /\ call[h].at \in {"played", "paused", "was_reset", "post_inject", "refresh_wait"}
      /\ Returns(h)
  BY DEF Started, Controlled, InjectAnswered, Refreshed
<1>2. /\ call[h] # NoCall /\ ~IsSwitching(h) /\ call[h].sure \in BOOLEAN
      /\ call[h].me \in ProxyIds
  BY <1>1, ControlConstants DEF ControlInv, CallTypes, IsSwitching, InitPoints, ProxyIds, NoProxy
<1>3. ~doubtful => /\ call[h].sure /\ call[h].me = proxy /\ IsDocker
                   /\ \A g \in Calls \ {h} : call[g] = NoCall
  BY <1>2, OnlyCall DEF ControlInv
<1>4. CASE Started(h)
  <2>1. /\ call[h].at = "played" /\ doubtful' = (doubtful /\ ~call[h].sure)
        /\ streaming' = [streaming EXCEPT ![call[h].me] = TRUE]
        /\ proxy_status' = [proxy_status EXCEPT ![call[h].me] = "RUNNING"]
        /\ UNCHANGED <<proxy, factory_type, kind, initialized, has_url, dockerVars, clientVars,
                      strayed>>
    BY <1>4 DEF Started, Cleared
  <2>2. ~doubtful' => /\ call[h].sure /\ call[h].me = proxy
                      /\ simulation \in {"running", "over"}
    BY <1>2, <1>3, <2>1 DEF ControlInv, AloneHolds, Finds
  <2> QED BY <1>0, <1>1, <1>2, <2>1, <2>2, CallEndKeeps
<1>5. CASE Controlled(h)
  <2>1. /\ UNCHANGED <<proxy, factory_type, kind, initialized, has_url, streaming, dockerVars,
                      clientVars, doubtful, strayed>>
        /\ proxy_status' \in [ProxyIds -> {"IDLE", "RUNNING", "PAUSED", "STOPPED", "ERROR"}]
        /\ proxy_status'[call[h].me] \in {"PAUSED", "IDLE"}
        /\ call[h].at \in {"paused", "was_reset"}
    BY <1>0, <1>2, <1>5 DEF Controlled
  <2>2. ~doubtful => simulation # "running"
    BY <2>1 DEF ControlInv, Undoubted, PointsAgree
  <2> QED BY <1>0, <1>1, <1>2, <1>3, <2>1, <2>2, CallEndKeeps
<1>6. CASE InjectAnswered(h)
  <2>1. /\ UNCHANGED <<proxy, factory_type, kind, initialized, has_url, streaming, proxy_status,
                      dockerVars, clientVars, doubtful, strayed>>
        /\ call[h].at = "post_inject"
    BY <1>6 DEF InjectAnswered, proxyVars
  <2>2. ASSUME ~doubtful
        PROVE /\ proxy_status[proxy] = "RUNNING" => simulation \in {"running", "over"}
              /\ simulation = "running" => proxy_status[proxy] \in {"RUNNING", "ERROR"}
              /\ proxy_status[proxy] = "RUNNING" => streaming[proxy]
    <3>1. \A g \in Calls : call[g].at \in {"none", "post_inject"}
      BY <1>3, <2>1, <2>2, NoCallIs
    <3> QED BY <1>3, <2>2, <3>1 DEF ControlInv, Undoubted, StatusAgrees, StreamsGoOn
  <2> QED BY <1>0, <1>1, <1>2, <1>3, <2>1, <2>2, CallEndKeeps
<1>7. CASE Refreshed(h)
  <2>1. /\ UNCHANGED <<proxy, factory_type, kind, has_url, streaming, dockerVars,
                      clientVars, doubtful, strayed>>
        /\ initialized' = [initialized EXCEPT ![call[h].me] = TRUE]
        /\ proxy_status' = [proxy_status EXCEPT ![call[h].me] = "IDLE"]
        /\ call[h].at = "refresh_wait" /\ has_url[call[h].me]
    BY <1>7 DEF Refreshed
  <2>2. ~doubtful => simulation = "none"
    BY <2>1 DEF ControlInv, Undoubted, PointsAgree
  <2>3. initialized' \in [ProxyIds -> BOOLEAN] /\ \A p \in ProxyIds : initialized'[p] => has_url[p]
    BY <1>0, <2>1
  <2> QED BY <1>0, <1>1, <1>2, <1>3, <2>1, <2>2, <2>3, CallEndKeeps
<1> QED BY <1>4, <1>5, <1>6, <1>7

\* The call that goes on elsewhere with another proxy is the record of its fields.
LEMMA MovedCall ==
  ASSUME NEW R, NEW P, NEW M, NEW T,
         NEW r \in [op : R, at : P, me : M, to : T, sure : BOOLEAN], NEW m \in M, NEW a \in P
  PROVE  LET moved == [r EXCEPT !.me = m, !.at = a]
         IN  /\ moved \in [op : R, at : P, me : M, to : T, sure : BOOLEAN]
             /\ moved.op = r.op /\ moved.at = a /\ moved.me = m
             /\ moved.to = r.to /\ moved.sure = r.sure
OBVIOUS

LEMMA InitializedKeeps ==
  ASSUME ControlInv, NEW h \in Calls, Initialized(h) PROVE ControlInv'
<1> USE DEF At, dockerVars, clientVars
<1>0. /\ doubtful \in BOOLEAN /\ strayed \in BOOLEAN /\ proxy \in 0..MaxProxies
      /\ factory_type \in {"base", "docker", "static"}
      /\ initialized \in [ProxyIds -> BOOLEAN] /\ \A p \in ProxyIds : initialized[p] => has_url[p]
      /\ proxy_status \in [ProxyIds -> {"IDLE", "RUNNING", "PAUSED", "STOPPED", "ERROR"}]
      /\ streaming \in [ProxyIds -> BOOLEAN] /\ (~engine => simulation = "none")
      /\ simulation \in {"none", "ready", "running", "paused", "over"}
  BY DEF ControlInv, ControlTypeOK
<1>1. /\ call[h].at = "init_wait" /\ has_url[call[h].me]
      /\ initialized' = [initialized EXCEPT ![call[h].me] = TRUE]
      /\ proxy_status' = [proxy_status EXCEPT ![call[h].me] = "IDLE"]
      /\ UNCHANGED <<proxy, kind, has_url, streaming, dockerVars, clientVars>>
  BY DEF Initialized
<1>2. /\ call[h] # NoCall /\ call[h].me \in ProxyIds /\ call[h].sure \in BOOLEAN
      /\ call[h].op \in {"play", "reset", "switch"}
  BY <1>1, ControlConstants DEF ControlInv, CallTypes, InitPoints, ProxyIds, NoProxy
<1>3. /\ initialized' \in [ProxyIds -> BOOLEAN] /\ \A p \in ProxyIds : initialized'[p] => has_url[p]
      /\ proxy_status' \in [ProxyIds -> {"IDLE", "RUNNING", "PAUSED", "STOPPED", "ERROR"}]
      /\ proxy_status'[call[h].me] = "IDLE"
  BY <1>0, <1>1, <1>2
<1>4. ~doubtful => /\ call[h].sure /\ call[h].me = proxy /\ IsDocker
                   /\ \A g \in Calls \ {h} : call[g] = NoCall
  BY <1>2, OnlyCall DEF ControlInv
<1>5. call[h].sure => /\ call[h].me = proxy /\ IsDocker
                      /\ call[h].op = "switch" => simulation = "none"
  BY <1>1, <1>2 DEF ControlInv, AloneHolds, Finds, IsSwitching, InitPoints
<1>6. CASE call[h].op = "switch"
  <2>1. /\ factory_type' = call[h].to /\ strayed' = FALSE
        /\ Returns(h) /\ doubtful' = (doubtful /\ ~call[h].sure)
    BY <1>6 DEF Initialized, Cleared
  <2>2. IsSwitching(h) /\ call[h].to = "docker"
    BY <1>1, <1>6 DEF ControlInv, CallTypes, IsSwitching, InitPoints
  <2>3. ~doubtful' => call[h].sure
    BY <1>4, <2>1
  <2> QED BY <1>0, <1>1, <1>2, <1>3, <1>5, <1>6, <2>1, <2>2, <2>3, CallEndKeeps
<1>7. CASE call[h].op # "switch" /\ proxy # NoProxy /\ initialized'[proxy]
  <2> DEFINE spot == IF call[h].op = "play" THEN "recreate" ELSE "post_reset"
  <2>1. /\ call' = [call EXCEPT ![h].me = proxy, ![h].at = spot]
        /\ UNCHANGED <<factory_type, doubtful, strayed>>
    BY <1>7 DEF Initialized
  <2>2. spot \in {"recreate", "post_reset"}
    OBVIOUS
  <2> HIDE DEF spot
  <2>3. /\ call'[h].at = spot /\ call'[h].me = proxy /\ call'[h].op = call[h].op
        /\ call'[h].to = call[h].to /\ call'[h].sure = call[h].sure
        /\ \A g \in Calls \ {h} : call'[g] = call[g]
        /\ call' \in [Calls -> [op : Routes, at : Points, me : 0..MaxProxies,
                                to : Targets \cup {"none"}, sure : BOOLEAN]]
    <3> DEFINE Call == [op : Routes, at : Points, me : 0..MaxProxies,
                        to : Targets \cup {"none"}, sure : BOOLEAN]
               moved == [call[h] EXCEPT !.me = proxy, !.at = spot]
    <3>1. call \in [Calls -> Call] /\ call[h] \in Call /\ spot \in Points
      BY <2>2, PointsAre DEF ControlInv, CallTypes
    <3>2. /\ moved \in Call
          /\ moved.op = call[h].op /\ moved.at = spot /\ moved.me = proxy
          /\ moved.to = call[h].to /\ moved.sure = call[h].sure
      BY <1>0, <3>1, MovedCall
    <3>3. call' = [call EXCEPT ![h] = moved]
      BY <2>1, <3>1
    <3> HIDE DEF Call, moved
    <3>4. call'[h] = moved /\ \A g \in Calls \ {h} : call'[g] = call[g]
      BY <3>1, <3>3
    <3>5. call' \in [Calls -> Call]
      BY <3>1, <3>2, <3>3
    <3> QED BY <3>2, <3>4, <3>5 DEF Call
  <2>4. call'[h] # NoCall
    BY <2>2, <2>3, NoCallIs
  <2>5. CallTypes'
    BY <1>7, <2>2, <2>3, <2>4 DEF ControlInv, CallTypes, IsSwitching, InitPoints
  <2>6. ControlTypeOK'
    <3>1. \A g \in Calls : call'[g].me \in 0..MaxProxies /\ (call'[g] = NoCall <=> call'[g].me = NoProxy)
      BY <2>5 DEF CallTypes
    <3> QED BY <1>1, <1>3, <2>1, <3>1 DEF ControlInv, ControlTypeOK
  <2>7. AloneHolds'
    <3>1. call[h].sure => Finds(h)'
      BY <1>1, <1>5, <2>2, <2>3 DEF Finds, IsDocker
    <3> QED BY <1>2, <2>3, <3>1, AloneStays DEF ControlInv
  <2>8. Switching' <=> Switching
    <3>1. \A g \in Calls : IsSwitching(g)' <=> IsSwitching(g)
      BY <1>7, <2>3 DEF IsSwitching
    <3> QED BY <3>1 DEF Switching
  <2>9. ProxyHolds'
    BY <1>1, <2>1, <2>8 DEF ControlInv, ProxyHolds, IsDocker
  <2>10. Undoubted'
    <3> SUFFICES ASSUME ~doubtful' PROVE Undoubted'
      BY DEF Undoubted
    <3>1. /\ ~doubtful /\ call[h].sure /\ IsDocker' /\ proxy_status'[proxy] = "IDLE"
          /\ \A g \in Calls \ {h} : call'[g] = NoCall
      BY <1>1, <1>3, <1>4, <2>1, <2>3 DEF IsDocker
    <3>2. StatusAgrees' /\ StreamsGoOn'
      BY <1>1, <2>2, <2>3, <3>1 DEF StatusAgrees, StreamsGoOn
    <3>3. PointsAgree'
      BY <2>2, <2>3, <3>1, NoCallIs DEF PointsAgree
    <3>4. TypeAgrees'
      BY <1>1, <2>1, <2>8, <3>1 DEF ControlInv, Undoubted, TypeAgrees
    <3> QED BY <3>1, <3>2, <3>3, <3>4 DEF Undoubted
  <2> QED BY <2>5, <2>6, <2>7, <2>9, <2>10 DEF ControlInv
<1>8. CASE call[h].op # "switch" /\ ~(proxy # NoProxy /\ initialized'[proxy])
  <2>1. Fails(h) /\ UNCHANGED <<factory_type, strayed>>
    BY <1>8 DEF Initialized
  <2>2. ~IsSwitching(h)
    BY <1>8 DEF IsSwitching
  <2> QED BY <1>0, <1>1, <1>2, <1>3, <2>1, <2>2, FailsKeeps DEF globalVars
<1> QED BY <1>6, <1>7, <1>8

LEMMA ReplacementsKeep ==
  ASSUME ControlInv, NEW h \in Calls,
         Cleaned(h) \/ DisconnectAtOnce(h) \/ \E to \in Targets : SwitchAtOnce(h, to)
  PROVE  ControlInv'
<1> USE DEF At, proxyVars, dockerVars, clientVars
<1>0. /\ initialized \in [ProxyIds -> BOOLEAN] /\ \A p \in ProxyIds : initialized[p] => has_url[p]
      /\ has_url \in [ProxyIds -> BOOLEAN]
  BY DEF ControlInv, ControlTypeOK
<1>1. ASSUME proxy # NoProxy => kind[proxy] = "static", ~doubtful PROVE ~engine /\ ~algorithms
  BY <1>1 DEF ControlInv, Undoubted, IsDocker
<1>2. CASE DisconnectAtOnce(h)
  BY <1>0, <1>1, <1>2, ForgetKeeps DEF DisconnectAtOnce
<1>3. ASSUME NEW to \in Targets, SwitchAtOnce(h, to) PROVE ControlInv'
  <2>1. ~IsSwitching(h)
    BY <1>3, NoCallIs DEF SwitchAtOnce, IsSwitching
  <2> QED BY <1>0, <1>1, <1>3, <2>1, NewProxyKeeps DEF SwitchAtOnce
<1>4. CASE Cleaned(h)
  <2> DEFINE isReady == [initialized EXCEPT ![call[h].me] = FALSE]
             url   == [has_url EXCEPT ![call[h].me] = FALSE]
  <2>1. /\ call[h].at = "cleaned" /\ call[h] # NoCall /\ ~IsSwitching(h)
        /\ call[h].op \in {"switch", "disconnect"}
        /\ call[h].op = "switch" => call[h].to \in Targets
    BY <1>4 DEF Cleaned, ControlInv, CallTypes, IsSwitching, InitPoints
  <2>2. ~doubtful => ~engine /\ ~algorithms
    BY <2>1 DEF ControlInv, Undoubted, PointsAgree
  <2>3. /\ isReady \in [ProxyIds -> BOOLEAN] /\ url \in [ProxyIds -> BOOLEAN]
        /\ \A p \in ProxyIds : isReady[p] => url[p]
    BY <1>0
  <2>4. CASE call[h].op = "disconnect"
    <3>1. /\ Forget /\ Returns(h) /\ initialized' = isReady /\ has_url' = url
          /\ UNCHANGED <<kind, proxy_status, streaming, dockerVars, clientVars, doubtful>>
      BY <1>4, <2>4 DEF Cleaned
    <3> HIDE DEF isReady, url
    <3> QED BY <2>1, <2>2, <2>3, <3>1, ForgetKeeps
  <2>5. CASE call[h].op # "disconnect"
    <3>1. NewProxy(h, call[h].to, isReady, url) /\ UNCHANGED <<dockerVars, clientVars, doubtful>>
      BY <1>4, <2>5 DEF Cleaned
    <3> HIDE DEF isReady, url
    <3>2. call[h].to \in Targets
      BY <2>1, <2>5
    <3> QED BY <2>1, <2>2, <2>3, <3>1, <3>2, NewProxyKeeps
  <2> QED BY <2>4, <2>5
<1> QED BY <1>2, <1>3, <1>4

LEMMA ClientsKeep ==
  ASSUME ControlInv, SimulationEnds \/ Attach \/ TakeStopped \/ Detach \/ LoseStream
  PROVE  ControlInv'
<1> USE DEF globalVars, proxyVars, dockerVars, clientVars
<1>0. /\ doubtful \in BOOLEAN /\ stopped_sent \in BOOLEAN /\ stream \in 0..MaxProxies
      /\ proxy \in 0..MaxProxies /\ NoProxy \in 0..MaxProxies
      /\ proxy_status \in [ProxyIds -> {"IDLE", "RUNNING", "PAUSED", "STOPPED", "ERROR"}]
      /\ streaming \in [ProxyIds -> BOOLEAN]
  BY ControlConstants DEF ControlInv, ControlTypeOK, NoProxy
<1>1. CASE SimulationEnds
  BY <1>0, <1>1, ClientKeeps DEF SimulationEnds
<1>2. CASE Attach
  BY <1>0, <1>2, ClientKeeps DEF Attach
<1>3. CASE TakeStopped
  <2>1. /\ doubtful' = (doubtful \/ simulation # "over") /\ stream' = NoProxy
        /\ stopped_sent' = FALSE
        /\ UNCHANGED <<globalVars, kind, initialized, has_url, dockerVars, call, strayed>>
    BY <1>3 DEF TakeStopped
  <2>2. /\ proxy_status' \in [ProxyIds -> {"IDLE", "RUNNING", "PAUSED", "STOPPED", "ERROR"}]
        /\ streaming' \in [ProxyIds -> BOOLEAN]
        /\ \A p \in ProxyIds :
             \/ proxy_status'[p] = proxy_status[p] /\ streaming'[p] = streaming[p]
             \/ proxy_status'[p] = "STOPPED"
    BY <1>0, <1>3 DEF TakeStopped
  <2> QED BY <1>0, <2>1, <2>2, ClientKeeps
<1>4. CASE Detach
  BY <1>0, <1>4, ClientKeeps DEF Detach
<1>5. CASE LoseStream
  <2>1. /\ proxy_status' \in [ProxyIds -> {"IDLE", "RUNNING", "PAUSED", "STOPPED", "ERROR"}]
        /\ \A p \in ProxyIds : proxy_status'[p] = proxy_status[p] \/ proxy_status'[p] = "ERROR"
    BY <1>0, <1>5 DEF LoseStream
  <2> QED BY <1>0, <1>5, <2>1, ClientKeeps DEF LoseStream
<1> QED BY <1>1, <1>2, <1>3, <1>4, <1>5

LEMMA NextControl == ControlInv /\ [ControlNext]_controlVars => ControlInv'
<1> SUFFICES ASSUME ControlInv, [ControlNext]_controlVars PROVE ControlInv'
  OBVIOUS
<1>1. CASE UNCHANGED controlVars
  BY <1>1 DEF controlVars, globalVars, proxyVars, dockerVars, clientVars, ControlInv, ControlTypeOK,
     CallTypes, IsSwitching, AloneHolds, Finds, Alone, ProxyHolds, Undoubted, StatusAgrees,
     PointsAgree, StreamsGoOn, TypeAgrees, Switching, IsDocker
<1>2. CASE ControlNext
  BY <1>2, BeginningsKeep, FailuresKeep, StepsKeep, EndsKeep, InitializedKeeps, ReplacementsKeep,
     ClientsKeep DEF ControlNext
<1> QED BY <1>1, <1>2

\* The invariant says what the run checks.
LEMMA InvControls == ControlInv => ControlAgrees
<1> SUFFICES ASSUME ControlInv PROVE ControlAgrees
  OBVIOUS
<1>1. StatusMatchesEngine /\ NoOrphans
  BY NoCallIs DEF ControlInv, Undoubted, StatusAgrees, InOrder, StatusMatchesEngine, NoOrphans, IsDocker
<1>2. TypeIsOwn
  <2>1. InOrder => ~Switching
    BY NoCallIs DEF InOrder, Switching, IsSwitching
  <2> QED BY <2>1 DEF ControlInv, Undoubted, TypeAgrees, TypeIsOwn, InOrder
<1>3. StreamsDoNotSpin
  BY DEF ControlInv, Undoubted, StreamsGoOn, ProxyHolds, StreamsDoNotSpin, Spinning, IsDocker
<1> QED BY <1>1, <1>2, <1>3 DEF ControlAgrees

\* For any number of calls under way and proxies in use: as long as nothing is in doubt (no
\* call has met another and no step has failed since a play that ran alone, or a switch to
\* docker that also began with everything down, has put everything in place), the status
\* of the proxy agrees with the engine behind it whenever no call is under way, containers
\* are up only for the docker proxy that is the current one, the type is that of the proxy, and
\* the streams do not bring the event loop to a stand (server.py, DockerProxy.py).
THEOREM ControlIsInStep == ControlSpec => []ControlAgrees
<1>1. ControlSpec => []ControlInv
  BY InitControl, NextControl, PTL DEF ControlSpec
<1> QED BY <1>1, InvControls, PTL

-----------------------------------------------------------------------------
(* The parts, as those of one server.                                      *)

\* Readers get every event, once and in order, and viewers see the newest there
\* is, for any number of either and queues of any size, however the run thread and
\* the commands of the event loop alternate.
THEOREM ClientsAreServed == PartsSpec => []ClientsKeepUp
<1>1. PartsInit => StreamInv /\ SnapInv
  BY StreamStart, SnapInit DEF PartsInit
<1>2. StreamInv /\ [PartsNext]_<<part, streamVars, snapshotVars, insertionVars, controlVars, monitorVars>>
        => StreamInv'
  BY StreamStep DEF PartsNext
<1>3. SnapInv /\ [PartsNext]_<<part, streamVars, snapshotVars, insertionVars, controlVars, monitorVars>>
        => SnapInv'
  BY SnapNext DEF PartsNext
<1>4. StreamInv /\ SnapInv => ClientsKeepUp
  BY StreamShows, SnapShows DEF ClientsKeepUp
<1> QED BY <1>1, <1>2, <1>3, <1>4, PTL DEF PartsSpec

\* An index holds each line it has consumed once, the summary shows the last line of
\* each file, and a reader who pages, on or back, has seen of its level all lines
\* between where it began and its cursor, however files are written, torn, archived,
\* listed and taken away in between (event_monitor.py).
THEOREM PagesTellTheTruth == PartsSpec => []PagesAreTrue
<1>1. PartsInit => MonitorInv
  BY MonitorStart DEF PartsInit
<1>2. MonitorInv /\ [PartsNext]_<<part, streamVars, snapshotVars, insertionVars, controlVars, monitorVars>>
        => MonitorInv'
  BY MonitorStep DEF PartsNext
<1> QED BY <1>1, <1>2, MonitorShows, PTL DEF PartsSpec

\* However many readers, viewers, requests, calls and files there are, the state of
\* each part is of its type: no queue of events holds more than its size, a lock is
\* held while a frame is built, every request in the queue is one that was accepted,
\* and a factory that is initialized has a URL.
THEOREM StreamsAreTyped == PartsSpec => []PartsTypeOK
<1> DEFINE Inv == StreamInv /\ SnapInv /\ InsertTyped /\ ControlInv /\ MonitorInv
<1>1. PartsInit => Inv
  BY StreamStart, SnapInit, InsertTypedStarts, InitControl, MonitorStart DEF PartsInit
<1>2. Inv /\ [PartsNext]_<<part, streamVars, snapshotVars, insertionVars, controlVars, monitorVars>>
        => Inv'
  <2> SUFFICES ASSUME Inv, [PartsNext]_<<part, streamVars, snapshotVars, insertionVars,
                                         controlVars, monitorVars>>
               PROVE  Inv'
    OBVIOUS
  <2>1. /\ [StreamNext]_streamVars /\ [SnapshotNext]_snapshotVars /\ [InsertNext]_insertionVars
        /\ [ControlNext]_controlVars /\ [MonitorNext]_monitorVars
    BY DEF PartsNext
  <2> QED BY <2>1, StreamStep, SnapNext, InsertTypedKeeps, NextControl, MonitorStep
<1>3. Inv => PartsTypeOK
  <2>1. StreamInv => StreamTypeOK
    BY DEF StreamInv, BaseInv
  <2>2. SnapInv => SnapshotTypeOK
    BY DEF SnapInv
  <2>3. ControlInv => ControlTypeOK
    BY DEF ControlInv
  <2> QED BY <2>1, <2>2, <2>3, InsertTypedIsEnough, MonitorShows DEF PartsTypeOK
<1> QED BY <1>1, <1>2, <1>3, PTL DEF PartsSpec
=============================================================================
