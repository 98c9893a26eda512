---------------------------- MODULE WorldProofs ----------------------------
(***************************************************************************)
(* What the dispatcher's thread does to the world, for every value of the  *)
(* constants.                                                              *)
(*                                                                         *)
(* The scheduler: a task that was handed to it has one owner, and two      *)
(* tasks that wait never share a timer.  The walk on top of it: it uses    *)
(* the scheduler as the scheduler expects, and a creature has one chain of *)
(* events.  Open containers: whoever has one open can reach it.  A spawn:  *)
(* its references are exact and its places are filled again.  Decay: the   *)
(* references of items are exact, and items decay in time.  Monsters are   *)
(* proved about in MonstersProofs; what is promised of several of these    *)
(* parts is at the end.                                                    *)
(***************************************************************************)
EXTENDS World, MonstersProofs, FiniteSetTheorems, SequenceTheorems, TLAPS

(***************************************************************************)
(* Where tasks are in a queue of handlers.                                 *)
(***************************************************************************)
Carries(h, t) == h.op \in {"add", "expired", "aborted"} /\ h.task = t
IsIn(q, t) == \E i \in DOMAIN q : Carries(q[i], t)
OnceIn(q, t) == \A i, j \in DOMAIN q : Carries(q[i], t) /\ Carries(q[j], t) => i = j

OnceDispatched(d, t) == \A i, j \in DOMAIN d : d[i] = t /\ d[j] = t => i = j

LEMMA AppendHandler ==
    ASSUME NEW q \in Seq(Handler), NEW h \in Handler, NEW t
    PROVE  /\ Append(q, h) \in Seq(Handler)
           /\ IsIn(Append(q, h), t) <=> IsIn(q, t) \/ Carries(h, t)
           /\ OnceIn(q, t) /\ ~ (IsIn(q, t) /\ Carries(h, t)) => OnceIn(Append(q, h), t)
  <1> DEFINE r == Append(q, h)
  <1>1. /\ r \in Seq(Handler) /\ DOMAIN q = 1 .. Len(q) /\ DOMAIN r = 1 .. Len(q) + 1
        /\ Len(q) \in Nat
        /\ \A i \in DOMAIN q : r[i] = q[i]
        /\ r[Len(q) + 1] = h
    BY AppendProperties, LenProperties
  <1> HIDE DEF r
  <1>2. \A i \in DOMAIN r : i \in DOMAIN q \/ i = Len(q) + 1
    BY <1>1
  <1>3. IsIn(r, t) <=> IsIn(q, t) \/ Carries(h, t)
    BY <1>1, <1>2 DEF IsIn
  <1>4. OnceIn(q, t) /\ ~ (IsIn(q, t) /\ Carries(h, t)) => OnceIn(r, t)
    BY <1>1, <1>2 DEF IsIn, OnceIn
  <1> QED
    BY <1>1, <1>3, <1>4 DEF r

LEMMA TailHandler ==
    ASSUME NEW q \in Seq(Handler), q # <<>>, NEW t
    PROVE  /\ Tail(q) \in Seq(Handler) /\ Head(q) \in Handler
           /\ Carries(Head(q), t) => IsIn(q, t)
           /\ OnceIn(q, t) => /\ OnceIn(Tail(q), t)
                              /\ IsIn(Tail(q), t) <=> IsIn(q, t) /\ ~ Carries(Head(q), t)
  <1> DEFINE r == Tail(q)
  <1>1. /\ r \in Seq(Handler) /\ Len(q) \in Nat \ {0} /\ DOMAIN q = 1 .. Len(q)
        /\ DOMAIN r = 1 .. Len(q) - 1
        /\ \A i \in DOMAIN r : r[i] = q[i + 1]
        /\ Head(q) = q[1] /\ Head(q) \in Handler
    BY HeadTailProperties, LenProperties, EmptySeq
  <1> HIDE DEF r
  <1>2. \A i \in DOMAIN r : i + 1 \in DOMAIN q /\ i + 1 # 1
    BY <1>1
  <1>3. \A i \in DOMAIN q : i # 1 => i - 1 \in DOMAIN r /\ r[i - 1] = q[i]
    BY <1>1
  <1>4. 1 \in DOMAIN q
    BY <1>1
  <1>5. ASSUME OnceIn(q, t)
        PROVE  OnceIn(r, t)
    <2> SUFFICES ASSUME NEW i \in DOMAIN r, NEW j \in DOMAIN r, Carries(r[i], t), Carries(r[j], t)
                 PROVE  i = j
      BY DEF OnceIn
    <2>1. i + 1 = j + 1
      BY <1>1, <1>2, <1>5 DEF OnceIn
    <2> QED
      BY <1>1, <2>1
  <1>6. IsIn(r, t) => IsIn(q, t)
    BY <1>1, <1>2 DEF IsIn
  <1>7. OnceIn(q, t) => (IsIn(r, t) => ~ Carries(Head(q), t))
    BY <1>1, <1>2, <1>4 DEF IsIn, OnceIn
  <1>8. IsIn(q, t) /\ ~ Carries(Head(q), t) => IsIn(r, t)
    BY <1>1, <1>3 DEF IsIn
  <1>9. Carries(Head(q), t) => IsIn(q, t)
    BY <1>1, <1>4 DEF IsIn
  <1> QED
    BY <1>1, <1>5, <1>6, <1>7, <1>8, <1>9 DEF r

LEMMA AbortedHandler ==
    ASSUME NEW q \in Seq(Handler), NEW T \in SUBSET Event, NEW t, \A u, v \in T : u = v
    PROVE  /\ q \o Aborted(T) \in Seq(Handler)
           /\ IsIn(q \o Aborted(T), t) <=> IsIn(q, t) \/ t \in T
           /\ OnceIn(q, t) /\ ~ (IsIn(q, t) /\ t \in T) => OnceIn(q \o Aborted(T), t)
  <1>1. CASE T = {}
    BY <1>1, ConcatEmptySeq DEF Aborted
  <1>2. CASE T # {}
    <2> DEFINE u == CHOOSE v \in T : TRUE
               h == [op |-> "aborted", task |-> u]
    <2>1. u \in T
      BY <1>2
    <2> HIDE DEF u
    <2>2. h \in Handler /\ (Carries(h, t) <=> t = u)
      BY <2>1 DEF Handler, Carries
    <2>3. T = {u}
      BY <2>1
    <2>4. Aborted(T) = <<h>>
      BY <1>2 DEF Aborted, u
    <2> HIDE DEF h
    <2>5. q \o Aborted(T) = Append(q, h)
      BY <2>2, <2>4, AppendIsConcat
    <2> QED
      BY <2>2, <2>3, <2>5, AppendHandler
  <1> QED
    BY <1>1, <1>2

LEMMA HandedOver ==
    ASSUME NEW S, NEW d \in Seq(S), NEW u \in S, NEW t
    PROVE  /\ Append(d, u) \in Seq(S)
           /\ InSeq(t, Append(d, u)) <=> InSeq(t, d) \/ t = u
           /\ OnceDispatched(d, t) /\ ~ (InSeq(t, d) /\ t = u)
              => OnceDispatched(Append(d, u), t)
  <1> DEFINE r == Append(d, u)
  <1>1. /\ r \in Seq(S) /\ DOMAIN d = 1 .. Len(d) /\ DOMAIN r = 1 .. Len(d) + 1
        /\ Len(d) \in Nat
        /\ \A i \in DOMAIN d : r[i] = d[i]
        /\ r[Len(d) + 1] = u
    BY AppendProperties, LenProperties
  <1> HIDE DEF r
  <1>2. \A i \in DOMAIN r : i \in DOMAIN d \/ i = Len(d) + 1
    BY <1>1
  <1>3. InSeq(t, r) <=> InSeq(t, d) \/ t = u
    BY <1>1, <1>2 DEF InSeq
  <1>4. OnceDispatched(d, t) /\ ~ (InSeq(t, d) /\ t = u)
        => OnceDispatched(r, t)
    BY <1>1, <1>2 DEF InSeq, OnceDispatched
  <1> QED
    BY <1>1, <1>3, <1>4 DEF r

-----------------------------------------------------------------------------
(***************************************************************************)
(* The inductive invariant.  Owners counts the places of a task; these     *)
(* say the same without counting: each place has a task at most once, two  *)
(* places never have the same one, a task that was not added is nowhere    *)
(* and one that was is somewhere, unless the thread was stopped.  The last *)
(* two keep the waits apart: without them the CHOOSE of Aborted would drop *)
(* all waits of a timer but one.                                           *)
(***************************************************************************)
Queued(t) == IsIn(queue, t)
Dispatched(t) == InSeq(t, dispatched)

OnceEach ==
    \A t \in Event :
        /\ OnceIn(queue, t)
        /\ OnceDispatched(dispatched, t)
Apart ==
    \A t \in Event :
        /\ Queued(t) => ~ Dispatched(t) /\ t \notin armed /\ t # inHand /\ t \notin deleted
        /\ Dispatched(t) => t \notin armed /\ t # inHand /\ t \notin deleted
        /\ t \in armed => t # inHand /\ t \notin deleted
        /\ t = inHand => t \notin deleted
Nowhere == \A t \in Event : t > added => ~ Queued(t)
Somewhere ==
    \A t \in 1 .. added :
        Queued(t) \/ Dispatched(t) \/ t \in armed \/ t = inHand \/ t \in deleted \/ ioStopped
OneWaitPerId == \A t, u \in armed : EventId(t) = EventId(u) => t = u
WaitsAreInMap == \A t \in armed : EventId(t) \in eventIdTimerMap

SchedulerInv ==
    TypeOK /\ OnceEach /\ Apart /\ Nowhere /\ Somewhere /\ OneWaitPerId /\ WaitsAreInMap

(***************************************************************************)
(* Every variable keeps its type: handlers are for events that were or     *)
(* will be added, ids are of the modulus.                                  *)
(***************************************************************************)
LEMMA IdType == \A t \in Event : EventId(t) \in 0 .. IdModulus - 1
  BY SchedulerAssumption DEF Event, EventId

LEMMA WaitsType == ASSUME TypeOK PROVE armed \subseteq Event /\ \A id : WaitsOf(id) \in SUBSET Event
  <1>1. armed \subseteq Event
    BY SchedulerAssumption DEF TypeOK, Event
  <1> QED
    BY <1>1 DEF WaitsOf

LEMMA AbortedType ==
    ASSUME NEW q \in Seq(Handler), NEW T \in SUBSET Event
    PROVE  q \o Aborted(T) \in Seq(Handler)
  <1>1. CASE T = {}
    BY <1>1, ConcatEmptySeq DEF Aborted
  <1>2. CASE T # {}
    <2>1. [op |-> "aborted", task |-> CHOOSE v \in T : TRUE] \in Handler
      BY <1>2 DEF Handler
    <2> QED
      BY <1>2, <2>1 DEF Aborted
  <1> QED
    BY <1>1, <1>2

LEMMA HeadType ==
    ASSUME TypeOK, queue # <<>>
    PROVE  /\ Tail(queue) \in Seq(Handler) /\ Head(queue) \in Handler
           /\ Head(queue).op \in {"add", "expired", "aborted"} => Head(queue).task \in Event
  <1>1. Tail(queue) \in Seq(Handler) /\ Head(queue) \in Handler
    BY TailHandler DEF TypeOK
  <1> QED
    BY <1>1 DEF Handler

(***************************************************************************)
(* The head of the queue is done, and the waits of one timer are aborted.  *)
(***************************************************************************)
LEMMA Cancelling ==
    ASSUME SchedulerInv, queue # <<>>, NEW id, NEW t \in Event
    PROVE  LET q == Tail(queue) \o Aborted(WaitsOf(id))
           IN  /\ q \in Seq(Handler)
               /\ IsIn(q, t) <=> (Queued(t) /\ ~ Carries(Head(queue), t)) \/ t \in WaitsOf(id)
               /\ OnceIn(q, t)
  <1> DEFINE T == WaitsOf(id)
  <1>1. T \in SUBSET Event /\ \A u, v \in T : u = v
    BY WaitsType DEF SchedulerInv, OneWaitPerId, WaitsOf
  <1>2. /\ Tail(queue) \in Seq(Handler) /\ OnceIn(Tail(queue), t)
        /\ IsIn(Tail(queue), t) <=> Queued(t) /\ ~ Carries(Head(queue), t)
    BY TailHandler DEF SchedulerInv, TypeOK, OnceEach, Queued
  <1>3. t \in T => ~ Queued(t)
    BY DEF SchedulerInv, Apart, WaitsOf
  <1> HIDE DEF T
  <1> QED
    BY <1>1, <1>2, <1>3, AbortedHandler DEF T

LEMMA AddEventInv == SchedulerInv /\ AddEvent => SchedulerInv'
  <1> SUFFICES ASSUME SchedulerInv, AddEvent
               PROVE  SchedulerInv'
    OBVIOUS
  <1> DEFINE h == [op |-> "add", task |-> added + 1]
  <1>1. /\ added \in 0 .. MaxEvents /\ added' = added + 1 /\ added' \in 0 .. MaxEvents
        /\ added' \in Event
    BY SchedulerAssumption DEF SchedulerInv, TypeOK, AddEvent, Event
  <1>2. h \in Handler /\ \A t : Carries(h, t) <=> t = added'
    BY <1>1 DEF Handler, Carries
  <1>3. queue' = Append(queue, h) /\ queue \in Seq(Handler)
    BY DEF AddEvent, Post, SchedulerInv, TypeOK
  <1>4. ~ Queued(added')
    BY <1>1 DEF SchedulerInv, Nowhere
  <1> HIDE DEF h
  <1>5. \A t \in Event : (Queued(t)' <=> Queued(t) \/ t = added') /\ OnceIn(queue', t)
    BY <1>2, <1>3, <1>4, AppendHandler DEF SchedulerInv, OnceEach, Queued
  <1>6. TypeOK'
    <2>1. dispatched' \in Seq(1 .. added')
      <3>1. dispatched \in Seq(1 .. added) /\ 1 .. added \subseteq 1 .. added'
        BY <1>1 DEF SchedulerInv, TypeOK
      <3> QED
        BY <3>1, SeqMonotonic DEF AddEvent
    <2>2. queue' \in Seq(Handler)
      BY <1>2, <1>3, AppendHandler
    <2> QED
      BY <1>1, <2>1, <2>2 DEF SchedulerInv, TypeOK, AddEvent
  <1>7. ~ Dispatched(added') /\ added' \notin armed /\ added' # inHand /\ added' \notin deleted
    <2>1. dispatched \in Seq(1 .. added) /\ added' \notin 1 .. added
      BY <1>1 DEF SchedulerInv, TypeOK
    <2>2. ~ InSeq(added', dispatched)
      BY <2>1, ElementOfSeq, LenProperties DEF InSeq
    <2> QED
      BY <1>1, <2>1, <2>2 DEF SchedulerInv, TypeOK, Dispatched
  <1>8. OnceEach' /\ Apart'
    BY <1>5, <1>7 DEF SchedulerInv, OnceEach, Apart, Dispatched, AddEvent
  <1>9. Nowhere' /\ Somewhere'
    BY <1>1, <1>5, SchedulerAssumption DEF SchedulerInv, Nowhere, Somewhere, Dispatched, AddEvent, Event
  <1> QED
    BY <1>6, <1>8, <1>9 DEF SchedulerInv, OneWaitPerId, WaitsAreInMap, AddEvent

(***************************************************************************)
(* A handler that is no task, and an expiry.                               *)
(***************************************************************************)
LEMMA PostInv ==
    ASSUME SchedulerInv, NEW h \in Handler, Post(h), \A t \in Event : ~ Carries(h, t),
           UNCHANGED <<added, eventIdTimerMap, armed, inHand, ioStopped, dispatched, deleted>>,
           state' \in {"RUNNING", "TERMINATED"}, stopped' \subseteq 1 .. IdModulus - 1
    PROVE  SchedulerInv'
  <1>1. queue' = Append(queue, h) /\ queue \in Seq(Handler)
    BY DEF Post, SchedulerInv, TypeOK
  <1>2. \A t \in Event : (Queued(t)' <=> Queued(t)) /\ OnceIn(queue', t)
    BY <1>1, AppendHandler DEF SchedulerInv, OnceEach, Queued
  <1>3. TypeOK'
    BY <1>1, AppendHandler DEF SchedulerInv, TypeOK
  <1>4. OnceEach' /\ Apart' /\ Nowhere'
    BY <1>2 DEF SchedulerInv, OnceEach, Apart, Nowhere, Dispatched
  <1>5. 1 .. added \subseteq Event
    BY SchedulerAssumption DEF SchedulerInv, TypeOK, Event
  <1>6. Somewhere'
    BY <1>2, <1>5 DEF SchedulerInv, Somewhere, Dispatched
  <1> QED
    BY <1>3, <1>4, <1>6 DEF SchedulerInv, OneWaitPerId, WaitsAreInMap

LEMMA StopEventInv == ASSUME SchedulerInv, NEW t \in 1 .. added, StopEvent(EventId(t)) PROVE SchedulerInv'
  <1> DEFINE h == [op |-> "stop", id |-> EventId(t)]
  <1>1. t \in Event
    BY SchedulerAssumption DEF SchedulerInv, TypeOK, Event
  <1>2. EventId(t) \in 1 .. IdModulus - 1
    BY <1>1, IdType, SchedulerAssumption DEF StopEvent
  <1>3. h \in Handler /\ \A u \in Event : ~ Carries(h, u)
    BY <1>2, SchedulerAssumption DEF Handler, Carries
  <1>4. stopped' \subseteq 1 .. IdModulus - 1
    BY <1>2 DEF SchedulerInv, TypeOK, StopEvent
  <1>5. Post(h) /\ state' \in {"RUNNING", "TERMINATED"}
    BY DEF StopEvent, SchedulerInv, TypeOK
  <1> HIDE DEF h
  <1> QED
    BY <1>3, <1>4, <1>5, PostInv DEF StopEvent

LEMMA ShutdownInv == SchedulerInv /\ Shutdown => SchedulerInv'
  <1> SUFFICES ASSUME SchedulerInv, Shutdown
               PROVE  SchedulerInv'
    OBVIOUS
  <1> DEFINE h == [op |-> "shutdown"]
  <1>1. h \in Handler /\ \A u \in Event : ~ Carries(h, u)
    BY DEF Handler, Carries
  <1>2. Post(h) /\ state' \in {"RUNNING", "TERMINATED"} /\ stopped' \subseteq 1 .. IdModulus - 1
    BY DEF Shutdown, SchedulerInv, TypeOK
  <1> HIDE DEF h
  <1> QED
    BY <1>1, <1>2, PostInv DEF Shutdown

LEMMA ExpireInv == ASSUME SchedulerInv, NEW t \in Event, Expire(t) PROVE SchedulerInv'
  <1> DEFINE h == [op |-> "expired", task |-> t]
  <1>1. h \in Handler /\ \A u : Carries(h, u) <=> u = t
    BY DEF Handler, Carries
  <1>2. queue' = Append(queue, h) /\ queue \in Seq(Handler) /\ armed' = armed \ {t} /\ t \in armed
    BY DEF Expire, Post, SchedulerInv, TypeOK
  <1> HIDE DEF h
  <1>3. ~ Queued(t)
    BY <1>2 DEF SchedulerInv, Apart
  <1>4. \A u \in Event : (Queued(u)' <=> Queued(u) \/ u = t) /\ OnceIn(queue', u)
    BY <1>1, <1>2, <1>3, AppendHandler DEF SchedulerInv, OnceEach, Queued
  <1>5. TypeOK'
    BY <1>1, <1>2, AppendHandler DEF SchedulerInv, TypeOK, Expire
  <1>6. t \in 1 .. added /\ 1 .. added \subseteq Event
    BY <1>2, SchedulerAssumption DEF SchedulerInv, TypeOK, Event
  <1>7. OnceEach' /\ Apart'
    BY <1>2, <1>4 DEF SchedulerInv, OnceEach, Apart, Dispatched, Expire
  <1>8. Nowhere'
    <2>1. ~ (t > added)
      BY <1>6 DEF SchedulerInv, TypeOK
    <2> QED
      BY <1>4, <2>1 DEF SchedulerInv, Nowhere, Expire
  <1>9. Somewhere'
    BY <1>2, <1>4, <1>6 DEF SchedulerInv, Somewhere, Dispatched, Expire
  <1> QED
    BY <1>2, <1>5, <1>7, <1>8, <1>9 DEF SchedulerInv, OneWaitPerId, WaitsAreInMap, Expire

-----------------------------------------------------------------------------
(***************************************************************************)
(* The scheduler thread.                                                   *)
(***************************************************************************)
LEMMA RunAddInv == SchedulerInv /\ RunAdd => SchedulerInv'
  <1> SUFFICES ASSUME SchedulerInv, RunAdd
               PROVE  SchedulerInv'
    OBVIOUS
  <1> DEFINE t == Head(queue).task
             T == WaitsOf(EventId(t))
  <1>1. /\ queue # <<>> /\ queue' = Tail(queue) \o Aborted(T)
        /\ armed' = (armed \ T) \cup {t} /\ eventIdTimerMap' = eventIdTimerMap \cup {EventId(t)}
        /\ Head(queue).op = "add"
    BY DEF RunAdd, Runs, Rearmed
  <1>2. t \in Event /\ \A u : Carries(Head(queue), u) <=> u = t
    BY <1>1, HeadType DEF SchedulerInv, Carries
  <1>3. Queued(t)
    BY <1>1, <1>2, TailHandler DEF SchedulerInv, TypeOK, Queued
  <1>4. t \in 1 .. added
    BY <1>2, <1>3 DEF SchedulerInv, Nowhere, TypeOK, Event
  <1>5. T \subseteq armed /\ T \in SUBSET Event
    BY WaitsType DEF SchedulerInv, WaitsOf
  <1>6. \A u \in Event : (Queued(u)' <=> (Queued(u) /\ u # t) \/ u \in T) /\ OnceIn(queue', u)
    BY <1>1, <1>2, Cancelling DEF Queued
  <1>7. TypeOK'
    <2>1. queue' \in Seq(Handler)
      BY <1>1, <1>2, Cancelling
    <2>2. eventIdTimerMap' \subseteq 0 .. IdModulus - 1
      BY <1>1, <1>2, IdType DEF SchedulerInv, TypeOK
    <2>3. armed' \subseteq 1 .. added
      BY <1>1, <1>4 DEF SchedulerInv, TypeOK
    <2> QED
      BY <2>1, <2>2, <2>3 DEF SchedulerInv, TypeOK, RunAdd
  <1>8. \A u, v \in armed : EventId(u) = EventId(t) => u \in T
    BY DEF WaitsOf
  <1>9. OneWaitPerId' /\ WaitsAreInMap'
    BY <1>1, <1>8 DEF SchedulerInv, OneWaitPerId, WaitsAreInMap
  <1> HIDE DEF T, t
  <1>10. OnceEach' /\ Apart'
    BY <1>1, <1>3, <1>2, <1>5, <1>6 DEF SchedulerInv, OnceEach, Apart, Dispatched, RunAdd
  <1>11. 1 .. added \subseteq Event /\ \A u \in Event : u > added => u \notin T
    BY <1>5, SchedulerAssumption DEF SchedulerInv, TypeOK, Event
  <1>12. Nowhere' /\ Somewhere'
    BY <1>1, <1>6, <1>11 DEF SchedulerInv, Nowhere, Somewhere, Dispatched, RunAdd
  <1> QED
    BY <1>7, <1>9, <1>10, <1>12 DEF SchedulerInv

LEMMA RunStopInv == SchedulerInv /\ RunStop => SchedulerInv'
  <1> SUFFICES ASSUME SchedulerInv, RunStop
               PROVE  SchedulerInv'
    OBVIOUS
  <1> DEFINE T == IF TimerToStop \in eventIdTimerMap THEN WaitsOf(TimerToStop) ELSE {}
  <1>1. queue # <<>> /\ Head(queue).op = "stop" /\ \A u : ~ Carries(Head(queue), u)
    BY DEF RunStop, Runs, Carries
  <1>2. /\ armed' = armed \ T /\ T \subseteq armed /\ queue' \in Seq(Handler)
        /\ \A u \in Event : (Queued(u)' <=> Queued(u) \/ u \in T) /\ OnceIn(queue', u)
    <2>1. CASE TimerToStop \in eventIdTimerMap
      <3>1. queue' = Tail(queue) \o Aborted(T) /\ armed' = armed \ T /\ T = WaitsOf(TimerToStop)
        BY <2>1 DEF RunStop, CancelTimer
      <3>2. Tail(queue) \in Seq(Handler) /\ T \in SUBSET Event
        BY <1>1, <3>1, HeadType, WaitsType DEF SchedulerInv
      <3>3. queue' \in Seq(Handler)
        BY <3>1, <3>2, AbortedType
      <3>4. \A u \in Event : (Queued(u)' <=> Queued(u) \/ u \in T) /\ OnceIn(queue', u)
        BY <1>1, <3>1, Cancelling DEF Queued
      <3> QED
        BY <3>1, <3>3, <3>4 DEF WaitsOf
    <2>2. CASE TimerToStop \notin eventIdTimerMap
      <3>1. queue' = Tail(queue) /\ armed' = armed /\ T = {}
        BY <2>2 DEF RunStop
      <3> QED
        BY <1>1, <3>1, TailHandler DEF SchedulerInv, TypeOK, OnceEach, Queued
    <2> QED
      BY <2>1, <2>2
  <1> HIDE DEF T
  <1>3. 1 .. added \subseteq Event /\ T \subseteq 1 .. added /\ \A u \in 1 .. added : ~ (u > added)
    BY <1>2, SchedulerAssumption DEF SchedulerInv, TypeOK, Event
  <1>4. TypeOK'
    BY <1>2 DEF SchedulerInv, TypeOK, RunStop
  <1>5. OnceEach' /\ Apart'
    BY <1>2 DEF SchedulerInv, OnceEach, Apart, Dispatched, RunStop
  <1>6. Nowhere' /\ Somewhere'
    BY <1>2, <1>3 DEF SchedulerInv, Nowhere, Somewhere, Dispatched, RunStop
  <1> QED
    BY <1>2, <1>4, <1>5, <1>6 DEF SchedulerInv, OneWaitPerId, WaitsAreInMap, RunStop

LEMMA RunShutdownInv == SchedulerInv /\ RunShutdown => SchedulerInv'
  <1> SUFFICES ASSUME SchedulerInv, RunShutdown
               PROVE  SchedulerInv'
    OBVIOUS
  <1>1. queue # <<>> /\ \A u : ~ Carries(Head(queue), u)
    BY DEF RunShutdown, Runs, Carries
  <1>2. queue' = Tail(queue) /\ armed' = {} /\ ioStopped' = TRUE
    BY DEF RunShutdown, StopsNow
  <1>3. queue' \in Seq(Handler) /\ \A u \in Event : (Queued(u)' <=> Queued(u)) /\ OnceIn(queue', u)
    BY <1>1, <1>2, TailHandler, HeadType DEF SchedulerInv, TypeOK, OnceEach, Queued
  <1>4. TypeOK'
    BY <1>2, <1>3 DEF SchedulerInv, TypeOK, RunShutdown
  <1>5. OnceEach' /\ Apart' /\ Nowhere' /\ Somewhere'
    BY <1>2, <1>3 DEF SchedulerInv, OnceEach, Apart, Nowhere, Somewhere, Dispatched, RunShutdown
  <1> QED
    BY <1>2, <1>4, <1>5 DEF SchedulerInv, OneWaitPerId, WaitsAreInMap

(***************************************************************************)
(* A completion takes its task out of the queue and aborts whoever waits   *)
(* on the timer it erases.  RunDelete and RunExpired differ in where the   *)
(* task goes.                                                              *)
(***************************************************************************)
Completed(t) ==
    /\ t \in 1 .. added /\ Queued(t) /\ inHand = 0
    /\ queue' \in Seq(Handler) /\ armed' \subseteq armed
    /\ eventIdTimerMap' \subseteq eventIdTimerMap
    /\ \A u \in Event :
          /\ Queued(u)' <=> (Queued(u) /\ u # t) \/ (u \in armed /\ u \notin armed')
          /\ OnceIn(queue', u)
    /\ OneWaitPerId' /\ WaitsAreInMap'

LEMMA Completing ==
    ASSUME SchedulerInv, Runs("expired") \/ Runs("aborted"), EraseTimer
    PROVE  Completed(Head(queue).task)
  <1> DEFINE t == Head(queue).task
             T == WaitsOf(EventId(t))
  <1>1. /\ queue # <<>> /\ Head(queue).op \in {"add", "expired", "aborted"} /\ inHand = 0
        /\ queue' = Tail(queue) \o Aborted(T) /\ armed' = armed \ T
        /\ eventIdTimerMap' = eventIdTimerMap \ {EventId(t)}
    BY DEF EraseTimer, CancelTimer, Runs
  <1>2. t \in Event /\ \A u : Carries(Head(queue), u) <=> u = t
    BY <1>1, HeadType DEF SchedulerInv, Carries
  <1>3. Queued(t)
    BY <1>1, <1>2, TailHandler DEF SchedulerInv, TypeOK, Queued
  <1>4. t \in 1 .. added
    BY <1>2, <1>3 DEF SchedulerInv, Nowhere, TypeOK, Event
  <1>5. queue' \in Seq(Handler)
    BY <1>1, <1>2, Cancelling
  <1>6. T \subseteq armed
    BY DEF WaitsOf
  <1>7. \A u \in Event : (Queued(u)' <=> (Queued(u) /\ u # t) \/ u \in T) /\ OnceIn(queue', u)
    BY <1>1, <1>2, Cancelling DEF Queued
  <1>8. OneWaitPerId' /\ WaitsAreInMap'
    BY <1>1 DEF SchedulerInv, OneWaitPerId, WaitsAreInMap, WaitsOf
  <1> HIDE DEF T, t
  <1>9. \A u \in Event : (Queued(u)' <=> (Queued(u) /\ u # t) \/ (u \in armed /\ u \notin armed'))
    BY <1>1, <1>6, <1>7
  <1>10. Completed(t)
    BY <1>1, <1>3, <1>4, <1>5, <1>7, <1>8, <1>9 DEF Completed
  <1> QED
    BY <1>10 DEF t

LEMMA RunDeleteInv == SchedulerInv /\ RunDelete => SchedulerInv'
  <1> SUFFICES ASSUME SchedulerInv, RunDelete
               PROVE  SchedulerInv'
    OBVIOUS
  <1> DEFINE t == Head(queue).task
  <1>1. Completed(t)
    BY Completing DEF RunDelete
  <1>2. deleted' = deleted \cup {t}
    BY DEF RunDelete, Discarded
  <1> HIDE DEF t
  <1>3. 1 .. added \subseteq Event /\ armed \subseteq 1 .. added /\ \A u \in 1 .. added : ~ (u > added)
    BY SchedulerAssumption DEF SchedulerInv, TypeOK, Event
  <1>4. TypeOK'
    BY <1>1, <1>2 DEF SchedulerInv, TypeOK, RunDelete, Completed
  <1>5. OnceEach' /\ Apart'
    BY <1>1, <1>2, <1>3 DEF SchedulerInv, OnceEach, Apart, Dispatched, RunDelete, Completed
  <1>6. Nowhere' /\ Somewhere'
    BY <1>1, <1>2, <1>3 DEF SchedulerInv, Nowhere, Somewhere, Dispatched, RunDelete, Completed
  <1> QED
    BY <1>1, <1>4, <1>5, <1>6 DEF SchedulerInv, Completed

LEMMA RunExpiredInv == SchedulerInv /\ RunExpired => SchedulerInv'
  <1> SUFFICES ASSUME SchedulerInv, RunExpired
               PROVE  SchedulerInv'
    OBVIOUS
  <1> DEFINE t == Head(queue).task
  <1>1. Completed(t)
    BY Completing DEF RunExpired
  <1>2. inHand' = t
    BY DEF RunExpired
  <1> HIDE DEF t
  <1>3. 1 .. added \subseteq Event /\ armed \subseteq 1 .. added /\ \A u \in 1 .. added : ~ (u > added) /\ u # 0
    BY SchedulerAssumption DEF SchedulerInv, TypeOK, Event
  <1>4. TypeOK'
    BY <1>1, <1>2 DEF SchedulerInv, TypeOK, RunExpired, Completed
  <1>5. OnceEach' /\ Apart'
    BY <1>1, <1>2, <1>3 DEF SchedulerInv, OnceEach, Apart, Dispatched, RunExpired, Completed
  <1>6. Nowhere' /\ Somewhere'
    BY <1>1, <1>2, <1>3 DEF SchedulerInv, Nowhere, Somewhere, Dispatched, RunExpired, Completed
  <1> QED
    BY <1>1, <1>4, <1>5, <1>6 DEF SchedulerInv, Completed

LEMMA HandOverInv == SchedulerInv /\ HandOver => SchedulerInv'
  <1> SUFFICES ASSUME SchedulerInv, HandOver
               PROVE  SchedulerInv'
    OBVIOUS
  <1>1. /\ inHand \in 1 .. added /\ inHand' = 0 /\ dispatched' = Append(dispatched, inHand)
        /\ dispatched \in Seq(1 .. added)
    BY DEF HandOver, SchedulerInv, TypeOK
  <1>2. 1 .. added \subseteq Event /\ 0 \notin Event
    BY SchedulerAssumption DEF SchedulerInv, TypeOK, Event
  <1>3. ~ Dispatched(inHand)
    BY <1>1, <1>2 DEF SchedulerInv, Apart
  <1>4. \A u \in Event :
           /\ Dispatched(u)' <=> Dispatched(u) \/ u = inHand
           /\ OnceDispatched(dispatched', u)
    <2> TAKE u \in Event
    <2> DEFINE d == Append(dispatched, inHand)
    <2>1. /\ InSeq(u, d) <=> InSeq(u, dispatched) \/ u = inHand
          /\ OnceDispatched(dispatched, u)
             /\ ~ (InSeq(u, dispatched) /\ u = inHand)
             => OnceDispatched(d, u)
      BY <1>1, HandedOver
    <2>2. dispatched' = d
      BY <1>1
    <2> HIDE DEF d
    <2> QED
      BY <1>3, <2>1, <2>2 DEF SchedulerInv, OnceEach, Dispatched
  <1>5. TypeOK'
    BY <1>1, HandedOver DEF SchedulerInv, TypeOK, HandOver
  <1>6. OnceEach' /\ Apart'
    BY <1>1, <1>2, <1>4 DEF SchedulerInv, OnceEach, Apart, Queued, HandOver
  <1>7. Nowhere' /\ Somewhere'
    BY <1>1, <1>2, <1>4 DEF SchedulerInv, Nowhere, Somewhere, Queued, HandOver
  <1> QED
    BY <1>5, <1>6, <1>7 DEF SchedulerInv, OneWaitPerId, WaitsAreInMap, HandOver

-----------------------------------------------------------------------------
LEMMA InitInv == Init => SchedulerInv
  <1> SUFFICES ASSUME Init
               PROVE  SchedulerInv
    OBVIOUS
  <1>1. TypeOK
    <2>1. queue \in Seq(Handler) /\ dispatched \in Seq(1 .. added)
      BY EmptySeq DEF Init
    <2>2. ioStopped \in BOOLEAN
      BY Zenon DEF Init
    <2> QED
      BY <2>1, <2>2, SchedulerAssumption DEF Init, TypeOK
  <1>2. \A t : /\ ~ Queued(t) /\ OnceIn(queue, t)
              /\ ~ Dispatched(t) /\ OnceDispatched(dispatched, t)
    BY DEF Init, Queued, Dispatched, IsIn, OnceIn, InSeq, OnceDispatched
  <1> QED
    BY <1>1, <1>2 DEF Init, SchedulerInv, OnceEach, Apart, Nowhere, Somewhere, OneWaitPerId,
       WaitsAreInMap, Event

LEMMA NextInv == SchedulerInv /\ [Next]_vars => SchedulerInv'
  <1>1. SchedulerInv /\ UNCHANGED vars => SchedulerInv'
    BY DEF vars, SchedulerInv, TypeOK, OnceEach, Apart, Nowhere, Somewhere, OneWaitPerId,
       WaitsAreInMap, Queued, Dispatched
  <1> QED
    BY <1>1, AddEventInv, StopEventInv, ShutdownInv, ExpireInv, RunAddInv, RunStopInv,
       RunShutdownInv, RunDeleteInv, RunExpiredInv, HandOverInv DEF Next, GameThread, ThreadMain

(***************************************************************************)
(* Whatever the game thread asks, whichever timers expire in the meantime  *)
(* and however ids are used again, every variable keeps its type.          *)
(***************************************************************************)
THEOREM TypeCorrect == Spec => []TypeOK
  <1>1. SchedulerInv => TypeOK
    BY DEF SchedulerInv
  <1> QED
    BY <1>1, InitInv, NextInv, PTL DEF Spec

(***************************************************************************)
(* The places of a task, counted: each counts as one or none, and they     *)
(* exclude each other.                                                     *)
(***************************************************************************)
LEMMA CountsAsOne ==
    ASSUME NEW S, NEW P, P <=> S # {}, \A x, y \in S : x = y
    PROVE  Cardinality(S) = IF P THEN 1 ELSE 0
  <1>1. CASE P
    <2> PICK x : x \in S
      BY <1>1
    <2>1. S = {x}
      OBVIOUS
    <2> QED
      BY <1>1, <2>1, FS_Singleton
  <1>2. CASE ~ P
    BY <1>2, FS_EmptySet
  <1> QED
    BY <1>1, <1>2

(***************************************************************************)
(* Each task that was added has one owner, or none once the thread was     *)
(* stopped: none is leaked while it runs, none deleted twice and none run  *)
(* after it was deleted, through expiry, cancellation, reuse of ids and    *)
(* shutdown.  And the task a stop means is the one its timer waits for.    *)
(***************************************************************************)
THEOREM OneOwnerCorrect == Spec => []OneOwner
  <1>1. SchedulerInv => OneOwner
    <2> SUFFICES ASSUME SchedulerInv
                 PROVE  OneOwner
      OBVIOUS
    <2>1. ASSUME NEW t \in 1 .. added
          PROVE  Owners(t) = 1 \/ (ioStopped /\ Owners(t) = 0)
      <3> DEFINE Q == {i \in DOMAIN queue : queue[i].op \in {"add", "expired", "aborted"}
                                            /\ queue[i].task = t}
                 D == {i \in DOMAIN dispatched : dispatched[i] = t}
                 H == {x \in {"armed", "hand", "deleted"} :
                         CASE x = "armed" -> t \in armed
                           [] x = "hand" -> t = inHand
                           [] x = "deleted" -> t \in deleted}
                 Held == t \in armed \/ t = inHand \/ t \in deleted
      <3>1. t \in Event
        BY SchedulerAssumption DEF SchedulerInv, TypeOK, Event
      <3>2. Cardinality(Q) = IF Queued(t) THEN 1 ELSE 0
        <4>1. Queued(t) <=> Q # {}
          BY DEF Queued, IsIn, Carries
        <4>2. \A i, j \in Q : i = j
          BY <3>1 DEF SchedulerInv, OnceEach, OnceIn, Carries
        <4> QED
          BY <4>1, <4>2, CountsAsOne
      <3>3. Cardinality(D) = IF Dispatched(t) THEN 1 ELSE 0
        <4>1. Dispatched(t) <=> D # {}
          BY DEF Dispatched, InSeq
        <4>2. \A i, j \in D : i = j
          BY <3>1 DEF SchedulerInv, OnceEach, OnceDispatched
        <4> QED
          BY <4>1, <4>2, CountsAsOne
      <3>4. Cardinality(H) = IF Held THEN 1 ELSE 0
        <4>1. "armed" \in H <=> t \in armed
          OBVIOUS
        <4>2. "hand" \in H <=> t = inHand
          OBVIOUS
        <4>3. "deleted" \in H <=> t \in deleted
          OBVIOUS
        <4>4. H \subseteq {"armed", "hand", "deleted"}
          OBVIOUS
        <4> HIDE DEF H
        <4>5. Held <=> H # {}
          BY <4>1, <4>2, <4>3, <4>4
        <4>6. \A x, y \in H : x = y
          BY <3>1, <4>1, <4>2, <4>3, <4>4 DEF SchedulerInv, Apart
        <4> HIDE DEF Held
        <4> QED
          BY <4>5, <4>6, CountsAsOne
      <3>5. Owners(t) = Cardinality(Q) + Cardinality(D) + Cardinality(H)
        BY DEF Owners
      <3> HIDE DEF Q, D, H
      <3> QED
        BY <3>1, <3>2, <3>3, <3>4, <3>5 DEF SchedulerInv, Apart, Somewhere
    <2> QED
      BY <2>1 DEF SchedulerInv, OneWaitPerId, WaitsAreInMap, OneOwner
  <1> QED
    BY <1>1, InitInv, NextInv, PTL DEF Spec

-----------------------------------------------------------------------------
(***************************************************************************)
(* A walk on top of the scheduler: what a task of the game thread asks.    *)
(* It has left the event e alone and asked nothing; or has stopped it; or  *)
(* has added the next event.                                               *)
(***************************************************************************)
Calm(s, e) ==
    \E w \in Walk : /\ w.event = e
                    /\ s = [walk |-> w, added |-> added, posts |-> <<>>, stopped |-> stopped]
Halting(s, e) ==
    /\ e # 0
    /\ \E w \in Walk : /\ w.event = 0
                       /\ s = [walk |-> w, added |-> added, posts |-> <<[op |-> "stop", id |-> e]>>,
                               stopped |-> stopped \cup {e}]
Adding(s) ==
    \E w \in Walk : /\ w.event = EventId(added + 1)
                    /\ s = [walk |-> w, added |-> added + 1,
                            posts |-> <<[op |-> "add", task |-> added + 1]>>, stopped |-> stopped]

LEMMA WalkParts ==
    ASSUME NEW w \in Walk
    PROVE  /\ w.event \in 0 .. IdModulus - 1 /\ w.path \in 0 .. MaxPath
           /\ w.cancel \in BOOLEAN /\ w.speedy \in BOOLEAN /\ w.resting \in BOOLEAN
           /\ \A n \in 0 .. MaxPath : [w EXCEPT !.path = n] \in Walk /\ [w EXCEPT !.path = n].event = w.event
           /\ \A b \in BOOLEAN : /\ [w EXCEPT !.cancel = b] \in Walk /\ [w EXCEPT !.cancel = b].event = w.event
                                 /\ [w EXCEPT !.speedy = b] \in Walk /\ [w EXCEPT !.speedy = b].event = w.event
                                 /\ [w EXCEPT !.resting = b] \in Walk /\ [w EXCEPT !.resting = b].event = w.event
           /\ \A e \in 0 .. IdModulus - 1 : [w EXCEPT !.event = e] \in Walk /\ [w EXCEPT !.event = e].event = e
  BY DEF Walk

LEMMA ZeroIsId == 0 \in 0 .. IdModulus - 1
  BY SchedulerAssumption

\* Changes of the other fields.
LEMMA Touched ==
    ASSUME NEW s, NEW e
    PROVE  /\ \A n \in 0 .. MaxPath : /\ Calm(s, e) => Calm([s EXCEPT !.walk.path = n], e)
                                      /\ Halting(s, e) => Halting([s EXCEPT !.walk.path = n], e)
           /\ \A b \in BOOLEAN : /\ Calm(s, e) => Calm([s EXCEPT !.walk.cancel = b], e)
                                 /\ Calm(s, e) => Calm([s EXCEPT !.walk.speedy = b], e)
                                 /\ Calm(s, e) => Calm([s EXCEPT !.walk.resting = b], e)
                                 /\ Halting(s, e) => Halting([s EXCEPT !.walk.cancel = b], e)
  <1>1. ASSUME Calm(s, e)
        PROVE  /\ \A n \in 0 .. MaxPath : Calm([s EXCEPT !.walk.path = n], e)
               /\ \A b \in BOOLEAN : /\ Calm([s EXCEPT !.walk.cancel = b], e)
                                     /\ Calm([s EXCEPT !.walk.speedy = b], e)
                                     /\ Calm([s EXCEPT !.walk.resting = b], e)
    <2>1. PICK w \in Walk : /\ w.event = e
                            /\ s = [walk |-> w, added |-> added, posts |-> <<>>, stopped |-> stopped]
      BY <1>1 DEF Calm
    <2>2. ASSUME NEW v \in Walk, v.event = e PROVE Calm([s EXCEPT !.walk = v], e)
      BY <2>1, <2>2 DEF Calm
    <2>3. s.walk = w
      BY <2>1
    <2> QED
      BY <2>1, <2>2, <2>3, WalkParts
  <1>2. ASSUME Halting(s, e)
        PROVE  /\ \A n \in 0 .. MaxPath : Halting([s EXCEPT !.walk.path = n], e)
               /\ \A b \in BOOLEAN : Halting([s EXCEPT !.walk.cancel = b], e)
    <2>1. PICK w \in Walk : /\ w.event = 0
                            /\ s = [walk |-> w, added |-> added, posts |-> <<[op |-> "stop", id |-> e]>>,
                                    stopped |-> stopped \cup {e}]
      BY <1>2 DEF Halting
    <2>2. ASSUME NEW v \in Walk, v.event = 0 PROVE Halting([s EXCEPT !.walk = v], e)
      <3>1. PICK q : q = <<[op |-> "stop", id |-> e]>>
        OBVIOUS
      <3>2. PICK z : z = stopped \cup {e}
        OBVIOUS
      <3>3. s = [walk |-> w, added |-> added, posts |-> q, stopped |-> z]
        BY <2>1, <3>1, <3>2
      <3>4. [s EXCEPT !.walk = v] = [walk |-> v, added |-> added, posts |-> q, stopped |-> z]
        BY <3>3
      <3> QED
        BY <1>2, <2>2, <3>1, <3>2, <3>4 DEF Halting
    <2>3. s.walk = w
      BY <2>1
    <2> QED
      BY <2>1, <2>2, <2>3, WalkParts
  <1> QED
    BY <1>1, <1>2

LEMMA StopEffect ==
    ASSUME NEW s, NEW e, Calm(s, e)
    PROVE  IF e = 0 THEN StopEventWalk(s) = s ELSE Halting(StopEventWalk(s), e)
  <1>1. PICK w \in Walk : /\ w.event = e
                          /\ s = [walk |-> w, added |-> added, posts |-> <<>>, stopped |-> stopped]
    BY DEF Calm
  <1>2. CASE e = 0
    BY <1>1, <1>2 DEF StopEventWalk
  <1>3. CASE e # 0
    <2>1. PICK v \in Walk : v = [w EXCEPT !.event = 0] /\ v.event = 0
      BY WalkParts, ZeroIsId
    <2>2. Append(<<>>, [op |-> "stop", id |-> e]) = <<[op |-> "stop", id |-> e]>>
      OBVIOUS
    <2>3. StopEventWalk(s) = [walk |-> v, added |-> added, posts |-> <<[op |-> "stop", id |-> e]>>,
                              stopped |-> stopped \cup {e}]
      BY <1>1, <1>3, <2>1, <2>2 DEF StopEventWalk
    <2> QED
      BY <1>3, <2>1, <2>3 DEF Halting
  <1> QED
    BY <1>2, <1>3

LEMMA ScheduleEffect ==
    ASSUME TypeOK, NEW s, NEW e, Calm(s, e)
    PROVE  Adding(Schedule(s))
  <1>1. PICK w \in Walk : /\ w.event = e
                          /\ s = [walk |-> w, added |-> added, posts |-> <<>>, stopped |-> stopped]
    BY DEF Calm
  <1>2. EventId(added + 1) \in 0 .. IdModulus - 1
    BY SchedulerAssumption DEF TypeOK, EventId
  <1>3. PICK v \in Walk : v = [w EXCEPT !.event = EventId(added + 1)] /\ v.event = EventId(added + 1)
    BY <1>2, WalkParts
  <1>4. PICK h : h = [op |-> "add", task |-> added + 1]
    OBVIOUS
  <1>5. Append(<<>>, h) = <<h>>
    OBVIOUS
  <1>6. s.added = added /\ s.posts = <<>> /\ s.walk = w
    BY <1>1
  <1>7. Schedule(s) = [s EXCEPT !.added = added + 1, !.posts = <<h>>, !.walk = v]
    BY <1>1, <1>3, <1>4, <1>5, <1>6 DEF Schedule
  <1>8. Schedule(s) = [walk |-> v, added |-> added + 1, posts |-> <<h>>, stopped |-> stopped]
    BY <1>1, <1>7
  <1> QED
    BY <1>3, <1>4, <1>8 DEF Adding

LEMMA AddEffect ==
    ASSUME TypeOK, NEW s, NEW e, Calm(s, e)
    PROVE  Calm(AddEventWalk(s), e) \/ (e = 0 /\ Adding(AddEventWalk(s)))
  <1>1. PICK c : c = [s EXCEPT !.walk.cancel = FALSE]
    OBVIOUS
  <1>2. Calm(c, e)
    BY <1>1, Touched
  <1>3. MayAdd(c) => e = 0
    BY <1>2 DEF MayAdd, Calm
  <1>4. AddEventWalk(s) = IF MayAdd(c) THEN Schedule(c) ELSE c
    BY <1>1 DEF AddEventWalk
  <1> QED
    BY <1>2, <1>3, <1>4, ScheduleEffect

Still(s, e) == Calm(s, e) \/ Halting(s, e)

LEMMA MovedEffect ==
    ASSUME NEW s, NEW e, Calm(s, e), NEW move \in {"ok", "teleport", "fail"}
    PROVE  Still(Moved(s, move), e)
  <1>1. PICK c : c = [s EXCEPT !.walk.resting = TRUE]
    OBVIOUS
  <1>2. Calm(c, e)
    BY <1>1, Touched
  <1>3. Still(StopEventWalk(c), e)
    BY <1>2, StopEffect DEF Still
  <1> QED
    BY <1>1, <1>2, <1>3 DEF Moved, Still

LEMMA OutcomeParts ==
    ASSUME NEW o \in Outcome
    PROVE  /\ o.move \in {"ok", "teleport", "fail"}
           /\ o.move = "fail" => o.fix \in 0 .. MaxPath /\ o.again \in {"ok", "teleport", "fail"}
  BY DEF Outcome

LEMMA TakeStepEffect ==
    ASSUME NEW s, NEW e, Calm(s, e), NEW o \in Outcome
    PROVE  Still(TakeStep(s, o), e)
  <1>1. MaxPath \in Nat
    BY WalkAssumption
  <1>2. \A u : Calm(u, e) => u.walk.path \in 0 .. MaxPath
    BY WalkParts DEF Calm
  <1>3. CASE s.walk.path = 0
    BY <1>3, StopEffect DEF TakeStep, Still
  <1>4. CASE s.walk.path # 0
    <2>1. PICK t : t = [s EXCEPT !.walk.path = s.walk.path - 1]
      OBVIOUS
    <2>2. s.walk.path - 1 \in 0 .. MaxPath
      BY <1>1, <1>2, <1>4
    <2>3. Calm(t, e)
      BY <2>1, <2>2, Touched
    <2>4. TakeStep(s, o) = IF o.move = "fail" THEN Repaired(t, o) ELSE Moved(t, o.move)
      BY <1>4, <2>1 DEF TakeStep
    <2>5. CASE o.move # "fail"
      BY <2>3, <2>4, <2>5, MovedEffect, OutcomeParts
    <2>6. CASE o.move = "fail"
      <3>1. o.fix \in 0 .. MaxPath /\ o.again \in {"ok", "teleport", "fail"}
        BY <2>6, OutcomeParts
      <3>2. CASE t.walk.path > 0 /\ o.fix > 0
        <4>1. o.fix - 1 \in 0 .. MaxPath
          BY <1>1, <3>1, <3>2
        <4>2. PICK u : u = [t EXCEPT !.walk.path = o.fix - 1]
          OBVIOUS
        <4>3. Calm(u, e)
          BY <2>3, <4>1, <4>2, Touched
        <4>4. Repaired(t, o) = Moved(u, o.again)
          BY <3>2, <4>2 DEF Repaired
        <4> QED
          BY <2>4, <2>6, <3>1, <4>3, <4>4, MovedEffect
      <3>3. CASE ~(t.walk.path > 0 /\ o.fix > 0)
        <4>1. PICK n : n = IF t.walk.path > 6 THEN t.walk.path - 6 ELSE 0
          OBVIOUS
        <4>2. n \in 0 .. MaxPath
          BY <1>1, <1>2, <2>3, <4>1
        <4>3. Repaired(t, o) = [t EXCEPT !.walk.path = n]
          BY <3>3, <4>1 DEF Repaired
        <4> QED
          BY <2>3, <2>4, <2>6, <4>2, <4>3, Touched DEF Still
      <3> QED
        BY <3>2, <3>3
    <2> QED
      BY <2>5, <2>6
  <1> QED
    BY <1>3, <1>4

LEMMA CancelledEffect ==
    ASSUME NEW s, NEW e, Still(s, e)
    PROVE  Still(Cancelled(s), e)
  <1>1. 0 \in 0 .. MaxPath
    BY WalkAssumption
  <1>2. PICK t : t = [s EXCEPT !.walk.path = 0]
    OBVIOUS
  <1>3. PICK u : u = [t EXCEPT !.walk.cancel = FALSE]
    OBVIOUS
  <1>4. Still(t, e)
    BY <1>1, <1>2, Touched DEF Still
  <1>5. Still(u, e)
    BY <1>3, <1>4, Touched DEF Still
  <1>6. u = [s EXCEPT !.walk.path = 0, !.walk.cancel = FALSE]
    BY <1>2, <1>3
  <1> QED
    BY <1>5, <1>6 DEF Cancelled

LEMMA OnWalkEffect ==
    ASSUME TypeOK, NEW s, NEW e, Calm(s, e), NEW o \in Outcome
    PROVE  LET r == OnWalk(s, o)
           IN Halting(r, e) \/ Calm(r, 0) \/ (e # 0 /\ Adding(r))
  <1>1. Still(IF s.walk.resting THEN s ELSE TakeStep(s, o), e)
    BY TakeStepEffect DEF Still
  <1>2. PICK t : t = Cancelled(IF s.walk.resting THEN s ELSE TakeStep(s, o))
    OBVIOUS
  <1>3. Still(t, e) /\ OnWalk(s, o) = Requeue(t)
    BY <1>1, <1>2, CancelledEffect DEF OnWalk
  <1>4. CASE Halting(t, e)
    <2>1. t.walk.event = 0
      BY <1>4 DEF Halting
    <2> QED
      BY <1>3, <1>4, <2>1 DEF Requeue
  <1>5. CASE Calm(t, e) /\ e = 0
    <2>1. t.walk.event = 0
      BY <1>5 DEF Calm
    <2> QED
      BY <1>3, <1>5, <2>1 DEF Requeue
  <1>6. CASE Calm(t, e) /\ e # 0
    <2>1. PICK w \in Walk : /\ w.event = e
                            /\ t = [walk |-> w, added |-> added, posts |-> <<>>, stopped |-> stopped]
      BY <1>6 DEF Calm
    <2>2. PICK v \in Walk : v = [w EXCEPT !.event = 0] /\ v.event = 0
      BY WalkParts, ZeroIsId
    <2>3. PICK u : u = [t EXCEPT !.walk.event = 0]
      OBVIOUS
    <2>4. u = [walk |-> v, added |-> added, posts |-> <<>>, stopped |-> stopped]
      BY <2>1, <2>2, <2>3
    <2>5. Calm(u, 0)
      BY <2>2, <2>4 DEF Calm
    <2>6. Requeue(t) = AddEventWalk(u)
      BY <1>6, <2>1, <2>3 DEF Requeue
    <2> QED
      BY <1>3, <1>6, <2>5, <2>6, AddEffect
  <1> QED
    BY <1>3, <1>4, <1>5, <1>6 DEF Still

LEMMA FirstEffect ==
    ASSUME TypeOK, NEW s, NEW e, Calm(s, e), NEW o \in Outcome
    PROVE  LET r == AddEventWalkFirst(s, o)
           IN Calm(r, e) \/ (e = 0 /\ Adding(r))
  <1>1. PICK c : c = [s EXCEPT !.walk.cancel = FALSE]
    OBVIOUS
  <1>2. Calm(c, e)
    BY <1>1, Touched
  <1>3. CASE ~MayAdd(c)
    BY <1>1, <1>2, <1>3 DEF AddEventWalkFirst
  <1>4. CASE MayAdd(c)
    <2>1. e = 0
      BY <1>2, <1>4 DEF MayAdd, Calm
    <2>2. Calm(OnWalk(c, o), 0)
      <3>1. Calm(c, 0) /\ ~Halting(OnWalk(c, o), 0)
        BY <1>2, <2>1 DEF Halting
      <3> QED
        BY <3>1, OnWalkEffect
    <2>3. PICK d : d = IF c.walk.resting THEN c ELSE OnWalk(c, o)
      OBVIOUS
    <2>4. Calm(d, 0)
      BY <1>2, <2>1, <2>2, <2>3
    <2>5. AddEventWalkFirst(s, o) = Schedule(d)
      BY <1>1, <1>4, <2>3 DEF AddEventWalkFirst
    <2> QED
      BY <2>1, <2>4, <2>5, ScheduleEffect
  <1> QED
    BY <1>3, <1>4

(***************************************************************************)
(* The inductive invariant of a walk.  The chains that are not the one of  *)
(* eventWalk are odd; each has a task that ran although it was stopped.    *)
(***************************************************************************)
Odd == Live \ {walk.event}
Done == {dispatched[i] : i \in 1 .. ran}

WalkInv ==
    /\ SchedulerInv
    /\ walk \in Walk /\ walk.event \in 0 .. added /\ walk.event \notin stopped
    /\ stopped \subseteq 1 .. added
    /\ ran \in 0 .. Len(dispatched)
    /\ stale \subseteq Done
    /\ Cardinality(Odd) <= Cardinality(stale)

LEMMA WalkIds == \A t \in Event : EventId(t) = t
  BY WalkAssumption, SchedulerAssumption DEF Event, EventId

(***************************************************************************)
(* What the scheduler sees of a task: nothing, the event that is due       *)
(* stopped, or one added.                                                  *)
(***************************************************************************)
Asked(e) ==
    /\ walk' \in Walk
    /\ \/ UNCHANGED vars /\ walk'.event = e
       \/ walk.event # 0 /\ walk'.event = 0 /\ StopEvent(walk.event)
       \/ e = 0 /\ AddEvent /\ walk'.event = added'

LEMMA WalkBase ==
    ASSUME WalkInv
    PROVE  /\ added \in Nat /\ added <= MaxEvents /\ queue \in Seq(Handler) /\ TypeOK
           /\ 1 .. added \subseteq Event /\ \A t \in 1 .. added : EventId(t) = t
           /\ walk.event # 0 => walk.event \in 1 .. added /\ EventId(walk.event) = walk.event
  <1>1. added \in 0 .. MaxEvents /\ queue \in Seq(Handler) /\ TypeOK
    BY DEF WalkInv, SchedulerInv, TypeOK
  <1>2. 1 .. added \subseteq Event
    BY <1>1, SchedulerAssumption DEF Event
  <1>3. \A t \in 1 .. added : EventId(t) = t
    BY <1>2, WalkIds
  <1>4. walk.event \in 0 .. added
    BY DEF WalkInv
  <1> QED
    BY <1>1, <1>2, <1>3, <1>4, SchedulerAssumption

LEMMA FinishCalm ==
    ASSUME WalkInv, NEW r, Finish(r), NEW e, Calm(r, e)
    PROVE  UNCHANGED vars /\ walk' \in Walk /\ walk'.event = e
  <1>1. PICK w \in Walk : /\ w.event = e
                          /\ r = [walk |-> w, added |-> added, posts |-> <<>>, stopped |-> stopped]
    BY DEF Calm
  <1>2. /\ walk' = w /\ added' = added /\ queue' = queue \o <<>> /\ stopped' = stopped
        /\ UNCHANGED <<state, eventIdTimerMap, armed, inHand, ioStopped, dispatched, deleted>>
    BY <1>1 DEF Finish
  <1>3. queue' = queue
    BY <1>2, WalkBase, ConcatEmptySeq
  <1> QED
    BY <1>1, <1>2, <1>3 DEF vars

LEMMA FinishHalting ==
    ASSUME WalkInv, NEW r, Finish(r), Halting(r, walk.event)
    PROVE  walk.event # 0 /\ StopEvent(walk.event) /\ walk' \in Walk /\ walk'.event = 0
  <1>1. walk.event # 0
    BY DEF Halting
  <1>2. PICK h : h = [op |-> "stop", id |-> walk.event]
    OBVIOUS
  <1>3. PICK w \in Walk : /\ w.event = 0
                          /\ r = [walk |-> w, added |-> added, posts |-> <<h>>,
                                  stopped |-> stopped \cup {walk.event}]
    BY <1>2 DEF Halting
  <1>4. /\ walk' = w /\ added' = added /\ queue' = queue \o <<h>> /\ stopped' = stopped \cup {walk.event}
        /\ UNCHANGED <<state, eventIdTimerMap, armed, inHand, ioStopped, dispatched, deleted>>
    BY <1>3 DEF Finish
  <1>5. h \in Handler
    BY <1>2, WalkParts DEF WalkInv, Handler
  <1>6. queue' = Append(queue, h)
    BY <1>4, <1>5, WalkBase, AppendIsConcat
  <1>7. walk.event \notin stopped
    BY DEF WalkInv
  <1> QED
    BY <1>1, <1>2, <1>3, <1>4, <1>6, <1>7 DEF StopEvent, Post

LEMMA FinishAdding ==
    ASSUME WalkInv, NEW r, Finish(r), Adding(r)
    PROVE  AddEvent /\ walk' \in Walk /\ walk'.event = added'
  <1>1. PICK h : h = [op |-> "add", task |-> added + 1]
    OBVIOUS
  <1>2. PICK w \in Walk : /\ w.event = EventId(added + 1)
                          /\ r = [walk |-> w, added |-> added + 1, posts |-> <<h>>, stopped |-> stopped]
    BY <1>1 DEF Adding
  <1>3. /\ walk' = w /\ added' = added + 1 /\ added + 1 <= MaxEvents /\ queue' = queue \o <<h>>
        /\ UNCHANGED <<state, eventIdTimerMap, armed, inHand, ioStopped, dispatched, deleted, stopped>>
    BY <1>2 DEF Finish
  <1>4. added \in Nat /\ added + 1 \in Event
    BY <1>3, WalkBase, SchedulerAssumption DEF Event
  <1>5. h \in Handler
    BY <1>1, <1>4 DEF Handler
  <1>6. queue' = Append(queue, h)
    BY <1>3, <1>5, WalkBase, AppendIsConcat
  <1>7. added < MaxEvents
    BY <1>3, <1>4, SchedulerAssumption
  <1>8. EventId(added + 1) = added + 1
    BY <1>4, WalkIds
  <1> QED
    BY <1>1, <1>2, <1>3, <1>6, <1>7, <1>8 DEF AddEvent, Post

LEMMA FinishStill ==
    ASSUME WalkInv, NEW r, Finish(r), Still(r, walk.event) \/ (walk.event = 0 /\ Adding(r))
    PROVE  Asked(walk.event)
  BY FinishCalm, FinishHalting, FinishAdding DEF Still, Asked

LEMMA StartedCalm == WalkInv => Calm(Started, walk.event)
  BY DEF WalkInv, Calm, Started

LEMMA CheckAsked ==
    ASSUME WalkInv, NEW o \in Outcome, CheckCreatureWalk(o)
    PROVE  Asked(0)
  <1>1. TypeOK /\ Calm(Started, walk.event)
    BY WalkBase, StartedCalm
  <1>2. PICK r : r = OnWalk(Started, o)
    OBVIOUS
  <1>3. Halting(r, walk.event) \/ Calm(r, 0) \/ (walk.event # 0 /\ Adding(r))
    BY <1>1, <1>2, OnWalkEffect
  <1>4. Finish(r)
    BY <1>2 DEF CheckCreatureWalk
  <1> QED
    BY <1>3, <1>4, FinishCalm, FinishHalting, FinishAdding DEF Asked

LEMMA StartAsked ==
    ASSUME WalkInv, NEW n \in 1 .. MaxPath, NEW o \in Outcome, StartAutoWalk(n, o)
    PROVE  Asked(walk.event)
  <1>1. TypeOK /\ Calm(Started, walk.event)
    BY WalkBase, StartedCalm
  <1>2. PICK s : s = [Started EXCEPT !.walk.path = n]
    OBVIOUS
  <1>3. n \in 0 .. MaxPath
    BY WalkAssumption
  <1>4. Calm(s, walk.event)
    BY <1>1, <1>2, <1>3, Touched
  <1>5. PICK r : r = IF n = 1 THEN AddEventWalkFirst(s, o) ELSE AddEventWalk(s)
    OBVIOUS
  <1>6. Still(r, walk.event) \/ (walk.event = 0 /\ Adding(r))
    BY <1>1, <1>4, <1>5, AddEffect, FirstEffect DEF Still
  <1>7. Finish(r)
    BY <1>2, <1>5 DEF StartAutoWalk
  <1> QED
    BY <1>6, <1>7, FinishStill

LEMMA StopAsked == ASSUME WalkInv, StopWalk PROVE Asked(walk.event)
  <1>1. PICK r : r = [Started EXCEPT !.walk.cancel = TRUE]
    OBVIOUS
  <1>2. Calm(r, walk.event)
    BY <1>1, StartedCalm, Touched
  <1>3. Finish(r)
    BY <1>1 DEF StopWalk
  <1> QED
    BY <1>2, <1>3, FinishStill DEF Still

LEMMA SpeedAsked == ASSUME WalkInv, NEW b \in BOOLEAN, SetSpeed(b) PROVE Asked(walk.event)
  <1>1. TypeOK
    BY WalkBase
  <1>2. PICK s : s = [Started EXCEPT !.walk.speedy = b]
    OBVIOUS
  <1>3. Calm(s, walk.event)
    BY <1>2, StartedCalm, Touched
  <1>4. PICK u : u = StopEventWalk(s)
    OBVIOUS
  <1>5. Still(u, walk.event)
    BY <1>3, <1>4, StopEffect DEF Still
  <1>6. Still([u EXCEPT !.walk.cancel = TRUE], walk.event)
    BY <1>5, Touched DEF Still
  <1>7. Still(Halted(s), walk.event)
    BY <1>4, <1>6 DEF Halted
  <1>8. PICK r : r = IF ~ b THEN Halted(s)
                     ELSE IF ~ walk.speedy /\ walk.path > 0 THEN AddEventWalk(s) ELSE s
    OBVIOUS
  <1>9. Still(r, walk.event) \/ (walk.event = 0 /\ Adding(r))
    BY <1>1, <1>3, <1>7, <1>8, AddEffect DEF Still
  <1>10. Finish(r)
    BY <1>2, <1>8 DEF SetSpeed
  <1> QED
    BY <1>9, <1>10, FinishStill

LEMMA TeleportAsked == ASSUME WalkInv, Teleport PROVE Asked(walk.event)
  <1>1. PICK s : s = [Started EXCEPT !.walk.resting = TRUE]
    OBVIOUS
  <1>2. Calm(s, walk.event)
    BY <1>1, StartedCalm, Touched
  <1>3. Still(StopEventWalk(s), walk.event)
    BY <1>2, StopEffect DEF Still
  <1>4. Finish(StopEventWalk(s))
    BY <1>1 DEF Teleport
  <1> QED
    BY <1>3, <1>4, FinishStill

-----------------------------------------------------------------------------
(***************************************************************************)
(* The tasks that are pending.                                             *)
(***************************************************************************)
LEMMA LiveParts ==
    ASSUME WalkInv
    PROVE  /\ Live = {t \in 1 .. added : t \notin deleted /\ t \notin Done /\ t \notin stopped}
           /\ IsFiniteSet(Live) /\ IsFiniteSet(Odd) /\ IsFiniteSet(stale)
           /\ Cardinality(Live) \in Nat /\ Cardinality(Odd) \in Nat /\ Cardinality(stale) \in Nat
           /\ Cardinality(Live) <= Cardinality(Odd) + 1
           /\ Done \subseteq 1 .. added
  <1>1. added \in Nat /\ \A t \in 1 .. added : EventId(t) = t
    BY WalkBase
  <1>2. Live = {t \in 1 .. added : t \notin deleted /\ t \notin Done /\ t \notin stopped}
    BY <1>1 DEF Live, Pending, Done
  <1>3. IsFiniteSet(1 .. added)
    BY <1>1, FS_Interval
  <1>4. Live \subseteq 1 .. added /\ Odd \subseteq 1 .. added
    BY DEF Live, Pending, Odd
  <1>5. IsFiniteSet(Live) /\ IsFiniteSet(Odd)
    BY <1>3, <1>4, FS_Subset
  <1>6. ran \in Nat
    BY LenProperties DEF WalkInv, SchedulerInv, TypeOK
  <1>7. dispatched \in Seq(1 .. added) /\ ran <= Len(dispatched)
    BY LenProperties DEF WalkInv, SchedulerInv, TypeOK
  <1>8. IsFiniteSet(Done) /\ Done \subseteq 1 .. added
    <2>1. ASSUME NEW i \in 1 .. ran PROVE dispatched[i] \in 1 .. added
      <3>1. Len(dispatched) \in Nat
        BY <1>7, LenProperties
      <3>2. i \in 1 .. Len(dispatched)
        BY <1>6, <1>7, <3>1
      <3> QED
        BY <1>7, <3>2, ElementOfSeq
    <2>2. Done \subseteq 1 .. added
      BY <2>1 DEF Done
    <2> QED
      BY <1>3, <2>2, FS_Subset
  <1>9. IsFiniteSet(stale)
    BY <1>8, FS_Subset DEF WalkInv
  <1>10. Cardinality(Live) \in Nat /\ Cardinality(Odd) \in Nat /\ Cardinality(stale) \in Nat
    BY <1>5, <1>9, FS_CardinalityType
  <1>11. Cardinality(Live) <= Cardinality(Odd) + 1
    <2>1. CASE walk.event \in Live
      <3>1. Cardinality(Odd) = Cardinality(Live) - 1
        BY <1>5, <2>1, FS_RemoveElement DEF Odd
      <3> QED
        BY <1>10, <3>1
    <2>2. CASE walk.event \notin Live
      <3>1. Odd = Live
        BY <2>2 DEF Odd
      <3> QED
        BY <1>10, <3>1
    <2> QED
      BY <2>1, <2>2
  <1> QED
    BY <1>2, <1>5, <1>8, <1>9, <1>10, <1>11

LEMMA FewerOdd ==
    ASSUME WalkInv, Odd' \subseteq Odd, stale' = stale
    PROVE  Cardinality(Odd') <= Cardinality(stale')
  <1>1. IsFiniteSet(Odd) /\ Cardinality(Odd) \in Nat /\ Cardinality(stale) \in Nat
    BY LiveParts
  <1>2. IsFiniteSet(Odd') /\ Cardinality(Odd') <= Cardinality(Odd)
    BY <1>1, FS_Subset
  <1>3. Cardinality(Odd') \in Nat
    BY <1>2, FS_CardinalityType
  <1>4. Cardinality(Odd) <= Cardinality(stale)
    BY DEF WalkInv
  <1> QED
    BY <1>1, <1>2, <1>3, <1>4

(***************************************************************************)
(* The state of the invariant that does not count.                         *)
(***************************************************************************)
Shape ==
    /\ SchedulerInv
    /\ walk \in Walk /\ walk.event \in 0 .. added /\ walk.event \notin stopped
    /\ stopped \subseteq 1 .. added

LEMMA AskedNext == ASSUME WalkInv, NEW e \in {0, walk.event}, Asked(e) PROVE [Next]_vars
  <1>1. CASE UNCHANGED vars
    BY <1>1
  <1>2. CASE walk.event # 0 /\ StopEvent(walk.event)
    <2>1. walk.event \in 1 .. added /\ EventId(walk.event) = walk.event
      BY <1>2, WalkBase
    <2> QED
      BY <1>2, <2>1 DEF Next, GameThread
  <1>3. CASE AddEvent
    BY <1>3 DEF Next, GameThread
  <1> QED
    BY <1>1, <1>2, <1>3 DEF Asked

LEMMA AskedShape ==
    ASSUME WalkInv, NEW e \in {0, walk.event}, Asked(e)
    PROVE  Shape'
  <1>1. SchedulerInv'
    BY AskedNext, NextInv DEF WalkInv
  <1>2. walk' \in Walk
    BY DEF Asked
  <1>3. added \in Nat /\ stopped \subseteq 1 .. added /\ walk.event \in 0 .. added /\ walk.event \notin stopped
    BY WalkBase DEF WalkInv
  <1>4. CASE UNCHANGED vars /\ walk'.event = e
    BY <1>1, <1>2, <1>3, <1>4 DEF Shape, vars
  <1>5. CASE walk.event # 0 /\ walk'.event = 0 /\ StopEvent(walk.event)
    <2>1. added' = added /\ stopped' = stopped \cup {walk.event}
      BY <1>5 DEF StopEvent
    <2>2. walk.event \in 1 .. added
      BY <1>5, WalkBase
    <2>3. stopped' \subseteq 1 .. added'
      BY <1>3, <2>1, <2>2
    <2>4. walk'.event \in 0 .. added' /\ walk'.event \notin stopped'
      BY <1>3, <1>5, <2>1, <2>2
    <2> QED
      BY <1>1, <1>2, <2>3, <2>4 DEF Shape
  <1>6. CASE AddEvent /\ walk'.event = added'
    <2>1. added' = added + 1 /\ stopped' = stopped
      BY <1>6 DEF AddEvent
    <2> QED
      BY <1>1, <1>2, <1>3, <1>6, <2>1 DEF Shape
  <1> QED
    BY <1>4, <1>5, <1>6 DEF Asked

LEMMA AskedOdd ==
    ASSUME WalkInv, Asked(walk.event), UNCHANGED <<ran, stale>>
    PROVE  WalkInv'
  <1>1. Shape'
    BY AskedShape
  <1>2. dispatched' = dispatched /\ deleted' = deleted
    BY DEF Asked, vars, StopEvent, AddEvent
  <1>3. Done' = Done
    BY <1>2 DEF Done
  <1>4. ran' \in 0 .. Len(dispatched') /\ stale' \subseteq Done'
    BY <1>2, <1>3 DEF WalkInv
  <1>5. added \in Nat /\ \A t \in 1 .. added : EventId(t) = t
    BY WalkBase
  <1>6. Live = {t \in 1 .. added : t \notin deleted /\ t \notin Done /\ t \notin stopped}
    BY LiveParts
  <1>7. added' \in Nat /\ \A t \in 1 .. added' : EventId(t) = t
    <2>1. added' \in 0 .. MaxEvents
      BY <1>1 DEF Shape, SchedulerInv, TypeOK
    <2>2. 1 .. added' \subseteq Event /\ added' \in Nat
      BY <2>1, SchedulerAssumption DEF Event
    <2> QED
      BY <2>2, WalkIds
  <1>8. Live' = {t \in 1 .. added' : t \notin deleted /\ t \notin Done /\ t \notin stopped'}
    BY <1>2, <1>3, <1>7 DEF Live, Pending, Done
  <1>9. Odd' = Live' \ {walk'.event}
    BY DEF Odd
  <1>10. Odd' \subseteq Odd
    <2>1. CASE UNCHANGED vars /\ walk'.event = walk.event
      <3>1. added' = added /\ stopped' = stopped
        BY <2>1 DEF vars
      <3>2. Live' = Live
        BY <1>6, <1>8, <3>1
      <3> QED
        BY <1>9, <2>1, <3>2 DEF Odd
    <2>2. CASE walk.event # 0 /\ walk'.event = 0 /\ StopEvent(walk.event)
      <3>1. added' = added /\ stopped' = stopped \cup {walk.event}
        BY <2>2 DEF StopEvent
      <3>2. Live' \subseteq Live /\ walk.event \notin Live'
        BY <1>6, <1>8, <3>1
      <3> QED
        BY <1>9, <3>2 DEF Odd
    <2>3. CASE walk.event = 0 /\ AddEvent /\ walk'.event = added'
      <3>1. added' = added + 1 /\ stopped' = stopped
        BY <2>3 DEF AddEvent
      <3>2. \A t \in Live' : t # added' => t \in Live
        BY <1>5, <1>6, <1>8, <3>1
      <3>3. \A t \in Live' : t # walk'.event => t \in Live
        BY <2>3, <3>2
      <3>4. walk.event \notin Live'
        BY <2>3, <1>8
      <3> QED
        BY <1>9, <3>3, <3>4 DEF Odd
    <2> QED
      BY <2>1, <2>2, <2>3 DEF Asked
  <1>11. Cardinality(Odd') <= Cardinality(stale')
    BY <1>10, FewerOdd
  <1> QED
    BY <1>1, <1>4, <1>11 DEF WalkInv, Shape

LEMMA ThreadOdd ==
    ASSUME WalkInv, ThreadMain \/ \E t \in Event : Expire(t), UNCHANGED walkVars
    PROVE  WalkInv'
  <1>1. SchedulerInv'
    <2>1. Next
      BY DEF Next
    <2> QED
      BY <2>1, NextInv DEF WalkInv
  <1>2. added' = added /\ stopped' = stopped /\ walk' = walk /\ ran' = ran /\ stale' = stale
    BY DEF ThreadMain, RunAdd, RunStop, RunShutdown, RunDelete, RunExpired, HandOver, Expire, walkVars
  <1>3. deleted \subseteq deleted'
    BY DEF ThreadMain, RunAdd, RunStop, RunShutdown, RunDelete, RunExpired, HandOver, Expire
  <1>4. dispatched \in Seq(1 .. added) /\ ran \in 0 .. Len(dispatched) /\ inHand \in 0 .. added
    BY DEF WalkInv, SchedulerInv, TypeOK
  <1>5. dispatched' = dispatched \/ (inHand # 0 /\ dispatched' = Append(dispatched, inHand))
    BY DEF ThreadMain, RunAdd, RunStop, RunShutdown, RunDelete, RunExpired, HandOver, Expire
  <1>6. Len(dispatched) \in Nat
    BY <1>4, LenProperties
  <1>7. ran \in 0 .. Len(dispatched') /\ \A i \in 1 .. ran : dispatched'[i] = dispatched[i]
    <2>1. CASE dispatched' = dispatched
      BY <1>4, <2>1
    <2>2. CASE inHand # 0 /\ dispatched' = Append(dispatched, inHand)
      <3>1. /\ Len(dispatched') = Len(dispatched) + 1
            /\ \A i \in 1 .. Len(dispatched) : dispatched'[i] = dispatched[i]
        BY <1>4, <2>2, AppendProperties
      <3> QED
        BY <1>4, <1>6, <3>1
    <2> QED
      BY <1>5, <2>1, <2>2
  <1>8. Done' = Done
    BY <1>2, <1>7 DEF Done
  <1>9. \A t \in 1 .. added : EventId(t) = t
    BY WalkBase
  <1>10. Live = {t \in 1 .. added : t \notin deleted /\ t \notin Done /\ t \notin stopped}
    BY LiveParts
  <1>11. Live' = {t \in 1 .. added : t \notin deleted' /\ t \notin Done /\ t \notin stopped}
    BY <1>2, <1>8, <1>9 DEF Live, Pending, Done
  <1>12. Odd' \subseteq Odd
    BY <1>2, <1>3, <1>10, <1>11 DEF Odd
  <1>13. Cardinality(Odd') <= Cardinality(stale')
    BY <1>2, <1>12, FewerOdd
  <1> QED
    BY <1>1, <1>2, <1>7, <1>8, <1>13 DEF WalkInv

LEMMA CheckOdd ==
    ASSUME WalkInv, NEW o \in Outcome, CheckCreatureWalk(o)
    PROVE  WalkInv'
  <1>1. Asked(0)
    BY CheckAsked
  <1>2. Shape'
    BY <1>1, AskedShape
  <1>3. dispatched' = dispatched /\ deleted' = deleted
    BY <1>1 DEF Asked, vars, StopEvent, AddEvent
  <1>4. PICK t0 : t0 = dispatched[ran + 1]
    OBVIOUS
  <1>5. ran < Len(dispatched) /\ ran' = ran + 1
        /\ stale' = stale \cup {t \in {t0} : EventId(t) \in stopped}
    BY <1>4 DEF CheckCreatureWalk
  <1>6. dispatched \in Seq(1 .. added) /\ ran \in 0 .. Len(dispatched) /\ Len(dispatched) \in Nat
    BY LenProperties DEF WalkInv, SchedulerInv, TypeOK
  <1>7. ran \in Nat /\ ran + 1 \in 1 .. Len(dispatched)
    BY <1>5, <1>6
  <1>8. t0 \in 1 .. added
    BY <1>4, <1>6, <1>7, ElementOfSeq
  <1>9. Done' = Done \cup {t0}
    <2>1. \A i \in 1 .. ran + 1 : i \in 1 .. ran \/ i = ran + 1
      BY <1>7
    <2>2. \A i \in 1 .. ran : i \in 1 .. ran + 1
      BY <1>7
    <2>3. ran + 1 \in 1 .. ran + 1
      BY <1>7
    <2>4. Done' = {dispatched[i] : i \in 1 .. ran + 1}
      BY <1>3, <1>5 DEF Done
    <2> QED
      BY <1>4, <2>1, <2>2, <2>3, <2>4 DEF Done
  <1>10. t0 \in Event /\ EventId(t0) = t0
    BY <1>8, WalkBase
  <1>11. DOMAIN dispatched = 1 .. Len(dispatched)
    BY <1>6, LenProperties
  <1>12. t0 \notin deleted
    <2>1. Dispatched(t0)
      BY <1>4, <1>7, <1>11 DEF Dispatched, InSeq
    <2> QED
      BY <1>10, <2>1 DEF WalkInv, SchedulerInv, Apart
  <1>13. t0 \notin Done
    <2>1. ASSUME NEW i \in 1 .. ran, dispatched[i] = t0 PROVE FALSE
      <3>1. i \in DOMAIN dispatched /\ ran + 1 \in DOMAIN dispatched /\ i # ran + 1
        BY <1>6, <1>7, <1>11
      <3>2. OnceDispatched(dispatched, t0)
        BY <1>10 DEF WalkInv, SchedulerInv, OnceEach
      <3> QED
        BY <1>4, <2>1, <3>1, <3>2 DEF OnceDispatched
    <2> QED
      BY <2>1 DEF Done
  <1>14. stale \subseteq Done
    BY DEF WalkInv
  <1>15. ran' \in 0 .. Len(dispatched') /\ stale' \subseteq Done'
    BY <1>3, <1>5, <1>7, <1>9, <1>14
  <1>16. added \in Nat
    BY WalkBase
  <1>17. Live = {t \in 1 .. added : t \notin deleted /\ t \notin Done /\ t \notin stopped}
    BY LiveParts
  <1>18. added' \in Nat /\ \A t \in 1 .. added' : EventId(t) = t
    <2>1. added' \in 0 .. MaxEvents
      BY <1>2 DEF Shape, SchedulerInv, TypeOK
    <2>2. 1 .. added' \subseteq Event /\ added' \in Nat
      BY <2>1, SchedulerAssumption DEF Event
    <2> QED
      BY <2>2, WalkIds
  <1>19. Live' = {t \in 1 .. added' : t \notin deleted /\ t \notin Done' /\ t \notin stopped'}
    BY <1>3, <1>18 DEF Live, Pending, Done
  <1>20. Odd' \subseteq Live \ {t0}
    <2>1. CASE added' = added
      <3>1. stopped \subseteq stopped'
        BY <1>1 DEF Asked, vars, StopEvent, AddEvent
      <3>2. Live' \subseteq Live \ {t0}
        BY <1>9, <1>17, <1>19, <2>1, <3>1
      <3> QED
        BY <3>2 DEF Odd
    <2>2. CASE added' # added
      <3>1. added' = added + 1 /\ walk'.event = added' /\ stopped' = stopped
        BY <1>1, <2>2 DEF Asked, vars, StopEvent, AddEvent
      <3>2. \A t \in Live' : t # added' => t \in Live \ {t0}
        BY <1>9, <1>16, <1>17, <1>19, <3>1
      <3> QED
        BY <3>1, <3>2 DEF Odd
    <2> QED
      BY <2>1, <2>2
  <1>21. /\ IsFiniteSet(Live) /\ IsFiniteSet(stale)
         /\ Cardinality(Live) \in Nat /\ Cardinality(Odd) \in Nat /\ Cardinality(stale) \in Nat
         /\ Cardinality(Live) <= Cardinality(Odd) + 1 /\ Cardinality(Odd) <= Cardinality(stale)
    BY LiveParts DEF WalkInv
  <1>22. IsFiniteSet(Live \ {t0})
    BY <1>21, FS_RemoveElement
  <1>23. Cardinality(Odd') <= Cardinality(Live \ {t0}) /\ Cardinality(Odd') \in Nat
         /\ Cardinality(Live \ {t0}) \in Nat
    BY <1>20, <1>22, FS_Subset, FS_CardinalityType
  <1>24. Cardinality(Odd') <= Cardinality(stale')
    <2>1. CASE t0 \in stopped
      <3>1. stale' = stale \cup {t0} /\ t0 \notin stale
        BY <1>5, <1>10, <1>13, <1>14, <2>1
      <3>2. Cardinality(stale') = Cardinality(stale) + 1
        BY <1>21, <3>1, FS_AddElement
      <3>3. Cardinality(Live \ {t0}) <= Cardinality(Live)
        BY <1>21, FS_Subset
      <3> QED
        BY <1>21, <1>23, <3>2, <3>3
    <2>2. CASE t0 \notin stopped
      <3>1. stale' = stale
        BY <1>5, <1>10, <2>2
      <3>2. t0 \in Live
        BY <1>8, <1>12, <1>13, <1>17, <2>2
      <3>3. Cardinality(Live \ {t0}) = Cardinality(Live) - 1
        BY <1>21, <3>2, FS_RemoveElement
      <3> QED
        BY <1>21, <1>23, <3>1, <3>3
    <2> QED
      BY <2>1, <2>2
  <1> QED
    BY <1>2, <1>15, <1>24 DEF WalkInv, Shape

-----------------------------------------------------------------------------
LEMMA WalkInitInv == WalkInit => WalkInv
  <1> SUFFICES ASSUME WalkInit
               PROVE  WalkInv
    OBVIOUS
  <1>1. Init /\ ran = 0 /\ stale = {}
        /\ walk = [event |-> 0, path |-> 0, cancel |-> FALSE, speedy |-> TRUE, resting |-> FALSE]
    BY DEF WalkInit
  <1>2. SchedulerInv /\ added = 0 /\ stopped = {} /\ dispatched = <<>>
    BY <1>1, InitInv DEF Init
  <1>3. walk \in Walk /\ walk.event = 0
    <2>1. 0 \in 0 .. IdModulus - 1 /\ 0 \in 0 .. MaxPath
      BY ZeroIsId, WalkAssumption
    <2>2. FALSE \in BOOLEAN /\ TRUE \in BOOLEAN
      BY Zenon
    <2> QED
      BY <1>1, <2>1, <2>2 DEF Walk
  <1>4. Live = {} /\ Odd = {}
    BY <1>2 DEF Live, Pending, Odd
  <1>5. Cardinality(Odd) <= Cardinality(stale)
    BY <1>1, <1>4, FS_EmptySet
  <1> QED
    BY <1>1, <1>2, <1>3, <1>5 DEF WalkInv

LEMMA RestedInv == ASSUME WalkInv, Rested PROVE WalkInv'
  <1>1. walk' = [walk EXCEPT !.resting = FALSE] /\ walk \in Walk /\ UNCHANGED vars /\ UNCHANGED <<ran, stale>>
    BY DEF Rested, WalkInv
  <1>2. walk' \in Walk /\ walk'.event = walk.event
    BY <1>1, WalkParts
  <1>3. Asked(walk.event)
    BY <1>1, <1>2 DEF Asked
  <1> QED
    BY <1>1, <1>3, AskedOdd

LEMMA WalkStutterInv == ASSUME WalkInv, UNCHANGED allVars PROVE WalkInv'
  <1>1. UNCHANGED vars /\ walk' = walk /\ UNCHANGED <<ran, stale>>
    BY DEF allVars, walkVars
  <1>2. Asked(walk.event)
    BY <1>1 DEF Asked, WalkInv
  <1> QED
    BY <1>1, <1>2, AskedOdd

LEMMA WalkNextInv ==
    ASSUME WalkInv, [WalkNext]_allVars
    PROVE  WalkInv' /\ [Next]_vars
  <1>1. CASE UNCHANGED allVars
    BY <1>1, WalkStutterInv DEF allVars
  <1>2. ASSUME NEW o \in Outcome, CheckCreatureWalk(o) PROVE WalkInv' /\ [Next]_vars
    BY <1>2, CheckOdd, CheckAsked, AskedNext
  <1>3. ASSUME NEW n \in 1 .. MaxPath, NEW o \in Outcome, StartAutoWalk(n, o)
        PROVE  WalkInv' /\ [Next]_vars
    <2>1. UNCHANGED <<ran, stale>>
      BY <1>3 DEF StartAutoWalk
    <2> QED
      BY <1>3, <2>1, StartAsked, AskedOdd, AskedNext
  <1>4. CASE StopWalk
    <2>1. UNCHANGED <<ran, stale>>
      BY <1>4 DEF StopWalk
    <2> QED
      BY <1>4, <2>1, StopAsked, AskedOdd, AskedNext
  <1>5. ASSUME NEW b \in BOOLEAN, SetSpeed(b) PROVE WalkInv' /\ [Next]_vars
    <2>1. UNCHANGED <<ran, stale>>
      BY <1>5 DEF SetSpeed
    <2> QED
      BY <1>5, <2>1, SpeedAsked, AskedOdd, AskedNext
  <1>6. CASE Teleport
    <2>1. UNCHANGED <<ran, stale>>
      BY <1>6 DEF Teleport
    <2> QED
      BY <1>6, <2>1, TeleportAsked, AskedOdd, AskedNext
  <1>7. CASE Rested
    BY <1>7, RestedInv DEF Rested
  <1>8. CASE (ThreadMain \/ \E t \in Event : Expire(t)) /\ UNCHANGED walkVars
    BY <1>8, ThreadOdd DEF Next
  <1> QED
    BY <1>1, <1>2, <1>3, <1>4, <1>5, <1>6, <1>7, <1>8 DEF WalkNext, GameTask

(***************************************************************************)
(* A walk uses the scheduler as the scheduler expects: whatever a task of  *)
(* the game thread does to the walk, it adds one event, stops one that was *)
(* added and not stopped before, or does neither.                          *)
(***************************************************************************)
THEOREM WalkImplementsScheduler == WalkSpec => Init /\ [][Next]_vars
  <1>1. WalkInit => Init
    BY DEF WalkInit
  <1> QED
    BY <1>1, WalkInitInv, WalkNextInv, PTL DEF WalkSpec

(***************************************************************************)
(* The fields of a walk keep their types, eventWalk is an id of the        *)
(* scheduler's, and no more tasks ran than were dispatched.                *)
(***************************************************************************)
THEOREM WalkTypeCorrect == WalkSpec => []WalkTypeOK
  <1>1. WalkInv => WalkTypeOK
    BY LiveParts DEF WalkInv, WalkTypeOK, SchedulerInv
  <1> QED
    BY <1>1, WalkInitInv, WalkNextInv, PTL DEF WalkSpec

(***************************************************************************)
(* The chains of events of one creature are never more than one and the    *)
(* events that were stopped too late and ran all the same.                 *)
(***************************************************************************)
THEOREM OneChainCorrect == WalkSpec => []OneChain
  <1>1. WalkInv => OneChain
    <2> SUFFICES ASSUME WalkInv PROVE OneChain
      OBVIOUS
    <2>1. /\ Cardinality(Live) \in Nat /\ Cardinality(Odd) \in Nat /\ Cardinality(stale) \in Nat
          /\ Cardinality(Live) <= Cardinality(Odd) + 1 /\ Cardinality(Odd) <= Cardinality(stale)
      BY LiveParts DEF WalkInv
    <2> QED
      BY <2>1 DEF OneChain
  <1> QED
    BY <1>1, WalkInitInv, WalkNextInv, PTL DEF WalkSpec

(***************************************************************************)
(* Open containers: where a bag is.                                        *)
(***************************************************************************)
Cylinder == Bag \cup Player \cup Square \cup {None}
Shown == [Player -> [Cid -> Bag \cup {None}]]
Belongings == [at : [Player -> Square], in : [Bag -> Cylinder], open : Shown, window : Shown]

LEMMA AroundLeast ==
    ASSUME NEW b \in Belongings, NEW c \in Bag,
           NEW T, c \in T, \A k \in T \cap Bag : b.in[k] \in T
    PROVE  Around(b, c) \subseteq T
  <1> DEFINE Closed(S) == c \in S /\ \A x \in S : b.in[x] \in Bag => b.in[x] \in S
             bags == {x \in Bag : \A S \in SUBSET Bag : Closed(S) => x \in S}
  <1>1. PICK S \in SUBSET Bag : S = T \cap Bag
    OBVIOUS
  <1>2. Closed(S)
    BY <1>1
  <1>3. bags \subseteq S
    BY <1>2
  <1> HIDE DEF bags
  <1>4. bags \cup {b.in[x] : x \in bags} \subseteq T
    BY <1>1, <1>3
  <1> QED
    BY <1>4 DEF Around, bags

LEMMA AroundClosed ==
    ASSUME NEW b \in Belongings, NEW c \in Bag
    PROVE  /\ c \in Around(b, c) /\ Around(b, c) \subseteq Cylinder
           /\ \A k \in Around(b, c) \cap Bag : b.in[k] \in Around(b, c)
  <1> DEFINE Closed(S) == c \in S /\ \A x \in S : b.in[x] \in Bag => b.in[x] \in S
             bags == {x \in Bag : \A S \in SUBSET Bag : Closed(S) => x \in S}
  <1>1. Around(b, c) = bags \cup {b.in[x] : x \in bags}
    BY DEF Around
  <1>2. c \in bags
    OBVIOUS
  <1>3. ASSUME NEW k \in bags, b.in[k] \in Bag
        PROVE  b.in[k] \in bags
    <2> SUFFICES ASSUME NEW S \in SUBSET Bag, Closed(S)
                 PROVE  b.in[k] \in S
      BY <1>3
    <2>1. k \in S
      BY <1>3
    <2> QED
      BY <1>3, <2>1
  <1>4. bags \subseteq Bag
    OBVIOUS
  <1> HIDE DEF bags
  <1>5. \A k \in bags : b.in[k] \in Cylinder
    BY <1>4 DEF Belongings
  <1>6. ASSUME NEW k \in Around(b, c), k \in Bag
        PROVE  k \in bags
    BY <1>1, <1>3, <1>6
  <1> QED
    BY <1>1, <1>2, <1>4, <1>5, <1>6 DEF Cylinder

LEMMA AroundTrans ==
    ASSUME NEW b \in Belongings, NEW c \in Bag, NEW k \in Bag, k \in Around(b, c)
    PROVE  Around(b, k) \subseteq Around(b, c)
  BY AroundClosed, AroundLeast

LEMMA AroundUnfold ==
    ASSUME NEW b \in Belongings, NEW c \in Bag
    PROVE  /\ b.in[c] \in Bag => Around(b, c) = {c} \cup Around(b, b.in[c])
           /\ b.in[c] \notin Bag => Around(b, c) = {c, b.in[c]}
  <1>1. ASSUME b.in[c] \in Bag
        PROVE  Around(b, c) = {c} \cup Around(b, b.in[c])
    <2>1. PICK T : T = {c} \cup Around(b, b.in[c])
      OBVIOUS
    <2>2. \A k \in T \cap Bag : b.in[k] \in T
      BY <1>1, <2>1, AroundClosed
    <2>3. Around(b, c) \subseteq T
      BY <2>1, <2>2, AroundLeast
    <2>4. T \subseteq Around(b, c)
      BY <1>1, <2>1, AroundClosed, AroundTrans
    <2> QED
      BY <2>1, <2>3, <2>4
  <1>2. ASSUME b.in[c] \notin Bag
        PROVE  Around(b, c) = {c, b.in[c]}
    <2>1. PICK T : T = {c, b.in[c]}
      OBVIOUS
    <2>2. Around(b, c) \subseteq T
      BY <1>2, <2>1, AroundLeast
    <2> QED
      BY <2>1, <2>2, AroundClosed
  <1> QED
    BY <1>1, <1>2

\* The bags around a bag lie in a row.
LEMMA AroundChain ==
    ASSUME NEW b \in Belongings, NEW c \in Bag, NEW k \in Around(b, c) \cap Bag, NEW x \in Around(b, c)
    PROVE  x \in Around(b, k) \/ (x \in Bag /\ k \in Around(b, x))
  <1>1. PICK T : T = {y \in Around(b, c) : y \in Around(b, k) \/ (y \in Bag /\ k \in Around(b, y))}
    OBVIOUS
  <1>2. c \in T
    BY <1>1, AroundClosed
  <1>3. ASSUME NEW y \in T \cap Bag
        PROVE  b.in[y] \in T
    <2>1. b.in[y] \in Around(b, c)
      BY <1>1, AroundClosed
    <2>2. CASE y \in Around(b, k)
      BY <1>1, <2>1, <2>2, AroundClosed
    <2>3. CASE k \in Around(b, y) /\ k # y
      BY <1>1, <2>1, <2>3, AroundUnfold
    <2>4. CASE k = y
      BY <1>1, <2>1, <2>4, AroundClosed
    <2> QED
      BY <1>1, <1>3, <2>2, <2>3, <2>4
  <1>4. Around(b, c) \subseteq T
    BY <1>2, <1>3, AroundLeast
  <1> QED
    BY <1>1, <1>4

\* A bag is where the bags around it are.
Holder(b, c) == Around(b, c) \ Bag

LEMMA SameHolder ==
    ASSUME NEW b \in Belongings, NEW c \in Bag, NEW k \in Bag, k \in Around(b, c)
    PROVE  Holder(b, c) = Holder(b, k)
  BY AroundChain, AroundTrans DEF Holder

LEMMA HolderEffect ==
    ASSUME NEW b, NEW c
    PROVE  /\ GetTopParent(b, c) = CHOOSE x \in Holder(b, c) : TRUE
           /\ IsRemoved(b, c) <=> None \in Holder(b, c)
           /\ \A x : Holder(b, c) = {x} => GetTopParent(b, c) = x
  <1>1. None \notin Bag
    BY OpenContainersAssumption
  <1>2. GetTopParent(b, c) = CHOOSE x \in Holder(b, c) : TRUE
    BY DEF GetTopParent, Holder
  <1> QED
    BY <1>1, <1>2 DEF IsRemoved, Holder

(***************************************************************************)
(* The inductive invariant, of the books b.                                *)
(***************************************************************************)
Reaches(b, p) == \A cid \in Cid : b.open[p][cid] # None => InReach(b, p, b.open[p][cid])
Shows(b, p) == \A cid \in Cid : b.window[p][cid] \in {None, b.open[p][cid]}
Agrees(b) == b \in Belongings /\ \A p \in Player : Reaches(b, p) /\ Shows(b, p)

OpenInv == Agrees(Inventories)

\* What a call for p leaves to the other players, and where everything is.
Elsewhere(b, d, p) ==
    /\ d \in Belongings /\ d.at = b.at /\ d.in = b.in
    /\ \A q \in Player \ {p} : d.open[q] = b.open[q] /\ d.window[q] = b.window[q]

LEMMA SamePlaces ==
    ASSUME NEW b, NEW d, d.in = b.in
    PROVE  /\ \A c : Around(d, c) = Around(b, c) /\ IsRemoved(d, c) = IsRemoved(b, c)
                     /\ GetTopParent(d, c) = GetTopParent(b, c)
           /\ d.at = b.at => \A p, c : /\ BagInRange(d, p, c) = BagInRange(b, p, c)
                                       /\ InReach(d, p, c) = InReach(b, p, c)
  <1>1. \A c : Around(d, c) = Around(b, c)
    BY DEF Around
  <1>2. \A c : IsRemoved(d, c) = IsRemoved(b, c) /\ GetTopParent(d, c) = GetTopParent(b, c)
    BY <1>1 DEF IsRemoved, GetTopParent
  <1>3. ASSUME d.at = b.at
        PROVE  \A p, c : BagInRange(d, p, c) = BagInRange(b, p, c)
    BY <1>2, <1>3 DEF BagInRange
  <1> QED
    BY <1>1, <1>2, <1>3 DEF InReach

LEMMA ElsewhereAgrees ==
    ASSUME NEW b, Agrees(b), NEW p \in Player, NEW d, Elsewhere(b, d, p), Reaches(d, p), Shows(d, p)
    PROVE  Agrees(d)
  <1>1. \A q, c : InReach(d, q, c) = InReach(b, q, c)
    BY SamePlaces DEF Elsewhere
  <1>2. \A q \in Player \ {p} : Reaches(d, q) /\ Shows(d, q)
    BY <1>1 DEF Elsewhere, Agrees, Reaches, Shows
  <1> QED
    BY <1>2 DEF Elsewhere, Agrees

(***************************************************************************)
(* What each function changes.                                             *)
(***************************************************************************)
LEMMA CloseWindowsEffect ==
    ASSUME NEW b \in Belongings, NEW p \in Player, NEW cids
    PROVE  LET d == CloseWindows(b, p, cids)
           IN /\ Elsewhere(b, d, p) /\ d.open = b.open
              /\ \A cid \in Cid : /\ cid \in cids => d.window[p][cid] = None
                                  /\ cid \notin cids => d.window[p][cid] = b.window[p][cid]
  <1>1. PICK w : w = [cid \in Cid |-> IF cid \in cids THEN None ELSE b.window[p][cid]]
    OBVIOUS
  <1>2. /\ w \in [Cid -> Bag \cup {None}]
        /\ \A cid \in Cid : /\ cid \in cids => w[cid] = None
                            /\ cid \notin cids => w[cid] = b.window[p][cid]
    BY <1>1 DEF Belongings, Shown
  <1>3. CloseWindows(b, p, cids) = [b EXCEPT !.window[p] = w]
    BY <1>1 DEF CloseWindows
  <1>4. PICK d : d = [b EXCEPT !.window[p] = w]
    OBVIOUS
  <1>5. /\ d \in Belongings /\ d.at = b.at /\ d.in = b.in /\ d.open = b.open /\ d.window[p] = w
        /\ \A q \in Player \ {p} : d.window[q] = b.window[q]
    BY <1>2, <1>4 DEF Belongings, Shown
  <1> QED
    BY <1>2, <1>3, <1>4, <1>5 DEF Elsewhere

LEMMA CloseAllEffect ==
    ASSUME NEW b \in Belongings, NEW p \in Player, NEW cids
    PROVE  LET d == CloseAll(b, p, cids)
           IN /\ Elsewhere(b, d, p)
              /\ \A cid \in Cid : /\ cid \in cids => d.open[p][cid] = None
                                  /\ cid \notin cids => d.open[p][cid] = b.open[p][cid]
              /\ Shows(b, p) => Shows(d, p)
  <1>1. PICK w : w = CloseWindows(b, p, cids)
    OBVIOUS
  <1>2. /\ Elsewhere(b, w, p) /\ w.open = b.open
        /\ \A cid \in Cid : /\ cid \in cids => w.window[p][cid] = None
                            /\ cid \notin cids => w.window[p][cid] = b.window[p][cid]
    BY <1>1, CloseWindowsEffect
  <1>3. PICK o : o = [cid \in Cid |-> IF cid \in cids THEN None ELSE w.open[p][cid]]
    OBVIOUS
  <1>4. w \in Belongings
    BY <1>2 DEF Elsewhere
  <1>5. /\ o \in [Cid -> Bag \cup {None}]
        /\ \A cid \in Cid : /\ cid \in cids => o[cid] = None
                            /\ cid \notin cids => o[cid] = b.open[p][cid]
    BY <1>2, <1>3, <1>4 DEF Belongings, Shown
  <1>6. CloseAll(b, p, cids) = [w EXCEPT !.open[p] = o]
    BY <1>1, <1>3 DEF CloseAll
  <1>7. PICK d : d = [w EXCEPT !.open[p] = o]
    OBVIOUS
  <1>8. /\ d \in Belongings /\ d.at = w.at /\ d.in = w.in /\ d.window = w.window /\ d.open[p] = o
        /\ \A q \in Player \ {p} : d.open[q] = w.open[q]
    BY <1>4, <1>5, <1>7 DEF Belongings, Shown
  <1>9. Elsewhere(b, d, p)
    BY <1>2, <1>8 DEF Elsewhere
  <1>10. Shows(b, p) => Shows(d, p)
    BY <1>2, <1>5, <1>8 DEF Shows
  <1> QED
    BY <1>5, <1>6, <1>7, <1>8, <1>9, <1>10

LEMMA OnSendEffect ==
    ASSUME NEW b \in Belongings, NEW p \in Player, NEW c \in Bag
    PROVE  LET d == OnSendContainer(b, p, c)
           IN /\ Elsewhere(b, d, p) /\ d.open = b.open
              /\ \A cid \in Cid : /\ b.open[p][cid] = c => d.window[p][cid] = c
                                  /\ b.open[p][cid] # c => d.window[p][cid] = b.window[p][cid]
              /\ Shows(b, p) => Shows(d, p)
  <1>1. PICK w : w = [cid \in Cid |-> IF cid \in CidsOf(b, p, c) THEN c ELSE b.window[p][cid]]
    OBVIOUS
  <1>2. /\ w \in [Cid -> Bag \cup {None}]
        /\ \A cid \in Cid : /\ b.open[p][cid] = c => w[cid] = c
                            /\ b.open[p][cid] # c => w[cid] = b.window[p][cid]
    BY <1>1 DEF Belongings, Shown, CidsOf
  <1>3. OnSendContainer(b, p, c) = [b EXCEPT !.window[p] = w]
    BY <1>1 DEF OnSendContainer
  <1>4. PICK d : d = [b EXCEPT !.window[p] = w]
    OBVIOUS
  <1>5. /\ d \in Belongings /\ d.at = b.at /\ d.in = b.in /\ d.open = b.open /\ d.window[p] = w
        /\ \A q \in Player \ {p} : d.window[q] = b.window[q]
    BY <1>2, <1>4 DEF Belongings, Shown
  <1>6. Elsewhere(b, d, p)
    BY <1>5 DEF Elsewhere
  <1>7. Shows(b, p) => Shows(d, p)
    BY <1>2, <1>5 DEF Shows
  <1> QED
    BY <1>2, <1>3, <1>4, <1>5, <1>6, <1>7

\* The containers cs, and what is in them, are closed; the others stay.
LEMMA AutoCloseEffect ==
    ASSUME NEW b \in Belongings, NEW p \in Player, NEW cs
    PROVE  LET d == AutoCloseContainers(b, p, cs)
           IN /\ Elsewhere(b, d, p)
              /\ Shows(b, p) => Shows(d, p)
              /\ \A cid \in Cid : d.open[p][cid] # None =>
                    /\ d.open[p][cid] = b.open[p][cid]
                    /\ None \notin Around(b, d.open[p][cid])
                    /\ \A c \in cs : c \notin Around(b, d.open[p][cid])
  <1>1. PICK cids : cids = {cid \in Cid : /\ b.open[p][cid] # None
                                          /\ (cs \cup {None}) \cap Around(b, b.open[p][cid]) # {}}
    OBVIOUS
  <1>2. PICK d : d = CloseAll(b, p, cids)
    OBVIOUS
  <1>3. /\ Elsewhere(b, d, p)
        /\ \A cid \in Cid : /\ cid \in cids => d.open[p][cid] = None
                            /\ cid \notin cids => d.open[p][cid] = b.open[p][cid]
        /\ Shows(b, p) => Shows(d, p)
    BY <1>2, CloseAllEffect
  <1>4. AutoCloseContainers(b, p, cs) = d
    BY <1>1, <1>2 DEF AutoCloseContainers
  <1> QED
    BY <1>1, <1>3, <1>4

LEMMA AddContainerEffect ==
    ASSUME NEW b \in Belongings, NEW p \in Player, NEW cid \in Cid, NEW c \in Bag \cup {None}
    PROVE  LET d == [b EXCEPT !.open[p][cid] = c]
           IN /\ Elsewhere(b, d, p) /\ d.window = b.window
              /\ d.open[p][cid] = c /\ \A n \in Cid \ {cid} : d.open[p][n] = b.open[p][n]
  <1>1. PICK d : d = [b EXCEPT !.open[p][cid] = c]
    OBVIOUS
  <1>2. /\ d \in Belongings /\ d.at = b.at /\ d.in = b.in /\ d.window = b.window
        /\ \A q \in Player \ {p} : d.open[q] = b.open[q]
        /\ d.open[p][cid] = c /\ \A n \in Cid \ {cid} : d.open[p][n] = b.open[p][n]
    BY <1>1 DEF Belongings, Shown
  <1> QED
    BY <1>1, <1>2 DEF Elsewhere

LEMMA SendEffect ==
    ASSUME NEW b \in Belongings, NEW p \in Player, NEW cid \in Cid, NEW c \in Bag \cup {None}
    PROVE  LET d == [b EXCEPT !.window[p][cid] = c]
           IN /\ Elsewhere(b, d, p) /\ d.open = b.open
              /\ d.window[p][cid] = c /\ \A n \in Cid \ {cid} : d.window[p][n] = b.window[p][n]
  <1>1. PICK d : d = [b EXCEPT !.window[p][cid] = c]
    OBVIOUS
  <1>2. /\ d \in Belongings /\ d.at = b.at /\ d.in = b.in /\ d.open = b.open
        /\ \A q \in Player \ {p} : d.window[q] = b.window[q]
        /\ d.window[p][cid] = c /\ \A n \in Cid \ {cid} : d.window[p][n] = b.window[p][n]
    BY <1>1 DEF Belongings, Shown
  <1> QED
    BY <1>1, <1>2 DEF Elsewhere

LEMMA HeardEffect ==
    ASSUME NEW b \in Belongings, NEW d, \A p \in Player : Elsewhere(b, d[p], p)
    PROVE  LET r == Heard(b, d)
           IN /\ r \in Belongings /\ r.at = b.at /\ r.in = b.in
              /\ \A p \in Player : /\ Reaches(d[p], p) => Reaches(r, p)
                                   /\ Shows(d[p], p) => Shows(r, p)
                                   /\ r.open[p] = d[p].open[p]
  <1>1. PICK o, w : o = [p \in Player |-> d[p].open[p]] /\ w = [p \in Player |-> d[p].window[p]]
    OBVIOUS
  <1>2. \A p \in Player : d[p] \in Belongings /\ d[p].at = b.at /\ d[p].in = b.in
    BY DEF Elsewhere
  <1>3. o \in Shown /\ w \in Shown /\ \A p \in Player : o[p] = d[p].open[p] /\ w[p] = d[p].window[p]
    BY <1>1, <1>2 DEF Belongings, Shown
  <1>4. Heard(b, d) = [b EXCEPT !.open = o, !.window = w]
    BY <1>1 DEF Heard
  <1>5. PICK r : r = [b EXCEPT !.open = o, !.window = w]
    OBVIOUS
  <1>6. r \in Belongings /\ r.at = b.at /\ r.in = b.in /\ r.open = o /\ r.window = w
    BY <1>3, <1>5 DEF Belongings
  <1>7. ASSUME NEW p \in Player
        PROVE  /\ Reaches(d[p], p) => Reaches(r, p)
               /\ Shows(d[p], p) => Shows(r, p)
    <2>1. PICK x : x = d[p]
      OBVIOUS
    <2>2. r.in = x.in /\ r.at = x.at /\ r.open[p] = x.open[p] /\ r.window[p] = x.window[p]
      BY <1>2, <1>3, <1>6, <2>1
    <2>3. \A c : InReach(r, p, c) = InReach(x, p, c)
      BY <2>2, SamePlaces
    <2> QED
      BY <2>1, <2>2, <2>3 DEF Reaches, Shows
  <1> QED
    BY <1>3, <1>4, <1>5, <1>6, <1>7

(***************************************************************************)
(* A bag moves.                                                            *)
(***************************************************************************)
MovesOnly(b, d, c) == \A x \in Bag \ {c} : d.in[x] = b.in[x]

LEMMA AroundFrame ==
    ASSUME NEW b \in Belongings, NEW d \in Belongings, NEW c \in Bag, MovesOnly(b, d, c),
           NEW k \in Bag, c \notin Around(b, k)
    PROVE  Around(d, k) = Around(b, k)
  <1>1. Around(d, k) \subseteq Around(b, k)
    <2>1. k \in Around(b, k) /\ \A x \in Around(b, k) \cap Bag : d.in[x] \in Around(b, k)
      BY AroundClosed DEF MovesOnly
    <2> QED
      BY <2>1, AroundLeast
  <1>2. Around(b, k) \subseteq Around(d, k)
    <2>1. k \in Around(d, k) /\ \A x \in Around(d, k) \cap Bag : b.in[x] \in Around(d, k)
      BY <1>1, AroundClosed DEF MovesOnly
    <2> QED
      BY <2>1, AroundLeast
  <1> QED
    BY <1>1, <1>2

LEMMA AroundFrameBack ==
    ASSUME NEW b \in Belongings, NEW d \in Belongings, NEW c \in Bag, MovesOnly(b, d, c), NEW k \in Bag
    PROVE  c \in Around(d, k) <=> c \in Around(b, k)
  <1>1. MovesOnly(d, b, c)
    BY DEF MovesOnly
  <1>2. c \notin Around(b, k) => c \notin Around(d, k)
    BY AroundFrame
  <1>3. c \notin Around(d, k) => c \notin Around(b, k)
    BY <1>1, AroundFrame
  <1> QED
    BY <1>2, <1>3

\* Whoever has a bag open, or one that is in it, is told of what becomes of it.
LEMMA OwnersAreTold ==
    ASSUME NEW b \in Belongings, NEW c \in Bag, NEW e \in Bag, c \in Around(b, e),
           NEW p \in Player, InReach(b, p, e)
    PROVE  p \in Told(b, b.in[c])
  <1>1. PICK x : x = GetTopParent(b, e)
    OBVIOUS
  <1>2. x \in Square \cup {p}
    BY <1>1 DEF InReach
  <1>3. Holder(b, e) = Holder(b, c)
    BY SameHolder
  <1>4. GetTopParent(b, c) = x
    BY <1>1, <1>3, HolderEffect
  <1>5. Square \cap Player = {}
    BY OpenContainersAssumption
  <1>6. CASE b.in[c] \in Bag
    <2>1. Holder(b, c) = Holder(b, b.in[c])
      BY <1>6, AroundUnfold DEF Holder
    <2>2. GetTopParent(b, b.in[c]) = x
      BY <1>4, <2>1, HolderEffect
    <2> QED
      BY <1>2, <1>5, <1>6, <2>2 DEF Told
  <1>7. CASE b.in[c] \notin Bag
    <2>1. Holder(b, c) = {b.in[c]}
      BY <1>7, AroundUnfold DEF Holder
    <2>2. b.in[c] = x
      BY <1>4, <2>1, HolderEffect
    <2> QED
      BY <1>2, <1>5, <1>7, <2>2 DEF Told
  <1> QED
    BY <1>6, <1>7

\* One player hears of a bag c that has gone elsewhere.
LEMMA PostRemoveEffect ==
    ASSUME NEW d \in Belongings, NEW p \in Player, NEW c \in Bag, Shows(d, p),
           \A cid \in Cid : LET e == d.open[p][cid]
                            IN e # None /\ c \notin Around(d, e) => InReach(d, p, e)
    PROVE  LET r == PostRemove(d, p, c)
           IN Elsewhere(d, r, p) /\ Reaches(r, p) /\ Shows(r, p)
  <1>1. PICK r : r = PostRemove(d, p, c)
    OBVIOUS
  <1>2. CASE InReach(d, p, c)
    <2>1. r = OnSendContainer(d, p, c)
      BY <1>1, <1>2 DEF PostRemove, InReach
    <2>2. Elsewhere(d, r, p) /\ r.open = d.open /\ Shows(r, p)
      BY <2>1, OnSendEffect
    <2>3. ASSUME NEW e \in Bag, c \in Around(d, e)
          PROVE  InReach(d, p, e)
      <3>1. Holder(d, e) = Holder(d, c)
        BY <2>3, SameHolder
      <3>2. GetTopParent(d, e) = GetTopParent(d, c) /\ (IsRemoved(d, e) <=> IsRemoved(d, c))
        BY <3>1, HolderEffect
      <3> QED
        BY <1>2, <3>2 DEF InReach, BagInRange
    <2>4. \A q, e : InReach(r, q, e) = InReach(d, q, e)
      BY <2>2, SamePlaces DEF Elsewhere
    <2>5. \A cid \in Cid : d.open[p][cid] \in Bag \cup {None}
      BY DEF Belongings, Shown
    <2>6. Reaches(r, p)
      BY <2>2, <2>3, <2>4, <2>5 DEF Reaches
    <2> QED
      BY <1>1, <2>2, <2>6
  <1>3. CASE ~ InReach(d, p, c)
    <2>1. PICK cs : cs = {c}
      OBVIOUS
    <2>2. r = AutoCloseContainers(d, p, cs)
      BY <1>1, <1>3, <2>1 DEF PostRemove, InReach
    <2>3. /\ Elsewhere(d, r, p) /\ Shows(r, p)
          /\ \A cid \in Cid : r.open[p][cid] # None =>
                r.open[p][cid] = d.open[p][cid] /\ \A x \in cs : x \notin Around(d, r.open[p][cid])
      BY <2>2, AutoCloseEffect
    <2>4. \A q, e : InReach(r, q, e) = InReach(d, q, e)
      BY <2>3, SamePlaces DEF Elsewhere
    <2>5. Reaches(r, p)
      BY <2>1, <2>3, <2>4 DEF Reaches
    <2> QED
      BY <1>1, <2>3, <2>5
  <1> QED
    BY <1>2, <1>3

LEMMA ElsewhereSame ==
    ASSUME NEW b \in Belongings, NEW p
    PROVE  Elsewhere(b, b, p)
  BY DEF Elsewhere

LEMMA MoveBagAgrees ==
    ASSUME NEW b, Agrees(b), NEW c \in Bag, NEW to \in Cylinder
    PROVE  Agrees(MoveBag(b, c, to))
  <1>1. b \in Belongings /\ \A p \in Player : Reaches(b, p) /\ Shows(b, p)
    BY DEF Agrees
  <1>2. PICK moved : moved = [b EXCEPT !.in[c] = to]
    OBVIOUS
  <1>3. moved \in Belongings /\ MovesOnly(b, moved, c)
    BY <1>1, <1>2 DEF Belongings, MovesOnly
  <1>4. moved.at = b.at /\ moved.open = b.open /\ moved.window = b.window
    BY <1>1, <1>2 DEF Belongings
  <1>5. ASSUME NEW p \in Player, NEW e \in Bag, InReach(b, p, e), c \notin Around(b, e)
        PROVE  InReach(moved, p, e)
    <2>1. Around(moved, e) = Around(b, e)
      BY <1>1, <1>3, <1>5, AroundFrame
    <2>2. GetTopParent(moved, e) = GetTopParent(b, e) /\ IsRemoved(moved, e) = IsRemoved(b, e)
      BY <2>1 DEF GetTopParent, IsRemoved
    <2> QED
      BY <1>4, <1>5, <2>2 DEF InReach, BagInRange
  <1>6. \A p \in Player : Shows(moved, p)
    BY <1>1, <1>4 DEF Shows
  <1>7. \A p \in Player, cid \in Cid : b.open[p][cid] \in Bag \cup {None}
    BY <1>1 DEF Belongings, Shown
  <1>8. ASSUME NEW p \in Player, NEW cid \in Cid, b.open[p][cid] # None
        PROVE  /\ InReach(b, p, b.open[p][cid]) /\ b.open[p][cid] \in Bag
               /\ c \notin Around(b, b.open[p][cid]) => InReach(moved, p, b.open[p][cid])
    BY <1>1, <1>5, <1>7, <1>8 DEF Reaches
  <1>9. PICK told : told = Told(b, b.in[c])
    OBVIOUS
  <1>10. ASSUME NEW p \in Player
         PROVE  LET r == PostRemove(moved, p, c)
                IN Elsewhere(moved, r, p) /\ Reaches(r, p) /\ Shows(r, p)
    <2>1. ASSUME NEW cid \in Cid, moved.open[p][cid] # None, c \notin Around(moved, moved.open[p][cid])
          PROVE  InReach(moved, p, moved.open[p][cid])
      <3>1. PICK e : e = b.open[p][cid]
        OBVIOUS
      <3>2. e = moved.open[p][cid] /\ e \in Bag
        BY <1>4, <1>8, <2>1, <3>1
      <3>3. c \notin Around(b, e)
        BY <1>1, <1>3, <2>1, <3>2, AroundFrameBack
      <3> QED
        BY <1>8, <2>1, <3>1, <3>2, <3>3
    <2> QED
      BY <1>3, <1>6, <2>1, PostRemoveEffect
  <1>11. ASSUME NEW p \in Player, p \notin told
         PROVE  Reaches(moved, p)
    BY <1>1, <1>4, <1>8, <1>9, <1>11, OwnersAreTold DEF Reaches
  <1>12. PICK heard : heard = [p \in Player |-> IF p \in told THEN PostRemove(moved, p, c) ELSE moved]
    OBVIOUS
  <1>13. \A p \in Player : /\ p \in told => heard[p] = PostRemove(moved, p, c)
                           /\ p \notin told => heard[p] = moved
    BY <1>12
  <1>14. \A p \in Player : Elsewhere(moved, heard[p], p) /\ Reaches(heard[p], p) /\ Shows(heard[p], p)
    BY <1>3, <1>6, <1>10, <1>11, <1>13, ElsewhereSame
  <1>15. PICK left : left = Heard(moved, heard)
    OBVIOUS
  <1>16. left \in Belongings /\ \A p \in Player : Reaches(left, p) /\ Shows(left, p)
    BY <1>3, <1>14, <1>15, HeardEffect
  <1>17. PICK seen : seen = IF to = None THEN {} ELSE Told(left, to)
    OBVIOUS
  <1>18. PICK shown : shown = [p \in Player |-> IF p \in seen THEN OnSendContainer(left, p, c) ELSE left]
    OBVIOUS
  <1>19. \A p \in Player : /\ p \in seen => shown[p] = OnSendContainer(left, p, c)
                           /\ p \notin seen => shown[p] = left
    BY <1>18
  <1>20. ASSUME NEW p \in Player
         PROVE  Elsewhere(left, shown[p], p) /\ Reaches(shown[p], p) /\ Shows(shown[p], p)
    <2>1. PICK r : r = OnSendContainer(left, p, c)
      OBVIOUS
    <2>2. Elsewhere(left, r, p) /\ r.open = left.open /\ Shows(r, p)
      BY <1>16, <2>1, OnSendEffect
    <2>3. \A q, e : InReach(r, q, e) = InReach(left, q, e)
      BY <2>2, SamePlaces DEF Elsewhere
    <2>4. Reaches(r, p)
      BY <1>16, <2>2, <2>3 DEF Reaches
    <2> QED
      BY <1>16, <1>19, <2>1, <2>2, <2>4, ElsewhereSame
  <1>21. PICK end : end = Heard(left, shown)
    OBVIOUS
  <1>22. end \in Belongings /\ \A p \in Player : Reaches(end, p) /\ Shows(end, p)
    BY <1>16, <1>20, <1>21, HeardEffect
  <1>23. MoveBag(b, c, to) = end
    BY <1>2, <1>9, <1>12, <1>15, <1>17, <1>18, <1>21 DEF MoveBag
  <1> QED
    BY <1>22, <1>23 DEF Agrees

(***************************************************************************)
(* A player walks.                                                         *)
(***************************************************************************)
LEMMA MovePlayerAgrees ==
    ASSUME NEW b, Agrees(b), NEW p \in Player, NEW to \in Square
    PROVE  Agrees(MovePlayer(b, p, to))
  <1>1. b \in Belongings /\ \A q \in Player : Reaches(b, q) /\ Shows(b, q)
    BY DEF Agrees
  <1>2. PICK moved : moved = [b EXCEPT !.at[p] = to]
    OBVIOUS
  <1>3. /\ moved \in Belongings /\ moved.in = b.in /\ moved.open = b.open /\ moved.window = b.window
        /\ \A q \in Player \ {p} : moved.at[q] = b.at[q]
    BY <1>1, <1>2 DEF Belongings
  <1>4. \A e : /\ Around(moved, e) = Around(b, e) /\ IsRemoved(moved, e) = IsRemoved(b, e)
               /\ GetTopParent(moved, e) = GetTopParent(b, e)
    BY <1>3, SamePlaces
  <1>5. Player \cap Square = {}
    BY OpenContainersAssumption
  <1>6. ASSUME NEW q \in Player \ {p}
        PROVE  Reaches(moved, q)
    <2>1. ASSUME NEW e, InReach(b, q, e)
          PROVE  InReach(moved, q, e)
      <3>1. GetTopParent(b, e) \in Square \cup {q}
        BY <2>1 DEF InReach
      <3>2. GetTopParent(b, e) \in Player => moved.at[GetTopParent(b, e)] = b.at[GetTopParent(b, e)]
        BY <1>3, <1>5, <3>1
      <3>3. BagInRange(moved, q, e)
        BY <1>3, <1>4, <2>1, <3>2 DEF InReach, BagInRange
      <3> QED
        BY <1>4, <2>1, <3>3 DEF InReach
    <2> QED
      BY <1>1, <1>3, <2>1 DEF Reaches
  <1>7. \A q \in Player : Shows(moved, q)
    BY <1>1, <1>3 DEF Shows
  <1>8. PICK far : far = {c \in Range(b.open[p]) \ {None} : ~BagInRange(moved, p, c)}
    OBVIOUS
  <1>9. ASSUME NEW cid \in Cid, b.open[p][cid] # None, b.open[p][cid] \notin far
        PROVE  InReach(moved, p, b.open[p][cid])
    <2>1. b.open[p][cid] \in Range(b.open[p])
      BY <1>1 DEF Range, Belongings, Shown
    <2>2. BagInRange(moved, p, b.open[p][cid])
      BY <1>8, <1>9, <2>1
    <2>3. InReach(b, p, b.open[p][cid])
      BY <1>1, <1>9 DEF Reaches
    <2> QED
      BY <1>4, <2>2, <2>3 DEF InReach
  <1>10. CASE far = {}
    <2>1. MovePlayer(b, p, to) = moved
      BY <1>2, <1>8, <1>10 DEF MovePlayer
    <2>2. Reaches(moved, p)
      BY <1>3, <1>9, <1>10 DEF Reaches
    <2> QED
      BY <1>3, <1>6, <1>7, <2>1, <2>2 DEF Agrees
  <1>11. CASE far # {}
    <2>1. PICK d : d = AutoCloseContainers(moved, p, far)
      OBVIOUS
    <2>2. MovePlayer(b, p, to) = d
      BY <1>2, <1>8, <1>11, <2>1 DEF MovePlayer
    <2>3. /\ Elsewhere(moved, d, p) /\ Shows(d, p)
          /\ \A cid \in Cid : d.open[p][cid] # None =>
                /\ d.open[p][cid] = moved.open[p][cid]
                /\ \A c \in far : c \notin Around(moved, d.open[p][cid])
      BY <1>3, <1>7, <2>1, AutoCloseEffect
    <2>4. \A q, e : InReach(d, q, e) = InReach(moved, q, e)
      BY <2>3, SamePlaces DEF Elsewhere
    <2>5. ASSUME NEW cid \in Cid, d.open[p][cid] # None
          PROVE  InReach(d, p, d.open[p][cid])
      <3>1. PICK e : e = d.open[p][cid]
        OBVIOUS
      <3>2. e = b.open[p][cid] /\ e \in Bag
        BY <1>1, <1>3, <2>3, <2>5, <3>1 DEF Belongings, Shown
      <3>3. e \in Around(moved, e)
        BY <1>3, <3>2, AroundClosed
      <3>4. e \notin far
        BY <2>3, <2>5, <3>1, <3>3
      <3> QED
        BY <1>9, <2>4, <2>5, <3>1, <3>2, <3>4
    <2>6. Reaches(d, p)
      BY <2>5 DEF Reaches
    <2>7. \A q \in Player \ {p} : Reaches(d, q) /\ Shows(d, q)
      BY <1>3, <1>6, <1>7, <2>3, <2>4 DEF Elsewhere, Reaches, Shows
    <2> QED
      BY <2>2, <2>3, <2>6, <2>7 DEF Elsewhere, Agrees
  <1> QED
    BY <1>10, <1>11

(***************************************************************************)
(* A player uses containers.                                               *)
(***************************************************************************)
\* What is in something within reach is within reach.
LEMMA InsideReach ==
    ASSUME NEW b \in Belongings, NEW p \in Player, NEW c \in Bag, b.in[c] \in Bag
    PROVE  InReach(b, p, b.in[c]) <=> InReach(b, p, c)
  <1>1. Holder(b, c) = Holder(b, b.in[c])
    BY AroundUnfold DEF Holder
  <1>2. GetTopParent(b, c) = GetTopParent(b, b.in[c]) /\ (IsRemoved(b, c) <=> IsRemoved(b, b.in[c]))
    BY <1>1, HolderEffect
  <1> QED
    BY <1>2 DEF InReach, BagInRange

LEMMA UsableIsInReach ==
    ASSUME NEW b, Agrees(b), NEW p \in Player, NEW c \in Bag, MayUse(b, p, c)
    PROVE  InReach(b, p, c)
  <1>1. b \in Belongings /\ Reaches(b, p)
    BY DEF Agrees
  <1>2. /\ Player \cap Bag = {} /\ Square \cap Bag = {} /\ Player \cap Square = {}
        /\ None \notin Player /\ None \notin Square /\ Square \subseteq Nat
    BY OpenContainersAssumption
  <1>3. b.at[p] \in Square
    BY <1>1 DEF Belongings
  <1>4. CASE b.in[c] \notin Bag
    <2>1. Holder(b, c) = {b.in[c]}
      BY <1>1, <1>4, AroundUnfold DEF Holder
    <2>2. GetTopParent(b, c) = b.in[c] /\ (IsRemoved(b, c) <=> b.in[c] = None)
      BY <2>1, HolderEffect
    <2>3. b.in[c] = p \/ (b.in[c] \in Square /\ InRange(b.at[p], b.in[c]))
      BY <1>1, <1>4 DEF MayUse, Belongings, Shown
    <2>4. InRange(b.at[p], b.at[p])
      <3>1. PICK x \in Nat : x = b.at[p]
        BY <1>2, <1>3
      <3>2. x - x \in -1 .. 1
        OBVIOUS
      <3> QED
        BY <3>1, <3>2 DEF InRange
    <2> QED
      BY <1>2, <2>2, <2>3, <2>4 DEF InReach, BagInRange
  <1>5. CASE b.in[c] \in Bag
    <2>1. InReach(b, p, b.in[c])
      BY <1>1, <1>2, <1>5 DEF MayUse, Reaches
    <2> QED
      BY <1>1, <1>5, <2>1, InsideReach
  <1> QED
    BY <1>4, <1>5

\* A player opens c, which is within reach, under cid.
LEMMA OpenAgrees ==
    ASSUME NEW b, Agrees(b), NEW p \in Player, NEW cid \in Cid, NEW c \in Bag, InReach(b, p, c)
    PROVE  /\ AddContainer(b, p, cid, c) \in Belongings
           /\ Agrees(OnSendContainer(AddContainer(b, p, cid, c), p, c))
           /\ Agrees([AddContainer(b, p, cid, c) EXCEPT !.window[p][cid] = c])
  <1>1. b \in Belongings /\ Reaches(b, p) /\ Shows(b, p)
    BY DEF Agrees
  <1>2. PICK d : d = AddContainer(b, p, cid, c)
    OBVIOUS
  <1>3. /\ Elsewhere(b, d, p) /\ d.window = b.window
        /\ d.open[p][cid] = c /\ \A n \in Cid \ {cid} : d.open[p][n] = b.open[p][n]
    BY <1>1, <1>2, AddContainerEffect DEF AddContainer
  <1>4. d \in Belongings
    BY <1>3 DEF Elsewhere
  <1>5. \A q, e : InReach(d, q, e) = InReach(b, q, e)
    BY <1>3, SamePlaces DEF Elsewhere
  <1>6. Reaches(d, p)
    BY <1>1, <1>3, <1>5 DEF Reaches
  <1>7. ASSUME NEW r, Elsewhere(d, r, p), r.open = d.open,
               r.window[p][cid] = c,
               \A n \in Cid \ {cid} : r.window[p][n] = b.window[p][n] \/ r.window[p][n] = d.open[p][n]
        PROVE  Agrees(r)
    <2>1. Elsewhere(b, r, p)
      BY <1>3, <1>7 DEF Elsewhere
    <2>2. \A q, e : InReach(r, q, e) = InReach(d, q, e)
      BY <1>7, SamePlaces DEF Elsewhere
    <2>3. Reaches(r, p)
      BY <1>6, <1>7, <2>2 DEF Reaches
    <2>4. Shows(r, p)
      BY <1>1, <1>3, <1>7 DEF Shows
    <2> QED
      BY <2>1, <2>3, <2>4, ElsewhereAgrees
  <1>8. Agrees(OnSendContainer(d, p, c))
    <2>1. PICK r : r = OnSendContainer(d, p, c)
      OBVIOUS
    <2>2. /\ Elsewhere(d, r, p) /\ r.open = d.open
          /\ \A n \in Cid : /\ d.open[p][n] = c => r.window[p][n] = c
                            /\ d.open[p][n] # c => r.window[p][n] = d.window[p][n]
      BY <1>4, <2>1, OnSendEffect
    <2> QED
      BY <1>3, <1>7, <2>1, <2>2
  <1>9. Agrees([d EXCEPT !.window[p][cid] = c])
    <2>1. PICK r : r = [d EXCEPT !.window[p][cid] = c]
      OBVIOUS
    <2>2. /\ Elsewhere(d, r, p) /\ r.open = d.open
          /\ r.window[p][cid] = c /\ \A n \in Cid \ {cid} : r.window[p][n] = d.window[p][n]
      BY <1>4, <2>1, SendEffect
    <2> QED
      BY <1>3, <1>7, <2>1, <2>2
  <1> QED
    BY <1>2, <1>4, <1>8, <1>9

LEMMA CloseAgrees ==
    ASSUME NEW b, Agrees(b), NEW p \in Player, NEW cid \in Cid
    PROVE  Agrees(SendCloseContainer(CloseContainer(b, p, cid), p, cid))
  <1>1. b \in Belongings /\ Reaches(b, p) /\ Shows(b, p)
    BY DEF Agrees
  <1>2. PICK d : d = CloseContainer(b, p, cid)
    OBVIOUS
  <1>3. /\ Elsewhere(b, d, p) /\ d.window = b.window
        /\ d.open[p][cid] = None /\ \A n \in Cid \ {cid} : d.open[p][n] = b.open[p][n]
    BY <1>1, <1>2, AddContainerEffect DEF CloseContainer
  <1>4. d \in Belongings
    BY <1>3 DEF Elsewhere
  <1>5. PICK r : r = SendCloseContainer(d, p, cid)
    OBVIOUS
  <1>6. /\ Elsewhere(d, r, p) /\ r.open = d.open
        /\ r.window[p][cid] = None /\ \A n \in Cid \ {cid} : r.window[p][n] = d.window[p][n]
    BY <1>4, <1>5, SendEffect DEF SendCloseContainer
  <1>7. Elsewhere(b, r, p)
    BY <1>3, <1>6 DEF Elsewhere
  <1>8. \A q, e : InReach(r, q, e) = InReach(b, q, e)
    BY <1>7, SamePlaces DEF Elsewhere
  <1>9. Reaches(r, p) /\ Shows(r, p)
    BY <1>1, <1>3, <1>6, <1>8 DEF Reaches, Shows
  <1> QED
    BY <1>2, <1>5, <1>7, <1>9, ElsewhereAgrees

\* All windows of a container close, and the container under the number n.
LEMMA UseAgainAgrees ==
    ASSUME NEW b, Agrees(b), NEW p \in Player, NEW c, NEW n \in CidsOf(b, p, c)
    PROVE  Agrees(CloseContainer(OnCloseContainer(b, p, c), p, n))
  <1>1. b \in Belongings /\ Reaches(b, p) /\ Shows(b, p)
    BY DEF Agrees
  <1>2. n \in Cid
    BY DEF CidsOf
  <1>3. PICK cids : cids = CidsOf(b, p, c)
    OBVIOUS
  <1>4. PICK d : d = CloseWindows(b, p, cids)
    OBVIOUS
  <1>5. /\ Elsewhere(b, d, p) /\ d.open = b.open
        /\ \A cid \in Cid : /\ cid \in cids => d.window[p][cid] = None
                            /\ cid \notin cids => d.window[p][cid] = b.window[p][cid]
    BY <1>1, <1>4, CloseWindowsEffect
  <1>6. d \in Belongings
    BY <1>5 DEF Elsewhere
  <1>7. PICK r : r = CloseContainer(d, p, n)
    OBVIOUS
  <1>8. /\ Elsewhere(d, r, p) /\ r.window = d.window
        /\ r.open[p][n] = None /\ \A m \in Cid \ {n} : r.open[p][m] = d.open[p][m]
    BY <1>2, <1>6, <1>7, AddContainerEffect DEF CloseContainer
  <1>9. Elsewhere(b, r, p)
    BY <1>5, <1>8 DEF Elsewhere
  <1>10. \A q, e : InReach(r, q, e) = InReach(b, q, e)
    BY <1>9, SamePlaces DEF Elsewhere
  <1>11. Reaches(r, p)
    BY <1>1, <1>5, <1>8, <1>10 DEF Reaches
  <1>12. Shows(r, p)
    BY <1>1, <1>3, <1>5, <1>8 DEF Shows
  <1>13. Agrees(r)
    BY <1>9, <1>11, <1>12, ElsewhereAgrees
  <1> QED
    BY <1>3, <1>4, <1>7, <1>13 DEF OnCloseContainer

-----------------------------------------------------------------------------
(***************************************************************************)
(* The steps.                                                              *)
(***************************************************************************)
LEMMA BecomeAgrees ==
    ASSUME NEW b, Agrees(b), Become(b)
    PROVE  OpenInv'
  <1>1. b = [at |-> b.at, in |-> b.in, open |-> b.open, window |-> b.window]
    BY DEF Agrees, Belongings
  <1>2. Inventories' = b
    BY <1>1 DEF Become, Inventories
  <1> QED
    BY <1>2 DEF OpenInv

LEMMA BooksHere ==
    /\ Inventories.at = spotOf /\ Inventories.in = parent
    /\ Inventories.open = openContainers /\ Inventories.window = window
  BY DEF Inventories

LEMMA OpenInitAgrees == OpenInit => OpenInv
  <1> SUFFICES ASSUME OpenInit
               PROVE  OpenInv
    OBVIOUS
  <1>1. PICK b : b = Inventories
    OBVIOUS
  <1>2. /\ NoneOpen \in Shown /\ \A p \in Player, cid \in Cid : NoneOpen[p][cid] = None
    BY DEF NoneOpen, Shown
  <1>3. /\ b \in Belongings
        /\ \A p \in Player, cid \in Cid : b.open[p][cid] = None /\ b.window[p][cid] = None
    BY <1>1, <1>2 DEF OpenInit, Inventories, Belongings, Cylinder
  <1> QED
    BY <1>1, <1>3 DEF OpenInv, Agrees, Reaches, Shows

LEMMA UseStep ==
    ASSUME OpenInv, NEW p \in Player, NEW c \in Bag, NEW cid \in Cid, UseContainer(p, c, cid)
    PROVE  OpenInv'
  <1>1. PICK b : b = Inventories
    OBVIOUS
  <1>2. Agrees(b) /\ MayUse(b, p, c)
    BY <1>1 DEF OpenInv, UseContainer
  <1>3. InReach(b, p, c)
    BY <1>2, UsableIsInReach
  <1>4. PICK cids : cids = CidsOf(b, p, c)
    OBVIOUS
  <1>5. ASSUME NEW n \in cids, Become(CloseContainer(OnCloseContainer(b, p, c), p, n))
        PROVE  OpenInv'
    BY <1>2, <1>4, <1>5, UseAgainAgrees, BecomeAgrees
  <1>6. CASE Become(OnSendContainer(AddContainer(b, p, cid, c), p, c))
    BY <1>2, <1>3, <1>6, OpenAgrees, BecomeAgrees
  <1> QED
    BY <1>1, <1>4, <1>5, <1>6 DEF UseContainer

LEMMA UpStep ==
    ASSUME OpenInv, NEW p \in Player, NEW cid \in Cid, PlayerMoveUpContainer(p, cid)
    PROVE  OpenInv'
  <1>1. PICK b : b = Inventories
    OBVIOUS
  <1>2. PICK c : c = b.open[p][cid]
    OBVIOUS
  <1>3. b \in Belongings /\ Reaches(b, p) /\ Agrees(b)
    BY <1>1 DEF OpenInv, Agrees
  <1>4. /\ c # None /\ b.in[c] \in Bag
        /\ Become([AddContainer(b, p, cid, b.in[c]) EXCEPT !.window[p][cid] = b.in[c]])
    BY <1>1, <1>2, BooksHere DEF PlayerMoveUpContainer
  <1>5. c \in Bag /\ InReach(b, p, c)
    BY <1>2, <1>3, <1>4 DEF Belongings, Shown, Reaches
  <1>6. InReach(b, p, b.in[c])
    BY <1>3, <1>4, <1>5, InsideReach
  <1>7. Agrees([AddContainer(b, p, cid, b.in[c]) EXCEPT !.window[p][cid] = b.in[c]])
    BY <1>3, <1>4, <1>6, OpenAgrees
  <1> QED
    BY <1>4, <1>7, BecomeAgrees

LEMMA MoveBagStep ==
    ASSUME OpenInv, NEW p \in Player, NEW c \in Bag, NEW to \in Square \cup Bag \cup {p}, PlayerMoveBag(p, c, to)
    PROVE  OpenInv'
  <1>1. to \in Cylinder
    BY DEF Cylinder
  <1>2. Agrees(Inventories)
    BY DEF OpenInv
  <1>3. Become(MoveBag(Inventories, c, to))
    BY DEF PlayerMoveBag
  <1> QED
    BY <1>1, <1>2, <1>3, MoveBagAgrees, BecomeAgrees

LEMMA RemoveBagStep ==
    ASSUME OpenInv, NEW c \in Bag, RemoveBag(c)
    PROVE  OpenInv'
  <1>1. None \in Cylinder
    BY DEF Cylinder
  <1>2. Agrees(Inventories)
    BY DEF OpenInv
  <1>3. Become(MoveBag(Inventories, c, None))
    BY DEF RemoveBag
  <1> QED
    BY <1>1, <1>2, <1>3, MoveBagAgrees, BecomeAgrees

LEMMA ReplaceStep ==
    ASSUME OpenInv, NEW p \in Player, ReplaceClient(p)
    PROVE  OpenInv'
  <1>1. PICK b : b = Inventories
    OBVIOUS
  <1>2. b \in Belongings /\ \A q \in Player : Reaches(b, q) /\ Shows(b, q)
    BY <1>1 DEF OpenInv, Agrees
  <1>3. PICK w : w = [b.window EXCEPT ![p] = NoneOpen[p]]
    OBVIOUS
  <1>4. /\ w \in Shown /\ \A q \in Player \ {p} : w[q] = b.window[q]
        /\ \A cid \in Cid : w[p][cid] = None
    BY <1>2, <1>3 DEF Belongings, Shown, NoneOpen
  <1>5. PICK d : d = [b EXCEPT !.window = w]
    OBVIOUS
  <1>6. d \in Belongings /\ d.at = b.at /\ d.in = b.in /\ d.open = b.open /\ d.window = w
    BY <1>2, <1>4, <1>5 DEF Belongings
  <1>7. \A q, e : InReach(d, q, e) = InReach(b, q, e)
    BY <1>6, SamePlaces
  <1>8. \A q \in Player : Reaches(d, q) /\ Shows(d, q)
    BY <1>2, <1>4, <1>6, <1>7 DEF Reaches, Shows
  <1>9. Become(d)
    BY <1>1, <1>3, <1>6, BooksHere DEF ReplaceClient, Become
  <1> QED
    BY <1>6, <1>8, <1>9, BecomeAgrees DEF Agrees

LEMMA OpenStep == OpenInv /\ [OpenNext]_openVars => OpenInv'
  <1> SUFFICES ASSUME OpenInv, [OpenNext]_openVars
               PROVE  OpenInv'
    OBVIOUS
  <1>1. Agrees(Inventories)
    BY DEF OpenInv
  <1>2. ASSUME NEW p \in Player, ReplaceClient(p)
        PROVE  OpenInv'
    BY <1>2, ReplaceStep
  <1>3. ASSUME NEW p \in Player, NEW to \in Square, PlayerWalks(p, to)
        PROVE  OpenInv'
    <2>1. Become(MovePlayer(Inventories, p, to))
      BY <1>3 DEF PlayerWalks
    <2> QED
      BY <1>1, <2>1, MovePlayerAgrees, BecomeAgrees
  <1>4. ASSUME NEW p \in Player, NEW cid \in Cid, PlayerCloseContainer(p, cid)
        PROVE  OpenInv'
    <2>1. Become(SendCloseContainer(CloseContainer(Inventories, p, cid), p, cid))
      BY <1>4 DEF PlayerCloseContainer
    <2> QED
      BY <1>1, <2>1, CloseAgrees, BecomeAgrees
  <1>5. ASSUME NEW p \in Player, NEW cid \in Cid, PlayerMoveUpContainer(p, cid)
        PROVE  OpenInv'
    BY <1>5, UpStep
  <1>6. ASSUME NEW p \in Player, NEW c \in Bag, NEW cid \in Cid, UseContainer(p, c, cid)
        PROVE  OpenInv'
    BY <1>6, UseStep
  <1>7. ASSUME NEW p \in Player, NEW c \in Bag, NEW to \in Square \cup Bag \cup {p}, PlayerMoveBag(p, c, to)
        PROVE  OpenInv'
    BY <1>7, MoveBagStep
  <1>8. ASSUME NEW c \in Bag, RemoveBag(c)
        PROVE  OpenInv'
    BY <1>8, RemoveBagStep
  <1>9. CASE UNCHANGED openVars
    <2>1. Inventories' = Inventories
      BY <1>9 DEF openVars, Inventories
    <2> QED
      BY <1>1, <2>1 DEF OpenInv
  <1> QED
    BY <1>2, <1>3, <1>4, <1>5, <1>6, <1>7, <1>8, <1>9 DEF OpenNext

LEMMA OpenInvReach == OpenInv => OpenInReach
  BY BooksHere DEF OpenInv, Agrees, Reaches, Shows, OpenInReach

\* What a player has open is in his reach, for any players, bags, squares and
\* numbers (OpenInReach of OpenContainers).
THEOREM OpenInReachCorrect == OpenSpec => []OpenInReach
  <1>1. OpenInit => OpenInv
    BY OpenInitAgrees
  <1>2. OpenInv /\ [OpenNext]_openVars => OpenInv'
    BY OpenStep
  <1>3. OpenInv => OpenInReach
    BY OpenInvReach
  <1> QED
    BY <1>1, <1>2, <1>3, PTL DEF OpenSpec

(***************************************************************************)
(* A spawn: the inductive invariant, of the books b.  Where the references *)
(* to a monster come from, and when a check is due.                        *)
(***************************************************************************)
Life == [where : {"new", "world", "gone", "refused"}, inZone : BOOLEAN, spawn : BOOLEAN,
         released : BOOLEAN, refs : Int]
PlaceOf == (SpawnId \cup {0}) \X SpawnedMonster
SpawnBooks == [mon : [SpawnedMonster -> Life], spawned : SUBSET PlaceOf, due : SUBSET SpawnId, odd : Int]

IsCounted(b, m) == \E pair \in b.spawned : pair[2] = m
Once(b, m) == \A pair, other \in b.spawned : pair[2] = m /\ other[2] = m => pair = other
MonsterAgrees(b, m) ==
    LET x == b.mon[m]
    IN /\ Once(b, m)
       /\ IsCounted(b, m) => x.where \in {"world", "gone"} /\ x.spawn
       /\ x.where = "new" => x.refs = 0
       /\ x.where = "gone" => x.released \/ IsCounted(b, m)
       /\ x.released => x.where = "gone"
       /\ x.where # "refused" => x.refs = Count(x.where = "world" \/ x.released) + Count(IsCounted(b, m))
SpawnAgrees(b) == b \in SpawnBooks /\ \A m \in SpawnedMonster : MonsterAgrees(b, m)

AllAlive(b) == \A pair \in b.spawned : b.mon[pair[2]].where = "world"
Enough(b) == Cardinality(b.spawned) >= Cardinality(SpawnId)

SpawnsInv ==
    /\ SpawnAgrees(SpawnBook)
    /\ checkSpawnEvent \in BOOLEAN /\ neglected \in BOOLEAN
    /\ ~ checkSpawnEvent => AllAlive(SpawnBook)
    /\ started /\ ~ neglected /\ ~ checkSpawnEvent => Enough(SpawnBook)

LEMMA NewMonsterParts ==
    /\ NewMonster \in Life /\ NewMonster.where = "new" /\ NewMonster.refs = 0
    /\ ~ NewMonster.released /\ ~ NewMonster.spawn
  BY DEF NewMonster, Life

LEMMA PlacesFinite ==
    /\ IsFiniteSet(SpawnId) /\ IsFiniteSet(SpawnedMonster)
    /\ \A S \in SUBSET PlaceOf : IsFiniteSet(S)
  <1>1. IsFiniteSet(SpawnId) /\ IsFiniteSet(SpawnedMonster)
    BY SpawnsAssumption
  <1>2. IsFiniteSet(SpawnId \cup {0})
    BY <1>1, FS_AddElement
  <1>3. IsFiniteSet(PlaceOf)
    BY <1>1, <1>2, FS_Product DEF PlaceOf
  <1> QED
    BY <1>1, <1>3, FS_Subset

\* The number of entries a monster has among those in S: it has one entry at most.
LEMMA EntriesEffect ==
    ASSUME NEW S, NEW m, \A pair, other \in S : pair[2] = m /\ other[2] = m => pair = other
    PROVE  Cardinality({pair \in S : pair[2] = m}) = Count(\E pair \in S : pair[2] = m)
  <1>1. CASE \E pair \in S : pair[2] = m
    <2>1. PICK x \in S : x[2] = m
      BY <1>1
    <2>2. {pair \in S : pair[2] = m} = {x}
      BY <2>1
    <2> QED
      BY <1>1, <2>2, FS_Singleton DEF Count
  <1>2. CASE ~ \E pair \in S : pair[2] = m
    <2>1. {pair \in S : pair[2] = m} = {}
      BY <1>2
    <2> QED
      BY <1>2, <2>1, FS_EmptySet DEF Count
  <1> QED
    BY <1>1, <1>2

(***************************************************************************)
(* What the functions of a spawn change.                                   *)
(***************************************************************************)
LEMMA PopulatedAgrees ==
    ASSUME NEW b, SpawnAgrees(b), NEW came \in SUBSET SpawnId, NEW refused \in SUBSET SpawnId,
           came \cap refused = {},
           NEW who \in [came \cup refused -> Unused(b)],
           \A i, j \in came \cup refused : who[i] = who[j] => i = j
    PROVE  LET d == Populated(b, came, refused, who)
           IN /\ SpawnAgrees(d) /\ b.spawned \subseteq d.spawned
              /\ AllAlive(b) => AllAlive(d)
  <1>1. PICK arrive : arrive = {who[id] : id \in came}
    OBVIOUS
  <1>2. PICK leak : leak = {who[id] : id \in refused}
    OBVIOUS
  <1>3. PICK new : new = {<<id, who[id]>> : id \in came}
    OBVIOUS
  <1>4. /\ arrive \subseteq SpawnedMonster /\ leak \subseteq SpawnedMonster /\ arrive \cap leak = {}
        /\ \A m \in arrive \cup leak : b.mon[m].where = "new"
    BY <1>1, <1>2 DEF Unused
  <1>5. /\ new \subseteq PlaceOf
        /\ \A pair \in new : pair[2] \in arrive
        /\ \A pair, other \in new : pair[2] = other[2] => pair = other
        /\ \A m \in arrive : \E pair \in new : pair[2] = m
    <2>1. \A id \in came : id \in SpawnId /\ who[id] \in SpawnedMonster
      BY DEF Unused
    <2>2. \A id \in came : <<id, who[id]>> \in new
      BY <1>3
    <2>3. \A pair \in new : \E id \in came : pair = <<id, who[id]>>
      BY <1>3
    <2>4. new \subseteq PlaceOf
      BY <2>1, <2>3 DEF PlaceOf
    <2>5. \A id \in came : who[id] \in arrive
      BY <1>1
    <2>6. \A pair \in new : pair[2] \in arrive
      BY <2>3, <2>5
    <2>7. \A pair, other \in new : pair[2] = other[2] => pair = other
      BY <2>3
    <2>8. ASSUME NEW m \in arrive
          PROVE  \E pair \in new : pair[2] = m
      <3>1. PICK id \in came : m = who[id]
        BY <1>1
      <3>2. <<id, who[id]>>[2] = m
        BY <3>1
      <3> QED
        BY <2>2, <3>2
    <2> QED
      BY <2>4, <2>6, <2>7, <2>8
  <1>6. PICK mon : mon = [m \in SpawnedMonster |-> IF m \in arrive THEN Spawned("world")
                                                   ELSE IF m \in leak THEN Spawned("refused") ELSE b.mon[m]]
    OBVIOUS
  <1>7. /\ Spawned("world") \in Life /\ Spawned("refused") \in Life
        /\ Spawned("world").where = "world" /\ Spawned("refused").where = "refused"
        /\ Spawned("world").refs = 2 /\ Spawned("world").spawn
        /\ ~ Spawned("world").released /\ ~ Spawned("refused").released
    <2>1. Spawned("world") \in Life /\ Spawned("refused") \in Life
      BY DEF Spawned, Life
    <2>2. /\ Spawned("world").where = "world" /\ Spawned("refused").where = "refused"
          /\ Spawned("world").refs = 2
      BY DEF Spawned
    <2>3. Spawned("world").spawn /\ ~ Spawned("world").released /\ ~ Spawned("refused").released
      BY DEF Spawned
    <2> QED
      BY <2>1, <2>2, <2>3
  <1>8. /\ mon \in [SpawnedMonster -> Life]
        /\ \A m \in SpawnedMonster : /\ m \in arrive => mon[m] = Spawned("world")
                                     /\ m \in leak => mon[m] = Spawned("refused")
                                     /\ m \notin arrive \cup leak => mon[m] = b.mon[m]
    BY <1>4, <1>6, <1>7 DEF SpawnAgrees, SpawnBooks
  <1>9. PICK d : d = Populated(b, came, refused, who)
    OBVIOUS
  <1>10. d = [b EXCEPT !.mon = mon, !.spawned = @ \cup new, !.due = @ \ (came \cup refused)]
    BY <1>1, <1>2, <1>3, <1>6, <1>9 DEF Populated
  <1>11. d \in SpawnBooks /\ d.mon = mon /\ d.spawned = b.spawned \cup new
    BY <1>5, <1>8, <1>10 DEF SpawnAgrees, SpawnBooks
  <1>12. ASSUME NEW m \in SpawnedMonster
         PROVE  MonsterAgrees(d, m)
    <2>1. MonsterAgrees(b, m)
      BY DEF SpawnAgrees
    <2>2. CASE m \in arrive
      <3>1. ~ IsCounted(b, m)
        BY <1>4, <2>1, <2>2 DEF MonsterAgrees
      <3>2. IsCounted(d, m) /\ Once(d, m)
        BY <1>5, <1>11, <2>2, <3>1 DEF IsCounted, Once
      <3>3. d.mon[m] = Spawned("world")
        BY <1>8, <1>11, <2>2
      <3> QED
        BY <1>7, <3>2, <3>3 DEF MonsterAgrees, Count
    <2>3. CASE m \in leak
      <3>1. ~ IsCounted(b, m)
        BY <1>4, <2>1, <2>3 DEF MonsterAgrees
      <3>2. ~ IsCounted(d, m) /\ Once(d, m)
        BY <1>4, <1>5, <1>11, <2>3, <3>1 DEF IsCounted, Once
      <3>3. d.mon[m] = Spawned("refused")
        BY <1>8, <1>11, <2>3
      <3> QED
        BY <1>7, <3>2, <3>3 DEF MonsterAgrees
    <2>4. CASE m \notin arrive \cup leak
      <3>1. (IsCounted(d, m) <=> IsCounted(b, m)) /\ (Once(b, m) => Once(d, m))
        BY <1>5, <1>11, <2>4 DEF IsCounted, Once
      <3>2. d.mon[m] = b.mon[m]
        BY <1>8, <1>11, <2>4
      <3> QED
        BY <2>1, <3>1, <3>2 DEF MonsterAgrees, Count
    <2> QED
      BY <2>2, <2>3, <2>4
  <1>13. ASSUME AllAlive(b), NEW pair \in d.spawned
         PROVE  d.mon[pair[2]].where = "world"
    <2>1. CASE pair \in new
      BY <1>4, <1>5, <1>7, <1>8, <1>11, <2>1
    <2>2. CASE pair \in b.spawned
      <3>1. b.mon[pair[2]].where = "world" /\ pair[2] \in SpawnedMonster
        BY <1>13, <2>2 DEF AllAlive, SpawnAgrees, SpawnBooks, PlaceOf
      <3>2. pair[2] \notin arrive \cup leak
        BY <1>4, <3>1
      <3> QED
        BY <1>8, <1>11, <3>1, <3>2
    <2> QED
      BY <1>11, <1>13, <2>1, <2>2
  <1> QED
    BY <1>9, <1>11, <1>12, <1>13 DEF SpawnAgrees, AllAlive

LEMMA BookWritten ==
    ASSUME NEW b \in SpawnBooks, WriteSpawn(b)
    PROVE  SpawnBook' = b
  BY DEF WriteSpawn, SpawnBook, SpawnBooks

LEMMA SpawnMonstersAgrees ==
    ASSUME NEW b, SpawnAgrees(b), NEW ids \in SUBSET SpawnId, SpawnMonsters(b, ids)
    PROVE  /\ SpawnAgrees(SpawnBook') /\ b.spawned \subseteq SpawnBook.spawned'
           /\ AllAlive(b) => AllAlive(SpawnBook')
  <1>1. PICK came \in SUBSET ids : \E refused \in SUBSET (ids \ came) :
            \E who \in [came \cup refused -> Unused(b)] :
                LET odd == b.odd + Cardinality(ids \ came)
                IN /\ \A i, j \in came \cup refused : who[i] = who[j] => i = j
                   /\ odd <= MaxOddities
                   /\ WriteSpawn([Populated(b, came, refused, who) EXCEPT !.odd = odd])
    BY DEF SpawnMonsters
  <1>10. PICK refused \in SUBSET (ids \ came) :
            \E who \in [came \cup refused -> Unused(b)] :
                LET odd == b.odd + Cardinality(ids \ came)
                IN /\ \A i, j \in came \cup refused : who[i] = who[j] => i = j
                   /\ odd <= MaxOddities
                   /\ WriteSpawn([Populated(b, came, refused, who) EXCEPT !.odd = odd])
    BY <1>1
  <1>2. PICK who \in [came \cup refused -> Unused(b)] :
            /\ \A i, j \in came \cup refused : who[i] = who[j] => i = j
            /\ WriteSpawn([Populated(b, came, refused, who) EXCEPT !.odd = b.odd + Cardinality(ids \ came)])
    BY <1>10
  <1>3. PICK odd \in Int : odd = b.odd + Cardinality(ids \ came)
    <2>1. IsFiniteSet(ids \ came)
      BY PlacesFinite, FS_Subset
    <2>2. Cardinality(ids \ came) \in Nat
      BY <2>1, FS_CardinalityType
    <2> QED
      BY <2>2 DEF SpawnAgrees, SpawnBooks
  <1>4. PICK d : d = Populated(b, came, refused, who)
    OBVIOUS
  <1>5. SpawnAgrees(d) /\ b.spawned \subseteq d.spawned /\ (AllAlive(b) => AllAlive(d))
    BY <1>2, <1>4, PopulatedAgrees
  <1>6. PICK e : e = [d EXCEPT !.odd = odd]
    OBVIOUS
  <1>7. e \in SpawnBooks /\ e.mon = d.mon /\ e.spawned = d.spawned
    BY <1>3, <1>5, <1>6 DEF SpawnAgrees, SpawnBooks
  <1>8. SpawnBook' = e
    BY <1>2, <1>3, <1>4, <1>6, <1>7, BookWritten
  <1>9. SpawnAgrees(e) /\ (AllAlive(b) => AllAlive(e)) /\ b.spawned \subseteq e.spawned
    <2>1. \A m : (IsCounted(e, m) <=> IsCounted(d, m)) /\ (Once(e, m) <=> Once(d, m))
      BY <1>7 DEF IsCounted, Once
    <2>2. \A m \in SpawnedMonster : MonsterAgrees(e, m)
      BY <1>5, <1>7, <2>1 DEF SpawnAgrees, MonsterAgrees, Count
    <2>3. AllAlive(d) => AllAlive(e)
      BY <1>7 DEF AllAlive
    <2> QED
      BY <1>5, <1>7, <2>2, <2>3 DEF SpawnAgrees
  <1> QED
    BY <1>8, <1>9

LEMMA UnrefEffect ==
    ASSUME NEW x \in Life, NEW n \in Nat
    PROVE  /\ Released(x, n) \in Life
           /\ x.refs = n => Released(x, n) = NewMonster
           /\ x.refs # n => /\ Released(x, n).refs = x.refs - n
                            /\ Released(x, n).where = x.where
                            /\ Released(x, n).spawn = x.spawn
                            /\ Released(x, n).released = x.released
  <1>1. PICK y : y = [x EXCEPT !.refs = @ - n]
    OBVIOUS
  <1>2. y \in Life /\ y.refs = x.refs - n /\ y.where = x.where /\ y.spawn = x.spawn /\ y.released = x.released
    BY <1>1 DEF Life
  <1>3. CASE x.refs = n
    BY <1>3, NewMonsterParts DEF Released
  <1>4. CASE x.refs # n
    <2>1. Released(x, n) = y
      BY <1>1, <1>4 DEF Released
    <2> QED
      BY <1>2, <1>4, <2>1
  <1> QED
    BY <1>3, <1>4

LEMMA CleanupAgrees ==
    ASSUME NEW b, SpawnAgrees(b)
    PROVE  LET d == CleanupSpawned(b)
           IN SpawnAgrees(d) /\ AllAlive(d)
  <1>1. PICK removed : removed = {pair \in b.spawned : b.mon[pair[2]].where = "gone"}
    OBVIOUS
  <1>2. PICK strayed : strayed = {pair \in b.spawned \ removed : pair[1] # 0 /\ ~b.mon[pair[2]].inZone}
    OBVIOUS
  <1>3. PICK zero : zero = {<<0, pair[2]>> : pair \in strayed}
    OBVIOUS
  <1>4. PICK mon : mon = [m \in SpawnedMonster |-> Released(b.mon[m], Cardinality({pair \in removed : pair[2] = m}))]
    OBVIOUS
  <1>5. PICK rest : rest = b.due \ {pair[1] : pair \in removed}
    OBVIOUS
  <1>6. PICK d : d = CleanupSpawned(b)
    OBVIOUS
  <1>7. PICK spawned : spawned = (b.spawned \ (removed \cup strayed)) \cup zero
    OBVIOUS
  <1>8. d = [b EXCEPT !.mon = mon, !.spawned = spawned, !.due = rest]
    BY <1>1, <1>2, <1>3, <1>4, <1>5, <1>6, <1>7 DEF CleanupSpawned
  <1>9. b \in SpawnBooks /\ \A m \in SpawnedMonster : MonsterAgrees(b, m) /\ b.mon[m] \in Life
    BY DEF SpawnAgrees, SpawnBooks
  <1>10. /\ \A pair \in b.spawned : pair[2] \in SpawnedMonster /\ pair[1] \in SpawnId \cup {0}
         /\ \A pair \in b.spawned : pair = <<pair[1], pair[2]>>
    BY <1>9 DEF SpawnBooks, PlaceOf
  <1>11. /\ \A pair \in strayed : <<0, pair[2]>> \in zero /\ pair \in b.spawned /\ pair \notin removed
         /\ \A other \in zero : \E pair \in strayed : other = <<0, pair[2]>>
    BY <1>2, <1>3
  <1>12. zero \subseteq PlaceOf
    BY <1>10, <1>11 DEF PlaceOf
  <1>13. \A m \in SpawnedMonster : Cardinality({pair \in removed : pair[2] = m}) = Count(\E pair \in removed : pair[2] = m)
    <2> SUFFICES ASSUME NEW m \in SpawnedMonster
                 PROVE  Cardinality({pair \in removed : pair[2] = m}) = Count(\E pair \in removed : pair[2] = m)
      OBVIOUS
    <2>1. \A pair, other \in removed : pair[2] = m /\ other[2] = m => pair = other
      BY <1>1, <1>9 DEF MonsterAgrees, Once
    <2> QED
      BY <2>1, EntriesEffect
  <1>14. \A m \in SpawnedMonster : mon[m] = Released(b.mon[m], Count(\E pair \in removed : pair[2] = m))
    BY <1>4, <1>13
  <1>15. mon \in [SpawnedMonster -> Life]
    <2>1. \A m \in SpawnedMonster : mon[m] \in Life
      BY <1>9, <1>14, UnrefEffect DEF Count
    <2> QED
      BY <1>4, <2>1
  <1>16. d \in SpawnBooks /\ d.mon = mon /\ d.spawned = spawned
    <2>1. spawned \subseteq PlaceOf
      BY <1>7, <1>9, <1>12 DEF SpawnBooks
    <2> QED
      BY <1>5, <1>8, <1>9, <1>15, <2>1 DEF SpawnBooks
  <1>17. ASSUME NEW m \in SpawnedMonster, \E pair \in removed : pair[2] = m
         PROVE  MonsterAgrees(d, m) /\ ~ IsCounted(d, m)
    <2>1. PICK x \in removed : x[2] = m
      BY <1>17
    <2>2. x \in b.spawned /\ b.mon[m].where = "gone" /\ IsCounted(b, m) /\ \A pair \in b.spawned : pair[2] = m => pair = x
      BY <1>1, <1>9, <2>1 DEF MonsterAgrees, Once, IsCounted
    <2>3. \A pair \in spawned : pair[2] # m
      BY <1>7, <1>11, <2>1, <2>2
    <2>4. ~ IsCounted(d, m) /\ Once(d, m)
      BY <1>16, <2>3 DEF IsCounted, Once
    <2>5. d.mon[m] = Released(b.mon[m], 1)
      BY <1>14, <1>16, <1>17 DEF Count
    <2>6. b.mon[m].refs = Count(b.mon[m].released) + 1
      BY <1>9, <2>2 DEF MonsterAgrees, Count
    <2>7. CASE b.mon[m].refs = 1
      <3>1. d.mon[m] = NewMonster
        BY <1>9, <2>5, <2>7, UnrefEffect
      <3> QED
        BY <2>4, <3>1, NewMonsterParts DEF MonsterAgrees, Count
    <2>8. CASE b.mon[m].refs # 1
      <3>1. b.mon[m].refs = 2 /\ b.mon[m].released
        BY <2>6, <2>8 DEF Count
      <3>2. d.mon[m].refs = 1 /\ d.mon[m].where = "gone" /\ d.mon[m].released
        BY <1>9, <2>2, <2>5, <2>8, <3>1, UnrefEffect
      <3> QED
        BY <2>4, <3>2 DEF MonsterAgrees, Count
    <2> QED
      BY <2>4, <2>7, <2>8
  <1>18. ASSUME NEW m \in SpawnedMonster, ~ \E pair \in removed : pair[2] = m
         PROVE  MonsterAgrees(d, m) /\ (IsCounted(d, m) => d.mon[m].where = "world")
    <2>1. IsCounted(d, m) <=> IsCounted(b, m)
      <3>1. ASSUME NEW pair \in b.spawned, pair[2] = m
            PROVE  \E other \in spawned : other[2] = m
        <4>1. CASE pair \in strayed
          <5>1. PICK other : other = <<0, pair[2]>>
            OBVIOUS
          <5>2. other \in spawned /\ other[2] = m
            BY <1>7, <1>11, <3>1, <4>1, <5>1
          <5> QED
            BY <5>2
        <4>2. CASE pair \notin strayed
          BY <1>7, <1>18, <3>1, <4>2
        <4> QED
          BY <4>1, <4>2
      <3>2. ASSUME NEW pair \in spawned, pair[2] = m
            PROVE  \E other \in b.spawned : other[2] = m
        <4>1. CASE pair \in zero
          <5>1. PICK other \in strayed : pair = <<0, other[2]>>
            BY <1>11, <4>1
          <5> QED
            BY <1>11, <3>2, <5>1
        <4> QED
          BY <1>7, <3>2, <4>1
      <3> QED
        BY <1>16, <3>1, <3>2 DEF IsCounted
    <2>2. Once(d, m)
      <3>1. Once(b, m)
        BY <1>9 DEF MonsterAgrees
      <3>2. ASSUME NEW pair \in spawned, NEW other \in spawned, pair[2] = m, other[2] = m
            PROVE  pair = other
        <4>1. CASE pair \in zero
          <5>1. PICK x \in strayed : pair = <<0, x[2]>>
            BY <1>11, <4>1
          <5>2. x \in b.spawned /\ x[2] = m
            BY <1>11, <3>2, <5>1
          <5>3. CASE other \in zero
            BY <1>11, <3>2, <5>1, <5>2, <5>3
          <5>4. CASE other \in b.spawned /\ other \notin strayed
            BY <3>1, <3>2, <5>1, <5>2, <5>4 DEF Once
          <5> QED
            BY <1>7, <3>2, <5>3, <5>4
        <4>2. CASE pair \in b.spawned /\ pair \notin strayed
          <5>1. CASE other \in zero
            <6>1. PICK x \in strayed : other = <<0, x[2]>>
              BY <1>11, <5>1
            <6>2. x \in b.spawned /\ x[2] = m
              BY <1>11, <3>2, <6>1
            <6> QED
              BY <3>1, <3>2, <4>2, <6>1, <6>2 DEF Once
          <5>2. CASE other \in b.spawned
            BY <3>1, <3>2, <4>2, <5>2 DEF Once
          <5> QED
            BY <1>7, <3>2, <5>1, <5>2
        <4> QED
          BY <1>7, <3>2, <4>1, <4>2
      <3> QED
        BY <1>16, <3>2 DEF Once
    <2>3. d.mon[m] = Released(b.mon[m], 0)
      BY <1>14, <1>16, <1>18 DEF Count
    <2>4. IsCounted(b, m) => b.mon[m].where = "world"
      BY <1>1, <1>9, <1>18 DEF MonsterAgrees, IsCounted
    <2>5. CASE b.mon[m].refs = 0
      <3>1. d.mon[m] = NewMonster
        BY <1>9, <2>3, <2>5, UnrefEffect
      <3>2. ~ IsCounted(b, m)
        BY <1>9, <2>5 DEF MonsterAgrees, Count
      <3> QED
        BY <2>1, <2>2, <3>1, <3>2, NewMonsterParts DEF MonsterAgrees, Count
    <2>6. CASE b.mon[m].refs # 0
      <3>1. PICK x, y : x = b.mon[m] /\ y = d.mon[m]
        OBVIOUS
      <3>2. y.refs = x.refs - 0 /\ y.where = x.where /\ y.spawn = x.spawn /\ y.released = x.released
        BY <1>9, <2>3, <2>6, <3>1, UnrefEffect
      <3>3. x.refs \in Int
        BY <1>9, <3>1 DEF Life
      <3> QED
        BY <1>9, <2>1, <2>2, <2>4, <3>1, <3>2, <3>3 DEF MonsterAgrees, Count
    <2> QED
      BY <2>5, <2>6
  <1>19. AllAlive(d)
    <2>1. ASSUME NEW pair \in d.spawned
          PROVE  d.mon[pair[2]].where = "world"
      <3>1. pair[2] \in SpawnedMonster /\ IsCounted(d, pair[2])
        BY <1>16, <2>1 DEF SpawnBooks, PlaceOf, IsCounted
      <3> QED
        BY <1>17, <1>18, <3>1
    <2> QED
      BY <2>1 DEF AllAlive
  <1> QED
    BY <1>6, <1>16, <1>17, <1>18, <1>19 DEF SpawnAgrees

\* The spawn that has more entries keeps at least as many.
LEMMA MoreEntries ==
    ASSUME NEW b, NEW d, b.spawned \subseteq d.spawned, d.spawned \subseteq PlaceOf, Enough(b)
    PROVE  Enough(d)
  <1>1. IsFiniteSet(d.spawned) /\ IsFiniteSet(b.spawned) /\ IsFiniteSet(SpawnId)
    BY PlacesFinite
  <1>2. Cardinality(b.spawned) <= Cardinality(d.spawned)
    BY <1>1, FS_Subset
  <1>3. Cardinality(b.spawned) \in Nat /\ Cardinality(d.spawned) \in Nat /\ Cardinality(SpawnId) \in Nat
    BY <1>1, FS_CardinalityType
  <1> QED
    BY <1>2, <1>3 DEF Enough

LEMMA KeysAreEnough ==
    ASSUME NEW b \in SpawnBooks, Keys(b.spawned) = SpawnId
    PROVE  Enough(b)
  <1>1. PICK f : f = [pair \in b.spawned |-> pair[1]]
    OBVIOUS
  <1>2. f \in Surjection(b.spawned, SpawnId)
    <2>1. \A pair \in b.spawned : pair[1] \in Keys(b.spawned)
      BY DEF Keys
    <2>2. f \in [b.spawned -> SpawnId]
      BY <1>1, <2>1
    <2>3. \A id \in SpawnId : \E pair \in b.spawned : f[pair] = id
      BY <1>1 DEF Keys
    <2> QED
      BY <2>2, <2>3 DEF Surjection
  <1>3. IsFiniteSet(b.spawned)
    BY PlacesFinite DEF SpawnBooks
  <1>4. Cardinality(SpawnId) <= Cardinality(b.spawned)
    BY <1>2, <1>3, FS_Surjection
  <1>5. Cardinality(SpawnId) \in Nat /\ Cardinality(b.spawned) \in Nat
    BY <1>3, PlacesFinite, FS_CardinalityType
  <1> QED
    BY <1>4, <1>5 DEF Enough

(***************************************************************************)
(* The steps.                                                              *)
(***************************************************************************)
LEMMA SpawnHere ==
    /\ SpawnBook.mon = monster /\ SpawnBook.spawned = spawnedMap
    /\ SpawnBook.due = due /\ SpawnBook.odd = oddities
  BY DEF SpawnBook

LEMMA SpawnsInitAgrees == SpawnsInit => SpawnsInv
  <1> SUFFICES ASSUME SpawnsInit
               PROVE  SpawnsInv
    OBVIOUS
  <1>1. PICK b : b = SpawnBook
    OBVIOUS
  <1>2. /\ b \in SpawnBooks /\ b.spawned = {} /\ \A m \in SpawnedMonster : b.mon[m] = NewMonster
    BY <1>1, NewMonsterParts DEF SpawnBook, SpawnBooks, SpawnsInit
  <1>3. \A m \in SpawnedMonster : ~ IsCounted(b, m) /\ Once(b, m)
    BY <1>2 DEF IsCounted, Once
  <1>4. \A m \in SpawnedMonster : MonsterAgrees(b, m)
    BY <1>2, <1>3, NewMonsterParts DEF MonsterAgrees, Count
  <1>5. AllAlive(b)
    BY <1>2 DEF AllAlive
  <1> QED
    BY <1>1, <1>2, <1>4, <1>5 DEF SpawnsInv, SpawnAgrees, SpawnsInit

LEMMA StartSpawnStep ==
    ASSUME SpawnsInv, StartSpawn
    PROVE  SpawnsInv'
  <1>1. SpawnAgrees(SpawnBook) /\ SpawnMonsters(SpawnBook, SpawnId)
    BY DEF SpawnsInv, StartSpawn
  <1>2. SpawnAgrees(SpawnBook') /\ (AllAlive(SpawnBook) => AllAlive(SpawnBook'))
    BY <1>1, SpawnMonstersAgrees
  <1>3. SpawnBook'.spawned = spawnedMap'
    BY DEF SpawnBook
  <1>4. ~ neglected' => Enough(SpawnBook')
    BY <1>2, <1>3, KeysAreEnough DEF StartSpawn, SpawnAgrees
  <1>5. /\ checkSpawnEvent' = checkSpawnEvent /\ neglected' \in BOOLEAN
    BY DEF StartSpawn
  <1> QED
    BY <1>2, <1>4, <1>5 DEF SpawnsInv

LEMMA CheckSpawnStep ==
    ASSUME SpawnsInv, CheckSpawn
    PROVE  SpawnsInv'
  <1>1. PICK b : b = CleanupSpawned(SpawnBook)
    OBVIOUS
  <1>2. SpawnAgrees(b) /\ AllAlive(b)
    BY <1>1, CleanupAgrees DEF SpawnsInv
  <1>3. FillPlaces(b)
    BY <1>1 DEF CheckSpawn
  <1>4. PICK delayed, ids : ids \subseteq SpawnId /\ SpawnMonsters([b EXCEPT !.due = @ \ delayed], ids)
    <2>1. PICK seen \in SUBSET (b.due \ Keys(b.spawned)) : \E filled \in SUBSET seen :
              SpawnMonsters([b EXCEPT !.due = @ \ (seen \ filled)], filled \ NonBlockable)
      BY <1>3 DEF FillPlaces
    <2>2. PICK filled \in SUBSET seen :
              SpawnMonsters([b EXCEPT !.due = @ \ (seen \ filled)], filled \ NonBlockable)
      BY <2>1
    <2>3. filled \ NonBlockable \subseteq SpawnId
      BY <1>2, <2>1, <2>2 DEF SpawnAgrees, SpawnBooks
    <2> QED
      BY <2>2, <2>3
  <1>5. PICK d : d = [b EXCEPT !.due = @ \ delayed]
    OBVIOUS
  <1>6. d \in SpawnBooks /\ d.mon = b.mon /\ d.spawned = b.spawned
    BY <1>2, <1>5 DEF SpawnAgrees, SpawnBooks
  <1>7. SpawnAgrees(d) /\ AllAlive(d)
    <2>1. \A m : (IsCounted(d, m) <=> IsCounted(b, m)) /\ (Once(d, m) <=> Once(b, m))
      BY <1>6 DEF IsCounted, Once
    <2>2. \A m \in SpawnedMonster : MonsterAgrees(d, m)
      BY <1>2, <1>6, <2>1 DEF SpawnAgrees, MonsterAgrees, Count
    <2> QED
      BY <1>2, <1>6, <2>2 DEF SpawnAgrees, AllAlive
  <1>8. SpawnAgrees(SpawnBook') /\ AllAlive(SpawnBook')
    BY <1>4, <1>5, <1>7, SpawnMonstersAgrees
  <1>9. SpawnBook'.spawned = spawnedMap'
    BY DEF SpawnBook
  <1>10. checkSpawnEvent' = CheckAgain(spawnedMap') /\ neglected' = neglected
    BY DEF CheckSpawn
  <1>11. ~ checkSpawnEvent' => Enough(SpawnBook')
    <2>1. IsFiniteSet(SpawnBook'.spawned)
      BY <1>8, PlacesFinite DEF SpawnAgrees, SpawnBooks
    <2>2. Cardinality(SpawnBook'.spawned) \in Nat /\ Cardinality(SpawnId) \in Nat
      BY <2>1, PlacesFinite, FS_CardinalityType
    <2> QED
      <3>1. PICK n \in Nat, k \in Nat : n = Cardinality(SpawnBook'.spawned) /\ k = Cardinality(SpawnId)
        BY <2>2
      <3>2. checkSpawnEvent' <=> n < k
        BY <1>9, <1>10, <3>1 DEF CheckAgain
      <3>3. Enough(SpawnBook') <=> n >= k
        BY <3>1 DEF Enough
      <3> QED
        BY <3>1, <3>2, <3>3
  <1>12. checkSpawnEvent' \in BOOLEAN
    BY <1>10 DEF CheckAgain
  <1> QED
    BY <1>8, <1>10, <1>11, <1>12 DEF SpawnsInv

LEMMA ScheduledStep ==
    ASSUME SpawnsInv, NEW id \in SpawnId, ScheduledSpawn(id)
    PROVE  SpawnsInv'
  <1>1. PICK ids \in SUBSET SpawnId : ids = {id}
    OBVIOUS
  <1>2. SpawnAgrees(SpawnBook) /\ SpawnMonsters(SpawnBook, ids)
    BY <1>1 DEF SpawnsInv, ScheduledSpawn
  <1>3. /\ SpawnAgrees(SpawnBook') /\ (AllAlive(SpawnBook) => AllAlive(SpawnBook'))
        /\ SpawnBook.spawned \subseteq SpawnBook'.spawned
    BY <1>2, SpawnMonstersAgrees
  <1>4. Enough(SpawnBook) => Enough(SpawnBook')
    BY <1>3, MoreEntries DEF SpawnAgrees, SpawnBooks
  <1>5. UNCHANGED <<checkSpawnEvent, started, neglected>>
    BY DEF ScheduledSpawn
  <1> QED
    BY <1>3, <1>4, <1>5 DEF SpawnsInv

\* One monster changes, and the entries of others stay.
LEMMA OneChanges ==
    ASSUME NEW b, SpawnAgrees(b), NEW m \in SpawnedMonster, NEW d \in SpawnBooks,
           \A n \in SpawnedMonster \ {m} : d.mon[n] = b.mon[n],
           \A pair \in PlaceOf : pair[2] # m => (pair \in d.spawned <=> pair \in b.spawned),
           MonsterAgrees(d, m)
    PROVE  SpawnAgrees(d)
  <1>1. ASSUME NEW n \in SpawnedMonster \ {m}
        PROVE  MonsterAgrees(d, n)
    <2>1. b.spawned \subseteq PlaceOf /\ d.spawned \subseteq PlaceOf
      BY DEF SpawnAgrees, SpawnBooks
    <2>2. (IsCounted(d, n) <=> IsCounted(b, n)) /\ (Once(b, n) => Once(d, n))
      BY <2>1 DEF IsCounted, Once
    <2> QED
      BY <2>2 DEF SpawnAgrees, MonsterAgrees, Count
  <1> QED
    BY <1>1 DEF SpawnAgrees

LEMMA RemovedStep ==
    ASSUME SpawnsInv, NEW m \in SpawnedMonster, MonsterRemoved(m)
    PROVE  SpawnsInv'
  <1>1. PICK b : b = SpawnBook
    OBVIOUS
  <1>2. SpawnAgrees(b) /\ MonsterAgrees(b, m) /\ b.mon[m] \in Life /\ b \in SpawnBooks
    BY <1>1 DEF SpawnsInv, SpawnAgrees, SpawnBooks
  <1>3. PICK x, y : x = b.mon[m] /\ y = [x EXCEPT !.where = "gone", !.released = TRUE]
    OBVIOUS
  <1>4. y \in Life /\ y.where = "gone" /\ y.released /\ y.refs = x.refs /\ y.spawn = x.spawn
    BY <1>2, <1>3 DEF Life
  <1>5. x.where = "world" /\ monster' = [monster EXCEPT ![m] = y] /\ UNCHANGED <<spawnedMap, due, oddities>>
    BY <1>1, <1>3, SpawnHere DEF MonsterRemoved
  <1>6. PICK mon : mon = [b.mon EXCEPT ![m] = y]
    OBVIOUS
  <1>7. mon \in [SpawnedMonster -> Life] /\ mon[m] = y /\ \A n \in SpawnedMonster \ {m} : mon[n] = b.mon[n]
    BY <1>2, <1>4, <1>6 DEF SpawnBooks
  <1>8. PICK d : d = [b EXCEPT !.mon = mon]
    OBVIOUS
  <1>9. d \in SpawnBooks /\ d.mon = mon /\ d.spawned = b.spawned /\ d.due = b.due /\ d.odd = b.odd
    BY <1>2, <1>7, <1>8 DEF SpawnBooks
  <1>10. d.mon = monster' /\ d.spawned = spawnedMap' /\ d.due = due' /\ d.odd = oddities'
    BY <1>1, <1>5, <1>6, <1>9, SpawnHere
  <1>11. SpawnBook' = d
    BY <1>9, <1>10, BookWritten DEF WriteSpawn
  <1>12. (IsCounted(d, m) <=> IsCounted(b, m)) /\ (Once(d, m) <=> Once(b, m))
    BY <1>9 DEF IsCounted, Once
  <1>13. MonsterAgrees(d, m)
    BY <1>2, <1>3, <1>4, <1>5, <1>7, <1>9, <1>12 DEF MonsterAgrees, Count
  <1>14. SpawnAgrees(d)
    BY <1>2, <1>7, <1>9, <1>13, OneChanges
  <1>15. checkSpawnEvent' = (checkSpawnEvent \/ x.spawn) /\ neglected' = (neglected /\ ~ x.spawn) /\ started' = started
    BY <1>1, <1>3, SpawnHere DEF MonsterRemoved
  <1>16. x.spawn \in BOOLEAN /\ checkSpawnEvent \in BOOLEAN /\ neglected \in BOOLEAN
    BY <1>2, <1>3 DEF Life, SpawnsInv
  <1>17. CASE x.spawn
    <2>1. checkSpawnEvent' /\ checkSpawnEvent' \in BOOLEAN /\ neglected' \in BOOLEAN
      BY <1>15, <1>16, <1>17
    <2> QED
      BY <1>11, <1>14, <2>1 DEF SpawnsInv
  <1>18. CASE ~ x.spawn
    <2>1. ~ IsCounted(b, m)
      BY <1>2, <1>3, <1>18 DEF MonsterAgrees
    <2>2. AllAlive(b) => AllAlive(d)
      <3>1. ASSUME AllAlive(b), NEW pair \in d.spawned
            PROVE  d.mon[pair[2]].where = "world"
        <4>1. pair[2] \in SpawnedMonster /\ pair[2] # m
          BY <1>9, <2>1, <3>1 DEF SpawnBooks, PlaceOf, IsCounted
        <4> QED
          BY <1>7, <1>9, <3>1, <4>1 DEF AllAlive
      <3> QED
        BY <3>1 DEF AllAlive
    <2>3. Enough(d) <=> Enough(b)
      BY <1>9 DEF Enough
    <2>4. (checkSpawnEvent' <=> checkSpawnEvent) /\ (neglected' <=> neglected)
          /\ checkSpawnEvent' \in BOOLEAN /\ neglected' \in BOOLEAN
      BY <1>15, <1>16, <1>18
    <2> QED
      BY <1>1, <1>11, <1>14, <1>15, <2>2, <2>3, <2>4 DEF SpawnsInv
  <1> QED
    BY <1>17, <1>18

\* A reference to monster m is given up, and its entry with it if it has one left out.
LEMMA DropAgrees ==
    ASSUME NEW b, SpawnAgrees(b), NEW m \in SpawnedMonster, NEW d \in SpawnBooks, NEW x \in Life,
           d.mon[m] = Released(x, 1), \A n \in SpawnedMonster \ {m} : d.mon[n] = b.mon[n],
           \A pair \in PlaceOf : pair[2] # m => (pair \in d.spawned <=> pair \in b.spawned),
           Once(d, m), IsCounted(d, m) => x.where \in {"world", "gone"} /\ x.spawn,
           x.where = "gone" => x.refs = 1 \/ x.released \/ IsCounted(d, m),
           x.released => x.where = "gone",
           x.where \in {"world", "gone"},
           x.refs = Count(x.where = "world" \/ x.released) + Count(IsCounted(d, m)) + 1
    PROVE  SpawnAgrees(d)
  <1>1. PICK y : y = d.mon[m]
    OBVIOUS
  <1>2. CASE x.refs = 1
    <2>1. y = NewMonster
      BY <1>1, <1>2, UnrefEffect
    <2>2. ~ IsCounted(d, m)
      BY <1>2 DEF Count
    <2>3. MonsterAgrees(d, m)
      BY <1>1, <2>1, <2>2, NewMonsterParts DEF MonsterAgrees, Count
    <2> QED
      BY <2>3, OneChanges
  <1>3. CASE x.refs # 1
    <2>1. y.refs = x.refs - 1 /\ y.where = x.where /\ y.spawn = x.spawn /\ y.released = x.released
      BY <1>1, <1>3, UnrefEffect
    <2>2. MonsterAgrees(d, m)
      BY <1>1, <1>3, <2>1 DEF MonsterAgrees, Count
    <2> QED
      BY <2>2, OneChanges
  <1> QED
    BY <1>2, <1>3

LEMMA ReleaseMonsterStep ==
    ASSUME SpawnsInv, NEW m \in SpawnedMonster, ReleaseMonster(m)
    PROVE  SpawnsInv'
  <1>1. PICK b : b = SpawnBook
    OBVIOUS
  <1>2. SpawnAgrees(b) /\ MonsterAgrees(b, m) /\ b.mon[m] \in Life /\ b \in SpawnBooks
    BY <1>1 DEF SpawnsInv, SpawnAgrees, SpawnBooks
  <1>3. PICK w : w = b.mon[m]
    OBVIOUS
  <1>4. PICK x : x = [w EXCEPT !.released = FALSE]
    OBVIOUS
  <1>5. x \in Life /\ x.where = w.where /\ ~ x.released /\ x.refs = w.refs /\ x.spawn = w.spawn
    BY <1>2, <1>3, <1>4 DEF Life
  <1>6. w.released /\ w.where = "gone"
    BY <1>1, <1>2, <1>3, SpawnHere DEF ReleaseMonster, MonsterAgrees
  <1>7. PICK y : y = Released(x, 1)
    OBVIOUS
  <1>8. y \in Life
    BY <1>5, <1>7, UnrefEffect
  <1>9. PICK d : d = [b EXCEPT !.mon[m] = y]
    OBVIOUS
  <1>10. /\ d \in SpawnBooks /\ d.mon[m] = y /\ \A n \in SpawnedMonster \ {m} : d.mon[n] = b.mon[n]
         /\ d.spawned = b.spawned
    BY <1>2, <1>8, <1>9 DEF SpawnBooks
  <1>11. UnrefMonster([SpawnBook EXCEPT !.mon[m].released = FALSE], m) = d
    <2>1. PICK e : e = [b EXCEPT !.mon[m] = x]
      OBVIOUS
    <2>2. e.mon[m] = x /\ [e EXCEPT !.mon[m] = y] = d
      BY <1>2, <1>9, <2>1 DEF SpawnBooks
    <2>3. [SpawnBook EXCEPT !.mon[m].released = FALSE] = e
      BY <1>1, <1>3, <1>4, <2>1
    <2>4. UnrefMonster(e, m) = [e EXCEPT !.mon[m] = y]
      BY <1>7, <2>2 DEF UnrefMonster
    <2> QED
      BY <2>2, <2>3, <2>4
  <1>12. SpawnBook' = d
    BY <1>10, <1>11, BookWritten DEF ReleaseMonster
  <1>13. (IsCounted(d, m) <=> IsCounted(b, m)) /\ (Once(d, m) <=> Once(b, m))
    BY <1>10 DEF IsCounted, Once
  <1>14. SpawnAgrees(d)
    BY <1>2, <1>3, <1>5, <1>6, <1>7, <1>10, <1>13, DropAgrees DEF MonsterAgrees, Count
  <1>15. AllAlive(b) => AllAlive(d)
    <2>1. ASSUME AllAlive(b), NEW pair \in d.spawned
          PROVE  d.mon[pair[2]].where = "world"
      <3>1. pair[2] \in SpawnedMonster /\ b.mon[pair[2]].where = "world"
        BY <1>10, <2>1 DEF SpawnBooks, PlaceOf, AllAlive
      <3>2. pair[2] # m
        BY <1>3, <1>6, <3>1
      <3> QED
        BY <1>10, <3>1, <3>2
    <2> QED
      BY <2>1 DEF AllAlive
  <1>16. Enough(d) <=> Enough(b)
    BY <1>10 DEF Enough
  <1>17. UNCHANGED <<checkSpawnEvent, started, neglected>>
    BY DEF ReleaseMonster
  <1> QED
    BY <1>1, <1>12, <1>14, <1>15, <1>16, <1>17 DEF SpawnsInv

LEMMA ConvinceStep ==
    ASSUME SpawnsInv, NEW m \in SpawnedMonster, Convince(m)
    PROVE  SpawnsInv'
  <1>1. PICK b : b = SpawnBook
    OBVIOUS
  <1>2. SpawnAgrees(b) /\ MonsterAgrees(b, m) /\ b.mon[m] \in Life /\ b \in SpawnBooks
    BY <1>1 DEF SpawnsInv, SpawnAgrees, SpawnBooks
  <1>3. PICK w : w = b.mon[m]
    OBVIOUS
  <1>4. PICK x : x = [w EXCEPT !.spawn = FALSE]
    OBVIOUS
  <1>5. x \in Life /\ x.where = w.where /\ x.released = w.released /\ x.refs = w.refs
    BY <1>2, <1>3, <1>4 DEF Life
  <1>6. w.spawn /\ w.where = "world"
    BY <1>1, <1>3, SpawnHere DEF Convince
  <1>7. PICK odd \in Int : odd = b.odd + 1
    BY <1>2 DEF SpawnBooks
  <1>8. PICK e : e = [b EXCEPT !.odd = odd, !.mon[m] = x]
    OBVIOUS
  <1>9. [SpawnBook EXCEPT !.odd = @ + 1, !.mon[m].spawn = FALSE] = e
    BY <1>1, <1>2, <1>3, <1>4, <1>7, <1>8 DEF SpawnBooks
  <1>10. /\ e \in SpawnBooks /\ e.mon[m] = x /\ \A n \in SpawnedMonster \ {m} : e.mon[n] = b.mon[n]
         /\ e.spawned = b.spawned
    BY <1>2, <1>5, <1>7, <1>8 DEF SpawnBooks
  <1>11. PICK d : d = RemoveSpawned(e, m)
    OBVIOUS
  <1>12. WriteSpawn(d)
    BY <1>9, <1>11 DEF Convince
  <1>13. /\ SpawnAgrees(d) /\ ~ IsCounted(d, m) /\ d.spawned \subseteq b.spawned
         /\ \A n \in SpawnedMonster \ {m} : d.mon[n] = b.mon[n]
    <2>1. CASE ~ IsCounted(b, m)
      <3>1. d = e
        BY <1>10, <1>11, <2>1 DEF RemoveSpawned, IsCounted
      <3>2. ~ IsCounted(e, m) /\ Once(e, m)
        BY <1>10, <2>1 DEF IsCounted, Once
      <3>3. MonsterAgrees(e, m)
        BY <1>2, <1>3, <1>5, <1>10, <2>1, <3>2 DEF MonsterAgrees, Count
      <3> QED
        BY <1>2, <1>10, <3>1, <3>2, <3>3, OneChanges
    <2>2. CASE IsCounted(b, m)
      <3>1. PICK y : y = Released(x, 1)
        OBVIOUS
      <3>2. y \in Life
        BY <1>5, <3>1, UnrefEffect
      <3>3. PICK rest : rest = {pair \in b.spawned : pair[2] # m}
        OBVIOUS
      <3>4. rest \subseteq PlaceOf
        BY <1>2, <3>3 DEF SpawnBooks
      <3>5. PICK f : f = [e EXCEPT !.spawned = rest]
        OBVIOUS
      <3>6. f.mon[m] = x /\ f.mon = e.mon /\ f.spawned = rest /\ f \in SpawnBooks
        BY <1>10, <3>4, <3>5 DEF SpawnBooks
      <3>7. d = UnrefMonster(f, m)
        BY <1>10, <1>11, <2>2, <3>3, <3>5 DEF RemoveSpawned, IsCounted
      <3>8. d = [f EXCEPT !.mon[m] = y]
        BY <3>1, <3>6, <3>7 DEF UnrefMonster
      <3>9. /\ d \in SpawnBooks /\ d.mon[m] = y /\ \A n \in SpawnedMonster \ {m} : d.mon[n] = b.mon[n]
            /\ d.spawned = rest
        BY <1>10, <3>2, <3>6, <3>8 DEF SpawnBooks
      <3>10. ~ IsCounted(d, m) /\ Once(d, m)
        BY <3>3, <3>9 DEF IsCounted, Once
      <3>11. \A pair \in PlaceOf : pair[2] # m => (pair \in d.spawned <=> pair \in b.spawned)
        BY <3>3, <3>9
      <3>12. ~ x.released /\ x.where = "world"
        BY <1>2, <1>3, <1>5, <1>6 DEF MonsterAgrees
      <3>13. x.refs = Count(x.where = "world" \/ x.released) + Count(IsCounted(d, m)) + 1
        BY <1>2, <1>3, <1>5, <1>6, <2>2, <3>10 DEF MonsterAgrees, Count
      <3>14. SpawnAgrees(d)
        BY <1>2, <1>5, <3>1, <3>9, <3>10, <3>11, <3>12, <3>13, DropAgrees
      <3> QED
        BY <3>3, <3>9, <3>10, <3>14
    <2> QED
      BY <2>1, <2>2
  <1>14. SpawnBook' = d
    BY <1>12, <1>13, BookWritten DEF SpawnAgrees
  <1>15. AllAlive(b) => AllAlive(d)
    <2>1. ASSUME AllAlive(b), NEW pair \in d.spawned
          PROVE  d.mon[pair[2]].where = "world"
      <3>1. pair[2] \in SpawnedMonster /\ b.mon[pair[2]].where = "world" /\ pair[2] # m
        BY <1>2, <1>13, <2>1 DEF SpawnBooks, PlaceOf, AllAlive, IsCounted
      <3> QED
        BY <1>13, <3>1
    <2> QED
      BY <2>1 DEF AllAlive
  <1>16. /\ checkSpawnEvent' = checkSpawnEvent /\ started' = started
         /\ neglected' = (neglected \/ ~ checkSpawnEvent)
    BY DEF Convince
  <1> QED
    BY <1>1, <1>13, <1>14, <1>15, <1>16 DEF SpawnsInv

LEMMA StrayStep ==
    ASSUME SpawnsInv, NEW m \in SpawnedMonster, Stray(m)
    PROVE  SpawnsInv'
  <1>1. PICK b : b = SpawnBook
    OBVIOUS
  <1>2. SpawnAgrees(b) /\ MonsterAgrees(b, m) /\ b.mon[m] \in Life /\ b \in SpawnBooks
    BY <1>1 DEF SpawnsInv, SpawnAgrees, SpawnBooks
  <1>3. PICK x, y : x = b.mon[m] /\ y = [x EXCEPT !.inZone = ~ @]
    OBVIOUS
  <1>4. y \in Life /\ y.where = x.where /\ y.released = x.released /\ y.refs = x.refs /\ y.spawn = x.spawn
    BY <1>2, <1>3 DEF Life
  <1>5. PICK d : d = [b EXCEPT !.mon[m] = y]
    OBVIOUS
  <1>6. /\ d \in SpawnBooks /\ d.mon[m] = y /\ \A n \in SpawnedMonster \ {m} : d.mon[n] = b.mon[n]
        /\ d.spawned = b.spawned /\ d.due = b.due /\ d.odd = b.odd
    BY <1>2, <1>4, <1>5 DEF SpawnBooks
  <1>7. d.mon = monster'
    <2>1. d.mon = [b.mon EXCEPT ![m] = y]
      BY <1>2, <1>5 DEF SpawnBooks
    <2> QED
      BY <1>1, <1>3, <2>1, SpawnHere DEF Stray
  <1>8. WriteSpawn(d)
    BY <1>1, <1>6, <1>7, SpawnHere DEF Stray, WriteSpawn
  <1>9. SpawnBook' = d
    BY <1>6, <1>8, BookWritten
  <1>10. (IsCounted(d, m) <=> IsCounted(b, m)) /\ (Once(d, m) <=> Once(b, m))
    BY <1>6 DEF IsCounted, Once
  <1>11. MonsterAgrees(d, m)
    BY <1>2, <1>3, <1>4, <1>6, <1>10 DEF MonsterAgrees, Count
  <1>12. SpawnAgrees(d)
    BY <1>2, <1>6, <1>11, OneChanges
  <1>13. \A n \in SpawnedMonster : d.mon[n].where = b.mon[n].where
    BY <1>3, <1>4, <1>6
  <1>14. AllAlive(b) => AllAlive(d)
    BY <1>2, <1>6, <1>13 DEF AllAlive, SpawnBooks, PlaceOf
  <1>15. Enough(d) <=> Enough(b)
    BY <1>6 DEF Enough
  <1>16. UNCHANGED <<checkSpawnEvent, started, neglected>>
    BY DEF Stray
  <1> QED
    BY <1>1, <1>9, <1>12, <1>14, <1>15, <1>16 DEF SpawnsInv

LEMMA IntervalStep ==
    ASSUME SpawnsInv, NEW id \in SpawnId, IntervalOver(id)
    PROVE  SpawnsInv'
  <1>1. PICK b : b = SpawnBook
    OBVIOUS
  <1>2. PICK places \in SUBSET SpawnId : places = b.due \cup {id}
    BY <1>1 DEF SpawnsInv, SpawnAgrees, SpawnBooks
  <1>3. PICK d : d = [b EXCEPT !.due = places]
    OBVIOUS
  <1>4. d \in SpawnBooks /\ d.mon = b.mon /\ d.spawned = b.spawned /\ d.odd = b.odd /\ d.due = places
    BY <1>1, <1>3 DEF SpawnsInv, SpawnAgrees, SpawnBooks
  <1>5. WriteSpawn(d)
    BY <1>1, <1>2, <1>4, SpawnHere DEF IntervalOver, WriteSpawn
  <1>6. SpawnBook' = d
    BY <1>4, <1>5, BookWritten
  <1>7. \A m : (IsCounted(d, m) <=> IsCounted(b, m)) /\ (Once(d, m) <=> Once(b, m))
    BY <1>4 DEF IsCounted, Once
  <1>8. SpawnAgrees(d)
    BY <1>1, <1>4, <1>7 DEF SpawnsInv, SpawnAgrees, MonsterAgrees, Count
  <1>9. (AllAlive(d) <=> AllAlive(b)) /\ (Enough(d) <=> Enough(b))
    BY <1>4 DEF AllAlive, Enough
  <1>10. UNCHANGED <<checkSpawnEvent, started, neglected>>
    BY DEF IntervalOver
  <1> QED
    BY <1>1, <1>6, <1>8, <1>9, <1>10 DEF SpawnsInv

LEMMA SpawnsStep == SpawnsInv /\ [SpawnsNext]_spawnsVars => SpawnsInv'
  <1> SUFFICES ASSUME SpawnsInv, [SpawnsNext]_spawnsVars
               PROVE  SpawnsInv'
    OBVIOUS
  <1>1. CASE StartSpawn
    BY <1>1, StartSpawnStep
  <1>2. CASE CheckSpawn
    BY <1>2, CheckSpawnStep
  <1>3. ASSUME NEW id \in SpawnId, ScheduledSpawn(id) \/ IntervalOver(id)
        PROVE  SpawnsInv'
    BY <1>3, ScheduledStep, IntervalStep
  <1>4. ASSUME NEW m \in SpawnedMonster, MonsterRemoved(m) \/ ReleaseMonster(m) \/ Convince(m) \/ Stray(m)
        PROVE  SpawnsInv'
    BY <1>4, RemovedStep, ReleaseMonsterStep, ConvinceStep, StrayStep
  <1>5. CASE UNCHANGED spawnsVars
    <2>1. SpawnBook' = SpawnBook /\ UNCHANGED <<checkSpawnEvent, started, neglected>>
      BY <1>5 DEF spawnsVars, SpawnBook
    <2> QED
      BY <2>1 DEF SpawnsInv
  <1> QED
    BY <1>1, <1>2, <1>3, <1>4, <1>5 DEF SpawnsNext

\* The references to the monsters of a spawn are exact, for any number of places
\* and monsters (SpawnRefsExact of Spawns).
THEOREM SpawnRefsCorrect == SpawnsSpec => []SpawnRefsExact
  <1>1. SpawnsInv => SpawnRefsExact
    <2> SUFFICES ASSUME SpawnsInv, NEW m \in SpawnedMonster
                 PROVE  LET counted == {pair \in spawnedMap : pair[2] = m}
                        IN /\ Cardinality(counted) <= 1
                           /\ monster[m].where # "refused" =>
                                monster[m].refs = Count(monster[m].where = "world" \/ monster[m].released)
                                                  + Cardinality(counted)
      BY DEF SpawnRefsExact
    <2>1. MonsterAgrees(SpawnBook, m)
      BY DEF SpawnsInv, SpawnAgrees
    <2>2. \A pair, other \in spawnedMap : pair[2] = m /\ other[2] = m => pair = other
      BY <2>1, SpawnHere DEF MonsterAgrees, Once
    <2>3. Cardinality({pair \in spawnedMap : pair[2] = m}) = Count(IsCounted(SpawnBook, m))
      BY <2>2, EntriesEffect, SpawnHere DEF IsCounted
    <2>4. Count(IsCounted(SpawnBook, m)) \in 0 .. 1
      BY DEF Count
    <2> QED
      BY <2>1, <2>3, <2>4, SpawnHere DEF MonsterAgrees
  <1> QED
    BY <1>1, SpawnsInitAgrees, SpawnsStep, PTL DEF SpawnsSpec

\* No place of a spawn is forgotten (EmptyPlacesAreChecked of Spawns): when no
\* check is due there are as many live monsters as places, so if one place is
\* empty another has two.
THEOREM PlacesAreChecked == SpawnsSpec => []EmptyPlacesAreChecked
  <1>1. SpawnsInv => EmptyPlacesAreChecked
    <2> DEFINE alive == {pair \in spawnedMap : monster[pair[2]].where = "world"}
    <2> SUFFICES ASSUME SpawnsInv, started, ~ neglected, 0 \notin {pair[1] : pair \in spawnedMap},
                        NEW id \in SpawnId, id \notin {pair[1] : pair \in alive}, ~ checkSpawnEvent
                 PROVE  \E i \in SpawnId : Cardinality({pair \in alive : pair[1] = i}) > 1
      BY DEF EmptyPlacesAreChecked
    <2>1. SpawnBook \in SpawnBooks /\ AllAlive(SpawnBook) /\ Enough(SpawnBook)
      BY DEF SpawnsInv, SpawnAgrees
    <2>2. spawnedMap \subseteq PlaceOf /\ alive = spawnedMap
          /\ Cardinality(spawnedMap) >= Cardinality(SpawnId)
      BY <2>1, SpawnHere DEF SpawnBooks, AllAlive, Enough
    <2> HIDE DEF alive
    <2>3. IsFiniteSet(spawnedMap) /\ IsFiniteSet(SpawnId)
      BY <2>2, PlacesFinite
    <2>4. PICK others : others = SpawnId \ {id}
      OBVIOUS
    <2>5. IsFiniteSet(others) /\ Cardinality(others) = Cardinality(SpawnId) - 1
      BY <2>3, <2>4, FS_RemoveElement
    <2>6. Cardinality(SpawnId) \in Nat /\ Cardinality(spawnedMap) \in Nat
      BY <2>3, FS_CardinalityType
    <2>7. Cardinality(others) < Cardinality(spawnedMap)
      BY <2>2, <2>5, <2>6
    <2>8. PICK f : f = [pair \in spawnedMap |-> pair[1]]
      OBVIOUS
    <2>9. f \in [spawnedMap -> others]
      BY <2>2, <2>4, <2>8 DEF PlaceOf
    <2>10. PICK here, there \in spawnedMap : here # there /\ f[here] = f[there]
      BY <2>3, <2>5, <2>7, <2>9, FS_PigeonHole
    <2>11. PICK i \in SpawnId : i = here[1] /\ i = there[1]
      BY <2>4, <2>8, <2>9, <2>10
    <2>12. PICK T : T = {x \in alive : x[1] = i}
      OBVIOUS
    <2>13. here \in T /\ there \in T /\ IsFiniteSet(T)
      BY <2>2, <2>3, <2>10, <2>11, <2>12, FS_Subset
    <2>14. Cardinality(T) # 0 /\ Cardinality(T) # 1 /\ Cardinality(T) \in Nat
      BY <2>10, <2>13, FS_EmptySet, FS_Singleton, FS_CardinalityType
    <2>15. PICK n \in Nat : n = Cardinality(T) /\ n > 1
      BY <2>14
    <2>16. Cardinality({x \in alive : x[1] = i}) > 1
      BY <2>12, <2>15
    <2> QED
      BY <2>16
  <1> QED
    BY <1>1, SpawnsInitAgrees, SpawnsStep, PTL DEF SpawnsSpec

(***************************************************************************)
(* Decay: what is said of one item, on its card x, while the bucket that   *)
(* was looked at last is n.                                                *)
(***************************************************************************)
Thing == [where : {"none", "world", "removed"}, kind : Kind, decaying : BOOLEAN, refs : Int,
          duration : Nat, timed : BOOLEAN]
CardType == [it : Thing, bucket : [Bucket -> Nat], wait : Nat, rel : Nat, left : Int, twice : BOOLEAN]

InWorld(x) == x.it.where = "world"
IsTimed(x) == DecayTime[x.it.kind] # 0
Ahead(x) == x.it.duration - x.left

\* What neither decays nor may go on to decay.
IsOver(x) == ~ IsTimed(x) /\ x.it.kind \notin StopTime

\* References, of which a caller may owe some, and entries.
Sound(x, owed) ==
    /\ x \in CardType
    /\ x.it.refs = (IF InWorld(x) THEN 1 ELSE 0) + Entries(x) + x.rel + owed
    /\ x.it.where = "none" => x.it.refs = 0
    /\ Entries(x) <= 2
    /\ Entries(x) = 2 => x.twice
    /\ InWorld(x) => /\ IsTimed(x) => x.it.timed
                     /\ IsOver(x) /\ DecayTo[x.it.kind] = Never => ~ x.it.timed /\ ~ x.it.decaying

\* What is marked as decaying has an entry, unless it has decayed to its end.
Marked(x) == InWorld(x) /\ x.it.decaying /\ Entries(x) = 0 => IsOver(x)

\* The items whose time is kept.
Promised(x) == InWorld(x) /\ ~ x.twice /\ Entries(x) = 1 /\ x.it.timed /\ ~ IsOver(x)

\* How many intervals after the look at n one looks at m.
Distance(m, n) == IF m > n THEN m - n ELSE m + 4 - n

\* The time that the duration is behind the clock grows until the next look; an item
\* with less than a cycle left may be on the way to its last one.
Near(x, d) ==
    \/ -750 <= Ahead(x) - 250 * (4 - d) /\ Ahead(x) - 250 * (4 - d) <= 250
    \/ d = 1 /\ x.it.duration < 1000 /\ -750 <= Ahead(x) /\ Ahead(x) <= 250
Settled(x, n) ==
    Promised(x) => /\ x.wait > 0 => Ahead(x) = 0
                   /\ \A m \in Bucket : x.bucket[m] > 0 => Near(x, Distance(m, n))

\* The same before and after the look at bucket n.
Due(x) ==
    \/ 250 <= Ahead(x) /\ Ahead(x) <= 1250
    \/ x.it.duration < 1000 /\ -500 <= Ahead(x) /\ Ahead(x) <= 500
Unseen(x, n) ==
    Promised(x) => /\ x.wait > 0 => Ahead(x) = 250
                   /\ x.bucket[n] > 0 => Due(x)
                   /\ \A m \in Bucket \ {n} : x.bucket[m] > 0 => Near(x, Distance(m, n))
Seen(x, n) ==
    Promised(x) => /\ x.wait > 0 => Ahead(x) \in {0, 250}
                   /\ \A m \in Bucket : x.bucket[m] > 0 => Near(x, Distance(m, n))

LEMMA BucketHere == Bucket = {0, 1, 2, 3} /\ Cycle = 1000 /\ EventDecayInterval = 250 /\ EventDecayBuckets = 4
  BY DEF Bucket, Cycle, EventDecayInterval, EventDecayBuckets

LEMMA NextBucket ==
    ASSUME NEW n \in Bucket, NEW k, k = (n + 1) % EventDecayBuckets
    PROVE  /\ k \in Bucket /\ k # n
           /\ Distance(k, n) = 1 /\ Distance(n, n) = 4
           /\ \A m \in Bucket \ {k} : Distance(m, k) = Distance(m, n) - 1
           /\ \A m \in Bucket : Distance(m, n) \in 1 .. 4
  BY BucketHere DEF Distance

LEMMA CardParts ==
    ASSUME NEW x \in CardType
    PROVE  /\ x.it \in Thing /\ x.it.where \in {"none", "world", "removed"} /\ x.it.kind \in Kind
           /\ x.it.decaying \in BOOLEAN /\ x.it.refs \in Int /\ x.it.duration \in Nat /\ x.it.timed \in BOOLEAN
           /\ x.bucket \in [Bucket -> Nat] /\ x.wait \in Nat /\ x.rel \in Nat /\ x.left \in Int
           /\ x.twice \in BOOLEAN
           /\ \A n \in Bucket : x.bucket[n] \in Nat /\ x.bucket[n] <= Entries(x)
           /\ Entries(x) \in Nat /\ x.wait <= Entries(x)
  BY BucketHere DEF CardType, Thing, Entries

\* What the helpers make of a card.
LEMMA EnterEffect ==
    ASSUME NEW x \in CardType, NEW y, y = Enter(x)
    PROVE  /\ y \in CardType
           /\ y.it.where = x.it.where /\ y.it.kind = x.it.kind /\ y.it.decaying /\ y.it.refs = x.it.refs + 1
           /\ y.it.duration = x.it.duration /\ y.it.timed = x.it.timed
           /\ y.bucket = x.bucket /\ y.wait = x.wait + 1 /\ y.rel = x.rel
           /\ x.twice => y.twice
           /\ Entries(x) # 0 => y.twice
           /\ y.left = IF Entries(x) # 0 THEN x.left ELSE x.it.duration
           /\ Entries(y) = Entries(x) + 1
  <1>1. PICK t : t = [x.it EXCEPT !.decaying = TRUE, !.refs = @ + 1]
    OBVIOUS
  <1>2. x.it \in Thing
    BY CardParts
  <1>3. /\ t \in Thing /\ t.where = x.it.where /\ t.kind = x.it.kind /\ t.decaying /\ t.refs = x.it.refs + 1
        /\ t.duration = x.it.duration /\ t.timed = x.it.timed
    <2>1. t = [where |-> x.it.where, kind |-> x.it.kind, decaying |-> TRUE, refs |-> x.it.refs + 1, duration |-> x.it.duration, timed |-> x.it.timed]
      BY <1>1, <1>2 DEF Thing
    <2> QED
      BY <1>2, <2>1 DEF Thing
  <1>4. PICK z : z = [x EXCEPT !.it = t, !.wait = @ + 1]
    OBVIOUS
  <1>5. z = [it |-> t, bucket |-> x.bucket, wait |-> x.wait + 1, rel |-> x.rel, left |-> x.left, twice |-> x.twice]
    BY <1>4 DEF CardType
  <1>6. z \in CardType
    BY <1>3, <1>5 DEF CardType
  <1>7. y = IF Entries(x) = 0 THEN [z EXCEPT !.left = x.it.duration] ELSE [z EXCEPT !.twice = TRUE]
    BY <1>1, <1>4 DEF Enter
  <1>8. CASE Entries(x) = 0
    <2>1. y = [z EXCEPT !.left = x.it.duration]
      BY <1>7, <1>8
    <2>2. /\ y \in CardType /\ y.it = t /\ y.wait = x.wait + 1 /\ y.left = x.it.duration /\ y.twice = x.twice
          /\ y.bucket = x.bucket /\ y.rel = x.rel
      BY <1>5, <1>6, <2>1, CardParts DEF CardType
    <2> QED
      BY <1>3, <1>8, <2>2, CardParts, BucketHere DEF Entries
  <1>9. CASE Entries(x) # 0
    <2>1. y = [z EXCEPT !.twice = TRUE]
      BY <1>7, <1>9
    <2>2. /\ y \in CardType /\ y.it = t /\ y.wait = x.wait + 1 /\ y.left = x.left /\ y.twice = TRUE
          /\ y.bucket = x.bucket /\ y.rel = x.rel
      BY <1>5, <1>6, <2>1 DEF CardType
    <2> QED
      BY <1>3, <1>9, <2>2, CardParts, BucketHere DEF Entries
  <1> QED
    BY <1>8, <1>9

LEMMA RemoveItemEffect ==
    ASSUME NEW x \in CardType, NEW y, y = RemoveItem(x)
    PROVE  /\ y \in CardType
           /\ y.it.where = "removed" /\ y.it.kind = x.it.kind /\ y.it.decaying = x.it.decaying /\ y.it.refs = x.it.refs
           /\ y.it.duration = x.it.duration /\ y.it.timed = x.it.timed
           /\ y.bucket = x.bucket /\ y.wait = x.wait /\ y.rel = x.rel + 1 /\ y.twice = x.twice /\ y.left = x.left
           /\ Entries(y) = Entries(x)
  <1>1. PICK t : t = [x.it EXCEPT !.where = "removed"]
    OBVIOUS
  <1>2. x.it \in Thing
    BY CardParts
  <1>3. /\ t \in Thing /\ t.where = "removed" /\ t.kind = x.it.kind /\ t.decaying = x.it.decaying
        /\ t.refs = x.it.refs /\ t.duration = x.it.duration /\ t.timed = x.it.timed
    <2>1. t = [where |-> "removed", kind |-> x.it.kind, decaying |-> x.it.decaying, refs |-> x.it.refs, duration |-> x.it.duration, timed |-> x.it.timed]
      BY <1>1, <1>2 DEF Thing
    <2> QED
      BY <1>2, <2>1 DEF Thing
  <1>4. y = [it |-> t, bucket |-> x.bucket, wait |-> x.wait, rel |-> x.rel + 1, left |-> x.left, twice |-> x.twice]
    BY <1>1 DEF RemoveItem, CardType
  <1>5. /\ y \in CardType /\ y.it = t /\ y.rel = x.rel + 1
        /\ y.wait = x.wait /\ y.left = x.left /\ y.twice = x.twice /\ y.bucket = x.bucket
    BY <1>3, <1>4 DEF CardType
  <1> QED
    BY <1>3, <1>5 DEF Entries

IsReset(x, k) == DecayTime[k] > 0 /\ (x.it.kind \notin StopTime \/ ~ x.it.timed)
IsEnded(k) == DecayTime[k] = 0 /\ k \notin StopTime /\ DecayTo[k] = Never

LEMMA SetIDEffect ==
    ASSUME NEW x \in CardType, NEW k \in Kind, NEW y, y = SetID(x, k)
    PROVE  /\ y \in CardType
           /\ y.it.where = x.it.where /\ y.it.kind = k /\ y.it.refs = x.it.refs
           /\ y.bucket = x.bucket /\ y.wait = x.wait /\ y.rel = x.rel /\ y.twice = x.twice
           /\ Entries(y) = Entries(x)
           /\ IsReset(x, k) => ~ y.it.decaying /\ y.it.timed /\ y.left = y.it.duration
                               /\ y.it.duration = 1000 * DecayTime[k]
           /\ IsEnded(k) => ~ y.it.decaying /\ ~ y.it.timed
           /\ ~ IsReset(x, k) /\ ~ IsEnded(k) =>
                 y.it.decaying = x.it.decaying /\ y.it.timed = x.it.timed
                 /\ y.it.duration = x.it.duration /\ y.left = x.left
  <1>1. DecayTime[k] \in Nat
    BY DecayAssumption
  <1>2. IsReset(x, k) <=> 1000 * DecayTime[k] > 0 /\ (x.it.kind \notin StopTime \/ ~ x.it.timed)
    BY <1>1 DEF IsReset
  <1>3. IsEnded(k) <=> 1000 * DecayTime[k] = 0 /\ k \notin StopTime /\ DecayTo[k] = Never
    BY <1>1 DEF IsEnded
  <1>4. CASE IsReset(x, k)
    <2>0. PICK new \in Nat : new = 1000 * DecayTime[k]
      BY <1>1
    <2>1. y = [x EXCEPT !.it = [@ EXCEPT !.kind = k, !.decaying = FALSE, !.duration = new, !.timed = TRUE],
                        !.left = new]
      BY <2>0, <1>2, <1>4 DEF SetID
    <2>2. ~ IsEnded(k)
      BY <1>4 DEF IsReset, IsEnded
    <2> QED
      <3>1. PICK t : t = [x.it EXCEPT !.kind = k, !.decaying = FALSE, !.duration = new, !.timed = TRUE]
        OBVIOUS
      <3>2. x.it \in Thing
        BY CardParts
      <3>3. /\ t \in Thing /\ t.where = x.it.where /\ t.kind = k /\ ~ t.decaying /\ t.refs = x.it.refs
            /\ t.duration = new /\ t.timed
        <4>1. t = [where |-> x.it.where, kind |-> k, decaying |-> FALSE, refs |-> x.it.refs, duration |-> new, timed |-> TRUE]
          BY <3>1, <3>2 DEF Thing
        <4> QED
          BY <3>2, <4>1 DEF Thing
      <3>4. y = [it |-> t, bucket |-> x.bucket, wait |-> x.wait, rel |-> x.rel, left |-> new, twice |-> x.twice]
        BY <2>1, <3>1 DEF CardType
      <3>5. /\ y \in CardType /\ y.it = t /\ y.left = new
            /\ y.rel = x.rel /\ y.wait = x.wait /\ y.twice = x.twice /\ y.bucket = x.bucket
        BY <3>2, <3>3, <3>4 DEF CardType
      <3> QED
        BY <1>4, <2>0, <2>2, <3>3, <3>5 DEF Entries
  <1>5. CASE ~ IsReset(x, k) /\ IsEnded(k)
    <2>1. y = [x EXCEPT !.it = [@ EXCEPT !.kind = k, !.decaying = FALSE, !.duration = 0, !.timed = FALSE]]
      BY <1>2, <1>3, <1>5 DEF SetID
    <2> QED
      <3>1. PICK t : t = [x.it EXCEPT !.kind = k, !.decaying = FALSE, !.duration = 0, !.timed = FALSE]
        OBVIOUS
      <3>2. x.it \in Thing
        BY CardParts
      <3>3. /\ t \in Thing /\ t.where = x.it.where /\ t.kind = k /\ ~ t.decaying /\ t.refs = x.it.refs /\ ~ t.timed
        <4>1. t = [where |-> x.it.where, kind |-> k, decaying |-> FALSE, refs |-> x.it.refs, duration |-> 0, timed |-> FALSE]
          BY <3>1, <3>2 DEF Thing
        <4> QED
          BY <3>2, <4>1 DEF Thing
      <3>4. y = [it |-> t, bucket |-> x.bucket, wait |-> x.wait, rel |-> x.rel, left |-> x.left, twice |-> x.twice]
        BY <2>1, <3>1 DEF CardType
      <3>5. /\ y \in CardType /\ y.it = t
            /\ y.left = x.left /\ y.rel = x.rel /\ y.wait = x.wait /\ y.twice = x.twice /\ y.bucket = x.bucket
        BY <3>3, <3>4 DEF CardType
      <3> QED
        BY <1>5, <3>3, <3>5 DEF Entries
  <1>6. CASE ~ IsReset(x, k) /\ ~ IsEnded(k)
    <2>1. y = [x EXCEPT !.it.kind = k]
      BY <1>2, <1>3, <1>6 DEF SetID
    <2> QED
      BY <1>6, <2>1 DEF CardType, Thing, Entries
  <1> QED
    BY <1>4, <1>5, <1>6

MayBecome(x, k) == IsOver(x) /\ DecayTo[x.it.kind] # Never => k \notin StopTime

LEMMA SetIDSound ==
    ASSUME NEW x, NEW owed \in Int, Sound(x, owed), InWorld(x), NEW k \in Kind, MayBecome(x, k),
           NEW n \in Bucket, NEW y, y = SetID(x, k)
    PROVE  /\ Sound(y, owed)
           /\ Marked(x) => Marked(y)
           /\ Settled(x, n) => Settled(y, n)
  <1>1. x \in CardType
    BY DEF Sound
  <1>2. y \in CardType
    BY <1>1, SetIDEffect
  <1>3. DecayTime[k] \in Nat /\ DecayTime[x.it.kind] \in Nat /\ x.it.kind \in Kind
    BY <1>1, CardParts, DecayAssumption
  <1>4. IsTimed(y) <=> DecayTime[k] # 0
    BY <1>1, SetIDEffect DEF IsTimed
  <1>5. IsOver(y) <=> DecayTime[k] = 0 /\ k \notin StopTime
    BY <1>1, <1>4, SetIDEffect DEF IsOver
  <1>6. InWorld(y) /\ y.it.kind = k
    BY <1>1, SetIDEffect DEF InWorld
  <1>7. Sound(y, owed)
    <2>1. ASSUME IsTimed(y)
          PROVE  y.it.timed
      <3>1. DecayTime[k] # 0 /\ ~ IsEnded(k)
        BY <1>4, <2>1 DEF IsEnded
      <3>2. CASE IsReset(x, k)
        BY <1>1, <3>2, SetIDEffect
      <3>3. CASE ~ IsReset(x, k)
        <4>1. x.it.timed
          BY <1>3, <3>1, <3>3 DEF IsReset
        <4>2. y.it.timed = x.it.timed
          BY <1>1, <3>1, <3>3, SetIDEffect
        <4> QED
          BY <4>1, <4>2
      <3> QED
        BY <3>2, <3>3
    <2>2. IsOver(y) /\ DecayTo[y.it.kind] = Never => ~ y.it.timed /\ ~ y.it.decaying
      BY <1>1, <1>5, <1>6, SetIDEffect DEF IsEnded
    <2> QED
      BY <1>1, <1>2, <2>1, <2>2, SetIDEffect DEF Sound, InWorld
  <1>8. IsOver(x) /\ ~ IsReset(x, k) => DecayTime[k] = 0
    BY <1>3 DEF IsOver, IsReset
  <1>9. Marked(x) => Marked(y)
    <2> SUFFICES ASSUME Marked(x), y.it.decaying, Entries(y) = 0
                 PROVE  IsOver(y)
      BY DEF Marked
    <2>1. ~ IsReset(x, k) /\ ~ IsEnded(k) /\ x.it.decaying /\ Entries(x) = 0
      BY <1>1, SetIDEffect
    <2>2. IsOver(x)
      BY <2>1 DEF Marked
    <2>3. DecayTo[x.it.kind] # Never
      BY <2>1, <2>2 DEF Sound
    <2> QED
      BY <1>5, <1>8, <2>1, <2>2, <2>3 DEF MayBecome
  <1>10. ASSUME Settled(x, n)
         PROVE  Settled(y, n)
    <2> SUFFICES ASSUME Promised(y)
                 PROVE  /\ y.wait > 0 => Ahead(y) = 0
                        /\ \A m \in Bucket : y.bucket[m] > 0 => Near(y, Distance(m, n))
      BY DEF Settled
    <2>1. y.it.timed /\ ~ IsOver(y) /\ ~ y.twice /\ Entries(y) = 1
      BY DEF Promised
    <2>2. CASE IsReset(x, k)
      <3>1. Ahead(y) = 0
        BY <1>1, <1>2, <2>2, SetIDEffect, CardParts DEF Ahead
      <3>2. \A m \in Bucket : Distance(m, n) \in 1 .. 4
        BY BucketHere DEF Distance
      <3> QED
        BY <3>1, <3>2 DEF Near
    <2>3. CASE ~ IsReset(x, k)
      <3>1. ~ IsEnded(k)
        BY <1>1, <2>1, SetIDEffect
      <3>2. ~ IsOver(x)
        <4>1. SUFFICES ASSUME IsOver(x)
                       PROVE  FALSE
          OBVIOUS
        <4>2. DecayTime[k] = 0 /\ k \in StopTime
          BY <1>5, <1>8, <2>1, <2>3, <4>1
        <4>3. DecayTo[x.it.kind] = Never
          BY <4>1, <4>2 DEF MayBecome
        <4>4. ~ x.it.timed
          BY <4>1, <4>3 DEF Sound
        <4> QED
          BY <1>1, <2>1, <2>3, <3>1, <4>4, SetIDEffect
      <3>3. /\ x.it.timed /\ ~ x.twice /\ Entries(x) = 1 /\ Ahead(y) = Ahead(x)
            /\ y.it.duration = x.it.duration /\ y.wait = x.wait /\ y.bucket = x.bucket
        BY <1>1, <2>1, <2>3, <3>1, SetIDEffect DEF Ahead
      <3>4. Promised(x)
        BY <3>2, <3>3 DEF Promised
      <3>5. /\ x.wait > 0 => Ahead(x) = 0
            /\ \A m \in Bucket : x.bucket[m] > 0 => Near(x, Distance(m, n))
        BY <1>10, <3>4 DEF Settled
      <3>6. \A d : Near(x, d) = Near(y, d)
        BY <3>3 DEF Near
      <3> QED
        BY <3>3, <3>5, <3>6
    <2> QED
      BY <2>2, <2>3
  <1> QED
    BY <1>7, <1>9, <1>10

LEMMA EnterSound ==
    ASSUME NEW x, NEW owed \in Int, Sound(x, owed), InWorld(x), IsTimed(x), Entries(x) <= 1,
           NEW n \in Bucket, NEW y, y = Enter(x)
    PROVE  Sound(y, owed) /\ Marked(y) /\ Settled(y, n)
  <1>1. x \in CardType
    BY DEF Sound
  <1>2. y \in CardType
    BY <1>1, EnterEffect
  <1>3. IsTimed(y) /\ InWorld(y) /\ ~ IsOver(y) /\ x.it.timed
    BY <1>1, EnterEffect DEF IsTimed, InWorld, IsOver, Sound
  <1>4. Entries(x) \in Nat /\ Entries(y) = Entries(x) + 1
    BY <1>1, EnterEffect, CardParts
  <1>5. Sound(y, owed)
    <2>1. y.it.refs = 1 + Entries(y) + y.rel + owed
      BY <1>1, <1>4, EnterEffect, CardParts DEF Sound
    <2>2. y.it.where # "none" /\ y.it.timed /\ y.it.refs = x.it.refs + 1
      BY <1>1, <1>3, EnterEffect DEF InWorld
    <2>3. Entries(y) <= 2 /\ (Entries(y) = 2 => y.twice)
      <3>1. Entries(x) # 0 => y.twice
        BY <1>1, EnterEffect
      <3> QED
        BY <1>4, <3>1
    <2> QED
      BY <1>2, <1>3, <2>1, <2>2, <2>3 DEF Sound
  <1>6. Marked(y)
    BY <1>4 DEF Marked
  <1>7. Settled(y, n)
    <2> SUFFICES ASSUME Promised(y)
                 PROVE  /\ y.wait > 0 => Ahead(y) = 0
                        /\ \A m \in Bucket : y.bucket[m] > 0 => Near(y, Distance(m, n))
      BY DEF Settled
    <2>1. Entries(x) = 0
      BY <1>4 DEF Promised
    <2>2. Ahead(y) = 0
      BY <1>1, <1>2, <2>1, EnterEffect, CardParts DEF Ahead
    <2>3. \A m \in Bucket : y.bucket[m] = 0
      BY <1>1, <2>1, EnterEffect, CardParts
    <2> QED
      BY <2>2, <2>3
  <1> QED
    BY <1>5, <1>6, <1>7

LEMMA InternalDecayItemSound ==
    ASSUME NEW x, NEW owed \in Int, Sound(x, owed), CanDecay(x), Entries(x) <= 1,
           NEW n \in Bucket, Settled(x, n), NEW y, y = InternalDecayItem(x)
    PROVE  /\ Sound(y, owed) /\ Marked(y) /\ Settled(y, n)
           /\ y.bucket = x.bucket /\ (x.twice => y.twice)
  <1>1. x \in CardType /\ InWorld(x) /\ IsTimed(x) /\ DecayTo[x.it.kind] # Never
    BY DEF Sound, CanDecay, InWorld, IsTimed
  <1>2. PICK k : k = DecayTo[x.it.kind]
    OBVIOUS
  <1>3. x.it.kind \in Kind /\ k \in Kind \cup {Nothing}
    BY <1>1, <1>2, CardParts, DecayAssumption
  <1>4. CASE k = Nothing
    <2>1. y = RemoveItem(x)
      BY <1>2, <1>4 DEF InternalDecayItem
    <2>2. ~ InWorld(y)
      BY <1>1, <2>1, RemoveItemEffect DEF InWorld
    <2>3. Sound(y, owed)
      <3>1. y.it.refs = Entries(y) + y.rel + owed
        BY <1>1, <2>1, RemoveItemEffect, CardParts DEF Sound
      <3>2. y \in CardType /\ y.it.where = "removed" /\ Entries(y) <= 2 /\ (Entries(y) = 2 => y.twice)
        BY <1>1, <2>1, RemoveItemEffect DEF Sound
      <3>3. y.it.refs = 0 + Entries(y) + y.rel + owed /\ y.it.where # "none"
        BY <3>1, <3>2, CardParts
      <3> QED
        BY <2>2, <3>2, <3>3 DEF Sound
    <2> QED
      BY <1>1, <2>1, <2>2, <2>3, RemoveItemEffect DEF Marked, Settled, Promised
  <1>5. CASE k # Nothing
    <2>1. k \in Kind /\ x.it.kind \notin StopTime /\ k \notin StopTime
      BY <1>2, <1>3, <1>5, DecayAssumption
    <2>2. PICK z : z = SetID(x, k)
      OBVIOUS
    <2>3. Sound(z, owed) /\ Settled(z, n)
      BY <1>1, <2>1, <2>2, SetIDSound DEF MayBecome
    <2>4. z \in CardType /\ z.it.kind = k /\ InWorld(z) /\ Entries(z) <= 1 /\ z.bucket = x.bucket /\ z.twice = x.twice
      BY <1>1, <2>1, <2>2, SetIDEffect DEF InWorld
    <2>5. y = IF CanDecay(z) /\ ~ z.it.decaying THEN Enter(z) ELSE z
      BY <1>2, <1>5, <2>2 DEF InternalDecayItem
    <2>6. CASE IsTimed(z) /\ CanDecay(z) /\ ~ z.it.decaying
      <3>1. y = Enter(z)
        BY <2>5, <2>6
      <3> QED
        BY <2>3, <2>4, <2>6, <3>1, EnterSound, EnterEffect
    <2>7. CASE ~ (CanDecay(z) /\ ~ z.it.decaying)
      <3>1. y = z
        BY <2>5, <2>7
      <3>2. DecayTime[k] \in Nat
        BY <2>1, DecayAssumption
      <3>3. DecayTime[k] # 0 => ~ z.it.decaying
        BY <1>1, <2>1, <2>2, <3>2, SetIDEffect DEF IsReset
      <3>4. Marked(z)
        BY <2>1, <2>4, <3>3 DEF Marked, IsOver, IsTimed
      <3> QED
        BY <2>3, <2>4, <3>1, <3>4
    <2>8. CanDecay(z) => IsTimed(z)
      BY DEF CanDecay, IsTimed
    <2> QED
      BY <2>6, <2>7, <2>8
  <1> QED
    BY <1>4, <1>5

Good(x, n) == Sound(x, 0) /\ Marked(x) /\ Settled(x, n)

LEMMA StartDecayGood ==
    ASSUME NEW x, NEW n \in Bucket, Good(x, n), Entries(x) <= 1, NEW y, y = StartDecay(x)
    PROVE  Good(y, n)
  <1>1. CASE ~ CanDecay(x) \/ x.it.decaying
    BY <1>1 DEF StartDecay
  <1>2. CASE CanDecay(x) /\ ~ x.it.decaying /\ x.it.duration > 0
    <2>1. y = Enter(x)
      BY <1>2 DEF StartDecay
    <2>2. InWorld(x) /\ IsTimed(x)
      BY <1>2 DEF CanDecay, InWorld, IsTimed
    <2> QED
      BY <2>1, <2>2, EnterSound DEF Good
  <1>3. CASE CanDecay(x) /\ ~ x.it.decaying /\ ~ x.it.duration > 0
    <2>1. y = InternalDecayItem(x)
      BY <1>3 DEF StartDecay
    <2> QED
      BY <1>3, <2>1, InternalDecayItemSound DEF Good
  <1> QED
    BY <1>1, <1>2, <1>3

(***************************************************************************)
(* The look at a bucket.                                                   *)
(***************************************************************************)
Put(bucket, n, k) == [bucket EXCEPT ![n] = k]
Taken(x, n, d) == [[x EXCEPT !.bucket[n] = @ - 1] EXCEPT !.it.duration = d]

LEMMA OneOfFive ==
    ASSUME NEW a \in Nat, NEW b \in Nat, NEW c \in Nat, NEW d \in Nat, NEW e \in Nat,
           a + b + c + d + e = 1
    PROVE  /\ a > 0 => b = 0 /\ c = 0 /\ d = 0 /\ e = 0
           /\ b > 0 => a = 0 /\ c = 0 /\ d = 0 /\ e = 0
           /\ c > 0 => a = 0 /\ b = 0 /\ d = 0 /\ e = 0
           /\ d > 0 => a = 0 /\ b = 0 /\ c = 0 /\ e = 0
           /\ e > 0 => a = 0 /\ b = 0 /\ c = 0 /\ d = 0
  OBVIOUS

LEMMA OnlyEntry ==
    ASSUME NEW x \in CardType, NEW n \in Bucket, x.bucket[n] > 0, Entries(x) = 1
    PROVE  x.wait = 0 /\ \A m \in Bucket \ {n} : x.bucket[m] = 0
  <1>1. x.wait \in Nat /\ x.bucket[0] \in Nat /\ x.bucket[1] \in Nat /\ x.bucket[2] \in Nat /\ x.bucket[3] \in Nat
    BY CardParts, BucketHere
  <1>2. x.wait + x.bucket[0] + x.bucket[1] + x.bucket[2] + x.bucket[3] = 1
    BY DEF Entries
  <1>3. PICK w \in Nat, p \in Nat, q \in Nat, r \in Nat, t \in Nat :
             w = x.wait /\ p = x.bucket[0] /\ q = x.bucket[1] /\ r = x.bucket[2] /\ t = x.bucket[3]
    BY <1>1
  <1>4. w + p + q + r + t = 1
    BY <1>2, <1>3
  <1>5. p > 0 => w = 0 /\ q = 0 /\ r = 0 /\ t = 0
    BY <1>4, OneOfFive
  <1>6. q > 0 => w = 0 /\ p = 0 /\ r = 0 /\ t = 0
    BY <1>4, OneOfFive
  <1>7. r > 0 => w = 0 /\ p = 0 /\ q = 0 /\ t = 0
    BY <1>4, OneOfFive
  <1>8. t > 0 => w = 0 /\ p = 0 /\ q = 0 /\ r = 0
    BY <1>4, OneOfFive
  <1> QED
    BY <1>3, <1>5, <1>6, <1>7, <1>8, BucketHere

LEMMA BucketEffect ==
    ASSUME NEW x \in CardType, NEW n \in Bucket, NEW k \in Nat,
           NEW y, y.wait = x.wait, y.bucket = Put(x.bucket, n, k)
    PROVE  /\ y.bucket \in [Bucket -> Nat] /\ y.bucket[n] = k
           /\ \A m \in Bucket \ {n} : y.bucket[m] = x.bucket[m]
           /\ Entries(y) = Entries(x) - x.bucket[n] + k
  <1>1. x.bucket \in [Bucket -> Nat] /\ x.wait \in Nat
    BY CardParts
  <1>2. /\ y.bucket \in [Bucket -> Nat] /\ y.bucket[n] = k
        /\ \A m \in Bucket \ {n} : y.bucket[m] = x.bucket[m]
    BY <1>1 DEF Put
  <1>3. \A m \in Bucket : x.bucket[m] \in Nat /\ y.bucket[m] \in Nat
    BY <1>1, <1>2
  <1> QED
    BY <1>1, <1>2, <1>3, BucketHere DEF Entries

\* The card of an item of which one entry is taken, with another duration.
LEMMA TakenEffect ==
    ASSUME NEW x \in CardType, NEW n \in Bucket, x.bucket[n] > 0, NEW d \in Nat,
           NEW y, y = Taken(x, n, d)
    PROVE  /\ y \in CardType
           /\ y.it.where = x.it.where /\ y.it.kind = x.it.kind /\ y.it.decaying = x.it.decaying
           /\ y.it.refs = x.it.refs /\ y.it.duration = d /\ y.it.timed = x.it.timed
           /\ y.wait = x.wait /\ y.rel = x.rel /\ y.left = x.left /\ y.twice = x.twice
           /\ y.bucket = Put(x.bucket, n, x.bucket[n] - 1)
           /\ Entries(y) = Entries(x) - 1
  <1>1. PICK bucket : bucket = Put(x.bucket, n, x.bucket[n] - 1)
    OBVIOUS
  <1>2. PICK t : t = [x.it EXCEPT !.duration = d]
    OBVIOUS
  <1>3. x.it \in Thing /\ x.bucket \in [Bucket -> Nat] /\ x.bucket[n] - 1 \in Nat
    BY CardParts
  <1>4. /\ t \in Thing /\ t.where = x.it.where /\ t.kind = x.it.kind /\ t.decaying = x.it.decaying
        /\ t.refs = x.it.refs /\ t.duration = d /\ t.timed = x.it.timed
    BY <1>2, <1>3 DEF Thing
  <1>5. bucket \in [Bucket -> Nat]
    BY <1>1, <1>3 DEF Put
  <1>6. y = [it |-> t, bucket |-> bucket, wait |-> x.wait, rel |-> x.rel, left |-> x.left, twice |-> x.twice]
    BY <1>1, <1>2 DEF CardType, Taken, Put
  <1>7. /\ y \in CardType /\ y.it = t /\ y.bucket = bucket
        /\ y.wait = x.wait /\ y.rel = x.rel /\ y.left = x.left /\ y.twice = x.twice
    <2>1. x.wait \in Nat /\ x.rel \in Nat /\ x.left \in Int /\ x.twice \in BOOLEAN
      BY CardParts
    <2> QED
      BY <1>4, <1>5, <1>6, <2>1 DEF CardType
  <1>8. Entries(y) = Entries(x) - 1
    <2>1. Entries(y) = Entries(x) - x.bucket[n] + (x.bucket[n] - 1)
      BY <1>1, <1>3, <1>7, BucketEffect
    <2> QED
      BY <2>1, CardParts
  <1> QED
    BY <1>1, <1>4, <1>7, <1>8

LEMMA TakenSound ==
    ASSUME NEW x, Sound(x, 0), NEW n \in Bucket, x.bucket[n] > 0, NEW d \in Nat,
           NEW y, y = Taken(x, n, d)
    PROVE  /\ Sound(y, 1) /\ Settled(y, n) /\ Entries(y) <= 1
           /\ CanDecay(x) => CanDecay(y)
  <1>1. x \in CardType
    BY DEF Sound
  <1>2. Entries(y) = Entries(x) - 1 /\ y \in CardType /\ y.twice = x.twice
    BY <1>1, TakenEffect
  <1>3. Entries(x) \in 0 .. 2
    BY <1>1, CardParts DEF Sound
  <1>4. Sound(y, 1)
    <2>1. y.it.refs = (IF InWorld(y) THEN 1 ELSE 0) + Entries(y) + y.rel + 1
      BY <1>1, <1>2, <1>3, TakenEffect, CardParts DEF Sound, InWorld
    <2>2. InWorld(y) => /\ IsTimed(y) => y.it.timed
                        /\ IsOver(y) /\ DecayTo[y.it.kind] = Never => ~ y.it.timed /\ ~ y.it.decaying
      BY <1>1, TakenEffect DEF Sound, InWorld, IsTimed, IsOver
    <2>3. y.it.where = "none" => y.it.refs = 0
      BY <1>1, TakenEffect DEF Sound
    <2> QED
      BY <1>2, <1>3, <2>1, <2>2, <2>3 DEF Sound
  <1>5. Settled(y, n)
    BY <1>2, <1>3 DEF Settled, Promised, Sound
  <1> QED
    BY <1>1, <1>2, <1>3, <1>4, <1>5, TakenEffect DEF CanDecay

LEMMA ReleasedSound ==
    ASSUME NEW x, Sound(x, 1), Marked(x), NEW n \in Bucket, Settled(x, n),
           NEW y, y = [x EXCEPT !.rel = @ + 1]
    PROVE  /\ Sound(y, 0) /\ Marked(y) /\ Seen(y, n)
           /\ y.twice = x.twice /\ y.bucket = x.bucket
  <1>1. x \in CardType
    BY DEF Sound
  <1>2. y = [it |-> x.it, bucket |-> x.bucket, wait |-> x.wait, rel |-> x.rel + 1, left |-> x.left, twice |-> x.twice]
    BY <1>1 DEF CardType
  <1>3. /\ y \in CardType /\ y.it = x.it /\ y.bucket = x.bucket /\ y.wait = x.wait /\ y.rel = x.rel + 1
        /\ y.left = x.left /\ y.twice = x.twice
    BY <1>1, <1>2 DEF CardType
  <1>4. Entries(y) = Entries(x)
    BY <1>3 DEF Entries
  <1>5. Sound(y, 0)
    <2>1. y.it.refs = (IF InWorld(y) THEN 1 ELSE 0) + Entries(y) + y.rel + 0
      BY <1>1, <1>3, <1>4, CardParts DEF Sound, InWorld
    <2> QED
      BY <1>3, <1>4, <2>1 DEF Sound, InWorld, IsTimed, IsOver
  <1>6. Marked(y) /\ Seen(y, n)
    BY <1>3, <1>4 DEF Marked, Seen, Settled, Promised, InWorld, IsOver, IsTimed, Near, Ahead
  <1> QED
    BY <1>3, <1>5, <1>6

\* An entry of an item that decays no more.
Dropped(x, n) == [[x EXCEPT !.bucket[n] = @ - 1] EXCEPT !.it.decaying = FALSE, !.rel = @ + 1]

LEMMA DroppedSound ==
    ASSUME NEW x, Sound(x, 0), NEW n \in Bucket, x.bucket[n] > 0, NEW y, y = Dropped(x, n)
    PROVE  /\ Sound(y, 0) /\ Marked(y) /\ Seen(y, n)
           /\ x.twice => y.twice
           /\ y.bucket[n] >= x.bucket[n] - 1
  <1>1. PICK bucket : bucket = Put(x.bucket, n, x.bucket[n] - 1)
    OBVIOUS
  <1>2. PICK t : t = [x.it EXCEPT !.decaying = FALSE]
    OBVIOUS
  <1>3. x \in CardType /\ x.it \in Thing /\ x.bucket \in [Bucket -> Nat] /\ x.bucket[n] - 1 \in Nat
    BY CardParts DEF Sound
  <1>4. /\ t \in Thing /\ t.where = x.it.where /\ t.kind = x.it.kind /\ ~ t.decaying
        /\ t.refs = x.it.refs /\ t.duration = x.it.duration /\ t.timed = x.it.timed
    BY <1>2, <1>3 DEF Thing
  <1>5. bucket \in [Bucket -> Nat] /\ bucket[n] = x.bucket[n] - 1
    BY <1>1, <1>3 DEF Put
  <1>6. y = [it |-> t, bucket |-> bucket, wait |-> x.wait, rel |-> x.rel + 1, left |-> x.left, twice |-> x.twice]
    BY <1>1, <1>2, <1>3 DEF CardType, Dropped, Put
  <1>7. x.wait \in Nat /\ x.rel + 1 \in Nat /\ x.left \in Int /\ x.twice \in BOOLEAN
    BY <1>3, CardParts
  <1>8. /\ y \in CardType /\ y.it = t /\ y.bucket = bucket
        /\ y.wait = x.wait /\ y.rel = x.rel + 1 /\ y.left = x.left /\ y.twice = x.twice
    BY <1>4, <1>5, <1>6, <1>7 DEF CardType
  <1>9. Entries(y) = Entries(x) - 1 /\ Entries(x) \in 0 .. 2 /\ Entries(y) \in Nat
    <2>1. Entries(y) = Entries(x) - x.bucket[n] + (x.bucket[n] - 1)
      BY <1>1, <1>3, <1>8, BucketEffect
    <2>2. Entries(x) \in Nat /\ Entries(x) <= 2 /\ Entries(y) \in Nat
      BY <1>3, <1>8, CardParts DEF Sound
    <2> QED
      <3>1. x.bucket[n] \in Nat
        BY <1>3, CardParts
      <3> QED
        BY <1>3, <2>1, <2>2, <3>1
  <1>10. Sound(y, 0)
    <2>1. y.it.refs = (IF InWorld(y) THEN 1 ELSE 0) + Entries(y) + y.rel + 0
      BY <1>3, <1>4, <1>8, <1>9, CardParts DEF Sound, InWorld
    <2>2. InWorld(y) => /\ IsTimed(y) => y.it.timed
                        /\ IsOver(y) /\ DecayTo[y.it.kind] = Never => ~ y.it.timed /\ ~ y.it.decaying
      BY <1>4, <1>8 DEF Sound, InWorld, IsTimed, IsOver
    <2>3. y.it.where = "none" => y.it.refs = 0
      BY <1>4, <1>8 DEF Sound
    <2> QED
      BY <1>8, <1>9, <2>1, <2>2, <2>3 DEF Sound
  <1>11. Marked(y) /\ Seen(y, n)
    BY <1>4, <1>8, <1>9 DEF Marked, Seen, Promised, Sound
  <1> QED
    BY <1>5, <1>8, <1>10, <1>11

Shortened(x, d) == [x EXCEPT !.it.duration = d]

LEMMA DurationEffect ==
    ASSUME NEW x \in CardType, NEW d \in Nat, NEW y, y = Shortened(x, d)
    PROVE  /\ y \in CardType
           /\ y.it.where = x.it.where /\ y.it.kind = x.it.kind /\ y.it.decaying = x.it.decaying
           /\ y.it.refs = x.it.refs /\ y.it.duration = d /\ y.it.timed = x.it.timed
           /\ y.wait = x.wait /\ y.rel = x.rel /\ y.left = x.left /\ y.twice = x.twice /\ y.bucket = x.bucket
           /\ Entries(y) = Entries(x)
  <1>1. PICK t : t = [x.it EXCEPT !.duration = d]
    OBVIOUS
  <1>2. x.it \in Thing
    BY CardParts
  <1>3. /\ t \in Thing /\ t.where = x.it.where /\ t.kind = x.it.kind /\ t.decaying = x.it.decaying
        /\ t.refs = x.it.refs /\ t.duration = d /\ t.timed = x.it.timed
    BY <1>1, <1>2 DEF Thing
  <1>4. y = [it |-> t, bucket |-> x.bucket, wait |-> x.wait, rel |-> x.rel, left |-> x.left, twice |-> x.twice]
    BY <1>1 DEF CardType, Shortened
  <1>5. /\ y \in CardType /\ y.it = t
        /\ y.wait = x.wait /\ y.rel = x.rel /\ y.left = x.left /\ y.twice = x.twice /\ y.bucket = x.bucket
    BY <1>3, <1>4 DEF CardType
  <1> QED
    BY <1>3, <1>5 DEF Entries

\* An item stays in the bucket.
LEMMA KeptSound ==
    ASSUME NEW x, Sound(x, 0), Marked(x), NEW n \in Bucket, x.bucket[n] > 0, Unseen(x, n),
           NEW d \in Nat, d >= 1000, x.it.duration = d + 1000,
           NEW y, y = Shortened(x, d)
    PROVE  /\ Sound(y, 0) /\ Marked(y) /\ Seen(y, n)
           /\ x.twice => y.twice
           /\ y.bucket[n] >= x.bucket[n] - 1
  <1>1. x \in CardType
    BY DEF Sound
  <1>2. PICK z : z = y
    OBVIOUS
  <1>3. /\ z \in CardType
        /\ z.it.where = x.it.where /\ z.it.kind = x.it.kind /\ z.it.decaying = x.it.decaying
        /\ z.it.refs = x.it.refs /\ z.it.duration = d /\ z.it.timed = x.it.timed
        /\ z.wait = x.wait /\ z.rel = x.rel /\ z.left = x.left /\ z.twice = x.twice /\ z.bucket = x.bucket
        /\ Entries(z) = Entries(x)
    BY <1>1, <1>2, DurationEffect
  <1>4. Sound(z, 0) /\ Marked(z)
    BY <1>3 DEF Sound, Marked, InWorld, IsTimed, IsOver
  <1>5. Seen(z, n)
    <2> SUFFICES ASSUME Promised(z)
                 PROVE  /\ z.wait > 0 => Ahead(z) \in {0, 250}
                        /\ \A m \in Bucket : z.bucket[m] > 0 => Near(z, Distance(m, n))
      BY DEF Seen
    <2>1. Promised(x) /\ Entries(x) = 1
      BY <1>3 DEF Promised, InWorld, IsOver, IsTimed
    <2>2. Due(x)
      BY <2>1 DEF Unseen
    <2>3. z.wait = 0 /\ \A m \in Bucket \ {n} : z.bucket[m] = 0
      BY <1>1, <1>3, <2>1, OnlyEntry
    <2>4. Near(z, Distance(n, n))
      BY <1>1, <1>3, <2>2, NextBucket, CardParts DEF Near, Due, Ahead
    <2> QED
      BY <2>3, <2>4
  <1>6. x.bucket[n] \in Nat
    BY <1>1, CardParts
  <1> QED
    BY <1>2, <1>3, <1>4, <1>5, <1>6

\* An item moves to the next bucket, where it will run out.
Relaid(x, n, d, k) == [[[x EXCEPT !.bucket[n] = @ - 1] EXCEPT !.it.duration = d] EXCEPT !.bucket[k] = @ + 1]

LEMMA RelaidSound ==
    ASSUME NEW x, Sound(x, 0), Marked(x), NEW n \in Bucket, x.bucket[n] > 0, Unseen(x, n),
           NEW k \in Bucket, k # n, Distance(k, n) = 1,
           NEW d \in Nat, d < 1000, x.it.duration = d + 1000,
           NEW y, y = Relaid(x, n, d, k)
    PROVE  /\ Sound(y, 0) /\ Marked(y) /\ Seen(y, n)
           /\ x.twice => y.twice
           /\ y.bucket[n] >= x.bucket[n] - 1
  <1>1. PICK z : z = Taken(x, n, d)
    OBVIOUS
  <1>2. x \in CardType
    BY DEF Sound
  <1>3. /\ z \in CardType
        /\ z.it.where = x.it.where /\ z.it.kind = x.it.kind /\ z.it.decaying = x.it.decaying
        /\ z.it.refs = x.it.refs /\ z.it.duration = d /\ z.it.timed = x.it.timed
        /\ z.wait = x.wait /\ z.rel = x.rel /\ z.left = x.left /\ z.twice = x.twice
        /\ z.bucket = Put(x.bucket, n, x.bucket[n] - 1)
        /\ Entries(z) = Entries(x) - 1
    BY <1>1, <1>2, TakenEffect
  <1>4. x.bucket \in [Bucket -> Nat] /\ x.bucket[n] - 1 \in Nat /\ Entries(x) \in Nat /\ z.bucket \in [Bucket -> Nat]
    BY <1>2, <1>3, CardParts
  <1>5. z.bucket[n] = x.bucket[n] - 1 /\ z.bucket[k] + 1 \in Nat
    BY <1>3, <1>4 DEF Put
  <1>6. PICK bucket : bucket = Put(z.bucket, k, z.bucket[k] + 1)
    OBVIOUS
  <1>7. y = [it |-> z.it, bucket |-> bucket, wait |-> z.wait, rel |-> z.rel, left |-> z.left, twice |-> z.twice]
    BY <1>1, <1>3, <1>6 DEF Relaid, Taken, Put, CardType
  <1>8. bucket \in [Bucket -> Nat] /\ bucket[n] = x.bucket[n] - 1
    BY <1>4, <1>5, <1>6 DEF Put
  <1>9. /\ y \in CardType /\ y.it = z.it /\ y.bucket = bucket
        /\ y.wait = z.wait /\ y.rel = z.rel /\ y.left = z.left /\ y.twice = z.twice
    <2>1. z.it \in Thing /\ z.wait \in Nat /\ z.rel \in Nat /\ z.left \in Int /\ z.twice \in BOOLEAN
      BY <1>3, CardParts
    <2> QED
      BY <1>7, <1>8, <2>1 DEF CardType
  <1>10. Entries(y) = Entries(x)
    <2>1. Entries(y) = Entries(z) - z.bucket[k] + (z.bucket[k] + 1)
      BY <1>3, <1>5, <1>6, <1>9, BucketEffect
    <2>2. z.bucket[k] \in Nat
      BY <1>4
    <2> QED
      BY <1>3, <1>4, <2>1, <2>2
  <1>11. Sound(y, 0) /\ Marked(y)
    BY <1>3, <1>9, <1>10 DEF Sound, Marked, InWorld, IsTimed, IsOver
  <1>12. Seen(y, n)
    <2> SUFFICES ASSUME Promised(y)
                 PROVE  /\ y.wait > 0 => Ahead(y) \in {0, 250}
                        /\ \A m \in Bucket : y.bucket[m] > 0 => Near(y, Distance(m, n))
      BY DEF Seen
    <2>1. Promised(x) /\ Entries(x) = 1
      BY <1>3, <1>9, <1>10 DEF Promised, InWorld, IsOver, IsTimed
    <2>2. Due(x)
      BY <2>1 DEF Unseen
    <2>3. x.wait = 0 /\ \A m \in Bucket \ {n} : x.bucket[m] = 0
      BY <1>2, <2>1, OnlyEntry
    <2>4. x.bucket[n] = 1
      BY <1>2, <2>1, CardParts
    <2>5. y.wait = 0 /\ \A m \in Bucket \ {k} : y.bucket[m] = 0
      BY <1>3, <1>4, <1>6, <1>9, <2>3, <2>4 DEF Put
    <2>6. Near(y, 1)
      BY <1>2, <1>3, <1>9, <2>2, CardParts DEF Near, Due, Ahead
    <2> QED
      BY <2>5, <2>6
  <1>13. x.bucket[n] \in Nat
    BY <1>4
  <1> QED
    BY <1>3, <1>8, <1>9, <1>11, <1>12, <1>13

LEMMA CheckEntrySound ==
    ASSUME NEW x, Sound(x, 0), Marked(x), NEW n \in Bucket, x.bucket[n] > 0, Unseen(x, n),
           NEW y, y = CheckEntry(x, n)
    PROVE  /\ Sound(y, 0) /\ Marked(y) /\ Seen(y, n)
           /\ x.twice => y.twice
           /\ y.bucket[n] >= x.bucket[n] - 1
  <1>1. x \in CardType /\ x.it.duration \in Nat
    BY CardParts DEF Sound
  <1>2. PICK d : d = x.it.duration - DecreaseTime(x.it.duration)
    OBVIOUS
  <1>3. d \in Nat /\ (d = 0 \/ x.it.duration = d + 1000)
    BY <1>1, <1>2, BucketHere DEF DecreaseTime
  <1>4. PICK k : k = (n + (d + EventDecayInterval \div 2) \div 1000) % EventDecayBuckets
    OBVIOUS
  <1>5. CASE ~ CanDecay(x)
    <2>1. y = Dropped(x, n)
      BY <1>5 DEF CheckEntry, Dropped
    <2> QED
      BY <2>1, DroppedSound
  <1>6. CASE CanDecay(x) /\ d >= Cycle
    <2>1. y = Shortened(x, d)
      BY <1>2, <1>6 DEF CheckEntry, Shortened
    <2> QED
      BY <1>3, <1>6, <2>1, BucketHere, KeptSound
  <1>7. CASE CanDecay(x) /\ ~ d >= Cycle /\ (d <= 0 \/ k = n)
    <2>1. PICK z : z = Taken(x, n, d)
      OBVIOUS
    <2>2. PICK w : w = InternalDecayItem(z)
      OBVIOUS
    <2>3. y = [w EXCEPT !.rel = @ + 1]
      BY <1>2, <1>4, <1>7, <2>1, <2>2 DEF CheckEntry, Taken
    <2>4. Sound(z, 1) /\ Settled(z, n) /\ Entries(z) <= 1 /\ CanDecay(z)
      BY <1>3, <1>7, <2>1, TakenSound
    <2>5. Sound(w, 1) /\ Marked(w) /\ Settled(w, n) /\ w.bucket = z.bucket /\ (z.twice => w.twice)
      BY <2>2, <2>4, InternalDecayItemSound
    <2>6. Sound(y, 0) /\ Marked(y) /\ Seen(y, n) /\ y.twice = w.twice /\ y.bucket = w.bucket
      BY <2>3, <2>5, ReleasedSound
    <2>7. z.twice = x.twice /\ z.bucket = Put(x.bucket, n, x.bucket[n] - 1)
      BY <1>1, <1>3, <2>1, TakenEffect
    <2>8. y.bucket[n] = x.bucket[n] - 1 /\ x.bucket[n] \in Nat
      BY <1>1, <2>5, <2>6, <2>7, CardParts DEF Put
    <2> QED
      BY <2>5, <2>6, <2>7, <2>8
  <1>8. CASE CanDecay(x) /\ ~ d >= Cycle /\ ~ d <= 0 /\ k # n
    <2>1. y = Relaid(x, n, d, k)
      BY <1>2, <1>4, <1>8 DEF CheckEntry, Relaid
    <2>2. d < 1000 /\ x.it.duration = d + 1000
      BY <1>3, <1>8, BucketHere
    <2>3. k \in Bucket /\ Distance(k, n) = 1
      <3>1. EventDecayInterval \div 2 = 125
        BY BucketHere
      <3>2. PICK q : q = (d + 125) \div 1000
        OBVIOUS
      <3>3. q \in {0, 1}
        BY <1>3, <2>2, <3>2
      <3>4. k = (n + q) % 4
        BY <1>4, <3>1, <3>2, BucketHere
      <3> QED
        BY <1>8, <3>3, <3>4, BucketHere DEF Distance
    <2> QED
      BY <1>3, <1>8, <2>1, <2>2, <2>3, RelaidSound
  <1> QED
    BY <1>5, <1>6, <1>7, <1>8

LEMMA CheckEntriesSound ==
    ASSUME NEW x, Sound(x, 0), Marked(x), NEW n \in Bucket, Unseen(x, n), NEW y, y = CheckEntries(x, n)
    PROVE  Sound(y, 0) /\ Marked(y) /\ Seen(y, n)
  <1>1. x \in CardType /\ x.bucket[n] \in Nat /\ x.bucket[n] <= Entries(x) /\ Entries(x) \in Nat /\ Entries(x) <= 2
    BY CardParts DEF Sound
  <1>2. CASE x.bucket[n] = 0
    <2>1. y = x
      BY <1>2 DEF CheckEntries
    <2>2. Seen(x, n)
      BY <1>2 DEF Seen, Unseen
    <2> QED
      BY <2>1, <2>2
  <1>3. CASE x.bucket[n] = 1
    <2>1. y = CheckEntry(x, n)
      BY <1>3 DEF CheckEntries
    <2> QED
      BY <1>3, <2>1, CheckEntrySound
  <1>4. CASE x.bucket[n] = 2
    <2>1. PICK z : z = CheckEntry(x, n)
      OBVIOUS
    <2>2. y = CheckEntry(z, n)
      BY <1>4, <2>1 DEF CheckEntries
    <2>3. x.twice
      BY <1>1, <1>4 DEF Sound
    <2>4. Sound(z, 0) /\ Marked(z) /\ z.twice /\ z.bucket[n] >= 1
      BY <1>4, <2>1, <2>3, CheckEntrySound
    <2>5. Unseen(z, n) /\ z.bucket[n] > 0
      <3>1. z.bucket[n] \in Nat
        BY <2>4, CardParts DEF Sound
      <3> QED
        BY <2>4, <3>1 DEF Unseen, Promised
    <2> QED
      BY <2>2, <2>4, <2>5, CheckEntrySound
  <1> QED
    BY <1>1, <1>2, <1>3, <1>4

LEMMA LaterSound ==
    ASSUME NEW x, NEW n \in Bucket, Good(x, n), NEW k, k = (n + 1) % EventDecayBuckets,
           NEW y, y = Later(x)
    PROVE  Sound(y, 0) /\ Marked(y) /\ Unseen(y, k)
  <1>1. x \in CardType
    BY DEF Good, Sound
  <1>2. CASE Entries(x) = 0
    <2>1. y = x
      BY <1>2 DEF Later
    <2> QED
      BY <1>2, <2>1 DEF Good, Unseen, Promised
  <1>3. CASE Entries(x) # 0
    <2>1. y = [x EXCEPT !.left = @ - 250]
      BY <1>3, BucketHere DEF Later
    <2>2. y = [it |-> x.it, bucket |-> x.bucket, wait |-> x.wait, rel |-> x.rel, left |-> x.left - 250, twice |-> x.twice]
      BY <1>1, <2>1 DEF CardType
    <2>3. /\ y \in CardType /\ y.it = x.it /\ y.bucket = x.bucket /\ y.wait = x.wait /\ y.rel = x.rel
          /\ y.left = x.left - 250 /\ y.twice = x.twice
      BY <1>1, <2>2 DEF CardType
    <2>4. Entries(y) = Entries(x) /\ Ahead(y) = Ahead(x) + 250 /\ Ahead(x) \in Int
      BY <1>1, <2>3, CardParts DEF Entries, Ahead
    <2>5. Sound(y, 0) /\ Marked(y)
      BY <2>3, <2>4 DEF Good, Sound, Marked, InWorld, IsTimed, IsOver
    <2>6. Unseen(y, k)
      <3> SUFFICES ASSUME Promised(y)
                   PROVE  /\ y.wait > 0 => Ahead(y) = 250
                          /\ y.bucket[k] > 0 => Due(y)
                          /\ \A m \in Bucket \ {k} : y.bucket[m] > 0 => Near(y, Distance(m, k))
        BY DEF Unseen
      <3>1. Promised(x)
        BY <2>3, <2>4 DEF Promised, InWorld, IsTimed, IsOver
      <3>2. /\ x.wait > 0 => Ahead(x) = 0
            /\ \A m \in Bucket : x.bucket[m] > 0 => Near(x, Distance(m, n))
        BY <3>1 DEF Good, Settled
      <3>3. y.bucket[k] > 0 => Due(y)
        <4> SUFFICES ASSUME y.bucket[k] > 0
                     PROVE  Due(y)
          OBVIOUS
        <4>1. Near(x, 1)
          BY <2>3, <3>2, NextBucket
        <4>2. y.it.duration = x.it.duration
          BY <2>3
        <4>3. PICK a \in Int : a = Ahead(x) /\ a + 250 = Ahead(y)
          BY <2>4
        <4>4. (-750 <= a - 250 * (4 - 1) /\ a - 250 * (4 - 1) <= 250)
              \/ (x.it.duration < 1000 /\ -750 <= a /\ a <= 250)
          BY <4>1, <4>3 DEF Near
        <4>5. (250 <= a + 250 /\ a + 250 <= 1250)
              \/ (x.it.duration < 1000 /\ -500 <= a + 250 /\ a + 250 <= 500)
          BY <4>4
        <4> QED
          BY <4>2, <4>3, <4>5 DEF Due
      <3>4. ASSUME NEW m \in Bucket \ {k}, y.bucket[m] > 0
            PROVE  Near(y, Distance(m, k))
        <4>1. PICK d \in 1 .. 4 : d = Distance(m, n)
          BY NextBucket
        <4>2. Distance(m, k) = d - 1
          BY <4>1, NextBucket
        <4>3. Distance(m, k) \in 1 .. 4
          BY NextBucket, BucketHere DEF Distance
        <4>4. Near(x, d) /\ d # 1
          BY <2>3, <3>2, <3>4, <4>1, <4>2, <4>3
        <4> QED
          BY <2>4, <4>2, <4>4 DEF Near
      <3> QED
        BY <2>3, <2>4, <3>2, <3>3, <3>4
    <2> QED
      BY <2>5, <2>6
  <1> QED
    BY <1>2, <1>3

LEMMA NoItemParts ==
    /\ NoItem \in Thing /\ NoItem.where = "none" /\ NoItem.refs = 0
  <1>1. AKind \in Kind
    BY DecayAssumption DEF AKind
  <1>2. PICK d \in Nat : d = 1000 * DecayTime[AKind]
    BY <1>1, DecayAssumption
  <1>3. PICK timed \in BOOLEAN : timed = (DecayTime[AKind] # 0)
    OBVIOUS
  <1>4. PICK new : new = NewItem(AKind)
    OBVIOUS
  <1>5. new = [where |-> "world", kind |-> AKind, decaying |-> FALSE, refs |-> 1, duration |-> d, timed |-> timed]
    BY <1>2, <1>3, <1>4 DEF NewItem
  <1>6. NoItem = [new EXCEPT !.where = "none", !.refs = 0]
    BY <1>4 DEF NoItem
  <1>7. NoItem = [where |-> "none", kind |-> AKind, decaying |-> FALSE, refs |-> 0, duration |-> d, timed |-> timed]
    BY <1>5, <1>6
  <1> QED
    BY <1>1, <1>7 DEF Thing

LEMMA CleanupItemGood ==
    ASSUME NEW x, NEW n \in Bucket, Sound(x, 0), Marked(x), Seen(x, n), NEW y, y = CleanupItem(x, n)
    PROVE  Good(y, n)
  <1>1. x \in CardType /\ x.it \in Thing
    BY CardParts DEF Sound
  <1>2. PICK place : place = IF x.it.duration >= Cycle THEN n
                             ELSE (n + 1 + x.it.duration \div 1000) % EventDecayBuckets
    OBVIOUS
  <1>3. /\ place \in Bucket
        /\ x.it.duration >= 1000 => Distance(place, n) = 4
        /\ x.it.duration < 1000 => Distance(place, n) = 1
    <2>1. x.it.duration \in Nat
      BY <1>1, CardParts
    <2>2. CASE x.it.duration >= 1000
      BY <1>2, <2>1, <2>2, BucketHere DEF Distance
    <2>3. CASE x.it.duration < 1000
      <3>1. x.it.duration \div 1000 = 0
        BY <2>1, <2>3
      <3>2. place = (n + 1) % EventDecayBuckets
        BY <1>2, <2>1, <2>3, <3>1, BucketHere
      <3> QED
        BY <2>1, <2>3, <3>2, NextBucket
    <2> QED
      BY <2>1, <2>2, <2>3
  <1>4. PICK refs : refs = x.it.refs - x.rel
    OBVIOUS
  <1>5. refs = (IF InWorld(x) THEN 1 ELSE 0) + Entries(x)
    BY <1>1, <1>4, CardParts DEF Sound
  <1>6. PICK t : t = IF x.it.where # "none" /\ refs = 0 THEN NoItem ELSE [x.it EXCEPT !.refs = refs]
    OBVIOUS
  <1>7. PICK bucket : bucket = [m \in Bucket |-> x.bucket[m] + IF m = place THEN x.wait ELSE 0]
    OBVIOUS
  <1>8. PICK left : left = IF refs = 0 THEN 0 ELSE x.left
    OBVIOUS
  <1>9. PICK second : second = (x.twice /\ Entries(x) # 0)
    OBVIOUS
  <1>10. y = [it |-> t, bucket |-> bucket, wait |-> 0, rel |-> 0, left |-> left, twice |-> second]
    BY <1>1, <1>2, <1>4, <1>6, <1>7, <1>8, <1>9 DEF CleanupItem, CardType
  <1>11. bucket \in [Bucket -> Nat] /\ x.wait \in Nat /\ Entries(x) \in Nat
         /\ \A m \in Bucket : x.bucket[m] \in Nat /\ bucket[m] = x.bucket[m] + IF m = place THEN x.wait ELSE 0
    <2>1. x.wait \in Nat /\ Entries(x) \in Nat /\ \A m \in Bucket : x.bucket[m] \in Nat
      BY <1>1, CardParts
    <2> QED
      BY <1>7, <2>1
  <1>12. t \in Thing
    <2>1. CASE x.it.where # "none" /\ refs = 0
      BY <1>6, <2>1, NoItemParts
    <2>2. CASE ~ (x.it.where # "none" /\ refs = 0)
      <3>1. t = [x.it EXCEPT !.refs = refs]
        BY <1>6, <2>2
      <3>2. refs \in Int
        BY <1>1, <1>4, CardParts
      <3> QED
        BY <1>1, <3>1, <3>2 DEF Thing
    <2> QED
      BY <2>1, <2>2
  <1>13. left \in Int /\ second \in BOOLEAN
    BY <1>1, <1>8, <1>9, CardParts
  <1>14. /\ y \in CardType /\ y.it = t /\ y.bucket = bucket /\ y.wait = 0 /\ y.rel = 0
         /\ y.left = left /\ y.twice = second
    BY <1>10, <1>11, <1>12, <1>13 DEF CardType
  <1>15. Entries(y) = Entries(x)
    <2>1. PICK w \in Nat, p \in Nat, q \in Nat, r \in Nat, u \in Nat :
               w = x.wait /\ p = x.bucket[0] /\ q = x.bucket[1] /\ r = x.bucket[2] /\ u = x.bucket[3]
      BY <1>11, BucketHere
    <2>2. PICK p2 \in Nat, q2 \in Nat, r2 \in Nat, u2 \in Nat :
               p2 = bucket[0] /\ q2 = bucket[1] /\ r2 = bucket[2] /\ u2 = bucket[3]
      BY <1>11, BucketHere
    <2>3. p2 = p + (IF place = 0 THEN w ELSE 0) /\ q2 = q + (IF place = 1 THEN w ELSE 0)
          /\ r2 = r + (IF place = 2 THEN w ELSE 0) /\ u2 = u + (IF place = 3 THEN w ELSE 0)
      BY <1>11, <2>1, <2>2, BucketHere
    <2>4. 0 + p2 + q2 + r2 + u2 = w + p + q + r + u
      BY <1>3, <2>3, BucketHere
    <2> QED
      BY <1>14, <2>1, <2>2, <2>4 DEF Entries
  <1>16. (x.twice /\ Entries(x) # 0 => second) /\ (second => x.twice)
    BY <1>9, Zenon
  <1>17. CASE x.it.where # "none" /\ refs = 0
    <2>1. y.it = NoItem /\ Entries(x) = 0
      BY <1>5, <1>6, <1>11, <1>14, <1>17
    <2> QED
      BY <1>14, <1>15, <2>1, NoItemParts DEF Good, Sound, Marked, Settled, Promised, InWorld
  <1>18. CASE ~ (x.it.where # "none" /\ refs = 0)
    <2>1. /\ t.where = x.it.where /\ t.kind = x.it.kind /\ t.decaying = x.it.decaying
          /\ t.refs = refs /\ t.duration = x.it.duration /\ t.timed = x.it.timed
      BY <1>1, <1>6, <1>18 DEF Thing
    <2>2. InWorld(y) = InWorld(x) /\ IsTimed(y) = IsTimed(x) /\ IsOver(y) = IsOver(x)
      BY <1>14, <2>1 DEF InWorld, IsTimed, IsOver
    <2>3. Sound(y, 0)
      <3>1. y.it.refs = (IF InWorld(y) THEN 1 ELSE 0) + Entries(y) + y.rel + 0
        BY <1>5, <1>11, <1>14, <1>15, <2>1, <2>2
      <3>2. y.it.where = "none" => y.it.refs = 0
        <4> SUFFICES ASSUME x.it.where = "none"
                     PROVE  refs = 0
          BY <1>14, <2>1
        <4>1. x.it.refs = 0 /\ ~ InWorld(x)
          BY DEF Sound, InWorld
        <4>2. x.rel \in Nat
          BY <1>1, CardParts
        <4> QED
          BY <1>4, <1>5, <1>11, <4>1, <4>2
      <3>3. Entries(x) = 2 => second
        <4>1. Entries(x) = 2 => x.twice /\ Entries(x) # 0
          BY DEF Sound
        <4> QED
          BY <1>16, <4>1
      <3> QED
        BY <1>14, <1>15, <2>1, <2>2, <3>1, <3>2, <3>3 DEF Sound
    <2>4. Marked(y)
      BY <1>14, <1>15, <2>1, <2>2 DEF Marked
    <2>5. Settled(y, n)
      <3> SUFFICES ASSUME Promised(y)
                   PROVE  /\ y.wait > 0 => Ahead(y) = 0
                          /\ \A m \in Bucket : y.bucket[m] > 0 => Near(y, Distance(m, n))
        BY DEF Settled
      <3>1. Entries(x) = 1 /\ ~ second
        BY <1>14, <1>15 DEF Promised
      <3>2. Promised(x)
        <4>1. ~ x.twice
          BY <1>16, <3>1
        <4> QED
          BY <1>14, <1>15, <2>1, <2>2, <4>1 DEF Promised
      <3>3. left = x.left
        BY <1>5, <1>8, <3>1
      <3>4. Ahead(y) = Ahead(x) /\ y.it.duration = x.it.duration
        BY <1>14, <2>1, <3>3 DEF Ahead
      <3>5. ASSUME NEW m \in Bucket, y.bucket[m] > 0
            PROVE  Near(y, Distance(m, n))
        <4>1. CASE x.bucket[m] > 0
          <5>1. Near(x, Distance(m, n))
            BY <3>2, <4>1 DEF Seen
          <5> QED
            BY <3>4, <5>1 DEF Near
        <4>2. CASE ~ x.bucket[m] > 0
          <5>1. m = place /\ x.wait > 0
            BY <1>11, <1>14, <3>5, <4>2
          <5>2. Ahead(y) \in {0, 250}
            BY <3>2, <3>4, <5>1 DEF Seen
          <5>3. Near(y, 4) /\ (y.it.duration < 1000 => Near(y, 1))
            BY <5>2 DEF Near
          <5>4. x.it.duration \in Nat
            BY <1>1, CardParts
          <5> QED
            BY <1>3, <3>4, <5>1, <5>3, <5>4
        <4> QED
          BY <4>1, <4>2
      <3> QED
        BY <1>14, <3>5
    <2> QED
      BY <2>3, <2>4, <2>5 DEF Good
  <1> QED
    BY <1>17, <1>18

(***************************************************************************)
(* The steps.                                                              *)
(***************************************************************************)
DecayInv == lastBucket \in Bucket /\ \A i \in Item : Good(Card(i), lastBucket)

LEMMA CardWritten ==
    ASSUME NEW cards, NEW i \in Item, WriteCards(cards), cards[i] \in CardType
    PROVE  Card(i)' = cards[i]
  <1>1. PICK x : x = cards[i]
    OBVIOUS
  <1>2. /\ items'[i] = x.it /\ toDecayItems'[i] = x.wait /\ toReleaseItems'[i] = x.rel /\ remaining'[i] = x.left
        /\ \A n \in Bucket : decayItems'[n][i] = x.bucket[n]
    BY <1>1 DEF WriteCards
  <1>3. (i \in twice') <=> x.twice
    BY <1>1 DEF WriteCards
  <1>4. PICK second \in BOOLEAN : second = (i \in twice')
    <2>1. CASE i \in twice'
      <3>1. (i \in twice') = TRUE
        BY <2>1, Zenon
      <3> QED
        BY <3>1, Zenon
    <2>2. CASE i \notin twice'
      <3>1. (i \in twice') = FALSE
        BY <2>2
      <3> QED
        BY <3>1, Zenon
    <2> QED
      BY <2>1, <2>2
  <1>5. x \in CardType /\ x.bucket \in [Bucket -> Nat] /\ x.twice \in BOOLEAN
    BY <1>1, CardParts
  <1>6. second = x.twice
    BY <1>3, <1>4, <1>5
  <1>7. [n \in Bucket |-> decayItems'[n][i]] = x.bucket
    BY <1>2, <1>5
  <1>8. Card(i)' = [it |-> x.it, bucket |-> x.bucket, wait |-> x.wait, rel |-> x.rel, left |-> x.left, twice |-> second]
    BY <1>2, <1>4, <1>7 DEF Card
  <1>9. Card(i)' = x
    BY <1>5, <1>6, <1>8 DEF CardType
  <1> QED
    BY <1>1, <1>9

LEMMA CardsKept ==
    ASSUME UNCHANGED <<items, decayItems, toDecayItems, toReleaseItems, remaining, twice>>, NEW i \in Item
    PROVE  Card(i)' = Card(i)
  BY DEF Card

LEMMA CardHere ==
    ASSUME NEW i \in Item, DecayInv
    PROVE  /\ Good(Card(i), lastBucket) /\ Card(i) \in CardType
           /\ Card(i).it = items[i]
  BY DEF DecayInv, Good, Sound, Card

LEMMA AllWritten ==
    ASSUME NEW n \in Bucket, lastBucket' = n, NEW cards, WriteCards(cards),
           \A i \in Item : Good(cards[i], n)
    PROVE  DecayInv'
  <1>1. ASSUME NEW i \in Item
        PROVE  Card(i)' = cards[i]
    BY CardWritten DEF Good, Sound
  <1> QED
    BY <1>1 DEF DecayInv

LEMMA CheckDecayStep ==
    ASSUME DecayInv, CheckDecay
    PROVE  DecayInv'
  <1>1. PICK n : n = (lastBucket + 1) % EventDecayBuckets
    OBVIOUS
  <1>2. lastBucket \in Bucket /\ n \in Bucket /\ lastBucket' = n
    BY <1>1, NextBucket DEF DecayInv, CheckDecay
  <1>3. PICK cards : cards = [i \in Item |-> CleanupItem(CheckEntries(Later(Card(i)), n), n)]
    OBVIOUS
  <1>4. WriteCards(cards)
    BY <1>1, <1>3 DEF CheckDecay
  <1>5. ASSUME NEW i \in Item
        PROVE  Good(cards[i], n)
    <2>1. PICK x : x = Later(Card(i))
      OBVIOUS
    <2>2. PICK y : y = CheckEntries(x, n)
      OBVIOUS
    <2>3. cards[i] = CleanupItem(y, n)
      BY <1>3, <2>1, <2>2
    <2>4. Sound(x, 0) /\ Marked(x) /\ Unseen(x, n)
      BY <1>1, <1>2, <2>1, CardHere, LaterSound
    <2>5. Sound(y, 0) /\ Marked(y) /\ Seen(y, n)
      BY <1>2, <2>2, <2>4, CheckEntriesSound
    <2> QED
      BY <1>2, <2>3, <2>5, CleanupItemGood
  <1> QED
    BY <1>2, <1>4, <1>5, AllWritten

LEMMA CleanupDecayStep ==
    ASSUME DecayInv, CleanupStep
    PROVE  DecayInv'
  <1>1. PICK cards : cards = [i \in Item |-> CleanupItem(Card(i), lastBucket)]
    OBVIOUS
  <1>2. PICK n \in Bucket : n = lastBucket /\ lastBucket' = n /\ WriteCards(cards)
    BY <1>1 DEF CleanupStep, DecayInv
  <1>3. ASSUME NEW i \in Item
        PROVE  Good(cards[i], n)
    <2>1. Sound(Card(i), 0) /\ Marked(Card(i)) /\ Seen(Card(i), n)
      BY <1>2, CardHere DEF Good, Settled, Seen
    <2>2. cards[i] = CleanupItem(Card(i), n)
      BY <1>1, <1>2
    <2> QED
      BY <2>1, <2>2, CleanupItemGood
  <1> QED
    BY <1>2, <1>3, AllWritten

LEMMA ItemEventStep ==
    ASSUME DecayInv, NEW i \in Item, NEW x, Good(x, lastBucket), ItemEvent(i, x)
    PROVE  DecayInv'
  <1>1. PICK cards : cards = [j \in Item |-> IF j = i THEN x ELSE Card(j)]
    OBVIOUS
  <1>2. PICK n \in Bucket : n = lastBucket /\ lastBucket' = n /\ WriteCards(cards)
    BY <1>1 DEF ItemEvent, DecayInv
  <1>3. \A j \in Item : Good(cards[j], n)
    BY <1>1, <1>2, CardHere
  <1> QED
    BY <1>2, <1>3, AllWritten

LEMMA NewItemParts ==
    ASSUME NEW k \in Kind, NEW t, t = NewItem(k)
    PROVE  /\ t \in Thing /\ t.where = "world" /\ t.kind = k /\ ~ t.decaying /\ t.refs = 1
           /\ t.timed <=> DecayTime[k] # 0
  <1>1. PICK d \in Nat : d = 1000 * DecayTime[k]
    BY DecayAssumption
  <1>2. PICK timed \in BOOLEAN : timed = (DecayTime[k] # 0)
    OBVIOUS
  <1>3. t = [where |-> "world", kind |-> k, decaying |-> FALSE, refs |-> 1, duration |-> d, timed |-> timed]
    BY <1>1, <1>2 DEF NewItem
  <1>4. /\ t \in Thing /\ t.where = "world" /\ t.kind = k /\ ~ t.decaying /\ t.refs = 1
        /\ t.timed = timed
    BY <1>3 DEF Thing
  <1>5. t.timed <=> DecayTime[k] # 0
    BY <1>2, <1>4, Zenon
  <1> QED
    BY <1>4, <1>5

LEMMA CreateStep ==
    ASSUME DecayInv, NEW i \in Item, NEW k \in Kind, Create(i, k)
    PROVE  DecayInv'
  <1>1. PICK x : x = Card(i)
    OBVIOUS
  <1>2. Good(x, lastBucket) /\ x \in CardType /\ lastBucket \in Bucket
    BY <1>1, CardHere DEF DecayInv
  <1>3. x.it.where = "none"
    BY <1>1, CardHere DEF Create
  <1>4. Entries(x) = 0 /\ x.rel = 0
    <2>1. x.it.refs = 0 /\ x.it.refs = 0 + Entries(x) + x.rel + 0
      BY <1>2, <1>3 DEF Good, Sound, InWorld
    <2>2. Entries(x) \in Nat /\ x.rel \in Nat
      BY <1>2, CardParts
    <2> QED
      BY <2>1, <2>2
  <1>5. PICK t : t = NewItem(k)
    OBVIOUS
  <1>6. PICK y : y = [x EXCEPT !.it = t]
    OBVIOUS
  <1>7. y = [it |-> t, bucket |-> x.bucket, wait |-> x.wait, rel |-> x.rel, left |-> x.left, twice |-> x.twice]
    BY <1>2, <1>6 DEF CardType
  <1>8. /\ t \in Thing /\ t.where = "world" /\ t.kind = k /\ ~ t.decaying /\ t.refs = 1
        /\ t.timed <=> DecayTime[k] # 0
    BY <1>5, NewItemParts
  <1>9. /\ y \in CardType /\ y.it = t /\ y.bucket = x.bucket /\ y.wait = x.wait /\ y.rel = x.rel
        /\ y.left = x.left /\ y.twice = x.twice
    BY <1>2, <1>7, <1>8 DEF CardType
  <1>10. Entries(y) = 0
    BY <1>4, <1>9 DEF Entries
  <1>11. Good(y, lastBucket)
    BY <1>4, <1>8, <1>9, <1>10 DEF Good, Sound, Marked, Settled, Promised, InWorld, IsTimed, IsOver
  <1>12. PICK z : z = StartDecay(y)
    OBVIOUS
  <1>13. Good(z, lastBucket)
    BY <1>2, <1>10, <1>11, <1>12, StartDecayGood
  <1>14. ItemEvent(i, z)
    BY <1>1, <1>5, <1>6, <1>12 DEF Create
  <1> QED
    BY <1>13, <1>14, ItemEventStep

LEMMA TransformStep ==
    ASSUME DecayInv, NEW i \in Item, NEW k \in Kind, NEW start \in BOOLEAN, Transform(i, k, start)
    PROVE  DecayInv'
  <1>1. PICK x : x = Card(i)
    OBVIOUS
  <1>2. Good(x, lastBucket) /\ x \in CardType /\ lastBucket \in Bucket
    BY <1>1, CardHere DEF DecayInv
  <1>3. InWorld(x) /\ k \in Becomes[x.it.kind] /\ Entries(x) < 2
    BY <1>1, CardHere DEF Transform, InWorld
  <1>4. x.it.kind \in Kind
    BY <1>2, CardParts
  <1>5. MayBecome(x, k)
    BY <1>3, <1>4, DecayAssumption DEF MayBecome, IsOver, IsTimed
  <1>6. PICK y : y = SetID(x, k)
    OBVIOUS
  <1>7. Good(y, lastBucket) /\ Entries(y) <= 1
    <2>1. Entries(y) = Entries(x) /\ Entries(x) \in Nat
      BY <1>2, <1>6, SetIDEffect, CardParts
    <2> QED
      BY <1>2, <1>3, <1>5, <1>6, <2>1, SetIDSound DEF Good
  <1>8. PICK z : z = IF start THEN StartDecay(y) ELSE y
    OBVIOUS
  <1>9. Good(z, lastBucket)
    BY <1>2, <1>7, <1>8, StartDecayGood
  <1>10. ItemEvent(i, z)
    BY <1>1, <1>6, <1>8 DEF Transform
  <1> QED
    BY <1>9, <1>10, ItemEventStep

LEMMA TakeAwayStep ==
    ASSUME DecayInv, NEW i \in Item, TakeAway(i)
    PROVE  DecayInv'
  <1>1. PICK x : x = Card(i)
    OBVIOUS
  <1>2. Good(x, lastBucket) /\ x \in CardType /\ InWorld(x)
    BY <1>1, CardHere DEF InWorld, TakeAway
  <1>3. PICK y : y = RemoveItem(x)
    OBVIOUS
  <1>4. ~ InWorld(y) /\ y.it.where # "none"
    BY <1>2, <1>3, RemoveItemEffect DEF InWorld
  <1>5. y.it.refs = 0 + Entries(y) + y.rel + 0
    BY <1>2, <1>3, RemoveItemEffect, CardParts DEF Good, Sound
  <1>6. Sound(y, 0)
    BY <1>2, <1>3, <1>4, <1>5, RemoveItemEffect DEF Good, Sound
  <1>7. Good(y, lastBucket)
    BY <1>4, <1>6 DEF Good, Marked, Settled, Promised
  <1>8. ItemEvent(i, y)
    BY <1>1, <1>3 DEF TakeAway
  <1> QED
    BY <1>7, <1>8, ItemEventStep

LEMMA DecayInitGood == DecayInit => DecayInv
  <1> SUFFICES ASSUME DecayInit
               PROVE  DecayInv
    OBVIOUS
  <1>1. lastBucket \in Bucket
    BY BucketHere DEF DecayInit
  <1>2. ASSUME NEW i \in Item
        PROVE  Good(Card(i), lastBucket)
    <2>1. PICK x : x = Card(i)
      OBVIOUS
    <2>2. PICK bucket : bucket = [n \in Bucket |-> 0]
      OBVIOUS
    <2>3. x = [it |-> NoItem, bucket |-> bucket, wait |-> 0, rel |-> 0, left |-> 0, twice |-> FALSE]
      <3>1. items[i] = NoItem /\ toDecayItems[i] = 0 /\ toReleaseItems[i] = 0 /\ remaining[i] = 0
        BY DEF DecayInit, NoEntries
      <3>2. [n \in Bucket |-> decayItems[n][i]] = bucket
        BY <2>2 DEF DecayInit, NoEntries
      <3>3. (i \in twice) = FALSE
        BY DEF DecayInit
      <3>4. PICK second : second = (i \in twice)
        OBVIOUS
      <3>5. x = [it |-> NoItem, bucket |-> bucket, wait |-> 0, rel |-> 0, left |-> 0, twice |-> second]
        BY <2>1, <3>1, <3>2, <3>4 DEF Card
      <3> QED
        BY <3>3, <3>4, <3>5, Zenon
    <2>4. x \in CardType /\ Entries(x) = 0 /\ x.it = NoItem /\ x.rel = 0
      BY <2>2, <2>3, NoItemParts, BucketHere DEF CardType, Entries
    <2>5. Good(x, lastBucket)
      BY <2>4, NoItemParts DEF Good, Sound, Marked, Settled, Promised, InWorld
    <2> QED
      BY <2>1, <2>5
  <1> QED
    BY <1>1, <1>2 DEF DecayInv

LEMMA DecayStepGood == DecayInv /\ [DecayNext]_decayVars => DecayInv'
  <1> SUFFICES ASSUME DecayInv, [DecayNext]_decayVars
               PROVE  DecayInv'
    OBVIOUS
  <1>1. CASE CheckDecay
    BY <1>1, CheckDecayStep
  <1>2. CASE CleanupStep
    BY <1>2, CleanupDecayStep
  <1>3. ASSUME NEW i \in Item, NEW k \in Kind, Create(i, k)
        PROVE  DecayInv'
    BY <1>3, CreateStep
  <1>4. ASSUME NEW i \in Item, NEW k \in Kind, NEW start \in BOOLEAN, Transform(i, k, start)
        PROVE  DecayInv'
    BY <1>4, TransformStep
  <1>5. ASSUME NEW i \in Item, TakeAway(i)
        PROVE  DecayInv'
    BY <1>5, TakeAwayStep
  <1>6. CASE UNCHANGED decayVars
    BY <1>6, CardsKept DEF decayVars, DecayInv
  <1> QED
    BY <1>1, <1>2, <1>3, <1>4, <1>5, <1>6 DEF DecayNext

\* Every item has as many references as the world, the buckets and the lists hold,
\* for any items and kinds (ItemRefsExact of Decay).
THEOREM ItemRefsCorrect == DecaySpec => []ItemRefsExact
  <1>1. DecayInv => ItemRefsExact
    <2> SUFFICES ASSUME DecayInv, NEW i \in Item
                 PROVE  items[i].refs = (IF items[i].where = "world" THEN 1 ELSE 0)
                                        + Entries(Card(i)) + toReleaseItems[i]
      BY DEF ItemRefsExact
    <2>1. PICK x : x = Card(i)
      OBVIOUS
    <2>2. x.it = items[i] /\ x.rel = toReleaseItems[i]
      BY <2>1 DEF Card
    <2>3. Sound(x, 0) /\ Entries(x) \in Nat /\ x.rel \in Nat
      BY <2>1, CardHere, CardParts DEF Good
    <2> QED
      BY <2>1, <2>2, <2>3 DEF Sound, InWorld
  <1> QED
    BY <1>1, DecayInitGood, DecayStepGood, PTL DEF DecaySpec

\* What is marked as decaying is in a bucket, and its duration is right to a cycle
\* (DecayInTime of Decay).
THEOREM DecayInTimeCorrect == DecaySpec => []DecayInTime
  <1>1. DecayInv => DecayInTime
    <2> SUFFICES ASSUME DecayInv, NEW i \in Item, CanDecay(Card(i))
                 PROVE  /\ items[i].decaying => Entries(Card(i)) > 0
                        /\ i \notin twice /\ Entries(Card(i)) = 1 =>
                              /\ EventDecayInterval - Cycle <= items[i].duration - remaining[i]
                              /\ items[i].duration - remaining[i] <= Cycle
      BY DEF DecayInTime
    <2>1. PICK x : x = Card(i)
      OBVIOUS
    <2>2. x.it = items[i] /\ x.left = remaining[i] /\ (x.twice <=> i \in twice)
      BY <2>1 DEF Card
    <2>3. Good(x, lastBucket) /\ x \in CardType /\ CanDecay(x) /\ lastBucket \in Bucket
      BY <2>1, CardHere DEF DecayInv
    <2>4. InWorld(x) /\ IsTimed(x) /\ ~ IsOver(x) /\ x.it.timed
      BY <2>3 DEF Good, Sound, CanDecay, InWorld, IsTimed, IsOver
    <2>5. x.it.decaying => Entries(x) > 0
      BY <2>3, <2>4, CardParts DEF Good, Marked
    <2>6. ASSUME ~ x.twice, Entries(x) = 1
          PROVE  -750 <= Ahead(x) /\ Ahead(x) <= 1000
      <3>1. Promised(x)
        BY <2>4, <2>6 DEF Promised
      <3>2. /\ x.wait > 0 => Ahead(x) = 0
            /\ \A m \in Bucket : x.bucket[m] > 0 => Near(x, Distance(m, lastBucket))
        BY <2>3, <3>1 DEF Good, Settled
      <3>3. CASE x.wait > 0
        BY <3>2, <3>3
      <3>4. CASE ~ x.wait > 0
        <4>1. PICK m \in Bucket : x.bucket[m] > 0
          <5>1. PICK w \in Nat, p \in Nat, q \in Nat, r \in Nat, u \in Nat :
                     w = x.wait /\ p = x.bucket[0] /\ q = x.bucket[1] /\ r = x.bucket[2] /\ u = x.bucket[3]
            BY <2>3, CardParts, BucketHere
          <5>2. w + p + q + r + u = 1 /\ ~ w > 0
            BY <2>6, <3>4, <5>1 DEF Entries
          <5>3. p > 0 \/ q > 0 \/ r > 0 \/ u > 0
            BY <5>2
          <5> QED
            BY <5>1, <5>3, BucketHere
        <4>2. PICK d \in 1 .. 4 : d = Distance(m, lastBucket)
          BY <2>3, BucketHere DEF Distance
        <4>3. Near(x, d)
          BY <3>2, <4>1, <4>2
        <4>4. PICK a \in Int : a = Ahead(x)
          BY <2>3, CardParts DEF Ahead
        <4> QED
          BY <4>2, <4>3, <4>4 DEF Near
      <3> QED
        BY <3>3, <3>4
    <2>7. Ahead(x) = items[i].duration - remaining[i] /\ EventDecayInterval - Cycle = -750 /\ Cycle = 1000
      BY <2>2, BucketHere DEF Ahead
    <2> QED
      BY <2>1, <2>2, <2>5, <2>6, <2>7
  <1> QED
    BY <1>1, DecayInitGood, DecayStepGood, PTL DEF DecaySpec

(***************************************************************************)
(* The counts of references of creatures, of the monsters of a spawn and   *)
(* of items are exact, however the steps of the three parts interleave.    *)
(***************************************************************************)
THEOREM ReferencesCorrect == MonstersSpec /\ SpawnsSpec /\ DecaySpec => []ReferencesExact
  <1>1. CreatureRefsExact /\ SpawnRefsExact /\ ItemRefsExact => ReferencesExact
    BY DEF ReferencesExact
  <1> QED
    BY <1>1, CreatureRefsCorrect, SpawnRefsCorrect, ItemRefsCorrect, PTL

(***************************************************************************)
(* A monster that sees a player is awake, and an empty place of a spawn    *)
(* that has started is checked again.                                      *)
(***************************************************************************)
THEOREM NobodyForgottenCorrect == MonstersSpec /\ SpawnsSpec => []NobodyIsForgotten
  <1>1. MonstersAreAwake /\ EmptyPlacesAreChecked => NobodyIsForgotten
    BY DEF NobodyIsForgotten
  <1> QED
    BY <1>1, AwakeCorrect, PlacesAreChecked, PTL
=============================================================================
