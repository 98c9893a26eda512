------------------------------ MODULE Scheduler ------------------------------
(***************************************************************************)
(* The scheduler thread (src/src/scheduler.cpp): delayed tasks, their      *)
(* cancellation and shutdown.  The game thread posts handlers to an asio   *)
(* io_context that the scheduler thread runs one at a time, in order; the  *)
(* completion of a timer is such a handler too.  A cancelled timer         *)
(* completes with an error, one that had already expired does not: its     *)
(* completion is in the queue and a cancellation no longer reaches it.     *)
(*                                                                         *)
(* A task is the number of the addEvent call that made it.                 *)
(***************************************************************************)
EXTENDS Sequences, FiniteSets, Naturals

CONSTANTS
    MaxEvents,  \* bound on the calls of addEvent
    IdModulus   \* lastEventId is a uint32_t: 2^32 in the program

ASSUME SchedulerAssumption == MaxEvents \in Nat /\ IdModulus \in Nat \ {0, 1}

VARIABLES
    added,              \* number of calls of addEvent so far
    state,              \* ThreadHolder::threadState; nothing reads CLOSING
    queue,              \* the handlers posted to io_context, and completions
    eventIdTimerMap,    \* the ids that have a timer
    armed,              \* the tasks whose timer is waiting
    inHand,             \* the task on its way to the dispatcher, 0 for none
    ioStopped,          \* io_context.stop has been called
    dispatched,         \* the tasks handed to the dispatcher, in order
    deleted,            \* the tasks deleted without being handed over
    stopped             \* history: the ids passed to stopEvent

vars == <<added, state, queue, eventIdTimerMap, armed, inHand, ioStopped,
          dispatched, deleted, stopped>>

Event == 1 .. MaxEvents
EventId(t) == t % IdModulus     \* ++lastEventId
Handler ==
    [op : {"add", "expired", "aborted"}, task : Event] \cup
    [op : {"stop"}, id : 0 .. IdModulus - 1] \cup [op : {"shutdown"}]

InSeq(x, s) == \E i \in DOMAIN s : s[i] = x

TypeOK ==
    /\ added \in 0 .. MaxEvents
    /\ state \in {"RUNNING", "TERMINATED"}
    /\ queue \in Seq(Handler)
    /\ eventIdTimerMap \subseteq 0 .. IdModulus - 1
    /\ armed \subseteq 1 .. added
    /\ inHand \in 0 .. added
    /\ ioStopped \in BOOLEAN
    /\ dispatched \in Seq(1 .. added)
    /\ deleted \subseteq 1 .. added
    /\ stopped \subseteq 1 .. IdModulus - 1

Init ==
    /\ added = 0
    /\ state = "RUNNING"
    /\ queue = <<>>
    /\ eventIdTimerMap = {} /\ armed = {}
    /\ inHand = 0
    /\ ioStopped = FALSE
    /\ dispatched = <<>> /\ deleted = {} /\ stopped = {}

-----------------------------------------------------------------------------
(* The game thread.  addEvent and stopEvent do not look at the state.      *)

Post(h) == queue' = Append(queue, h)

AddEvent ==
    /\ added < MaxEvents
    /\ added' = added + 1
    /\ Post([op |-> "add", task |-> added + 1])
    /\ UNCHANGED <<state, eventIdTimerMap, armed, inHand, ioStopped, dispatched,
                   deleted, stopped>>

\* stopEvent(0) returns at once.  An id is stopped once: its owner forgets it.
StopEvent(id) ==
    /\ id # 0 /\ id \notin stopped
    /\ Post([op |-> "stop", id |-> id])
    /\ stopped' = stopped \cup {id}
    /\ UNCHANGED <<added, state, eventIdTimerMap, armed, inHand, ioStopped,
                   dispatched, deleted>>

Shutdown ==
    /\ state # "TERMINATED"
    /\ state' = "TERMINATED"
    /\ Post([op |-> "shutdown"])
    /\ UNCHANGED <<added, eventIdTimerMap, armed, inHand, ioStopped, dispatched,
                   deleted, stopped>>

-----------------------------------------------------------------------------
(* The timers.  A timer has at most one wait (OneWaitPerId).  Cancelling   *)
(* or destroying it completes the wait with operation_aborted, behind what *)
(* is already queued.                                                      *)

WaitsOf(id) == {t \in armed : EventId(t) = id}
Aborted(T) == IF T = {} THEN <<>>
              ELSE <<[op |-> "aborted", task |-> CHOOSE t \in T : TRUE]>>

\* Faulty: the completions of cancelled waits are lost.
CancelTimer_Silently(id) ==
    /\ armed' = armed \ WaitsOf(id)
    /\ queue' = Tail(queue)
CancelTimer(id) ==
    /\ armed' = armed \ WaitsOf(id)
    /\ queue' = Tail(queue) \o Aborted(WaitsOf(id))

Expire(t) ==
    /\ t \in armed /\ ~ ioStopped
    /\ armed' = armed \ {t}
    /\ Post([op |-> "expired", task |-> t])
    /\ UNCHANGED <<added, state, eventIdTimerMap, inHand, ioStopped, dispatched,
                   deleted, stopped>>

-----------------------------------------------------------------------------
(* The scheduler thread runs the handler at the head of the queue.         *)

Runs(op) ==
    /\ ~ ioStopped /\ inHand = 0
    /\ queue # <<>> /\ Head(queue).op = op

\* expires_from_now cancels what waits on the timer of a reused id.
Rearmed(t) == (armed \ WaitsOf(EventId(t))) \cup {t}

RunAdd ==
    /\ Runs("add")
    /\ LET t == Head(queue).task IN
        /\ eventIdTimerMap' = eventIdTimerMap \cup {EventId(t)}
        /\ armed' = Rearmed(t)
        /\ queue' = Tail(queue) \o Aborted(WaitsOf(EventId(t)))
    /\ UNCHANGED <<added, state, inHand, ioStopped, dispatched, deleted, stopped>>

\* Faulty: the handler sees the last id and not the one it was posted for.
TimerToStop_Latest == EventId(added)
TimerToStop == Head(queue).id

RunStop ==
    /\ Runs("stop")
    /\ IF TimerToStop \in eventIdTimerMap
       THEN CancelTimer(TimerToStop)
       ELSE queue' = Tail(queue) /\ UNCHANGED armed
    /\ UNCHANGED <<added, state, eventIdTimerMap, inHand, ioStopped, dispatched,
                   deleted, stopped>>

StopsNow == TRUE

\* What io_context.stop leaves in the queue is never run.
RunShutdown ==
    /\ Runs("shutdown")
    /\ queue' = Tail(queue)
    /\ armed' = {}
    /\ ioStopped' = StopsNow
    /\ UNCHANGED <<added, state, eventIdTimerMap, inHand, dispatched, deleted, stopped>>

\* The completion erases its id first, and with it the timer another task
\* may be waiting on by then.
EraseTimer ==
    /\ eventIdTimerMap' = eventIdTimerMap \ {EventId(Head(queue).task)}
    /\ CancelTimer(EventId(Head(queue).task))

MayDispatch == Head(queue).op = "expired" /\ state # "TERMINATED"

\* Faulty: a task that is not handed over is not deleted.
Discarded_Leak == {}
Discarded == {Head(queue).task}

RunDelete ==
    /\ Runs("expired") \/ Runs("aborted")
    /\ ~ MayDispatch
    /\ EraseTimer
    /\ deleted' = deleted \cup Discarded
    /\ UNCHANGED <<added, state, inHand, ioStopped, dispatched, stopped>>

RunExpired ==
    /\ Runs("expired") \/ Runs("aborted")
    /\ MayDispatch
    /\ EraseTimer
    /\ inHand' = Head(queue).task
    /\ UNCHANGED <<added, state, ioStopped, dispatched, deleted, stopped>>

\* g_dispatcher.addTask, after the state was tested.
HandOver ==
    /\ inHand # 0
    /\ dispatched' = Append(dispatched, inHand)
    /\ inHand' = 0
    /\ UNCHANGED <<added, state, queue, eventIdTimerMap, armed, ioStopped, deleted,
                   stopped>>

ThreadMain ==
    RunAdd \/ RunStop \/ RunShutdown \/ RunDelete \/ RunExpired \/ HandOver

GameThread ==
    \/ AddEvent
    \/ \E t \in 1 .. added : StopEvent(EventId(t))
    \/ Shutdown

Next == GameThread \/ ThreadMain \/ \E t \in Event : Expire(t)

\* The thread runs what is posted and time passes.
Fairness == WF_vars(ThreadMain) /\ \A t \in Event : WF_vars(Expire(t))

Spec == Init /\ [][Next]_vars /\ Fairness

-----------------------------------------------------------------------------
(* Properties.                                                             *)

(***************************************************************************)
(* A raw pointer to a task has one owner: the queue, the timer, the        *)
(* dispatcher, or nobody once it is deleted. It is never leaked while the  *)
(* thread runs, never deleted twice, never run after it was deleted. And   *)
(* two that wait never share a timer, which stopEvent finds in the map,    *)
(* even when ids have come round again.                                    *)
(***************************************************************************)
Owners(t) ==
    Cardinality({i \in DOMAIN queue : queue[i].op \in {"add", "expired", "aborted"}
                                      /\ queue[i].task = t})
    + Cardinality({i \in DOMAIN dispatched : dispatched[i] = t})
    + Cardinality({x \in {"armed", "hand", "deleted"} :
                    CASE x = "armed" -> t \in armed
                      [] x = "hand" -> t = inHand
                      [] x = "deleted" -> t \in deleted})
OneOwner ==
    /\ \A t \in 1 .. added : Owners(t) = 1 \/ (ioStopped /\ Owners(t) = 0)
    /\ \A t, u \in armed : EventId(t) = EventId(u) => t = u
    /\ \A t \in armed : EventId(t) \in eventIdTimerMap

(***************************************************************************)
(* An event that nobody stops and whose id is its own reaches the          *)
(* dispatcher unless the scheduler is shut down.                           *)
(***************************************************************************)
EventRuns ==
    \A t \in Event :
        (t <= added) ~>
            \/ InSeq(t, dispatched)
            \/ EventId(t) \in stopped
            \/ state = "TERMINATED"
            \/ \E u \in 1 .. added : u # t /\ EventId(u) = EventId(t)

(***************************************************************************)
(* A stopped event is over at some time, whatever the stop raced with: it  *)
(* has reached the dispatcher or is deleted.  The owner of an event cannot *)
(* tell which.                                                             *)
(***************************************************************************)
StoppedIsOver ==
    \A t \in Event :
        (t <= added /\ EventId(t) \in stopped) ~>
            InSeq(t, dispatched) \/ t \in deleted \/ ioStopped
=============================================================================
