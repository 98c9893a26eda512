----------------------------- MODULE Dispatcher -----------------------------
(***************************************************************************)
(* The dispatcher thread and its task queue (src/src/tasks.cpp).           *)
(*                                                                         *)
(* Every other thread (network, scheduler, database, main) and the running *)
(* task itself hand work to the game thread with addTask.  A critical      *)
(* section of taskLock is one step of the model: the lock is never held    *)
(* while a task runs.  What happens outside the lock is a step of its own: *)
(* the test of the thread's state, the notification that addTask sends     *)
(* after it has unlocked, and the wake-up of the waiting thread.           *)
(***************************************************************************)
EXTENDS Sequences, FiniteSets, Naturals

CONSTANTS
    Task,            \* the ordinary tasks; each is handed over at most once
    TimedTask,       \* those created with an expiration (tasks.h, Task(ms, ..))
    ShutdownTask,    \* the task that Dispatcher::shutdown queues
    Producer,        \* the threads other than the dispatcher that add tasks
    DispatcherThread \* the dispatcher thread

ASSUME TaskAssumption ==
    /\ TimedTask \subseteq Task
    /\ ShutdownTask \notin Task
    /\ DispatcherThread \notin Producer

VARIABLES
    threadState,     \* ThreadHolder::threadState
    taskList,        \* the queue that taskLock protects
    tmpTaskList,     \* what is left of the batch being run
    loop,            \* where threadMain is
    signalling,      \* threads between the unlock and the notify of addTask
    accepted,        \* history: tasks in the order they were queued
    handled          \* history: tasks in the order they were run or expired

vars == <<threadState, taskList, tmpTaskList, loop, signalling, accepted, handled>>

Thread == Producer \cup {DispatcherThread}
AnyTask == Task \cup {ShutdownTask}
InSeq(t, s) == \E i \in DOMAIN s : s[i] = t

TypeOK ==
    /\ threadState \in {"RUNNING", "CLOSING", "TERMINATED"}
    /\ taskList \in Seq(AnyTask)
    /\ tmpTaskList \in Seq(AnyTask)
    /\ loop \in {"test", "lock", "waiting", "woken", "batch", "inTask", "exited"}
    /\ signalling \subseteq Thread
    /\ accepted \in Seq(AnyTask)
    /\ handled \in Seq(AnyTask)
    /\ loop = "inTask" => tmpTaskList # <<>>   \* its head is being run

\* ThreadHolder::start has run.
Init ==
    /\ threadState = "RUNNING"
    /\ taskList = <<>> /\ tmpTaskList = <<>>
    /\ loop = "test"
    /\ signalling = {}
    /\ accepted = <<>> /\ handled = <<>>

-----------------------------------------------------------------------------
(* The callers.  A task may itself call addTask, stop and shutdown.        *)

MayCall(th) ==
    /\ th \notin signalling
    /\ th = DispatcherThread => loop = "inTask"

Enqueue(t) ==
    /\ taskList' = Append(taskList, t)
    /\ accepted' = Append(accepted, t)

\* Faulty: do_signal computed after the push_back.
DoSignal_AfterPush == FALSE
\* A queue that is already in use needs no signal: its first task sent it.
DoSignal == taskList = <<>>

AddTask(th, t) ==
    /\ MayCall(th)
    /\ ~ InSeq(t, accepted)
    /\ threadState = "RUNNING"
    /\ Enqueue(t)
    /\ signalling' = IF DoSignal THEN signalling \cup {th} ELSE signalling
    /\ UNCHANGED <<threadState, tmpTaskList, loop, handled>>

\* Faulty: the notification does not reach the waiting thread.
Woken_Lost == loop
\* Where notify_one leaves the thread: only a waiting thread is woken.
Woken == IF loop = "waiting" THEN "woken" ELSE loop

NotifyOne(th) ==
    /\ th \in signalling
    /\ signalling' = signalling \ {th}
    /\ loop' = Woken
    /\ UNCHANGED <<threadState, taskList, tmpTaskList, accepted, handled>>

\* Game::setGameState(GAME_STATE_SHUTDOWN), a task of the dispatcher.
Stop ==
    /\ MayCall(DispatcherThread)
    /\ threadState = "RUNNING"
    /\ threadState' = "CLOSING"
    /\ UNCHANGED <<taskList, tmpTaskList, loop, signalling, accepted, handled>>

\* Called once: by Game::shutdown or, when no service started, by main.
Shutdown(th) ==
    /\ MayCall(th)
    /\ ~ InSeq(ShutdownTask, accepted)
    /\ Enqueue(ShutdownTask)
    /\ loop' = Woken
    /\ UNCHANGED <<threadState, tmpTaskList, signalling, handled>>

-----------------------------------------------------------------------------
(* The thread.                                                             *)

TestState ==
    /\ loop = "test"
    /\ loop' = IF threadState = "TERMINATED" THEN "exited" ELSE "lock"
    /\ UNCHANGED <<threadState, taskList, tmpTaskList, signalling, accepted, handled>>

Wait ==
    /\ loop = "lock" /\ taskList = <<>>
    /\ loop' = "waiting"
    /\ UNCHANGED <<threadState, taskList, tmpTaskList, signalling, accepted, handled>>

\* std::condition_variable::wait may return without a notification.
SpuriousWakeup ==
    /\ loop = "waiting"
    /\ loop' = "woken"
    /\ UNCHANGED <<threadState, taskList, tmpTaskList, signalling, accepted, handled>>

\* Faulty: the queue is copied instead of swapped with the empty batch.
TakeBatch_Copies ==
    /\ loop \in {"lock", "woken"}
    /\ tmpTaskList' = taskList
    /\ loop' = "batch"
    /\ UNCHANGED <<threadState, taskList, signalling, accepted, handled>>

TakeBatch ==
    /\ \/ loop = "lock" /\ taskList # <<>>
       \/ loop = "woken"
    /\ tmpTaskList' = taskList
    /\ taskList' = <<>>
    /\ loop' = "batch"
    /\ UNCHANGED <<threadState, signalling, accepted, handled>>

DeleteTask ==
    /\ tmpTaskList' = Tail(tmpTaskList)
    /\ handled' = Append(handled, Head(tmpTaskList))

SkipExpired ==
    /\ loop = "batch" /\ tmpTaskList # <<>>
    /\ Head(tmpTaskList) \in TimedTask
    /\ DeleteTask
    /\ UNCHANGED <<threadState, taskList, loop, signalling, accepted>>

BeginTask ==
    /\ loop = "batch" /\ tmpTaskList # <<>>
    /\ loop' = "inTask"
    /\ UNCHANGED <<threadState, taskList, tmpTaskList, signalling, accepted, handled>>

\* Faulty: the shutdown task leaves the thread in the closing state.
StateAfter_Closing(t) == IF t = ShutdownTask THEN "CLOSING" ELSE threadState
\* The body of the shutdown task; ordinary tasks change the state by Stop.
StateAfter(t) == IF t = ShutdownTask THEN "TERMINATED" ELSE threadState

EndTask ==
    /\ loop = "inTask" /\ DispatcherThread \notin signalling
    /\ threadState' = StateAfter(Head(tmpTaskList))
    /\ DeleteTask
    /\ loop' = "batch"
    /\ UNCHANGED <<taskList, signalling, accepted>>

EndBatch ==
    /\ loop = "batch" /\ tmpTaskList = <<>>
    /\ loop' = "test"
    /\ UNCHANGED <<threadState, taskList, tmpTaskList, signalling, accepted, handled>>

ThreadMain ==
    TestState \/ Wait \/ TakeBatch \/ SkipExpired \/ BeginTask \/ EndTask \/ EndBatch

Next ==
    \/ \E th \in Thread, t \in Task : AddTask(th, t)
    \/ \E th \in Thread : NotifyOne(th) \/ Shutdown(th)
    \/ Stop
    \/ SpuriousWakeup
    \/ ThreadMain

\* The threads run; spurious wake-ups and calls are never owed.
Fairness ==
    /\ WF_vars(ThreadMain)
    /\ \A th \in Thread : WF_vars(NotifyOne(th))

Spec == Init /\ [][Next]_vars /\ Fairness
-----------------------------------------------------------------------------
(* Properties.                                                             *)

(***************************************************************************)
(* The dispatcher never sleeps on a queue that holds work unless some      *)
(* thread is still to notify it.  addTask decides to notify under the lock *)
(* but notifies after it, and only the thread that found the queue empty   *)
(* does: the wake-up must not be lost between the two.                     *)
(***************************************************************************)
NoLostWakeup == loop = "waiting" /\ taskList # <<>> => signalling # {}

(***************************************************************************)
(* The order of queueing is the order of execution, across the swap of the *)
(* batch and whatever a running task queues: no task is lost, run twice or *)
(* overtaken, up to and after the shutdown task.                           *)
(***************************************************************************)
Fifo == accepted = (handled \o tmpTaskList) \o taskList

(***************************************************************************)
(* A task queued before the shutdown task is run (or found expired).       *)
(***************************************************************************)
TaskHandled ==
    \A t \in Task :
        (InSeq(t, accepted) /\ ~ InSeq(ShutdownTask, accepted)) ~> InSeq(t, handled)

(***************************************************************************)
(* Dispatcher::shutdown ends the thread, so that main's join returns,      *)
(* whoever calls it and whatever the thread is doing at that time.         *)
(***************************************************************************)
ShutdownEnds == InSeq(ShutdownTask, accepted) ~> (loop = "exited")

(***************************************************************************)
(* The queue, its batch and the wake-ups implement the serial executor.    *)
(***************************************************************************)
Executor == INSTANCE SerialExecutor
                WITH pending <- tmpTaskList \o taskList, done <- handled
ImplementsExecutor == Executor!Spec
=============================================================================
