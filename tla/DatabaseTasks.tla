---------------------------- MODULE DatabaseTasks ----------------------------
(***************************************************************************)
(* The thread that runs queries away from the game thread                  *)
(* (src/src/databasetasks.cpp) and its shutdown, which runs what is left   *)
(* of the queue on the caller's thread while it holds the lock.            *)
(*                                                                         *)
(* addTask and the thread hold taskLock for one step of the model each;    *)
(* shutdown holds it for as many steps as there are queries to flush.      *)
(***************************************************************************)
EXTENDS Sequences, FiniteSets, Naturals

CONSTANTS
    Query,      \* the queries; each is handed over at most once
    Caller,     \* the threads that call addTask
    None        \* no query

ASSUME QueryAssumption == None \notin Query

VARIABLES
    threadState,    \* ThreadHolder::threadState
    tasks,          \* the list that taskLock protects
    locked,         \* TRUE while shutdown holds taskLock
    loop,           \* where threadMain is
    running,        \* the query the thread took from the list
    signalling,     \* callers between the unlock and the notify of addTask
    closing,        \* where shutdown is
    accepted,       \* history: queries in the order they were queued
    executed        \* history: queries in the order the database ran them

vars == <<threadState, tasks, locked, loop, running, signalling, closing,
          accepted, executed>>

InSeq(q, s) == \E i \in DOMAIN s : s[i] = q
IsAhead(q, r, s) == \E i, j \in DOMAIN s : i < j /\ s[i] = q /\ s[j] = r

TypeOK ==
    /\ threadState \in {"RUNNING", "CLOSING", "TERMINATED"}
    /\ tasks \in Seq(Query)
    /\ locked \in BOOLEAN
    /\ loop \in {"test", "lock", "waiting", "woken", "run", "exited"}
    /\ running \in Query \cup {None}
    /\ running # None <=> loop = "run"
    /\ signalling \subseteq Caller
    /\ closing \in {"no", "flush", "notify", "done"}
    /\ locked <=> closing = "flush"
    /\ accepted \in Seq(Query)
    /\ executed \in Seq(Query)

\* DatabaseTasks::start has run.
Init ==
    /\ threadState = "RUNNING"
    /\ tasks = <<>>
    /\ locked = FALSE
    /\ loop = "test"
    /\ running = None
    /\ signalling = {}
    /\ closing = "no"
    /\ accepted = <<>> /\ executed = <<>>

-----------------------------------------------------------------------------
(* The callers of addTask.  Outside RUNNING the query is dropped.          *)

\* Faulty: the emptiness of the list is read after the query went into it.
Signal_AfterPush == FALSE
Signal == tasks = <<>>

\* Faulty: emplace_front.
Queued_AtFront(q) == <<q>> \o tasks
Queued(q) == Append(tasks, q)

AddTask(c, q) ==
    /\ ~ locked /\ c \notin signalling
    /\ ~ InSeq(q, accepted)
    /\ threadState = "RUNNING"
    /\ tasks' = Queued(q)
    /\ accepted' = Append(accepted, q)
    /\ signalling' = IF Signal THEN signalling \cup {c} ELSE signalling
    /\ UNCHANGED <<threadState, locked, loop, running, closing, executed>>

\* Faulty: the notification does not reach the waiting thread.
Woken_Lost == loop
Woken == IF loop = "waiting" THEN "woken" ELSE loop

NotifyOne(c) ==
    /\ c \in signalling
    /\ signalling' = signalling \ {c}
    /\ loop' = Woken
    /\ UNCHANGED <<threadState, tasks, locked, running, closing, accepted, executed>>

\* Game::setGameState(GAME_STATE_SHUTDOWN).
Stop ==
    /\ threadState = "RUNNING"
    /\ threadState' = "CLOSING"
    /\ UNCHANGED <<tasks, locked, loop, running, signalling, closing, accepted, executed>>

-----------------------------------------------------------------------------
(* shutdown: Game::shutdown, or main when no service started.              *)

BeginShutdown ==
    /\ closing = "no" /\ ~ locked
    /\ locked' = TRUE
    /\ closing' = "flush"
    /\ threadState' = "TERMINATED"
    /\ UNCHANGED <<tasks, loop, running, signalling, accepted, executed>>

FlushOne ==
    /\ closing = "flush" /\ tasks # <<>>
    /\ executed' = Append(executed, Head(tasks))
    /\ tasks' = Tail(tasks)
    /\ UNCHANGED <<threadState, locked, loop, running, signalling, closing, accepted>>

FlushDone == tasks = <<>>

EndFlush ==
    /\ closing = "flush" /\ FlushDone
    /\ locked' = FALSE
    /\ closing' = "notify"
    /\ UNCHANGED <<threadState, tasks, loop, running, signalling, accepted, executed>>

NotifyShutdown ==
    /\ closing = "notify"
    /\ closing' = "done"
    /\ loop' = Woken
    /\ UNCHANGED <<threadState, tasks, locked, running, signalling, accepted, executed>>

-----------------------------------------------------------------------------
(* The thread.  Its state is tested without the lock.                      *)

TestState ==
    /\ loop = "test"
    /\ loop' = IF threadState = "TERMINATED" THEN "exited" ELSE "lock"
    /\ UNCHANGED <<threadState, tasks, locked, running, signalling, closing, accepted, executed>>

Wait ==
    /\ loop = "lock" /\ ~ locked /\ tasks = <<>>
    /\ loop' = "waiting"
    /\ UNCHANGED <<threadState, tasks, locked, running, signalling, closing, accepted, executed>>

SpuriousWakeup ==
    /\ loop = "waiting"
    /\ loop' = "woken"
    /\ UNCHANGED <<threadState, tasks, locked, running, signalling, closing, accepted, executed>>

\* Faulty: the query is copied from the front of the list and stays there.
Taken_Copied == tasks
Taken == Tail(tasks)

TakeQuery ==
    /\ loop \in {"lock", "woken"} /\ ~ locked /\ tasks # <<>>
    /\ running' = Head(tasks)
    /\ tasks' = Taken
    /\ loop' = "run"
    /\ UNCHANGED <<threadState, locked, signalling, closing, accepted, executed>>

NothingToTake ==
    /\ loop = "woken" /\ ~ locked /\ tasks = <<>>
    /\ loop' = "test"
    /\ UNCHANGED <<threadState, tasks, locked, running, signalling, closing, accepted, executed>>

\* runTask, without the lock.  The callback is handed to the dispatcher in
\* the order of execution.
RunQuery ==
    /\ loop = "run"
    /\ executed' = Append(executed, running)
    /\ running' = None
    /\ loop' = "test"
    /\ UNCHANGED <<threadState, tasks, locked, signalling, closing, accepted>>

ThreadMain == TestState \/ Wait \/ TakeQuery \/ NothingToTake \/ RunQuery
ShutdownStep == FlushOne \/ EndFlush \/ NotifyShutdown

Next ==
    \/ \E c \in Caller, q \in Query : AddTask(c, q)
    \/ \E c \in Caller : NotifyOne(c)
    \/ Stop
    \/ BeginShutdown
    \/ ShutdownStep
    \/ SpuriousWakeup
    \/ ThreadMain

\* Threads run and a shutdown that has begun goes on; the scheduler of the
\* machine starves nobody.  Spurious wake-ups are not owed.
Fairness ==
    /\ WF_vars(ThreadMain)
    /\ WF_vars(ShutdownStep)
    /\ \A c \in Caller : WF_vars(NotifyOne(c))

Spec == Init /\ [][Next]_vars /\ Fairness

-----------------------------------------------------------------------------
(* Properties.                                                             *)

(***************************************************************************)
(* The thread never sleeps on a list that holds queries unless a caller is *)
(* still to notify it or shutdown is about to run them itself.             *)
(***************************************************************************)
NoLostWakeup ==
    loop = "waiting" /\ tasks # <<>> => signalling # {} \/ closing = "flush"

(***************************************************************************)
(* The thread and the flush of shutdown run at the same time and may       *)
(* change the order of queries, but only for the one query the thread had  *)
(* taken: at most one query is overtaken, and before shutdown none is.     *)
(***************************************************************************)
Overtaken == {q \in Query : \E r \in Query : IsAhead(q, r, accepted) /\ IsAhead(r, q, executed)}
OneOvertaken ==
    /\ Cardinality(Overtaken) <= 1
    /\ closing = "no" => Overtaken = {}

(***************************************************************************)
(* No query is run twice, neither by the thread nor by the thread and the  *)
(* flush together, and none that is being run is still in the list.        *)
(***************************************************************************)
RunOnce ==
    /\ \A i, j \in DOMAIN executed : executed[i] = executed[j] => i = j
    /\ \A i \in DOMAIN executed : ~ InSeq(executed[i], tasks) /\ executed[i] # running
    /\ ~ InSeq(running, tasks)

(***************************************************************************)
(* Every accepted query is run, whether or not the server shuts down.      *)
(***************************************************************************)
QueryRun == \A q \in Query : InSeq(q, accepted) ~> InSeq(q, executed)

(***************************************************************************)
(* The thread ends after any shutdown, so that main's join returns and the *)
(* signal that "Shuts the server down" does so.                            *)
(***************************************************************************)
ShutdownEnds == closing = "done" ~> loop = "exited"
=============================================================================
