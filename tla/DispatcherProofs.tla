-------------------------- MODULE DispatcherProofs --------------------------
(***************************************************************************)
(* For every set of tasks and of threads: the queue of the dispatcher      *)
(* loses no wake-up, keeps the order of its tasks and implements the       *)
(* serial executor.  Liveness (TaskHandled, ShutdownEnds) is left to TLC.  *)
(***************************************************************************)
EXTENDS Dispatcher, SequenceTheorems, TLAPS

(***************************************************************************)
(* Moving the head of the second of two sequences to the end of the first  *)
(* does not change their concatenation.                                    *)
(***************************************************************************)
LEMMA MoveHead ==
    ASSUME NEW S, NEW h \in Seq(S), NEW s \in Seq(S), s # <<>>
    PROVE  Append(h, Head(s)) \o Tail(s) = h \o s
  OBVIOUS

(***************************************************************************)
(* Every variable keeps its type.                                          *)
(***************************************************************************)
THEOREM TypeCorrect == Spec => []TypeOK
  <1> USE DEF TypeOK
  <1>1. Init => TypeOK
    BY DEF Init
  <1>2. TypeOK /\ [Next]_vars => TypeOK'
    <2> SUFFICES ASSUME TypeOK, [Next]_vars
                 PROVE  TypeOK'
      OBVIOUS
    <2>1. ASSUME NEW th \in Thread, NEW t \in Task, AddTask(th, t)
          PROVE  TypeOK'
      BY <2>1 DEF AddTask, Enqueue, DoSignal, AnyTask
    <2>2. ASSUME NEW th \in Thread, NotifyOne(th)
          PROVE  TypeOK'
      BY <2>2 DEF NotifyOne, Woken
    <2>3. ASSUME NEW th \in Thread, Shutdown(th)
          PROVE  TypeOK'
      BY <2>3 DEF Shutdown, Enqueue, Woken, AnyTask
    <2>4. CASE Stop
      BY <2>4 DEF Stop
    <2>5. CASE SpuriousWakeup
      BY <2>5 DEF SpuriousWakeup
    <2>6. CASE TestState \/ Wait \/ BeginTask \/ EndBatch
      BY <2>6 DEF TestState, Wait, BeginTask, EndBatch
    <2>7. CASE TakeBatch
      BY <2>7 DEF TakeBatch
    <2>8. CASE SkipExpired
      BY <2>8 DEF SkipExpired, DeleteTask
    <2>9. CASE EndTask
      BY <2>9 DEF EndTask, DeleteTask, StateAfter
    <2>10. CASE UNCHANGED vars
      BY <2>10 DEF vars
    <2> QED
      BY <2>1, <2>2, <2>3, <2>4, <2>5, <2>6, <2>7, <2>8, <2>9, <2>10
         DEF Next, ThreadMain
  <1> QED
    BY <1>1, <1>2, PTL DEF Spec

(***************************************************************************)
(* No wake-up is lost.  The invariant is inductive by itself: a thread     *)
(* that leaves "signalling" wakes the dispatcher, and a queue becomes      *)
(* non-empty only together with a new signaller or a wake-up.              *)
(***************************************************************************)
THEOREM WakeupCorrect == Spec => []NoLostWakeup
  <1> USE DEF NoLostWakeup
  <1>1. Init => NoLostWakeup
    BY DEF Init
  <1>2. NoLostWakeup /\ [Next]_vars => NoLostWakeup'
    <2> SUFFICES ASSUME NoLostWakeup, [Next]_vars
                 PROVE  NoLostWakeup'
      OBVIOUS
    <2>1. ASSUME NEW th \in Thread, NEW t \in Task, AddTask(th, t)
          PROVE  NoLostWakeup'
      BY <2>1 DEF AddTask, DoSignal
    <2>2. ASSUME NEW th \in Thread, NotifyOne(th)
          PROVE  NoLostWakeup'
      BY <2>2 DEF NotifyOne, Woken
    <2>3. ASSUME NEW th \in Thread, Shutdown(th)
          PROVE  NoLostWakeup'
      BY <2>3 DEF Shutdown, Woken
    <2>4. CASE Stop \/ SpuriousWakeup
      BY <2>4 DEF Stop, SpuriousWakeup
    <2>5. CASE ThreadMain
      BY <2>5 DEF ThreadMain, TestState, Wait, TakeBatch, SkipExpired,
                  BeginTask, EndTask, EndBatch, DeleteTask
    <2>6. CASE UNCHANGED vars
      BY <2>6 DEF vars
    <2> QED
      BY <2>1, <2>2, <2>3, <2>4, <2>5, <2>6 DEF Next
  <1> QED
    BY <1>1, <1>2, PTL DEF Spec

-----------------------------------------------------------------------------
(***************************************************************************)
(* A batch is taken only when the one before it has been used up.  Without *)
(* this the swap would throw tasks away.                                   *)
(***************************************************************************)
BatchUsedUp == loop \in {"test", "lock", "waiting", "woken"} => tmpTaskList = <<>>

FifoInv == BatchUsedUp /\ Fifo

(***************************************************************************)
(* Appending to the last of three sequences appends to the whole.          *)
(***************************************************************************)
LEMMA AppendThree ==
    ASSUME NEW S, NEW h \in Seq(S), NEW b \in Seq(S), NEW l \in Seq(S), NEW t \in S
    PROVE  (h \o b) \o Append(l, t) = Append((h \o b) \o l, t)
  OBVIOUS

LEMMA FifoStep == ASSUME TypeOK, FifoInv, [Next]_vars
                  PROVE  FifoInv'
  <1> USE DEF FifoInv, Fifo, BatchUsedUp
  <1> USE DEF TypeOK
  <1>1. ASSUME NEW t \in AnyTask, Enqueue(t), UNCHANGED <<tmpTaskList, handled>>
        PROVE  Fifo'
    <2>1. (handled \o tmpTaskList) \o Append(taskList, t)
            = Append((handled \o tmpTaskList) \o taskList, t)
      BY AppendThree
    <2> QED
      BY <1>1, <2>1 DEF Enqueue
  <1>2. ASSUME DeleteTask, tmpTaskList # <<>>, UNCHANGED <<taskList, accepted>>
        PROVE  Fifo'
    BY <1>2, MoveHead DEF DeleteTask
  <1>3. ASSUME NEW th \in Thread, NEW t \in Task, AddTask(th, t)
        PROVE  FifoInv'
    BY <1>1, <1>3 DEF AddTask, AnyTask
  <1>4. ASSUME NEW th \in Thread, NotifyOne(th)
        PROVE  FifoInv'
    BY <1>4 DEF NotifyOne, Woken
  <1>5. ASSUME NEW th \in Thread, Shutdown(th)
        PROVE  FifoInv'
    BY <1>1, <1>5 DEF Shutdown, Woken, AnyTask
  <1>6. CASE Stop \/ SpuriousWakeup
    BY <1>6 DEF Stop, SpuriousWakeup
  <1>7. CASE TestState \/ Wait \/ BeginTask \/ EndBatch
    BY <1>7 DEF TestState, Wait, BeginTask, EndBatch
  <1>8. CASE TakeBatch
    BY <1>8, ConcatEmptySeq DEF TakeBatch
  <1>9. CASE SkipExpired \/ EndTask
    BY <1>2, <1>9 DEF SkipExpired, EndTask
  <1>10. CASE UNCHANGED vars
    BY <1>10 DEF vars
  <1> QED
    BY <1>3, <1>4, <1>5, <1>6, <1>7, <1>8, <1>9, <1>10 DEF Next, ThreadMain

(***************************************************************************)
(* The tasks are run in the order in which they were queued, each once.    *)
(***************************************************************************)
THEOREM FifoCorrect == Spec => []Fifo
  <1>1. Init => FifoInv
    BY DEF Init, FifoInv, Fifo, BatchUsedUp
  <1>2. TypeOK /\ FifoInv /\ [Next]_vars => FifoInv'
    BY FifoStep
  <1>3. FifoInv => Fifo
    BY DEF FifoInv
  <1> QED
    BY <1>1, <1>2, <1>3, TypeCorrect, PTL DEF Spec

(***************************************************************************)
(* The dispatcher implements the serial executor: queueing is Submit, the  *)
(* end of a task (or its expiry) is Perform, everything else stutters.     *)
(***************************************************************************)
THEOREM Refinement == Spec => ImplementsExecutor
  <1> DEFINE mapped == <<tmpTaskList \o taskList, handled>>
  <1>1. Init => Executor!Init
    BY ConcatEmptySeq DEF Init, Executor!Init
  <1>2. TypeOK /\ BatchUsedUp /\ [Next]_vars => [Executor!Next]_mapped
    <2> SUFFICES ASSUME TypeOK, BatchUsedUp, [Next]_vars
                 PROVE  [Executor!Next]_mapped
      OBVIOUS
    <2> USE DEF TypeOK
    <2>1. ASSUME NEW t \in AnyTask, Enqueue(t), UNCHANGED <<tmpTaskList, handled>>
          PROVE  Executor!Next
      BY <2>1 DEF Enqueue, Executor!Next, Executor!Submit
    <2>2. ASSUME DeleteTask, tmpTaskList # <<>>, UNCHANGED taskList
          PROVE  Executor!Next
      <3>1. /\ Head(tmpTaskList \o taskList) = Head(tmpTaskList)
            /\ Tail(tmpTaskList \o taskList) = Tail(tmpTaskList) \o taskList
            /\ tmpTaskList \o taskList # <<>>
        BY <2>2
      <3> QED
        BY <2>2, <3>1 DEF DeleteTask, Executor!Next, Executor!Perform
    <2>3. ASSUME NEW th \in Thread, NEW t \in Task, AddTask(th, t)
          PROVE  Executor!Next
      BY <2>1, <2>3 DEF AddTask, AnyTask
    <2>4. ASSUME NEW th \in Thread, NotifyOne(th)
          PROVE  UNCHANGED mapped
      BY <2>4 DEF NotifyOne
    <2>5. ASSUME NEW th \in Thread, Shutdown(th)
          PROVE  Executor!Next
      BY <2>1, <2>5 DEF Shutdown, AnyTask
    <2>6. CASE Stop \/ SpuriousWakeup \/ TestState \/ Wait \/ BeginTask \/ EndBatch
      BY <2>6 DEF Stop, SpuriousWakeup, TestState, Wait, BeginTask, EndBatch
    <2>7. CASE TakeBatch
      BY <2>7, ConcatEmptySeq DEF TakeBatch, BatchUsedUp
    <2>8. CASE SkipExpired \/ EndTask
      BY <2>2, <2>8 DEF SkipExpired, EndTask
    <2>9. CASE UNCHANGED vars
      BY <2>9 DEF vars
    <2> QED
      BY <2>3, <2>4, <2>5, <2>6, <2>7, <2>8, <2>9 DEF Next, ThreadMain
  <1>3. Init => FifoInv
    BY DEF Init, FifoInv, Fifo, BatchUsedUp
  <1>4. TypeOK /\ FifoInv /\ [Next]_vars => FifoInv'
    BY FifoStep
  <1>5. FifoInv => BatchUsedUp
    BY DEF FifoInv
  <1> QED
    BY <1>1, <1>2, <1>3, <1>4, <1>5, TypeCorrect, PTL
       DEF Spec, ImplementsExecutor, Executor!Spec
=============================================================================
