------------------------- MODULE DatabaseTasksProofs -------------------------
(***************************************************************************)
(* For every set of queries and of callers: the database thread loses no   *)
(* wake-up, and each query that was accepted is in exactly one place, the  *)
(* list, the hands of the thread or the history of those run, and at most  *)
(* one is overtaken.  Liveness is left to TLC.                             *)
(***************************************************************************)
EXTENDS DatabaseTasks, FiniteSetTheorems, TLAPS

(***************************************************************************)
(* Every variable keeps its type, the lock is held exactly by the flush,   *)
(* and the thread has a query exactly while it runs one.                   *)
(***************************************************************************)
THEOREM TypeCorrect == Spec => []TypeOK
  <1> USE DEF TypeOK
  <1>1. Init => TypeOK
    <2>1. Init => locked \in BOOLEAN /\ (locked <=> closing = "flush")
      BY Zenon DEF Init
    <2> QED
      BY <2>1 DEF Init
  <1>2. TypeOK /\ [Next]_vars => TypeOK'
    <2> SUFFICES ASSUME TypeOK, [Next]_vars
                 PROVE  TypeOK'
      OBVIOUS
    <2>1. ASSUME NEW c \in Caller, NEW q \in Query, AddTask(c, q)
          PROVE  TypeOK'
      BY <2>1 DEF AddTask, Queued
    <2>2. ASSUME NEW c \in Caller, NotifyOne(c)
          PROVE  TypeOK'
      BY <2>2, QueryAssumption DEF NotifyOne, Woken
    <2>3. CASE Stop
      BY <2>3 DEF Stop
    <2>4. CASE BeginShutdown
      <3>1. locked' \in BOOLEAN /\ (locked' <=> closing' = "flush")
        BY <2>4, Zenon DEF BeginShutdown
      <3> QED
        BY <2>4, <3>1 DEF BeginShutdown
    <2>5. CASE FlushOne
      BY <2>5 DEF FlushOne
    <2>6. CASE EndFlush
      <3>1. locked' \in BOOLEAN /\ (locked' <=> closing' = "flush")
        BY <2>6, Zenon DEF EndFlush
      <3> QED
        BY <2>6, <3>1 DEF EndFlush
    <2>7. CASE NotifyShutdown
      BY <2>7 DEF NotifyShutdown, Woken
    <2>8. CASE SpuriousWakeup
      BY <2>8 DEF SpuriousWakeup
    <2>9. CASE TestState \/ Wait \/ NothingToTake
      BY <2>9 DEF TestState, Wait, NothingToTake
    <2>10. CASE TakeQuery
      BY <2>10, QueryAssumption DEF TakeQuery, Taken
    <2>11. CASE RunQuery
      BY <2>11 DEF RunQuery
    <2>12. CASE UNCHANGED vars
      BY <2>12 DEF vars
    <2> QED
      BY <2>1, <2>2, <2>3, <2>4, <2>5, <2>6, <2>7, <2>8, <2>9, <2>10, <2>11, <2>12
         DEF Next, ShutdownStep, ThreadMain
  <1> QED
    BY <1>1, <1>2, PTL DEF Spec

(***************************************************************************)
(* No wake-up is lost.  Inductive by itself: the list becomes non-empty    *)
(* together with a caller that owes a notification, and who pays the debt  *)
(* wakes the thread.                                                       *)
(***************************************************************************)
THEOREM WakeupCorrect == Spec => []NoLostWakeup
  <1> USE DEF NoLostWakeup
  <1>1. Init => NoLostWakeup
    BY DEF Init
  <1>2. NoLostWakeup /\ [Next]_vars => NoLostWakeup'
    <2> SUFFICES ASSUME NoLostWakeup, [Next]_vars
                 PROVE  NoLostWakeup'
      OBVIOUS
    <2>1. ASSUME NEW c \in Caller, NEW q \in Query, AddTask(c, q)
          PROVE  NoLostWakeup'
      BY <2>1 DEF AddTask, Signal
    <2>2. ASSUME NEW c \in Caller, NotifyOne(c)
          PROVE  NoLostWakeup'
      BY <2>2 DEF NotifyOne, Woken
    <2>3. CASE Stop \/ BeginShutdown \/ SpuriousWakeup
      BY <2>3 DEF Stop, BeginShutdown, SpuriousWakeup
    <2>4. CASE ShutdownStep
      BY <2>4 DEF ShutdownStep, FlushOne, EndFlush, FlushDone, NotifyShutdown, Woken
    <2>5. CASE ThreadMain
      BY <2>5 DEF ThreadMain, TestState, Wait, TakeQuery, NothingToTake, RunQuery
    <2>6. CASE UNCHANGED vars
      BY <2>6 DEF vars
    <2> QED
      BY <2>1, <2>2, <2>3, <2>4, <2>5, <2>6 DEF Next
  <1> QED
    BY <1>1, <1>2, PTL DEF Spec

-----------------------------------------------------------------------------
(* Sequences without repetition.                                           *)

Injective(s) == \A i, j \in DOMAIN s : s[i] = s[j] => i = j

(***************************************************************************)
(* What is in a sequence after an append, and before its head is taken.    *)
(***************************************************************************)
LEMMA InAppend ==
    ASSUME NEW S, NEW s \in Seq(S), NEW x \in S, NEW y
    PROVE  InSeq(y, Append(s, x)) <=> InSeq(y, s) \/ y = x
  <1>1. Len(Append(s, x)) = Len(s) + 1 /\ Len(s) \in Nat
    OBVIOUS
  <1>2. /\ Append(s, x)[Len(s) + 1] = x
        /\ \A i \in 1 .. Len(s) : Append(s, x)[i] = s[i]
    OBVIOUS
  <1>3. DOMAIN Append(s, x) = 1 .. Len(s) + 1 /\ DOMAIN s = 1 .. Len(s)
    OBVIOUS
  <1> QED
    BY <1>1, <1>2, <1>3 DEF InSeq

LEMMA InHeadTail ==
    ASSUME NEW S, NEW s \in Seq(S), s # <<>>, NEW y
    PROVE  InSeq(y, s) <=> y = Head(s) \/ InSeq(y, Tail(s))
  <1>1. \A i \in 1 .. Len(s) - 1 : Tail(s)[i] = s[i + 1]
    OBVIOUS
  <1>2. Head(s) = s[1] /\ Len(Tail(s)) = Len(s) - 1 /\ Len(s) \in Nat \ {0}
    OBVIOUS
  <1>3. ASSUME InSeq(y, s), y # Head(s)
        PROVE  InSeq(y, Tail(s))
    <2>1. PICK i \in 1 .. Len(s) : s[i] = y
      BY <1>3 DEF InSeq
    <2>2. i # 1
      BY <1>2, <1>3, <2>1
    <2>3. i - 1 \in 1 .. Len(s) - 1 /\ Tail(s)[i - 1] = y
      BY <1>1, <1>2, <2>1, <2>2
    <2>4. DOMAIN Tail(s) = 1 .. Len(s) - 1
      BY <1>2
    <2> QED
      BY <2>3, <2>4 DEF InSeq
  <1>4. ASSUME InSeq(y, Tail(s))
        PROVE  InSeq(y, s)
    <2>1. PICK i \in 1 .. Len(s) - 1 : Tail(s)[i] = y
      BY <1>2, <1>4 DEF InSeq
    <2> QED
      BY <1>1, <2>1 DEF InSeq
  <1>5. InSeq(Head(s), s)
    BY <1>2 DEF InSeq
  <1> QED
    BY <1>3, <1>4, <1>5

(***************************************************************************)
(* Appending something new, and dropping the head, keep it injective.      *)
(***************************************************************************)
LEMMA InjectiveAppend ==
    ASSUME NEW S, NEW s \in Seq(S), NEW x \in S, Injective(s), ~ InSeq(x, s)
    PROVE  Injective(Append(s, x))
  BY DEF Injective, InSeq

LEMMA InjectiveTail ==
    ASSUME NEW S, NEW s \in Seq(S), s # <<>>, Injective(s)
    PROVE  Injective(Tail(s)) /\ ~ InSeq(Head(s), Tail(s))
  <1>1. \A i \in 1 .. Len(s) - 1 : Tail(s)[i] = s[i + 1]
    OBVIOUS
  <1>2. Head(s) = s[1] /\ DOMAIN Tail(s) = 1 .. Len(s) - 1 /\ Len(s) \in Nat \ {0}
    OBVIOUS
  <1> QED
    BY <1>1, <1>2 DEF Injective, InSeq

-----------------------------------------------------------------------------
(***************************************************************************)
(* Where the queries are.  RunOnce alone is not inductive: that a query is *)
(* not queued again rests on the list and the history being part of what   *)
(* was accepted.                                                           *)
(***************************************************************************)
Accounted ==
    \A q \in Query : InSeq(q, accepted) <=> InSeq(q, tasks) \/ InSeq(q, executed) \/ q = running
Apart ==
    /\ Injective(tasks) /\ Injective(executed)
    /\ \A q \in Query : ~ (InSeq(q, tasks) /\ InSeq(q, executed))
    /\ running # None => ~ InSeq(running, tasks) /\ ~ InSeq(running, executed)

QueryInv == Accounted /\ Apart

LEMMA QueryStep == ASSUME TypeOK, QueryInv, [Next]_vars
                   PROVE  QueryInv'
  <1> USE DEF TypeOK, QueryInv, Accounted, Apart
  <1>1. ASSUME NEW c \in Caller, NEW q \in Query, AddTask(c, q)
        PROVE  QueryInv'
    <2>1. \A r \in Query : /\ InSeq(r, tasks') <=> InSeq(r, tasks) \/ r = q
                           /\ InSeq(r, accepted') <=> InSeq(r, accepted) \/ r = q
      BY <1>1, InAppend DEF AddTask, Queued
    <2>2. Injective(tasks')
      BY <1>1, InjectiveAppend DEF AddTask, Queued
    <2> QED
      BY <1>1, <2>1, <2>2 DEF AddTask
  <1>2. ASSUME tasks # <<>>, NEW h, h = Head(tasks), tasks' = Tail(tasks)
        PROVE  /\ h \in Query
               /\ \A r \in Query : InSeq(r, tasks) <=> InSeq(r, tasks') \/ r = h
               /\ Injective(tasks') /\ ~ InSeq(h, tasks')
    BY <1>2, InHeadTail, InjectiveTail
  <1>3. ASSUME NEW h \in Query, executed' = Append(executed, h), ~ InSeq(h, executed)
        PROVE  /\ \A r \in Query : InSeq(r, executed') <=> InSeq(r, executed) \/ r = h
               /\ Injective(executed')
    BY <1>3, InAppend, InjectiveAppend
  <1>4. CASE FlushOne
    <2>1. PICK h : h = Head(tasks)
      OBVIOUS
    <2>2. h \in Query /\ InSeq(h, tasks) /\ ~ InSeq(h, executed)
      BY <1>2, <1>4, <2>1 DEF FlushOne
    <2> QED
      BY <1>2, <1>3, <1>4, <2>1, <2>2 DEF FlushOne
  <1>5. CASE TakeQuery
    BY <1>2, <1>5, QueryAssumption DEF TakeQuery, Taken
  <1>6. CASE RunQuery
    BY <1>3, <1>6, QueryAssumption DEF RunQuery
  <1>7. ASSUME UNCHANGED <<tasks, running, accepted, executed>>
        PROVE  QueryInv'
    BY <1>7
  <1>8. ASSUME NEW c \in Caller, NotifyOne(c)
        PROVE  QueryInv'
    BY <1>7, <1>8 DEF NotifyOne
  <1>9. CASE Stop \/ BeginShutdown \/ SpuriousWakeup
    BY <1>7, <1>9 DEF Stop, BeginShutdown, SpuriousWakeup
  <1>10. CASE EndFlush \/ NotifyShutdown \/ TestState \/ Wait \/ NothingToTake
    BY <1>7, <1>10 DEF EndFlush, NotifyShutdown, TestState, Wait, NothingToTake
  <1>11. CASE UNCHANGED vars
    BY <1>7, <1>11 DEF vars
  <1> QED
    BY <1>1, <1>4, <1>5, <1>6, <1>8, <1>9, <1>10, <1>11
       DEF Next, ShutdownStep, ThreadMain

LEMMA QueryInit == Init => QueryInv
  BY QueryAssumption DEF Init, QueryInv, Accounted, Apart, Injective, InSeq

LEMMA QueryAlways == Spec => []QueryInv
  <1>1. TypeOK /\ QueryInv /\ [Next]_vars => QueryInv'
    BY QueryStep
  <1> QED
    BY <1>1, QueryInit, TypeCorrect, PTL DEF Spec

(***************************************************************************)
(* No query is lost, by the thread or by the flush: what was accepted and  *)
(* has not been run is in the list or being run.                           *)
(***************************************************************************)
THEOREM NothingLost == Spec => []Accounted
  <1>1. QueryInv => Accounted
    BY DEF QueryInv
  <1> QED
    BY <1>1, QueryAlways, PTL

(***************************************************************************)
(* No query is run twice.                                                  *)
(***************************************************************************)
THEOREM RunOnceCorrect == Spec => []RunOnce
  <1>1. TypeOK /\ QueryInv => RunOnce
    <2> SUFFICES ASSUME TypeOK, QueryInv
                 PROVE  RunOnce
      OBVIOUS
    <2>1. \A i \in DOMAIN executed : executed[i] \in Query /\ InSeq(executed[i], executed)
      BY DEF TypeOK, InSeq
    <2>2. ~ InSeq(None, tasks) /\ ~ InSeq(None, executed)
      BY QueryAssumption DEF TypeOK, InSeq
    <2> QED
      BY <2>1, <2>2 DEF QueryInv, Apart, RunOnce, Injective
  <1> QED
    BY <1>1, QueryAlways, TypeCorrect, PTL

-----------------------------------------------------------------------------
(***************************************************************************)
(* The order.  The list is in the order of acceptance and behind all that  *)
(* was run.  So is what the thread runs, until shutdown takes the list     *)
(* over: from then on the query the thread has, straggler, may come late.  *)
(* Nothing is queued any more then, so the thread takes no second one.     *)
(***************************************************************************)
Ordered(s) == \A q, r \in Query : IsAhead(q, r, s) => IsAhead(q, r, accepted)
AllAhead(s, t) == \A q, r \in Query : InSeq(q, s) /\ InSeq(r, t) => IsAhead(q, r, accepted)

InOrder(straggler) ==
    /\ Ordered(tasks) /\ AllAhead(executed, tasks)
    /\ \A q, r \in Query : IsAhead(q, r, executed) => IsAhead(q, r, accepted) \/ r = straggler
    /\ running # None =>
          /\ \A r \in Query : InSeq(r, tasks) => IsAhead(running, r, accepted)
          /\ running = straggler \/ \A q \in Query : InSeq(q, executed) => IsAhead(q, running, accepted)
    /\ closing = "no" => straggler = None
    /\ closing # "no" /\ running # None => running = straggler

Closed ==
    /\ closing # "no" => threadState = "TERMINATED"
    /\ closing \in {"notify", "done"} => tasks = <<>>

OrderInv == Injective(accepted) /\ Closed /\ \E straggler \in Query \cup {None} : InOrder(straggler)

LEMMA AheadAppend ==
    ASSUME NEW s \in Seq(Query), NEW x \in Query, NEW q, NEW r
    PROVE  IsAhead(q, r, Append(s, x)) <=> IsAhead(q, r, s) \/ (r = x /\ InSeq(q, s))
  <1>1. Len(Append(s, x)) = Len(s) + 1 /\ Len(s) \in Nat
    OBVIOUS
  <1>2. /\ Append(s, x)[Len(s) + 1] = x
        /\ \A i \in 1 .. Len(s) : Append(s, x)[i] = s[i]
    OBVIOUS
  <1>3. DOMAIN Append(s, x) = 1 .. Len(s) + 1 /\ DOMAIN s = 1 .. Len(s)
    OBVIOUS
  <1> QED
    BY <1>1, <1>2, <1>3 DEF InSeq, IsAhead

LEMMA AheadTail ==
    ASSUME NEW s \in Seq(Query), s # <<>>, NEW q, NEW r
    PROVE  /\ IsAhead(q, r, Tail(s)) => IsAhead(q, r, s)
           /\ InSeq(r, Tail(s)) => IsAhead(Head(s), r, s)
  <1>1. \A i \in 1 .. Len(s) - 1 : Tail(s)[i] = s[i + 1]
    OBVIOUS
  <1>2. Head(s) = s[1] /\ DOMAIN Tail(s) = 1 .. Len(s) - 1 /\ Len(s) \in Nat \ {0}
    OBVIOUS
  <1>3. DOMAIN s = 1 .. Len(s)
    OBVIOUS
  <1> QED
    BY <1>1, <1>2, <1>3 DEF InSeq, IsAhead

\* In a list without repetitions nothing is both ahead of a query and behind it.
LEMMA AheadOneWay ==
    ASSUME NEW s \in Seq(Query), Injective(s), NEW q, NEW r, IsAhead(q, r, s)
    PROVE  ~ IsAhead(r, q, s)
  BY DEF IsAhead, Injective

LEMMA OrderStep == ASSUME TypeOK, QueryInv, OrderInv, [Next]_vars
                   PROVE  OrderInv'
  <1> USE DEF TypeOK
  <1>1. PICK straggler \in Query \cup {None} : InOrder(straggler)
    BY DEF OrderInv
  <1>2. Injective(accepted) /\ Closed
    BY DEF OrderInv
  <1>3. ASSUME UNCHANGED <<tasks, running, accepted, executed, closing>>,
               threadState' = threadState \/ closing = "no"
        PROVE  OrderInv'
    BY <1>1, <1>2, <1>3 DEF OrderInv, Closed, InOrder, Ordered, AllAhead
  <1>4. ASSUME NEW c \in Caller, NEW q \in Query, AddTask(c, q)
        PROVE  OrderInv'
    <2>1. /\ ~ InSeq(q, accepted) /\ accepted' = Append(accepted, q) /\ tasks' = Append(tasks, q)
          /\ UNCHANGED <<running, executed, closing, threadState>> /\ threadState = "RUNNING"
      BY <1>4 DEF AddTask, Queued
    <2>2. closing = "no" /\ straggler = None
      BY <1>1, <1>2, <2>1 DEF Closed, InOrder
    <2>3. Injective(accepted')
      BY <1>2, <2>1, InjectiveAppend
    <2>4. \A p, r \in Query : IsAhead(p, r, accepted') <=> IsAhead(p, r, accepted) \/ (r = q /\ InSeq(p, accepted))
      BY <2>1, AheadAppend
    <2>5. \A p, r \in Query : IsAhead(p, r, tasks') <=> IsAhead(p, r, tasks) \/ (r = q /\ InSeq(p, tasks))
      BY <2>1, AheadAppend
    <2>6. \A r \in Query : InSeq(r, tasks') <=> InSeq(r, tasks) \/ r = q
      BY <2>1, InAppend
    <2>7. \A r \in Query : InSeq(r, tasks) \/ InSeq(r, executed) \/ r = running => InSeq(r, accepted)
      BY DEF QueryInv, Accounted
    <2>8. Ordered(tasks)' /\ AllAhead(executed, tasks)'
      BY <1>1, <2>1, <2>4, <2>5, <2>6, <2>7 DEF InOrder, Ordered, AllAhead
    <2>9. InOrder(straggler)'
      BY <1>1, <2>1, <2>2, <2>4, <2>6, <2>7, <2>8 DEF InOrder
    <2> QED
      BY <2>1, <2>2, <2>3, <2>9 DEF OrderInv, Closed
  <1>5. ASSUME tasks # <<>>, NEW h, h = Head(tasks), tasks' = Tail(tasks), UNCHANGED accepted
        PROVE  /\ h \in Query /\ InSeq(h, tasks)
               /\ \A r \in Query : InSeq(r, tasks') => InSeq(r, tasks) /\ IsAhead(h, r, accepted)
               /\ \A q \in Query : InSeq(q, executed) => IsAhead(q, h, accepted)
               /\ Ordered(tasks)' /\ AllAhead(executed, tasks')
    <2>1. h \in Query /\ InSeq(h, tasks)
      BY <1>5, InHeadTail
    <2>2. \A r \in Query : InSeq(r, tasks') => InSeq(r, tasks) /\ IsAhead(h, r, tasks)
      BY <1>5, InHeadTail, AheadTail
    <2>3. \A q, r \in Query : IsAhead(q, r, tasks') => IsAhead(q, r, tasks)
      BY <1>5, AheadTail
    <2> QED
      BY <1>1, <1>5, <2>1, <2>2, <2>3 DEF InOrder, Ordered, AllAhead
  <1>6. CASE FlushOne
    <2>1. PICK h : h = Head(tasks)
      OBVIOUS
    <2>2. /\ tasks # <<>> /\ tasks' = Tail(tasks) /\ executed' = Append(executed, h)
          /\ UNCHANGED <<accepted, running, closing, threadState>> /\ closing = "flush"
      BY <1>6, <2>1 DEF FlushOne
    <2>3. /\ h \in Query /\ InSeq(h, tasks)
          /\ \A r \in Query : InSeq(r, tasks') => InSeq(r, tasks) /\ IsAhead(h, r, accepted)
          /\ \A q \in Query : InSeq(q, executed) => IsAhead(q, h, accepted)
          /\ Ordered(tasks)' /\ AllAhead(executed, tasks')
      BY <1>5, <2>1, <2>2
    <2>4. \A q \in Query : InSeq(q, executed') <=> InSeq(q, executed) \/ q = h
      BY <2>2, <2>3, InAppend
    <2>5. \A q, r \in Query : IsAhead(q, r, executed') <=> IsAhead(q, r, executed) \/ (r = h /\ InSeq(q, executed))
      BY <2>2, <2>3, AheadAppend
    <2>6. AllAhead(executed, tasks)'
      BY <2>2, <2>3, <2>4 DEF AllAhead
    <2>7. InOrder(straggler)'
      BY <1>1, <2>2, <2>3, <2>5, <2>6 DEF InOrder
    <2> QED
      BY <1>2, <2>2, <2>7 DEF OrderInv, Closed
  <1>7. CASE TakeQuery
    <2>1. PICK h : h = Head(tasks)
      OBVIOUS
    <2>2. /\ tasks # <<>> /\ tasks' = Tail(tasks) /\ running' = h /\ ~ locked
          /\ UNCHANGED <<accepted, executed, closing, threadState>>
      BY <1>7, <2>1 DEF TakeQuery, Taken
    <2>3. closing = "no" /\ straggler = None
      BY <1>1, <1>2, <2>2 DEF Closed, InOrder
    <2>4. /\ h \in Query /\ InSeq(h, tasks)
          /\ \A r \in Query : InSeq(r, tasks') => InSeq(r, tasks) /\ IsAhead(h, r, accepted)
          /\ \A q \in Query : InSeq(q, executed) => IsAhead(q, h, accepted)
          /\ Ordered(tasks)' /\ AllAhead(executed, tasks')
      BY <1>5, <2>1, <2>2
    <2>5. AllAhead(executed, tasks)'
      BY <2>2, <2>4 DEF AllAhead
    <2>6. InOrder(straggler)'
      BY <1>1, <2>2, <2>3, <2>4, <2>5 DEF InOrder
    <2> QED
      BY <1>2, <2>2, <2>3, <2>6 DEF OrderInv, Closed
  <1>8. CASE RunQuery
    <2>1. /\ running \in Query /\ executed' = Append(executed, running) /\ running' = None
          /\ UNCHANGED <<accepted, tasks, closing, threadState>>
      BY <1>8 DEF RunQuery
    <2>2. \A q \in Query : InSeq(q, executed') <=> InSeq(q, executed) \/ q = running
      BY <2>1, InAppend
    <2>3. \A q, r \in Query : IsAhead(q, r, executed') <=> IsAhead(q, r, executed) \/ (r = running /\ InSeq(q, executed))
      BY <2>1, AheadAppend
    <2>4. running # None
      BY <2>1, QueryAssumption
    <2>5. Ordered(tasks)' /\ AllAhead(executed, tasks)'
      BY <1>1, <2>1, <2>2, <2>4 DEF InOrder, AllAhead, Ordered
    <2>6. InOrder(straggler)'
      BY <1>1, <2>1, <2>3, <2>4, <2>5 DEF InOrder
    <2> QED
      BY <1>2, <2>1, <2>6 DEF OrderInv, Closed
  <1>9. CASE BeginShutdown
    <2>1. /\ closing = "no" /\ closing' = "flush" /\ threadState' = "TERMINATED"
          /\ UNCHANGED <<accepted, tasks, running, executed>>
      BY <1>9 DEF BeginShutdown
    <2>2. straggler = None
      BY <1>1, <2>1 DEF InOrder
    <2>3. InOrder(running)'
      BY <1>1, <2>1, <2>2, QueryAssumption DEF InOrder, Ordered, AllAhead
    <2> QED
      BY <1>2, <2>1, <2>3 DEF OrderInv, Closed
  <1>10. CASE EndFlush \/ NotifyShutdown
    <2>1. /\ closing # "no" /\ closing' \in {"notify", "done"} /\ tasks = <<>>
          /\ UNCHANGED <<accepted, tasks, running, executed, threadState>>
      BY <1>2, <1>10 DEF EndFlush, FlushDone, NotifyShutdown, Closed
    <2>2. InOrder(straggler)'
      BY <1>1, <2>1 DEF InOrder, Ordered, AllAhead
    <2> QED
      BY <1>2, <2>1, <2>2 DEF OrderInv, Closed
  <1>11. CASE Stop
    BY <1>2, <1>3, <1>11 DEF Stop, Closed
  <1>12. ASSUME NEW c \in Caller, NotifyOne(c)
        PROVE  OrderInv'
    BY <1>3, <1>12 DEF NotifyOne
  <1>13. CASE SpuriousWakeup \/ TestState \/ Wait \/ NothingToTake
    BY <1>3, <1>13 DEF SpuriousWakeup, TestState, Wait, NothingToTake
  <1>14. CASE UNCHANGED vars
    BY <1>3, <1>14 DEF vars
  <1> QED
    BY <1>4, <1>6, <1>7, <1>8, <1>9, <1>10, <1>11, <1>12, <1>13, <1>14
       DEF Next, ShutdownStep, ThreadMain

(***************************************************************************)
(* Thread and flush together change the order of one query at most, and    *)
(* the thread alone of none: only the straggler can be overtaken.          *)
(***************************************************************************)
THEOREM OneOvertakenCorrect == Spec => []OneOvertaken
  <1>1. Init => OrderInv
    <2> SUFFICES ASSUME Init PROVE OrderInv
      OBVIOUS
    <2>1. InOrder(None)
      BY DEF Init, InOrder, Ordered, AllAhead, IsAhead, InSeq
    <2> QED
      BY <2>1 DEF Init, OrderInv, Closed, Injective
  <1>2. TypeOK /\ QueryInv /\ OrderInv /\ [Next]_vars => OrderInv'
    BY OrderStep
  <1>3. TypeOK /\ OrderInv => OneOvertaken
    <2> SUFFICES ASSUME TypeOK, OrderInv
                 PROVE  OneOvertaken
      OBVIOUS
    <2>1. PICK straggler \in Query \cup {None} : InOrder(straggler)
      BY DEF OrderInv
    <2>2. \A q \in Overtaken : q \in Query /\ q = straggler
      <3> SUFFICES ASSUME NEW q \in Query, NEW r \in Query,
                          IsAhead(q, r, accepted), IsAhead(r, q, executed)
                   PROVE  q = straggler
        BY DEF Overtaken
      <3>1. ~ IsAhead(r, q, accepted)
        BY AheadOneWay DEF OrderInv, TypeOK
      <3> QED
        BY <2>1, <3>1 DEF InOrder
    <2>3. closing = "no" => Overtaken = {}
      BY <2>1, <2>2, QueryAssumption DEF InOrder
    <2>4. Overtaken \subseteq {straggler}
      BY <2>2
    <2>5. Cardinality({straggler}) = 1 /\ IsFiniteSet({straggler})
      BY FS_Singleton
    <2>6. Cardinality(Overtaken) <= 1
      BY <2>4, <2>5, FS_Subset
    <2> QED
      BY <2>3, <2>6 DEF OneOvertaken
  <1> QED
    BY <1>1, <1>2, <1>3, TypeCorrect, QueryAlways, PTL DEF Spec
=============================================================================
