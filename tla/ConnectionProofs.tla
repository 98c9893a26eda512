-------------------------- MODULE ConnectionProofs --------------------------
(***************************************************************************)
(* For every set of messages: a connection keeps its type, never has a     *)
(* queue without a write under way, and releases its protocol once.        *)
(***************************************************************************)
EXTENDS Connection, TLAPS

(***************************************************************************)
(* The invariant.  A close may only add one to "released" because an open  *)
(* connection has released nothing; a message is only ever accepted by a   *)
(* connection with a protocol.                                             *)
(***************************************************************************)
Stalled(d) == ~ (d.queue # <<>> <=> d.write # "none")
Released(d) == IF ~ d.open /\ d.protocol THEN 1 ELSE 0
Good(d) == d \in ConnectionRecord /\ ~ Stalled(d) /\ d.released = Released(d)

ConnectionInv ==
    /\ Good(c)
    /\ sent \in Seq(Message) /\ failed \in BOOLEAN /\ limited \in BOOLEAN
    /\ sent # <<>> => c.protocol

(***************************************************************************)
(* The parts: timers and operations.                                       *)
(***************************************************************************)
LEMMA TimerType ==
    ASSUME NEW t \in Timer
    PROVE  Arm(t) \in Timer /\ Disarm(t) \in Timer
  BY DEF Timer, Arm, Disarm

LEMMA AbortedType ==
    ASSUME NEW op \in Op
    PROVE  Aborted(op) \in Op /\ (Aborted(op) = "none" <=> op = "none")
  BY DEF Op, Aborted

(***************************************************************************)
(* What the invariant does not see: the reads, the timers, the socket, and *)
(* whether an outstanding write has completed.                             *)
(***************************************************************************)
SameState(d, e) ==
    /\ e.open = d.open /\ e.protocol = d.protocol
    /\ e.queue = d.queue /\ e.released = d.released
    /\ e.write = "none" <=> d.write = "none"

LEMMA SameGood ==
    ASSUME NEW d, NEW e \in ConnectionRecord, Good(d), SameState(d, e)
    PROVE  Good(e)
  BY DEF Good, SameState, Stalled, Released

LEMMA TimersGood ==
    ASSUME NEW d, Good(d), NEW t \in Timer, NEW u \in Timer,
           NEW e, e = [d EXCEPT !.readTimer = t, !.writeTimer = u]
    PROVE  Good(e) /\ e.protocol = d.protocol
  <1>1. d \in ConnectionRecord
    BY DEF Good
  <1>2. e \in ConnectionRecord
    BY <1>1 DEF ConnectionRecord
  <1>3. SameState(d, e)
    BY <1>1 DEF ConnectionRecord, SameState
  <1> QED
    BY <1>2, <1>3, SameGood DEF SameState

(***************************************************************************)
(* What the functions that the handlers call do to the invariant.          *)
(***************************************************************************)
LEMMA CloseSocketGood ==
    ASSUME NEW d, Good(d)
    PROVE  /\ Good(CloseSocket(d))
           /\ CloseSocket(d).protocol = d.protocol /\ CloseSocket(d).open = d.open
  <1>1. CASE ~ d.socket
    BY <1>1 DEF CloseSocket
  <1>2. CASE d.socket
    <2>1. d \in ConnectionRecord
      BY DEF Good
    <2>2. CloseSocket(d) \in ConnectionRecord
      BY <1>2, <2>1, TimerType, AbortedType DEF ConnectionRecord, CloseSocket
    <2>3. /\ CloseSocket(d).open = d.open /\ CloseSocket(d).protocol = d.protocol
          /\ CloseSocket(d).queue = d.queue /\ CloseSocket(d).released = d.released
          /\ CloseSocket(d).write = Aborted(d.write)
      BY <1>2, <2>1 DEF ConnectionRecord, CloseSocket
    <2>4. Aborted(d.write) = "none" <=> d.write = "none"
      BY <2>1, AbortedType DEF ConnectionRecord
    <2> QED
      BY <2>2, <2>3, <2>4 DEF Good, Stalled, Released
  <1> QED
    BY <1>1, <1>2

LEMMA CloseGood ==
    ASSUME NEW d, Good(d), NEW force \in BOOLEAN
    PROVE  Good(Close(d, force)) /\ Close(d, force).protocol = d.protocol
  <1> DEFINE e == [d EXCEPT !.managed = FALSE, !.open = FALSE,
                            !.released = IF d.protocol THEN @ + 1 ELSE @]
  <1>1. CASE ~ d.open
    BY <1>1 DEF Close, AlreadyClosed, Good, Stalled, Released, ConnectionRecord
  <1>2. CASE d.open
    <2>1. d \in ConnectionRecord /\ d.released = 0
      BY <1>2 DEF Good, Released
    <2>2. e \in ConnectionRecord
      <3>1. (IF d.protocol THEN d.released + 1 ELSE d.released) \in 0 .. 2
        BY <2>1
      <3> QED
        BY <2>1, <3>1, Zenon DEF ConnectionRecord
    <2>3. /\ e.open = FALSE /\ e.protocol = d.protocol /\ e.queue = d.queue
          /\ e.write = d.write /\ e.released = IF d.protocol THEN 1 ELSE 0
      BY <2>1 DEF ConnectionRecord
    <2>4. Good(e) /\ e.protocol = d.protocol
      BY <2>2, <2>3 DEF Good, Stalled, Released
    <2>5. Close(d, force) = IF ClosesNow(d, force) THEN CloseSocket(e) ELSE e
      BY <1>2 DEF Close, AlreadyClosed
    <2> HIDE DEF e
    <2>6. Good(CloseSocket(e)) /\ CloseSocket(e).protocol = d.protocol
      BY <2>4, CloseSocketGood
    <2> QED
      BY <2>4, <2>5, <2>6
  <1> QED
    BY <1>1, <1>2

LEMMA BegunType ==
    ASSUME NEW d \in ConnectionRecord
    PROVE  Begun(d) \in Op \ {"none"}
  BY DEF Begun, Op

LEMMA StartReadGood ==
    ASSUME NEW d, Good(d), NEW what \in {"header", "packet"}
    PROVE  Good(StartRead(d, what)) /\ StartRead(d, what).protocol = d.protocol
  <1>1. d \in ConnectionRecord
    BY DEF Good
  <1>2. StartRead(d, what) \in ConnectionRecord
    BY <1>1, TimerType, BegunType DEF StartRead, ConnectionRecord
  <1>3. /\ StartRead(d, what).open = d.open /\ StartRead(d, what).protocol = d.protocol
        /\ StartRead(d, what).queue = d.queue /\ StartRead(d, what).write = d.write
        /\ StartRead(d, what).released = d.released
    BY <1>1 DEF StartRead, ConnectionRecord
  <1> QED
    BY <1>2, <1>3 DEF Good, Stalled, Released

LEMMA InternalSendGood ==
    ASSUME NEW d \in ConnectionRecord, d.queue # <<>>, d.released = Released(d)
    PROVE  Good(InternalSend(d)) /\ InternalSend(d).protocol = d.protocol
  <1>1. InternalSend(d) \in ConnectionRecord
    BY TimerType, BegunType DEF InternalSend, ConnectionRecord
  <1>2. /\ InternalSend(d).open = d.open /\ InternalSend(d).protocol = d.protocol
        /\ InternalSend(d).queue = d.queue /\ InternalSend(d).released = d.released
        /\ InternalSend(d).write = Begun(d)
    BY DEF InternalSend, ConnectionRecord
  <1> QED
    BY <1>1, <1>2, BegunType DEF Good, Stalled, Released

LEMMA SendGood ==
    ASSUME NEW d, Good(d), NEW m \in Message
    PROVE  Good(SendTo(d, m)) /\ SendTo(d, m).protocol = d.protocol
  <1> DEFINE e == [d EXCEPT !.queue = Queued(d, m)]
  <1>1. d \in ConnectionRecord
    BY DEF Good
  <1>2. Queued(d, m) \in Seq(Message) /\ Queued(d, m) # <<>>
    <2>1. d.queue \in Seq(Message)
      BY <1>1 DEF ConnectionRecord
    <2> QED
      BY <2>1 DEF Queued
  <1>3. e \in ConnectionRecord
    BY <1>1, <1>2, Zenon DEF ConnectionRecord
  <1>4. /\ e.open = d.open /\ e.protocol = d.protocol /\ e.released = d.released
        /\ e.queue = Queued(d, m) /\ e.write = d.write
    BY <1>1 DEF ConnectionRecord
  <1>5. e.released = Released(e)
    BY <1>4 DEF Good, Released
  <1>6. SendTo(d, m) = IF d.queue = <<>> THEN InternalSend(e) ELSE e
    BY DEF SendTo
  <1> HIDE DEF e
  <1>7. Good(InternalSend(e)) /\ InternalSend(e).protocol = d.protocol
    BY <1>2, <1>3, <1>4, <1>5, InternalSendGood
  <1>8. d.queue # <<>> => Good(e)
    BY <1>2, <1>3, <1>4, <1>5 DEF Good, Stalled
  <1> QED
    BY <1>4, <1>6, <1>7, <1>8

LEMMA ReceivedGood ==
    ASSUME NEW d, Good(d)
    PROVE  /\ Good(Received(d))
           /\ Received(d).protocol = d.protocol /\ Received(d).open = d.open
  <1>1. d \in ConnectionRecord
    BY DEF Good
  <1>2. Received(d) \in ConnectionRecord
    BY <1>1, TimerType DEF Received, ConnectionRecord, Op
  <1>3. /\ Received(d).open = d.open /\ Received(d).protocol = d.protocol
        /\ Received(d).queue = d.queue /\ Received(d).write = d.write
        /\ Received(d).released = d.released
    BY <1>1 DEF Received, ConnectionRecord
  <1> QED
    BY <1>2, <1>3 DEF Good, Stalled, Released

LEMMA HandledGood ==
    ASSUME NEW d, Good(d), d.open, NEW leaves \in BOOLEAN,
           NEW reply, reply = {} \/ \E m \in Message : reply = {m}
    PROVE  Good(Handled(d, reply, leaves)) /\ Handled(d, reply, leaves).protocol
  <1> DEFINE f == [d EXCEPT !.protocol = TRUE]
             e == Answered(f, reply)
  <1>1. d \in ConnectionRecord /\ d.released = 0
    BY DEF Good, Released
  <1>2. f \in ConnectionRecord
    BY <1>1, Zenon DEF ConnectionRecord
  <1>3. /\ f.open = d.open /\ f.protocol = TRUE /\ f.released = d.released
        /\ f.queue = d.queue /\ f.write = d.write
    BY <1>1 DEF ConnectionRecord
  <1>4. Good(f)
    BY <1>1, <1>2, <1>3 DEF Good, Stalled, Released
  <1> HIDE DEF f
  <1>5. Good(e) /\ e.protocol
    <2>1. CASE reply = {}
      BY <1>3, <1>4, <2>1 DEF Answered
    <2>2. CASE \E m \in Message : reply = {m}
      <3>1. PICK m \in Message : reply = {m}
        BY <2>2
      <3>2. e = SendTo(f, m)
        BY <3>1 DEF Answered
      <3> QED
        BY <1>3, <1>4, <3>2, SendGood
    <2> QED
      BY <2>1, <2>2
  <1>6. Handled(d, reply, leaves) = IF leaves THEN Close(e, FALSE) ELSE e
    BY DEF Handled, f
  <1> HIDE DEF e
  <1> QED
    BY <1>5, <1>6, CloseGood

LEMMA WrittenShape ==
    ASSUME NEW d, Good(d), d.write # "none"
    PROVE  /\ Written(d) \in ConnectionRecord
           /\ Written(d).open = d.open /\ Written(d).protocol = d.protocol
           /\ Written(d).released = d.released /\ Written(d).write = "none"
  <1>1. d \in ConnectionRecord /\ d.queue # <<>>
    BY DEF Good, Stalled
  <1>2. Tail(d.queue) \in Seq(Message)
    BY <1>1 DEF ConnectionRecord
  <1>3. Written(d) \in ConnectionRecord
    BY <1>1, <1>2, TimerType DEF Written, ConnectionRecord, Op
  <1> QED
    BY <1>1, <1>3 DEF Written, ConnectionRecord

LEMMA AfterWriteGood ==
    ASSUME NEW d, Good(d), d.write # "none"
    PROVE  Good(AfterWrite(Written(d))) /\ AfterWrite(Written(d)).protocol = d.protocol
  <1> DEFINE w == Written(d)
  <1>1. /\ w \in ConnectionRecord
        /\ w.open = d.open /\ w.protocol = d.protocol
        /\ w.released = d.released /\ w.write = "none"
    BY WrittenShape
  <1> HIDE DEF w
  <1>2. w.released = Released(w)
    BY <1>1 DEF Good, Released
  <1>3. ASSUME w.queue # <<>>
        PROVE  Good(AfterWrite(w)) /\ AfterWrite(w).protocol = d.protocol
    BY <1>1, <1>2, <1>3, InternalSendGood DEF AfterWrite
  <1>4. ASSUME w.queue = <<>>
        PROVE  Good(AfterWrite(w)) /\ AfterWrite(w).protocol = d.protocol
    <2>1. Good(w)
      BY <1>1, <1>2, <1>4 DEF Good, Stalled
    <2> QED
      BY <1>1, <1>4, <2>1, CloseSocketGood DEF AfterWrite, AfterLastWrite
  <1> QED
    BY <1>3, <1>4 DEF w

-----------------------------------------------------------------------------
(***************************************************************************)
(* The invariant holds of an accepted connection and every step keeps it.  *)
(***************************************************************************)
LEMMA InitInv == Init => ConnectionInv
  <1> SUFFICES ASSUME NEW single \in BOOLEAN, Init, c = Accepted(single)
               PROVE  ConnectionInv
    BY DEF Init
  <1>1. Arm(Idle) \in Timer /\ Idle \in Timer
    BY DEF Arm, Idle, Timer
  <1>2. Accepted(single) \in ConnectionRecord
    BY <1>1 DEF Accepted, ConnectionRecord, Op
  <1>3. /\ Accepted(single).queue = <<>> /\ Accepted(single).write = "none"
        /\ Accepted(single).open = TRUE /\ Accepted(single).released = 0
    BY DEF Accepted
  <1>4. Good(Accepted(single))
    BY <1>2, <1>3 DEF Good, Stalled, Released
  <1>5. sent = <<>> /\ failed \in BOOLEAN /\ limited \in BOOLEAN
    BY Zenon DEF Init
  <1>6. <<>> \in Seq(Message)
    OBVIOUS
  <1> QED
    BY <1>4, <1>5, <1>6, Zenon DEF ConnectionInv

LEMMA StepInv == ASSUME ConnectionInv, [Next]_vars
                 PROVE  ConnectionInv'
  <1>1. /\ Good(c) /\ c \in ConnectionRecord
        /\ sent \in Seq(Message) /\ failed \in BOOLEAN /\ limited \in BOOLEAN
        /\ sent # <<>> => c.protocol
    BY DEF ConnectionInv, Good
  <1>2. ASSUME Good(c'), c'.protocol = c.protocol, UNCHANGED sent,
               failed' \in BOOLEAN, limited' \in BOOLEAN
        PROVE  ConnectionInv'
    BY <1>1, <1>2 DEF ConnectionInv
  <1>3. Good(Received(c)) /\ Received(c).protocol = c.protocol /\ Received(c).open = c.open
    BY <1>1, ReceivedGood
  <1>5. ASSUME NEW m \in Message, Send(m)
        PROVE  ConnectionInv'
    BY <1>1, <1>5, SendGood DEF Send, ConnectionInv
  <1>6. CASE Disconnect
    BY <1>1, <1>2, <1>6, CloseGood DEF Disconnect
  <1>7. CASE CloseAll
    <2>1. c' \in ConnectionRecord
      BY <1>1, <1>7, AbortedType DEF CloseAll, ConnectionRecord
    <2>2. /\ c'.open = c.open /\ c'.protocol = c.protocol /\ c'.queue = c.queue
          /\ c'.released = c.released /\ c'.write = Aborted(c.write)
      BY <1>1, <1>7 DEF CloseAll, ConnectionRecord
    <2>3. Aborted(c.write) = "none" <=> c.write = "none"
      BY <1>1, AbortedType DEF ConnectionRecord
    <2>4. Good(c')
      BY <1>1, <2>1, <2>2, <2>3 DEF Good, Stalled, Released
    <2> QED
      BY <1>1, <1>2, <1>7, <2>2, <2>4 DEF CloseAll
  <1>8. ASSUME NEW what \in {"header", "packet"}, ReadFails(what) \/ ReadAfterClose(what)
        PROVE  ConnectionInv'
    BY <1>1, <1>2, <1>3, <1>8, CloseGood DEF ReadFails, ReadAfterClose
  <1>9. CASE ParseHeader
    BY <1>1, <1>2, <1>3, <1>9, StartReadGood DEF ParseHeader
  <1>10. CASE ExceedRate
    BY <1>1, <1>2, <1>3, <1>10 DEF ExceedRate
  <1>11. CASE ParsePacket
    <2>1. PICK reply \in {{}} \cup {{m} : m \in {n \in Message : Unsent(n)}}, leaves \in BOOLEAN :
            /\ c' = StartRead(Handled(Received(c), reply, leaves), "header")
            /\ sent' = IF reply = {} THEN sent ELSE Append(sent, CHOOSE m \in reply : TRUE)
      BY <1>11 DEF ParsePacket
    <2>2. reply = {} \/ \E m \in Message : reply = {m}
      BY <2>1
    <2>3. Received(c).open
      BY <1>3, <1>11 DEF ParsePacket, Reads
    <2>4. /\ Good(Handled(Received(c), reply, leaves))
          /\ Handled(Received(c), reply, leaves).protocol
      BY <1>3, <2>2, <2>3, HandledGood
    <2>5. Good(c') /\ c'.protocol
      BY <2>1, <2>4, StartReadGood
    <2>6. sent' \in Seq(Message)
      BY <1>1, <2>1, <2>2
    <2> QED
      BY <1>1, <1>11, <2>5, <2>6 DEF ParsePacket, ConnectionInv
  <1>12. CASE NoProtocol
    BY <1>1, <1>2, <1>3, <1>12, CloseGood DEF NoProtocol, Rejected
  <1>13. CASE OnWriteOperation
    BY <1>1, <1>2, <1>13, AfterWriteGood DEF OnWriteOperation
  <1>14. CASE OnWriteError
    <2> DEFINE w == Written(c)
               e == [w EXCEPT !.queue = <<>>]
    <2>1. /\ w \in ConnectionRecord /\ w.open = c.open /\ w.protocol = c.protocol
          /\ w.released = c.released /\ w.write = "none"
      BY <1>1, <1>14, WrittenShape DEF OnWriteError
    <2>2. c' = Close(e, TRUE)
      BY <1>14 DEF OnWriteError
    <2> HIDE DEF w
    <2>3. e \in ConnectionRecord
      <3>1. <<>> \in Seq(Message)
        OBVIOUS
      <3> QED
        BY <2>1, <3>1, Zenon DEF ConnectionRecord
    <2>4. /\ e.open = w.open /\ e.protocol = w.protocol /\ e.released = w.released
          /\ e.write = w.write /\ e.queue = <<>>
      BY <2>1 DEF ConnectionRecord
    <2> HIDE DEF e
    <2>5. Good(e)
      BY <1>1, <2>1, <2>3, <2>4 DEF Good, Stalled, Released
    <2> QED
      BY <1>1, <1>2, <1>14, <2>1, <2>2, <2>4, <2>5, CloseGood DEF OnWriteError
  <1>15. CASE HandleTimeout
    <2>1. PICK t \in Timer, u \in Timer :
            c' = Close([c EXCEPT !.readTimer = t, !.writeTimer = u], TRUE)
      <3>1. CASE c' = Close([c EXCEPT !.readTimer.due = FALSE], TRUE)
        <4>1. [c.readTimer EXCEPT !.due = FALSE] \in Timer /\ c.writeTimer \in Timer
          BY <1>1 DEF ConnectionRecord, Timer
        <4>2. [c EXCEPT !.readTimer.due = FALSE]
                = [c EXCEPT !.readTimer = [c.readTimer EXCEPT !.due = FALSE],
                            !.writeTimer = c.writeTimer]
          BY <1>1 DEF ConnectionRecord
        <4> QED
          BY <3>1, <4>1, <4>2
      <3>2. CASE c' = Close([c EXCEPT !.writeTimer.due = FALSE], TRUE)
        <4>1. [c.writeTimer EXCEPT !.due = FALSE] \in Timer /\ c.readTimer \in Timer
          BY <1>1 DEF ConnectionRecord, Timer
        <4>2. [c EXCEPT !.writeTimer.due = FALSE]
                = [c EXCEPT !.readTimer = c.readTimer,
                            !.writeTimer = [c.writeTimer EXCEPT !.due = FALSE]]
          BY <1>1 DEF ConnectionRecord
        <4> QED
          BY <3>2, <4>1, <4>2
      <3> QED
        BY <1>15, <3>1, <3>2 DEF HandleTimeout
    <2>2. PICK e : e = [c EXCEPT !.readTimer = t, !.writeTimer = u]
      OBVIOUS
    <2>3. Good(e) /\ e.protocol = c.protocol
      BY <1>1, <2>2, TimersGood
    <2>4. Good(Close(e, TRUE)) /\ Close(e, TRUE).protocol = c.protocol
      BY <2>3, CloseGood
    <2> QED
      BY <1>1, <1>2, <1>15, <2>1, <2>2, <2>4 DEF HandleTimeout
  <1>16. CASE Destroyed
    BY <1>1, <1>2, <1>16, CloseSocketGood DEF Destroyed
  <1>17. CASE ReadCompletes
    <2>1. PICK r \in {"ok", "error"} : c' = [c EXCEPT !.read = r]
      BY <1>17 DEF ReadCompletes
    <2>2. c' \in ConnectionRecord
      BY <1>1, <2>1 DEF ConnectionRecord, Op
    <2>3. SameState(c, c')
      BY <1>1, <2>1 DEF ConnectionRecord, SameState
    <2> QED
      BY <1>1, <1>2, <1>17, <2>2, <2>3, SameGood DEF ReadCompletes, SameState
  <1>18. CASE WriteCompletes
    <2>1. c' \in ConnectionRecord
      BY <1>1, <1>18, AbortedType DEF WriteCompletes, ConnectionRecord, Op
    <2>2. SameState(c, c')
      BY <1>1, <1>18 DEF WriteCompletes, ConnectionRecord, SameState
    <2> QED
      BY <1>1, <1>2, <1>18, <2>1, <2>2, SameGood DEF WriteCompletes, SameState
  <1>19. CASE TimerExpires
    <2> DEFINE t == [armed |-> FALSE, due |-> TRUE]
    <2>1. t \in Timer
      BY DEF Timer
    <2>2. c' = [c EXCEPT !.readTimer = t] \/ c' = [c EXCEPT !.writeTimer = t]
      BY <1>19 DEF TimerExpires
    <2> HIDE DEF t
    <2>3. c' \in ConnectionRecord
      BY <1>1, <2>1, <2>2 DEF ConnectionRecord
    <2>4. SameState(c, c')
      BY <1>1, <2>2 DEF ConnectionRecord, SameState
    <2> QED
      BY <1>1, <1>2, <1>19, <2>3, <2>4, SameGood DEF TimerExpires, SameState
  <1>20. CASE UNCHANGED vars
    BY <1>20 DEF vars, ConnectionInv
  <1> QED
    BY <1>5, <1>6, <1>7, <1>8, <1>9, <1>10, <1>11, <1>12, <1>13, <1>14, <1>15,
       <1>16, <1>17, <1>18, <1>19, <1>20 DEF Next, NetworkThread

-----------------------------------------------------------------------------
(***************************************************************************)
(* Who closes the socket.  Only the force of a failure closes it on queued *)
(* messages, or that of a rejection, and then there are none: a connection *)
(* without a protocol was sent nothing.                                    *)
(***************************************************************************)
Flushes(d, e) == d.socket /\ ~ e.socket => e.queue = <<>>
Unused(d) == ~ d.protocol => d.queue = <<>>
SameQueue(d, e) == e.queue = d.queue /\ e.protocol = d.protocol
Alike(d, e) == SameQueue(d, e) /\ e.socket = d.socket

LEMMA ReceivedAlike ==
    ASSUME NEW d \in ConnectionRecord, NEW what
    PROVE  Alike(d, Received(d)) /\ Alike(d, StartRead(d, what))
  BY DEF ConnectionRecord, Alike, SameQueue, Received, StartRead

LEMMA CloseSocketQueue ==
    ASSUME NEW d \in ConnectionRecord
    PROVE  SameQueue(d, CloseSocket(d))
  BY DEF ConnectionRecord, SameQueue, CloseSocket

LEMMA CloseFlushes ==
    ASSUME NEW d \in ConnectionRecord, NEW force \in BOOLEAN
    PROVE  /\ SameQueue(d, Close(d, force))
           /\ ~ force => Flushes(d, Close(d, force))
  <1>1. CASE ~ d.open
    BY <1>1 DEF Close, AlreadyClosed, ConnectionRecord, SameQueue, Flushes
  <1>2. CASE d.open
    BY <1>2 DEF Close, AlreadyClosed, ClosesNow, CloseSocket, ConnectionRecord, SameQueue, Flushes
  <1> QED
    BY <1>1, <1>2

LEMMA SendSocket ==
    ASSUME NEW d \in ConnectionRecord, NEW m
    PROVE  SendTo(d, m).socket = d.socket /\ SendTo(d, m).protocol = d.protocol
  BY DEF ConnectionRecord, SendTo, InternalSend, Queued

LEMMA HandledFlushes ==
    ASSUME NEW d, Good(d), d.open, NEW leaves \in BOOLEAN,
           NEW reply, reply = {} \/ \E m \in Message : reply = {m}
    PROVE  Flushes(d, Handled(d, reply, leaves))
  <1> DEFINE f == [d EXCEPT !.protocol = TRUE]
             e == Answered(f, reply)
  <1>1. d \in ConnectionRecord
    BY DEF Good
  <1>2. f \in ConnectionRecord /\ f.socket = d.socket
    BY <1>1, Zenon DEF ConnectionRecord
  <1>3. Handled(d, reply, FALSE) = e
    BY DEF Handled
  <1>4. Good(e)
    BY <1>3, HandledGood
  <1>5. e.socket = d.socket
    <2> HIDE DEF f
    <2> QED
      BY <1>2, SendSocket DEF Answered
  <1>6. Handled(d, reply, leaves) = IF leaves THEN Close(e, FALSE) ELSE e
    BY DEF Handled
  <1> HIDE DEF e
  <1> QED
    BY <1>4, <1>5, <1>6, CloseFlushes DEF Flushes, Good

LEMMA AfterWriteFlushes ==
    ASSUME NEW d, Good(d), d.write # "none"
    PROVE  /\ Flushes(d, AfterWrite(Written(d)))
           /\ Unused(d) => Unused(AfterWrite(Written(d)))
  <1> DEFINE w == Written(d)
  <1>1. w \in ConnectionRecord /\ d \in ConnectionRecord /\ d.queue # <<>>
    BY WrittenShape DEF Good, Stalled
  <1>2. w.socket = d.socket /\ w.protocol = d.protocol
    BY <1>1 DEF Written, ConnectionRecord
  <1> HIDE DEF w
  <1>3. CASE w.queue # <<>>
    <2>1. AfterWrite(w) = InternalSend(w)
      BY <1>3 DEF AfterWrite
    <2>2. Alike(w, InternalSend(w))
      BY <1>1 DEF InternalSend, ConnectionRecord, Alike, SameQueue
    <2> QED
      BY <1>1, <1>2, <2>1, <2>2 DEF Flushes, Unused, Alike, SameQueue, w
  <1>4. CASE w.queue = <<>>
    <2>1. AfterWrite(w) = w \/ AfterWrite(w) = CloseSocket(w)
      BY <1>4 DEF AfterWrite, AfterLastWrite
    <2>2. SameQueue(w, AfterWrite(w))
      BY <1>1, <2>1, CloseSocketQueue DEF SameQueue
    <2> QED
      BY <1>4, <2>2 DEF Flushes, Unused, SameQueue, w
  <1> QED
    BY <1>3, <1>4

LEMMA FlushStep ==
    ASSUME ConnectionInv, Unused(c), [Next]_vars
    PROVE  Unused(c') /\ (Flushes(c, c') \/ failed')
  <1>1. Good(c) /\ c \in ConnectionRecord
    BY DEF ConnectionInv, Good
  <1>2. PICK r : r = Received(c)
    OBVIOUS
  <1>3. Good(r) /\ r \in ConnectionRecord /\ Alike(c, r) /\ r.open = c.open
    BY <1>1, <1>2, ReceivedGood, ReceivedAlike DEF Good
  <1>4. ASSUME SameQueue(c, c'), Flushes(c, c') \/ failed'
        PROVE  Unused(c') /\ (Flushes(c, c') \/ failed')
    BY <1>4 DEF Unused, SameQueue
  <1>5. ASSUME Alike(c, c')
        PROVE  Unused(c') /\ (Flushes(c, c') \/ failed')
    BY <1>5 DEF Unused, Flushes, Alike, SameQueue
  <1>6. ASSUME NEW m \in Message, Send(m)
        PROVE  Unused(c') /\ Flushes(c, c')
    BY <1>1, <1>6, SendSocket DEF Send, Unused, Flushes
  <1>7. CASE Disconnect
    BY <1>1, <1>4, <1>7, CloseFlushes DEF Disconnect
  <1>8. CASE CloseAll
    <2>1. SameQueue(c, c') /\ failed'
      BY <1>1, <1>8 DEF CloseAll, ConnectionRecord, SameQueue
    <2> QED
      BY <1>4, <2>1
  <1>9. ASSUME NEW what \in {"header", "packet"}, ReadFails(what) \/ ReadAfterClose(what)
        PROVE  Unused(c') /\ (Flushes(c, c') \/ failed')
    BY <1>2, <1>3, <1>4, <1>5, <1>9, CloseFlushes DEF ReadFails, ReadAfterClose, Alike, SameQueue
  <1>10. CASE ParseHeader \/ ExceedRate
    BY <1>2, <1>3, <1>5, <1>10, ReceivedAlike DEF ParseHeader, ExceedRate, Alike, SameQueue
  <1>11. CASE ParsePacket
    <2>1. PICK reply \in {{}} \cup {{m} : m \in {n \in Message : Unsent(n)}}, leaves \in BOOLEAN :
            c' = StartRead(Handled(r, reply, leaves), "header")
      BY <1>2, <1>11 DEF ParsePacket
    <2>2. r.open
      BY <1>3, <1>11 DEF ParsePacket, Reads
    <2>3. PICK h : h = Handled(r, reply, leaves)
      OBVIOUS
    <2>4. h \in ConnectionRecord /\ h.protocol /\ Flushes(r, h)
      BY <1>3, <2>2, <2>3, HandledGood, HandledFlushes DEF Good
    <2>5. Alike(h, c')
      BY <2>1, <2>3, <2>4, ReceivedAlike
    <2> QED
      BY <1>3, <2>4, <2>5 DEF Unused, Flushes, Alike, SameQueue
  <1>12. CASE NoProtocol
    <2>1. c' = Close(r, TRUE) /\ ~ c.protocol
      BY <1>2, <1>12 DEF NoProtocol, Rejected
    <2> QED
      BY <1>3, <2>1, CloseFlushes DEF Unused, Flushes, Alike, SameQueue
  <1>13. CASE OnWriteOperation
    BY <1>1, <1>13, AfterWriteFlushes DEF OnWriteOperation
  <1>14. CASE OnWriteError
    <2>1. PICK e : e = [Written(c) EXCEPT !.queue = <<>>]
      OBVIOUS
    <2>2. Written(c) \in ConnectionRecord
      BY <1>1, <1>14, WrittenShape DEF OnWriteError
    <2>3. e \in ConnectionRecord /\ e.queue = <<>>
      <3>1. <<>> \in Seq(Message)
        OBVIOUS
      <3> QED
        BY <2>1, <2>2, <3>1, Zenon DEF ConnectionRecord
    <2>4. c' = Close(e, TRUE)
      BY <1>14, <2>1 DEF OnWriteError
    <2> QED
      BY <2>3, <2>4, CloseFlushes DEF Unused, Flushes, SameQueue
  <1>15. CASE HandleTimeout
    <2>1. PICK e \in ConnectionRecord : c' = Close(e, TRUE) /\ SameQueue(c, e)
      <3>1. [c EXCEPT !.readTimer.due = FALSE] \in ConnectionRecord
        BY <1>1 DEF ConnectionRecord, Timer
      <3>2. [c EXCEPT !.writeTimer.due = FALSE] \in ConnectionRecord
        BY <1>1 DEF ConnectionRecord, Timer
      <3>3. /\ SameQueue(c, [c EXCEPT !.readTimer.due = FALSE])
            /\ SameQueue(c, [c EXCEPT !.writeTimer.due = FALSE])
        BY <1>1 DEF ConnectionRecord, SameQueue
      <3> QED
        BY <1>15, <3>1, <3>2, <3>3 DEF HandleTimeout
    <2>2. failed'
      BY <1>15 DEF HandleTimeout
    <2> QED
      BY <1>4, <2>1, <2>2, CloseFlushes DEF SameQueue
  <1>16. CASE Destroyed
    <2>1. c.queue = <<>> /\ c' = CloseSocket(c)
      BY <1>1, <1>16 DEF Destroyed, Good, Stalled
    <2> QED
      BY <1>1, <1>4, <2>1, CloseSocketQueue DEF Flushes, SameQueue
  <1>17. CASE ReadCompletes \/ WriteCompletes \/ TimerExpires
    <2>1. Alike(c, c')
      BY <1>1, <1>17 DEF ReadCompletes, WriteCompletes, TimerExpires, ConnectionRecord, Alike, SameQueue
    <2> QED
      BY <1>5, <2>1
  <1>18. CASE UNCHANGED vars
    BY <1>5, <1>18 DEF vars, Alike, SameQueue
  <1> QED
    BY <1>6, <1>7, <1>8, <1>9, <1>10, <1>11, <1>12, <1>13, <1>14, <1>15, <1>16, <1>17, <1>18
       DEF Next, NetworkThread

-----------------------------------------------------------------------------
(***************************************************************************)
(* A close of an open connection that accepted a message has released its  *)
(* protocol, because the messages are the protocol's.                      *)
(***************************************************************************)
LEMMA InvImplies == ConnectionInv => TypeOK /\ NoStalledQueue /\ ReleasedOnce
  <1> SUFFICES ASSUME ConnectionInv
               PROVE  TypeOK /\ NoStalledQueue /\ ReleasedOnce
    OBVIOUS
  <1>1. TypeOK
    BY DEF ConnectionInv, Good, TypeOK
  <1>2. NoStalledQueue
    BY DEF ConnectionInv, Good, Stalled, NoStalledQueue
  <1>3. ReleasedOnce
    BY DEF ConnectionInv, Good, Released, ReleasedOnce
  <1> QED
    BY <1>1, <1>2, <1>3

THEOREM ConnectionCorrect == Spec => []ConnectionInv
  BY InitInv, StepInv, PTL DEF Spec

(***************************************************************************)
(* The connection keeps its type: in particular an operation completes     *)
(* once, and "released" never exceeds two.                                 *)
(***************************************************************************)
THEOREM TypeCorrect == Spec => []TypeOK
  BY ConnectionCorrect, InvImplies, PTL

(***************************************************************************)
(* Whatever is sent and however completions, timers and closes interleave, *)
(* a non-empty messageQueue has one write under way and an empty one none. *)
(***************************************************************************)
THEOREM NoStallCorrect == Spec => []NoStalledQueue
  BY ConnectionCorrect, InvImplies, PTL

(***************************************************************************)
(* Connection::close queues Protocol::release once, whoever closes.        *)
(***************************************************************************)
THEOREM ReleasedOnceCorrect == Spec => []ReleasedOnce
  BY ConnectionCorrect, InvImplies, PTL

(***************************************************************************)
(* Connection::close without force leaves the socket to the last of the    *)
(* writes: what was queued goes out before, whatever else is under way.    *)
(***************************************************************************)
THEOREM FlushedCorrect == Spec => FlushedBeforeClose
  <1>1. Init => Unused(c)
    BY DEF Init, Accepted, Unused
  <1>2. ConnectionInv /\ Unused(c) /\ [Next]_vars => Unused(c)'
    BY FlushStep
  <1>3. ConnectionInv /\ Unused(c) /\ [Next]_vars
          => [c.socket /\ ~ c'.socket => c'.queue = <<>> \/ failed']_vars
    BY FlushStep DEF Flushes
  <1> QED
    BY <1>1, <1>2, <1>3, ConnectionCorrect, PTL DEF Spec, FlushedBeforeClose
=============================================================================
