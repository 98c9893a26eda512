------------------------- MODULE GameSessionProofs -------------------------
(***************************************************************************)
(* For any number of clients of one character, whatever they and the       *)
(* network do and in whatever order tasks run: references are counted      *)
(* exactly, the character is in the world once, and nobody is forgotten.   *)
(*                                                                         *)
(* And of the queue in front of the server, which ProtocolGame::login asks *)
(* first (WaitingList, at the end of the module): a client has one place,  *)
(* and one that is let in leaves room for those ahead of it.               *)
(***************************************************************************)
EXTENDS GameSession, WaitingList, FiniteSetTheorems, SequenceTheorems, WellFoundedInduction, TLAPS

(***************************************************************************)
(* The inductive invariant, of a state h of the game thread: each function *)
(* of the code preserves it, so that a handler, which calls several, does. *)
(***************************************************************************)
SessionState ==
    [conn : [Protocol -> {"new", "open", "closed", "gone"}],
     obj : [Protocol -> Object],
     player : [Protocol -> Protocol \cup {None}],
     eventConnect : [Protocol -> Protocol \cup {None}],
     acceptPackets : [Protocol -> BOOLEAN],
     tasks : Seq(Task),
     autosend : [Protocol -> Nat],
     sendAlls : Nat,
     toRelease : [Protocol -> Nat]]

\* A protocol and the player it plays point at each other.
OwnersAgree(h) == \A p, i \in Protocol : h.player[p] = i <=> h.obj[i].owner = p

RefsHold(h) ==
    \A i \in Protocol :
        /\ h.obj[i].refs = One(h.obj[i].owner # None) + One(h.obj[i].status = "placed")
                           + One(h.obj[i].inCheck) + h.toRelease[i]
        /\ h.obj[i].status \in {"none", "deleted"} <=> h.obj[i].refs = 0

OnePlaced(h) ==
    \A i, j \in Protocol : h.obj[i].status = "placed" /\ h.obj[j].status = "placed" => i = j

\* The invariant of the player objects and the protocols that play them.
ObjectsInv(h) == h \in SessionState /\ OwnersAgree(h) /\ RefsHold(h) /\ OnePlaced(h)

\* A protocol that has not logged in.
Fresh(h, p) ==
    /\ h.obj[p].status = "none" /\ h.player[p] = None /\ h.eventConnect[p] = None
    /\ h.autosend[p] = 0

Queued(h, op, p) == \E n \in DOMAIN h.tasks : h.tasks[n].op = op /\ h.tasks[n].protocol = p

\* What a task that waits in the queue says of its protocol.
TaskHolds(h, t) ==
    /\ h.conn[t.protocol] # "new"
    /\ t.op # "connect" => t.object = None
    /\ t.op = "login" => Fresh(h, t.protocol)
    /\ t.op = "connect" => t.object # None /\ h.eventConnect[t.protocol] = t.object
    /\ t.op = "release" => h.conn[t.protocol] \in {"closed", "gone"}

\* A protocol logs in first, and does nothing twice at a time.
InOrder(h) ==
    \A m, n \in DOMAIN h.tasks :
        m < n /\ h.tasks[m].protocol = h.tasks[n].protocol =>
            h.tasks[n].op # "login" /\ h.tasks[m].op # h.tasks[n].op

ReleasedIn(h, p) == h.conn[p] \in {"closed", "gone"} /\ ~Queued(h, "release", p)

\* The invariant of the connections and of the queue.
QueueInv(h) ==
    /\ \A n \in DOMAIN h.tasks : TaskHolds(h, h.tasks[n])
    /\ InOrder(h)
    /\ \A p \in Protocol :
          /\ h.conn[p] = "new" => Fresh(h, p)
          /\ h.eventConnect[p] # None => h.player[p] = None
          /\ Queued(h, "login", p) => ~ReleasedIn(h, p)
          /\ h.autosend[p] <= 1
    /\ Sending(h) => h.sendAlls > 0

\* What ClientsAreServed says of one protocol.
Served(h, p) ==
    /\ ReleasedIn(h, p) => h.autosend[p] = 0
    /\ h.conn[p] = "open" =>
          h.player[p] # None \/ h.eventConnect[p] # None \/ Queued(h, "login", p)

Core(h) == ObjectsInv(h) /\ QueueInv(h)
SessionInv == Core(g) /\ \A p \in Protocol : Served(g, p)

-----------------------------------------------------------------------------
(***************************************************************************)
(* What each function changes.                                             *)
(***************************************************************************)
LEMMA ATaskType ==
    ASSUME NEW op \in {"login", "connect", "logout", "release"}, NEW p \in Protocol, NEW i \in Protocol \cup {None}
    PROVE  /\ ATask(op, p, i) \in Task
           /\ ATask(op, p, i).op = op /\ ATask(op, p, i).protocol = p /\ ATask(op, p, i).object = i
  BY DEF ATask, Task

Disconnects(h, p, d) ==
    /\ d \in SessionState /\ d.obj = h.obj /\ d.player = h.player /\ d.eventConnect = h.eventConnect
    /\ d.autosend = h.autosend /\ d.sendAlls = h.sendAlls /\ d.toRelease = h.toRelease
    /\ \/ h.conn[p] # "open" /\ d.conn = h.conn /\ d.tasks = h.tasks
       \/ /\ h.conn[p] = "open" /\ d.conn = [h.conn EXCEPT ![p] = "closed"]
          /\ d.tasks = Append(h.tasks, ATask("release", p, None))

LEMMA DisconnectEffect ==
    ASSUME NEW h \in SessionState, NEW p \in Protocol
    PROVE  Disconnects(h, p, Disconnect(h, p))
  <1>1. CASE h.conn[p] = "open"
    <2>1. Append(h.tasks, ATask("release", p, None)) \in Seq(Task)
      BY ATaskType, AppendProperties DEF SessionState
    <2>2. ASSUME NEW q \in Seq(Task), q = Append(h.tasks, ATask("release", p, None)),
                 NEW d, d = [h EXCEPT !.conn[p] = "closed", !.tasks = q]
          PROVE  Disconnects(h, p, d)
      <3>1. d \in SessionState
        BY <2>2 DEF SessionState
      <3> QED
        BY <1>1, <2>2, <3>1 DEF Disconnects, SessionState
    <2> QED
      BY <1>1, <2>1, <2>2 DEF Disconnect
  <1>2. CASE h.conn[p] # "open"
    BY <1>2 DEF Disconnect, Disconnects
  <1> QED
    BY <1>1, <1>2

Removes(h, i, d) ==
    /\ d \in SessionState /\ d.conn = h.conn /\ d.player = h.player /\ d.eventConnect = h.eventConnect
    /\ d.tasks = h.tasks /\ d.autosend = h.autosend /\ d.sendAlls = h.sendAlls
    /\ \/ h.obj[i].status # "placed" /\ d.obj = h.obj /\ d.toRelease = h.toRelease
       \/ /\ h.obj[i].status = "placed"
          /\ \A j \in Protocol \ {i} : d.obj[j] = h.obj[j] /\ d.toRelease[j] = h.toRelease[j]
          /\ d.obj[i].status = "removed"
          /\ d.obj[i].refs = h.obj[i].refs /\ d.obj[i].inCheck = h.obj[i].inCheck
          /\ d.obj[i].owner = h.obj[i].owner
          /\ d.toRelease[i] = h.toRelease[i] + 1

\* Updates of an object and of a counter.
LEMMA ObjectTypes ==
    ASSUME NEW o \in Object, NEW n \in Nat, NEW s \in {"none", "loaded", "placed", "removed", "deleted"},
           NEW b \in BOOLEAN, NEW w \in Protocol \cup {None}
    PROVE  /\ [o EXCEPT !.status = s, !.check = b] \in Object
           /\ [o EXCEPT !.status = s, !.inCheck = b, !.check = b] \in Object
           /\ [o EXCEPT !.refs = n, !.status = s] \in Object
           /\ [o EXCEPT !.owner = w] \in Object
           /\ [o EXCEPT !.inCheck = b] \in Object
           /\ [o EXCEPT !.isConnecting = b] \in Object
  BY DEF Object

LEMMA CountUpdate ==
    ASSUME NEW f \in [Protocol -> Nat], NEW i \in Protocol
    PROVE  [f EXCEPT ![i] = @ + 1] \in [Protocol -> Nat]
  OBVIOUS

LEMMA RemoveCreatureEffect ==
    ASSUME NEW h \in SessionState, NEW i \in Protocol
    PROVE  Removes(h, i, RemoveCreature(h, i))
  <1>1. CASE h.obj[i].status = "placed"
    <2>1. ASSUME NEW o \in Object, o = [h.obj[i] EXCEPT !.status = "removed", !.check = FALSE],
                 NEW w \in [Protocol -> Nat], w = [h.toRelease EXCEPT ![i] = @ + 1],
                 NEW d, d = [h EXCEPT !.obj[i] = o, !.toRelease = w]
          PROVE  Removes(h, i, d)
      <3>1. d \in SessionState
        BY <2>1 DEF SessionState
      <3> QED
        BY <1>1, <2>1, <3>1 DEF Removes, SessionState
    <2>2. h.obj[i] \in Object /\ h.toRelease \in [Protocol -> Nat]
      BY DEF SessionState
    <2>3. [h.obj[i] EXCEPT !.status = "removed", !.check = FALSE] \in Object
      BY <2>2, ObjectTypes
    <2>4. [h EXCEPT !.obj[i].status = "removed", !.obj[i].check = FALSE, !.toRelease[i] = @ + 1]
             = [h EXCEPT !.obj[i] = [h.obj[i] EXCEPT !.status = "removed", !.check = FALSE],
                         !.toRelease = [h.toRelease EXCEPT ![i] = @ + 1]]
      BY DEF SessionState, Object
    <2> QED
      BY <1>1, <2>1, <2>2, <2>3, <2>4, CountUpdate DEF RemoveCreature
  <1>2. CASE h.obj[i].status # "placed"
    BY <1>2 DEF RemoveCreature, Removes
  <1> QED
    BY <1>1, <1>2

\* A reference more, or one less.
Counts(h, i, n, d) ==
    /\ d \in SessionState /\ d.conn = h.conn /\ d.player = h.player /\ d.eventConnect = h.eventConnect
    /\ d.tasks = h.tasks /\ d.autosend = h.autosend /\ d.sendAlls = h.sendAlls
    /\ d.toRelease = h.toRelease
    /\ \A j \in Protocol \ {i} : d.obj[j] = h.obj[j]
    /\ d.obj[i].refs = n /\ d.obj[i].status = IF n = 0 THEN "deleted" ELSE h.obj[i].status
    /\ d.obj[i].inCheck = h.obj[i].inCheck /\ d.obj[i].owner = h.obj[i].owner

LEMMA RefsEffect ==
    ASSUME NEW h \in SessionState, NEW i \in Protocol, NEW n \in Int, h.obj[i].refs + n \in Nat
    PROVE  Counts(h, i, h.obj[i].refs + n, Refs(h, i, n))
  <1>1. ASSUME NEW k \in Nat, k = h.obj[i].refs + n, NEW s, s = IF k = 0 THEN "deleted" ELSE h.obj[i].status,
               NEW o \in Object, o = [h.obj[i] EXCEPT !.refs = k, !.status = s],
               NEW d, d = [h EXCEPT !.obj[i] = o]
        PROVE  Counts(h, i, k, d)
    <2>1. d \in SessionState
      BY <1>1 DEF SessionState
    <2>2. d.obj = [h.obj EXCEPT ![i] = o]
      BY <1>1 DEF SessionState
    <2>3. o.refs = k /\ o.status = s /\ o.inCheck = h.obj[i].inCheck /\ o.owner = h.obj[i].owner
      BY <1>1 DEF SessionState, Object
    <2> QED
      BY <1>1, <2>1, <2>2, <2>3 DEF Counts, SessionState
  <1> DEFINE k == h.obj[i].refs + n
             s == IF k = 0 THEN "deleted" ELSE h.obj[i].status
             o == [h.obj[i] EXCEPT !.refs = k, !.status = s]
  <1>2. h.obj[i] \in Object
    BY DEF SessionState
  <1>3. s \in {"none", "loaded", "placed", "removed", "deleted"}
    BY <1>2 DEF Object
  <1>4. o \in Object
    BY <1>2, <1>3, ObjectTypes
  <1>5. Refs(h, i, n) = [h EXCEPT !.obj[i] = o]
    BY DEF Refs, SessionState, Object
  <1> HIDE DEF o
  <1> QED
    BY <1>1, <1>4, <1>5 DEF o

-----------------------------------------------------------------------------
(***************************************************************************)
(* Closing a connection and taking the player out of the world keep the    *)
(* invariant, and leave every client as well served as it was.             *)
(***************************************************************************)
Keeps(h, d) ==
    /\ d.player = h.player /\ d.eventConnect = h.eventConnect
    /\ d.autosend = h.autosend /\ d.sendAlls = h.sendAlls
    /\ \A i \in Protocol : /\ d.obj[i].status = "none" <=> h.obj[i].status = "none"
                           /\ h.obj[i].inCheck => d.obj[i].inCheck
    /\ \A p \in Protocol :
          /\ d.conn[p] = "open" => h.conn[p] = "open"
          /\ d.conn[p] = "new" => h.conn[p] = "new"
          /\ ReleasedIn(d, p) => ReleasedIn(h, p)
          /\ Queued(h, "login", p) <=> Queued(d, "login", p)

LEMMA KeepsServed ==
    ASSUME NEW h, NEW d, Keeps(h, d), NEW p \in Protocol, Served(h, p)
    PROVE  Served(d, p)
  BY DEF Keeps, Served

LEMMA KeepsTransitive ==
    ASSUME NEW h, NEW c, NEW d, Keeps(h, c), Keeps(c, d)
    PROVE  Keeps(h, d)
  BY DEF Keeps

LEMMA KeepsItself == ASSUME NEW h PROVE Keeps(h, h)
  BY DEF Keeps

LEMMA TaskTypes ==
    ASSUME NEW h \in SessionState, NEW n \in DOMAIN h.tasks
    PROVE  /\ h.tasks[n] \in Task /\ h.tasks[n].protocol \in Protocol
           /\ h.tasks[n].object \in Protocol \cup {None}
           /\ h.tasks[n].op \in {"login", "connect", "logout", "release"}
  <1>1. h.tasks \in Seq(Task)
    BY DEF SessionState
  <1>2. h.tasks[n] \in Task
    BY <1>1, ElementOfSeq, LenProperties
  <1> QED
    BY <1>2 DEF Task

\* The queue with a task more.
LEMMA QueueAppend ==
    ASSUME NEW s \in Seq(Task), NEW t \in Task, NEW q, q = Append(s, t)
    PROVE  /\ Len(s) \in Nat /\ DOMAIN s = 1 .. Len(s) /\ DOMAIN q = 1 .. Len(s) + 1
           /\ \A n \in 1 .. Len(s) : q[n] = s[n] /\ s[n] \in Task
           /\ q[Len(s) + 1] = t
  BY AppendProperties, LenProperties, ElementOfSeq

LEMMA QueuedAppend ==
    ASSUME NEW h, NEW d, h.tasks \in Seq(Task), NEW t \in Task, d.tasks = Append(h.tasks, t),
           NEW op, NEW p
    PROVE  Queued(d, op, p) <=> Queued(h, op, p) \/ (t.op = op /\ t.protocol = p)
  <1>1. /\ Len(h.tasks) \in Nat /\ DOMAIN h.tasks = 1 .. Len(h.tasks)
        /\ DOMAIN d.tasks = 1 .. Len(h.tasks) + 1
        /\ \A n \in 1 .. Len(h.tasks) : d.tasks[n] = h.tasks[n]
        /\ d.tasks[Len(h.tasks) + 1] = t
    BY QueueAppend
  <1>2. Queued(h, op, p) => Queued(d, op, p)
    BY <1>1 DEF Queued
  <1>3. t.op = op /\ t.protocol = p => Queued(d, op, p)
    <2>1. Len(h.tasks) + 1 \in DOMAIN d.tasks
      BY <1>1
    <2> QED
      BY <1>1, <2>1 DEF Queued
  <1>4. Queued(d, op, p) => Queued(h, op, p) \/ (t.op = op /\ t.protocol = p)
    <2>1. \A n \in DOMAIN d.tasks : n \in DOMAIN h.tasks \/ n = Len(h.tasks) + 1
      BY <1>1
    <2> QED
      BY <1>1, <2>1 DEF Queued
  <1> QED
    BY <1>2, <1>3, <1>4

\* A new task keeps the order if it comes last in every respect.
LEMMA OrderAppend ==
    ASSUME NEW h, NEW d, h.tasks \in Seq(Task), NEW t \in Task, d.tasks = Append(h.tasks, t),
           InOrder(h), ~Queued(h, t.op, t.protocol),
           t.op = "login" => \A n \in DOMAIN h.tasks : h.tasks[n].protocol # t.protocol
    PROVE  InOrder(d)
  <1>1. /\ Len(h.tasks) \in Nat /\ DOMAIN h.tasks = 1 .. Len(h.tasks)
        /\ DOMAIN d.tasks = 1 .. Len(h.tasks) + 1
        /\ \A n \in 1 .. Len(h.tasks) : d.tasks[n] = h.tasks[n]
        /\ d.tasks[Len(h.tasks) + 1] = t
    BY QueueAppend
  <1> SUFFICES ASSUME NEW m \in DOMAIN d.tasks, NEW n \in DOMAIN d.tasks, m < n,
                      d.tasks[m].protocol = d.tasks[n].protocol
               PROVE  d.tasks[n].op # "login" /\ d.tasks[m].op # d.tasks[n].op
    BY DEF InOrder
  <1>2. m \in DOMAIN h.tasks /\ d.tasks[m] = h.tasks[m]
    BY <1>1
  <1>3. CASE n \in DOMAIN h.tasks
    BY <1>1, <1>2, <1>3 DEF InOrder
  <1>4. CASE n = Len(h.tasks) + 1
    BY <1>1, <1>2, <1>4 DEF Queued
  <1> QED
    BY <1>1, <1>3, <1>4

LEMMA DisconnectQueue ==
    ASSUME NEW h, ObjectsInv(h), QueueInv(h), NEW p \in Protocol, NEW d, Disconnects(h, p, d)
    PROVE  ObjectsInv(d) /\ QueueInv(d) /\ Keeps(h, d) /\ d.conn[p] # "open"
  <1> DEFINE t == ATask("release", p, None)
  <1>0. h \in SessionState /\ d \in SessionState /\ h.tasks \in Seq(Task)
    BY DEF ObjectsInv, Disconnects, SessionState
  <1>1. ObjectsInv(d)
    BY DEF ObjectsInv, Disconnects, OwnersAgree, RefsHold, OnePlaced
  <1>2. CASE h.conn[p] # "open"
    <2>1. d.conn = h.conn /\ d.tasks = h.tasks
      BY <1>2 DEF Disconnects
    <2>2. \A op, q : Queued(d, op, q) <=> Queued(h, op, q)
      BY <2>1 DEF Queued
    <2>3. Keeps(h, d)
      BY <2>1, <2>2 DEF Keeps, Disconnects, ReleasedIn
    <2>4. QueueInv(d)
      BY <2>1, <2>2 DEF QueueInv, Disconnects, TaskHolds, Fresh, InOrder, ReleasedIn, Sending
    <2> QED
      BY <1>1, <1>2, <2>1, <2>3, <2>4
  <1>3. CASE h.conn[p] = "open"
    <2>1. d.conn = [h.conn EXCEPT ![p] = "closed"] /\ d.tasks = Append(h.tasks, t)
      BY <1>3 DEF Disconnects
    <2>2. t \in Task /\ t.op = "release" /\ t.protocol = p /\ t.object = None
      BY ATaskType
    <2> HIDE DEF t
    <2>3. d.conn[p] = "closed" /\ \A q \in Protocol \ {p} : d.conn[q] = h.conn[q]
      BY <1>0, <2>1 DEF SessionState
    <2>4. \A op, q : Queued(d, op, q) <=> Queued(h, op, q) \/ (op = "release" /\ q = p)
      BY <1>0, <2>1, <2>2, QueuedAppend
    <2>5. Keeps(h, d)
      BY <1>3, <2>3, <2>4 DEF Keeps, Disconnects, ReleasedIn
    <2>6. ~Queued(h, "release", p)
      BY <1>3 DEF QueueInv, TaskHolds, Queued
    <2>7. InOrder(d)
      BY <1>0, <2>1, <2>2, <2>6, OrderAppend DEF QueueInv
    <2>8. ASSUME NEW n \in DOMAIN d.tasks
          PROVE  TaskHolds(d, d.tasks[n])
      <3>1. n \in DOMAIN h.tasks \/ d.tasks[n] = t
        BY <1>0, <2>1, <2>2, QueueAppend
      <3>2. ASSUME n \in DOMAIN h.tasks
            PROVE  d.tasks[n] = h.tasks[n] /\ h.tasks[n].protocol \in Protocol /\ TaskHolds(h, h.tasks[n])
        <4>1. d.tasks[n] = h.tasks[n]
          BY <1>0, <2>1, <2>2, <3>2, QueueAppend
        <4> QED
          BY <1>0, <3>2, <4>1, TaskTypes DEF QueueInv
      <3>3. CASE n \in DOMAIN h.tasks
        BY <1>3, <2>3, <3>2, <3>3 DEF TaskHolds, Fresh, Disconnects
      <3>4. CASE d.tasks[n] = t
        BY <2>2, <2>3, <3>4 DEF TaskHolds
      <3> QED
        BY <3>1, <3>3, <3>4
    <2>9. QueueInv(d)
      BY <1>3, <2>3, <2>4, <2>7, <2>8 DEF QueueInv, Disconnects, Fresh, ReleasedIn, Sending
    <2> QED
      BY <1>1, <2>3, <2>5, <2>9
  <1> QED
    BY <1>2, <1>3

LEMMA RemoveObjects ==
    ASSUME NEW h, ObjectsInv(h), QueueInv(h), NEW i \in Protocol, NEW d, Removes(h, i, d)
    PROVE  ObjectsInv(d) /\ QueueInv(d) /\ Keeps(h, d)
  <1>1. CASE h.obj[i].status # "placed"
    BY <1>1 DEF ObjectsInv, QueueInv, Removes, OwnersAgree, RefsHold, OnePlaced, TaskHolds, Fresh,
                InOrder, ReleasedIn, Queued, Sending, Keeps
  <1>2. CASE h.obj[i].status = "placed"
    <2>0. h \in SessionState /\ d \in SessionState
      BY DEF ObjectsInv, Removes
    <2>1. /\ \A j \in Protocol : /\ d.obj[j].owner = h.obj[j].owner /\ d.obj[j].inCheck = h.obj[j].inCheck
                                 /\ d.obj[j].refs = h.obj[j].refs
                                 /\ d.obj[j].status = IF j = i THEN "removed" ELSE h.obj[j].status
                                 /\ d.toRelease[j] = IF j = i THEN h.toRelease[j] + 1 ELSE h.toRelease[j]
      BY <1>2 DEF Removes
    <2>2. OwnersAgree(d) /\ OnePlaced(d)
      BY <2>1 DEF OwnersAgree, OnePlaced, ObjectsInv, Removes
    <2>3. RefsHold(d)
      <3>1. \A j \in Protocol : h.toRelease[j] \in Nat /\ h.obj[j].refs \in Nat
        BY <2>0 DEF SessionState, Object
      <3> QED
        BY <1>2, <2>1, <3>1 DEF RefsHold, ObjectsInv, One
    <2>4. \A op, q : Queued(d, op, q) <=> Queued(h, op, q)
      BY DEF Queued, Removes
    <2>5. Keeps(h, d)
      BY <1>2, <2>1, <2>4 DEF Keeps, Removes, ReleasedIn
    <2>6. \A n \in DOMAIN d.tasks : TaskHolds(d, d.tasks[n])
      BY <1>2, <2>0, <2>1, TaskTypes DEF QueueInv, Removes, TaskHolds, Fresh
    <2>7. QueueInv(d)
      BY <1>2, <2>1, <2>4, <2>6 DEF QueueInv, Removes, Fresh, InOrder, ReleasedIn, Sending
    <2> QED
      BY <2>0, <2>2, <2>3, <2>5, <2>7 DEF ObjectsInv
  <1> QED
    BY <1>1, <1>2

LEMMA DisconnectCore ==
    ASSUME NEW h, Core(h), NEW p \in Protocol
    PROVE  /\ Core(Disconnect(h, p)) /\ Keeps(h, Disconnect(h, p))
           /\ Disconnect(h, p).conn[p] # "open" /\ Disconnect(h, p).obj = h.obj
  <1>1. Disconnects(h, p, Disconnect(h, p))
    BY DisconnectEffect DEF Core, ObjectsInv
  <1>2. Disconnect(h, p).obj = h.obj
    BY <1>1 DEF Disconnects
  <1> QED
    BY <1>1, <1>2, DisconnectQueue DEF Core

LEMMA RemoveCore ==
    ASSUME NEW h, Core(h), NEW i \in Protocol
    PROVE  Core(RemoveCreature(h, i)) /\ Keeps(h, RemoveCreature(h, i))
  BY RemoveCreatureEffect, RemoveObjects DEF Core, ObjectsInv

LEMMA LogoutCore ==
    ASSUME NEW h, Core(h), NEW p \in Protocol
    PROVE  Core(Logout(h, p)) /\ Keeps(h, Logout(h, p))
  <1>1. CASE h.player[p] = None
    BY <1>1, KeepsItself DEF Logout
  <1>2. CASE h.player[p] # None
    <2>1. h.player[p] \in Protocol
      BY <1>2 DEF Core, ObjectsInv, SessionState
    <2>2. Core(Disconnect(h, p)) /\ Keeps(h, Disconnect(h, p))
      BY DisconnectCore
    <2>3. /\ Core(RemoveCreature(Disconnect(h, p), h.player[p]))
          /\ Keeps(Disconnect(h, p), RemoveCreature(Disconnect(h, p), h.player[p]))
      BY <2>1, <2>2, RemoveCore
    <2>4. Logout(h, p) = RemoveCreature(Disconnect(h, p), h.player[p])
      BY <1>2 DEF Logout
    <2> QED
      BY <2>2, <2>3, <2>4, KeepsTransitive
  <1> QED
    BY <1>1, <1>2

LEMMA KickCore ==
    ASSUME NEW h, Core(h), NEW i \in Protocol
    PROVE  Core(KickPlayer(h, i)) /\ Keeps(h, KickPlayer(h, i))
  <1>1. h.obj[i].owner \in Protocol \cup {None}
    BY DEF Core, ObjectsInv, SessionState, Object
  <1>2. CASE h.obj[i].owner = None
    BY <1>2, RemoveCore DEF KickPlayer
  <1>3. CASE h.obj[i].owner # None
    BY <1>1, <1>3, LogoutCore DEF KickPlayer
  <1> QED
    BY <1>2, <1>3

LEMMA PingCore ==
    ASSUME NEW h, Core(h), NEW i \in Protocol
    PROVE  Core(PingTimeout(h, i)) /\ Keeps(h, PingTimeout(h, i))
  BY KickCore, KeepsItself DEF PingTimeout

-----------------------------------------------------------------------------
(***************************************************************************)
(* A login.  The task has been taken from the queue; nothing else in the   *)
(* world or in the queue refers to the protocol.                           *)
(***************************************************************************)
LoggedIn(h, p) ==
    h.conn[p] # "new" /\ ~Queued(h, "login", p) /\ ~ReleasedIn(h, p) /\ h.autosend[p] = 0

LEMMA KeepsLoggedIn ==
    ASSUME NEW h, NEW d, Keeps(h, d), NEW p \in Protocol, LoggedIn(h, p)
    PROVE  LoggedIn(d, p)
  BY DEF Keeps, LoggedIn

Creates(h, p, d) ==
    /\ d \in SessionState /\ d.conn = h.conn /\ d.eventConnect = h.eventConnect
    /\ d.tasks = h.tasks /\ d.autosend = h.autosend /\ d.sendAlls = h.sendAlls
    /\ d.toRelease = h.toRelease
    /\ d.player[p] = p /\ \A q \in Protocol \ {p} : d.player[q] = h.player[q] /\ d.obj[q] = h.obj[q]
    /\ d.obj[p].status = "loaded" /\ d.obj[p].refs = 1 /\ d.obj[p].owner = p /\ d.obj[p].inCheck = FALSE

LEMMA NewPlayerEffect ==
    ASSUME NEW h \in SessionState, NEW p \in Protocol
    PROVE  Creates(h, p, NewPlayer(h, p))
  <1>1. ASSUME NEW o \in Object, o.status = "loaded", o.refs = 1, o.owner = p, o.inCheck = FALSE,
               NEW d, d = [h EXCEPT !.player[p] = p, !.obj[p] = o]
        PROVE  Creates(h, p, d)
    <2>1. d \in SessionState
      BY <1>1 DEF SessionState
    <2>2. d.obj = [h.obj EXCEPT ![p] = o] /\ d.player = [h.player EXCEPT ![p] = p]
      BY <1>1 DEF SessionState
    <2> QED
      BY <1>1, <2>1, <2>2 DEF Creates, SessionState
  <1> DEFINE o == [NoObject EXCEPT !.status = "loaded", !.refs = 1, !.owner = p]
  <1>2. o \in Object /\ o.status = "loaded" /\ o.refs = 1 /\ o.owner = p /\ o.inCheck = FALSE
    BY DEF NoObject, Object
  <1>3. NewPlayer(h, p) = [h EXCEPT !.player[p] = p, !.obj[p] = o]
    BY DEF NewPlayer
  <1> HIDE DEF o
  <1> QED
    BY <1>1, <1>2, <1>3

LEMMA CreateCore ==
    ASSUME NEW h, Core(h), NEW p \in Protocol, Fresh(h, p), LoggedIn(h, p), NEW d, Creates(h, p, d)
    PROVE  /\ Core(d) /\ LoggedIn(d, p) /\ Served(d, p)
           /\ \A q \in Protocol : Served(h, q) => Served(d, q)
  <1>0. h \in SessionState /\ d \in SessionState
    BY DEF Core, ObjectsInv, Creates
  <1>1. h.obj[p].owner = None /\ h.toRelease[p] = 0 /\ h.player[p] = None
    <2>1. h.obj[p].refs = 0
      BY DEF Fresh, Core, ObjectsInv, RefsHold
    <2>2. h.toRelease[p] \in Nat
      BY <1>0 DEF SessionState
    <2>3. h.obj[p].refs = One(h.obj[p].owner # None) + One(h.obj[p].status = "placed")
                          + One(h.obj[p].inCheck) + h.toRelease[p]
      BY DEF Core, ObjectsInv, RefsHold
    <2> QED
      BY <2>1, <2>2, <2>3 DEF One, Fresh
  <1>2. OwnersAgree(d)
    BY <1>0, <1>1, GameSessionAssumption DEF OwnersAgree, Core, ObjectsInv, Creates
  <1>3. RefsHold(d)
    <2>1. \A j \in Protocol \ {p} : d.obj[j] = h.obj[j] /\ d.toRelease[j] = h.toRelease[j]
      BY DEF Creates
    <2>2. d.obj[p].refs = One(d.obj[p].owner # None) + One(d.obj[p].status = "placed")
                          + One(d.obj[p].inCheck) + d.toRelease[p]
      BY <1>1, GameSessionAssumption DEF Creates, One
    <2> QED
      BY <2>1, <2>2 DEF RefsHold, Core, ObjectsInv, Creates
  <1>4. OnePlaced(d)
    BY DEF OnePlaced, Core, ObjectsInv, Creates
  <1>5. \A op, q : Queued(d, op, q) <=> Queued(h, op, q)
    BY DEF Queued, Creates
  <1>6. \A q \in Protocol : ReleasedIn(d, q) <=> ReleasedIn(h, q)
    BY <1>5 DEF ReleasedIn, Creates
  <1>7. \A n \in DOMAIN d.tasks : TaskHolds(d, d.tasks[n])
    <2> SUFFICES ASSUME NEW n \in DOMAIN h.tasks
                 PROVE  TaskHolds(d, h.tasks[n])
      BY DEF Creates
    <2>1. h.tasks[n].protocol \in Protocol /\ TaskHolds(h, h.tasks[n])
      BY <1>0, TaskTypes DEF Core, QueueInv
    <2>2. h.tasks[n].op = "login" => h.tasks[n].protocol # p
      BY DEF LoggedIn, Queued
    <2> QED
      BY <2>1, <2>2 DEF TaskHolds, Fresh, Creates
  <1>8. QueueInv(d)
    BY <1>5, <1>6, <1>7 DEF QueueInv, Core, Creates, Fresh, LoggedIn, InOrder, Sending
  <1>9. LoggedIn(d, p) /\ Served(d, p) /\ \A q \in Protocol : Served(h, q) => Served(d, q)
    BY <1>5, <1>6, GameSessionAssumption DEF LoggedIn, Served, Creates
  <1> QED
    BY <1>0, <1>2, <1>3, <1>4, <1>8, <1>9 DEF Core, ObjectsInv

\* The player is put on the map and on the list of creatures to check.
Places(h, i, d) ==
    /\ d \in SessionState /\ d.conn = h.conn /\ d.player = h.player /\ d.eventConnect = h.eventConnect
    /\ d.tasks = h.tasks /\ d.autosend = h.autosend /\ d.sendAlls = h.sendAlls
    /\ d.toRelease = h.toRelease
    /\ \A j \in Protocol \ {i} : d.obj[j] = h.obj[j]
    /\ d.obj[i].status = "placed" /\ d.obj[i].inCheck = TRUE
    /\ d.obj[i].refs = h.obj[i].refs + 2 /\ d.obj[i].owner = h.obj[i].owner

LEMMA PlaceEffect ==
    ASSUME NEW h \in SessionState, NEW i \in Protocol
    PROVE  Places(h, i, PlaceCreature(h, i))
  <1>1. ASSUME NEW a, Counts(h, i, h.obj[i].refs + 1, a), NEW b, Counts(a, i, a.obj[i].refs + 1, b),
               NEW o \in Object, o = [b.obj[i] EXCEPT !.status = "placed", !.inCheck = TRUE, !.check = TRUE],
               NEW d, d = [b EXCEPT !.obj[i] = o]
        PROVE  Places(h, i, d)
    <2>1. b \in SessionState /\ h.obj[i].refs \in Nat
      BY <1>1 DEF Counts, SessionState, Object
    <2>2. d \in SessionState
      BY <1>1, <2>1 DEF SessionState
    <2>3. d.obj = [b.obj EXCEPT ![i] = o]
      BY <1>1, <2>1 DEF SessionState
    <2>4. o.status = "placed" /\ o.inCheck = TRUE /\ o.refs = b.obj[i].refs /\ o.owner = b.obj[i].owner
      BY <1>1, <2>1 DEF SessionState, Object
    <2>5. /\ d.conn = b.conn /\ d.player = b.player /\ d.eventConnect = b.eventConnect
          /\ d.tasks = b.tasks /\ d.autosend = b.autosend /\ d.sendAlls = b.sendAlls
          /\ d.toRelease = b.toRelease
      BY <1>1, <2>1 DEF SessionState
    <2>6. b.obj \in [Protocol -> Object]
      BY <2>1 DEF SessionState
    <2> QED
      BY <1>1, <2>1, <2>2, <2>3, <2>4, <2>5, <2>6 DEF Counts, Places
  <1> DEFINE a == Refs(h, i, 1)
             b == Refs(a, i, 1)
             o == [b.obj[i] EXCEPT !.status = "placed", !.inCheck = TRUE, !.check = TRUE]
  <1>2. h.obj[i].refs + 1 \in Nat
    BY DEF SessionState, Object
  <1>3. Counts(h, i, h.obj[i].refs + 1, a)
    BY <1>2, RefsEffect
  <1>4. a \in SessionState /\ a.obj[i].refs + 1 \in Nat
    BY <1>2, <1>3 DEF Counts
  <1> HIDE DEF a
  <1>5. Counts(a, i, a.obj[i].refs + 1, b)
    BY <1>4, RefsEffect
  <1>6. b \in SessionState
    BY <1>5 DEF Counts
  <1>7. PlaceCreature(h, i)
          = [b EXCEPT !.obj[i].status = "placed", !.obj[i].inCheck = TRUE, !.obj[i].check = TRUE]
    BY DEF PlaceCreature, a
  <1> HIDE DEF b
  <1>8. o \in Object
    <2>1. b.obj[i] \in Object
      BY <1>6 DEF SessionState
    <2> QED
      BY <2>1, ObjectTypes
  <1>9. [b EXCEPT !.obj[i].status = "placed", !.obj[i].inCheck = TRUE, !.obj[i].check = TRUE]
          = [b EXCEPT !.obj[i] = o]
    BY <1>6 DEF SessionState, Object
  <1> QED
    BY <1>1, <1>3, <1>5, <1>7, <1>8, <1>9

LEMMA PlaceCore ==
    ASSUME NEW h, Core(h), NEW i \in Protocol, h.obj[i].status = "loaded", h.obj[i].inCheck = FALSE,
           \A j \in Protocol : h.obj[j].status # "placed", NEW d, Places(h, i, d)
    PROVE  Core(d) /\ Keeps(h, d)
  <1>0. h \in SessionState /\ d \in SessionState
    BY DEF Core, ObjectsInv, Places
  <1>1. OwnersAgree(d)
    BY DEF Core, ObjectsInv, OwnersAgree, Places
  <1>2. RefsHold(d)
    <2>1. \A j \in Protocol \ {i} : d.obj[j] = h.obj[j] /\ d.toRelease[j] = h.toRelease[j]
      BY DEF Places
    <2>2. /\ d.obj[i].refs = One(d.obj[i].owner # None) + One(d.obj[i].status = "placed")
                             + One(d.obj[i].inCheck) + d.toRelease[i]
          /\ d.obj[i].refs # 0
      <3>1. h.obj[i].refs \in Nat /\ h.toRelease[i] \in Nat
        BY <1>0 DEF SessionState, Object
      <3>2. h.obj[i].refs = One(h.obj[i].owner # None) + h.toRelease[i]
        BY <3>1 DEF Core, ObjectsInv, RefsHold, One
      <3> QED
        BY <3>1, <3>2 DEF Places, One
    <2> QED
      BY <2>1, <2>2 DEF RefsHold, Core, ObjectsInv, Places
  <1>3. OnePlaced(d)
    BY DEF OnePlaced, Places
  <1>4. \A op, q : Queued(d, op, q) <=> Queued(h, op, q)
    BY DEF Queued, Places
  <1>5. Keeps(h, d)
    BY <1>4 DEF Keeps, Places, ReleasedIn
  <1>6. \A n \in DOMAIN d.tasks : TaskHolds(d, d.tasks[n])
    BY <1>0, TaskTypes DEF QueueInv, Places, TaskHolds, Fresh, Core
  <1>7. QueueInv(d)
    BY <1>4, <1>6 DEF QueueInv, Places, Fresh, InOrder, ReleasedIn, Sending, Core
  <1> QED
    BY <1>0, <1>1, <1>2, <1>3, <1>5, <1>7 DEF Core, ObjectsInv

LEMMA AcceptingCore ==
    ASSUME NEW h, Core(h), NEW p \in Protocol
    PROVE  Core(Accepting(h, p)) /\ Keeps(h, Accepting(h, p)) /\ Accepting(h, p).obj = h.obj
  <1>1. ASSUME NEW d, d = [h EXCEPT !.acceptPackets[p] = TRUE]
        PROVE  Core(d) /\ Keeps(h, d) /\ d.obj = h.obj
    <2>0. h \in SessionState
      BY DEF Core, ObjectsInv
    <2>1. d \in SessionState
      BY <1>1, <2>0 DEF SessionState
    <2>2. /\ d.conn = h.conn /\ d.player = h.player /\ d.eventConnect = h.eventConnect
          /\ d.tasks = h.tasks /\ d.autosend = h.autosend /\ d.sendAlls = h.sendAlls
          /\ d.toRelease = h.toRelease /\ d.obj = h.obj
      BY <1>1, <2>0 DEF SessionState
    <2>3. \A op, q : Queued(d, op, q) <=> Queued(h, op, q)
      BY <2>2 DEF Queued
    <2>4. \A n \in DOMAIN d.tasks : TaskHolds(d, d.tasks[n])
      BY <2>2 DEF QueueInv, Core, TaskHolds, Fresh
    <2>5. QueueInv(d)
      BY <2>2, <2>3, <2>4 DEF QueueInv, Core, Fresh, InOrder, ReleasedIn, Sending
    <2>6. ObjectsInv(d)
      BY <2>1, <2>2 DEF ObjectsInv, Core, OwnersAgree, RefsHold, OnePlaced
    <2> QED
      BY <2>2, <2>3, <2>5, <2>6 DEF Core, Keeps, ReleasedIn
  <1> QED
    BY <1>1 DEF Accepting

\* A protocol that has logged in joins the output pool.
LEMMA AutosendCore ==
    ASSUME NEW h, Core(h), NEW p \in Protocol, LoggedIn(h, p)
    PROVE  /\ Core(Autosend(h, p))
           /\ \A q \in Protocol : Served(h, q) => Served(Autosend(h, p), q)
  <1>0. h \in SessionState
    BY DEF Core, ObjectsInv
  <1>1. ASSUME NEW n \in Nat, n = (IF Sending(h) THEN h.sendAlls ELSE h.sendAlls + 1),
               NEW u \in [Protocol -> Nat], u = [h.autosend EXCEPT ![p] = @ + 1],
               NEW d, d = [h EXCEPT !.sendAlls = n, !.autosend = u]
        PROVE  Core(d) /\ \A q \in Protocol : Served(h, q) => Served(d, q)
    <2>1. d \in SessionState
      BY <1>0, <1>1 DEF SessionState
    <2>2. /\ d.conn = h.conn /\ d.player = h.player /\ d.eventConnect = h.eventConnect
          /\ d.tasks = h.tasks /\ d.toRelease = h.toRelease /\ d.obj = h.obj /\ d.sendAlls = n
          /\ d.autosend = u
      BY <1>0, <1>1 DEF SessionState
    <2>3. d.autosend[p] = 1 /\ \A q \in Protocol \ {p} : d.autosend[q] = h.autosend[q]
      BY <1>0, <1>1, <2>2 DEF LoggedIn, SessionState
    <2>4. \A op, q : Queued(d, op, q) <=> Queued(h, op, q)
      BY <2>2 DEF Queued
    <2>5. ASSUME NEW m \in DOMAIN d.tasks
          PROVE  TaskHolds(d, d.tasks[m])
      <3>1. h.tasks[m].protocol \in Protocol /\ TaskHolds(h, h.tasks[m])
        BY <1>0, <2>2, TaskTypes DEF Core, QueueInv
      <3>2. h.tasks[m].op = "login" => h.tasks[m].protocol # p
        BY <2>2 DEF LoggedIn, Queued
      <3> QED
        BY <2>2, <2>3, <3>1, <3>2 DEF TaskHolds, Fresh
    <2>6. n > 0
      BY <1>0, <1>1 DEF Core, QueueInv, SessionState
    <2>7. \A q \in Protocol : /\ ReleasedIn(d, q) <=> ReleasedIn(h, q)
                              /\ d.conn[q] = "new" => q # p /\ Fresh(d, q)
                              /\ d.autosend[q] <= 1
      BY <2>2, <2>3, <2>4 DEF ReleasedIn, Fresh, LoggedIn, Core, QueueInv
    <2>8. QueueInv(d)
      BY <2>2, <2>4, <2>5, <2>6, <2>7 DEF QueueInv, Core, InOrder, Sending
    <2>9. ObjectsInv(d)
      BY <2>1, <2>2 DEF ObjectsInv, Core, OwnersAgree, RefsHold, OnePlaced
    <2>10. \A q \in Protocol : Served(h, q) => Served(d, q)
      BY <2>2, <2>3, <2>4, <2>7 DEF Served, LoggedIn
    <2> QED
      BY <2>8, <2>9, <2>10 DEF Core
  <1> DEFINE n == IF Sending(h) THEN h.sendAlls ELSE h.sendAlls + 1
  <1>2. n \in Nat
    BY <1>0 DEF SessionState
  <1>3. h.autosend \in [Protocol -> Nat]
    BY <1>0 DEF SessionState
  <1>4. Autosend(h, p) = [h EXCEPT !.sendAlls = n, !.autosend = [h.autosend EXCEPT ![p] = @ + 1]]
    BY <1>0 DEF Autosend, Timed, ScheduleSendAll, SessionState
  <1> HIDE DEF n
  <1> QED
    BY <1>1, <1>2, <1>3, <1>4, CountUpdate DEF n

\* A task of p has come from h to d.
Serves(h, p, d) == Core(d) /\ Served(d, p) /\ \A q \in Protocol : Served(h, q) => Served(d, q)

Loads(h, p, k) ==
    /\ k.obj[p].status = "loaded" /\ k.obj[p].inCheck = FALSE
    /\ \A j \in Protocol : k.obj[j].status = "placed" => h.obj[j].status = "placed"

LEMMA NewCore ==
    ASSUME NEW h, Core(h), NEW p \in Protocol, Fresh(h, p), LoggedIn(h, p), NEW k, k = NewPlayer(h, p)
    PROVE  Serves(h, p, k) /\ LoggedIn(k, p) /\ Loads(h, p, k)
  <1>1. Creates(h, p, k)
    BY NewPlayerEffect DEF Core, ObjectsInv
  <1>2. Loads(h, p, k)
    BY <1>1 DEF Creates, Loads
  <1>3. Serves(h, p, k) /\ LoggedIn(k, p)
    BY <1>1, CreateCore DEF Serves
  <1> QED
    BY <1>2, <1>3

LEMMA RefusedCore ==
    ASSUME NEW h, Core(h), NEW p \in Protocol, Fresh(h, p), LoggedIn(h, p)
    PROVE  Serves(h, p, Disconnect(NewPlayer(h, p), p))
  <1> DEFINE k == NewPlayer(h, p)
             d == Disconnect(k, p)
  <1>1. Serves(h, p, k)
    BY NewCore
  <1> HIDE DEF k
  <1>2. Core(d) /\ Keeps(k, d)
    BY <1>1, DisconnectCore DEF Serves
  <1> HIDE DEF d
  <1>3. Serves(h, p, d)
    BY <1>1, <1>2, KeepsServed DEF Serves
  <1> QED
    BY <1>3 DEF d, k

LEMMA EnteredCore ==
    ASSUME NEW h, Core(h), NEW p \in Protocol, Fresh(h, p), LoggedIn(h, p), InWorld(h) = {},
           NEW k, k = PlaceCreature(NewPlayer(h, p), p)
    PROVE  Serves(h, p, k) /\ LoggedIn(k, p)
  <1> DEFINE m == NewPlayer(h, p)
  <1>0. \A j \in Protocol : h.obj[j].status # "placed"
    BY DEF InWorld
  <1>1. /\ Serves(h, p, m) /\ LoggedIn(m, p) /\ m.obj[p].status = "loaded" /\ m.obj[p].inCheck = FALSE
        /\ \A j \in Protocol : m.obj[j].status # "placed"
    <2>1. Serves(h, p, m) /\ LoggedIn(m, p) /\ Loads(h, p, m)
      BY NewCore
    <2> HIDE DEF m
    <2> QED
      BY <1>0, <2>1 DEF Loads
  <1>2. k = PlaceCreature(m, p)
    OBVIOUS
  <1> HIDE DEF m
  <1>3. Places(m, p, k)
    BY <1>1, <1>2, PlaceEffect DEF Serves, Core, ObjectsInv
  <1>4. Core(k) /\ Keeps(m, k)
    BY <1>1, <1>3, PlaceCore DEF Serves
  <1> QED
    BY <1>1, <1>4, KeepsServed, KeepsLoggedIn DEF Serves

\* The end of a login that went well.
LEMMA JoinedCore ==
    ASSUME NEW h, NEW p \in Protocol, NEW k, Serves(h, p, k), LoggedIn(k, p)
    PROVE  Serves(h, p, Autosend(k, p)) /\ Serves(h, p, Autosend(Accepting(k, p), p))
  <1>1. Core(k)
    BY DEF Serves
  <1>2. Serves(h, p, Autosend(k, p))
    BY <1>1, AutosendCore DEF Serves
  <1> DEFINE m == Accepting(k, p)
  <1>3. Core(m) /\ Keeps(k, m)
    BY <1>1, AcceptingCore
  <1> HIDE DEF m
  <1>4. LoggedIn(m, p) /\ Serves(h, p, m)
    BY <1>3, KeepsServed, KeepsLoggedIn DEF Serves
  <1>5. Serves(h, p, Autosend(m, p))
    BY <1>4, AutosendCore DEF Serves
  <1> QED
    BY <1>2, <1>5 DEF m

LEMMA KickedCore ==
    ASSUME NEW h, NEW p \in Protocol, NEW k, Serves(h, p, k), LoggedIn(k, p)
    PROVE  Serves(h, p, KickPlayer(k, p)) /\ LoggedIn(KickPlayer(k, p), p)
  <1>1. Core(KickPlayer(k, p)) /\ Keeps(k, KickPlayer(k, p))
    BY KickCore DEF Serves
  <1> QED
    BY <1>1, KeepsServed, KeepsLoggedIn DEF Serves

-----------------------------------------------------------------------------
(***************************************************************************)
(* A protocol connects to a player that is in the world.                   *)
(***************************************************************************)
NoTask(h, p) == ~Queued(h, "login", p) /\ ~Queued(h, "connect", p)

\* The event of a protocol is set or cleared.
Schedules(h, p, e, d) ==
    /\ d \in SessionState /\ d.conn = h.conn /\ d.player = h.player
    /\ d.tasks = h.tasks /\ d.autosend = h.autosend /\ d.sendAlls = h.sendAlls
    /\ d.toRelease = h.toRelease
    /\ d.eventConnect[p] = e /\ \A q \in Protocol \ {p} : d.eventConnect[q] = h.eventConnect[q]
    /\ \A i \in Protocol : /\ d.obj[i].status = h.obj[i].status /\ d.obj[i].refs = h.obj[i].refs
                           /\ d.obj[i].owner = h.obj[i].owner /\ d.obj[i].inCheck = h.obj[i].inCheck

LEMMA ScheduleCore ==
    ASSUME NEW h, Core(h), NEW p \in Protocol, h.conn[p] # "new", h.player[p] = None, NoTask(h, p),
           NEW e \in Protocol \cup {None}, NEW d, Schedules(h, p, e, d)
    PROVE  /\ Core(d) /\ NoTask(d, p) /\ \A q \in Protocol \ {p} : Served(h, q) => Served(d, q)
           /\ \A q \in Protocol : ReleasedIn(d, q) <=> ReleasedIn(h, q)
           /\ LoggedIn(h, p) => LoggedIn(d, p)
  <1>0. h \in SessionState /\ d \in SessionState
    BY DEF Core, ObjectsInv, Schedules
  <1>1. ObjectsInv(d)
    BY <1>0 DEF ObjectsInv, Core, OwnersAgree, RefsHold, OnePlaced, Schedules
  <1>2. \A op, q : Queued(d, op, q) <=> Queued(h, op, q)
    BY DEF Queued, Schedules
  <1>3. \A q \in Protocol : ReleasedIn(d, q) <=> ReleasedIn(h, q)
    BY <1>2 DEF ReleasedIn, Schedules
  <1>4. ASSUME NEW n \in DOMAIN d.tasks
        PROVE  TaskHolds(d, d.tasks[n])
    <2>0. d.tasks = h.tasks
      BY DEF Schedules
    <2>1. h.tasks[n].protocol \in Protocol /\ TaskHolds(h, h.tasks[n])
      BY <1>0, <2>0, TaskTypes DEF Core, QueueInv
    <2>2. h.tasks[n].op \in {"login", "connect"} => h.tasks[n].protocol # p
      BY <2>0 DEF NoTask, Queued
    <2> QED
      BY <2>0, <2>1, <2>2 DEF TaskHolds, Fresh, Schedules
  <1>5. QueueInv(d)
    BY <1>2, <1>3, <1>4 DEF QueueInv, Core, Fresh, InOrder, Sending, Schedules
  <1>6. \A q \in Protocol \ {p} : Served(h, q) => Served(d, q)
    BY <1>2, <1>3 DEF Served, Schedules
  <1>7. NoTask(d, p) /\ (LoggedIn(h, p) => LoggedIn(d, p))
    BY <1>2, <1>3 DEF NoTask, LoggedIn, Schedules
  <1> QED
    BY <1>1, <1>3, <1>5, <1>6, <1>7 DEF Core

LEMMA CalledEffect ==
    ASSUME NEW h \in SessionState, NEW p \in Protocol
    PROVE  Schedules(h, p, None, [h EXCEPT !.eventConnect[p] = None])
  <1>1. ASSUME NEW d, d = [h EXCEPT !.eventConnect[p] = None]
        PROVE  Schedules(h, p, None, d)
    <2>1. d \in SessionState
      BY <1>1 DEF SessionState
    <2> QED
      BY <1>1, <2>1 DEF Schedules, SessionState
  <1> QED
    BY <1>1

LEMMA TakesEffect ==
    ASSUME NEW h \in SessionState, NEW p \in Protocol, NEW i \in Protocol
    PROVE  Schedules(h, p, i, [h EXCEPT !.obj[i].isConnecting = TRUE, !.eventConnect[p] = i])
  <1>1. ASSUME NEW o \in Object, o = [h.obj[i] EXCEPT !.isConnecting = TRUE],
               NEW d, d = [h EXCEPT !.obj[i] = o, !.eventConnect[p] = i]
        PROVE  Schedules(h, p, i, d)
    <2>1. d \in SessionState
      BY <1>1 DEF SessionState
    <2>2. d.obj = [h.obj EXCEPT ![i] = o]
      BY <1>1 DEF SessionState
    <2>3. /\ o.status = h.obj[i].status /\ o.refs = h.obj[i].refs /\ o.owner = h.obj[i].owner
          /\ o.inCheck = h.obj[i].inCheck
      BY <1>1 DEF SessionState, Object
    <2>4. \A j \in Protocol : /\ d.obj[j].status = h.obj[j].status /\ d.obj[j].refs = h.obj[j].refs
                              /\ d.obj[j].owner = h.obj[j].owner /\ d.obj[j].inCheck = h.obj[j].inCheck
      BY <2>2, <2>3 DEF SessionState
    <2>5. /\ d.conn = h.conn /\ d.player = h.player /\ d.tasks = h.tasks /\ d.autosend = h.autosend
          /\ d.sendAlls = h.sendAlls /\ d.toRelease = h.toRelease
          /\ d.eventConnect = [h.eventConnect EXCEPT ![p] = i]
      BY <1>1 DEF SessionState
    <2> QED
      BY <2>1, <2>4, <2>5 DEF Schedules, SessionState
  <1>2. h.obj[i] \in Object
    BY DEF SessionState
  <1>3. [h.obj[i] EXCEPT !.isConnecting = TRUE] \in Object
    BY <1>2, ObjectTypes
  <1>4. [h EXCEPT !.obj[i].isConnecting = TRUE, !.eventConnect[p] = i]
          = [h EXCEPT !.obj[i] = [h.obj[i] EXCEPT !.isConnecting = TRUE], !.eventConnect[p] = i]
    BY DEF SessionState
  <1> QED
    BY <1>1, <1>3, <1>4

\* A protocol and a player that nobody plays are linked.
Attaches(h, p, i, d) ==
    /\ d \in SessionState /\ d.conn = h.conn /\ d.eventConnect = h.eventConnect
    /\ d.tasks = h.tasks /\ d.autosend = h.autosend /\ d.sendAlls = h.sendAlls
    /\ d.toRelease = h.toRelease
    /\ d.player[p] = i /\ \A q \in Protocol \ {p} : d.player[q] = h.player[q]
    /\ \A j \in Protocol \ {i} : d.obj[j] = h.obj[j]
    /\ d.obj[i].owner = p /\ d.obj[i].refs = h.obj[i].refs + 1
    /\ d.obj[i].status = h.obj[i].status /\ d.obj[i].inCheck = h.obj[i].inCheck

LEMMA AttachEffect ==
    ASSUME NEW h \in SessionState, NEW p \in Protocol, NEW i \in Protocol
    PROVE  Attaches(h, p, i, Attached(h, p, i))
  <1>1. ASSUME NEW b, Counts(h, i, h.obj[i].refs + 1, b),
               NEW o \in Object, o = [b.obj[i] EXCEPT !.owner = p, !.isConnecting = FALSE],
               NEW d, d = [b EXCEPT !.player[p] = i, !.obj[i] = o]
        PROVE  Attaches(h, p, i, d)
    <2>1. b \in SessionState /\ h.obj[i].refs \in Nat
      BY <1>1 DEF Counts, SessionState, Object
    <2>2. d \in SessionState
      BY <1>1, <2>1 DEF SessionState
    <2>3. d.obj = [b.obj EXCEPT ![i] = o] /\ d.player = [b.player EXCEPT ![p] = i]
      BY <1>1, <2>1 DEF SessionState
    <2>4. /\ o.status = b.obj[i].status /\ o.inCheck = b.obj[i].inCheck /\ o.refs = b.obj[i].refs
          /\ o.owner = p
      BY <1>1, <2>1 DEF SessionState, Object
    <2>5. /\ d.conn = b.conn /\ d.eventConnect = b.eventConnect
          /\ d.tasks = b.tasks /\ d.autosend = b.autosend /\ d.sendAlls = b.sendAlls
          /\ d.toRelease = b.toRelease
      BY <1>1, <2>1 DEF SessionState
    <2>6. b.obj \in [Protocol -> Object] /\ b.player \in [Protocol -> Protocol \cup {None}]
      BY <2>1 DEF SessionState
    <2> QED
      BY <1>1, <2>1, <2>2, <2>3, <2>4, <2>5, <2>6 DEF Counts, Attaches
  <1> DEFINE b == Refs(h, i, 1)
             o == [b.obj[i] EXCEPT !.owner = p, !.isConnecting = FALSE]
  <1>2. h.obj[i].refs + 1 \in Nat
    BY DEF SessionState, Object
  <1>3. Counts(h, i, h.obj[i].refs + 1, b)
    BY <1>2, RefsEffect
  <1>4. b \in SessionState
    BY <1>3 DEF Counts
  <1>5. Attached(h, p, i) = [b EXCEPT !.player[p] = i, !.obj[i].owner = p, !.obj[i].isConnecting = FALSE]
    BY DEF Attached
  <1> HIDE DEF b
  <1>6. b.obj[i] \in Object
    BY <1>4 DEF SessionState
  <1>7. o \in Object
    BY <1>6, ObjectTypes
  <1>8. [b EXCEPT !.player[p] = i, !.obj[i].owner = p, !.obj[i].isConnecting = FALSE]
          = [b EXCEPT !.player[p] = i, !.obj[i] = o]
    BY <1>4, <1>6 DEF SessionState, Object
  <1> QED
    BY <1>1, <1>3, <1>5, <1>7, <1>8

LEMMA AttachCore ==
    ASSUME NEW h, Core(h), NEW p \in Protocol, h.conn[p] # "new", h.player[p] = None, h.eventConnect[p] = None,
           NoTask(h, p), NEW i \in Protocol, h.obj[i].status = "placed", h.obj[i].owner = None,
           NEW d, Attaches(h, p, i, d)
    PROVE  /\ Core(d) /\ d.player[p] # None /\ \A q \in Protocol : Served(h, q) => Served(d, q)
           /\ \A q \in Protocol : ReleasedIn(d, q) <=> ReleasedIn(h, q)
           /\ LoggedIn(h, p) => LoggedIn(d, p)
  <1>0. h \in SessionState /\ d \in SessionState
    BY DEF Core, ObjectsInv, Attaches
  <1>1. OwnersAgree(d)
    <2>1. \A q \in Protocol \ {p} : h.player[q] # i
      BY GameSessionAssumption DEF OwnersAgree, Core, ObjectsInv
    <2>2. \A j \in Protocol \ {i} : h.obj[j].owner # p
      BY GameSessionAssumption DEF OwnersAgree, Core, ObjectsInv
    <2> QED
      BY <2>1, <2>2 DEF OwnersAgree, Core, ObjectsInv, Attaches
  <1>2. RefsHold(d)
    <2>1. \A j \in Protocol \ {i} : d.obj[j] = h.obj[j] /\ d.toRelease[j] = h.toRelease[j]
      BY DEF Attaches
    <2>2. /\ d.obj[i].refs = One(d.obj[i].owner # None) + One(d.obj[i].status = "placed")
                             + One(d.obj[i].inCheck) + d.toRelease[i]
          /\ d.obj[i].refs # 0
      <3>1. h.obj[i].refs \in Nat /\ h.toRelease[i] \in Nat
        BY <1>0 DEF SessionState, Object
      <3>2. h.obj[i].refs = One(h.obj[i].status = "placed") + One(h.obj[i].inCheck) + h.toRelease[i]
        BY <3>1 DEF Core, ObjectsInv, RefsHold, One
      <3> QED
        BY <3>1, <3>2, GameSessionAssumption DEF Attaches, One
    <2> QED
      BY <2>1, <2>2 DEF RefsHold, Core, ObjectsInv, Attaches
  <1>3. OnePlaced(d)
    BY DEF OnePlaced, Attaches, Core, ObjectsInv
  <1>4. \A op, q : Queued(d, op, q) <=> Queued(h, op, q)
    BY DEF Queued, Attaches
  <1>5. \A q \in Protocol : ReleasedIn(d, q) <=> ReleasedIn(h, q)
    BY <1>4 DEF ReleasedIn, Attaches
  <1>6. ASSUME NEW n \in DOMAIN d.tasks
        PROVE  TaskHolds(d, d.tasks[n])
    <2>0. d.tasks = h.tasks
      BY DEF Attaches
    <2>1. h.tasks[n].protocol \in Protocol /\ TaskHolds(h, h.tasks[n])
      BY <1>0, <2>0, TaskTypes DEF Core, QueueInv
    <2>2. h.tasks[n].op \in {"login", "connect"} => h.tasks[n].protocol # p
      BY <2>0 DEF NoTask, Queued
    <2> QED
      BY <2>0, <2>1, <2>2 DEF TaskHolds, Fresh, Attaches
  <1>7. QueueInv(d)
    BY <1>4, <1>5, <1>6 DEF QueueInv, Core, Fresh, InOrder, Sending, Attaches
  <1>8. d.player[p] # None
    BY GameSessionAssumption DEF Attaches
  <1>9. (\A q \in Protocol : Served(h, q) => Served(d, q)) /\ (LoggedIn(h, p) => LoggedIn(d, p))
    BY <1>4, <1>5, <1>8 DEF Served, LoggedIn, Attaches
  <1> QED
    BY <1>0, <1>1, <1>2, <1>3, <1>5, <1>7, <1>8, <1>9 DEF Core, ObjectsInv

LEMMA ConnectCore ==
    ASSUME NEW h, Core(h), NEW p \in Protocol, h.conn[p] # "new", h.player[p] = None,
           NoTask(h, p), NEW i \in Protocol, NEW d, d = Connect(h, p, i)
    PROVE  /\ Core(d) /\ \A q \in Protocol \ {p} : Served(h, q) => Served(d, q)
           /\ ReleasedIn(d, p) => ReleasedIn(h, p)
           /\ d.conn[p] = "open" => d.player[p] # None
           /\ d.autosend = h.autosend
           /\ LoggedIn(h, p) => LoggedIn(d, p)
  <1> DEFINE c == [h EXCEPT !.eventConnect[p] = None]
  <1>0. h \in SessionState
    BY DEF Core, ObjectsInv
  <1>1. Schedules(h, p, None, c)
    BY <1>0, CalledEffect
  <1>2. Connect(h, p, i) = IF Taken(h, i) THEN Disconnect(c, p)
                           ELSE IF Expired(h, p) THEN c ELSE Accepting(Attached(c, p, i), p)
    BY DEF Connect
  <1> HIDE DEF c
  <1>3. /\ Core(c) /\ NoTask(c, p) /\ \A q \in Protocol \ {p} : Served(h, q) => Served(c, q)
        /\ \A q \in Protocol : ReleasedIn(c, q) <=> ReleasedIn(h, q)
        /\ LoggedIn(h, p) => LoggedIn(c, p)
    BY <1>1, ScheduleCore
  <1>4. /\ c.conn = h.conn /\ c.player = h.player /\ c.autosend = h.autosend /\ c.eventConnect[p] = None
        /\ c.obj[i].status = h.obj[i].status /\ c.obj[i].owner = h.obj[i].owner /\ c \in SessionState
    BY <1>1 DEF Schedules
  <1>5. CASE Taken(h, i)
    <2>1. Core(d) /\ Keeps(c, d) /\ d.conn[p] # "open"
      BY <1>2, <1>3, <1>5, DisconnectCore
    <2>2. \A q \in Protocol : Served(c, q) => Served(d, q)
      BY <2>1, KeepsServed
    <2>3. LoggedIn(c, p) => LoggedIn(d, p)
      BY <2>1, KeepsLoggedIn
    <2> QED
      BY <1>3, <1>4, <2>1, <2>2, <2>3 DEF Keeps
  <1>6. CASE ~Taken(h, i) /\ Expired(h, p)
    BY <1>2, <1>3, <1>4, <1>6 DEF Expired
  <1>7. CASE ~Taken(h, i) /\ ~Expired(h, p)
    <2> DEFINE b == Attached(c, p, i)
    <2>1. Attaches(c, p, i, b)
      BY <1>4, AttachEffect
    <2>2. d = Accepting(b, p)
      BY <1>2, <1>7
    <2> HIDE DEF b
    <2>3. /\ Core(b) /\ b.player[p] # None /\ \A q \in Protocol : Served(c, q) => Served(b, q)
          /\ \A q \in Protocol : ReleasedIn(b, q) <=> ReleasedIn(c, q)
          /\ LoggedIn(c, p) => LoggedIn(b, p)
      <3>1. c.conn[p] # "new" /\ c.player[p] = None /\ c.obj[i].status = "placed" /\ c.obj[i].owner = None
        BY <1>4, <1>7 DEF Taken
      <3> QED
        BY <1>3, <1>4, <2>1, <3>1, AttachCore
    <2>4. b.autosend = c.autosend
      BY <2>1 DEF Attaches
    <2>5. Core(d) /\ Keeps(b, d)
      BY <2>2, <2>3, AcceptingCore
    <2>6. \A q \in Protocol : Served(b, q) => Served(d, q)
      BY <2>5, KeepsServed
    <2>7. LoggedIn(b, p) => LoggedIn(d, p)
      BY <2>5, KeepsLoggedIn
    <2>8. d.player[p] # None /\ d.autosend = h.autosend /\ (ReleasedIn(d, p) => ReleasedIn(h, p))
      BY <1>3, <1>4, <2>3, <2>4, <2>5 DEF Keeps
    <2> QED
      BY <1>3, <2>3, <2>5, <2>6, <2>7, <2>8
  <1> QED
    BY <1>5, <1>6, <1>7

\* A login finds the character in the world.
LEMMA FoundCore ==
    ASSUME NEW h, Core(h), NEW p \in Protocol, Fresh(h, p), LoggedIn(h, p), NEW i \in Protocol,
           NEW d, d = IF h.obj[i].owner # None THEN TakesOver(h, p, i) ELSE Connect(h, p, i)
    PROVE  Serves(h, p, d) /\ LoggedIn(d, p)
  <1>0. h \in SessionState /\ h.conn[p] # "new" /\ h.player[p] = None
    BY DEF Core, ObjectsInv, LoggedIn, Fresh
  <1>1. NoTask(h, p)
    BY GameSessionAssumption DEF NoTask, LoggedIn, Queued, Core, QueueInv, TaskHolds, Fresh
  <1>2. CASE h.obj[i].owner = None
    <2>1. /\ Core(d) /\ \A q \in Protocol \ {p} : Served(h, q) => Served(d, q)
          /\ d.conn[p] = "open" => d.player[p] # None
          /\ LoggedIn(d, p)
      BY <1>0, <1>1, <1>2, ConnectCore
    <2> QED
      BY <2>1 DEF Serves, Served, LoggedIn
  <1>3. CASE h.obj[i].owner # None
    <2> DEFINE o == h.obj[i].owner
               k == Disconnect(h, o)
    <2>1. o \in Protocol
      BY <1>0, <1>3 DEF SessionState, Object
    <2> HIDE DEF o
    <2>2. Core(k) /\ Keeps(h, k)
      BY <2>1, DisconnectCore
    <2>3. d = [k EXCEPT !.obj[i].isConnecting = TRUE, !.eventConnect[p] = i]
      BY <1>3 DEF TakesOver, o
    <2> HIDE DEF k
    <2>4. Schedules(k, p, i, d)
      <3>1. k \in SessionState
        BY <2>2 DEF Core, ObjectsInv
      <3>2. Schedules(k, p, i, [k EXCEPT !.obj[i].isConnecting = TRUE, !.eventConnect[p] = i])
        BY <3>1, TakesEffect, Zenon
      <3> QED
        BY <2>3, <3>2, Zenon
    <2>5. LoggedIn(k, p) /\ \A q \in Protocol : Served(h, q) => Served(k, q)
      BY <2>2, KeepsServed, KeepsLoggedIn
    <2>6. k.conn[p] # "new" /\ k.player[p] = None /\ k.eventConnect[p] = None
      BY <1>0, <2>2, <2>5 DEF Keeps, LoggedIn, Fresh
    <2>7. NoTask(k, p)
      BY <2>2, <2>5, <2>6, GameSessionAssumption DEF NoTask, LoggedIn, Queued, Core, QueueInv, TaskHolds
    <2>8. Core(d) /\ LoggedIn(d, p) /\ \A q \in Protocol \ {p} : Served(k, q) => Served(d, q)
      BY <2>2, <2>4, <2>5, <2>6, <2>7, ScheduleCore
    <2>9. d.eventConnect[p] # None
      BY <2>4, GameSessionAssumption DEF Schedules
    <2> QED
      BY <2>5, <2>8, <2>9 DEF Serves, Served, LoggedIn
  <1> QED
    BY <1>2, <1>3

-----------------------------------------------------------------------------
(***************************************************************************)
(* A release: the protocol gives its player back and leaves the pool.      *)
(***************************************************************************)
Detaches(h, p, i, d) ==
    /\ d \in SessionState /\ d.conn = h.conn /\ d.eventConnect = h.eventConnect
    /\ d.tasks = h.tasks /\ d.autosend = h.autosend /\ d.sendAlls = h.sendAlls
    /\ d.toRelease = h.toRelease
    /\ d.player[p] = None /\ \A q \in Protocol \ {p} : d.player[q] = h.player[q]
    /\ \A j \in Protocol \ {i} : d.obj[j] = h.obj[j]
    /\ d.obj[i].owner = (IF h.obj[i].owner = p THEN None ELSE h.obj[i].owner)
    /\ d.obj[i].refs = h.obj[i].refs /\ d.obj[i].status = h.obj[i].status
    /\ d.obj[i].inCheck = h.obj[i].inCheck

LEMMA DetachEffect ==
    ASSUME NEW h \in SessionState, NEW p \in Protocol, h.player[p] # None
    PROVE  Detaches(h, p, h.player[p], Detached(h, p))
  <1>1. ASSUME NEW i \in Protocol, NEW w, w = (IF h.obj[i].owner = p THEN None ELSE h.obj[i].owner),
               NEW o \in Object, o = [h.obj[i] EXCEPT !.owner = w],
               NEW d, d = [h EXCEPT !.player[p] = None, !.obj[i] = o]
        PROVE  Detaches(h, p, i, d)
    <2>1. d \in SessionState
      BY <1>1 DEF SessionState
    <2>2. d.obj = [h.obj EXCEPT ![i] = o] /\ d.player = [h.player EXCEPT ![p] = None]
      BY <1>1 DEF SessionState
    <2>3. /\ o.status = h.obj[i].status /\ o.inCheck = h.obj[i].inCheck /\ o.refs = h.obj[i].refs
          /\ o.owner = w
      BY <1>1 DEF SessionState, Object
    <2>4. /\ d.conn = h.conn /\ d.eventConnect = h.eventConnect /\ d.tasks = h.tasks
          /\ d.autosend = h.autosend /\ d.sendAlls = h.sendAlls /\ d.toRelease = h.toRelease
      BY <1>1 DEF SessionState
    <2>5. d.obj[i] = o /\ \A j \in Protocol \ {i} : d.obj[j] = h.obj[j]
      BY <2>2 DEF SessionState
    <2>6. d.player[p] = None /\ \A q \in Protocol \ {p} : d.player[q] = h.player[q]
      BY <2>2 DEF SessionState
    <2> QED
      BY <1>1, <2>1, <2>3, <2>4, <2>5, <2>6 DEF Detaches
  <1> DEFINE i == h.player[p]
             w == IF h.obj[i].owner = p THEN None ELSE h.obj[i].owner
             o == [h.obj[i] EXCEPT !.owner = w]
  <1>2. i \in Protocol
    BY DEF SessionState
  <1>3. Detached(h, p) = [h EXCEPT !.player[p] = None, !.obj[i].owner = IF @ = p THEN None ELSE @]
    BY DEF Detached
  <1> HIDE DEF i
  <1>4. h.obj[i] \in Object
    BY <1>2 DEF SessionState
  <1>5. w \in Protocol \cup {None}
    BY <1>4 DEF Object
  <1>6. o \in Object
    BY <1>4, <1>5, ObjectTypes
  <1>7. [h EXCEPT !.player[p] = None, !.obj[i].owner = IF @ = p THEN None ELSE @]
          = [h EXCEPT !.player[p] = None, !.obj[i] = o]
    BY <1>2, <1>4 DEF SessionState, Object
  <1>8. Detached(h, p) = [h EXCEPT !.player[p] = None, !.obj[i] = o]
    BY <1>3, <1>7
  <1>9. Detaches(h, p, i, Detached(h, p))
    BY <1>1, <1>2, <1>6, <1>8
  <1> QED
    BY <1>9 DEF i

LEMMA ReleaseCore ==
    ASSUME NEW h, Core(h), NEW p \in Protocol, h.conn[p] \in {"closed", "gone"}, NEW d, d = Released(h, p)
    PROVE  /\ Core(d) /\ d.autosend = h.autosend /\ d.conn = h.conn /\ d.tasks = h.tasks
           /\ \A q \in Protocol \ {p} : Served(h, q) => Served(d, q)
  <1>0. h \in SessionState
    BY DEF Core, ObjectsInv
  <1>1. CASE h.player[p] = None
    BY <1>1 DEF Released
  <1>2. CASE h.player[p] # None
    <2> DEFINE i == h.player[p]
               b == Detached(h, p)
    <2>1. i \in Protocol /\ Detaches(h, p, i, b)
      BY <1>0, <1>2, DetachEffect DEF SessionState
    <2>2. d = Refs(b, i, -1)
      BY <1>2 DEF Released
    <2>3. h.player[p] = i /\ h.obj[i].owner = p
      BY <1>0, <2>1 DEF Core, ObjectsInv, OwnersAgree
    <2> HIDE DEF i, b
    <2>4. h.obj[i].refs \in Nat /\ h.toRelease[i] \in Nat /\ b \in SessionState /\ b.obj[i].refs = h.obj[i].refs
      BY <1>0, <2>1 DEF SessionState, Object, Detaches
    <2>5. h.obj[i].refs = 1 + One(h.obj[i].status = "placed") + One(h.obj[i].inCheck) + h.toRelease[i]
      <3>1. h.obj[i].owner # None
        BY <2>3, GameSessionAssumption
      <3>2. h.obj[i].refs = One(h.obj[i].owner # None) + One(h.obj[i].status = "placed")
                            + One(h.obj[i].inCheck) + h.toRelease[i]
        BY <2>1 DEF Core, ObjectsInv, RefsHold
      <3> QED
        BY <2>4, <3>1, <3>2 DEF One
    <2>6. b.obj[i].refs + (-1) = h.obj[i].refs - 1 /\ h.obj[i].refs - 1 \in Nat
      BY <2>4, <2>5 DEF One
    <2>7. Counts(b, i, h.obj[i].refs - 1, d)
      BY <2>1, <2>2, <2>4, <2>6, RefsEffect
    <2>8. d \in SessionState
      BY <2>7 DEF Counts
    <2>9. OwnersAgree(d)
      <3>1. \A j \in Protocol : d.obj[j].owner = IF j = i THEN None ELSE h.obj[j].owner
        BY <2>1, <2>3, <2>7 DEF Counts, Detaches
      <3>2. \A q \in Protocol : d.player[q] = IF q = p THEN None ELSE h.player[q]
        BY <2>1, <2>7 DEF Counts, Detaches
      <3> QED
        BY <2>1, <2>3, <3>1, <3>2, GameSessionAssumption DEF OwnersAgree, Core, ObjectsInv
    <2>10. RefsHold(d)
      <3>1. \A j \in Protocol \ {i} : d.obj[j] = h.obj[j] /\ d.toRelease[j] = h.toRelease[j]
        BY <2>1, <2>7 DEF Counts, Detaches
      <3>2. /\ d.obj[i].refs = h.obj[i].refs - 1 /\ d.obj[i].owner = None
            /\ d.obj[i].status = IF h.obj[i].refs - 1 = 0 THEN "deleted" ELSE h.obj[i].status
            /\ d.obj[i].inCheck = h.obj[i].inCheck /\ d.toRelease[i] = h.toRelease[i]
        BY <2>1, <2>3, <2>7 DEF Counts, Detaches
      <3>3. h.obj[i].status \notin {"none", "deleted"}
        BY <2>1, <2>4, <2>5 DEF Core, ObjectsInv, RefsHold, One
      <3>4. d.obj[i].refs = One(d.obj[i].owner # None) + One(d.obj[i].status = "placed")
                            + One(d.obj[i].inCheck) + d.toRelease[i]
        BY <2>4, <2>5, <3>2 DEF One
      <3>5. d.obj[i].status \in {"none", "deleted"} <=> d.obj[i].refs = 0
        BY <3>2, <3>3
      <3> QED
        BY <3>1, <3>4, <3>5 DEF RefsHold, Core, ObjectsInv
    <2>11. OnePlaced(d)
      <3>1. \A j \in Protocol : d.obj[j].status = "placed" => h.obj[j].status = "placed"
        BY <2>1, <2>7 DEF Counts, Detaches
      <3> QED
        BY <3>1 DEF OnePlaced, Core, ObjectsInv
    <2>12. /\ d.conn = h.conn /\ d.eventConnect = h.eventConnect /\ d.tasks = h.tasks
           /\ d.autosend = h.autosend /\ d.sendAlls = h.sendAlls
           /\ d.player[p] = None /\ \A q \in Protocol \ {p} : d.player[q] = h.player[q]
      BY <2>1, <2>7 DEF Counts, Detaches
    <2>13. \A q \in Protocol : h.obj[q].status = "none" => d.obj[q].status = "none"
      <3>1. h.obj[i].status # "none"
        BY <2>1, <2>4, <2>5 DEF Core, ObjectsInv, RefsHold, One
      <3> QED
        BY <2>1, <2>7, <3>1 DEF Counts, Detaches
    <2>14. \A op, q : Queued(d, op, q) <=> Queued(h, op, q)
      BY <2>12 DEF Queued
    <2>15. \A q \in Protocol : (ReleasedIn(d, q) <=> ReleasedIn(h, q)) /\ (Fresh(h, q) => Fresh(d, q))
      BY <2>12, <2>13, <2>14 DEF ReleasedIn, Fresh
    <2>16. \A n \in DOMAIN d.tasks : TaskHolds(d, d.tasks[n])
      BY <1>0, <2>12, <2>15, TaskTypes DEF TaskHolds, Core, QueueInv
    <2>17. QueueInv(d)
      BY <2>12, <2>14, <2>15, <2>16 DEF QueueInv, Core, InOrder, Sending
    <2>18. \A q \in Protocol \ {p} : Served(h, q) => Served(d, q)
      BY <2>12, <2>14, <2>15 DEF Served
    <2> QED
      BY <2>8, <2>9, <2>10, <2>11, <2>12, <2>17, <2>18 DEF Core, ObjectsInv
  <1> QED
    BY <1>1, <1>2

LEMMA NoAutosendCore ==
    ASSUME NEW h, Core(h), NEW p \in Protocol, h.conn[p] # "open", NEW d, d = NoAutosend(h, p)
    PROVE  Core(d) /\ Served(d, p) /\ \A q \in Protocol : Served(h, q) => Served(d, q)
  <1>0. h \in SessionState /\ h.autosend[p] \in Nat /\ h.autosend[p] <= 1
    BY DEF Core, ObjectsInv, QueueInv, SessionState
  <1>1. CASE h.autosend[p] = 0
    BY <1>1 DEF NoAutosend, Served
  <1>2. CASE h.autosend[p] # 0
    <2>1. ASSUME NEW e, e = [h EXCEPT !.autosend[p] = @ - 1]
          PROVE  Core(e) /\ Served(e, p) /\ \A q \in Protocol : Served(h, q) => Served(e, q)
      <3>1. h.autosend[p] = 1 /\ h.autosend[p] - 1 = 0
        BY <1>0, <1>2
      <3>2. e = [h EXCEPT !.autosend[p] = 0]
        BY <2>1, <1>0, <3>1 DEF SessionState
      <3>3. e \in SessionState
        BY <1>0, <3>2 DEF SessionState
      <3>4. /\ e.conn = h.conn /\ e.player = h.player /\ e.eventConnect = h.eventConnect
            /\ e.tasks = h.tasks /\ e.toRelease = h.toRelease /\ e.obj = h.obj /\ e.sendAlls = h.sendAlls
            /\ e.autosend = [h.autosend EXCEPT ![p] = 0]
        BY <1>0, <3>2 DEF SessionState
      <3>5. \A q \in Protocol : e.autosend[q] = IF q = p THEN 0 ELSE h.autosend[q]
        BY <1>0, <3>4 DEF SessionState
      <3>6. \A op, q : Queued(e, op, q) <=> Queued(h, op, q)
        BY <3>4 DEF Queued
      <3>7. \A q \in Protocol : (ReleasedIn(e, q) <=> ReleasedIn(h, q)) /\ (Fresh(h, q) => Fresh(e, q))
        BY <3>4, <3>5, <3>6 DEF ReleasedIn, Fresh
      <3>8. \A n \in DOMAIN e.tasks : TaskHolds(e, e.tasks[n])
        BY <1>0, <3>4, <3>7, TaskTypes DEF TaskHolds, Core, QueueInv
      <3>9. (Sending(e) => Sending(h)) /\ \A q \in Protocol : e.autosend[q] <= 1
        BY <3>5 DEF Sending, Core, QueueInv
      <3>10. QueueInv(e)
        BY <3>4, <3>6, <3>7, <3>8, <3>9 DEF QueueInv, Core, InOrder
      <3>11. ObjectsInv(e)
        BY <3>3, <3>4 DEF ObjectsInv, Core, OwnersAgree, RefsHold, OnePlaced
      <3>12. Served(e, p) /\ \A q \in Protocol : Served(h, q) => Served(e, q)
        BY <3>4, <3>5, <3>6, <3>7 DEF Served
      <3> QED
        BY <3>10, <3>11, <3>12 DEF Core
    <2> QED
      BY <1>2, <2>1 DEF NoAutosend
  <1> QED
    BY <1>1, <1>2

-----------------------------------------------------------------------------
(***************************************************************************)
(* A round of checkCreatures: what has left the world leaves the list, and *)
(* the references that wait are given back.                                *)
(***************************************************************************)
SameProtocols(h, d) ==
    /\ d \in SessionState /\ d.conn = h.conn /\ d.player = h.player /\ d.eventConnect = h.eventConnect
    /\ d.tasks = h.tasks /\ d.autosend = h.autosend /\ d.sendAlls = h.sendAlls

LEMMA SameProtocolsCore ==
    ASSUME NEW h, Core(h), NEW d, SameProtocols(h, d), ObjectsInv(d),
           \A i \in Protocol : h.obj[i].status = "none" => d.obj[i].status = "none"
    PROVE  Core(d) /\ \A q \in Protocol : Served(h, q) => Served(d, q)
  <1>0. h \in SessionState
    BY DEF Core, ObjectsInv
  <1>1. \A op, q : Queued(d, op, q) <=> Queued(h, op, q)
    BY DEF Queued, SameProtocols
  <1>2. \A q \in Protocol : (ReleasedIn(d, q) <=> ReleasedIn(h, q)) /\ (Fresh(h, q) => Fresh(d, q))
    BY <1>1 DEF ReleasedIn, Fresh, SameProtocols
  <1>3. \A n \in DOMAIN d.tasks : TaskHolds(d, d.tasks[n])
    BY <1>0, <1>2, TaskTypes DEF TaskHolds, Core, QueueInv, SameProtocols
  <1>4. QueueInv(d)
    BY <1>1, <1>2, <1>3 DEF QueueInv, Core, InOrder, Sending, SameProtocols
  <1>5. \A q \in Protocol : Served(h, q) => Served(d, q)
    BY <1>1, <1>2 DEF Served, SameProtocols
  <1> QED
    BY <1>4, <1>5 DEF Core

Erases(h, dropped, d) ==
    /\ SameProtocols(h, d)
    /\ \A i \in Protocol :
          /\ d.obj[i].status = h.obj[i].status /\ d.obj[i].refs = h.obj[i].refs
          /\ d.obj[i].owner = h.obj[i].owner
          /\ d.obj[i].inCheck = IF i \in dropped THEN FALSE ELSE h.obj[i].inCheck
          /\ d.toRelease[i] = IF i \in dropped THEN h.toRelease[i] + 1 ELSE h.toRelease[i]

LEMMA EraseEffect ==
    ASSUME NEW h \in SessionState, NEW dropped
    PROVE  Erases(h, dropped, Erased(h, dropped))
  <1>1. ASSUME NEW o \in [Protocol -> Object],
               \A i \in Protocol : /\ o[i].status = h.obj[i].status /\ o[i].refs = h.obj[i].refs
                                   /\ o[i].owner = h.obj[i].owner
                                   /\ o[i].inCheck = IF i \in dropped THEN FALSE ELSE h.obj[i].inCheck,
               NEW w \in [Protocol -> Nat],
               \A i \in Protocol : w[i] = IF i \in dropped THEN h.toRelease[i] + 1 ELSE h.toRelease[i],
               NEW d, d = [h EXCEPT !.obj = o, !.toRelease = w]
        PROVE  Erases(h, dropped, d)
    <2>1. d \in SessionState
      BY <1>1 DEF SessionState
    <2>2. /\ d.conn = h.conn /\ d.player = h.player /\ d.eventConnect = h.eventConnect
          /\ d.tasks = h.tasks /\ d.autosend = h.autosend /\ d.sendAlls = h.sendAlls
          /\ d.obj = o /\ d.toRelease = w
      BY <1>1 DEF SessionState
    <2> QED
      BY <1>1, <2>1, <2>2 DEF Erases, SameProtocols
  <1> DEFINE o == [i \in Protocol |-> IF i \in dropped THEN [h.obj[i] EXCEPT !.inCheck = FALSE] ELSE h.obj[i]]
             w == [i \in Protocol |-> IF i \in dropped THEN h.toRelease[i] + 1 ELSE h.toRelease[i]]
  <1>2. \A i \in Protocol : h.obj[i] \in Object /\ h.toRelease[i] \in Nat
    BY DEF SessionState
  <1>3. \A i \in Protocol : LET x == [h.obj[i] EXCEPT !.inCheck = FALSE]
                            IN /\ x \in Object /\ x.status = h.obj[i].status /\ x.refs = h.obj[i].refs
                               /\ x.owner = h.obj[i].owner /\ x.inCheck = FALSE
    BY <1>2 DEF Object
  <1>4. o \in [Protocol -> Object]
    BY <1>2, <1>3
  <1>5. \A i \in Protocol : /\ o[i].status = h.obj[i].status /\ o[i].refs = h.obj[i].refs
                            /\ o[i].owner = h.obj[i].owner
                            /\ o[i].inCheck = IF i \in dropped THEN FALSE ELSE h.obj[i].inCheck
    BY <1>3
  <1>6. w \in [Protocol -> Nat]
    BY <1>2
  <1>7. \A i \in Protocol : w[i] = IF i \in dropped THEN h.toRelease[i] + 1 ELSE h.toRelease[i]
    OBVIOUS
  <1>8. Erased(h, dropped) = [h EXCEPT !.obj = o, !.toRelease = w]
    BY DEF Erased
  <1> HIDE DEF o, w
  <1> QED
    BY <1>1, <1>4, <1>5, <1>6, <1>7, <1>8

LEMMA EraseObjects ==
    ASSUME NEW h, ObjectsInv(h), NEW dropped, \A i \in Protocol : i \in dropped => h.obj[i].inCheck,
           NEW d, Erases(h, dropped, d)
    PROVE  ObjectsInv(d)
  <1>1. OwnersAgree(d) /\ OnePlaced(d)
    <2>1. d.player = h.player /\ \A i \in Protocol : /\ d.obj[i].owner = h.obj[i].owner
                                                    /\ d.obj[i].status = h.obj[i].status
      BY DEF Erases, SameProtocols
    <2> QED
      BY <2>1 DEF OwnersAgree, OnePlaced, ObjectsInv
  <1>2. ASSUME NEW i \in Protocol
        PROVE  /\ d.obj[i].refs = One(d.obj[i].owner # None) + One(d.obj[i].status = "placed")
                                  + One(d.obj[i].inCheck) + d.toRelease[i]
               /\ d.obj[i].status \in {"none", "deleted"} <=> d.obj[i].refs = 0
    <2>1. h.toRelease[i] \in Nat /\ h.obj[i].refs \in Nat /\ h.obj[i].inCheck \in BOOLEAN
      BY DEF ObjectsInv, SessionState, Object
    <2>2. CASE i \in dropped
      <3>1. /\ d.obj[i].status = h.obj[i].status /\ d.obj[i].refs = h.obj[i].refs
            /\ d.obj[i].owner = h.obj[i].owner /\ d.obj[i].inCheck = FALSE
            /\ d.toRelease[i] = h.toRelease[i] + 1
        BY <2>2 DEF Erases
      <3>2. h.obj[i].inCheck = TRUE
        BY <2>1, <2>2
      <3>3. /\ h.obj[i].refs = One(h.obj[i].owner # None) + One(h.obj[i].status = "placed") + 1 + h.toRelease[i]
            /\ h.obj[i].status \in {"none", "deleted"} <=> h.obj[i].refs = 0
        BY <3>2 DEF ObjectsInv, RefsHold, One
      <3>4. /\ One(d.obj[i].inCheck) = 0 /\ One(d.obj[i].owner # None) = One(h.obj[i].owner # None)
            /\ One(d.obj[i].status = "placed") = One(h.obj[i].status = "placed")
            /\ One(h.obj[i].owner # None) \in {0, 1} /\ One(h.obj[i].status = "placed") \in {0, 1}
        BY <3>1 DEF One
      <3>5. d.obj[i].refs = One(d.obj[i].owner # None) + One(d.obj[i].status = "placed")
                            + One(d.obj[i].inCheck) + d.toRelease[i]
        BY <2>1, <3>1, <3>3, <3>4
      <3> QED
        BY <3>1, <3>3, <3>5
    <2>3. CASE i \notin dropped
      BY <2>3 DEF Erases, ObjectsInv, RefsHold
    <2> QED
      BY <2>2, <2>3
  <1> QED
    BY <1>1, <1>2 DEF ObjectsInv, RefsHold, Erases, SameProtocols

Cleans(h, d) ==
    /\ SameProtocols(h, d)
    /\ \A i \in Protocol :
          /\ d.obj[i].owner = h.obj[i].owner /\ d.obj[i].inCheck = h.obj[i].inCheck
          /\ d.obj[i].refs = h.obj[i].refs - h.toRelease[i]
          /\ d.obj[i].status = IF h.toRelease[i] # 0 /\ h.obj[i].refs <= h.toRelease[i]
                               THEN "deleted" ELSE h.obj[i].status
          /\ d.toRelease[i] = 0

LEMMA CleanEffect ==
    ASSUME NEW h \in SessionState, \A i \in Protocol : h.obj[i].refs >= h.toRelease[i]
    PROVE  Cleans(h, Cleanup(h))
  <1> DEFINE s(i) == IF h.obj[i].refs <= h.toRelease[i] THEN "deleted" ELSE h.obj[i].status
             o == [i \in Protocol |-> IF h.toRelease[i] = 0 THEN h.obj[i]
                                      ELSE [h.obj[i] EXCEPT !.refs = h.obj[i].refs - h.toRelease[i],
                                                            !.status = s(i)]]
             w == [i \in Protocol |-> 0]
  <1>1. ASSUME NEW f \in [Protocol -> Object],
               \A i \in Protocol : /\ f[i].owner = h.obj[i].owner /\ f[i].inCheck = h.obj[i].inCheck
                                   /\ f[i].refs = h.obj[i].refs - h.toRelease[i]
                                   /\ f[i].status = IF h.toRelease[i] # 0 /\ h.obj[i].refs <= h.toRelease[i]
                                                    THEN "deleted" ELSE h.obj[i].status,
               NEW v \in [Protocol -> Nat], \A i \in Protocol : v[i] = 0,
               NEW d, d = [h EXCEPT !.obj = f, !.toRelease = v]
        PROVE  Cleans(h, d)
    <2>1. d \in SessionState
      BY <1>1 DEF SessionState
    <2>2. /\ d.conn = h.conn /\ d.player = h.player /\ d.eventConnect = h.eventConnect
          /\ d.tasks = h.tasks /\ d.autosend = h.autosend /\ d.sendAlls = h.sendAlls
          /\ d.obj = f /\ d.toRelease = v
      BY <1>1 DEF SessionState
    <2> QED
      BY <1>1, <2>1, <2>2 DEF Cleans, SameProtocols
  <1>2. ASSUME NEW i \in Protocol
        PROVE  /\ o[i] \in Object /\ o[i].owner = h.obj[i].owner /\ o[i].inCheck = h.obj[i].inCheck
               /\ o[i].refs = h.obj[i].refs - h.toRelease[i]
               /\ o[i].status = IF h.toRelease[i] # 0 /\ h.obj[i].refs <= h.toRelease[i]
                                THEN "deleted" ELSE h.obj[i].status
    <2>1. h.obj[i] \in Object /\ h.obj[i].refs \in Nat /\ h.toRelease[i] \in Nat
      BY DEF SessionState, Object
    <2>2. CASE h.toRelease[i] = 0
      <3>1. o[i] = h.obj[i]
        BY <2>2
      <3> QED
        BY <2>1, <2>2, <3>1
    <2>3. CASE h.toRelease[i] # 0
      <3>1. o[i] = [h.obj[i] EXCEPT !.refs = h.obj[i].refs - h.toRelease[i], !.status = s(i)]
        BY <2>3
      <3>2. h.obj[i].refs - h.toRelease[i] \in Nat /\ s(i) \in {"none", "loaded", "placed", "removed", "deleted"}
        BY <2>1 DEF Object
      <3> HIDE DEF o
      <3> QED
        BY <2>1, <2>3, <3>1, <3>2 DEF Object
    <2> QED
      BY <2>2, <2>3
  <1>3. o \in [Protocol -> Object]
    <2>1. \A i \in Protocol : o[i] \in Object
      BY <1>2
    <2> QED
      BY <2>1
  <1>4. w \in [Protocol -> Nat] /\ \A i \in Protocol : w[i] = 0
    OBVIOUS
  <1>5. Cleanup(h) = [h EXCEPT !.obj = o, !.toRelease = w]
    BY DEF Cleanup, SessionState, Object
  <1> HIDE DEF o, w
  <1> QED
    BY <1>1, <1>2, <1>3, <1>4, <1>5

LEMMA CleanObjects ==
    ASSUME NEW h, ObjectsInv(h), NEW d, Cleans(h, d)
    PROVE  ObjectsInv(d)
  <1>1. ASSUME NEW i \in Protocol
        PROVE  /\ d.obj[i].refs = One(d.obj[i].owner # None) + One(d.obj[i].status = "placed")
                                  + One(d.obj[i].inCheck) + d.toRelease[i]
               /\ d.obj[i].status \in {"none", "deleted"} <=> d.obj[i].refs = 0
               /\ d.obj[i].status = "placed" => h.obj[i].status = "placed"
    <2>1. h.toRelease[i] \in Nat /\ h.obj[i].refs \in Nat
      BY DEF ObjectsInv, SessionState, Object
    <2>2. /\ h.obj[i].refs = One(h.obj[i].owner # None) + One(h.obj[i].status = "placed")
                             + One(h.obj[i].inCheck) + h.toRelease[i]
          /\ h.obj[i].status \in {"none", "deleted"} <=> h.obj[i].refs = 0
      BY DEF ObjectsInv, RefsHold
    <2>3. CASE h.toRelease[i] = 0
      BY <2>1, <2>2, <2>3 DEF Cleans
    <2>4. CASE h.toRelease[i] # 0 /\ h.obj[i].refs <= h.toRelease[i]
      BY <2>1, <2>2, <2>4 DEF Cleans, One
    <2>5. CASE h.toRelease[i] # 0 /\ h.obj[i].refs > h.toRelease[i]
      BY <2>1, <2>2, <2>5 DEF Cleans, One
    <2> QED
      BY <2>1, <2>3, <2>4, <2>5
  <1>2. OwnersAgree(d) /\ OnePlaced(d)
    BY <1>1 DEF OwnersAgree, OnePlaced, ObjectsInv, Cleans, SameProtocols
  <1> QED
    BY <1>1, <1>2 DEF ObjectsInv, RefsHold, Cleans, SameProtocols

\* What waits is counted.
LEMMA WaitingCounted ==
    ASSUME NEW h, ObjectsInv(h), NEW i \in Protocol
    PROVE  h.obj[i].refs \in Nat /\ h.toRelease[i] \in Nat /\ h.obj[i].refs >= h.toRelease[i]
  <1>1. h.obj[i].refs \in Nat /\ h.toRelease[i] \in Nat
    BY DEF ObjectsInv, SessionState, Object
  <1>2. h.obj[i].refs = One(h.obj[i].owner # None) + One(h.obj[i].status = "placed")
                        + One(h.obj[i].inCheck) + h.toRelease[i]
    BY DEF ObjectsInv, RefsHold
  <1>3. /\ One(h.obj[i].owner # None) \in {0, 1} /\ One(h.obj[i].status = "placed") \in {0, 1}
        /\ One(h.obj[i].inCheck) \in {0, 1}
    BY DEF One
  <1> QED
    BY <1>1, <1>2, <1>3

LEMMA RoundCore ==
    ASSUME NEW h, Core(h), NEW dropped, \A i \in Protocol : i \in dropped => h.obj[i].inCheck
    PROVE  /\ Core(Cleanup(Erased(h, dropped)))
           /\ \A q \in Protocol : Served(h, q) => Served(Cleanup(Erased(h, dropped)), q)
  <1> DEFINE e == Erased(h, dropped)
             d == Cleanup(e)
  <1>1. Erases(h, dropped, e)
    BY EraseEffect DEF Core, ObjectsInv
  <1> HIDE DEF e
  <1>2. ObjectsInv(e)
    BY <1>1, EraseObjects DEF Core
  <1>3. Core(e) /\ \A q \in Protocol : Served(h, q) => Served(e, q)
    BY <1>1, <1>2, SameProtocolsCore DEF Erases
  <1>4. e \in SessionState /\ \A i \in Protocol : e.obj[i].refs >= e.toRelease[i]
    BY <1>2, WaitingCounted DEF ObjectsInv
  <1>5. Cleans(e, d)
    BY <1>4, CleanEffect
  <1> HIDE DEF d
  <1>6. ObjectsInv(d)
    BY <1>2, <1>5, CleanObjects
  <1>7. \A i \in Protocol : e.obj[i].status = "none" => d.obj[i].status = "none"
    <2>1. \A i \in Protocol : e.obj[i].status = "none" => e.toRelease[i] = 0
      BY <1>2, WaitingCounted DEF ObjectsInv, RefsHold
    <2> QED
      BY <1>5, <2>1 DEF Cleans
  <1>8. Core(d) /\ \A q \in Protocol : Served(e, q) => Served(d, q)
    BY <1>3, <1>5, <1>6, <1>7, SameProtocolsCore DEF Cleans
  <1>9. Core(d) /\ \A q \in Protocol : Served(h, q) => Served(d, q)
    BY <1>3, <1>8
  <1> QED
    BY <1>9 DEF d, e

-----------------------------------------------------------------------------
(***************************************************************************)
(* Tasks come and go.                                                      *)
(***************************************************************************)
Queues(h, t, d) ==
    /\ d \in SessionState /\ d.conn = h.conn /\ d.obj = h.obj /\ d.player = h.player
    /\ d.eventConnect = h.eventConnect /\ d.autosend = h.autosend /\ d.sendAlls = h.sendAlls
    /\ d.toRelease = h.toRelease /\ d.tasks = Append(h.tasks, t)

LEMMA QueueEffect ==
    ASSUME NEW h \in SessionState, NEW t \in Task, NEW d, d = [h EXCEPT !.tasks = Append(@, t)]
    PROVE  Queues(h, t, d)
  <1>1. Append(h.tasks, t) \in Seq(Task)
    BY AppendProperties DEF SessionState
  <1>2. ASSUME NEW q \in Seq(Task), NEW e, e = [h EXCEPT !.tasks = q]
        PROVE  /\ e \in SessionState /\ e.conn = h.conn /\ e.obj = h.obj /\ e.player = h.player
               /\ e.eventConnect = h.eventConnect /\ e.autosend = h.autosend /\ e.sendAlls = h.sendAlls
               /\ e.toRelease = h.toRelease /\ e.tasks = q
    BY <1>2 DEF SessionState
  <1>3. d = [h EXCEPT !.tasks = Append(h.tasks, t)]
    OBVIOUS
  <1> QED
    BY <1>1, <1>2, <1>3 DEF Queues

\* What may be queued: the task holds, and the protocol has no such task yet.
LEMMA QueueCore ==
    ASSUME NEW h, Core(h), NEW t \in Task, TaskHolds(h, t), t.op \in {"connect", "logout"},
           ~Queued(h, t.op, t.protocol), NEW d, Queues(h, t, d)
    PROVE  Core(d) /\ \A q \in Protocol : Served(h, q) => Served(d, q)
  <1>0. h \in SessionState /\ d \in SessionState /\ h.tasks \in Seq(Task) /\ d.tasks = Append(h.tasks, t)
    BY DEF Core, ObjectsInv, Queues, SessionState
  <1>1. ObjectsInv(d)
    BY DEF ObjectsInv, Core, OwnersAgree, RefsHold, OnePlaced, Queues
  <1>2. \A op, q : Queued(d, op, q) <=> Queued(h, op, q) \/ (t.op = op /\ t.protocol = q)
    BY <1>0, QueuedAppend
  <1>3. \A q \in Protocol : /\ Queued(d, "login", q) <=> Queued(h, "login", q)
                            /\ ReleasedIn(d, q) <=> ReleasedIn(h, q)
                            /\ Fresh(h, q) => Fresh(d, q)
    BY <1>2 DEF ReleasedIn, Fresh, Queues
  <1>4. InOrder(d)
    BY <1>0, OrderAppend DEF Core, QueueInv
  <1>5. ASSUME NEW n \in DOMAIN d.tasks
        PROVE  TaskHolds(d, d.tasks[n])
    <2>1. (n \in DOMAIN h.tasks /\ d.tasks[n] = h.tasks[n]) \/ d.tasks[n] = t
      BY <1>0, QueueAppend
    <2>2. TaskHolds(h, d.tasks[n]) /\ d.tasks[n].protocol \in Protocol
      BY <1>0, <2>1, TaskTypes DEF Core, QueueInv, Task
    <2> QED
      BY <1>3, <2>2 DEF TaskHolds, Queues
  <1>6. QueueInv(d)
    BY <1>3, <1>4, <1>5 DEF QueueInv, Core, Sending, Queues
  <1>7. \A q \in Protocol : Served(h, q) => Served(d, q)
    BY <1>3 DEF Served, Queues
  <1> QED
    BY <1>1, <1>6, <1>7 DEF Core

\* The first task leaves the queue.
LEMMA QueueTail ==
    ASSUME NEW s \in Seq(Task), s # <<>>, NEW q, q = Tail(s)
    PROVE  /\ Len(s) \in Nat \ {0} /\ DOMAIN s = 1 .. Len(s) /\ DOMAIN q = 1 .. Len(s) - 1
           /\ \A n \in DOMAIN q : q[n] = s[n + 1]
           /\ Head(s) = s[1] /\ q \in Seq(Task)
  BY HeadTailProperties, LenProperties

Takes(h, d) ==
    /\ d \in SessionState /\ d.conn = h.conn /\ d.obj = h.obj /\ d.player = h.player
    /\ d.eventConnect = h.eventConnect /\ d.autosend = h.autosend /\ d.sendAlls = h.sendAlls
    /\ d.toRelease = h.toRelease /\ d.tasks = Tail(h.tasks)

LEMMA TakeEffect ==
    ASSUME NEW h \in SessionState, h.tasks # <<>>
    PROVE  Takes(h, [h EXCEPT !.tasks = Tail(@)])
  <1>1. Tail(h.tasks) \in Seq(Task)
    BY HeadTailProperties DEF SessionState
  <1>2. ASSUME NEW q \in Seq(Task), NEW e, e = [h EXCEPT !.tasks = q]
        PROVE  /\ e \in SessionState /\ e.conn = h.conn /\ e.obj = h.obj /\ e.player = h.player
               /\ e.eventConnect = h.eventConnect /\ e.autosend = h.autosend /\ e.sendAlls = h.sendAlls
               /\ e.toRelease = h.toRelease /\ e.tasks = q
    BY <1>2 DEF SessionState
  <1>3. [h EXCEPT !.tasks = Tail(@)] = [h EXCEPT !.tasks = Tail(h.tasks)]
    OBVIOUS
  <1> QED
    BY <1>1, <1>2, <1>3 DEF Takes

LEMMA TakeCore ==
    ASSUME NEW h, Core(h), h.tasks # <<>>, NEW t, t = Head(h.tasks), NEW d, Takes(h, d)
    PROVE  /\ Core(d) /\ t \in Task /\ t.protocol \in Protocol /\ TaskHolds(d, t)
           /\ ~Queued(d, t.op, t.protocol) /\ ~Queued(d, "login", t.protocol)
           /\ t.op = "login" => LoggedIn(d, t.protocol)
           /\ \A q \in Protocol : Served(h, q) =>
                Served(d, q) \/ (q = t.protocol /\ t.op \in {"login", "release"})
  <1>0. h \in SessionState /\ d \in SessionState /\ h.tasks \in Seq(Task) /\ d.tasks = Tail(h.tasks)
    BY DEF Core, ObjectsInv, Takes, SessionState
  <1>1. /\ Len(h.tasks) \in Nat \ {0} /\ DOMAIN h.tasks = 1 .. Len(h.tasks)
        /\ DOMAIN d.tasks = 1 .. Len(h.tasks) - 1
        /\ \A n \in DOMAIN d.tasks : d.tasks[n] = h.tasks[n + 1]
        /\ t = h.tasks[1]
    BY <1>0, QueueTail
  <1>2. 1 \in DOMAIN h.tasks /\ \A n \in DOMAIN d.tasks : n + 1 \in DOMAIN h.tasks /\ 1 < n + 1 /\ n \in Nat
    BY <1>1
  <1>3. t \in Task /\ t.protocol \in Protocol /\ TaskHolds(h, t)
    BY <1>0, <1>1, <1>2, TaskTypes DEF Core, QueueInv
  <1>4. \A op, q : Queued(d, op, q) => Queued(h, op, q)
    BY <1>1, <1>2 DEF Queued
  <1>5. ASSUME NEW op, NEW q, Queued(h, op, q), ~(op = t.op /\ q = t.protocol)
        PROVE  Queued(d, op, q)
    <2>1. PICK n \in DOMAIN h.tasks : h.tasks[n].op = op /\ h.tasks[n].protocol = q
      BY <1>5 DEF Queued
    <2>2. n # 1
      BY <1>1, <1>5, <2>1
    <2>3. n - 1 \in DOMAIN d.tasks /\ (n - 1) + 1 = n
      BY <1>1, <2>1, <2>2
    <2> QED
      BY <1>1, <2>1, <2>3 DEF Queued
  <1>6. ~Queued(d, t.op, t.protocol) /\ ~Queued(d, "login", t.protocol)
    <2>1. InOrder(h)
      BY DEF Core, QueueInv
    <2>2. \A n \in DOMAIN d.tasks : d.tasks[n].protocol = t.protocol =>
             d.tasks[n].op # "login" /\ d.tasks[n].op # t.op
      <3> TAKE n \in DOMAIN d.tasks
      <3>1. 1 \in DOMAIN h.tasks /\ n + 1 \in DOMAIN h.tasks /\ 1 < n + 1
        BY <1>2
      <3>2. d.tasks[n] = h.tasks[n + 1] /\ t = h.tasks[1]
        BY <1>1
      <3> QED
        BY <2>1, <3>1, <3>2 DEF InOrder
    <2> QED
      BY <2>2 DEF Queued
  <1>7. InOrder(d)
    <2> SUFFICES ASSUME NEW m \in DOMAIN d.tasks, NEW n \in DOMAIN d.tasks, m < n,
                        d.tasks[m].protocol = d.tasks[n].protocol
                 PROVE  d.tasks[n].op # "login" /\ d.tasks[m].op # d.tasks[n].op
      BY DEF InOrder
    <2>1. m + 1 \in DOMAIN h.tasks /\ n + 1 \in DOMAIN h.tasks /\ m + 1 < n + 1
      BY <1>2
    <2>2. d.tasks[m] = h.tasks[m + 1] /\ d.tasks[n] = h.tasks[n + 1]
      BY <1>1
    <2>3. InOrder(h)
      BY DEF Core, QueueInv
    <2> QED
      BY <2>1, <2>2, <2>3 DEF InOrder
  <1>8. \A s : TaskHolds(h, s) => TaskHolds(d, s)
    BY DEF TaskHolds, Fresh, Takes
  <1>9. \A n \in DOMAIN d.tasks : TaskHolds(d, d.tasks[n])
    BY <1>1, <1>2, <1>8 DEF Core, QueueInv
  <1>10. \A q \in Protocol : ReleasedIn(d, q) => ReleasedIn(h, q) \/ (q = t.protocol /\ t.op = "release")
    BY <1>5 DEF ReleasedIn, Takes
  <1>11. \A q \in Protocol : Queued(d, "login", q) => ~ReleasedIn(d, q)
    BY <1>4, <1>6, <1>10 DEF Core, QueueInv
  <1>12. QueueInv(d)
    BY <1>7, <1>9, <1>11 DEF QueueInv, Core, Fresh, Sending, Takes
  <1>13. ObjectsInv(d)
    BY <1>0 DEF ObjectsInv, Core, OwnersAgree, RefsHold, OnePlaced, Takes
  <1>14. \A q \in Protocol : Served(h, q) =>
                Served(d, q) \/ (q = t.protocol /\ t.op \in {"login", "release"})
    BY <1>5, <1>10 DEF Served, Takes
  <1>15. ASSUME t.op = "login"
         PROVE  LoggedIn(d, t.protocol)
    <2>1. Queued(h, "login", t.protocol)
      BY <1>1, <1>2, <1>15 DEF Queued
    <2>2. ~ReleasedIn(h, t.protocol)
      BY <1>3, <2>1 DEF Core, QueueInv
    <2>3. ~ReleasedIn(d, t.protocol)
      BY <1>3, <1>10, <1>15, <2>2
    <2> QED
      BY <1>3, <1>6, <1>15, <2>3 DEF LoggedIn, TaskHolds, Fresh, Takes
  <1> QED
    BY <1>3, <1>6, <1>8, <1>12, <1>13, <1>14, <1>15 DEF Core

-----------------------------------------------------------------------------
(***************************************************************************)
(* The steps.                                                              *)
(***************************************************************************)
AllServed(h) == Core(h) /\ \A p \in Protocol : Served(h, p)

LEMMA InitInv == SessionInit => SessionInv
  <1> SUFFICES ASSUME SessionInit PROVE AllServed(g)
    BY DEF SessionInv, AllServed
  <1>1. NoObject \in Object
    BY DEF NoObject, Object
  <1>2. <<>> \in Seq(Task) /\ DOMAIN <<>> = {}
    BY EmptySeq, LenProperties
  <1>3. g \in SessionState
    BY <1>1, <1>2 DEF SessionInit, SessionState
  <1>4. /\ \A p \in Protocol : /\ g.conn[p] = "new" /\ g.obj[p] = NoObject /\ g.player[p] = None
                               /\ g.eventConnect[p] = None /\ g.autosend[p] = 0 /\ g.toRelease[p] = 0
        /\ g.tasks = <<>>
    BY DEF SessionInit
  <1>5. ObjectsInv(g)
    BY <1>3, <1>4, GameSessionAssumption DEF ObjectsInv, OwnersAgree, RefsHold, OnePlaced, NoObject, One
  <1>6. \A op, p : ~Queued(g, op, p)
    BY <1>2, <1>4 DEF Queued
  <1>7. QueueInv(g)
    BY <1>2, <1>4, <1>6 DEF QueueInv, Fresh, NoObject, InOrder, Sending
  <1> QED
    BY <1>4, <1>5, <1>7 DEF AllServed, Core, Served, ReleasedIn

LEMMA KeepsAll ==
    ASSUME NEW h, AllServed(h), NEW d, Core(d), Keeps(h, d)
    PROVE  AllServed(d)
  BY KeepsServed DEF AllServed

LEMMA LoginInv ==
    ASSUME NEW h, Core(h), NEW p \in Protocol, Fresh(h, p), LoggedIn(h, p),
           \A q \in Protocol : Served(h, q) \/ q = p, Login(h, p)
    PROVE  AllServed(g')
  <1> SUFFICES Serves(h, p, g')
    BY DEF Serves, AllServed
  <1>1. CASE LoginRefused(h, p)
    BY <1>1, RefusedCore DEF LoginRefused
  <1>2. CASE InWorld(h) = {} /\ (LoginPlaced(h, p) \/ LoginKicked(h, p))
    <2> DEFINE k == PlaceCreature(NewPlayer(h, p), p)
    <2>1. Serves(h, p, k) /\ LoggedIn(k, p)
      BY <1>2, EnteredCore
    <2>2. \/ g' = Autosend(Accepting(k, p), p)
          \/ g' = Autosend(Accepting(KickPlayer(k, p), p), p)
      BY <1>2 DEF LoginPlaced, LoginKicked
    <2> HIDE DEF k
    <2>3. Serves(h, p, KickPlayer(k, p)) /\ LoggedIn(KickPlayer(k, p), p)
      BY <2>1, KickedCore
    <2> QED
      BY <2>1, <2>2, <2>3, JoinedCore
  <1>3. ASSUME NEW i \in InWorld(h), LoginFound(h, p, i)
        PROVE  Serves(h, p, g')
    <2> DEFINE k == IF h.obj[i].owner # None THEN TakesOver(h, p, i) ELSE Connect(h, p, i)
    <2>1. i \in Protocol
      BY DEF InWorld
    <2>2. Serves(h, p, k) /\ LoggedIn(k, p)
      BY <2>1, FoundCore
    <2>3. g' = Autosend(k, p)
      BY <1>3 DEF LoginFound
    <2> HIDE DEF k
    <2> QED
      BY <2>2, <2>3, JoinedCore
  <1> QED
    BY <1>1, <1>2, <1>3 DEF Login

LEMMA RunTaskInv == ASSUME SessionInv, RunTask PROVE AllServed(g')
  <1> DEFINE t == Head(g.tasks)
             p == t.protocol
             h == [g EXCEPT !.tasks = Tail(@)]
  <1>0. Core(g) /\ g \in SessionState /\ g.tasks # <<>> /\ \A q \in Protocol : Served(g, q)
    BY DEF SessionInv, Core, ObjectsInv, RunTask
  <1>1. Takes(g, h)
    BY <1>0, TakeEffect
  <1>2. CASE t.op = "login" /\ Login(h, p)
    <2> HIDE DEF h, t
    <2>1. /\ Core(h) /\ p \in Protocol /\ TaskHolds(h, t) /\ LoggedIn(h, p)
          /\ \A q \in Protocol : Served(h, q) \/ q = p
      BY <1>0, <1>1, <1>2, TakeCore DEF t
    <2>2. Fresh(h, p)
      BY <1>2, <2>1 DEF TaskHolds
    <2> QED
      BY <1>2, <2>1, <2>2, LoginInv
  <1>3. CASE t.op = "connect" /\ g' = Connect(h, p, t.object)
    <2> HIDE DEF h, t
    <2>1. /\ Core(h) /\ t \in Task /\ p \in Protocol /\ TaskHolds(h, t) /\ NoTask(h, p)
          /\ \A q \in Protocol : Served(h, q)
      BY <1>0, <1>1, <1>3, TakeCore DEF t, NoTask
    <2>2. t.object \in Protocol /\ h.conn[p] # "new" /\ h.player[p] = None
      <3>1. t.object # None /\ h.eventConnect[p] = t.object /\ h.conn[p] # "new"
        BY <1>3, <2>1 DEF TaskHolds
      <3>2. t.object \in Protocol
        BY <2>1, <3>1 DEF Task
      <3> QED
        BY <2>1, <3>1, <3>2 DEF Core, QueueInv
    <2>3. /\ Core(g') /\ \A q \in Protocol \ {p} : Served(h, q) => Served(g', q)
          /\ ReleasedIn(g', p) => ReleasedIn(h, p)
          /\ g'.conn[p] = "open" => g'.player[p] # None
          /\ g'.autosend = h.autosend
      BY <1>3, <2>1, <2>2, ConnectCore
    <2> QED
      BY <2>1, <2>3 DEF AllServed, Served
  <1>4. CASE t.op = "logout" /\ LogoutTask(h, p)
    <2> HIDE DEF h, t
    <2>1. Core(h) /\ p \in Protocol /\ \A q \in Protocol : Served(h, q)
      BY <1>0, <1>1, <1>4, TakeCore DEF t
    <2>2. AllServed(h)
      BY <2>1 DEF AllServed
    <2>3. g' = Logout(h, p) \/ g' = h
      BY <1>4 DEF LogoutTask
    <2> QED
      BY <2>1, <2>2, <2>3, LogoutCore, KeepsAll
  <1>5. CASE t.op = "release" /\ g' = NoAutosend(Released(h, p), p)
    <2> HIDE DEF h, t
    <2>1. /\ Core(h) /\ p \in Protocol /\ TaskHolds(h, t)
          /\ \A q \in Protocol \ {p} : Served(h, q)
      BY <1>0, <1>1, <1>5, TakeCore DEF t
    <2>2. h.conn[p] \in {"closed", "gone"}
      BY <1>5, <2>1 DEF TaskHolds
    <2> DEFINE k == Released(h, p)
    <2>3. Core(k) /\ k.conn = h.conn /\ \A q \in Protocol \ {p} : Served(k, q)
      BY <2>1, <2>2, ReleaseCore
    <2> HIDE DEF k
    <2>4. Core(NoAutosend(k, p)) /\ \A q \in Protocol : Served(NoAutosend(k, p), q)
      BY <2>1, <2>2, <2>3, NoAutosendCore
    <2> QED
      BY <1>5, <2>4 DEF AllServed, k
  <1>6. t \in Task
    <2> HIDE DEF h, t
    <2> QED
      BY <1>0, <1>1, TakeCore DEF t
  <1>7. t.op \in {"login", "connect", "logout", "release"}
    BY <1>6 DEF Task
  <1> QED
    BY <1>2, <1>3, <1>4, <1>5, <1>7 DEF RunTask

LEMMA ChecksInv == ASSUME SessionInv, Checks PROVE AllServed(g')
  <1>1. PICK list \in SUBSET Protocol, silent \in Protocol \cup {None} :
           silent \in list \cup {None} /\ CheckCreatures(list, silent)
    BY DEF Checks
  <1> DEFINE dropped == {i \in list : ~ g.obj[i].check}
             k == IF silent = None THEN g ELSE PingTimeout(g, silent)
  <1>2. g' = Cleanup(Erased(k, dropped)) /\ \A i \in list : g.obj[i].inCheck
    BY <1>1 DEF CheckCreatures
  <1>3. AllServed(k) /\ \A i \in Protocol : g.obj[i].inCheck => k.obj[i].inCheck
    <2>1. CASE silent = None
      BY <2>1 DEF SessionInv, AllServed
    <2>2. CASE silent # None
      <3>1. silent \in Protocol /\ AllServed(g)
        BY <2>2 DEF SessionInv, AllServed
      <3>2. Core(PingTimeout(g, silent)) /\ Keeps(g, PingTimeout(g, silent))
        BY <3>1, PingCore DEF AllServed
      <3>3. k = PingTimeout(g, silent)
        BY <2>2
      <3> HIDE DEF k
      <3> QED
        BY <3>1, <3>2, <3>3, KeepsAll DEF Keeps
    <2> QED
      BY <2>1, <2>2
  <1>4. \A i \in Protocol : i \in dropped => k.obj[i].inCheck
    BY <1>2, <1>3
  <1> HIDE DEF dropped, k
  <1>5. AllServed(Cleanup(Erased(k, dropped)))
    BY <1>3, <1>4, RoundCore DEF AllServed
  <1> QED
    BY <1>2, <1>5

LEMMA SendAllInv == ASSUME SessionInv, SendAll PROVE AllServed(g')
  <1>0. Core(g) /\ g \in SessionState /\ \A q \in Protocol : Served(g, q)
    BY DEF SessionInv, Core, ObjectsInv
  <1> DEFINE n == IF Sending(g) THEN g.sendAlls ELSE g.sendAlls - 1
  <1>1. n \in Nat /\ (Sending(g) => n > 0)
    BY <1>0 DEF SendAll, SessionState
  <1>2. g' = [g EXCEPT !.sendAlls = n]
    <2> DEFINE h == [g EXCEPT !.sendAlls = @ - 1]
    <2>1. Sending(h) <=> Sending(g)
      BY <1>0 DEF Sending, SessionState
    <2>2. g' = IF Sending(h) THEN [h EXCEPT !.sendAlls = @ + 1] ELSE h
      BY DEF SendAll, ScheduleSendAll
    <2>3. [h EXCEPT !.sendAlls = @ + 1] = [g EXCEPT !.sendAlls = g.sendAlls]
      <3>1. h.sendAlls + 1 = g.sendAlls
        BY <1>0 DEF SessionState
      <3>2. [h EXCEPT !.sendAlls = @ + 1] = [g EXCEPT !.sendAlls = h.sendAlls + 1]
        BY <1>0 DEF SessionState
      <3> QED
        BY <3>1, <3>2
    <2> QED
      BY <2>1, <2>2, <2>3
  <1> HIDE DEF n
  <1>3. ASSUME NEW d, d = [g EXCEPT !.sendAlls = n]
        PROVE  AllServed(d)
    <2>1. d \in SessionState
      BY <1>0, <1>1, <1>3 DEF SessionState
    <2>2. /\ d.conn = g.conn /\ d.player = g.player /\ d.eventConnect = g.eventConnect
          /\ d.tasks = g.tasks /\ d.autosend = g.autosend /\ d.sendAlls = n
          /\ d.toRelease = g.toRelease /\ d.obj = g.obj
      BY <1>0, <1>3 DEF SessionState
    <2>3. \A op, q : Queued(d, op, q) <=> Queued(g, op, q)
      BY <2>2 DEF Queued
    <2>4. \A m \in DOMAIN d.tasks : TaskHolds(d, d.tasks[m])
      BY <1>0, <2>2 DEF QueueInv, Core, TaskHolds, Fresh
    <2>5. QueueInv(d)
      BY <1>0, <1>1, <2>2, <2>3, <2>4 DEF QueueInv, Core, Fresh, InOrder, ReleasedIn, Sending
    <2>6. ObjectsInv(d)
      BY <1>0, <2>1, <2>2 DEF ObjectsInv, Core, OwnersAgree, RefsHold, OnePlaced
    <2>7. \A q \in Protocol : Served(d, q)
      BY <1>0, <2>2, <2>3 DEF Served, ReleasedIn
    <2> QED
      BY <2>5, <2>6, <2>7 DEF AllServed, Core
  <1> QED
    BY <1>2, <1>3

\* A client connects: its login is the first task of its protocol.
LEMMA FirstMessageInv == ASSUME SessionInv, NEW p \in Protocol, OnRecvFirstMessage(p) PROVE AllServed(g')
  <1> DEFINE t == ATask("login", p, None)
  <1>0. /\ Core(g) /\ g \in SessionState /\ g.tasks \in Seq(Task) /\ \A q \in Protocol : Served(g, q)
        /\ g.conn[p] = "new"
    BY DEF SessionInv, Core, ObjectsInv, OnRecvFirstMessage, SessionState
  <1>1. t \in Task /\ t.op = "login" /\ t.protocol = p /\ t.object = None
    BY ATaskType
  <1>2. Append(g.tasks, t) \in Seq(Task) /\ g' = [g EXCEPT !.conn[p] = "open", !.tasks = Append(g.tasks, t)]
    BY <1>0, <1>1, AppendProperties DEF OnRecvFirstMessage
  <1> HIDE DEF t
  <1>3. ASSUME NEW s \in Seq(Task), s = Append(g.tasks, t),
               NEW d, d = [g EXCEPT !.conn[p] = "open", !.tasks = s]
        PROVE  AllServed(d)
    <2>1. d \in SessionState
      BY <1>0, <1>3 DEF SessionState
    <2>2. /\ d.player = g.player /\ d.eventConnect = g.eventConnect /\ d.autosend = g.autosend
          /\ d.sendAlls = g.sendAlls /\ d.toRelease = g.toRelease /\ d.obj = g.obj
          /\ d.tasks = Append(g.tasks, t) /\ d.conn = [g.conn EXCEPT ![p] = "open"]
      BY <1>0, <1>3 DEF SessionState
    <2>3. d.conn[p] = "open" /\ \A q \in Protocol \ {p} : d.conn[q] = g.conn[q]
      BY <1>0, <2>2 DEF SessionState
    <2>4. \A op, q : Queued(d, op, q) <=> Queued(g, op, q) \/ (t.op = op /\ t.protocol = q)
      BY <1>0, <1>1, <2>2, QueuedAppend
    <2>5. Fresh(g, p) /\ \A n \in DOMAIN g.tasks : g.tasks[n].protocol # p
      BY <1>0 DEF Core, QueueInv, TaskHolds
    <2>6. InOrder(d)
      <3>1. ~Queued(g, t.op, t.protocol)
        BY <1>1, <2>5 DEF Queued
      <3> QED
        BY <1>0, <1>1, <2>2, <2>5, <3>1, OrderAppend DEF Core, QueueInv
    <2>7. \A q \in Protocol : /\ Fresh(g, q) => Fresh(d, q)
                              /\ ReleasedIn(d, q) => q # p /\ ReleasedIn(g, q)
                              /\ Queued(d, "login", q) <=> Queued(g, "login", q) \/ q = p
      BY <1>1, <2>2, <2>3, <2>4 DEF Fresh, ReleasedIn
    <2>8. ASSUME NEW n \in DOMAIN d.tasks
          PROVE  TaskHolds(d, d.tasks[n])
      <3>1. (n \in DOMAIN g.tasks /\ d.tasks[n] = g.tasks[n]) \/ d.tasks[n] = t
        BY <1>0, <1>1, <2>2, QueueAppend
      <3>2. CASE n \in DOMAIN g.tasks /\ d.tasks[n] = g.tasks[n]
        <4>1. g.tasks[n].protocol \in Protocol \ {p} /\ TaskHolds(g, g.tasks[n])
          BY <1>0, <2>5, <3>2, TaskTypes DEF Core, QueueInv
        <4> QED
          BY <2>2, <2>3, <2>7, <3>2, <4>1 DEF TaskHolds
      <3>3. CASE d.tasks[n] = t
        BY <1>1, <2>3, <2>5, <2>7, <3>3 DEF TaskHolds
      <3> QED
        BY <3>1, <3>2, <3>3
    <2>9. QueueInv(d)
      BY <1>0, <2>2, <2>3, <2>6, <2>7, <2>8 DEF QueueInv, Core, Sending
    <2>10. ObjectsInv(d)
      BY <1>0, <2>1, <2>2 DEF ObjectsInv, Core, OwnersAgree, RefsHold, OnePlaced
    <2>11. \A q \in Protocol : Served(d, q)
      BY <1>0, <2>2, <2>3, <2>7 DEF Served
    <2> QED
      BY <2>9, <2>10, <2>11 DEF AllServed, Core
  <1> QED
    BY <1>2, <1>3

\* A task that is not in the queue as such is not in it at all.
LEMMA NotQueued ==
    ASSUME NEW h, Core(h), NEW p \in Protocol, NEW op \in {"connect", "logout", "release"}, NEW i \in Protocol \cup {None},
           ATask(op, p, i) \notin ToSet(h.tasks), op = "connect" => i = h.eventConnect[p],
           op # "connect" => i = None
    PROVE  ~Queued(h, op, p)
  <1> SUFFICES ASSUME NEW n \in DOMAIN h.tasks, h.tasks[n].op = op, h.tasks[n].protocol = p
               PROVE  FALSE
    BY DEF Queued
  <1>1. h.tasks[n] \in Task /\ TaskHolds(h, h.tasks[n])
    BY TaskTypes DEF Core, ObjectsInv, QueueInv
  <1>2. h.tasks[n].object = i
    BY <1>1 DEF TaskHolds
  <1>3. h.tasks[n] = ATask(op, p, i)
    BY <1>1, <1>2 DEF Task, ATask
  <1> QED
    BY <1>3 DEF ToSet

LEMMA QueuedTaskInv ==
    ASSUME SessionInv, NEW op \in {"connect", "logout"}, NEW p \in Protocol, NEW i \in Protocol \cup {None},
           ATask(op, p, i) \notin ToSet(g.tasks), TaskHolds(g, ATask(op, p, i)),
           g' = [g EXCEPT !.tasks = Append(@, ATask(op, p, i))]
    PROVE  AllServed(g')
  <1> DEFINE t == ATask(op, p, i)
  <1>1. t \in Task /\ t.op = op /\ t.protocol = p /\ t.object = i
    BY ATaskType
  <1>2. Core(g) /\ g \in SessionState
    BY DEF SessionInv, Core, ObjectsInv
  <1>3. ~Queued(g, op, p)
    BY <1>1, <1>2, NotQueued DEF TaskHolds
  <1>4. Queues(g, t, g')
    BY <1>1, <1>2, QueueEffect
  <1> HIDE DEF t
  <1>5. TaskHolds(g, t)
    BY DEF t
  <1> QED
    BY <1>1, <1>2, <1>3, <1>4, <1>5, QueueCore DEF SessionInv, AllServed

LEMMA ParseLogoutInv == ASSUME SessionInv, NEW p \in Protocol, ParseLogout(p) PROVE AllServed(g')
  <1>1. TaskHolds(g, ATask("logout", p, None))
    BY ATaskType DEF TaskHolds, ParseLogout, TakesPackets
  <1> QED
    BY <1>1, QueuedTaskInv DEF ParseLogout

LEMMA EventConnectInv == ASSUME SessionInv, NEW p \in Protocol, EventConnect(p) PROVE AllServed(g')
  <1>1. g.eventConnect[p] \in Protocol /\ g.eventConnect[p] # None /\ g.conn[p] # "new"
    BY DEF EventConnect, SessionInv, Core, ObjectsInv, QueueInv, SessionState, Fresh
  <1>2. TaskHolds(g, ATask("connect", p, g.eventConnect[p]))
    BY <1>1, ATaskType DEF TaskHolds
  <1> QED
    BY <1>1, <1>2, QueuedTaskInv DEF EventConnect

LEMMA DestroyedInv == ASSUME SessionInv, NEW p \in Protocol, ConnectionDestroyed(p) PROVE AllServed(g')
  <1>0. Core(g) /\ g \in SessionState /\ \A q \in Protocol : Served(g, q)
    BY DEF SessionInv, Core, ObjectsInv
  <1>1. g.conn[p] = "closed" /\ g' = [g EXCEPT !.conn[p] = "gone"]
    BY DEF ConnectionDestroyed
  <1>2. ASSUME NEW d, d = [g EXCEPT !.conn[p] = "gone"]
        PROVE  AllServed(d)
    <2>1. d \in SessionState
      BY <1>0, <1>2 DEF SessionState
    <2>2. /\ d.player = g.player /\ d.eventConnect = g.eventConnect /\ d.autosend = g.autosend
          /\ d.sendAlls = g.sendAlls /\ d.toRelease = g.toRelease /\ d.obj = g.obj /\ d.tasks = g.tasks
          /\ d.conn = [g.conn EXCEPT ![p] = "gone"]
      BY <1>0, <1>2 DEF SessionState
    <2>3. d.conn[p] = "gone" /\ \A q \in Protocol \ {p} : d.conn[q] = g.conn[q]
      BY <1>0, <2>2 DEF SessionState
    <2>4. \A op, q : Queued(d, op, q) <=> Queued(g, op, q)
      BY <2>2 DEF Queued
    <2>5. \A q \in Protocol : /\ d.conn[q] = "new" <=> g.conn[q] = "new"
                              /\ d.conn[q] = "open" <=> g.conn[q] = "open"
                              /\ d.conn[q] \in {"closed", "gone"} <=> g.conn[q] \in {"closed", "gone"}
      BY <1>1, <2>3
    <2>6. \A q \in Protocol : (ReleasedIn(d, q) <=> ReleasedIn(g, q)) /\ (Fresh(d, q) <=> Fresh(g, q))
      BY <2>2, <2>4, <2>5 DEF ReleasedIn, Fresh
    <2>7. \A n \in DOMAIN d.tasks : TaskHolds(d, d.tasks[n])
      BY <1>0, <2>2, <2>5, <2>6, TaskTypes DEF TaskHolds, Core, QueueInv
    <2>8. QueueInv(d)
      BY <1>0, <2>2, <2>4, <2>5, <2>6, <2>7 DEF QueueInv, Core, InOrder, Sending
    <2>9. ObjectsInv(d)
      BY <1>0, <2>1, <2>2 DEF ObjectsInv, Core, OwnersAgree, RefsHold, OnePlaced
    <2>10. \A q \in Protocol : Served(d, q)
      BY <1>0, <2>2, <2>4, <2>5, <2>6 DEF Served
    <2> QED
      BY <2>8, <2>9, <2>10 DEF AllServed, Core
  <1> QED
    BY <1>1, <1>2

LEMMA SessionStepInv == SessionInv /\ [SessionNext]_g => SessionInv'
  <1> SUFFICES ASSUME SessionInv, [SessionNext]_g
               PROVE  AllServed(g')
    BY DEF SessionInv, AllServed
  <1>0. AllServed(g)
    BY DEF SessionInv, AllServed
  <1>1. CASE RunTask
    BY <1>1, RunTaskInv
  <1>2. CASE Checks
    BY <1>2, ChecksInv
  <1>3. CASE SendAll
    BY <1>3, SendAllInv
  <1>4. ASSUME NEW i \in Protocol, Kick(i)
        PROVE  AllServed(g')
    BY <1>0, <1>4, KickCore, KeepsAll DEF Kick, AllServed
  <1>5. ASSUME NEW i \in Protocol, Dies(i)
        PROVE  AllServed(g')
    BY <1>0, <1>5, RemoveCore, KeepsAll DEF Dies, AllServed
  <1>6. ASSUME NEW p \in Protocol, PeerCloses(p)
        PROVE  AllServed(g')
    BY <1>0, <1>6, DisconnectCore, KeepsAll DEF PeerCloses, AllServed
  <1>7. ASSUME NEW p \in Protocol, Client(p) \/ EventConnect(p)
        PROVE  AllServed(g')
    BY <1>6, <1>7, FirstMessageInv, ParseLogoutInv, DestroyedInv, EventConnectInv DEF Client
  <1>8. CASE UNCHANGED g
    BY <1>0, <1>8
  <1> QED
    BY <1>1, <1>2, <1>3, <1>4, <1>5, <1>7, <1>8 DEF SessionNext, World

-----------------------------------------------------------------------------
(***************************************************************************)
(* What the invariant is for.                                              *)
(***************************************************************************)
\* The invariant holds in every state of every behaviour: each handler of
\* ProtocolGame, Game and the output pool keeps it.
THEOREM InvCorrect == SessionSpec => []SessionInv
  BY InitInv, SessionStepInv, PTL DEF SessionSpec

\* Every reachable state of the sessions is well typed, for any number of
\* clients: no counter of references goes below zero.
THEOREM TypeCorrect == SessionSpec => []SessionTypeOK
  <1>1. SessionInv => SessionTypeOK
    BY DEF SessionInv, Core, ObjectsInv, SessionState, SessionTypeOK
  <1> QED
    BY <1>1, InvCorrect, PTL

\* The reference counter of every player object is exact (Creature's
\* incrementReferenceCounter and decrementReferenceCounter are called in
\* pairs): nothing is deleted while something points at it.
THEOREM RefsExactCorrect == SessionSpec => []RefsExact
  <1>1. SessionInv => RefsExact
    <2> SUFFICES ASSUME SessionInv, NEW i \in Protocol
                 PROVE  /\ g.obj[i].refs = Cardinality(Holders(i)) + One(g.obj[i].status = "placed")
                                           + One(g.obj[i].inCheck) + g.toRelease[i]
                        /\ g.obj[i].status \in {"none", "deleted"} <=> g.obj[i].refs = 0
      BY DEF RefsExact
    <2>1. g.obj[i].owner \in Protocol \cup {None} /\ \A p \in Protocol : g.player[p] = i <=> g.obj[i].owner = p
      BY DEF SessionInv, Core, ObjectsInv, OwnersAgree, SessionState, Object
    <2>2. Cardinality(Holders(i)) = One(g.obj[i].owner # None)
      <3>1. CASE g.obj[i].owner = None
        <4>1. Holders(i) = {}
          BY <2>1, <3>1, GameSessionAssumption DEF Holders
        <4> QED
          BY <3>1, <4>1, FS_EmptySet DEF One
      <3>2. CASE g.obj[i].owner # None
        <4>1. Holders(i) = {g.obj[i].owner}
          BY <2>1, <3>2 DEF Holders
        <4> QED
          BY <3>2, <4>1, FS_Singleton DEF One
      <3> QED
        BY <3>1, <3>2
    <2> QED
      BY <2>2 DEF SessionInv, Core, ObjectsInv, RefsHold
  <1> QED
    BY <1>1, InvCorrect, PTL

\* The character is in the world at most once, and the protocol that plays it
\* and its client are the same (ProtocolGame::login and connect).
THEOREM OneInWorldCorrect == SessionSpec => []OneInWorld
  <1>1. SessionInv => OneInWorld
    BY GameSessionAssumption DEF SessionInv, Core, ObjectsInv, OwnersAgree, OnePlaced, OneInWorld, Placed,
       SessionState, Object
  <1> QED
    BY <1>1, InvCorrect, PTL

\* No client that is connected is forgotten, and none that has gone is kept in
\* the output pool (OutputMessagePool, ProtocolGame::connect and release).
THEOREM ClientsAreServedCorrect == SessionSpec => []ClientsAreServed
  <1>1. ASSUME SessionInv
        PROVE  ClientsAreServed
    <2>1. Core(g) /\ \A p \in Protocol : Served(g, p)
      BY <1>1 DEF SessionInv
    <2>2. \A p \in Protocol : IsReleased(p) => ReleasedIn(g, p)
      <3> SUFFICES ASSUME NEW p \in Protocol, IsReleased(p)
                   PROVE  ReleasedIn(g, p)
        OBVIOUS
      <3>1. ~Queued(g, "release", p)
        BY <2>1, NotQueued DEF IsReleased
      <3> QED
        BY <3>1 DEF IsReleased, ReleasedIn
    <2>3. \A p \in Protocol : Queued(g, "login", p) => ATask("login", p, None) \in ToSet(g.tasks)
      <3> SUFFICES ASSUME NEW p \in Protocol, NEW n \in DOMAIN g.tasks,
                          g.tasks[n].op = "login", g.tasks[n].protocol = p
                   PROVE  ATask("login", p, None) \in ToSet(g.tasks)
        BY DEF Queued
      <3>1. g.tasks[n] \in Task /\ g.tasks[n].object = None
        BY <2>1, TaskTypes DEF Core, ObjectsInv, QueueInv, TaskHolds
      <3>2. g.tasks[n] = ATask("login", p, None)
        BY <3>1 DEF Task, ATask
      <3> QED
        BY <3>2 DEF ToSet
    <2>4. AutosendServed
      BY <2>1, <2>2 DEF AutosendServed, Core, QueueInv, Served
    <2>5. NoSilentClient
      BY <2>1, <2>3 DEF NoSilentClient, Served
    <2> QED
      BY <2>4, <2>5 DEF ClientsAreServed
  <1> QED
    BY <1>1, InvCorrect, PTL

-----------------------------------------------------------------------------
(***************************************************************************)
(* The queue in front of the server. What holds of every list is shown of  *)
(* the first n entries: if it failed for some n it would fail for a least  *)
(* one, and what holds before an entry holds after it.                     *)
(***************************************************************************)
LEMMA LeastOf ==
    ASSUME NEW S, S \subseteq Nat, NEW n \in S, NEW R, R = {p \in Nat \X Nat : p[1] < p[2]},
           \A k \in S : ~ (<<k, n>> \in R)
    PROVE  \A k \in S : n <= k
  <1> SUFFICES ASSUME NEW k \in S
               PROVE  n <= k
    OBVIOUS
  <1>1. PICK p \in Nat \X Nat : p = <<k, n>>
    OBVIOUS
  <1>2. p[1] = k /\ p[2] = n
    BY <1>1
  <1>3. p \notin R
    BY <1>1
  <1>4. ~ (k < n)
    BY <1>2, <1>3
  <1> QED
    BY <1>4

LEMMA LeastNat ==
    ASSUME NEW S, S \subseteq Nat, S # {}
    PROVE  \E n \in S : \A k \in S : n <= k
  <1>1. PICK R : R = OpToRel(<, Nat)
    OBVIOUS
  <1>2. IsWellFoundedOn(R, Nat)
    BY <1>1, NatLessThanWellFounded, Zenon
  <1>3. PICK n \in S : \A k \in S : ~ (<<k, n>> \in R)
    BY <1>2, WFMin, Zenon
  <1>4. R = {p \in Nat \X Nat : p[1] < p[2]}
    BY <1>1, Zenon DEF OpToRel
  <1>5. \A k \in S : n <= k
    BY <1>3, <1>4, LeastOf, Zenon
  <1> QED
    BY <1>5, Zenon

(***************************************************************************)
(* What cleanupList leaves of a list.                                      *)
(***************************************************************************)
KeptBy(list, f, n) ==
    [m \in 0 .. n |-> IF m = 0 THEN <<>>
                      ELSE IF Stays(list[m]) THEN Append(f[m - 1], list[m]) ELSE f[m - 1]]

LEMMA KeptExists ==
    ASSUME NEW list, NEW N \in Nat
    PROVE  \E f : f = KeptBy(list, f, N)
  <1> DEFINE Bad == {n \in Nat : ~ \E f : f = KeptBy(list, f, n)}
  <1>1. 0 \notin Bad
    <2>1. PICK f : f = [m \in {0} |-> <<>>]
      OBVIOUS
    <2>2. 0 .. 0 = {0}
      OBVIOUS
    <2>3. f = KeptBy(list, f, 0)
      BY <2>1, <2>2 DEF KeptBy
    <2> QED
      BY <2>3
  <1>2. ASSUME NEW n \in Nat, n \notin Bad
        PROVE  n + 1 \notin Bad
    <2>1. PICK f : f = KeptBy(list, f, n)
      BY <1>2
    <2>2. PICK h : h = KeptBy(list, f, n + 1)
      OBVIOUS
    <2>3. ASSUME NEW m \in 0 .. n + 1, m # 0
          PROVE  h[m - 1] = f[m - 1]
      <3>1. PICK k \in 0 .. n : k = m - 1
        BY <2>3
      <3>2. k \in 0 .. n + 1
        OBVIOUS
      <3>3. h[k] = IF k = 0 THEN <<>> ELSE IF Stays(list[k]) THEN Append(f[k - 1], list[k]) ELSE f[k - 1]
        BY <2>2, <3>2 DEF KeptBy
      <3>4. f[k] = IF k = 0 THEN <<>> ELSE IF Stays(list[k]) THEN Append(f[k - 1], list[k]) ELSE f[k - 1]
        BY <2>1, <3>1 DEF KeptBy
      <3> QED
        BY <3>1, <3>3, <3>4
    <2>4. h = KeptBy(list, h, n + 1)
      BY <2>2, <2>3 DEF KeptBy
    <2> QED
      BY <2>4
  <1>3. Bad = {}
    <2> SUFFICES ASSUME Bad # {}
                 PROVE  FALSE
      OBVIOUS
    <2>1. PICK n \in Bad : \A k \in Bad : n <= k
      <3> HIDE DEF Bad
      <3>1. Bad \subseteq Nat
        BY DEF Bad
      <3> QED
        BY <3>1, LeastNat
    <2>2. n \in Nat /\ n # 0
      BY <1>1
    <2>3. n - 1 \in Nat /\ n - 1 \notin Bad
      <3> HIDE DEF Bad
      <3> QED
        BY <2>1, <2>2
    <2> QED
      <3> HIDE DEF Bad
      <3>1. n - 1 + 1 \notin Bad
        BY <1>2, <2>3
      <3> QED
        BY <2>1, <2>2, <3>1
  <1> QED
    BY <1>3

\* c is what stays of the first n entries of a list, and e says from where.
RestBy(c, list, n, e) ==
    /\ c \in Seq(Wait) /\ e \in [1 .. Len(c) -> 1 .. n]
    /\ \A i \in 1 .. Len(c) : c[i] = list[e[i]] /\ Stays(list[e[i]])
    /\ \A i, j \in 1 .. Len(c) : i < j => e[i] < e[j]
    /\ \A k \in 1 .. n : Stays(list[k]) => \E i \in 1 .. Len(c) : e[i] = k
Rest(c, list, n) == \E e : RestBy(c, list, n, e)

LEMMA RestStarts ==
    ASSUME NEW list
    PROVE  Rest(<<>>, list, 0)
  <1>1. PICK e : e = [i \in 1 .. 0 |-> 0]
    OBVIOUS
  <1>2. RestBy(<<>>, list, 0, e)
    BY <1>1 DEF RestBy
  <1> QED
    BY <1>2 DEF Rest

LEMMA RestGrows ==
    ASSUME NEW list \in Seq(Wait), NEW n \in Nat, n + 1 <= Len(list), NEW c, Rest(c, list, n)
    PROVE  Rest(IF Stays(list[n + 1]) THEN Append(c, list[n + 1]) ELSE c, list, n + 1)
  <1>1. PICK e : RestBy(c, list, n, e)
    BY DEF Rest
  <1>2. c \in Seq(Wait) /\ Len(c) \in Nat /\ n + 1 \in 1 .. Len(list) /\ list[n + 1] \in Wait
    BY <1>1, ElementOfSeq, LenProperties DEF RestBy
  <1>3. CASE Stays(list[n + 1])
    <2>1. PICK d : d = Append(c, list[n + 1])
      OBVIOUS
    <2>2. /\ d \in Seq(Wait) /\ Len(d) = Len(c) + 1 /\ d[Len(c) + 1] = list[n + 1]
          /\ \A i \in 1 .. Len(c) : d[i] = c[i]
      BY <1>2, <2>1, AppendProperties
    <2>3. PICK f : f = [i \in 1 .. Len(c) + 1 |-> IF i = Len(c) + 1 THEN n + 1 ELSE e[i]]
      OBVIOUS
    <2>4. /\ f[Len(c) + 1] = n + 1 /\ \A i \in 1 .. Len(c) : f[i] = e[i] /\ e[i] \in 1 .. n
          /\ f \in [1 .. Len(d) -> 1 .. n + 1]
      BY <1>1, <1>2, <2>2, <2>3 DEF RestBy
    <2>5. \A i \in 1 .. Len(d) : i \in 1 .. Len(c) \/ i = Len(c) + 1
      BY <1>2, <2>2
    <2>6. \A i \in 1 .. Len(d) : d[i] = list[f[i]] /\ Stays(list[f[i]])
      BY <1>1, <1>3, <2>2, <2>4, <2>5 DEF RestBy
    <2>7. ASSUME NEW i \in 1 .. Len(d), NEW j \in 1 .. Len(d), i < j
          PROVE  f[i] < f[j]
      <3>1. i \in 1 .. Len(c)
        BY <1>2, <2>2, <2>7
      <3>2. CASE j \in 1 .. Len(c)
        BY <1>1, <2>4, <2>7, <3>1, <3>2 DEF RestBy
      <3>3. CASE j = Len(c) + 1
        BY <2>4, <3>1, <3>3
      <3> QED
        BY <2>5, <3>2, <3>3
    <2>8. ASSUME NEW k \in 1 .. n + 1, Stays(list[k])
          PROVE  \E i \in 1 .. Len(d) : f[i] = k
      <3>1. CASE k = n + 1
        BY <1>2, <2>2, <2>4, <3>1
      <3>2. CASE k \in 1 .. n
        <4>1. PICK i \in 1 .. Len(c) : e[i] = k
          BY <1>1, <2>8, <3>2 DEF RestBy
        <4> QED
          BY <1>2, <2>2, <2>4, <4>1
      <3> QED
        BY <3>1, <3>2
    <2>9. RestBy(d, list, n + 1, f)
      BY <2>2, <2>4, <2>6, <2>7, <2>8 DEF RestBy
    <2> QED
      BY <1>3, <2>1, <2>9 DEF Rest
  <1>4. CASE ~ Stays(list[n + 1])
    <2>1. \A k \in 1 .. n + 1 : Stays(list[k]) => k \in 1 .. n
      BY <1>4
    <2>2. e \in [1 .. Len(c) -> 1 .. n + 1]
      BY <1>1 DEF RestBy
    <2>3. RestBy(c, list, n + 1, e)
      BY <1>1, <2>1, <2>2 DEF RestBy
    <2> QED
      BY <1>4, <2>3 DEF Rest
  <1> QED
    BY <1>3, <1>4

LEMMA CleanupRest ==
    ASSUME NEW list \in Seq(Wait)
    PROVE  Rest(CleanupList(list), list, Len(list))
  <1>1. Len(list) \in Nat
    BY LenProperties
  <1>2. PICK f : f = CHOOSE kept : kept =
            [m \in 0 .. Len(list) |->
                IF m = 0 THEN <<>>
                ELSE IF Stays(list[m]) THEN Append(kept[m - 1], list[m]) ELSE kept[m - 1]]
    OBVIOUS
  <1>3. CleanupList(list) = f[Len(list)]
    BY <1>2 DEF CleanupList
  <1>4. f = KeptBy(list, f, Len(list))
    <2>1. \E kept : kept = KeptBy(list, kept, Len(list))
      BY <1>1, KeptExists
    <2> QED
      BY <1>2, <2>1 DEF KeptBy
  <1> DEFINE Bad == {n \in 0 .. Len(list) : ~ Rest(f[n], list, n)}
  <1>5. Bad = {}
    <2> SUFFICES ASSUME Bad # {}
                 PROVE  FALSE
      OBVIOUS
    <2>1. PICK n \in Bad : \A k \in Bad : n <= k
      <3> HIDE DEF Bad
      <3>1. Bad \subseteq Nat
        BY <1>1 DEF Bad
      <3> QED
        BY <3>1, LeastNat
    <2>2. n \in 0 .. Len(list) /\ ~ Rest(f[n], list, n)
      OBVIOUS
    <2>3. n # 0
      <3>1. f[0] = <<>>
        BY <1>1, <1>4 DEF KeptBy
      <3> QED
        BY <2>2, <3>1, RestStarts
    <2>4. PICK m \in 0 .. Len(list) : m = n - 1
      BY <1>1, <2>2, <2>3
    <2>5. Rest(f[m], list, m)
      <3>1. m \notin Bad
        <4> HIDE DEF Bad
        <4> QED
          BY <1>1, <2>1, <2>2, <2>4
      <3> QED
        BY <3>1
    <2>6. m + 1 = n /\ m \in Nat /\ n <= Len(list)
      BY <1>1, <2>2, <2>4
    <2>7. Rest(IF Stays(list[n]) THEN Append(f[m], list[n]) ELSE f[m], list, n)
      BY <2>5, <2>6, RestGrows
    <2>8. f[n] = IF Stays(list[n]) THEN Append(f[m], list[n]) ELSE f[m]
      BY <1>4, <2>2, <2>3, <2>4 DEF KeptBy
    <2> QED
      BY <2>2, <2>7, <2>8
  <1>6. Rest(f[Len(list)], list, Len(list))
    BY <1>1, <1>5
  <1> QED
    BY <1>3, <1>6

\* What % is for a positive divisor: the remainder, and there is one.
LEMMA ModDivides ==
    ASSUME NEW a \in Int, NEW m \in Nat \ {0}, NEW r, r = a % m
    PROVE  r \in 0 .. m - 1 /\ \E q \in Int : m * q + r = a
  <1>1. PICK q \in Int : q = a \div m
    OBVIOUS
  <1>2. m \in Int /\ m > 0 /\ r \in Int
    OBVIOUS
  <1>3. m * q + r = a
    BY <1>1, <1>2, SMT
  <1> QED
    BY <1>3

LEMMA ModDiv ==
    ASSUME NEW a \in Int, NEW m \in Nat \ {0}
    PROVE  a % m \in 0 .. m - 1 /\ \E q \in Int : m * q + (a % m) = a
  <1>1. PICK r : r = a % m
    OBVIOUS
  <1>2. r \in 0 .. m - 1
    BY <1>1, ModDivides
  <1>3. \E q \in Int : m * q + r = a
    BY <1>1, ModDivides
  <1> QED
    BY <1>1, <1>2, <1>3, Zenon

LEMMA ModUnique ==
    ASSUME NEW m \in Nat \ {0}, NEW q \in Int, NEW s \in Int, NEW r \in 0 .. m - 1, NEW t \in 0 .. m - 1,
           m * q + r = m * s + t
    PROVE  r = t
  <1>1. m * (q - s) = t - r
    OBVIOUS
  <1>2. q - s \in Int /\ t - r < m /\ t - r > -m
    OBVIOUS
  <1>3. CASE q - s >= 1
    <2>1. m * (q - s) >= m
      BY <1>2, <1>3
    <2> QED
      BY <1>1, <1>2, <2>1
  <1>4. CASE q - s <= -1
    <2>1. m * (q - s) <= -m
      BY <1>2, <1>4
    <2> QED
      BY <1>1, <1>2, <2>1
  <1>5. CASE q - s = 0
    BY <1>1, <1>5
  <1> QED
    BY <1>2, <1>3, <1>4, <1>5

LEMMA ModSame ==
    ASSUME NEW a \in Int, NEW m \in Nat \ {0}, NEW b \in Int, NEW d \in Int, a = b + m * d
    PROVE  a % m = b % m
  <1>1. PICK r : r = a % m
    OBVIOUS
  <1>2. PICK t : t = b % m
    OBVIOUS
  <1>3. r \in 0 .. m - 1 /\ \E q \in Int : m * q + r = a
    BY <1>1, ModDiv, Zenon
  <1>4. t \in 0 .. m - 1 /\ \E q \in Int : m * q + t = b
    BY <1>2, ModDiv, Zenon
  <1>5. PICK q \in Int : m * q + r = a
    BY <1>3
  <1>6. PICK s \in Int : m * s + t = b
    BY <1>4
  <1>7. PICK e \in Int : e = s + d
    OBVIOUS
  <1>8. m * q + r = m * e + t
    <2>1. m * e = m * s + m * d
      BY <1>7
    <2>2. m * s \in Int /\ m * d \in Int /\ m * q \in Int /\ m * e \in Int
      OBVIOUS
    <2> QED
      BY <1>3, <1>4, <1>5, <1>6, <2>1, <2>2
  <1>9. r = t
    BY <1>3, <1>4, <1>8, ModUnique
  <1> QED
    BY <1>1, <1>2, <1>9

LEMMA ModPlus ==
    ASSUME NEW a \in Int, NEW b \in Int, NEW m \in Nat \ {0}
    PROVE  ((a % m) + b) % m = (a + b) % m
  <1>1. PICK r : r = a % m
    OBVIOUS
  <1>2. r \in 0 .. m - 1 /\ \E q \in Int : m * q + r = a
    BY <1>1, ModDiv, Zenon
  <1>3. PICK q \in Int : m * q + r = a
    BY <1>2
  <1>4. PICK x \in Int : x = r + b
    BY <1>2
  <1>5. PICK y \in Int : y = a + b
    OBVIOUS
  <1>6. y = x + m * q
    BY <1>2, <1>3, <1>4, <1>5
  <1>7. y % m = x % m
    BY <1>6, ModSame
  <1> QED
    BY <1>1, <1>4, <1>5, <1>7, Zenon

(***************************************************************************)
(* The places in a list.                                                   *)
(***************************************************************************)
Guids(list) == {list[i].guid : i \in 1 .. Len(list)}
Apart(list) == list \in Seq(Wait) /\ \A i, j \in 1 .. Len(list) : list[i].guid = list[j].guid => i = j

LEMMA ListParts ==
    ASSUME NEW list \in Seq(Wait), NEW p
    PROVE  /\ Len(list) \in Nat /\ DOMAIN list = 1 .. Len(list)
           /\ \A i \in 1 .. Len(list) : list[i] \in Wait /\ list[i].guid \in Player
           /\ Guids(list) \subseteq Player
           /\ InList(p, list) <=> p \in Guids(list)
           /\ p \in Guids(list) => IndexOf(p, list) \in 1 .. Len(list) /\ list[IndexOf(p, list)].guid = p
  <1>1. Len(list) \in Nat /\ DOMAIN list = 1 .. Len(list)
    BY LenProperties
  <1>2. \A i \in 1 .. Len(list) : list[i] \in Wait /\ list[i].guid \in Player
    <2>1. \A i \in 1 .. Len(list) : list[i] \in Wait
      BY ElementOfSeq
    <2>2. \A w \in Wait : w.guid \in Player
      BY DEF Wait
    <2> QED
      BY <2>1, <2>2
  <1>3. InList(p, list) <=> p \in Guids(list)
    BY <1>1 DEF InList, Guids
  <1>4. p \in Guids(list) => IndexOf(p, list) \in 1 .. Len(list) /\ list[IndexOf(p, list)].guid = p
    <2>1. ASSUME p \in Guids(list)
          PROVE  \E i \in DOMAIN list : list[i].guid = p
      BY <1>1, <2>1 DEF Guids
    <2> QED
      BY <1>1, <2>1 DEF IndexOf
  <1> QED
    BY <1>1, <1>2, <1>3, <1>4 DEF Guids

LEMMA FirstNumbers ==
    ASSUME NEW n \in Nat
    PROVE  IsFiniteSet(1 .. n) /\ Cardinality(1 .. n) = n
  <1>1. PICK a \in Int : a = 1
    OBVIOUS
  <1>2. n \in Int
    OBVIOUS
  <1>3. IsFiniteSet(a .. n) /\ Cardinality(a .. n) = IF a > n THEN 0 ELSE n - a + 1
    BY <1>2, FS_Interval
  <1> QED
    BY <1>1, <1>3

LEMMA GuidsCount ==
    ASSUME NEW list, Apart(list)
    PROVE  IsFiniteSet(Guids(list)) /\ Cardinality(Guids(list)) = Len(list)
  <1>1. Len(list) \in Nat
    BY ListParts DEF Apart
  <1>2. PICK f : f = [i \in 1 .. Len(list) |-> list[i].guid]
    OBVIOUS
  <1>3. f \in Bijection(1 .. Len(list), Guids(list))
    <2>1. f \in [1 .. Len(list) -> Guids(list)]
      BY <1>2 DEF Guids
    <2>2. \A i, j \in 1 .. Len(list) : f[i] = f[j] => i = j
      BY <1>2 DEF Apart
    <2>3. \A x \in Guids(list) : \E i \in 1 .. Len(list) : f[i] = x
      BY <1>2 DEF Guids
    <2> QED
      BY <2>1, <2>2, <2>3 DEF Bijection, Injection, IsInjective, Surjection
  <1>4. IsFiniteSet(1 .. Len(list)) /\ Cardinality(1 .. Len(list)) = Len(list)
    BY <1>1, FirstNumbers
  <1> QED
    BY <1>3, <1>4, FS_Bijection DEF ExistsBijection

LEMMA CleanedList ==
    ASSUME NEW list, Apart(list)
    PROVE  Apart(CleanupList(list)) /\ Guids(CleanupList(list)) \subseteq Guids(list)
  <1>1. PICK c : c = CleanupList(list)
    OBVIOUS
  <1>2. PICK e : RestBy(c, list, Len(list), e)
    BY <1>1, CleanupRest DEF Rest, Apart
  <1>3. /\ c \in Seq(Wait) /\ Len(c) \in Nat
        /\ \A i \in 1 .. Len(c) : e[i] \in 1 .. Len(list) /\ c[i] = list[e[i]]
    BY <1>2, LenProperties DEF RestBy
  <1>4. ASSUME NEW i \in 1 .. Len(c), NEW j \in 1 .. Len(c), c[i].guid = c[j].guid
        PROVE  i = j
    <2>1. e[i] \in 1 .. Len(list) /\ e[j] \in 1 .. Len(list) /\ list[e[i]].guid = list[e[j]].guid
      BY <1>3, <1>4
    <2>2. e[i] = e[j]
      BY <2>1 DEF Apart
    <2>3. Len(list) \in Nat
      BY ListParts DEF Apart
    <2>4. ~ (i < j) /\ ~ (j < i)
      BY <1>2, <2>1, <2>2, <2>3 DEF RestBy
    <2> QED
      BY <1>3, <2>4
  <1> QED
    BY <1>1, <1>3, <1>4 DEF Apart, Guids

LEMMA ErasedList ==
    ASSUME NEW list, Apart(list), NEW p
    PROVE  Apart(Unlinked(p, list)) /\ Guids(Unlinked(p, list)) = Guids(list) \ {p}
  <1>1. CASE p \notin Guids(list)
    BY <1>1, ListParts DEF Unlinked, WithoutClient, Apart
  <1>2. CASE p \in Guids(list)
    <2>1. PICK k \in 1 .. Len(list) : k = IndexOf(p, list) /\ list[k].guid = p
      BY <1>2, ListParts DEF Apart
    <2>2. PICK c : c = Unlinked(p, list)
      OBVIOUS
    <2>3. c = SubSeq(list, 1, k - 1) \o SubSeq(list, k + 1, Len(list))
      BY <1>2, <2>1, <2>2, ListParts DEF Unlinked, WithoutClient, RemoveAt, Apart
    <2>4. Len(list) \in Nat /\ list \in Seq(Wait) /\ \A i \in 1 .. Len(list) : list[i] \in Wait
      BY ListParts DEF Apart
    <2>5. PICK s : s = SubSeq(list, 1, k - 1)
      OBVIOUS
    <2>6. PICK t : t = SubSeq(list, k + 1, Len(list))
      OBVIOUS
    <2>7. s \in Seq(Wait) /\ Len(s) = k - 1 /\ \A i \in 1 .. k - 1 : s[i] = list[i]
      BY <2>4, <2>5
    <2>8. t \in Seq(Wait) /\ Len(t) = Len(list) - k /\ \A i \in 1 .. Len(list) - k : t[i] = list[i + k]
      BY <2>4, <2>6
    <2>9. /\ c \in Seq(Wait) /\ Len(c) = Len(list) - 1
          /\ \A i \in 1 .. Len(list) - 1 : c[i] = IF i < k THEN list[i] ELSE list[i + 1]
      <3>1. /\ c \in Seq(Wait) /\ Len(c) = Len(s) + Len(t)
            /\ \A i \in 1 .. Len(s) + Len(t) : c[i] = IF i <= Len(s) THEN s[i] ELSE t[i - Len(s)]
        <4>1. c = s \o t
          BY <2>3, <2>5, <2>6
        <4>2. s \in Seq(Wait) /\ t \in Seq(Wait)
          BY <2>7, <2>8
        <4> QED
          BY <4>1, <4>2, ConcatProperties
      <3>2. Len(s) + Len(t) = Len(list) - 1
        BY <2>4, <2>7, <2>8
      <3>3. ASSUME NEW i \in 1 .. Len(list) - 1
            PROVE  c[i] = IF i < k THEN list[i] ELSE list[i + 1]
        <4>1. CASE i < k
          BY <2>4, <2>7, <3>1, <3>2, <3>3, <4>1
        <4>2. CASE ~ (i < k)
          <5>1. i - Len(s) = i - k + 1 /\ i - k + 1 \in 1 .. Len(list) - k /\ ~ (i <= Len(s))
            BY <2>4, <2>7, <3>3, <4>2
          <5>2. t[i - k + 1] = list[i - k + 1 + k] /\ i - k + 1 + k = i + 1
            BY <2>8, <5>1
          <5> QED
            BY <3>1, <3>2, <4>2, <5>1, <5>2
        <4> QED
          BY <4>1, <4>2
      <3> QED
        BY <3>1, <3>2, <3>3
    <2>10. PICK e : e = [i \in 1 .. Len(list) - 1 |-> IF i < k THEN i ELSE i + 1]
      OBVIOUS
    <2>11. /\ \A i \in 1 .. Len(c) : c[i] = list[e[i]] /\ e[i] \in 1 .. Len(list) /\ e[i] # k
           /\ \A i, j \in 1 .. Len(c) : e[i] = e[j] => i = j
           /\ \A m \in 1 .. Len(list) : m # k => \E i \in 1 .. Len(c) : e[i] = m
      <3>1. \A i \in 1 .. Len(c) : c[i] = list[e[i]] /\ e[i] \in 1 .. Len(list) /\ e[i] # k
        BY <2>4, <2>9, <2>10
      <3>2. \A i, j \in 1 .. Len(c) : e[i] = e[j] => i = j
        BY <2>4, <2>9, <2>10
      <3>3. ASSUME NEW m \in 1 .. Len(list), m # k
            PROVE  \E i \in 1 .. Len(c) : e[i] = m
        <4>1. CASE m < k
          <5>1. m \in 1 .. Len(list) - 1
            BY <2>4, <4>1
          <5> QED
            BY <2>9, <2>10, <4>1, <5>1
        <4>2. CASE m > k
          <5>1. m - 1 \in 1 .. Len(list) - 1 /\ ~ (m - 1 < k)
            BY <2>4, <4>2
          <5>2. e[m - 1] = m
            BY <2>10, <5>1
          <5> QED
            BY <2>9, <5>1, <5>2
        <4> QED
          BY <2>4, <3>3, <4>1, <4>2
      <3> QED
        BY <3>1, <3>2, <3>3
    <2>12. Apart(c)
      <3>1. ASSUME NEW i \in 1 .. Len(c), NEW j \in 1 .. Len(c), c[i].guid = c[j].guid
            PROVE  i = j
        <4>1. e[i] \in 1 .. Len(list) /\ e[j] \in 1 .. Len(list) /\ list[e[i]].guid = list[e[j]].guid
          BY <2>11, <3>1
        <4>2. e[i] = e[j]
          BY <4>1 DEF Apart
        <4> QED
          BY <2>11, <4>2
      <3> QED
        BY <2>9, <3>1 DEF Apart
    <2>13. Guids(c) = Guids(list) \ {p}
      <3>1. ASSUME NEW x \in Guids(c)
            PROVE  x \in Guids(list) \ {p}
        <4>1. PICK i \in 1 .. Len(c) : x = c[i].guid
          BY <3>1 DEF Guids
        <4>2. e[i] \in 1 .. Len(list) /\ x = list[e[i]].guid /\ e[i] # k
          BY <2>11, <4>1
        <4>3. x # p
          BY <2>1, <4>2 DEF Apart
        <4> QED
          BY <4>2, <4>3 DEF Guids
      <3>2. ASSUME NEW x \in Guids(list) \ {p}
            PROVE  x \in Guids(c)
        <4>1. PICK m \in 1 .. Len(list) : x = list[m].guid
          BY <3>2 DEF Guids
        <4>2. m # k
          BY <2>1, <3>2, <4>1
        <4>3. PICK i \in 1 .. Len(c) : e[i] = m
          BY <2>11, <4>2
        <4> QED
          BY <2>11, <4>1, <4>3 DEF Guids
      <3> QED
        BY <3>1, <3>2
    <2> QED
      BY <2>2, <2>12, <2>13
  <1> QED
    BY <1>1, <1>2

LEMMA EntryParts ==
    ASSUME NEW p \in Player, clock \in 0 .. MaxClock
    PROVE  /\ clock + Timeout \in 0 .. MaxClock + Timeout
           /\ [guid |-> p, timeout |-> clock + Timeout] \in Wait
  BY WaitingListAssumption DEF Wait

LEMMA ExtendedList ==
    ASSUME NEW list, Apart(list), NEW p, clock \in 0 .. MaxClock
    PROVE  Apart(Extended(p, list)) /\ Guids(Extended(p, list)) = Guids(list)
  <1>1. PICK c : c = Extended(p, list)
    OBVIOUS
  <1>2. Len(list) \in Nat /\ DOMAIN list = 1 .. Len(list) /\ \A i \in 1 .. Len(list) : list[i] \in Wait
    BY ListParts DEF Apart
  <1>3. clock + Timeout \in 0 .. MaxClock + Timeout
    BY WaitingListAssumption
  <1>4. ASSUME NEW i \in 1 .. Len(list)
        PROVE  c[i] \in Wait /\ c[i].guid = list[i].guid
    BY <1>1, <1>2, <1>3 DEF Extended, Wait
  <1>5. c = [i \in 1 .. Len(list) |-> c[i]]
    BY <1>1, <1>2 DEF Extended
  <1>6. c \in Seq(Wait) /\ Len(c) = Len(list)
    BY <1>2, <1>4, <1>5
  <1> QED
    BY <1>1, <1>4, <1>6 DEF Apart, Guids

LEMMA JoinedList ==
    ASSUME NEW list, Apart(list), NEW p \in Player, p \notin Guids(list), clock \in 0 .. MaxClock
    PROVE  Apart(Joined(list, p)) /\ Guids(Joined(list, p)) = Guids(list) \cup {p}
  <1>1. PICK w \in Wait : w = [guid |-> p, timeout |-> clock + Timeout]
    BY EntryParts
  <1>2. w.guid = p
    BY <1>1
  <1>3. list \in Seq(Wait) /\ Len(list) \in Nat
    BY ListParts DEF Apart
  <1>4. PICK c : c = Joined(list, p)
    OBVIOUS
  <1>5. /\ c \in Seq(Wait) /\ Len(c) = Len(list) + 1 /\ c[Len(list) + 1] = w
        /\ \A i \in 1 .. Len(list) : c[i] = list[i]
    BY <1>1, <1>3, <1>4 DEF Joined, Entry
  <1>6. \A i \in 1 .. Len(c) : i \in 1 .. Len(list) \/ i = Len(list) + 1
    BY <1>3, <1>5
  <1>7. \A i \in 1 .. Len(list) : c[i].guid \in Guids(list) /\ c[i].guid # p
    BY <1>5 DEF Guids
  <1>8. Apart(c)
    BY <1>2, <1>5, <1>6, <1>7 DEF Apart
  <1>9. Guids(c) = Guids(list) \cup {p}
    <2>1. p \in Guids(c)
      <3>1. Len(list) + 1 \in 1 .. Len(c)
        BY <1>3, <1>5
      <3> QED
        BY <1>2, <1>5, <3>1 DEF Guids
    <2>2. Guids(list) \subseteq Guids(c)
      BY <1>3, <1>5 DEF Guids
    <2>3. Guids(c) \subseteq Guids(list) \cup {p}
      BY <1>2, <1>5, <1>6, <1>7 DEF Guids
    <2> QED
      BY <2>1, <2>2, <2>3
  <1> QED
    BY <1>4, <1>8, <1>9

(***************************************************************************)
(* Both lists, and their sizes.                                            *)
(***************************************************************************)
PlacedIn(prio, wait) == Guids(prio) \cup Guids(wait)
PlacesFit(prio, wait, on) ==
    /\ Apart(prio) /\ Apart(wait) /\ Guids(prio) \cap Guids(wait) = {}
    /\ on \subseteq Player /\ (on \cup AlwaysLogin) \cap PlacedIn(prio, wait) = {}
SizesFit(first, second, n) ==
    /\ first \in 0 .. SizeModulus - 1 /\ second \in 0 .. SizeModulus - 1
    /\ (first + second) % SizeModulus = n
ListsFit(prio, wait, on, first, second) ==
    PlacesFit(prio, wait, on) /\ SizesFit(first, second, Len(prio) + Len(wait))

LEMMA PlacesBound ==
    ASSUME NEW prio, NEW wait, NEW on, PlacesFit(prio, wait, on)
    PROVE  /\ Len(prio) \in Nat /\ Len(wait) \in Nat
           /\ Len(prio) + Len(wait) = Cardinality(PlacedIn(prio, wait))
           /\ Len(prio) + Len(wait) \in 0 .. SizeModulus - 1
  <1>1. /\ Apart(prio) /\ Apart(wait) /\ Len(prio) \in Nat /\ Len(wait) \in Nat
        /\ Guids(prio) \subseteq Player /\ Guids(wait) \subseteq Player
    BY ListParts DEF PlacesFit, Apart
  <1>2. /\ IsFiniteSet(Guids(prio)) /\ Cardinality(Guids(prio)) = Len(prio)
        /\ IsFiniteSet(Guids(wait)) /\ Cardinality(Guids(wait)) = Len(wait)
    BY <1>1, GuidsCount
  <1>3. PICK both : both = PlacedIn(prio, wait)
    OBVIOUS
  <1>4. Cardinality(both) = Len(prio) + Len(wait)
    <2>1. Guids(prio) \cap Guids(wait) = {}
      BY DEF PlacesFit
    <2>2. Cardinality(both) = Cardinality(Guids(prio)) + Cardinality(Guids(wait)) - Cardinality({})
      BY <1>2, <1>3, <2>1, FS_Union DEF PlacedIn
    <2> QED
      BY <1>1, <1>2, <2>2, FS_EmptySet
  <1>5. Cardinality(both) <= Cardinality(Player)
    <2>1. both \in SUBSET Player
      BY <1>1, <1>3 DEF PlacedIn
    <2> QED
      BY <2>1, FS_Subset, WaitingListAssumption
  <1>6. Cardinality(Player) \in Nat
    BY FS_CardinalityType, WaitingListAssumption
  <1> QED
    BY <1>1, <1>3, <1>4, <1>5, <1>6, WaitingListAssumption

LEMMA ModulusPositive == SizeModulus \in Nat \ {0}
  <1>1. SizeModulus \in Nat /\ Cardinality(Player) \in Nat /\ SizeModulus > Cardinality(Player)
    BY FS_CardinalityType, WaitingListAssumption
  <1> QED
    BY <1>1

LEMMA ModSmall ==
    ASSUME NEW m \in Nat \ {0}, NEW a \in 0 .. m - 1
    PROVE  a % m = a
  OBVIOUS

\* Sizes that wrap, changed separately.
LEMMA SizesChange ==
    ASSUME NEW first, NEW second, NEW n, SizesFit(first, second, n),
           NEW by \in Int, NEW and \in Int, n + by + and \in 0 .. SizeModulus - 1
    PROVE  SizesFit(Resized(first, by), Resized(second, and), n + by + and)
  <1>1. PICK m \in Nat \ {0} : m = SizeModulus
    BY ModulusPositive
  <1>2. /\ first \in Int /\ second \in Int /\ (first + second) % m = n
    BY <1>1 DEF SizesFit
  <1>3. PICK a : a = (first + by) % m
    OBVIOUS
  <1>4. PICK b : b = (second + and) % m
    OBVIOUS
  <1>5. PICK x \in Int : x = first + by
    BY <1>2
  <1>6. PICK y \in Int : y = second + and
    BY <1>2
  <1>7. a \in 0 .. m - 1 /\ b \in 0 .. m - 1
    BY <1>3, <1>4, <1>5, <1>6, ModDiv
  <1>8. (a + b) % m = (x + b) % m
    BY <1>3, <1>5, <1>7, ModPlus
  <1>9. (b + x) % m = (y + x) % m
    BY <1>4, <1>6, ModPlus
  <1>10. x + b = b + x
    BY <1>7
  <1>11. PICK z \in Int : z = first + second
    BY <1>2
  <1>12. PICK d \in Int : d = by + and
    OBVIOUS
  <1>13. y + x = z + d
    BY <1>2, <1>5, <1>6, <1>11, <1>12
  <1>14. ((z % m) + d) % m = (z + d) % m
    BY ModPlus
  <1>15. z % m = n
    BY <1>2, <1>11
  <1>16. n \in Int
    BY <1>15, ModDiv
  <1>17. n + d = n + by + and
    BY <1>12, <1>16
  <1>18. (n + d) % m = n + by + and
    BY <1>1, <1>17, ModSmall
  <1>19. (a + b) % m = n + by + and
    BY <1>8, <1>9, <1>10, <1>13, <1>14, <1>15, <1>18, Zenon
  <1> QED
    BY <1>1, <1>3, <1>4, <1>7, <1>19 DEF SizesFit, Resized

\* The state after cleanupList.
LEMMA CleanedFit ==
    ASSUME ListsFit(priorityWaitList, waitList, online, prioritySize, waitSize)
    PROVE  ListsFit(Prio, Waiting, online, PrioSize, WaitSize)
  <1>1. PlacesFit(Prio, Waiting, online)
    BY CleanedList DEF ListsFit, PlacesFit, PlacedIn, Prio, Waiting
  <1>2. /\ Len(Prio) \in Nat /\ Len(Waiting) \in Nat
        /\ Len(Prio) + Len(Waiting) \in 0 .. SizeModulus - 1
    BY <1>1, PlacesBound
  <1>3. Len(priorityWaitList) \in Nat /\ Len(waitList) \in Nat
    BY PlacesBound DEF ListsFit
  <1>4. PICK by \in Int : by = Len(Prio) - Len(priorityWaitList)
    BY <1>2, <1>3
  <1>5. PICK and \in Int : and = Len(Waiting) - Len(waitList)
    BY <1>2, <1>3
  <1>6. Len(priorityWaitList) + Len(waitList) + by + and = Len(Prio) + Len(Waiting)
    BY <1>2, <1>3, <1>4, <1>5
  <1>7. SizesFit(Resized(prioritySize, by), Resized(waitSize, and), Len(Prio) + Len(Waiting))
    BY <1>2, <1>6, SizesChange DEF ListsFit
  <1> QED
    BY <1>1, <1>4, <1>5, <1>7 DEF ListsFit, PrioSize, WaitSize

WaitingInv ==
    /\ clock \in 0 .. MaxClock
    /\ ListsFit(priorityWaitList, waitList, online, prioritySize, waitSize)

LEMMA WaitingStarts == Init => WaitingInv
  <1> SUFFICES ASSUME Init
               PROVE  WaitingInv
    OBVIOUS
  <1>1. Apart(<<>>) /\ Guids(<<>>) = {} /\ Len(<<>>) = 0
    BY DEF Apart, Guids
  <1>2. SizeModulus \in Nat \ {0}
    BY ModulusPositive
  <1>3. 0 % SizeModulus = 0 /\ 0 \in 0 .. SizeModulus - 1
    BY <1>2, ModSmall
  <1>4. SizesFit(0, 0, 0 + 0)
    BY <1>3 DEF SizesFit
  <1>5. PlacesFit(<<>>, <<>>, {})
    BY <1>1 DEF PlacesFit, PlacedIn
  <1> QED
    BY <1>1, <1>4, <1>5, WaitingListAssumption DEF Init, WaitingInv, ListsFit

LEMMA WaitingTicks == WaitingInv /\ Tick => WaitingInv'
  <1> SUFFICES ASSUME WaitingInv, Tick
               PROVE  WaitingInv'
    OBVIOUS
  <1>1. clock' \in 0 .. MaxClock
    BY WaitingListAssumption DEF Tick, WaitingInv
  <1> QED
    BY <1>1 DEF Tick, WaitingInv, lists

LEMMA WaitingLeaves ==
    ASSUME WaitingInv, NEW p \in Player, LeaveMap(p)
    PROVE  WaitingInv'
  <1>1. PlacesFit(priorityWaitList, waitList, online \ {p})
    BY DEF WaitingInv, ListsFit, PlacesFit
  <1> QED
    BY <1>1 DEF WaitingInv, ListsFit, LeaveMap, lists

LEMMA WaitingEnters ==
    ASSUME WaitingInv, NEW p \in Player, LoginAtOnce(p)
    PROVE  WaitingInv'
  <1>1. CASE p \in AlwaysLogin
    <2>1. PlacesFit(priorityWaitList, waitList, online \cup {p})
      BY <1>1 DEF WaitingInv, ListsFit, PlacesFit
    <2> QED
      BY <2>1 DEF WaitingInv, ListsFit, LoginAtOnce, lists
  <1>2. CASE p \notin AlwaysLogin
    <2>1. priorityWaitList = <<>> /\ waitList = <<>>
      BY <1>2 DEF LoginAtOnce, LetIn
    <2>2. Guids(priorityWaitList) = {} /\ Guids(waitList) = {}
      BY <2>1 DEF Guids
    <2>3. PlacesFit(priorityWaitList, waitList, online \cup {p})
      BY <2>2 DEF WaitingInv, ListsFit, PlacesFit, PlacedIn
    <2> QED
      BY <2>3 DEF WaitingInv, ListsFit, LoginAtOnce, lists
  <1> QED
    BY <1>1, <1>2

LEMMA SlotParts ==
    ASSUME ListsFit(Prio, Waiting, online, PrioSize, WaitSize), NEW p
    PROVE  /\ Slot(p) # 0 <=> p \in PlacedIn(Prio, Waiting)
           /\ p \in Guids(Prio) => Slot(p) = IndexOf(p, Prio)
           /\ p \in Guids(Waiting) => Slot(p) = Len(Prio) + IndexOf(p, Waiting)
  <1>1. Prio \in Seq(Wait) /\ Waiting \in Seq(Wait) /\ Guids(Prio) \cap Guids(Waiting) = {}
    BY DEF ListsFit, PlacesFit, Apart
  <1>2. /\ InList(p, Prio) <=> p \in Guids(Prio)
        /\ InList(p, Waiting) <=> p \in Guids(Waiting)
        /\ Len(Prio) \in Nat /\ Len(Waiting) \in Nat
    BY <1>1, ListParts
  <1>3. p \in Guids(Prio) => IndexOf(p, Prio) \in 1 .. Len(Prio)
    BY <1>1, ListParts
  <1>4. p \in Guids(Waiting) => IndexOf(p, Waiting) \in 1 .. Len(Waiting)
    BY <1>1, ListParts
  <1> QED
    BY <1>1, <1>2, <1>3, <1>4 DEF Slot, FindClient, PlacedIn

LEMMA WaitingServes ==
    ASSUME WaitingInv, NEW p \in Player, LoginFromList(p)
    PROVE  WaitingInv'
  <1>1. ListsFit(Prio, Waiting, online, PrioSize, WaitSize)
    BY CleanedFit DEF WaitingInv
  <1>2. p \in PlacedIn(Prio, Waiting)
    BY <1>1, SlotParts DEF LoginFromList
  <1>3. PICK first : first = Unlinked(p, Prio)
    OBVIOUS
  <1>4. PICK second : second = Unlinked(p, Waiting)
    OBVIOUS
  <1>5. /\ Apart(first) /\ Guids(first) = Guids(Prio) \ {p}
        /\ Apart(second) /\ Guids(second) = Guids(Waiting) \ {p}
    BY <1>1, <1>3, <1>4, ErasedList DEF ListsFit, PlacesFit
  <1>6. PlacesFit(first, second, online \cup {p})
    BY <1>1, <1>5 DEF ListsFit, PlacesFit, PlacedIn
  <1>7. Len(first) + Len(second) = Len(Prio) + Len(Waiting) - 1
    <2>1. PICK both : both = PlacedIn(Prio, Waiting)
      OBVIOUS
    <2>2. PlacedIn(first, second) = both \ {p} /\ p \in both
      BY <1>2, <1>5, <2>1 DEF PlacedIn
    <2>3. IsFiniteSet(both)
      <3>1. both \in SUBSET Player
        BY <1>1, <2>1, ListParts DEF ListsFit, PlacesFit, PlacedIn, Apart
      <3> QED
        BY <3>1, FS_Subset, WaitingListAssumption
    <2>4. Cardinality(both \ {p}) = Cardinality(both) - 1
      BY <2>2, <2>3, FS_RemoveElement
    <2>5. Len(first) + Len(second) = Cardinality(PlacedIn(first, second))
      BY <1>6, PlacesBound
    <2>6. Len(Prio) + Len(Waiting) = Cardinality(both)
      BY <1>1, <2>1, PlacesBound DEF ListsFit
    <2> QED
      BY <2>2, <2>4, <2>5, <2>6
  <1>8. SizesFit(PrioSize, Resized(WaitSize, -1), Len(first) + Len(second))
    <2>1. PICK n : n = Len(Prio) + Len(Waiting)
      OBVIOUS
    <2>2. SizesFit(PrioSize, WaitSize, n) /\ n \in Nat
      BY <1>1, <2>1, PlacesBound DEF ListsFit
    <2>3. n + 0 + (-1) = Len(first) + Len(second)
      BY <1>7, <2>1, <2>2
    <2>4. n + 0 + (-1) \in 0 .. SizeModulus - 1
      BY <1>6, <2>3, PlacesBound
    <2>5. SizesFit(Resized(PrioSize, 0), Resized(WaitSize, -1), Len(first) + Len(second))
      <3>1. PICK by \in Int : by = 0
        OBVIOUS
      <3>2. PICK and \in Int : and = -1
        OBVIOUS
      <3>3. n + by + and = Len(first) + Len(second) /\ n + by + and \in 0 .. SizeModulus - 1
        BY <2>3, <2>4, <3>1, <3>2
      <3>4. SizesFit(Resized(PrioSize, by), Resized(WaitSize, and), n + by + and)
        BY <2>2, <3>3, SizesChange
      <3> QED
        BY <3>1, <3>2, <3>3, <3>4
    <2>6. Resized(PrioSize, 0) = PrioSize
      <3>1. PICK m \in Nat \ {0} : m = SizeModulus
        BY ModulusPositive
      <3>2. PrioSize \in 0 .. m - 1
        BY <2>2, <3>1 DEF SizesFit
      <3>3. PrioSize + 0 = PrioSize /\ PrioSize % m = PrioSize
        BY <3>2, ModSmall
      <3> QED
        BY <3>1, <3>3 DEF Resized
    <2> QED
      BY <2>5, <2>6
  <1> QED
    BY <1>3, <1>4, <1>6, <1>8 DEF WaitingInv, ListsFit, LoginFromList

LEMMA WaitingStays ==
    ASSUME WaitingInv, NEW p \in Player, WaitLonger(p)
    PROVE  WaitingInv'
  <1>1. ListsFit(Prio, Waiting, online, PrioSize, WaitSize)
    BY CleanedFit DEF WaitingInv
  <1>2. PICK first : first = Extended(p, Prio)
    OBVIOUS
  <1>3. PICK second : second = IF InList(p, Prio) THEN Waiting ELSE Extended(p, Waiting)
    OBVIOUS
  <1>4. /\ Apart(first) /\ Guids(first) = Guids(Prio)
        /\ Apart(second) /\ Guids(second) = Guids(Waiting)
    BY <1>1, <1>2, <1>3, ExtendedList DEF ListsFit, PlacesFit, WaitingInv
  <1>5. PlacesFit(first, second, online)
    BY <1>1, <1>4 DEF ListsFit, PlacesFit, PlacedIn
  <1>6. Len(first) + Len(second) = Len(Prio) + Len(Waiting)
    BY <1>1, <1>4, <1>5, PlacesBound DEF ListsFit, PlacedIn
  <1> QED
    BY <1>1, <1>2, <1>3, <1>5, <1>6 DEF WaitingInv, ListsFit, WaitLonger

LEMMA WaitingJoins ==
    ASSUME WaitingInv, NEW p \in Player, p \notin online, Enqueue(p)
    PROVE  WaitingInv'
  <1>1. ListsFit(Prio, Waiting, online, PrioSize, WaitSize)
    BY CleanedFit DEF WaitingInv
  <1>2. p \notin PlacedIn(Prio, Waiting) /\ p \notin AlwaysLogin
    BY <1>1, SlotParts DEF Enqueue, LetIn
  <1>3. ASSUME NEW first, NEW second, NEW one \in 0 .. 1, NEW two \in 0 .. 1, one + two = 1,
               Apart(first), Guids(first) = Guids(Prio) \cup (IF one = 1 THEN {p} ELSE {}),
               Apart(second), Guids(second) = Guids(Waiting) \cup (IF two = 1 THEN {p} ELSE {})
        PROVE  ListsFit(first, second, online, Resized(PrioSize, one), Resized(WaitSize, two))
    <2>1. PlacesFit(first, second, online)
      BY <1>1, <1>2, <1>3 DEF ListsFit, PlacesFit, PlacedIn
    <2>2. PICK both : both = PlacedIn(Prio, Waiting)
      OBVIOUS
    <2>3. PlacedIn(first, second) = both \cup {p} /\ p \notin both
      BY <1>2, <1>3, <2>2 DEF PlacedIn
    <2>4. IsFiniteSet(both)
      <3>1. both \in SUBSET Player
        BY <1>1, <2>2, ListParts DEF ListsFit, PlacesFit, PlacedIn, Apart
      <3> QED
        BY <3>1, FS_Subset, WaitingListAssumption
    <2>5. Cardinality(both \cup {p}) = Cardinality(both) + 1
      BY <2>3, <2>4, FS_AddElement
    <2>6. Len(first) + Len(second) = Cardinality(PlacedIn(first, second))
      BY <2>1, PlacesBound
    <2>7. PICK n : n = Len(Prio) + Len(Waiting)
      OBVIOUS
    <2>8. n = Cardinality(both) /\ n \in Nat /\ SizesFit(PrioSize, WaitSize, n)
      BY <1>1, <2>2, <2>7, PlacesBound DEF ListsFit
    <2>9. n + one + two = Len(first) + Len(second)
      BY <1>3, <2>3, <2>5, <2>6, <2>8
    <2>10. SizesFit(Resized(PrioSize, one), Resized(WaitSize, two), Len(first) + Len(second))
      BY <2>1, <2>8, <2>9, PlacesBound, SizesChange
    <2> QED
      BY <2>1, <2>10 DEF ListsFit
  <1>4. ASSUME NEW size, size \in 0 .. SizeModulus - 1
        PROVE  Resized(size, 0) = size
    <2>1. PICK m \in Nat \ {0} : m = SizeModulus
      BY ModulusPositive
    <2>2. size \in 0 .. m - 1 /\ size + 0 = size
      BY <1>4, <2>1
    <2> QED
      BY <2>1, <2>2, ModSmall DEF Resized
  <1>5. Resized(PrioSize, 0) = PrioSize /\ Resized(WaitSize, 0) = WaitSize
    BY <1>1, <1>4 DEF ListsFit, SizesFit
  <1>6. CASE p \in Premium
    <2>1. Apart(Joined(Prio, p)) /\ Guids(Joined(Prio, p)) = Guids(Prio) \cup {p}
      BY <1>1, <1>2, JoinedList DEF ListsFit, PlacesFit, PlacedIn, WaitingInv
    <2>2. ListsFit(Joined(Prio, p), Waiting, online, Resized(PrioSize, 1), Resized(WaitSize, 0))
      BY <1>1, <1>3, <2>1 DEF ListsFit, PlacesFit
    <2> QED
      BY <1>5, <1>6, <2>2 DEF WaitingInv, Enqueue
  <1>7. CASE p \notin Premium
    <2>1. Apart(Joined(Waiting, p)) /\ Guids(Joined(Waiting, p)) = Guids(Waiting) \cup {p}
      BY <1>1, <1>2, JoinedList DEF ListsFit, PlacesFit, PlacedIn, WaitingInv
    <2>2. ListsFit(Prio, Joined(Waiting, p), online, Resized(PrioSize, 0), Resized(WaitSize, 1))
      BY <1>1, <1>3, <2>1 DEF ListsFit, PlacesFit
    <2> QED
      BY <1>5, <1>7, <2>2 DEF WaitingInv, Enqueue
  <1> QED
    BY <1>6, <1>7

LEMMA WaitingKeeps == WaitingInv /\ [Next]_vars => WaitingInv'
  <1> SUFFICES ASSUME WaitingInv, [Next]_vars
               PROVE  WaitingInv'
    OBVIOUS
  <1>1. CASE UNCHANGED vars
    BY <1>1 DEF WaitingInv, vars, lists
  <1>2. CASE Tick
    BY <1>2, WaitingTicks
  <1>3. ASSUME NEW p \in Player, ClientLogin(p)
        PROVE  WaitingInv'
    BY <1>3, WaitingEnters, WaitingServes, WaitingStays, WaitingJoins DEF ClientLogin
  <1>4. ASSUME NEW p \in Player, LeaveMap(p)
        PROVE  WaitingInv'
    BY <1>4, WaitingLeaves
  <1> QED
    BY <1>1, <1>2, <1>3, <1>4 DEF Next

THEOREM WaitingInvCorrect == Spec => []WaitingInv
  <1> QED
    BY WaitingStarts, WaitingKeeps, PTL DEF Spec

(***************************************************************************)
(* The two lists as one queue.                                             *)
(***************************************************************************)
LEMMA QueueElements ==
    ASSUME NEW a \in Seq(Wait), NEW b \in Seq(Wait)
    PROVE  /\ a \o b \in Seq(Wait) /\ Len(a \o b) = Len(a) + Len(b)
           /\ Len(a) \in Nat /\ Len(b) \in Nat
           /\ \A i \in 1 .. Len(a) : i \in 1 .. Len(a) + Len(b) /\ (a \o b)[i] = a[i]
           /\ \A i \in 1 .. Len(b) :
                Len(a) + i \in 1 .. Len(a) + Len(b) /\ (a \o b)[Len(a) + i] = b[i]
           /\ \A i \in 1 .. Len(a) + Len(b) :
                i \in 1 .. Len(a) \/ \E k \in 1 .. Len(b) : i = Len(a) + k
  <1>1. Len(a) \in Nat /\ Len(b) \in Nat
    BY LenProperties
  <1>2. /\ a \o b \in Seq(Wait) /\ Len(a \o b) = Len(a) + Len(b)
        /\ \A i \in 1 .. Len(a) + Len(b) : (a \o b)[i] = IF i <= Len(a) THEN a[i] ELSE b[i - Len(a)]
    BY ConcatProperties
  <1>3. \A i \in 1 .. Len(a) : i \in 1 .. Len(a) + Len(b) /\ (a \o b)[i] = a[i]
    BY <1>1, <1>2
  <1>4. ASSUME NEW i \in 1 .. Len(b)
        PROVE  Len(a) + i \in 1 .. Len(a) + Len(b) /\ (a \o b)[Len(a) + i] = b[i]
    <2>1. PICK k \in 1 .. Len(a) + Len(b) : k = Len(a) + i /\ ~ k <= Len(a) /\ k - Len(a) = i
      BY <1>1
    <2> QED
      BY <1>2, <2>1
  <1>5. ASSUME NEW i \in 1 .. Len(a) + Len(b), i \notin 1 .. Len(a)
        PROVE  \E k \in 1 .. Len(b) : i = Len(a) + k
    <2>1. i - Len(a) \in 1 .. Len(b) /\ i = Len(a) + (i - Len(a))
      BY <1>1, <1>5
    <2> QED
      BY <2>1
  <1> QED
    BY <1>1, <1>2, <1>3, <1>4, <1>5

LEMMA QueueApart ==
    ASSUME NEW a, NEW b, Apart(a), Apart(b), Guids(a) \cap Guids(b) = {}
    PROVE  Apart(a \o b) /\ Guids(a \o b) = Guids(a) \cup Guids(b)
  <1>1. a \in Seq(Wait) /\ b \in Seq(Wait)
    BY DEF Apart
  <1>2. PICK c : c = a \o b
    OBVIOUS
  <1>3. /\ c \in Seq(Wait) /\ Len(c) = Len(a) + Len(b) /\ Len(a) \in Nat /\ Len(b) \in Nat
        /\ \A i \in 1 .. Len(a) : i \in 1 .. Len(c) /\ c[i] = a[i]
        /\ \A i \in 1 .. Len(b) : Len(a) + i \in 1 .. Len(c) /\ c[Len(a) + i] = b[i]
        /\ \A i \in 1 .. Len(c) : i \in 1 .. Len(a) \/ \E k \in 1 .. Len(b) : i = Len(a) + k
    BY <1>1, <1>2, QueueElements
  <1>4. ASSUME NEW i \in 1 .. Len(c), NEW j \in 1 .. Len(c), c[i].guid = c[j].guid
        PROVE  i = j
    <2>1. CASE i \in 1 .. Len(a) /\ j \in 1 .. Len(a)
      BY <1>3, <1>4, <2>1 DEF Apart
    <2>2. ASSUME NEW k \in 1 .. Len(b), i = Len(a) + k, j \in 1 .. Len(a)
          PROVE  FALSE
      <3>1. c[i] = b[k] /\ c[j] = a[j]
        BY <1>3, <2>2
      <3>2. b[k].guid \in Guids(b) /\ a[j].guid \in Guids(a)
        BY <2>2 DEF Guids
      <3> QED
        BY <1>4, <3>1, <3>2
    <2>3. ASSUME NEW k \in 1 .. Len(b), j = Len(a) + k, i \in 1 .. Len(a)
          PROVE  FALSE
      <3>1. c[j] = b[k] /\ c[i] = a[i]
        BY <1>3, <2>3
      <3>2. b[k].guid \in Guids(b) /\ a[i].guid \in Guids(a)
        BY <2>3 DEF Guids
      <3> QED
        BY <1>4, <3>1, <3>2
    <2>4. ASSUME NEW k \in 1 .. Len(b), i = Len(a) + k, NEW m \in 1 .. Len(b), j = Len(a) + m
          PROVE  i = j
      <3>1. c[i] = b[k] /\ c[j] = b[m]
        BY <1>3, <2>4
      <3>2. k = m
        BY <1>4, <3>1 DEF Apart
      <3> QED
        BY <2>4, <3>2
    <2> QED
      BY <1>3, <2>1, <2>2, <2>3, <2>4
  <1>5. Guids(c) = Guids(a) \cup Guids(b)
    <2>1. ASSUME NEW x \in Guids(c)
          PROVE  x \in Guids(a) \cup Guids(b)
      <3>1. PICK i \in 1 .. Len(c) : x = c[i].guid
        BY DEF Guids
      <3>2. CASE i \in 1 .. Len(a)
        BY <1>3, <3>1, <3>2 DEF Guids
      <3>3. ASSUME NEW k \in 1 .. Len(b), i = Len(a) + k
            PROVE  x \in Guids(b)
        <4>1. c[i] = b[k]
          BY <1>3, <3>3
        <4> QED
          BY <3>1, <4>1 DEF Guids
      <3> QED
        BY <1>3, <3>2, <3>3
    <2>2. ASSUME NEW x \in Guids(a)
          PROVE  x \in Guids(c)
      BY <1>3 DEF Guids
    <2>3. ASSUME NEW x \in Guids(b)
          PROVE  x \in Guids(c)
      <3>1. PICK i \in 1 .. Len(b) : x = b[i].guid
        BY DEF Guids
      <3>2. PICK k \in 1 .. Len(c) : k = Len(a) + i /\ c[k] = b[i]
        BY <1>3
      <3> QED
        BY <3>1, <3>2 DEF Guids
    <2> QED
      BY <2>1, <2>2, <2>3
  <1> QED
    BY <1>2, <1>3, <1>4, <1>5 DEF Apart

LEMMA WaitingOnePlace == WaitingInv => OnePlace
  <1> SUFFICES ASSUME WaitingInv
               PROVE  OnePlace
    OBVIOUS
  <1>1. /\ Apart(priorityWaitList) /\ Apart(waitList)
        /\ Guids(priorityWaitList) \cap Guids(waitList) = {}
        /\ online \cap (Guids(priorityWaitList) \cup Guids(waitList)) = {}
    BY DEF WaitingInv, ListsFit, PlacesFit, PlacedIn
  <1>2. Apart(Queue) /\ Guids(Queue) = Guids(priorityWaitList) \cup Guids(waitList)
    BY <1>1, QueueApart DEF Queue
  <1>3. Len(Queue) = Len(priorityWaitList) + Len(waitList)
    BY <1>1, QueueElements DEF Queue, Apart
  <1>4. PICK q : q = Queue
    OBVIOUS
  <1>5. DOMAIN q = 1 .. Len(q)
    BY <1>2, <1>4, LenProperties DEF Apart
  <1>6. \A i, j \in DOMAIN q : q[i].guid = q[j].guid => i = j
    BY <1>2, <1>4, <1>5 DEF Apart
  <1>7. \A i \in DOMAIN q : q[i].guid \notin online
    BY <1>1, <1>2, <1>4, <1>5 DEF Guids
  <1>8. (prioritySize + waitSize) % SizeModulus = Len(q)
    BY <1>3, <1>4 DEF WaitingInv, ListsFit, SizesFit
  <1> QED
    BY <1>4, <1>6, <1>7, <1>8 DEF OnePlace

LEMMA WaitingTyped == WaitingInv => TypeOK
  BY DEF WaitingInv, TypeOK, ListsFit, PlacesFit, SizesFit, Apart

\* What stays of the queue is what stays of the lists, one after the other.
LEMMA RestTogether ==
    ASSUME NEW a \in Seq(Wait), NEW b \in Seq(Wait), NEW c, NEW d,
           Rest(c, a, Len(a)), Rest(d, b, Len(b))
    PROVE  Rest(c \o d, a \o b, Len(a) + Len(b))
  <1>1. PICK e : RestBy(c, a, Len(a), e)
    BY DEF Rest
  <1>2. PICK f : RestBy(d, b, Len(b), f)
    BY DEF Rest
  <1>3. c \in Seq(Wait) /\ d \in Seq(Wait)
    BY <1>1, <1>2 DEF RestBy
  <1>4. PICK q : q = a \o b
    OBVIOUS
  <1>5. PICK r : r = c \o d
    OBVIOUS
  <1>6. /\ Len(a) \in Nat /\ Len(b) \in Nat
        /\ \A i \in 1 .. Len(a) : i \in 1 .. Len(a) + Len(b) /\ q[i] = a[i]
        /\ \A i \in 1 .. Len(b) : Len(a) + i \in 1 .. Len(a) + Len(b) /\ q[Len(a) + i] = b[i]
        /\ \A i \in 1 .. Len(a) + Len(b) : i \in 1 .. Len(a) \/ \E k \in 1 .. Len(b) : i = Len(a) + k
    BY <1>4, QueueElements
  <1>7. /\ r \in Seq(Wait) /\ Len(r) = Len(c) + Len(d)
        /\ Len(c) \in Nat /\ Len(d) \in Nat
        /\ \A i \in 1 .. Len(c) : i \in 1 .. Len(r) /\ r[i] = c[i]
        /\ \A i \in 1 .. Len(d) : Len(c) + i \in 1 .. Len(r) /\ r[Len(c) + i] = d[i]
        /\ \A i \in 1 .. Len(r) : i \in 1 .. Len(c) \/ \E k \in 1 .. Len(d) : i = Len(c) + k
    BY <1>3, <1>5, QueueElements
  <1>8. PICK h : h = [i \in 1 .. Len(r) |-> IF i <= Len(c) THEN e[i] ELSE Len(a) + f[i - Len(c)]]
    OBVIOUS
  <1>9. ASSUME NEW i \in 1 .. Len(c)
        PROVE  h[i] = e[i] /\ e[i] \in 1 .. Len(a)
    BY <1>1, <1>7, <1>8 DEF RestBy
  <1>10. ASSUME NEW k \in 1 .. Len(d)
         PROVE  h[Len(c) + k] = Len(a) + f[k] /\ f[k] \in 1 .. Len(b)
    <2>1. PICK i \in 1 .. Len(r) : i = Len(c) + k /\ ~ i <= Len(c) /\ i - Len(c) = k
      BY <1>7
    <2> QED
      BY <1>2, <1>8, <2>1 DEF RestBy
  <1>11. ASSUME NEW i \in 1 .. Len(r)
         PROVE  h[i] \in 1 .. Len(a) + Len(b) /\ r[i] = q[h[i]] /\ Stays(q[h[i]])
    <2>1. CASE i \in 1 .. Len(c)
      BY <1>1, <1>6, <1>7, <1>9, <2>1 DEF RestBy
    <2>2. ASSUME NEW k \in 1 .. Len(d), i = Len(c) + k
          PROVE  h[i] \in 1 .. Len(a) + Len(b) /\ r[i] = q[h[i]] /\ Stays(q[h[i]])
      <3>1. h[i] = Len(a) + f[k] /\ f[k] \in 1 .. Len(b) /\ r[i] = d[k]
        BY <1>7, <1>10, <2>2
      <3>2. d[k] = b[f[k]] /\ Stays(b[f[k]])
        BY <1>2 DEF RestBy
      <3> QED
        BY <1>6, <3>1, <3>2
    <2> QED
      BY <1>7, <2>1, <2>2
  <1>12. ASSUME NEW i \in 1 .. Len(r), NEW j \in 1 .. Len(r), i < j
         PROVE  h[i] < h[j]
    <2>1. CASE i \in 1 .. Len(c) /\ j \in 1 .. Len(c)
      BY <1>1, <1>9, <1>12, <2>1 DEF RestBy
    <2>2. ASSUME i \in 1 .. Len(c), NEW k \in 1 .. Len(d), j = Len(c) + k
          PROVE  h[i] < h[j]
      <3>1. h[i] \in 1 .. Len(a)
        BY <1>9, <2>2
      <3>2. h[j] = Len(a) + f[k] /\ f[k] \in 1 .. Len(b)
        BY <1>10, <2>2
      <3> QED
        BY <1>6, <3>1, <3>2
    <2>3. ASSUME j \in 1 .. Len(c), NEW k \in 1 .. Len(d), i = Len(c) + k
          PROVE  FALSE
      BY <1>7, <1>12, <2>3
    <2>4. ASSUME NEW k \in 1 .. Len(d), i = Len(c) + k, NEW m \in 1 .. Len(d), j = Len(c) + m
          PROVE  h[i] < h[j]
      <3>1. k < m
        BY <1>7, <1>12, <2>4
      <3>2. f[k] < f[m]
        BY <1>2, <3>1 DEF RestBy
      <3>3. h[i] = Len(a) + f[k] /\ h[j] = Len(a) + f[m] /\ f[k] \in 1 .. Len(b) /\ f[m] \in 1 .. Len(b)
        BY <1>10, <2>4
      <3> QED
        BY <1>6, <3>2, <3>3
    <2> QED
      BY <1>7, <2>1, <2>2, <2>3, <2>4
  <1>13. ASSUME NEW k \in 1 .. Len(a) + Len(b), Stays(q[k])
         PROVE  \E i \in 1 .. Len(r) : h[i] = k
    <2>1. CASE k \in 1 .. Len(a)
      <3>1. PICK i \in 1 .. Len(c) : e[i] = k
        BY <1>1, <1>6, <1>13, <2>1 DEF RestBy
      <3> QED
        BY <1>7, <1>9, <3>1
    <2>2. ASSUME NEW m \in 1 .. Len(b), k = Len(a) + m
          PROVE  \E i \in 1 .. Len(r) : h[i] = k
      <3>1. PICK i \in 1 .. Len(d) : f[i] = m
        BY <1>2, <1>6, <1>13, <2>2 DEF RestBy
      <3>2. PICK j \in 1 .. Len(r) : j = Len(c) + i
        BY <1>7
      <3> QED
        BY <1>10, <2>2, <3>1, <3>2
    <2> QED
      BY <1>6, <2>1, <2>2
  <1>14. h \in [1 .. Len(r) -> 1 .. Len(a) + Len(b)]
    BY <1>8, <1>11
  <1>15. RestBy(r, q, Len(a) + Len(b), h)
    BY <1>7, <1>11, <1>12, <1>13, <1>14 DEF RestBy
  <1> QED
    BY <1>4, <1>5, <1>15 DEF Rest

LEMMA ImageOfPlaces ==
    ASSUME NEW n \in Nat, NEW e, NEW S, S \subseteq {e[i] : i \in 1 .. n}
    PROVE  IsFiniteSet(S) /\ Cardinality(S) \in Nat /\ Cardinality(S) <= n
  <1>1. PICK T : T = {e[i] : i \in 1 .. n}
    OBVIOUS
  <1>2. PICK f : f = [i \in 1 .. n |-> e[i]]
    OBVIOUS
  <1>3. f \in Surjection(1 .. n, T)
    BY <1>1, <1>2 DEF Surjection
  <1>4. IsFiniteSet(1 .. n) /\ Cardinality(1 .. n) = n
    BY FirstNumbers
  <1>5. IsFiniteSet(T) /\ Cardinality(T) <= n
    BY <1>3, <1>4, FS_Surjection
  <1>6. S \in SUBSET T
    BY <1>1
  <1>7. IsFiniteSet(S) /\ Cardinality(S) <= Cardinality(T)
    BY <1>5, <1>6, FS_Subset
  <1> QED
    BY <1>5, <1>7, FS_CardinalityType

LEMMA OnlineGrows ==
    ASSUME online \subseteq Player, NEW p, p \notin online
    PROVE  /\ Cardinality(online) \in Nat
           /\ Cardinality(online \cup {p}) = Cardinality(online) + 1
  <1>1. IsFiniteSet(online)
    BY FS_Subset, WaitingListAssumption
  <1> QED
    BY <1>1, FS_AddElement, FS_CardinalityType

\* Who is ahead of a client in the queue has one of the places before its own.
LEMMA AheadIsBefore ==
    ASSUME WaitingInv, NEW p \in Player, Slot(p) # 0
    PROVE  /\ Slot(p) \in Nat \ {0}
           /\ Cardinality(Ahead(p)) \in Nat /\ Cardinality(Ahead(p)) <= Slot(p) - 1
  <1>1. ListsFit(Prio, Waiting, online, PrioSize, WaitSize)
    BY CleanedFit DEF WaitingInv
  <1>2. /\ Apart(priorityWaitList) /\ Apart(waitList)
        /\ Guids(priorityWaitList) \cap Guids(waitList) = {}
    BY DEF WaitingInv, ListsFit, PlacesFit
  <1>3. priorityWaitList \in Seq(Wait) /\ waitList \in Seq(Wait)
    BY <1>2 DEF Apart
  <1>4. /\ Apart(Prio) /\ Apart(Waiting) /\ Guids(Prio) \cap Guids(Waiting) = {}
    BY <1>1 DEF ListsFit, PlacesFit
  <1>5. PICK r : r = Prio \o Waiting
    OBVIOUS
  <1>6. PICK s : s = Slot(p)
    OBVIOUS
  <1>7. s \in 1 .. Len(r) /\ r[s].guid = p
    <2>1. /\ Prio \in Seq(Wait) /\ Waiting \in Seq(Wait)
      BY <1>4 DEF Apart
    <2>2. /\ Len(r) = Len(Prio) + Len(Waiting)
          /\ \A i \in 1 .. Len(Prio) : i \in 1 .. Len(Prio) + Len(Waiting) /\ r[i] = Prio[i]
          /\ \A i \in 1 .. Len(Waiting) :
                Len(Prio) + i \in 1 .. Len(Prio) + Len(Waiting) /\ r[Len(Prio) + i] = Waiting[i]
      BY <1>5, <2>1, QueueElements
    <2>3. CASE p \in Guids(Prio)
      <3>1. s = IndexOf(p, Prio)
        BY <1>1, <1>6, <2>3, SlotParts
      <3>2. s \in 1 .. Len(Prio) /\ Prio[s].guid = p
        BY <2>1, <2>3, <3>1, ListParts
      <3> QED
        BY <2>2, <3>2
    <2>4. CASE p \in Guids(Waiting)
      <3>1. s = Len(Prio) + IndexOf(p, Waiting)
        BY <1>1, <1>6, <2>4, SlotParts
      <3>2. IndexOf(p, Waiting) \in 1 .. Len(Waiting) /\ Waiting[IndexOf(p, Waiting)].guid = p
        BY <2>1, <2>4, ListParts
      <3> QED
        BY <2>2, <3>1, <3>2
    <2>5. p \in PlacedIn(Prio, Waiting)
      BY <1>1, SlotParts
    <2> QED
      BY <2>3, <2>4, <2>5 DEF PlacedIn
  <1>8. PICK q : q = Queue
    OBVIOUS
  <1>9. Apart(q)
    BY <1>2, <1>8, QueueApart DEF Queue
  <1>10. /\ Len(q) = Len(priorityWaitList) + Len(waitList) /\ Len(q) \in Nat
         /\ DOMAIN q = 1 .. Len(q)
    BY <1>3, <1>8, <1>9, QueueElements, LenProperties DEF Queue, Apart
  <1>11. Rest(r, q, Len(q))
    <2>1. /\ Rest(Prio, priorityWaitList, Len(priorityWaitList))
          /\ Rest(Waiting, waitList, Len(waitList))
      BY <1>3, CleanupRest DEF Prio, Waiting
    <2>2. Rest(Prio \o Waiting, priorityWaitList \o waitList, Len(priorityWaitList) + Len(waitList))
      BY <1>3, <2>1, RestTogether
    <2> QED
      BY <1>5, <1>8, <1>10, <2>2 DEF Queue
  <1>12. PICK e : RestBy(r, q, Len(q), e)
    BY <1>11 DEF Rest
  <1>13. e[s] \in 1 .. Len(q) /\ q[e[s]].guid = p
    BY <1>7, <1>12 DEF RestBy
  <1>14. InList(p, q) /\ IndexOf(p, q) = e[s]
    <2>1. q \in Seq(Wait) /\ p \in Guids(q)
      BY <1>9, <1>13 DEF Apart, Guids
    <2>2. InList(p, q) /\ IndexOf(p, q) \in 1 .. Len(q) /\ q[IndexOf(p, q)].guid = p
      BY <2>1, ListParts
    <2> QED
      BY <1>9, <1>13, <2>2 DEF Apart
  <1>15. Len(r) \in Nat
    BY <1>12, LenProperties DEF RestBy
  <1>16. Ahead(p) \subseteq {e[i] : i \in 1 .. s - 1}
    <2> SUFFICES ASSUME NEW k \in Ahead(p)
                 PROVE  \E i \in 1 .. s - 1 : k = e[i]
      OBVIOUS
    <2>1. k \in 1 .. Len(q) /\ k < e[s] /\ Stays(q[k])
      BY <1>8, <1>10, <1>14 DEF Ahead
    <2>2. PICK i \in 1 .. Len(r) : e[i] = k
      BY <1>12, <2>1 DEF RestBy
    <2>3. ~ s < i
      <3> SUFFICES ASSUME s < i
                   PROVE  FALSE
        OBVIOUS
      <3>1. e[s] < e[i]
        BY <1>7, <1>12 DEF RestBy
      <3> QED
        BY <1>13, <2>1, <2>2, <3>1
    <2>4. i # s
      BY <1>13, <2>1, <2>2
    <2>5. i \in 1 .. s - 1
      BY <1>7, <1>15, <2>3, <2>4
    <2> QED
      BY <2>2, <2>5
  <1>17. s - 1 \in Nat /\ s \in Nat \ {0}
    BY <1>7, <1>15
  <1> QED
    BY <1>6, <1>16, <1>17, ImageOfPlaces

\* RoomForThoseAhead, of one step.
RoomIsLeft ==
    \A p \in Player \ AlwaysLogin :
        p \in online' \ online => Cardinality(online') + Cardinality(Ahead(p)) <= MaxPlayers

LEMMA EntryLeavesRoom ==
    ASSUME WaitingInv, NEW p \in Player \ AlwaysLogin, p \notin online, LoginAtOnce(p)
    PROVE  Cardinality(online') + Cardinality(Ahead(p)) <= MaxPlayers
  <1>1. /\ priorityWaitList = <<>> /\ waitList = <<>>
        /\ Cardinality(online) < MaxPlayers /\ online' = online \cup {p}
    BY DEF LoginAtOnce, LetIn
  <1>2. Ahead(p) = {}
    <2>1. PICK q : q = Queue
      OBVIOUS
    <2>2. <<>> \in Seq(Wait) /\ Len(<<>>) = 0
      OBVIOUS
    <2>3. q \in Seq(Wait) /\ Len(q) = 0
      BY <1>1, <2>1, <2>2, QueueElements DEF Queue
    <2>4. DOMAIN q = 1 .. 0
      BY <2>3, LenProperties
    <2>5. DOMAIN q = {}
      BY <2>4
    <2> QED
      BY <2>1, <2>5 DEF Ahead
  <1>3. online \subseteq Player
    BY DEF WaitingInv, ListsFit, PlacesFit
  <1>4. Cardinality(online) \in Nat /\ Cardinality(online') = Cardinality(online) + 1
    BY <1>1, <1>3, OnlineGrows
  <1>5. Cardinality(Ahead(p)) = 0
    BY <1>2, FS_EmptySet
  <1> QED
    BY <1>1, <1>4, <1>5, WaitingListAssumption

LEMMA PlaceLeavesRoom ==
    ASSUME WaitingInv, NEW p \in Player \ AlwaysLogin, p \notin online, LoginFromList(p)
    PROVE  Cardinality(online') + Cardinality(Ahead(p)) <= MaxPlayers
  <1>1. /\ Slot(p) # 0 /\ Cardinality(online) + Slot(p) <= MaxPlayers
        /\ online' = online \cup {p}
    BY DEF LoginFromList, HasRoom
  <1>2. online \subseteq Player
    BY DEF WaitingInv, ListsFit, PlacesFit
  <1>3. Cardinality(online) \in Nat /\ Cardinality(online') = Cardinality(online) + 1
    BY <1>1, <1>2, OnlineGrows
  <1>4. /\ Slot(p) \in Nat \ {0}
        /\ Cardinality(Ahead(p)) \in Nat /\ Cardinality(Ahead(p)) <= Slot(p) - 1
    BY <1>1, AheadIsBefore
  <1> QED
    BY <1>1, <1>3, <1>4, WaitingListAssumption

LEMMA StepsLeaveRoom == WaitingInv /\ [Next]_vars => RoomIsLeft
  <1> SUFFICES ASSUME WaitingInv, [Next]_vars,
                      NEW p \in Player \ AlwaysLogin, p \in online', p \notin online
               PROVE  Cardinality(online') + Cardinality(Ahead(p)) <= MaxPlayers
    BY DEF RoomIsLeft
  <1>1. ~ UNCHANGED vars /\ ~ Tick
    BY DEF vars, Tick
  <1>2. \A x \in Player : ~ LeaveMap(x)
    BY DEF LeaveMap
  <1>3. PICK x \in Player : ClientLogin(x)
    BY <1>1, <1>2 DEF Next
  <1>4. LoginAtOnce(x) \/ LoginFromList(x)
    BY <1>3 DEF ClientLogin, WaitLonger, Enqueue
  <1>5. x = p
    BY <1>4 DEF LoginAtOnce, LoginFromList
  <1> QED
    BY <1>4, <1>5, EntryLeavesRoom, PlaceLeavesRoom

(***************************************************************************)
(* TypeOK and OnePlace are always so: a client has one place in the two    *)
(* lists together and none when it is on the map, and the sizes add up,    *)
(* wrapped around or not (clientLogin and cleanupList).                    *)
(***************************************************************************)
THEOREM WaitingTypeCorrect == Spec => []TypeOK
  <1> QED
    BY WaitingInvCorrect, WaitingTyped, PTL

THEOREM OnePlaceCorrect == Spec => []OnePlace
  <1> QED
    BY WaitingInvCorrect, WaitingOnePlace, PTL

(***************************************************************************)
(* RoomForThoseAhead holds of every step: clientLogin lets in who leaves   *)
(* room for everyone before it.                                            *)
(***************************************************************************)
THEOREM RoomForThoseAheadCorrect == Spec => RoomForThoseAhead
  <1>1. WaitingInv /\ [Next]_vars => [RoomIsLeft]_vars
    BY StepsLeaveRoom
  <1>2. Spec => [][RoomIsLeft]_vars
    BY <1>1, WaitingInvCorrect, PTL DEF Spec
  <1> QED
    BY <1>2 DEF RoomForThoseAhead, RoomIsLeft
=============================================================================
