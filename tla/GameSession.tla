----------------------------- MODULE GameSession -----------------------------
(***************************************************************************)
(* Who plays a character: the game protocol of each connection, the player *)
(* object in the world and the references between them, from the first     *)
(* message to the release (src/src/protocolgame.cpp, with the parts of     *)
(* game.cpp, player.cpp and viewer.h it works with).  All clients log in   *)
(* with one character.                                                     *)
(*                                                                         *)
(* A protocol and a player hold each other: ProtocolGame::player counts a  *)
(* reference, Viewer::owner is a shared pointer.  Tasks run one at a time  *)
(* on the dispatcher thread (module Dispatcher) in the order of `tasks`;   *)
(* connections close at any moment on the network thread.                  *)
(*                                                                         *)
(* A protocol creates at most one player object, so the object is named    *)
(* after the protocol whose login made it.  The state of the game thread   *)
(* is one record, and each function of the code that others call is an     *)
(* operator from such a record to the next.                                *)
(***************************************************************************)
EXTENDS Base, Sequences, SequencesExt, FiniteSets, Integers

CONSTANT Protocol

ASSUME GameSessionAssumption == None \notin Protocol

VARIABLE g

Object == [status : {"none", "loaded", "placed", "removed", "deleted"},
           refs : Nat,                      \* referenceCounter
           owner : Protocol \cup {None},    \* client->owner
           isConnecting : BOOLEAN,
           inCheck : BOOLEAN,               \* inCheckCreaturesVector
           check : BOOLEAN]                 \* creatureCheck
NoObject == [status |-> "none", refs |-> 0, owner |-> None,
             isConnecting |-> FALSE, inCheck |-> FALSE, check |-> FALSE]

Task == [op : {"login", "connect", "logout", "release"},
         protocol : Protocol, object : Protocol \cup {None}]
ATask(op, p, i) == [op |-> op, protocol |-> p, object |-> i]

SessionTypeOK ==
    /\ g.conn \in [Protocol -> {"new", "open", "closed", "gone"}]
    /\ g.obj \in [Protocol -> Object]
    /\ g.player \in [Protocol -> Protocol \cup {None}]
    /\ g.eventConnect \in [Protocol -> Protocol \cup {None}]
    /\ g.acceptPackets \in [Protocol -> BOOLEAN]
    /\ g.tasks \in Seq(Task)
    /\ g.autosend \in [Protocol -> Nat]     \* how often each is in bufferedProtocols
    /\ g.sendAlls \in Nat                   \* events that will call sendAll
    /\ g.toRelease \in [Protocol -> Nat]    \* how often each is in ToReleaseCreatures

\* A connection is "closed" once close() has run and "gone" once the object
\* is destroyed, which waits for its last message to be written.
SessionInit ==
    g = [conn |-> [p \in Protocol |-> "new"],
         obj |-> [p \in Protocol |-> NoObject],
         player |-> [p \in Protocol |-> None],
         eventConnect |-> [p \in Protocol |-> None],
         acceptPackets |-> [p \in Protocol |-> FALSE],
         tasks |-> <<>>,
         autosend |-> [p \in Protocol |-> 0], sendAlls |-> 0,
         toRelease |-> [p \in Protocol |-> 0]]

-----------------------------------------------------------------------------
(* Functions of the code, from a state of the game to the next.            *)

Refs(h, i, n) ==
    [h EXCEPT !.obj[i].refs = @ + n,
              !.obj[i].status = IF h.obj[i].refs + n = 0 THEN "deleted" ELSE @]

Disconnect(h, p) ==
    IF h.conn[p] = "open"
    THEN [h EXCEPT !.conn[p] = "closed", !.tasks = Append(@, ATask("release", p, None))]
    ELSE h

\* Faulty: removed at once instead of at the next cleanup, twice over.
RemoveCreature_Again(h, i) ==
    [h EXCEPT !.obj[i].status = "removed", !.obj[i].check = FALSE, !.toRelease[i] = @ + 1]
RemoveCreature(h, i) ==
    IF h.obj[i].status # "placed" THEN h
    ELSE [h EXCEPT !.obj[i].status = "removed", !.obj[i].check = FALSE, !.toRelease[i] = @ + 1]

Logout(h, p) ==
    IF h.player[p] = None THEN h ELSE RemoveCreature(Disconnect(h, p), h.player[p])

KickPlayer(h, i) ==
    IF h.obj[i].owner # None THEN Logout(h, h.obj[i].owner) ELSE RemoveCreature(h, i)

PlaceCreature(h, i) ==
    LET onMap == Refs(h, i, 1)
        checked == Refs(onMap, i, 1)
    IN [checked EXCEPT !.obj[i].status = "placed", !.obj[i].inCheck = TRUE, !.obj[i].check = TRUE]

NewPlayer(h, p) ==
    [h EXCEPT !.player[p] = p,
              !.obj[p] = [NoObject EXCEPT !.status = "loaded", !.refs = 1, !.owner = p]]

ScheduleSendAll(h) == [h EXCEPT !.sendAlls = @ + 1]

Sending(h) == \E p \in Protocol : h.autosend[p] > 0
Timed(h) == IF Sending(h) THEN h ELSE ScheduleSendAll(h)
Autosend(h, p) == [Timed(h) EXCEPT !.autosend[p] = @ + 1]
Accepting(h, p) == [h EXCEPT !.acceptPackets[p] = TRUE]

Expired(h, p) == h.conn[p] = "gone"

Taken(h, i) == h.obj[i].status # "placed" \/ h.obj[i].owner # None

Attached(h, p, i) ==
    [Refs(h, i, 1) EXCEPT !.player[p] = i, !.obj[i].owner = p, !.obj[i].isConnecting = FALSE]

Connect(h, p, i) ==
    LET called == [h EXCEPT !.eventConnect[p] = None]
    IN IF Taken(h, i) THEN Disconnect(called, p)
       ELSE IF Expired(h, p) THEN called
       ELSE Accepting(Attached(called, p, i), p)

\* Faulty: the connect event is not added.
TakesOver_NoEvent(h, p, i) == [Disconnect(h, h.obj[i].owner) EXCEPT !.obj[i].isConnecting = TRUE]
TakesOver(h, p, i) ==
    [Disconnect(h, h.obj[i].owner) EXCEPT !.obj[i].isConnecting = TRUE,
                                          !.eventConnect[p] = i]

Detached(h, p) ==
    LET i == h.player[p]
    IN [h EXCEPT !.player[p] = None, !.obj[i].owner = IF @ = p THEN None ELSE @]

Released(h, p) ==
    IF h.player[p] = None THEN h ELSE Refs(Detached(h, p), h.player[p], -1)

NoAutosend(h, p) == IF h.autosend[p] = 0 THEN h ELSE [h EXCEPT !.autosend[p] = @ - 1]

\* Each reference that waits is given back; the last one deletes its object.
Cleanup(h) ==
    LET waiting == h.toRelease
        Given(i) == [h.obj[i] EXCEPT !.refs = @ - waiting[i],
                                     !.status = IF h.obj[i].refs <= waiting[i] THEN "deleted" ELSE @]
    IN [h EXCEPT !.obj = [i \in Protocol |-> IF waiting[i] = 0 THEN h.obj[i] ELSE Given(i)],
                 !.toRelease = [i \in Protocol |-> 0]]

-----------------------------------------------------------------------------
(* Tasks of the dispatcher thread.                                         *)

\* Faulty: the character in the world is not looked for.
InWorld_Missed(h) == {}
InWorld(h) == {i \in Protocol : h.obj[i].status = "placed"}

\* The character could not be loaded, is banned, must wait, ...
LoginRefused(h, p) == g' = Disconnect(NewPlayer(h, p), p)

LoginPlaced(h, p) == g' = Autosend(Accepting(PlaceCreature(NewPlayer(h, p), p), p), p)

\* An onLogin script returns false.
LoginKicked(h, p) ==
    g' = Autosend(Accepting(KickPlayer(PlaceCreature(NewPlayer(h, p), p), p), p), p)

LoginFound(h, p, i) ==
    g' = Autosend(IF h.obj[i].owner # None THEN TakesOver(h, p, i) ELSE Connect(h, p, i), p)

Login(h, p) ==
    IF InWorld(h) = {}
    THEN LoginRefused(h, p) \/ LoginPlaced(h, p) \/ LoginKicked(h, p)
    ELSE \E i \in InWorld(h) : LoginFound(h, p, i)

\* The tile, a fight or a script may refuse a logout.
LogoutTask(h, p) ==
    \/ g' = Logout(h, p)
    \/ h.player[p] # None /\ h.obj[h.player[p]].status = "placed" /\ g' = h

RunTask ==
    /\ g.tasks # <<>>
    /\ LET t == Head(g.tasks)
           h == [g EXCEPT !.tasks = Tail(@)]
       IN CASE t.op = "login" -> Login(h, t.protocol)
            [] t.op = "connect" -> g' = Connect(h, t.protocol, t.object)
            [] t.op = "logout" -> LogoutTask(h, t.protocol)
            [] t.op = "release" -> g' = NoAutosend(Released(h, t.protocol), t.protocol)

\* The shutdown, a command or a script kicks the player.
Kick(i) ==
    /\ g.obj[i].status = "placed"
    /\ g' = KickPlayer(g, i)

Dies(i) ==
    /\ g.obj[i].status = "placed"
    /\ g' = RemoveCreature(g, i)

\* No answer to the pings for too long; the tile and the fight allow it.
PingTimeout(h, i) ==
    IF ~ h.obj[i].isConnecting THEN KickPlayer(h, i) ELSE h

Erased(h, dropped) ==
    [h EXCEPT !.obj = [i \in Protocol |-> IF i \in dropped THEN [@[i] EXCEPT !.inCheck = FALSE] ELSE @[i]],
              !.toRelease = [i \in Protocol |-> IF i \in dropped THEN @[i] + 1 ELSE @[i]]]

\* One round of checkCreatures over the objects of one list.  The character is
\* in the world once, so at most one object, `silent`, has not answered for
\* too long.
CheckCreatures(list, silent) ==
    /\ \A i \in list : g.obj[i].inCheck
    /\ silent # None => silent \in list /\ g.obj[silent].check
    /\ LET dropped == {i \in list : ~ g.obj[i].check}
           thought == IF silent = None THEN g ELSE PingTimeout(g, silent)
       IN g' = Cleanup(Erased(thought, dropped))

\* An event of the output pool.  Sending changes nothing here.
SendAll ==
    /\ g.sendAlls > 0
    /\ LET h == [g EXCEPT !.sendAlls = @ - 1]
       IN g' = IF Sending(h) THEN ScheduleSendAll(h) ELSE h

-----------------------------------------------------------------------------
(* The network thread and the scheduler thread.                            *)

OnRecvFirstMessage(p) ==
    /\ g.conn[p] = "new"
    /\ g' = [g EXCEPT !.conn[p] = "open", !.tasks = Append(@, ATask("login", p, None))]

TakesPackets(h, p) == h.conn[p] = "open" /\ h.player[p] # None /\ h.acceptPackets[p]

\* One logout task of a client at a time bounds the queue.
ParseLogout(p) ==
    /\ TakesPackets(g, p)
    /\ ATask("logout", p, None) \notin ToSet(g.tasks)
    /\ g' = [g EXCEPT !.tasks = Append(@, ATask("logout", p, None))]

PeerCloses(p) ==
    /\ g.conn[p] = "open"
    /\ g' = Disconnect(g, p)

ConnectionDestroyed(p) ==
    /\ g.conn[p] = "closed"
    /\ g' = [g EXCEPT !.conn[p] = "gone"]

\* The event stays with the scheduler until it is due; its task is queued once.
EventConnect(p) ==
    /\ g.eventConnect[p] # None
    /\ ATask("connect", p, g.eventConnect[p]) \notin ToSet(g.tasks)
    /\ g' = [g EXCEPT !.tasks = Append(@, ATask("connect", p, g.eventConnect[p]))]

-----------------------------------------------------------------------------

Checks == \E list \in SUBSET Protocol : \E silent \in list \cup {None} : CheckCreatures(list, silent)

Client(p) == OnRecvFirstMessage(p) \/ ParseLogout(p) \/ PeerCloses(p) \/ ConnectionDestroyed(p)
World == RunTask \/ Checks \/ SendAll \/ \E i \in Protocol : Kick(i) \/ Dies(i)

SessionNext == World \/ \E p \in Protocol : Client(p) \/ EventConnect(p)
SessionSpec == SessionInit /\ [][SessionNext]_g

-----------------------------------------------------------------------------
(* Properties.                                                             *)

Placed == {i \in Protocol : g.obj[i].status = "placed"}
Holders(i) == {p \in Protocol : g.player[p] = i}
One(b) == IF b THEN 1 ELSE 0

(***************************************************************************)
(* The reference counter of a player is exact: one for the protocol that   *)
(* plays it, one for the map, one for the list of creatures to check, one  *)
(* for each time it waits in ToReleaseCreatures.  So it is deleted when    *)
(* nothing points at it any more, never before and never late.             *)
(***************************************************************************)
RefsExact ==
    \A i \in Protocol :
        /\ g.obj[i].refs = Cardinality(Holders(i)) + One(g.obj[i].status = "placed")
                           + One(g.obj[i].inCheck) + g.toRelease[i]
        /\ g.obj[i].status \in {"none", "deleted"} <=> g.obj[i].refs = 0

(***************************************************************************)
(* A character is in the world once and one protocol plays it, whatever    *)
(* logins, takeovers, closes and kicks of its clients are under way; and   *)
(* its client is a protocol that plays it. Kicking goes through the        *)
(* client: were the two ever apart, the loop of setGameState that kicks    *)
(* the first player until none is left would never end.                    *)
(***************************************************************************)
OneInWorld ==
    /\ \A i, j \in Placed : i = j
    /\ \A p, q \in Protocol : g.player[p] = g.player[q] /\ g.player[p] # None => p = q
    /\ \A i \in Placed : g.obj[i].owner # None => g.player[g.obj[i].owner] = i

IsReleased(p) ==
    g.conn[p] \in {"closed", "gone"} /\ ATask("release", p, None) \notin ToSet(g.tasks)

(***************************************************************************)
(* While a protocol is in the list of the output pool, a sendAll is due:   *)
(* the last event found the list empty and went, and the next protocol to  *)
(* join brings a new one. Otherwise clients would stay without output.     *)
(* Once released, a protocol is in that list no more, so nothing keeps it  *)
(* alive.                                                                  *)
(***************************************************************************)
AutosendServed ==
    /\ Sending(g) => g.sendAlls > 0
    /\ \A p \in Protocol : IsReleased(p) => g.autosend[p] = 0

(***************************************************************************)
(* Once released, a protocol has no player: "release() has been called at  *)
(* this point and the Connection object no longer exists, so we return to  *)
(* prevent leakage of the Player" (ProtocolGame::connect).                 *)
(***************************************************************************)
ReleasedHasNoPlayer == \A p \in Protocol : IsReleased(p) => g.player[p] = None

(***************************************************************************)
(* A client whose connection is open is never forgotten: it has its        *)
(* player, or its login is queued, or the event of its takeover is due,    *)
(* which will attach the player or disconnect it.                          *)
(***************************************************************************)
NoSilentClient ==
    \A p \in Protocol :
        g.conn[p] = "open" =>
            \/ g.player[p] # None
            \/ g.eventConnect[p] # None
            \/ ATask("login", p, None) \in ToSet(g.tasks)

\* Every client is served, before and after it has its player.
ClientsAreServed == AutosendServed /\ NoSilentClient
=============================================================================
