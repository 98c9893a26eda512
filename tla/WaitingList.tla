----------------------------- MODULE WaitingList -----------------------------
(***************************************************************************)
(* The queue in front of a full server (src/src/waitlist.cpp).  A client   *)
(* that finds no room is given a place in one of two lists, premium before *)
(* others, and is told when to try again; each attempt is one call of      *)
(* clientLogin by ProtocolGame::login, which puts the player on the map in *)
(* the same task if it is let in.                                          *)
(*                                                                         *)
(* The lists and their sizes are state of their own: a client that is let  *)
(* in from the priority list is erased through waitList, and with          *)
(* std::list of libstdc++ that unlinks the entry where it is but counts it *)
(* against the other list.                                                 *)
(***************************************************************************)
EXTENDS Integers, SequencesExt

CONSTANTS
    Player,
    Premium,        \* players with premium time
    AlwaysLogin,    \* PlayerFlag_CanAlwaysLogin or a gamemaster's account
    MaxPlayers,     \* ConfigManager::MAX_PLAYERS, not 0
    Timeout,        \* getTimeout(slot), the same for the first four slots
    MaxClock,       \* bound on the clock
    SizeModulus     \* std::size_t: 2^64 in the program

ASSUME WaitingListAssumption ==
    /\ IsFiniteSet(Player) /\ Premium \subseteq Player /\ AlwaysLogin \subseteq Player
    /\ MaxPlayers \in Nat \ {0} /\ Timeout \in Nat \ {0} /\ MaxClock \in Nat
    /\ SizeModulus \in Nat /\ SizeModulus > Cardinality(Player)

VARIABLES
    clock,              \* OTSYS_TIME()
    online,             \* the players on the map
    priorityWaitList,
    waitList,
    prioritySize,       \* priorityWaitList.size()
    waitSize            \* waitList.size()

lists == <<priorityWaitList, waitList, prioritySize, waitSize>>
vars == <<clock, online, lists>>

Wait == [guid : Player, timeout : 0 .. MaxClock + Timeout]

TypeOK ==
    /\ clock \in 0 .. MaxClock
    /\ online \subseteq Player
    /\ priorityWaitList \in Seq(Wait) /\ waitList \in Seq(Wait)
    /\ prioritySize \in 0 .. SizeModulus - 1 /\ waitSize \in 0 .. SizeModulus - 1

Init ==
    /\ clock = 0
    /\ online = {}
    /\ priorityWaitList = <<>> /\ waitList = <<>>
    /\ prioritySize = 0 /\ waitSize = 0

-----------------------------------------------------------------------------

\* The difference is unsigned, so it is <= 0 only when it is 0.
Stays(w) == w.timeout # clock
CleanupList(list) ==
    LET kept[n \in 0 .. Len(list)] ==
            IF n = 0 THEN <<>>
            ELSE IF Stays(list[n]) THEN Append(kept[n - 1], list[n]) ELSE kept[n - 1]
    IN kept[Len(list)]

InList(p, list) == \E i \in DOMAIN list : list[i].guid = p
IndexOf(p, list) == CHOOSE i \in DOMAIN list : list[i].guid = p
WithoutClient(p, list) == IF InList(p, list) THEN RemoveAt(list, IndexOf(p, list)) ELSE list

\* findClient: places are counted through both lists; 0 for no place.
FindClient(p, prio, wait) ==
    IF InList(p, prio) THEN IndexOf(p, prio)
    ELSE IF InList(p, wait) THEN Len(prio) + IndexOf(p, wait)
    ELSE 0

Extended(p, list) ==
    [i \in DOMAIN list |->
        IF list[i].guid = p THEN [list[i] EXCEPT !.timeout = clock + Timeout] ELSE list[i]]

Resized(size, by) == (size + by) % SizeModulus

\* Faulty: one place less is kept for those ahead.
HasRoom_OffByOne(slot) == Cardinality(online) + slot - 1 <= MaxPlayers
HasRoom(slot) == Cardinality(online) + slot <= MaxPlayers

LetIn(p) ==
    \/ p \in AlwaysLogin
    \/ priorityWaitList = <<>> /\ waitList = <<>> /\ Cardinality(online) < MaxPlayers

LoginAtOnce(p) ==
    /\ LetIn(p)
    /\ online' = online \cup {p}
    /\ UNCHANGED <<clock, lists>>

\* The lists after cleanupList, their sizes with them.
Prio == CleanupList(priorityWaitList)
Waiting == CleanupList(waitList)
PrioSize == Resized(prioritySize, Len(Prio) - Len(priorityWaitList))
WaitSize == Resized(waitSize, Len(Waiting) - Len(waitList))
Slot(p) == FindClient(p, Prio, Waiting)

\* Faulty: the client that is let in keeps its place.
Unlinked_Kept(p, list) == list
Unlinked(p, list) == WithoutClient(p, list)

LoginFromList(p) ==
    /\ ~ LetIn(p)
    /\ Slot(p) # 0 /\ HasRoom(Slot(p))
    /\ online' = online \cup {p}
    /\ priorityWaitList' = Unlinked(p, Prio)
    /\ waitList' = Unlinked(p, Waiting)
    /\ prioritySize' = PrioSize
    /\ waitSize' = Resized(WaitSize, -1)
    /\ UNCHANGED clock

WaitLonger(p) ==
    /\ ~ LetIn(p)
    /\ Slot(p) # 0 /\ ~ HasRoom(Slot(p))
    /\ priorityWaitList' = Extended(p, Prio)
    /\ waitList' = IF InList(p, Prio) THEN Waiting ELSE Extended(p, Waiting)
    /\ prioritySize' = PrioSize /\ waitSize' = WaitSize
    /\ UNCHANGED <<clock, online>>

Entry(p) == <<[guid |-> p, timeout |-> clock + Timeout]>>

\* Faulty: emplace_front.
Joined_AtFront(list, p) == Entry(p) \o list
Joined(list, p) == list \o Entry(p)

Enqueue(p) ==
    /\ ~ LetIn(p)
    /\ Slot(p) = 0
    /\ IF p \in Premium
       THEN /\ priorityWaitList' = Joined(Prio, p) /\ prioritySize' = Resized(PrioSize, 1)
            /\ waitList' = Waiting /\ waitSize' = WaitSize
       ELSE /\ waitList' = Joined(Waiting, p) /\ waitSize' = Resized(WaitSize, 1)
            /\ priorityWaitList' = Prio /\ prioritySize' = PrioSize
    /\ UNCHANGED <<clock, online>>

ClientLogin(p) ==
    /\ p \notin online
    /\ LoginAtOnce(p) \/ LoginFromList(p) \/ WaitLonger(p) \/ Enqueue(p)

LeaveMap(p) ==
    /\ p \in online
    /\ online' = online \ {p}
    /\ UNCHANGED <<clock, lists>>

Tick ==
    /\ clock < MaxClock
    /\ clock' = clock + 1
    /\ UNCHANGED <<online, lists>>

Next == Tick \/ \E p \in Player : ClientLogin(p) \/ LeaveMap(p)

Spec == Init /\ [][Next]_vars

\* Clients retry and players leave some time.
SpecPatient ==
    Spec /\ \A p \in Player : WF_vars(ClientLogin(p)) /\ WF_vars(LeaveMap(p))

-----------------------------------------------------------------------------
(* Properties.                                                             *)

Queue == priorityWaitList \o waitList

(***************************************************************************)
(* A client has one place in the two lists together, and none when it is   *)
(* on the map. Erasing a priority client through waitList leaves both      *)
(* sizes wrong, by one in opposite directions: their sum, from which the   *)
(* place of a client without premium time is reckoned, stays right,        *)
(* wrapped around or not.                                                  *)
(***************************************************************************)
OnePlace ==
    /\ \A i, j \in DOMAIN Queue : Queue[i].guid = Queue[j].guid => i = j
    /\ \A i \in DOMAIN Queue : Queue[i].guid \notin online
    /\ (prioritySize + waitSize) % SizeModulus = Len(Queue)

(***************************************************************************)
(* A client that is let in leaves room for everyone who waits ahead of it, *)
(* and a client that has no place is not let in before those who have one. *)
(***************************************************************************)
Ahead(p) == {i \in DOMAIN Queue :
                /\ Queue[i].guid # p
                /\ InList(p, Queue) => i < IndexOf(p, Queue)
                /\ Stays(Queue[i])}
RoomForThoseAhead ==
    [][\A p \in Player \ AlwaysLogin :
        p \in online' \ online => Cardinality(online') + Cardinality(Ahead(p)) <= MaxPlayers]_vars

(***************************************************************************)
(* A premium client that keeps trying gets in while no gamemaster takes    *)
(* the room.  (One without premium time may be overtaken for ever.)        *)
(***************************************************************************)
PremiumGetsIn == \A p \in Premium : InList(p, Queue) ~> p \in online

(***************************************************************************)
(* The timeout of a place is "15 seconds longer than expected retry        *)
(* attempt": an attempt to log in finds and leaves no place in the lists   *)
(* whose time has passed.                                                  *)
(***************************************************************************)
ExpiredLeave ==
    [][\A p \in Player : Enqueue(p) =>
        \A i \in DOMAIN Queue' : Queue'[i].timeout > clock]_vars
=============================================================================
