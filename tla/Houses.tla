------------------------------- MODULE Houses -------------------------------
(***************************************************************************)
(* Houses, who owns them, who may come in and who sleeps there             *)
(* (src/src/house.cpp, housetile.cpp, bed.cpp, and their callers in        *)
(* game.cpp, player.cpp, map.cpp and the House methods of luascript.cpp).  *)
(*                                                                         *)
(* Who is on a house tile was let in when he came; the lists and the owner *)
(* change later.  A sleeper is on the bed and in the map of sleepers, and  *)
(* is logged out a moment after he lies down.  A house is sold with a      *)
(* document that is traded like an item: it was made out when the seller   *)
(* owned the house and the buyer had none.                                 *)
(*                                                                         *)
(* Each house has one bed; its two halves change together.  Rents, items   *)
(* in houses, the lists of doors, guilds on lists and players who may edit *)
(* every house are left out.                                               *)
(***************************************************************************)
EXTENDS Players, FiniteSets, Sequences, SequencesExt

CONSTANTS
    House,
    OpenHouse       \* those that are entered, with lists and beds

ASSUME HousesAssumption ==
    /\ OpenHouse \subseteq House
    /\ None \notin Player \cup House /\ "outside" \notin House

VARIABLES
    owner,          \* of each house
    lists,          \* of each house: its guests and subowners
    online,         \* the players in the game
    whereIs,        \* of each player: a house or "outside"; kept while he is away
    sleeper,        \* of the bed of each house
    bedSleepersMap, \* of each player: the house in whose bed he sleeps
    kicks,          \* players whose kick is scheduled
    transferItem,   \* of each house: None, or from whom and to whom it is offered
    outsiders,      \* history: who lay down in a bed uninvited, over the wall
    late            \* history: who got a house by a document that was no longer true

housesVars == <<owner, lists, online, whereIs, sleeper, bedSleepersMap, kicks, transferItem, outsiders, late>>

ListId == {"guest", "subowner"}
NoLists == [l \in ListId |-> {}]

HousesInit ==
    /\ owner = [h \in House |-> None]
    /\ lists = [h \in House |-> NoLists]
    /\ online = Player
    /\ whereIs = [p \in Player |-> "outside"]
    /\ sleeper = [h \in House |-> None]
    /\ bedSleepersMap = [p \in Player |-> None]
    /\ kicks = {}
    /\ transferItem = [h \in House |-> None]
    /\ outsiders = {} /\ late = {}

\* The books that one call changes together.
Estate == [owner |-> owner, list |-> lists, online |-> online, at |-> whereIs, sleeper |-> sleeper,
           map |-> bedSleepersMap, kicks |-> kicks, doc |-> transferItem, out |-> outsiders, late |-> late]
Enact(b) ==
    /\ owner' = b.owner /\ lists' = b.list /\ online' = b.online /\ whereIs' = b.at
    /\ sleeper' = b.sleeper /\ bedSleepersMap' = b.map /\ kicks' = b.kicks
    /\ transferItem' = b.doc /\ outsiders' = b.out /\ late' = b.late

-----------------------------------------------------------------------------
(* Functions of the code.                                                  *)

GetHouseAccessLevel(b, h, p) ==
    IF p = b.owner[h] THEN 3
    ELSE IF p \in b.list[h]["subowner"] THEN 2
    ELSE IF p \in b.list[h]["guest"] THEN 1 ELSE 0
IsInvited(b, h, p) == GetHouseAccessLevel(b, h, p) # 0

CanEditAccessList(b, h, l, p) ==
    \/ GetHouseAccessLevel(b, h, p) = 3
    \/ GetHouseAccessLevel(b, h, p) = 2 /\ l = "guest"

\* internalTeleport to the entry
ToEntry(b, ps) == [b EXCEPT !.at = [p \in Player |-> IF p \in ps THEN "outside" ELSE @[p]]]
Inside(b, h) == {p \in b.online : b.at[p] = h}

\* Faulty: nobody is sent away.
SetAccessList_NoKick(b, h, l, ps) == [b EXCEPT !.list[h][l] = ps]
SetAccessList(b, h, l, ps) ==
    LET set == [b EXCEPT !.list[h][l] = ps]
    IN ToEntry(set, {p \in Inside(set, h) : ~IsInvited(set, h, p)})

WakeUp(b, h) ==
    [b EXCEPT !.sleeper[h] = None, !.out = @ \ {b.sleeper[h]},
              !.map = [p \in Player |-> IF p = b.sleeper[h] THEN None ELSE @[p]]]

\* setOwner: an old owner leaves a clean house, with nobody in it and no lists.
Vacate(b, h) ==
    LET kicked == ToEntry(b, Inside(b, h))
        woken == IF kicked.sleeper[h] # None THEN WakeUp(kicked, h) ELSE kicked
        left == [woken EXCEPT !.owner[h] = None]
    IN SetAccessList(SetAccessList(left, h, "subowner", {}), h, "guest", {})
SetOwner(b, h, p) ==
    IF b.owner[h] = p THEN b
    ELSE LET vacated == IF b.owner[h] # None THEN Vacate(b, h) ELSE b
         IN [vacated EXCEPT !.owner[h] = p]

ResetTransferItem(b, h) == [b EXCEPT !.doc[h] = None]

Owns(b, p) == \E h \in House : b.owner[h] = p
Trading(b, p) == \E h \in House : b.doc[h] # None /\ p \in {b.doc[h].from, b.doc[h].to}

\* executeTransfer
ExecuteTransfer(b, h) ==
    LET doc == b.doc[h]
        stale == b.owner[h] # doc.from \/ Owns(b, doc.to)
    IN [SetOwner(b, h, doc.to) EXCEPT !.doc[h] = None,
                                      !.late = IF stale THEN @ \cup {doc.to} ELSE @]

\* Game::removeCreature of a player: his trade is closed, his place is kept.
LogOut(b, p) ==
    LET closed == [b EXCEPT !.doc = [h \in House |->
                      IF @[h] # None /\ p \in {@[h].from, @[h].to} THEN None ELSE @[h]]]
    IN [closed EXCEPT !.online = @ \ {p}, !.kicks = @ \ {p}]

\* Map::placeCreature and HouseTile::queryDestination, then onCreatureAppear.
LogIn(b, p) ==
    LET to == IF b.at[p] \in House /\ ~IsInvited(b, b.at[p], p) THEN "outside" ELSE b.at[p]
        placed == [b EXCEPT !.online = @ \cup {p}, !.at[p] = to]
    IN IF b.map[p] # None THEN WakeUp(placed, b.map[p]) ELSE placed

\* BedItem::sleep, of one who is in the house or stands at its wall.
Sleep(b, h, p) ==
    [b EXCEPT !.sleeper[h] = p, !.map[p] = h, !.at[p] = h, !.kicks = @ \cup {p},
              !.out = IF IsInvited(b, h, p) THEN @ ELSE @ \cup {p}]

-----------------------------------------------------------------------------
(* The steps of the dispatcher's thread.                                   *)

\* onStepIn of a house tile, HouseTile::queryAdd
PlayerEnters(p, h) ==
    /\ p \in online /\ whereIs[p] = "outside" /\ IsInvited(Estate, h, p)
    /\ Enact([Estate EXCEPT !.at[p] = h])
PlayerLeaves(p) ==
    /\ p \in online /\ whereIs[p] \in House
    /\ Enact([Estate EXCEPT !.at[p] = "outside"])

PlayerLogsOut(p) == p \in online /\ Enact(LogOut(Estate, p))
PlayerLogsIn(p) == p \notin online /\ Enact(LogIn(Estate, p))

\* playerUpdateHouseWindow: who may edit is looked at when the text comes back.
PlayerUpdateHouseWindow(p, h, l, ps) ==
    /\ p \in online /\ CanEditAccessList(Estate, h, l, p)
    /\ Enact(SetAccessList(Estate, h, l, ps))

KickGuest(p, t, h) ==
    /\ {p, t} \subseteq online /\ whereIs[t] = h
    /\ GetHouseAccessLevel(Estate, h, p) >= GetHouseAccessLevel(Estate, h, t)
    /\ Enact(ToEntry(Estate, {t}))

\* The scripts buyhouse.lua and leavehouse.lua
BuyHouse(p, h) ==
    /\ p \in online /\ whereIs[p] = "outside" /\ owner[h] = None /\ ~Owns(Estate, p)
    /\ Enact(SetOwner(Estate, h, p))
LeaveHouse(p, h) ==
    /\ p \in online /\ (h \in OpenHouse => whereIs[p] = h) /\ owner[h] = p
    /\ Enact(SetOwner(Estate, h, None))

\* internalUseItem of a bed.  Who has just used one waits longer for his next
\* action than for his kick.
UseBed(p, h) ==
    /\ p \in online /\ whereIs[p] \in {h, "outside"} /\ p \notin kicks /\ sleeper[h] = None
    /\ Enact(Sleep(Estate, h, p))
KickSleeper(p) == p \in kicks /\ Enact(LogOut(Estate, p))

\* luaHouseStartTrade
StartTrade(p, t, h) ==
    /\ p # t /\ {p, t} \subseteq online /\ owner[h] = p /\ ~Owns(Estate, t)
    /\ transferItem[h] = None /\ ~Trading(Estate, p) /\ ~Trading(Estate, t)
    /\ Enact([Estate EXCEPT !.doc[h] = [from |-> p, to |-> t]])
AcceptTrade(h) == transferItem[h] # None /\ Enact(ExecuteTransfer(Estate, h))
CloseTrade(h) == transferItem[h] # None /\ Enact(ResetTransferItem(Estate, h))

HousesNext ==
    \/ \E p \in Player : PlayerLeaves(p) \/ PlayerLogsOut(p) \/ PlayerLogsIn(p) \/ KickSleeper(p)
    \/ \E p \in Player, h \in House :
        \/ BuyHouse(p, h) \/ LeaveHouse(p, h)
        \/ \E t \in Player : StartTrade(p, t, h)
    \/ \E p \in Player, h \in OpenHouse :
        \/ PlayerEnters(p, h) \/ UseBed(p, h)
        \/ \E t \in Player : KickGuest(p, t, h)
        \/ \E l \in ListId, ps \in SUBSET Player : PlayerUpdateHouseWindow(p, h, l, ps)
    \/ \E h \in House : AcceptTrade(h) \/ CloseTrade(h)

HousesSpec == HousesInit /\ [][HousesNext]_housesVars

-----------------------------------------------------------------------------
(* Properties.                                                             *)

\* Whoever is on a tile of a house has been invited and still is, although the
\* lists and the owner have changed since he came in; only a bed lets in others.
InsideAreInvited ==
    \A p \in online : whereIs[p] \in House => IsInvited(Estate, whereIs[p], p) \/ p \in kicks

\* Beds and the map of sleepers say the same, and whoever sleeps has left the
\* game or is about to.
SleepersAgree ==
    /\ \A p \in Player, h \in House : bedSleepersMap[p] = h <=> sleeper[h] = p
    /\ \A h \in House : sleeper[h] # None => sleeper[h] \notin online \/ sleeper[h] \in kicks

\* A house without owner has no lists, and nobody sleeps there who was let in.
VacatedIsClean ==
    \A h \in House : owner[h] = None => lists[h] = NoLists /\ sleeper[h] \in outsiders \cup {None}

\* Nobody owns two houses, unless a document gave him one when it was no longer
\* true: it is not looked at again when the trade is accepted.
OneHouseEach ==
    \A h, k \in House : owner[h] = owner[k] /\ owner[h] # None => h = k \/ owner[h] \in late

\* The four together: owners, lists, beds and people in a house agree whatever
\* the order of visits, sales, edits, naps and logins.
HousesAgree == InsideAreInvited /\ SleepersAgree /\ VacatedIsClean /\ OneHouseEach
=============================================================================
