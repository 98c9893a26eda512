-------------------------------- MODULE Trade --------------------------------
(***************************************************************************)
(* The trade of two players (src/src/game.cpp, playerRequestTrade to       *)
(* internalCloseTrade) over the items they carry or have lying about.      *)
(*                                                                         *)
(* An offered item stays where it is until both have accepted.  What keeps *)
(* an offer honest are the notifications of every change of a tile, a      *)
(* container or an inventory: Player::onRemoveTileItem and the like close  *)
(* the trades the change concerns.  Players and items are all on one floor *)
(* of a street: positions are numbers.                                     *)
(***************************************************************************)
EXTENDS Players, Integers, FiniteSets, FiniteSetsExt

CONSTANTS
    Item,
    Container,      \* the items that are containers
    Stack,          \* the items of the one stackable kind; two always fit together
    Capacity,       \* Container::capacity
    Slots,          \* the slots of an inventory that take any item
    Street,         \* the positions
    Tile,           \* bound: the positions things may lie at
    MaxChanges      \* bound: the changes of items in all

ASSUME TradeAssumption ==
    /\ Container \subseteq Item /\ Stack \subseteq Item \ Container
    /\ IsFiniteSet(Item) /\ Capacity \in Nat /\ Slots \in Nat /\ MaxChanges \in Nat
    /\ Street \subseteq Nat /\ Tile \subseteq Street
    /\ None \notin Player \cup Item
    /\ Player \cap Item = {} /\ (Player \cup Item) \cap Street = {}

VARIABLES
    position,   \* of each player
    parent,     \* where each item is: in an inventory, a container or on a tile
    version,    \* stands for the id, the count and the attributes of an item
    deal        \* tradeState, tradePartner, tradeItem of each player; tradeItems

vars == <<position, parent, version, deal>>

Deal == [state : [Player -> {"none", "initiated", "acknowledge", "accept", "transfer"}],
         partner : [Player -> Player \cup {None}],
         item : [Player -> Item \cup {None}],
         tradeItems : SUBSET Item]

TypeOK ==
    /\ position \in [Player -> Street]
    /\ parent \in [Item -> Player \cup Container \cup Tile]
    /\ version \in [Item -> 0 .. MaxChanges]
    /\ deal \in Deal

NoDeal == [state |-> [p \in Player |-> "none"], partner |-> [p \in Player |-> None],
           item |-> [p \in Player |-> None], tradeItems |-> {}]

\* The players stand together where the things lie; nobody carries anything.
Init ==
    /\ \E x \in Tile : /\ position = [p \in Player |-> x]
                       /\ parent = [i \in Item |-> x]
    /\ version = [i \in Item |-> 0]
    /\ deal = NoDeal

-----------------------------------------------------------------------------
(* The tree of items.                                                      *)

\* The cylinders above an item, up to the player or the tile: it and the least
\* set of containers that has with each the one it is in lie in them.
Above(i, par) ==
    LET Closed(S) == \A k \in {i} \cup S : par[k] \in Container => par[k] \in S
        containers == {c \in Container : \A S \in SUBSET Container : Closed(S) => c \in S}
    IN {par[k] : k \in {i} \cup containers}
IsHolding(c, i, par) == c \in Above(i, par)
TheOne(S) == CHOOSE c \in S : TRUE
TopParent(i, par) == TheOne(Above(i, par) \ Item)
Place(i, par) == IF TopParent(i, par) \in Player THEN position[TopParent(i, par)] ELSE TopParent(i, par)
In(c, par) == {i \in Item : par[i] = c}

InRange(x, y, d) == x - y \in -d .. d
Near(p, x, d) == InRange(position[p], x, d)

-----------------------------------------------------------------------------
(* Closing a trade, and the changes that do.                               *)

\* internalCloseTrade, of each of P: trades are pairs, it matters not who is first.
Pair(p, d) == {p} \cup ({d.partner[p]} \cap Player)
Close(P, d) ==
    LET closed == UNION {Pair(p, d) : p \in {q \in P : \A r \in Pair(q, d) : d.state[r] # "transfer"}}
    IN [state |-> [r \in Player |-> IF r \in closed THEN "none" ELSE d.state[r]],
        partner |-> [r \in Player |-> IF r \in closed THEN None ELSE d.partner[r]],
        item |-> [r \in Player |-> IF r \in closed THEN None ELSE d.item[r]],
        tradeItems |-> d.tradeItems \ {d.item[r] : r \in closed}]
CloseTrade(p, d) == Close({p}, d)

\* Those of P whose offer the change concerns close their trades.
CloseTrades(P, d, concerned) == Close({p \in P : d.item[p] \in concerned}, d)

Spectators(c, par) == {p \in Player : Near(p, Place(c, par), 2)}

\* Faulty: only the item itself is looked at, not the containers above it.
CheckTradeState_ItemOnly(i, offered, par) == offered = i
\* checkTradeState: the item, or something inside it.
CheckTradeState(i, offered, par) == offered = i \/ IsHolding(offered, i, par)

\* onRemoveTileItem, onRemoveContainerItem, onRemoveInventoryItem.
OnRemove(i, par, d) ==
    LET c == par[i]
    IN IF c \in Player
       THEN CloseTrades({c}, d, {o \in Item : CheckTradeState(i, o, par) \/ IsHolding(i, o, par)})
       ELSE IF c \in Item
       THEN CloseTrades(Spectators(c, par), d,
                {o \in Item : CheckTradeState(i, o, par) \/ (par[o] # c /\ IsHolding(c, o, par))})
       ELSE CloseTrades(Player, d, {o \in Item : CheckTradeState(i, o, par) \/ IsHolding(i, o, par)})

\* onAddContainerItem; nothing looks at trades when a tile or a slot gets an item.
OnAdd(i, par, d) ==
    IF par[i] \in Item
    THEN CloseTrades(Spectators(par[i], par), d, {o \in Item : CheckTradeState(i, o, par)})
    ELSE d

\* onUpdateTileItem, onUpdateContainerItem, onUpdateInventoryItem.
OnUpdate(i, par, d) ==
    LET c == par[i]
    IN IF c \in Player THEN CloseTrades({c}, d, {o \in Item : CheckTradeState(i, o, par)})
       ELSE IF c \in Item THEN CloseTrades(Spectators(c, par), d, {o \in Item : CheckTradeState(i, o, par)})
       ELSE CloseTrades(Player, d, {i})

\* The deals after item i has moved from where par has it to c.
OnMove(i, c, par, d) == OnAdd(i, [par EXCEPT ![i] = c], OnRemove(i, par, d))

-----------------------------------------------------------------------------
(* Requesting and accepting.                                               *)

Reaches(p, i) == TopParent(i, parent) \in {p} \cup Tile /\ Near(p, Place(i, parent), 1)

\* Faulty: an item inside an offered container is not looked for.
Offered_Inside(i) == i \in deal.tradeItems \/ \E o \in deal.tradeItems : IsHolding(i, o, parent)
Offered(i) ==
    \E o \in deal.tradeItems : o = i \/ IsHolding(i, o, parent) \/ IsHolding(o, i, parent)

\* Faulty: the partner may be busy with a third player.
MayTrade_Busy(p, q) ==
    deal.state[p] = "none" \/ (deal.state[p] = "acknowledge" /\ deal.partner[p] = q)
MayTrade(p, q) ==
    /\ deal.state[p] = "none" \/ (deal.state[p] = "acknowledge" /\ deal.partner[p] = q)
    /\ deal.state[q] = "none" \/ deal.partner[q] = p

StartTrade(p, q, i) ==
    deal' = [deal EXCEPT
                !.state[p] = "initiated",
                !.state[q] = IF @ = "none" THEN "acknowledge" ELSE @,
                !.partner[p] = q,
                !.partner[q] = IF deal.state[q] = "none" THEN p ELSE @,
                !.item[p] = i,
                !.tradeItems = @ \cup {i}]

RequestTrade(p, q, i) ==
    /\ p # q /\ Near(p, position[q], 2)
    /\ Reaches(p, i)
    /\ ~ Offered(i)
    /\ MayTrade(p, q)
    /\ StartTrade(p, q, i)
    /\ UNCHANGED <<position, parent, version>>

Accepts(p) == deal.state[p] \in {"acknowledge", "initiated"} /\ deal.partner[p] # None

AcceptFirst(p) ==
    /\ Accepts(p) /\ deal.state[deal.partner[p]] # "accept"
    /\ deal' = [deal EXCEPT !.state[p] = "accept"]
    /\ UNCHANGED <<position, parent, version>>

\* onTradeAccept returns false.
AcceptRefused(p) ==
    /\ Accepts(p) /\ deal.state[deal.partner[p]] = "accept"
    /\ deal' = CloseTrade(p, deal)
    /\ UNCHANGED <<position, parent, version>>

(* Room for an item.  Player::queryDestination takes an empty slot, else   *)
(* the first container with room, past the top-level item on offer.        *)

Searched(p, par) ==
    {c \in Container : IsHolding(p, c, par)
                       /\ deal.item[p] # c
                       /\ ~ (par[deal.item[p]] = p /\ IsHolding(deal.item[p], c, par))}
SearchedAll(p, par) == {c \in Container : IsHolding(p, c, par)}
Destinations(p, i, par) ==
    IF Cardinality(In(p, par)) < Slots THEN {p}
    ELSE {c \in IF deal.item[p] = None THEN SearchedAll(p, par) ELSE Searched(p, par) :
            /\ Cardinality(In(c, par)) < Capacity
            /\ c # i /\ ~ IsHolding(i, c, par)}

\* The test of internalAddItem may count on a stack to take the item.
Stacks(p, i, par) ==
    i \in Stack /\ \E j \in Stack \ {i, deal.item[p]} : TopParent(j, par) = p
\* Faulty: the room is not tested.
HasRoom_Untested(p, i) == TRUE
HasRoom(p, i) == Destinations(p, i, parent) # {} \/ Stacks(p, i, parent)

(* The transfer.  It moves with FLAG_IGNOREAUTOSTACK, and what becomes of  *)
(* the second item is not looked at.                                       *)

Transferring(p, q) == [deal EXCEPT !.state[p] = "transfer", !.state[q] = "transfer",
                                   !.tradeItems = @ \ {deal.item[p], deal.item[q]}]
TradeOver(p, q, d) ==
    [d EXCEPT !.state[p] = "none", !.state[q] = "none", !.item[p] = None, !.item[q] = None,
              !.partner[p] = None, !.partner[q] = None]

RoomFor(q, i, j) == {c \in Destinations(q, i, parent) : c # j /\ (c \in Item => ~ IsHolding(j, c, parent))}

\* No room or too heavy for one of them, or one has offered nothing.
AcceptFails(p) ==
    LET q == deal.partner[p]
    IN /\ Accepts(p) /\ deal.state[q] = "accept"
       /\ deal' = TradeOver(p, q, Transferring(p, q))
       /\ UNCHANGED <<position, parent, version>>

Transfer(p) ==
    LET q == deal.partner[p]
        i == deal.item[p]
        j == deal.item[q]
    IN /\ Accepts(p) /\ deal.state[q] = "accept"
       /\ i # None /\ j # None
       /\ HasRoom(q, i) /\ HasRoom(p, j)
       /\ \E c \in RoomFor(q, i, j) :
            LET first == [parent EXCEPT ![i] = c]
                d == OnMove(i, c, parent, Transferring(p, q))
            IN IF Destinations(p, j, first) = {}
               THEN /\ parent' = first
                    /\ deal' = TradeOver(p, q, d)
               ELSE \E e \in Destinations(p, j, first) :
                    /\ parent' = [first EXCEPT ![j] = e]
                    /\ deal' = TradeOver(p, q, OnMove(j, e, first, d))
       /\ UNCHANGED <<position, version>>

AcceptTrade(p) == AcceptFirst(p) \/ AcceptRefused(p) \/ AcceptFails(p) \/ Transfer(p)

\* playerCloseTrade, and onRemoveCreature when the player leaves the world.
PlayerCloseTrade(p) ==
    /\ deal.partner[p] # None
    /\ deal' = CloseTrade(p, deal)
    /\ UNCHANGED <<position, parent, version>>

-----------------------------------------------------------------------------
(* What else goes on in the world.                                         *)

TooFar(p, x) ==
    \/ deal.partner[p] # None /\ ~ InRange(position[deal.partner[p]], x, 2)
    \/ deal.item[p] # None /\ TopParent(deal.item[p], parent) # p
       /\ ~ InRange(Place(deal.item[p], parent), x, 1)

\* Player::onCreatureMove, of the one that moves.
Walk(p, x) ==
    /\ x # position[p] /\ InRange(position[p], x, 1)
    /\ position' = [position EXCEPT ![p] = x]
    /\ deal' = IF TooFar(p, x) THEN CloseTrade(p, deal) ELSE deal
    /\ UNCHANGED <<parent, version>>

Takes(p, c, i) ==
    CASE c \in Player -> c = p /\ Cardinality(In(p, parent)) < Slots
      [] c \in Container -> /\ Reaches(p, c) /\ Cardinality(In(c, parent)) < Capacity
                            /\ c # i /\ ~ IsHolding(i, c, parent)
      [] c \in Tile -> TRUE

\* playerMoveItem: to a slot, a container in reach or a tile to throw it at.
MoveItem(p, i, c) ==
    /\ Reaches(p, i) /\ parent[i] # c /\ Takes(p, c, i)
    /\ parent' = [parent EXCEPT ![i] = c]
    /\ deal' = OnMove(i, c, parent, deal)
    /\ UNCHANGED <<position, version>>

\* Game::transformItem: an item decays, is used up, split or written on.
TransformItem(i) ==
    /\ MapThenSumSet(LAMBDA k : version[k], Item) < MaxChanges
    /\ version' = [version EXCEPT ![i] = @ + 1]
    /\ deal' = OnUpdate(i, parent, deal)
    /\ UNCHANGED <<position, parent>>

-----------------------------------------------------------------------------

Next ==
    \/ \E p, q \in Player, i \in Item : RequestTrade(p, q, i)
    \/ \E p \in Player : AcceptTrade(p) \/ PlayerCloseTrade(p)
    \/ \E p \in Player, x \in Street : Walk(p, x)
    \/ \E p \in Player, i \in Item, c \in Player \cup Container \cup Tile : MoveItem(p, i, c)
    \/ \E i \in Item : TransformItem(i)

Spec == Init /\ [][Next]_vars

-----------------------------------------------------------------------------
(* Properties.                                                             *)

(***************************************************************************)
(* Trades are pairs: two players within call name each other and nobody is *)
(* drawn into a third one's trade, whoever requests, accepts, walks off or *)
(* closes. Two acceptances never wait for each other.                      *)
(***************************************************************************)
TradesArePairs ==
    \A p \in Player :
        /\ deal.state[p] = "none" <=> deal.partner[p] = None
        /\ deal.partner[p] # None =>
              deal.partner[deal.partner[p]] = p /\ Near(p, position[deal.partner[p]], 2)
        /\ deal.state[p] = "accept" => deal.state[deal.partner[p]] \in {"initiated", "acknowledge"}

(***************************************************************************)
(* tradeItems is what is on offer, each item offered once, in its owner's  *)
(* reach, and none inside another: no item can be sold twice, on its own   *)
(* and with its bag, or from afar.                                         *)
(***************************************************************************)
OfferedOnce ==
    /\ deal.tradeItems = {deal.item[p] : p \in Player} \ {None}
    /\ \A p \in Player : deal.item[p] # None => Reaches(p, deal.item[p])
    /\ \A p, q \in Player : deal.item[p] # None /\ deal.item[q] # None /\ p # q =>
        deal.item[p] # deal.item[q] /\ ~ IsHolding(deal.item[p], deal.item[q], parent)

\* TradesArePairs and OfferedOnce: the two records of a trade, the items on offer
\* and where they and the players are fit together.
TradesAgree == TradesArePairs /\ OfferedOnce

(***************************************************************************)
(* What is on offer is what was shown: while an item is offered, neither   *)
(* it nor anything inside it is moved, added, removed or changed, by the   *)
(* two or by anyone else.                                                  *)
(***************************************************************************)
Shown(i) == {<<k, parent[k], version[k]>> : k \in {k \in Item : k = i \/ IsHolding(i, k, parent)}}
OfferStands ==
    [][\A i \in deal.tradeItems :
        (\E p \in Player : deal.item[p] = i /\ deal'.item[p] = i) => Shown(i)' = Shown(i)]_vars

(***************************************************************************)
(* A transfer is a swap: if the first item goes, the other comes, unless   *)
(* it is a stack.  (The test lets a stack count on another to join, the    *)
(* move does not: without a free place the second stack stays where it is  *)
(* and the trade has given the first item away.)                           *)
(***************************************************************************)
Holder(i) == TopParent(i, parent)
TransferIsSwap ==
    [][\A p \in {r \in Player : deal.partner[r] # None} :
        \A q \in {deal.partner[p]}, i \in {deal.item[p]} : \A j \in {deal.item[q]} :
            deal'.partner[p] = None /\ Transfer(p) =>
                j \in Stack \/ (Holder(i)' = q /\ Holder(j)' = p)]_vars
=============================================================================
