-------------------------------- MODULE Items --------------------------------
(***************************************************************************)
(* How items move: the cylinders of a player, of containers and of the     *)
(* floor, and Game::internalMoveItem, internalAddItem, internalRemoveItem  *)
(* (src/src/game.cpp) over their queries (src/src/player.cpp, container.cpp*)
(* and tile.cpp).                                                          *)
(*                                                                         *)
(* Three asks precede each change: where does it go, may it go there and   *)
(* how much of it fits.  The weight of a container is cached and kept up   *)
(* by differences, that of an inventory is counted anew after each change. *)
(*                                                                         *)
(* Things of the same kind and count are not told apart; what a cylinder   *)
(* holds is a bag of them, since the order in a container only decides     *)
(* which of several places is found first.                                 *)
(***************************************************************************)
EXTENDS Base, Integers, BagsExt, SequencesExt

CONSTANTS
    StackKind,      \* the kinds of items that stack
    SingleKind,     \* those that do not
    Container,      \* the containers; each is a kind of its own
    StackMax,       \* 100 in the code
    Capacity,       \* Container::capacity
    Strength,       \* the weight a player can carry
    AddAmount,      \* bound: how many pieces are added at a time
    MaxAdds         \* bound: the additions in all

ASSUME ItemsAssumption ==
    /\ {StackMax, Capacity} \subseteq Nat \ {0}
    /\ Strength \in Nat /\ MaxAdds \in Nat /\ AddAmount \subseteq 1 .. StackMax
    /\ None \notin StackKind \cup SingleKind \cup Container

VARIABLES
    world,          \* where everything is, with the weights that are cached
    adds,           \* bound: the additions so far
    said            \* history: pieces of each kind that callers were told to be there

itemsVars == <<world, adds, said>>

ItemKind == StackKind \cup SingleKind \cup Container
Slot == {"backpack", "hand"}
Thing == [kind : StackKind, count : 1 .. StackMax] \cup [kind : SingleKind \cup Container, count : {1}]
World == [slot : [Slot -> Thing \cup {None}],
          bag : [Container \cup {"floor"} -> SubBag(SetToBag({}))],
          weight : [Container -> Int],  \* Container::totalWeight
          carried : Int]                \* Player::inventoryWeight

Stackable(t) == t.kind \in StackKind
IsContainer(t) == t.kind \in Container
SmallerOf(a, b) == IF a < b THEN a ELSE b
LargerOf(a, b) == IF a > b THEN a ELSE b

-----------------------------------------------------------------------------
(* The tree of cylinders: "player", "floor" and the containers.            *)

In(w, cyl) ==
    IF cyl = "player" THEN {w.slot[s] : s \in Slot} \ {None} ELSE BagToSet(w.bag[cyl])
ParentOf(w, c) ==
    IF \E d \in Container : [kind |-> c, count |-> 1] \in In(w, d)
    THEN CHOOSE d \in Container : [kind |-> c, count |-> 1] \in In(w, d)
    ELSE IF [kind |-> c, count |-> 1] \in In(w, "player") THEN "player" ELSE "floor"
\* A cylinder and those above it.
Upwards(w, cyl) ==
    LET up[n \in 0 .. Cardinality(Container)] ==
            IF n = 0 THEN {cyl} ELSE up[n - 1] \cup {ParentOf(w, c) : c \in up[n - 1] \cap Container}
    IN up[Cardinality(Container)]
Held(w, cyl) == "player" \in Upwards(w, cyl)
Size(w, c) == BagCardinality(w.bag[c])

\* Item::getWeight, Container::getWeight
Weight(w, t) == IF IsContainer(t) THEN 1 + w.weight[t.kind] ELSE t.count
\* updateItemWeight
UpdateItemWeight(w, cyl, diff) ==
    [w EXCEPT !.weight = [c \in Container |-> IF c \in Upwards(w, cyl) THEN @[c] + diff ELSE @[c]]]

\* updateInventoryWeight, from the notifications after a change of cyl.
Notify(w, cyl) ==
    IF Held(w, cyl)
    THEN [w EXCEPT !.carried = MapThenSumSet(LAMBDA s : IF w.slot[s] = None THEN 0 ELSE Weight(w, w.slot[s]), Slot)]
    ELSE w

\* addThing: at the front of a container, and not at all past its end.
AddThing(w, cyl, index, t) ==
    IF cyl = "player" THEN [w EXCEPT !.slot[index] = t]
    ELSE IF cyl \in Container /\ index = "beyond" THEN w
    ELSE UpdateItemWeight([w EXCEPT !.bag[cyl] = @ (+) SetToBag({t})], cyl, Weight(w, t))

TakeOut(w, cyl, index, t) ==
    IF cyl = "player" THEN [w EXCEPT !.slot[index] = None]
    ELSE UpdateItemWeight([w EXCEPT !.bag[cyl] = @ (-) SetToBag({t})], cyl, -Weight(w, t))

\* updateThing: the count of t changes.
UpdateThing(w, cyl, index, t, count) ==
    AddThing(TakeOut(w, cyl, index, t), cyl, index, [t EXCEPT !.count = count])

\* Faulty: a part that is taken from a stack does not lighten the container.
RemoveThing_Weightless(w, cyl, index, t, m) ==
    IF Stackable(t) /\ m # t.count
    THEN IF cyl = "player" THEN UpdateThing(w, cyl, index, t, t.count - m)
         ELSE [w EXCEPT !.bag[cyl] = (@ (-) SetToBag({t})) (+) SetToBag({[t EXCEPT !.count = @ - m]})]
    ELSE TakeOut(w, cyl, index, t)
RemoveThing(w, cyl, index, t, m) ==
    IF Stackable(t) /\ m # t.count THEN UpdateThing(w, cyl, index, t, t.count - m)
    ELSE TakeOut(w, cyl, index, t)

-----------------------------------------------------------------------------
(* The queries.  A place is a cylinder, an index in it (a slot, "index" for *)
(* a place in a container, "wherever") and the item found there.           *)

Spot(cyl, index, toItem) == [cyl |-> cyl, index |-> index, toItem |-> toItem]
Partial(w, cyl, t) == {u \in In(w, cyl) : u.kind = t.kind /\ u.count < StackMax}

\* hasCapacity; from is where the item is, or None.
HasCapacity(w, from, t, count) ==
    \/ from # None /\ Held(w, from)
    \/ Weight(w, [t EXCEPT !.count = count]) <= Strength - w.carried

Fits(s, t) == s = "backpack" => IsContainer(t)

\* queryAdd
QueryAdd(w, from, place, t, count) ==
    CASE place.cyl = "floor" -> "ok"
      [] place.cyl = "player" ->
            IF place.index = "wherever" \/ ~Fits(place.index, t) THEN "no"
            ELSE LET u == w.slot[place.index]
                 IN IF u # None /\ (~Stackable(u) \/ u.kind # t.kind) THEN "exchange"
                    ELSE IF HasCapacity(w, from, t, count) THEN "ok" ELSE "no"
      [] OTHER ->
            IF \/ t.kind \in Upwards(w, place.cyl)
               \/ place.index = "wherever" /\ Size(w, place.cyl) >= Capacity
               \/ Held(w, place.cyl) /\ ~HasCapacity(w, from, t, count)
            THEN "no" ELSE "ok"

Takes(w, from, place, t, count) == QueryAdd(w, from, place, t, count) = "ok"
Remainder(u) == StackMax - u.count

\* Container::queryMaxCount
ContainerMaxCount(w, from, place, t) ==
    LET c == place.cyl
        free == LargerOf(0, Capacity - Size(w, c))
        merges == IF place.index = "wherever"
                  THEN LET others == IF from = c THEN w.bag[c] (-) SetToBag({t}) ELSE w.bag[c]
                           usable == {u \in Partial(w, c, t) \cap BagToSet(others) :
                                          Takes(w, from, Spot(c, "index", u), t, Remainder(u))}
                       IN MapThenSumSet(LAMBDA u : CopiesIn(u, others) * Remainder(u), usable)
                  ELSE LET u == place.toItem
                       IN IF u \in Partial(w, c, t) /\ Takes(w, from, place, t, Remainder(u))
                          THEN Remainder(u) ELSE 0
    IN IF Stackable(t) THEN free * StackMax + merges ELSE free

\* Player::queryMaxCount at a slot
SlotMaxCount(w, from, s, t, count) ==
    LET u == w.slot[s]
    IN IF u # None THEN IF Stackable(u) /\ u.kind = t.kind THEN Remainder(u) ELSE 0
       ELSE IF Takes(w, from, Spot("player", s, None), t, count)
            THEN IF Stackable(t) THEN StackMax ELSE 1
            ELSE 0

Carried(w) == {c \in Container : Held(w, c)}

\* Player::queryMaxCount with INDEX_WHEREEVER: the slots and everything below.
InventoryMaxCount(w, t) ==
    MapThenSumSet(LAMBDA s : IF w.slot[s] # None /\ ~(w.slot[s] \in Partial(w, "player", t)
                                  /\ Takes(w, None, Spot("player", s, w.slot[s]), t, Remainder(w.slot[s])))
                             THEN 0 ELSE SlotMaxCount(w, None, s, t, t.count), Slot)
    + MapThenSumSet(LAMBDA c : ContainerMaxCount(w, None, Spot(c, "wherever", None), t), Carried(w))

MaxCount(w, from, place, t, count) ==
    CASE place.cyl = "floor" -> LargerOf(1, count)
      [] place.cyl = "player" -> SlotMaxCount(w, from, place.index, t, count)
      [] OTHER -> ContainerMaxCount(w, from, place, t)

\* Where a client may drop an item: queryDestination, to the end.  An item that
\* is dropped on a container goes into it; a stack goes to the first that has room.
Destinations(w, from, t, cyl) ==
    CASE cyl = "player" -> {Spot(cyl, s, w.slot[s]) : s \in {s \in Slot : w.slot[s] = None \/ ~IsContainer(w.slot[s])}}
      [] cyl = "floor" -> {Spot(cyl, "index", u) : u \in In(w, cyl) \cup {None}}
      [] OTHER ->
            IF Stackable(t) /\ from # cyl /\ Partial(w, cyl, t) # {}
            THEN {Spot(cyl, "index", u) : u \in Partial(w, cyl, t)}
            ELSE {Spot(cyl, "wherever", None)}
                 \cup {Spot(cyl, "index", u) : u \in {u \in In(w, cyl) : ~IsContainer(u)}}
                 \cup {Spot(cyl, "index", None) : n \in {n \in {0} : Size(w, cyl) < Capacity}}

-----------------------------------------------------------------------------
(* internalMoveItem.                                                       *)

\* The item at the destination goes where the moved one is.
Exchange(w, from, index, t, place) ==
    LET u == place.toItem
        back == Spot(from, "index", t)
    IN IF from # "player"
          /\ Takes(w, "player", back, u, u.count)
          /\ MaxCount(w, "player", Spot(from, "wherever", None), u, u.count) > 0
       THEN Notify(Notify(AddThing(TakeOut(w, "player", place.index, u), from, "index", u), "player"), from)
       ELSE w

\* Faulty: what has been merged is cloned as well.
Clone_All(m, n) == m
Clone(m, n) == m - n

Move(w, from, index, t, count, place) ==
    LET max == MaxCount(w, from, place, t, count)
        m == IF Stackable(t) THEN SmallerOf(count, max) ELSE max
        removed == RemoveThing(w, from, index, t, m)
        merges == Stackable(t) /\ place.toItem # None /\ place.toItem.kind = t.kind
        n == IF merges THEN SmallerOf(Remainder(place.toItem), m) ELSE 0
        merged == IF merges
                  THEN UpdateThing(removed, place.cyl, place.index, place.toItem, place.toItem.count + n)
                  ELSE removed
        rest == IF Stackable(t) THEN Clone(m, n) ELSE 1
        moved == IF rest > 0 THEN AddThing(merged, place.cyl, place.index, [t EXCEPT !.count = rest]) ELSE merged
    IN IF max = 0 THEN w ELSE Notify(Notify(moved, from), place.cyl)

InternalMoveItem(w, from, index, t, count, place) ==
    CASE QueryAdd(w, from, place, t, count) = "ok" -> Move(w, from, index, t, count, place)
      [] QueryAdd(w, from, place, t, count) = "exchange" ->
            LET swapped == Exchange(w, from, index, t, place)
                free == Spot(place.cyl, place.index, None)
            IN IF swapped # w /\ Takes(swapped, from, free, t, count)
               THEN Move(swapped, from, index, t, count, free) ELSE swapped
      [] OTHER -> w

-----------------------------------------------------------------------------
(* internalAddItem, to a player, at INDEX_WHEREEVER.                       *)

\* Player::queryDestination: a slot, else a place in a container; in one that
\* holds too much, the place for a single item is past the end.
AddDestinations(w, t) ==
    LET slots == {s \in Slot : /\ w.slot[s] = None \/ w.slot[s] \in Partial(w, "player", t)
                               /\ Takes(w, None, Spot("player", s, w.slot[s]), t, t.count)}
        stacks == {Spot(c, "index", u) : c \in Carried(w), u \in UNION {Partial(w, c, t) : c \in Carried(w)}}
        free == {Spot(c, "index", None) : c \in {c \in Carried(w) : Size(w, c) < Capacity}}
        beyond == {Spot(c, "beyond", None) : c \in {c \in Carried(w) : Size(w, c) > Capacity}}
        inside == IF Stackable(t) THEN {d \in stacks : d.toItem \in Partial(w, d.cyl, t)} \cup free
                  ELSE free \cup beyond
    IN IF slots # {} THEN {Spot("player", s, w.slot[s]) : s \in slots}
       ELSE {d \in inside : Takes(w, None, d, t, t.count)}

\* The outcomes: the world, and what the caller hears not to have been added.
RECURSIVE AddItem(_, _)
AddItem(w, t) ==
    LET refused == [world |-> w, left |-> t.count]
        max == InventoryMaxCount(w, t)
        Added(d) ==
            IF max < t.count /\ d.cyl # "player" THEN {refused}
            ELSE IF d.toItem = None
            THEN {[world |-> Notify(AddThing(w, d.cyl, d.index, t), d.cyl), left |-> 0]}
            ELSE LET m == SmallerOf(t.count, max)
                     n == SmallerOf(Remainder(d.toItem), m)
                     merged == UpdateThing(w, d.cyl, d.index, d.toItem, d.toItem.count + n)
                 IN IF m = n THEN {[world |-> Notify(merged, d.cyl), left |-> 0]}
                    ELSE AddItem(merged, [t EXCEPT !.count = m - n])
    IN IF AddDestinations(w, t) = {} THEN {refused}
       ELSE UNION {Added(d) : d \in AddDestinations(w, t)}

-----------------------------------------------------------------------------

\* Everything lies on the floor, each stackable kind as a full stack.
ItemsInit ==
    /\ world = [slot |-> [s \in Slot |-> None],
                bag |-> [c \in Container \cup {"floor"} |->
                            IF c # "floor" THEN EmptyBag
                            ELSE SetToBag({[kind |-> k, count |-> IF k \in StackKind THEN StackMax ELSE 1] : k \in ItemKind})],
                weight |-> [c \in Container |-> 0],
                carried |-> 0]
    /\ adds = 0
    /\ said = [k \in ItemKind |-> IF k \in StackKind THEN StackMax ELSE 1]

Cylinder == Container \cup {"player", "floor"}
IndexOf(w, cyl, t) == IF cyl = "player" THEN {s \in Slot : w.slot[s] = t} ELSE {"index"}

\* An item that is dropped on itself stays.
SameItem(w, cyl, index, t, place) ==
    /\ cyl = place.cyl /\ place.toItem = t
    /\ IF cyl = "player" THEN place.index = index ELSE CopiesIn(t, w.bag[cyl]) = 1

\* playerMoveItem, in reach
PlayerMoveItem(from, to) ==
    \E t \in In(world, from) : \E count \in 1 .. t.count, index \in IndexOf(world, from, t) :
        \E place \in Destinations(world, from, t, to) :
            /\ ~SameItem(world, from, index, t, place)
            /\ world' = InternalMoveItem(world, from, index, t, count, place)
            /\ UNCHANGED <<adds, said>>

\* Game::internalAddItem for a player: addMoney, the shop, a script.
PlayerAddItem(k, n) ==
    /\ adds < MaxAdds /\ adds' = adds + 1
    /\ k \notin Container /\ (k \in SingleKind => n = 1)
    /\ \E outcome \in AddItem(world, [kind |-> k, count |-> n]) :
           /\ world' = outcome.world
           /\ said' = [said EXCEPT ![k] = @ + n - outcome.left]

\* internalRemoveItem: used up, sold, decayed.
InternalRemoveItem(from) ==
    \E t \in In(world, from) : \E count \in 1 .. t.count, index \in IndexOf(world, from, t) :
        /\ ~IsContainer(t)
        /\ world' = Notify(RemoveThing(world, from, index, t, count), from)
        /\ said' = [said EXCEPT ![t.kind] = @ - count]
        /\ UNCHANGED adds

ItemsNext ==
    \/ \E from, to \in Cylinder : PlayerMoveItem(from, to)
    \/ \E k \in ItemKind, n \in AddAmount : PlayerAddItem(k, n)
    \/ \E from \in Cylinder : InternalRemoveItem(from)

ItemsSpec == ItemsInit /\ [][ItemsNext]_itemsVars

-----------------------------------------------------------------------------
(* Properties.                                                             *)

ItemsTypeOK ==
    /\ world.slot \in [Slot -> Thing \cup {None}]
    /\ \A c \in Container \cup {"floor"} : IsABag(world.bag[c]) /\ BagToSet(world.bag[c]) \subseteq Thing
    /\ world.weight \in [Container -> Nat] /\ world.carried \in Nat
    /\ adds \in 0 .. MaxAdds /\ said \in [ItemKind -> Int]

\* What everything in and below a cylinder weighs, counted anew.
Below(c) == {d \in Container : c \in Upwards(world, d)}
PiecesIn(cyl, k) ==
    IF cyl = "player" THEN MapThenSumSet(LAMBDA s : IF world.slot[s] = None \/ world.slot[s].kind # k
                                                    THEN 0 ELSE world.slot[s].count, Slot)
    ELSE MapThenSumSet(LAMBDA t : IF t.kind = k THEN CopiesIn(t, world.bag[cyl]) * t.count ELSE 0,
                       BagToSet(world.bag[cyl]))
Pieces(k) == MapThenSumSet(LAMBDA cyl : PiecesIn(cyl, k), Cylinder)

(***************************************************************************)
(* The weights that were kept up by differences are those that a count     *)
(* would give, through merges, splits, exchanges and bags within bags: a   *)
(* player's capacity neither leaks nor grows.                              *)
(***************************************************************************)
WeightsExact ==
    /\ \A c \in Container :
        world.weight[c] = MapThenSumSet(LAMBDA d : MapThenSumSet(LAMBDA k : PiecesIn(d, k), ItemKind), Below(c))
    /\ world.carried = MapThenSumSet(LAMBDA d : MapThenSumSet(LAMBDA k : PiecesIn(d, k), ItemKind),
                                     Carried(world) \cup {"player"})

(***************************************************************************)
(* Moving things about neither makes nor destroys any, wherever they are   *)
(* dropped, whatever they merge with or are exchanged for.                 *)
(***************************************************************************)
MoveConserves == adds' = adds /\ said' = said => \A k \in ItemKind : Pieces(k)' = Pieces(k)
MovesConserve == [][MoveConserves]_itemsVars

(***************************************************************************)
(* What is added is there, up to what the caller is told was not.          *)
(***************************************************************************)
AddsWhole == \A k \in ItemKind : Pieces(k) = said[k]
=============================================================================
