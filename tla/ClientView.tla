----------------------------- MODULE ClientView -----------------------------
(***************************************************************************)
(* What clients show of the tiles of the map (src/src/tile.cpp, the        *)
(* sending half of src/src/protocolgame.cpp, and their callers).           *)
(*                                                                         *)
(* The server never sends a tile twice if it can help it: it tells the     *)
(* clients that see it what was added, changed, removed or moved, by its   *)
(* position among the things they show.  A client shows no more than       *)
(* MaxShown things, and no creature its player cannot see, so every client *)
(* has positions of its own, which must be found before the change for     *)
(* what goes and after it for what comes.                                  *)
(*                                                                         *)
(* The watchers stand together, on a tile of their own.  Their client is   *)
(* modelled from what it is sent.                                          *)
(***************************************************************************)
EXTENDS Base, Integers, SequencesExt

CONSTANTS
    TilePos,        \* neighbouring tiles of one floor
    EdgePos,        \* those of them that are not always in view
    Watcher,        \* the players whose clients are looked at
    AccessWatcher,  \* those who see what is invisible
    Walker,         \* the creatures on the tiles, but for the watchers
    Ghost,          \* those of them that are players: they hide in ghost mode
    GroundItem, TopItem, DownItem,
    Splash,         \* the items on top of which a tile has only one
    Field,          \* the replaceable magic fields
    MaxShown        \* 10 in the code

ASSUME ClientViewAssumption ==
    /\ MaxShown \in Nat \ {0, 1, 2}
    /\ EdgePos \subseteq TilePos /\ AccessWatcher \subseteq Watcher /\ Ghost \subseteq Walker
    /\ Splash \subseteq TopItem /\ Field \subseteq DownItem

VARIABLES
    tiles,          \* of each tile: ground, top items, creatures, down items
    hidden,         \* the walkers that are invisible or ghosts
    inView,         \* the tiles the watchers can see
    picture,        \* external: what the client of each watcher shows of each tile
    blurred         \* history: pictures too short since a creature has faded from a full tile

viewVars == <<tiles, hidden, inView, picture, blurred>>

TileItem == GroundItem \cup TopItem \cup DownItem
EmptyTile == [ground |-> <<>>, top |-> <<>>, creatures |-> <<>>, down |-> <<>>]

ViewInit ==
    /\ tiles = [t \in TilePos |-> EmptyTile]
    /\ hidden = {}
    /\ inView = TilePos
    /\ picture = [w \in Watcher |-> [t \in TilePos |-> <<>>]]
    /\ blurred = {}

\* The books that one call changes together.
Book == [tiles |-> tiles, hidden |-> hidden, view |-> inView, pic |-> picture, blurred |-> blurred]
Write(b) ==
    /\ tiles' = b.tiles /\ hidden' = b.hidden /\ inView' = b.view
    /\ picture' = b.pic /\ blurred' = b.blurred

-----------------------------------------------------------------------------
(* Positions.                                                              *)

Things(tile) == tile.ground \o tile.top \o tile.creatures \o tile.down
WhereIs(b, x) ==
    IF \E t \in TilePos : x \in Range(Things(b.tiles[t]))
    THEN CHOOSE t \in TilePos : x \in Range(Things(b.tiles[t])) ELSE None

CanSeeCreature(b, w, c) == w \in AccessWatcher \/ c \notin b.hidden

\* Creatures are listed from the newest and shown from the oldest.
VisibleCreatures(b, w, t) ==
    SelectSeq(Reverse(b.tiles[t].creatures), LAMBDA c : CanSeeCreature(b, w, c))
Shown(b, w, t) ==
    b.tiles[t].ground \o b.tiles[t].top \o VisibleCreatures(b, w, t) \o b.tiles[t].down

\* Positions count from 0; Nought stands for -1, which is sent as 255.
Nought == -1
Limited(n) == IF n < MaxShown THEN n ELSE Nought
IndexIn(s, x) == (CHOOSE i \in DOMAIN s : s[i] = x) - 1

GetClientIndexOfCreature(b, w, t, c) ==
    LET older == SelectSeq(SubSeq(Reverse(b.tiles[t].creatures), 1, IndexIn(Reverse(b.tiles[t].creatures), c)),
                           LAMBDA d : CanSeeCreature(b, w, d))
    IN Len(b.tiles[t].ground) + Len(b.tiles[t].top) + Len(older)
GetStackposOfCreature(b, w, t, c) == Limited(GetClientIndexOfCreature(b, w, t, c))
GetStackposOfItem(b, w, t, i) == Limited(IndexIn(Shown(b, w, t), i))

-----------------------------------------------------------------------------
(* The client: what it does with what it is sent.                          *)

Cut(s) == SubSeq(s, 1, IF Len(s) < MaxShown THEN Len(s) ELSE MaxShown)

\* A creature without a position goes behind the other creatures.
Behind(s) == Len(SelectSeq(s, LAMBDA x : x \notin DownItem))

ClientAdd(s, pos, x) ==
    LET at == IF pos = Nought THEN Behind(s) ELSE IF pos < Len(s) THEN pos ELSE Len(s)
    IN Cut(InsertAt(s, at + 1, x))
ClientUpdate(s, pos, x) == IF pos < Len(s) THEN ReplaceAt(s, pos + 1, x) ELSE s
ClientRemove(s, pos) == IF pos < Len(s) THEN RemoveAt(s, pos + 1) ELSE s

-----------------------------------------------------------------------------
(* What is sent to one watcher.                                            *)

CanSee(b, t) == t \in b.view

\* GetTileDescription
Describe(b, w, t) ==
    [b EXCEPT !.pic[w][t] = Cut(Shown(b, w, t)), !.blurred = @ \ {<<w, t>>}]

SendUpdateTile(b, w, t) == IF CanSee(b, t) THEN Describe(b, w, t) ELSE b

SendAddTileItem(b, w, t, i) ==
    LET pos == GetStackposOfItem(b, w, t, i)
    IN IF pos = Nought \/ ~CanSee(b, t) THEN b ELSE [b EXCEPT !.pic[w][t] = ClientAdd(@, pos, i)]
SendUpdateTileItem(b, w, t, i) ==
    LET pos == GetStackposOfItem(b, w, t, i)
    IN IF pos = Nought \/ ~CanSee(b, t) THEN b ELSE [b EXCEPT !.pic[w][t] = ClientUpdate(@, pos, i)]
SendRemoveTileThing(b, w, t, pos) ==
    IF pos = Nought \/ pos >= MaxShown \/ ~CanSee(b, t) THEN b
    ELSE [b EXCEPT !.pic[w][t] = ClientRemove(@, pos)]

\* A position beyond the last makes the tile be sent anew.
SendAddCreature(b, w, t, c, pos) ==
    IF ~CanSee(b, t) THEN b
    ELSE IF pos >= MaxShown THEN SendUpdateTile(b, w, t)
    ELSE [b EXCEPT !.pic[w][t] = ClientAdd(@, pos, c)]

\* The client moves what it shows at a position.  If that picture is wrong, so
\* may the other one be from then on.
ClientMove(b, w, from, pos, to) ==
    LET shown == b.pic[w][from]
        taken == [b EXCEPT !.pic[w][from] = ClientRemove(@, pos),
                           !.blurred = IF <<w, from>> \in @ THEN @ \cup {<<w, to>>} ELSE @]
    IN IF pos < Len(shown) THEN [taken EXCEPT !.pic[w][to] = ClientAdd(@, Nought, shown[pos + 1])] ELSE taken

\* sendMoveCreature: within the view the client moves the creature itself.
SendMoveCreature(b, w, c, from, old, to, teleport) ==
    LET new == GetClientIndexOfCreature(b, w, to, c)
        removed == SendRemoveTileThing(b, w, from, old)
    IN IF ~CanSee(b, from) THEN SendAddCreature(b, w, to, c, new)
       ELSE IF ~CanSee(b, to) THEN removed
       ELSE IF teleport \/ old >= MaxShown THEN SendAddCreature(removed, w, to, c, new)
       ELSE ClientMove(b, w, from, old, to)

-----------------------------------------------------------------------------
(* The tiles.                                                              *)

ForAll(b, send(_, _)) == FoldSet(LAMBDA w, d : send(d, w), b, Watcher)

\* Faulty: off by two, when the tile is still full.
PostRemoveNotification_Late(b, t) ==
    IF Len(Things(b.tiles[t])) > MaxShown
    THEN ForAll(b, LAMBDA d, w : SendUpdateTile(d, w, t)) ELSE b
\* postRemoveNotification: a tile that is still nearly full is sent anew.
PostRemoveNotification(b, t) ==
    IF Len(Things(b.tiles[t])) > MaxShown - 2
    THEN ForAll(b, LAMBDA d, w : SendUpdateTile(d, w, t)) ELSE b

\* removeThing of an item, with the positions it had
Without(s, x) == SelectSeq(s, LAMBDA y : y # x)
RemoveThing(b, t, i) ==
    LET old == [w \in Watcher |-> GetStackposOfItem(b, w, t, i)]
        taken == [b EXCEPT !.tiles[t] = [@ EXCEPT !.ground = Without(@, i), !.top = Without(@, i),
                                                  !.down = Without(@, i)]]
    IN ForAll(taken, LAMBDA d, w : SendRemoveTileThing(d, w, t, old[w]))
TakeItem(b, t, i) == PostRemoveNotification(RemoveThing(b, t, i), t)

\* addThing of an item: a new ground replaces the old one, a splash an older
\* splash, a field an older field.
AddThing(b, t, i) ==
    LET tile == b.tiles[t]
        rivals == IF i \in Splash THEN Splash \cap Range(tile.top)
                  ELSE IF i \in Field THEN Field \cap Range(tile.down) ELSE {}
        cleared == FoldSet(LAMBDA r, d : TakeItem(d, t, r), b, rivals)
        added == IF i \in TopItem THEN [cleared EXCEPT !.tiles[t].top = <<i>> \o @]
                 ELSE IF i \in DownItem THEN [cleared EXCEPT !.tiles[t].down = <<i>> \o @]
                 ELSE [b EXCEPT !.tiles[t].ground = <<i>>]
    IN IF i \in GroundItem /\ tile.ground # <<>>
       THEN PostRemoveNotification(ForAll(added, LAMBDA d, w : SendUpdateTileItem(d, w, t, i)), t)
       ELSE ForAll(added, LAMBDA d, w : SendAddTileItem(d, w, t, i))

\* replaceThing, updateThing
Instead(s, x, y) == [n \in DOMAIN s |-> IF s[n] = x THEN y ELSE s[n]]
ReplaceThing(b, t, i, j) ==
    LET put == [b EXCEPT !.tiles[t] = [@ EXCEPT !.ground = Instead(@, i, j), !.top = Instead(@, i, j),
                                                !.down = Instead(@, i, j)]]
    IN PostRemoveNotification(ForAll(put, LAMBDA d, w : SendUpdateTileItem(d, w, t, j)), t)

\* transformItem: what comes to the top or from there is taken and added.
TransformItem(b, t, i, j) ==
    IF (i \in TopItem) = (j \in TopItem) THEN ReplaceThing(b, t, i, j)
    ELSE AddThing(TakeItem(b, t, i), t, j)

\* Map::moveCreature
MoveCreature(b, c, from, to, forced) ==
    LET teleport == forced \/ b.tiles[to].ground = <<>>
        old == [w \in Watcher |-> IF CanSeeCreature(b, w, c) THEN GetClientIndexOfCreature(b, w, from, c) ELSE Nought]
        moved == [b EXCEPT !.tiles[from].creatures = Without(@, c), !.tiles[to].creatures = <<c>> \o @]
        send(d, w) == IF old[w] = Nought THEN d ELSE SendMoveCreature(d, w, c, from, old[w], to, teleport)
    IN PostRemoveNotification(ForAll(moved, send), from)

\* Game::placeCreature, Game::removeCreature
PlaceOnTile(b, c, t) ==
    ForAll([b EXCEPT !.tiles[t].creatures = <<c>> \o @],
           LAMBDA d, w : SendAddCreature(d, w, t, c, GetStackposOfCreature(d, w, t, c)))
RemoveFromTile(b, c, t) ==
    LET old == [w \in Watcher |-> IF CanSeeCreature(b, w, c) THEN GetStackposOfCreature(b, w, t, c) ELSE Nought]
        taken == [b EXCEPT !.tiles[t].creatures = Without(@, c), !.hidden = @ \ {c}]
    IN PostRemoveNotification(ForAll(taken, LAMBDA d, w : SendRemoveTileThing(d, w, t, old[w])), t)

\* The picture of a watcher from which a creature fades while things were left out.
Blur(b, w, t) ==
    IF CanSee(b, t) /\ Len(Shown(b, w, t)) > MaxShown THEN [b EXCEPT !.blurred = @ \cup {<<w, t>>}] ELSE b

\* internalCreatureChangeVisible for monsters, luaPlayerSetGhostMode for players:
\* those who do not see it any more remove it.  The tile is not sent anew.
Fade(b, c, t) ==
    LET send(d, w) == SendRemoveTileThing(Blur(d, w, t), w, t, GetStackposOfCreature(d, w, t, c))
    IN [FoldSet(LAMBDA w, d : send(d, w), b, Watcher \ AccessWatcher) EXCEPT !.hidden = @ \cup {c}]
\* A ghost is added even if it has no position.
Appear(b, c, t) ==
    LET seen == [b EXCEPT !.hidden = @ \ {c}]
        send(d, w) == LET pos == GetStackposOfCreature(d, w, t, c)
                      IN IF pos = Nought /\ c \notin Ghost THEN d ELSE SendAddCreature(d, w, t, c, pos)
    IN FoldSet(LAMBDA w, d : send(d, w), seen, Watcher \ AccessWatcher)

LookAway(b, t) ==
    [b EXCEPT !.view = @ \ {t}, !.pic = [w \in Watcher |-> [@[w] EXCEPT ![t] = <<>>]],
              !.blurred = {wt \in @ : wt[2] # t}]

-----------------------------------------------------------------------------
(* The steps of the dispatcher's thread.                                   *)

ItemStep(b) ==
    \E t \in TilePos, i \in TileItem :
        \/ WhereIs(b, i) = None /\ Write(AddThing(b, t, i))
        \/ WhereIs(b, i) = t /\ Write(TakeItem(b, t, i))
        \/ /\ WhereIs(b, i) = t
           /\ \E j \in {j \in TileItem : WhereIs(b, j) = None /\ (i \in GroundItem <=> j \in GroundItem)} :
                  Write(TransformItem(b, t, i, j))

CreatureStep(b) ==
    \E c \in Walker :
        \/ WhereIs(b, c) = None /\ \E t \in TilePos : Write(PlaceOnTile(b, c, t))
        \/ WhereIs(b, c) # None /\ Write(RemoveFromTile(b, c, WhereIs(b, c)))
        \/ /\ WhereIs(b, c) # None
           /\ \E to \in TilePos \ {WhereIs(b, c)}, forced \in BOOLEAN :
                  Write(MoveCreature(b, c, WhereIs(b, c), to, forced))
        \/ WhereIs(b, c) # None /\ c \notin hidden /\ Write(Fade(b, c, WhereIs(b, c)))
        \/ WhereIs(b, c) # None /\ c \in hidden /\ Write(Appear(b, c, WhereIs(b, c)))

\* The watchers walk: a tile leaves their view, or comes into it.
WatcherStep(b) ==
    \E t \in EdgePos :
        \/ t \in inView /\ Write(LookAway(b, t))
        \/ t \notin inView /\ Write(ForAll([b EXCEPT !.view = @ \cup {t}], LAMBDA d, w : Describe(d, w, t)))

ViewNext == ItemStep(Book) \/ CreatureStep(Book) \/ WatcherStep(Book)

ViewSpec == ViewInit /\ [][ViewNext]_viewVars

-----------------------------------------------------------------------------
\* Whatever is added, replaced and removed, and whoever comes, goes, fades and
\* appears: every client shows of every tile in view the first things its player
\* can see, in their order.  The positions it was sent were found before or after
\* each change as that needs, and a tile with more than it can show is sent anew
\* when something goes.  Only when a creature fades from such a tile is it not,
\* and what was left out stays away until the next time the tile is sent.
PictureExact ==
    \A w \in Watcher, t \in inView :
        <<w, t>> \notin blurred => picture[w][t] = Cut(Shown(Book, w, t))
=============================================================================
