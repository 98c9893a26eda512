--------------------------- MODULE OpenContainers ---------------------------
(***************************************************************************)
(* The containers players have open (src/src/player.cpp, and its callers   *)
(* in actions.cpp, game.cpp, container.cpp and tile.cpp).                  *)
(*                                                                         *)
(* A player opens a container that is in his reach under a number, and     *)
(* names its contents by that number from then on; his reach is not looked *)
(* at again.  The container is a pointer without a reference.  So whatever *)
(* becomes of a container or of the bag around it, every player who has it *)
(* open must be told, and so must the player who walks away from it.       *)
(*                                                                         *)
(* Squares are on one street, on which all players see each other.  Contents *)
(* other than containers, pages, depots and mail are left out.             *)
(***************************************************************************)
EXTENDS Players, Integers, SequencesExt

CONSTANTS
    Bag,            \* the containers
    Square,         \* where players and bags may be
    Cid             \* the numbers clients open containers under; 0 .. 15 in the code

ASSUME OpenContainersAssumption ==
    /\ Square \subseteq Nat /\ Cid \subseteq Nat /\ None \notin Player \cup Bag \cup Square
    /\ Player \cap Bag = {} /\ Player \cap Square = {} /\ Bag \cap Square = {}

VARIABLES
    spotOf,         \* where each player is
    parent,         \* of each bag: the floor of a spot, a player, a bag or None
    openContainers,
    window          \* external: the containers each client shows

openVars == <<spotOf, parent, openContainers, window>>

NoneOpen == [p \in Player |-> [cid \in Cid |-> None]]

OpenInit ==
    /\ spotOf \in [Player -> Square]
    /\ parent \in [Bag -> Square]
    /\ openContainers = NoneOpen
    /\ window = NoneOpen

\* The books that one call changes together.
Inventories == [at |-> spotOf, in |-> parent, open |-> openContainers, window |-> window]
Become(b) == spotOf' = b.at /\ parent' = b.in /\ openContainers' = b.open /\ window' = b.window

-----------------------------------------------------------------------------
(* Where a bag is.                                                         *)

\* The bag, the bags around it and who or what holds the last one: the least set
\* that has c and with each bag what this is in.
Around(b, c) ==
    LET Closed(S) == c \in S /\ \A x \in S : b.in[x] \in Bag => b.in[x] \in S
        bags == {x \in Bag : \A S \in SUBSET Bag : Closed(S) => x \in S}
    IN bags \cup {b.in[x] : x \in bags}
GetTopParent(b, c) == CHOOSE x \in Around(b, c) : x \notin Bag
IsRemoved(b, c) == None \in Around(b, c)

InRange(x, y) == x - y \in -1 .. 1
BagInRange(b, p, c) ==
    LET top == GetTopParent(b, c)
    IN InRange(b.at[p], IF top \in Player THEN b.at[top] ELSE top)

\* What a player can get at without opening anything, and what is open.
InReach(b, p, c) == ~IsRemoved(b, c) /\ BagInRange(b, p, c) /\ GetTopParent(b, c) \in Square \cup {p}
MayUse(b, p, c) ==
    \/ b.in[c] = p
    \/ b.in[c] \in Square /\ InRange(b.at[p], b.in[c])
    \/ \E cid \in Cid : b.open[p][cid] # None /\ b.open[p][cid] = b.in[c]

-----------------------------------------------------------------------------
(* What a player and his client are told.                                  *)

AddContainer(b, p, cid, c) == [b EXCEPT !.open[p][cid] = c]
CloseContainer(b, p, cid) == [b EXCEPT !.open[p][cid] = None]
SendCloseContainer(b, p, cid) == [b EXCEPT !.window[p][cid] = None]

CidsOf(b, p, c) == {cid \in Cid : b.open[p][cid] = c}

\* The windows, and the containers with them, that a loop over the numbers closes.
CloseWindows(b, p, cids) ==
    [b EXCEPT !.window[p] = [cid \in Cid |-> IF cid \in cids THEN None ELSE @[cid]]]
CloseAll(b, p, cids) ==
    [CloseWindows(b, p, cids) EXCEPT !.open[p] = [cid \in Cid |-> IF cid \in cids THEN None ELSE @[cid]]]

\* onSendContainer, onCloseContainer: for every number the container has
OnSendContainer(b, p, c) ==
    [b EXCEPT !.window[p] = [cid \in Cid |-> IF cid \in CidsOf(b, p, c) THEN c ELSE @[cid]]]
OnCloseContainer(b, p, c) == CloseWindows(b, p, CidsOf(b, p, c))

\* Faulty: the containers inside them stay open.
AutoCloseContainers_Shallow(b, p, cs) == CloseAll(b, p, UNION {CidsOf(b, p, c) : c \in cs})
\* The containers cs, those inside them, and any that was removed.
AutoCloseContainers(b, p, cs) ==
    CloseAll(b, p, {cid \in Cid : /\ b.open[p][cid] # None
                                  /\ (cs \cup {None}) \cap Around(b, b.open[p][cid]) # {}})

\* Player::postRemoveNotification of a container
PostRemove(b, p, c) ==
    IF ~IsRemoved(b, c) /\ BagInRange(b, p, c) /\ GetTopParent(b, c) \in Square \cup {p}
    THEN OnSendContainer(b, p, c)
    ELSE AutoCloseContainers(b, p, {c})

\* Those whom a cylinder tells: its holder, or everybody around.
Told(b, cyl) ==
    LET top == IF cyl \in Bag THEN GetTopParent(b, cyl) ELSE cyl
    IN IF top \in Player THEN {top} ELSE Player

\* What is told to each player changes what he has open, and nothing else.
Heard(b, d) == [b EXCEPT !.open = [p \in Player |-> d[p].open[p]],
                         !.window = [p \in Player |-> d[p].window[p]]]

\* internalMoveItem of a bag; None for internalRemoveItem
MoveBag(b, c, to) ==
    LET moved == [b EXCEPT !.in[c] = to]
        left == Heard(moved, [p \in Player |-> IF p \in Told(b, b.in[c]) THEN PostRemove(moved, p, c) ELSE moved])
        told == IF to = None THEN {} ELSE Told(left, to)
    IN Heard(left, [p \in Player |-> IF p \in told THEN OnSendContainer(left, p, c) ELSE left])

\* A step of a player: the new tile's postAddNotification reaches him as well.
MovePlayer(b, p, to) ==
    LET moved == [b EXCEPT !.at[p] = to]
        far == {c \in Range(b.open[p]) \ {None} : ~BagInRange(moved, p, c)}
    IN IF far = {} THEN moved ELSE AutoCloseContainers(moved, p, far)

-----------------------------------------------------------------------------
(* The steps of the dispatcher's thread.                                   *)

\* internalUseItem: a container that is open is closed, under its first number.
UseContainer(p, c, cid) ==
    LET b == Inventories
        cids == CidsOf(b, p, c)
    IN /\ MayUse(b, p, c)
       /\ \/ \E n \in cids : /\ \A m \in cids : n <= m
                            /\ Become(CloseContainer(OnCloseContainer(b, p, c), p, n))
          \/ cids = {} /\ Become(OnSendContainer(AddContainer(b, p, cid, c), p, c))

PlayerCloseContainer(p, cid) == Become(SendCloseContainer(CloseContainer(Inventories, p, cid), p, cid))

\* getRealParent is the bag around it, and of the same player's or floor's.
PlayerMoveUpContainer(p, cid) ==
    LET c == openContainers[p][cid]
    IN /\ c # None /\ parent[c] \in Bag
       /\ Become([AddContainer(Inventories, p, cid, parent[c]) EXCEPT !.window[p][cid] = parent[c]])

\* playerMoveItem: what he can use, to where he can put it
PlayerMoveBag(p, c, to) ==
    LET b == Inventories
    IN /\ MayUse(b, p, c) /\ to # parent[c]
       /\ \/ to \in Square \cup {p}
          \/ to \in Bag /\ c \notin Around(b, to) /\ (MayUse(b, p, to) \/ CidsOf(b, p, to) # {})
       /\ Become(MoveBag(b, c, to))

PlayerWalks(p, to) ==
    /\ to # spotOf[p] /\ InRange(spotOf[p], to)
    /\ Become(MovePlayer(Inventories, p, to))

\* A bag decays, or a script takes it.
RemoveBag(c) == ~IsRemoved(Inventories, c) /\ Become(MoveBag(Inventories, c, None))

\* ProtocolGame::connect: another client, which shows nothing, for the same player
ReplaceClient(p) == window' = [window EXCEPT ![p] = NoneOpen[p]] /\ UNCHANGED <<spotOf, parent, openContainers>>

OpenNext ==
    \/ \E p \in Player :
        \/ ReplaceClient(p)
        \/ \E to \in Square : PlayerWalks(p, to)
        \/ \E cid \in Cid : PlayerCloseContainer(p, cid) \/ PlayerMoveUpContainer(p, cid)
        \/ \E c \in Bag :
            \/ \E cid \in Cid : UseContainer(p, c, cid)
            \/ \E to \in Square \cup Bag \cup {p} : PlayerMoveBag(p, c, to)
    \/ \E c \in Bag : RemoveBag(c)

OpenSpec == OpenInit /\ [][OpenNext]_openVars

-----------------------------------------------------------------------------
\* What is open to a player is within his reach, though nobody checks it when he
\* uses it: it exists, is no further than a step away, and in nobody else's
\* hands, whoever has moved it, or what it is in, or has walked.  And no client
\* shows a container that is not open.
OpenInReach ==
    \A p \in Player, cid \in Cid :
        /\ openContainers[p][cid] # None => InReach(Inventories, p, openContainers[p][cid])
        /\ window[p][cid] \in {None, openContainers[p][cid]}
=============================================================================
