------------------------------ MODULE Monsters ------------------------------
(***************************************************************************)
(* How monsters notice players, fall asleep and die (monster.cpp,          *)
(* creature.cpp and the checks of game.cpp in src/src).                    *)
(*                                                                         *)
(* A monster without targets is idle and leaves the list of creatures that *)
(* are checked.  Only a check makes it think, attack and, with no health   *)
(* left, die.  What it knows of the players around it comes from calls     *)
(* that are made when somebody appears, moves or goes.  Creatures are      *)
(* counted references: the world, the check list, every target list, the   *)
(* master of a summon and ToReleaseCreatures hold one each.                *)
(*                                                                         *)
(* Left out: friends, conditions, floors, invisibility, passive monsters,  *)
(* summons of players, and the health of players.  Two creatures see each  *)
(* other when they are at the same place.  Every creature has a check list *)
(* of its own, of the ten that addCreatureCheck chooses from.              *)
(***************************************************************************)
EXTENDS Players, Integers, FiniteSetsExt

CONSTANTS
    Wild,           \* the monsters of a spawn
    Summon,         \* the monsters that those may summon, one each at a time
    Place,
    Home,           \* where the wild monsters spawn
    TooFar,         \* the places out of the range of the spawn
    MaxHappenings   \* bound: what players and monsters do besides being checked

ASSUME MonstersAssumption ==
    /\ MaxHappenings \in Nat
    /\ Home \in Place /\ TooFar \subseteq Place \ {Home}
    /\ IsFiniteSet(Player) /\ IsFiniteSet(Wild) /\ IsFiniteSet(Summon)
    /\ Player \cap (Wild \cup Summon) = {} /\ Wild \cap Summon = {}
    /\ None \notin Player \cup Wild \cup Summon

VARIABLES
    creature,       \* the Creature objects
    toRelease,      \* ToReleaseCreatures, how often each is in it
    attackTasks,    \* the tasks of checkCreatureAttack that the dispatcher has
    dazed,          \* history: monsters that have overlooked a player, see below
    happened        \* bound: the events so far

monstersVars == <<creature, toRelease, attackTasks, dazed, happened>>

Monster == Wild \cup Summon
Creature == Player \cup Monster

\* "new": there is no such object; "gone": removed from the world.
NewCreature ==
    [where |-> "new", at |-> Home, alive |-> TRUE, client |-> TRUE, creatureCheck |-> FALSE,
     inCheckCreaturesVector |-> FALSE, targetList |-> {}, attackedCreature |-> None,
     followCreature |-> None, master |-> None, refs |-> 0]

MonstersInit ==
    /\ creature = [c \in Creature |-> NewCreature]
    /\ toRelease = [c \in Creature |-> 0]
    /\ attackTasks = {}
    /\ dazed = {}
    /\ happened = 0

\* The books that one call changes together.
Book == [cr |-> creature, rel |-> toRelease, tasks |-> attackTasks, dazed |-> dazed]
Write(b) ==
    /\ creature' = b.cr /\ toRelease' = b.rel /\ attackTasks' = b.tasks /\ dazed' = b.dazed

Here(b, c) == b.cr[c].where = "world"
Sees(b, x, c) == b.cr[x].at = b.cr[c].at
Summons(b, m) == {s \in Summon : b.cr[s].master = m}
\* The monsters in the world that getSpectators finds at a place.
MonstersAt(b, place) == {m \in Monster : Here(b, m) /\ b.cr[m].at = place}

-----------------------------------------------------------------------------
(* References.                                                             *)

Ref(b, c) == [b EXCEPT !.cr[c].refs = @ + 1]

\* One reference less; the last one deletes the object.
UnrefLast(b, c) ==
    IF b.cr[c].refs = 1 THEN [b EXCEPT !.cr[c] = NewCreature, !.dazed = @ \ {c}]
    ELSE [b EXCEPT !.cr[c].refs = @ - 1]

\* Faulty: the list is emptied and its references are kept.
ClearTargetList_Leak(b, m) == [b EXCEPT !.cr[m].targetList = {}]
\* The targets are players, which leave nothing behind when they are deleted.
ClearTargetList(b, m) ==
    [FoldSet(LAMBDA c, d : UnrefLast(d, c), b, b.cr[m].targetList) EXCEPT !.cr[m].targetList = {}]

\* decrementReferenceCounter with the destructors: a monster lets its targets go,
\* and its summons, which have targets and no summons.
UnrefAlone(b, x) == UnrefLast(IF b.cr[x].refs = 1 THEN ClearTargetList(b, x) ELSE b, x)
Unref(b, c) ==
    IF b.cr[c].refs > 1 \/ c \in Player THEN UnrefLast(b, c)
    ELSE LET orphan(s, d) ==
                 UnrefAlone([d EXCEPT !.cr[s] = [@ EXCEPT !.master = None, !.attackedCreature = None]], s)
         IN UnrefAlone(FoldSet(orphan, b, Summons(b, c)), c)

AddTarget(b, m, c) ==
    IF c \in b.cr[m].targetList THEN b
    ELSE Ref([b EXCEPT !.cr[m].targetList = @ \cup {c}], c)

RemoveTarget(b, m, c) ==
    IF c \in b.cr[m].targetList THEN Unref([b EXCEPT !.cr[m].targetList = @ \ {c}], c) ELSE b

\* setMaster(nullptr), removeMaster
LoseMaster(b, s) ==
    IF b.cr[s].master = None THEN b ELSE Unref([b EXCEPT !.cr[s].master = None], s)

-----------------------------------------------------------------------------
(* The check lists and idleness.                                           *)

AddCreatureCheck(b, c) ==
    LET checked == [b EXCEPT !.cr[c] = [@ EXCEPT !.creatureCheck = TRUE, !.inCheckCreaturesVector = TRUE]]
    IN IF b.cr[c].inCheckCreaturesVector THEN checked ELSE Ref(checked, c)

RemoveCreatureCheck(b, c) ==
    IF b.cr[c].inCheckCreaturesVector THEN [b EXCEPT !.cr[c].creatureCheck = FALSE] ELSE b

SetIdle(b, m, idle) ==
    IF ~Here(b, m) \/ ~b.cr[m].alive THEN b
    ELSE IF idle THEN RemoveCreatureCheck(ClearTargetList(b, m), m) ELSE AddCreatureCheck(b, m)

IsIdle(b, m) == b.cr[m].master = None /\ b.cr[m].targetList = {}
UpdateIdleStatus(b, m) == SetIdle(b, m, IsIdle(b, m))

-----------------------------------------------------------------------------
(* Targets.                                                                *)

IsOpponent(b, c) == c \in Player /\ b.cr[c].client

OnCreatureFound(b, m, c) ==
    UpdateIdleStatus(IF IsOpponent(b, c) THEN AddTarget(b, m, c) ELSE b, m)

SleepAlone(b, m) == IF b.cr[m].targetList = {} THEN UpdateIdleStatus(b, m) ELSE b
OnCreatureLeave(b, m, c) ==
    IF IsOpponent(b, c) THEN SleepAlone(RemoveTarget(b, m, c), m) ELSE b

\* The monster looks around anew: nobody is overlooked any more.
UpdateTargetList(b, m) ==
    LET kept == FoldSet(LAMBDA c, d : RemoveTarget(d, m, c), b,
                        {c \in b.cr[m].targetList : ~Sees(b, m, c)})
        inSight == {c \in Creature \ {m} : Here(b, c) /\ Sees(b, m, c)}
        found == FoldSet(LAMBDA c, d : OnCreatureFound(d, m, c), kept, inSight)
    IN [found EXCEPT !.dazed = IF b.cr[m].alive THEN @ \ {m} ELSE @]

\* setAttackedCreature: the summons attack what their master attacks.
SetAttackedCreature(b, m, c) ==
    LET sees(x) == c = None \/ Sees(b, x, c)
        attacks(x) == IF sees(x) THEN c ELSE None
        who == IF sees(m) THEN {m} \cup Summons(b, m) ELSE {m}
    IN [b EXCEPT !.cr = [x \in Creature |->
           IF x \in who THEN [@[x] EXCEPT !.attackedCreature = attacks(x)] ELSE @[x]]]

\* setFollowCreature
SetFollowCreature(b, m, c) ==
    [b EXCEPT !.cr[m].followCreature = IF c # None /\ Sees(b, m, c) THEN c ELSE None]

IsTarget(b, c) == c \in Player /\ b.cr[c].client /\ Here(b, c)

SelectTarget(b, m, c) ==
    LET swings == Sees(b, m, c) /\ b.cr[m].master = None
    IN IF IsTarget(b, c) /\ c \in b.cr[m].targetList
       THEN SetFollowCreature([SetAttackedCreature(b, m, c) EXCEPT
                                  !.tasks = IF swings THEN @ \cup {m} ELSE @], m, c)
       ELSE b

\* searchTarget: any of the targets that are not followed yet.
SearchTarget(b, m) ==
    LET others == {c \in b.cr[m].targetList \ {b.cr[m].followCreature} : IsTarget(b, c)}
    IN IF others = {} THEN {b} ELSE {SelectTarget(b, m, c) : c \in others}

StopAttack(b, m, c) == IF b.cr[m].attackedCreature = c THEN SetAttackedCreature(b, m, None) ELSE b
StopFollow(b, m, c) == IF b.cr[m].followCreature = c THEN SetFollowCreature(b, m, None) ELSE b
\* Faulty: only the attack ends, the monster goes on following.
OnCreatureDisappear_Follows(b, m, c) == StopAttack(b, m, c)
OnCreatureDisappear(b, m, c) == StopFollow(StopAttack(b, m, c), m, c)

-----------------------------------------------------------------------------
(* What the monsters are told.                                             *)

OnCreatureAppear(b, m, c) ==
    IF c = m THEN UpdateIdleStatus(UpdateTargetList(b, m), m) ELSE OnCreatureFound(b, m, c)

\* A summon that goes before its master leaves him.
LeaveMaster(b, m) ==
    IF b.cr[m].master # None /\ Here(b, b.cr[m].master) THEN LoseMaster(b, m) ELSE b
OnRemoveCreature(b, m, c) ==
    IF c = m THEN SetIdle(LeaveMaster(OnCreatureDisappear(b, m, c), m), m, TRUE)
    ELSE OnCreatureLeave(OnCreatureDisappear(b, m, c), m, c)

\* The part of onCreatureMove that every creature has.  A target that moves in
\* sight of the monster is struck at once.
Lost(b, m, x, c) == x # None /\ c \in {m, x} /\ ~Sees(b, m, x)
LosePrey(b, m, c) ==
    IF Lost(b, m, b.cr[m].followCreature, c) THEN OnCreatureDisappear(b, m, b.cr[m].followCreature) ELSE b
LoseEnemy(b, m, c) ==
    LET attacked == b.cr[m].attackedCreature
    IN IF Lost(b, m, attacked, c) THEN OnCreatureDisappear(b, m, attacked)
       ELSE IF attacked # None /\ c \in {m, attacked} THEN [b EXCEPT !.tasks = @ \cup {m}] ELSE b
LoseSight(b, m, c) == LoseEnemy(LosePrey(b, m, c), m, c)

\* A creature comes into the monster's sight or leaves it.
Notice(b, m, c, from, to) ==
    IF b.cr[m].at = to /\ from # to THEN OnCreatureFound(b, m, c)
    ELSE IF b.cr[m].at = from /\ from # to THEN OnCreatureLeave(b, m, c) ELSE b
\* A monster that follows nobody takes the opponent that has moved.
Hunt(b, m, c) ==
    IF b.cr[m].master = None /\ b.cr[m].followCreature = None /\ IsOpponent(b, c)
    THEN SelectTarget(b, m, c) ELSE b

\* Faulty: a monster that has moved does not look who is there.
OnCreatureMove_Blind(b, m, c, from, to) ==
    IF c = m THEN UpdateIdleStatus([LoseSight(b, m, c) EXCEPT !.dazed = @ \ {m}], m)
    ELSE Hunt(UpdateIdleStatus(Notice(LoseSight(b, m, c), m, c, from, to), m), m, c)
OnCreatureMove(b, m, c, from, to) ==
    IF c = m THEN UpdateIdleStatus(UpdateTargetList(LoseSight(b, m, c), m), m)
    ELSE Hunt(UpdateIdleStatus(Notice(LoseSight(b, m, c), m, c, from, to), m), m, c)

-----------------------------------------------------------------------------
(* What the game does to the world.                                        *)

\* placeCreature
PlaceCreature(b, c, place) ==
    LET placed == [b EXCEPT !.cr[c] = [NewCreature EXCEPT !.where = "world", !.at = place, !.refs = 1]]
        seen == FoldSet(LAMBDA m, d : OnCreatureAppear(d, m, c), placed, MonstersAt(placed, place))
    IN AddCreatureCheck(seen, c)

\* removeCreature of a creature whose summons are gone
RemoveAlone(b, c) ==
    LET told == FoldSet(LAMBDA m, d : OnRemoveCreature(d, m, c), b, MonstersAt(b, b.cr[c].at))
    IN RemoveCreatureCheck([told EXCEPT !.cr[c].where = "gone", !.rel[c] = @ + 1], c)

\* removeCreature: the summons go with their master.
RemoveSummons(b, c) ==
    FoldSet(LAMBDA s, d : RemoveAlone(d, s), b, {s \in Summons(b, c) : Here(b, s)})
RemoveCreature(b, c) == RemoveSummons(RemoveAlone(b, c), c)

\* Map::moveCreature
MoveCreature(b, c, to) ==
    LET from == b.cr[c].at
        moved == [b EXCEPT !.cr[c].at = to]
    IN FoldSet(LAMBDA m, d : OnCreatureMove(d, m, c, from, to), moved,
               MonstersAt(moved, from) \cup MonstersAt(moved, to))

\* cleanup
Cleanup(b) ==
    LET released == {c \in Creature : b.rel[c] > 0}
        again == {c \in released : b.rel[c] > 1}
        once == FoldSet(LAMBDA c, d : Unref(d, c), [b EXCEPT !.rel = [c \in Creature |-> 0]], released)
    IN FoldSet(LAMBDA c, d : Unref(d, c), once, again)

-----------------------------------------------------------------------------
(* The check of a creature.                                                *)

\* A monster whose target has lost its connection stops, and is no longer
\* checked, whoever else is there.
DoAttacking(b, m) ==
    LET c == b.cr[m].attackedCreature
        stopped == RemoveCreatureCheck(SetFollowCreature(b, m, None), m)
    IN IF c = None \/ ~(c \in Player /\ ~b.cr[c].client) THEN b
       ELSE [SetAttackedCreature(stopped, m, None) EXCEPT !.dazed = @ \cup {m}]

\* goToFollowCreature: the summon that finds no path gives up its target.
FollowPath(b, m) ==
    IF m \in Summon /\ b.cr[m].followCreature # None
    THEN {b, RemoveTarget(b, m, b.cr[m].followCreature)} ELSE {b}

\* A monster out of the range of its spawn is put back and falls asleep there.
ReturnHome(b, m) ==
    LET overlooked == {p \in Player : Here(b, p) /\ b.cr[p].at = Home}
    IN [SetIdle(MoveCreature(b, m, Home), m, TRUE) EXCEPT
           !.dazed = IF overlooked = {} THEN @ ELSE @ \cup {m}]

\* What a summon does with its time, and what a wild monster does.
ThinkAsSummon(b, s) ==
    LET mine == b.cr[s].attackedCreature
        ordered == b.cr[b.cr[s].master].attackedCreature
    IN IF mine # None THEN SetFollowCreature(b, s, mine)
       ELSE IF ordered # None THEN SelectTarget(b, s, ordered)
       ELSE SetFollowCreature(b, s, b.cr[s].master)

\* onThinkDefense: a monster that follows somebody may summon another.
CreateSummon(b, m) ==
    {b} \cup IF b.cr[m].followCreature = None \/ Summons(b, m) # {} THEN {}
             ELSE {Ref([PlaceCreature(b, s, b.cr[m].at) EXCEPT !.cr[s].master = m], s) :
                      s \in {s \in Summon : b.cr[s].where = "new"}}

ThinkAsWild(b, m) ==
    UNION {CreateSummon(d, m) :
               d \in SearchTarget(b, m) \cup IF b.cr[m].followCreature = None THEN {} ELSE {b}}

Act(b, m) ==
    IF IsIdle(b, m) THEN {b}
    ELSE IF b.cr[m].master # None THEN {ThinkAsSummon(b, m)}
    ELSE ThinkAsWild(b, m)

OnThink(b, m) ==
    UNION {IF m \in Wild /\ d.cr[m].at \in TooFar THEN {ReturnHome(d, m)}
           ELSE Act(UpdateIdleStatus(d, m), m) : d \in FollowPath(b, m)}

\* onDeath, Monster::death: the summons die with their master, at their next check.
OnDeath(b, m) ==
    LET calm == SetAttackedCreature(b, m, None)
        kill(s, d) == LoseMaster([d EXCEPT !.cr[s].alive = FALSE], s)
        alone == FoldSet(kill, calm, Summons(calm, m))
    IN RemoveCreature(LoseMaster(ClearTargetList(alone, m), m), m)

Check(b, c) ==
    IF ~b.cr[c].creatureCheck
    THEN {[b EXCEPT !.cr[c].inCheckCreaturesVector = FALSE, !.rel[c] = @ + 1]}
    ELSE IF c \in Player THEN {b}
    ELSE IF b.cr[c].alive THEN {DoAttacking(d, c) : d \in OnThink(b, c)}
    ELSE {OnDeath(b, c)}

-----------------------------------------------------------------------------
(* The steps of the dispatcher's thread.                                   *)

\* checkCreatures
CheckCreatures(c) ==
    /\ creature[c].inCheckCreaturesVector
    /\ \E b \in Check(Book, c) : Write(Cleanup(b))

\* checkCreatureAttack
CheckCreatureAttack(m) ==
    /\ m \in attackTasks
    /\ LET b == [Book EXCEPT !.tasks = @ \ {m}]
       IN Write(IF Here(b, m) /\ b.cr[m].alive THEN DoAttacking(b, m) ELSE b)

PlayerComes(p, place) ==
    /\ creature[p].where = "new"
    /\ Write(PlaceCreature(Book, p, place))

PlayerGoes(p) ==
    /\ Here(Book, p)
    /\ Write(RemoveCreature(Book, p))

\* The connection of a player is lost; he stays in the world without a client.
LoseClient(p) ==
    /\ Here(Book, p) /\ creature[p].client
    /\ Write([Book EXCEPT !.cr[p].client = FALSE])

\* ProtocolGame::connect: a client takes the player over.  No monster is told.
TakeOver(p) ==
    /\ Here(Book, p) /\ ~creature[p].client
    /\ Write([Book EXCEPT !.cr[p].client = TRUE,
                          !.dazed = @ \cup {m \in MonstersAt(Book, creature[p].at) : p \notin creature[m].targetList}])

SpawnMonster(m) ==
    /\ creature[m].where = "new"
    /\ Write(PlaceCreature(Book, m, Home))

\* A creature walks or is pushed.
StepTo(c, place) ==
    /\ Here(Book, c) /\ creature[c].at # place
    /\ Write(MoveCreature(Book, c, place))

\* A player takes a monster's last health.
Slay(p, m) ==
    /\ Here(Book, p) /\ creature[p].client
    /\ Here(Book, m) /\ creature[m].alive /\ Sees(Book, p, m)
    /\ Write([Book EXCEPT !.cr[m].alive = FALSE])

\* What the players do, and how the monsters come and walk.
Happens ==
    \/ \E c \in Creature, place \in Place : StepTo(c, place)
    \/ \E m \in Wild : SpawnMonster(m)
    \/ \E p \in Player :
        \/ PlayerGoes(p) \/ LoseClient(p) \/ TakeOver(p)
        \/ \E place \in Place : PlayerComes(p, place)
        \/ \E m \in Monster : Slay(p, m)

MonstersNext ==
    \/ happened < MaxHappenings /\ happened' = happened + 1 /\ Happens
    \/ /\ \/ \E c \in Creature : CheckCreatures(c)
          \/ \E m \in Monster : CheckCreatureAttack(m)
       /\ UNCHANGED happened

MonstersSpec == MonstersInit /\ [][MonstersNext]_monstersVars

-----------------------------------------------------------------------------
MonstersTypeOK ==
    /\ \A c \in Creature :
        /\ creature[c].where \in {"new", "world", "gone"} /\ creature[c].at \in Place
        /\ creature[c].targetList \subseteq Creature /\ creature[c].refs \in Nat
        /\ {creature[c].attackedCreature, creature[c].followCreature} \subseteq Creature \cup {None}
        /\ creature[c].master \in Monster \cup {None}
    /\ toRelease \in [Creature -> 0 .. 2]
    /\ attackTasks \subseteq Monster /\ dazed \subseteq Monster /\ happened \in 0 .. MaxHappenings

HeldBy(c) == Cardinality({m \in Monster : c \in creature[m].targetList})
CountOf(holds) == IF holds THEN 1 ELSE 0

\* Every creature has as many references as there are holders: it is not deleted
\* while the world, a list or a master has it, and it is deleted when none has.
CreatureRefsExact ==
    \A c \in Creature :
        creature[c].refs = CountOf(Here(Book, c)) + CountOf(creature[c].inCheckCreaturesVector)
                           + CountOf(creature[c].master # None) + toRelease[c] + HeldBy(c)

\* The pointers that hold no reference: whom a monster in the world attacks or
\* follows is in the world and in its sight, and a summon's master was not deleted.
PointersAreLive ==
    \A m \in Monster :
        /\ Here(Book, m) =>
              \A c \in {creature[m].attackedCreature, creature[m].followCreature} \ {None} :
                  Here(Book, c) /\ Sees(Book, m, c)
        /\ creature[m].master # None => creature[creature[m].master].where # "new"

\* No monster sleeps while somebody is near: a living monster that sees a player
\* with a client has him among its targets, and is checked; so is a monster without
\* health, or it would never die.  The exceptions are the monsters that have stopped
\* at a target without a connection, that were put back home, or that were not told
\* of a client that came back.
MonstersAreAwake ==
    \A m \in {n \in Monster \ dazed : Here(Book, n)} :
        /\ ~creature[m].alive => creature[m].creatureCheck
        /\ m \in Wild /\ creature[m].alive =>
              \A p \in Player :
                  Here(Book, p) /\ creature[p].client /\ Sees(Book, m, p)
                  => p \in creature[m].targetList /\ creature[m].creatureCheck
=============================================================================
