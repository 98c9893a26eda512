------------------------------- MODULE Spawns -------------------------------
(***************************************************************************)
(* One spawn and its monsters (src/src/spawn.cpp).                         *)
(*                                                                         *)
(* A spawn has a number of places, spawnMap, each of which should have a   *)
(* monster.  spawnedMap holds the monsters and a reference to each; a      *)
(* monster that strays out of the zone is moved to the number 0, so that   *)
(* its place gets another one.  The places are filled by checkSpawn, an    *)
(* event of the scheduler that exists only while there is something to do. *)
(*                                                                         *)
(* Time is left out: an event may happen at any time after it was added,   *)
(* and the interval of a place may be over at any time.                    *)
(***************************************************************************)
EXTENDS Integers, FiniteSetsExt

CONSTANTS
    SpawnId,        \* the keys of spawnMap; 0 is none of them
    NonBlockable,   \* those whose monsters come though a player is near
    SpawnedMonster, \* the Monster objects
    RateSpawn,      \* RATE_SPAWN: how many places one check fills
    MaxOddities     \* bound: the monsters that cannot be placed, are refused or convinced

ASSUME SpawnsAssumption ==
    /\ SpawnId \subseteq Nat \ {0} /\ NonBlockable \subseteq SpawnId
    /\ IsFiniteSet(SpawnId) /\ IsFiniteSet(SpawnedMonster)
    /\ RateSpawn \in Nat \ {0} /\ MaxOddities \in Nat

VARIABLES
    monster,        \* the monsters: where, in the zone or not, spawn, references
    spawnedMap,     \* pairs of a key and a monster
    due,            \* the places whose interval since lastSpawn is over
    checkSpawnEvent,
    scheduled,      \* of each place, the events of scheduleSpawn, two at most
    started,        \* Spawns::started
    neglected,      \* history: a place was left empty without a check
    oddities        \* bound

spawnsVars == <<monster, spawnedMap, due, checkSpawnEvent, scheduled, started, neglected, oddities>>

NewMonster == [where |-> "new", inZone |-> TRUE, spawn |-> FALSE, released |-> FALSE, refs |-> 0]

SpawnsInit ==
    /\ monster = [m \in SpawnedMonster |-> NewMonster]
    /\ spawnedMap = {}
    /\ due = SpawnId
    /\ checkSpawnEvent = FALSE
    /\ scheduled = [id \in SpawnId |-> 0]
    /\ started = FALSE
    /\ neglected = FALSE
    /\ oddities = 0

SpawnBook == [mon |-> monster, spawned |-> spawnedMap, due |-> due, odd |-> oddities]
WriteSpawn(b) ==
    monster' = b.mon /\ spawnedMap' = b.spawned /\ due' = b.due /\ oddities' = b.odd

Keys(spawned) == {pair[1] : pair \in spawned}
Unused(b) == {m \in SpawnedMonster : b.mon[m].where = "new"}

\* decrementReferenceCounter, n times
Released(x, n) == IF x.refs = n THEN NewMonster ELSE [x EXCEPT !.refs = @ - n]
UnrefMonster(b, m) == [b EXCEPT !.mon[m] = Released(@, 1)]

-----------------------------------------------------------------------------
\* spawnMonster, for each of some places: what may come of it.  The monster comes;
\* or it has no room and is deleted; or a script refuses it: then it is never
\* placed, and the spawn keeps a reference to it that nobody will give back.
Spawned(place) ==
    [where |-> place, inZone |-> TRUE, spawn |-> TRUE, released |-> FALSE,
     refs |-> IF place = "world" THEN 2 ELSE 1]
Populated(b, came, refused, who) ==
    LET arrive == {who[id] : id \in came}
        leak == {who[id] : id \in refused}
    IN [b EXCEPT !.mon = [m \in SpawnedMonster |-> IF m \in arrive THEN Spawned("world")
                                                   ELSE IF m \in leak THEN Spawned("refused") ELSE @[m]],
                 !.spawned = @ \cup {<<id, who[id]>> : id \in came},
                 !.due = @ \ (came \cup refused)]
SpawnMonsters(b, ids) ==
    \E came \in SUBSET ids : \E refused \in SUBSET (ids \ came) :
        \E who \in [came \cup refused -> Unused(b)] :
            LET odd == b.odd + Cardinality(ids \ came)
            IN /\ \A i, j \in came \cup refused : who[i] = who[j] => i = j
               /\ odd <= MaxOddities
               /\ WriteSpawn([Populated(b, came, refused, who) EXCEPT !.odd = odd])

\* Spawn::startup: all the places, with no event for those that stay empty.
StartSpawn ==
    /\ ~started
    /\ started' = TRUE
    /\ SpawnMonsters(SpawnBook, SpawnId)
    /\ neglected' = (Keys(spawnedMap') # SpawnId)
    /\ UNCHANGED <<checkSpawnEvent, scheduled>>

\* cleanup of spawnedMap
CleanupSpawned(b) ==
    LET removed == {pair \in b.spawned : b.mon[pair[2]].where = "gone"}
        strayed == {pair \in b.spawned \ removed : pair[1] # 0 /\ ~b.mon[pair[2]].inZone}
    IN [b EXCEPT !.mon = [m \in SpawnedMonster |-> Released(@[m], Cardinality({pair \in removed : pair[2] = m}))],
                 !.spawned = (@ \ (removed \cup strayed)) \cup {<<0, pair[2]>> : pair \in strayed},
                 !.due = @ \ {pair[1] : pair \in removed}]

\* The loop of checkSpawn sees the places that are free and due in the order of
\* the map, until RateSpawn of them were filled.  A player near the place of a
\* blockable monster delays it by another interval.
FillPlaces(b) ==
    LET free == b.due \ Keys(b.spawned)
    IN \E seen \in SUBSET free : \E filled \in SUBSET seen :
        LET delayed == seen \ filled
            isLast(id) == id \in seen /\ \A other \in seen : other <= id
        IN /\ seen \cap NonBlockable \subseteq filled
           /\ \A id \in seen, other \in free \ seen : id < other
           /\ Cardinality(filled) <= RateSpawn
           /\ Cardinality(filled) < RateSpawn => seen = free
           /\ Cardinality(filled) = RateSpawn => \A id \in delayed : ~isLast(id)
           /\ SpawnMonsters([b EXCEPT !.due = @ \ delayed], filled \ NonBlockable)
           /\ scheduled' = [id \in SpawnId |-> scheduled[id] + IF id \in filled \cap NonBlockable THEN 1 ELSE 0]

\* Faulty: the check is over, whether or not a place is empty.
CheckAgain_Never(spawned) == FALSE
CheckAgain(spawned) == Cardinality(spawned) < Cardinality(SpawnId)

CheckSpawn ==
    /\ checkSpawnEvent
    /\ \A id \in SpawnId : scheduled[id] < 2
    /\ FillPlaces(CleanupSpawned(SpawnBook))
    /\ checkSpawnEvent' = CheckAgain(spawnedMap')
    /\ UNCHANGED <<started, neglected>>

\* scheduleSpawn, when the last of its events is due.
ScheduledSpawn(id) ==
    /\ scheduled[id] > 0
    /\ scheduled' = [scheduled EXCEPT ![id] = @ - 1]
    /\ SpawnMonsters(SpawnBook, {id})
    /\ UNCHANGED <<checkSpawnEvent, started, neglected>>

\* Monster::onRemoveCreature with Game::removeCreature: startSpawnCheck.
MonsterRemoved(m) ==
    /\ monster[m].where = "world"
    /\ monster' = [monster EXCEPT ![m] = [@ EXCEPT !.where = "gone", !.released = TRUE]]
    /\ checkSpawnEvent' = (checkSpawnEvent \/ monster[m].spawn)
    /\ neglected' = (neglected /\ ~monster[m].spawn)
    /\ UNCHANGED <<spawnedMap, due, scheduled, started, oddities>>

\* Game::cleanup gives up the reference of the world.
ReleaseMonster(m) ==
    /\ monster[m].released
    /\ WriteSpawn(UnrefMonster([SpawnBook EXCEPT !.mon[m].released = FALSE], m))
    /\ UNCHANGED <<checkSpawnEvent, scheduled, started, neglected>>

\* Spawn::removeMonster
RemoveSpawned(b, m) ==
    IF \E pair \in b.spawned : pair[2] = m
    THEN UnrefMonster([b EXCEPT !.spawned = {pair \in @ : pair[2] # m}], m) ELSE b

\* convinceCreature: the monster belongs to its convincer.  Nothing starts a check.
Convince(m) ==
    /\ monster[m].where = "world" /\ monster[m].spawn
    /\ oddities < MaxOddities
    /\ WriteSpawn(RemoveSpawned([SpawnBook EXCEPT !.odd = @ + 1, !.mon[m].spawn = FALSE], m))
    /\ neglected' = (neglected \/ ~checkSpawnEvent)
    /\ UNCHANGED <<checkSpawnEvent, scheduled, started>>

\* A monster crosses the border of the zone; the interval of a place is over.
Stray(m) ==
    /\ monster[m].where = "world"
    /\ monster' = [monster EXCEPT ![m].inZone = ~@]
    /\ UNCHANGED <<spawnedMap, due, checkSpawnEvent, scheduled, started, neglected, oddities>>
IntervalOver(id) ==
    /\ id \notin due
    /\ due' = due \cup {id}
    /\ UNCHANGED <<monster, spawnedMap, checkSpawnEvent, scheduled, started, neglected, oddities>>

SpawnsNext ==
    \/ StartSpawn
    \/ CheckSpawn
    \/ \E id \in SpawnId : ScheduledSpawn(id) \/ IntervalOver(id)
    \/ \E m \in SpawnedMonster : MonsterRemoved(m) \/ ReleaseMonster(m) \/ Convince(m) \/ Stray(m)

SpawnsSpec == SpawnsInit /\ [][SpawnsNext]_spawnsVars

-----------------------------------------------------------------------------
SpawnsTypeOK ==
    /\ \A m \in SpawnedMonster : monster[m].where \in {"new", "world", "gone", "refused"} /\ monster[m].refs \in 0 .. 2
    /\ spawnedMap \subseteq (SpawnId \cup {0}) \X SpawnedMonster
    /\ due \subseteq SpawnId /\ scheduled \in [SpawnId -> 0 .. 2]
    /\ {checkSpawnEvent, started, neglected} \subseteq BOOLEAN

Count(holds) == IF holds THEN 1 ELSE 0

\* The spawn has a reference to each monster it counts, which it counts once, and
\* the world to each one that is in it; the refused are never given back.
SpawnRefsExact ==
    \A m \in SpawnedMonster :
        LET counted == {pair \in spawnedMap : pair[2] = m}
        IN /\ Cardinality(counted) <= 1
           /\ monster[m].where # "refused" =>
                monster[m].refs = Count(monster[m].where = "world" \/ monster[m].released) + Cardinality(counted)

\* No place is forgotten: as long as a place has no monster, or a dead one, a
\* check is on its way.  The exceptions are the spawns that have lost a monster
\* without being told, or that count a stray for the one that is missing.
EmptyPlacesAreChecked ==
    LET alive == {pair \in spawnedMap : monster[pair[2]].where = "world"}
    IN started /\ ~neglected /\ 0 \notin {pair[1] : pair \in spawnedMap}
       /\ SpawnId \ {pair[1] : pair \in alive} # {}
       => checkSpawnEvent \/ \E id \in SpawnId : Cardinality({pair \in alive : pair[1] = id}) > 1
=============================================================================
