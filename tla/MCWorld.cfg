SPECIFICATION WorldSpec
CONSTANTS
    None = None
    Player = {a, b}
    \* CreatureWalk
    MaxEvents = 4
    IdModulus = 5
    MaxPath = 2
    \* Monsters
    Wild = {m}
    Summon = {s}
    Place = {1, 2}
    Home = 1
    TooFar = {2}
    MaxHappenings = 6
    \* Spawns
    SpawnId = {1, 2}
    NonBlockable = {2}
    SpawnedMonster = {w1, w2, w3}
    RateSpawn = 1
    MaxOddities = 1
    \* Decay
    Item = {"item"}
    Kind = {"lit", "out", "burnt", "ring", "worn"}
    DecayTime <- MCDecayTime
    DecayTo <- MCDecayTo
    StopTime = {"ring"}
    Becomes <- MCBecomes
    MaxItemEvents = 5
    Nothing = Nothing
    Never = Never
    \* Items
    StackKind = {coin}
    SingleKind = {axe}
    Container = {bag, pouch}
    StackMax = 2
    Capacity = 2
    Strength = 4
    AddAmount = {1, 2}
    MaxAdds = 1
    \* OpenContainers
    Bag = {bag, pouch}
    Square = {1, 2, 3}
    Cid = {0, 1}
INVARIANTS
    OneChain
    ReferencesExact
    PointersAreLive
    NobodyIsForgotten
    DecayInTime
    CachedWeightsExact
    OpenInReach
PROPERTIES
    ItemsConserved
CHECK_DEADLOCK FALSE
