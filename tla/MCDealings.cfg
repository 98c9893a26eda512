SPECIFICATION DealingsSpec
CONSTANTS
    None = None
    Player = {a, b, c}
    \* Trade
    Item = {bag, coin1, coin2}
    Container = {bag}
    Stack = {coin1, coin2}
    Capacity = 1
    Slots = 1
    Street = {1, 2, 3, 4}
    Tile = {2}
    MaxChanges = 1
    \* Party
    PartyId = {coin1, coin2}
    Level = {1, 3}
    Region = {1, 2}
    MaxPartyChanges = 1
    \* Casting
    Client = {a, b, c}
    Character = {coin1, coin2}
    Object = {1, 2, 3}
    MaxQueue = 2
    MaxOdd = 1
SYMMETRY Symmetry
INVARIANTS
    TradesAgree
    PartiesAgree
    CastsAgree
PROPERTIES
    OfferStands
    TransferIsSwap
CHECK_DEADLOCK FALSE
