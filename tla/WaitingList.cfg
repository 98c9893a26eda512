SPECIFICATION SpecPatient
CONSTANTS
    Player = {a, b, p, q}
    Premium = {p, q}
    AlwaysLogin = {}
    MaxPlayers = 2
    Timeout = 2
    MaxClock = 3
    SizeModulus = 6
INVARIANTS
    OnePlace
PROPERTIES
    RoomForThoseAhead
    PremiumGetsIn
