SPECIFICATION Spec
CONSTANTS
    Player = {a, b, p, g}
    Premium = {p}
    AlwaysLogin = {g}
    MaxPlayers = 1
    Timeout = 2
    MaxClock = 4
    SizeModulus = 6
PROPERTY ExpiredLeave
